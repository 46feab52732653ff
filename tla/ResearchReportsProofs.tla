----------------------- MODULE ResearchReportsProofs -----------------------
(***************************************************************************)
(* Proofs about ResearchReports, for every set of findings and cards, and  *)
(* every number of workers, messages and faults.                           *)
(*                                                                         *)
(* What a worker knows of the row is what the argument turns on.  While    *)
(* only one run was started, that run has retrieved the source of every    *)
(* finding, so it withholds nothing (OneRun).  While one worker at a time  *)
(* has the report, its instance agrees with the row (Alone).  And whoever  *)
(* writes a terminal state is on the way to tell it (ToldOK).              *)
(***************************************************************************)
EXTENDS ResearchReports, FiniteSetTheorems, TLAPS

WorkerType == [step : Steps, findings : SUBSET Findings, retrieved : SUBSET Findings,
               outcome : Terminal \cup {"none"}]

(* What a worker may remember between two steps.                             *)
WorkerOK(x) ==
    /\ x \in WorkerType
    /\ x.step = "telling" <=> x.outcome # "none"
    /\ x.step = "idle" => x = Idle

WorkersOK ==
    /\ worker \in [Workers -> WorkerType]
    /\ \A w \in Workers : WorkerOK(worker[w]) /\ worker[w].findings \subseteq recorded

RowOK ==
    /\ status \in {"NONE"} \cup Active \cup Terminal
    /\ stale \in BOOLEAN
    /\ findings \subseteq recorded /\ recorded \subseteq Findings
    /\ steps \in Nat /\ queue \in 0..MaxQueue /\ faults \in 0..MaxFaults
    /\ told \subseteq Terminal
    /\ composed \in 0..2 /\ legs \in 0..2
    /\ shared \in BOOLEAN /\ reopened \in BOOLEAN

Shape == WorkersOK /\ RowOK

-----------------------------------------------------------------------------

(* A step that changes one worker, and at the most adds to recorded.         *)
LEMMA ReplaceWorker ==
    ASSUME WorkersOK, recorded \subseteq recorded', NEW w \in Workers, NEW x,
           WorkerOK(x), x.findings \subseteq recorded', worker' = [worker EXCEPT ![w] = x]
    PROVE  WorkersOK'
<1>1. worker' \in [Workers -> WorkerType]
    BY DEF WorkersOK, WorkerOK
<1>2. \A v \in Workers : worker'[v] = IF v = w THEN x ELSE worker[v]
    BY DEF WorkersOK
<1> QED
    BY <1>1, <1>2 DEF WorkersOK

(* A step keeps the types.                                                   *)
LEMMA ShapeStep == ASSUME Shape, [Next]_vars PROVE Shape'
<1>a. /\ worker \in [Workers -> WorkerType] /\ findings \subseteq recorded /\ recorded \subseteq Findings
      /\ \A w \in Workers : WorkerOK(worker[w]) /\ worker[w].findings \subseteq recorded
    BY DEF Shape, WorkersOK, RowOK
<1>i. Idle = [step |-> "idle", findings |-> {}, retrieved |-> {}, outcome |-> "none"]
    BY DEF Idle
<1>n. \A n \in 0..2 : Upto2(n) \in 0..2
    BY DEF Upto2
<1>1. ASSUME Start PROVE Shape'
    <2>1. WorkersOK'
        BY <1>1 DEF Start, Shape, WorkersOK
    <2>2. RowOK'
        BY <1>1, ResearchAssumption DEF Start, Shape, RowOK, Active, Terminal
    <2> QED
        BY <2>1, <2>2 DEF Shape
<1>2. ASSUME NEW w \in Workers, Deliver(w) PROVE Shape'
    <2>1. CASE status \in Terminal
        <3>1. WorkersOK'
            BY <1>2, <2>1 DEF Deliver, Shape, WorkersOK
        <3>2. RowOK'
            BY <1>2, <2>1, ResearchAssumption DEF Deliver, Shape, RowOK
        <3> QED
            BY <3>1, <3>2 DEF Shape
    <2>2. CASE status \notin Terminal
        <3> DEFINE x == [worker[w] EXCEPT !.step = "loaded", !.findings = findings]
        <3>1. worker' = [worker EXCEPT ![w] = x] /\ recorded \subseteq recorded' /\ worker[w] = Idle
            BY <1>2, <2>2, <1>a DEF Deliver
        <3>2. WorkerOK(x) /\ x.findings \subseteq recorded'
            BY <1>2, <3>1, <1>a, <1>i DEF Deliver, WorkerOK, WorkerType, Steps, Terminal, Idle
        <3> HIDE DEF x
        <3>3. WorkersOK'
            BY <3>1, <3>2, ReplaceWorker DEF Shape
        <3>4. RowOK'
            BY <1>2, <2>2, ResearchAssumption DEF Deliver, Shape, RowOK
        <3> QED
            BY <3>3, <3>4 DEF Shape
    <2> QED
        BY <2>1, <2>2
<1>3. ASSUME NEW w \in Workers, MarkStarted(w) PROVE Shape'
    <2> DEFINE x == [worker[w] EXCEPT !.step = "preparing"]
    <2>1. worker' = [worker EXCEPT ![w] = x] /\ recorded \subseteq recorded'
        BY <1>3, <1>a DEF MarkStarted, Go
    <2>2. WorkerOK(x) /\ x.findings \subseteq recorded'
        BY <1>3, <1>a, <1>i DEF MarkStarted, Go, WorkerOK, WorkerType, Steps, Terminal
    <2> HIDE DEF x
    <2>3. WorkersOK'
        BY <2>1, <2>2, ReplaceWorker DEF Shape
    <2>4. RowOK'
        <3>1. legs' \in 0..2
            BY <1>3, <1>a, <1>n, ResearchAssumption DEF MarkStarted, Go, Shape, RowOK, WorkerOK, WorkerType, Active, Terminal
        <3> QED
            BY <1>3, <3>1 DEF MarkStarted, Go, Shape, RowOK, Active, Terminal
    <2> QED
        BY <2>3, <2>4 DEF Shape
<1>4. ASSUME NEW w \in Workers, Prepare(w) PROVE Shape'
    <2> DEFINE x == [worker[w] EXCEPT !.step = "running"]
    <2>1. worker' = [worker EXCEPT ![w] = x] /\ recorded \subseteq recorded'
        BY <1>4, <1>a DEF Prepare, Go
    <2>2. WorkerOK(x) /\ x.findings \subseteq recorded'
        BY <1>4, <1>a, <1>i DEF Prepare, Go, WorkerOK, WorkerType, Steps, Terminal
    <2> HIDE DEF x
    <2>3. WorkersOK'
        BY <2>1, <2>2, ReplaceWorker DEF Shape
    <2>4. RowOK'
        BY <1>4, <1>a, <1>n, ResearchAssumption DEF Prepare, Go, Shape, RowOK, Active, Terminal
    <2> QED
        BY <2>3, <2>4 DEF Shape
<1>5. ASSUME NEW w \in Workers, ChatEnds(w) PROVE Shape'
    <2> DEFINE x == [worker[w] EXCEPT !.step = "ended"]
    <2>1. worker' = [worker EXCEPT ![w] = x] /\ recorded \subseteq recorded'
        BY <1>5, <1>a DEF ChatEnds, Go
    <2>2. WorkerOK(x) /\ x.findings \subseteq recorded'
        BY <1>5, <1>a, <1>i DEF ChatEnds, Go, WorkerOK, WorkerType, Steps, Terminal
    <2> HIDE DEF x
    <2>3. WorkersOK'
        BY <2>1, <2>2, ReplaceWorker DEF Shape
    <2>4. RowOK'
        BY <1>5, <1>a, <1>n, ResearchAssumption DEF ChatEnds, Go, Shape, RowOK, Active, Terminal
    <2> QED
        BY <2>3, <2>4 DEF Shape
<1>6. ASSUME NEW w \in Workers, Refresh(w) PROVE Shape'
    <2> DEFINE x == IF status = "COMPLETED" THEN [Idle EXCEPT !.step = "telling", !.outcome = "COMPLETED"]
                    ELSE [worker[w] EXCEPT !.step = "salvaging", !.findings = findings]
    <2>1. worker' = [worker EXCEPT ![w] = x] /\ recorded \subseteq recorded'
        BY <1>6, <1>a DEF Refresh, Ending
    <2>2. WorkerOK(x) /\ x.findings \subseteq recorded'
        BY <1>6, <1>a, <1>i DEF Refresh, Ending, WorkerOK, WorkerType, Steps, Terminal
    <2> HIDE DEF x
    <2>3. WorkersOK'
        BY <2>1, <2>2, ReplaceWorker DEF Shape
    <2>4. RowOK'
        BY <1>6, <1>a, <1>n, ResearchAssumption DEF Refresh, Ending, Shape, RowOK, Active, Terminal
    <2> QED
        BY <2>3, <2>4 DEF Shape
<1>7. ASSUME NEW w \in Workers, Salvage(w) PROVE Shape'
    <2> DEFINE x == [Idle EXCEPT !.step = "telling", !.outcome = "COMPLETED"]
    <2>1. worker' = [worker EXCEPT ![w] = x] /\ recorded \subseteq recorded'
        BY <1>7, <1>a DEF Salvage, Ending, Compose
    <2>2. WorkerOK(x) /\ x.findings \subseteq recorded'
        BY <1>7, <1>a, <1>i DEF Salvage, Ending, Compose, WorkerOK, WorkerType, Steps, Terminal
    <2> HIDE DEF x
    <2>3. WorkersOK'
        BY <2>1, <2>2, ReplaceWorker DEF Shape
    <2>4. RowOK'
        <3>1. composed' \in 0..2 /\ findings' \subseteq recorded /\ faults' \in 0..MaxFaults
            BY <1>7, <1>a, <1>n, ResearchAssumption DEF Salvage, Ending, Compose, Shape, RowOK, WorkerOK, WorkerType, Active, Terminal
        <3> QED
            BY <1>7, <3>1 DEF Salvage, Ending, Compose, Shape, RowOK, Active, Terminal
    <2> QED
        BY <2>3, <2>4 DEF Shape
<1>8. ASSUME NEW w \in Workers, MarkFailed(w) PROVE Shape'
    <2> DEFINE x == [Idle EXCEPT !.step = "telling", !.outcome = "FAILED"]
    <2>1. worker' = [worker EXCEPT ![w] = x] /\ recorded \subseteq recorded'
        BY <1>8, <1>a DEF MarkFailed, Ending
    <2>2. WorkerOK(x) /\ x.findings \subseteq recorded'
        BY <1>8, <1>a, <1>i DEF MarkFailed, Ending, WorkerOK, WorkerType, Steps, Terminal
    <2> HIDE DEF x
    <2>3. WorkersOK'
        BY <2>1, <2>2, ReplaceWorker DEF Shape
    <2>4. RowOK'
        BY <1>8, <1>a, <1>n, ResearchAssumption DEF MarkFailed, Ending, Shape, RowOK, Active, Terminal
    <2> QED
        BY <2>3, <2>4 DEF Shape
<1>9. ASSUME NEW w \in Workers, MarkCancelled(w) PROVE Shape'
    <2> DEFINE x == [Idle EXCEPT !.step = "telling", !.outcome = "CANCELLED"]
    <2>1. worker' = [worker EXCEPT ![w] = x] /\ recorded \subseteq recorded'
        BY <1>9, <1>a DEF MarkCancelled, Ending
    <2>2. WorkerOK(x) /\ x.findings \subseteq recorded'
        BY <1>9, <1>a, <1>i DEF MarkCancelled, Ending, WorkerOK, WorkerType, Steps, Terminal
    <2> HIDE DEF x
    <2>3. WorkersOK'
        BY <2>1, <2>2, ReplaceWorker DEF Shape
    <2>4. RowOK'
        BY <1>9, <1>a, <1>n, ResearchAssumption DEF MarkCancelled, Ending, Shape, RowOK, Active, Terminal
    <2> QED
        BY <2>3, <2>4 DEF Shape
<1>10. ASSUME NEW w \in Workers, Tell(w) PROVE Shape'
    <2> DEFINE x == Idle
    <2>1. worker' = [worker EXCEPT ![w] = x] /\ recorded \subseteq recorded'
        BY <1>10, <1>a DEF Tell
    <2>2. WorkerOK(x) /\ x.findings \subseteq recorded'
        BY <1>10, <1>a, <1>i DEF Tell, WorkerOK, WorkerType, Steps, Terminal
    <2> HIDE DEF x
    <2>3. WorkersOK'
        BY <2>1, <2>2, ReplaceWorker DEF Shape
    <2>4. RowOK'
        <3>1. told' \subseteq Terminal
            BY <1>10, <1>a, <1>n, ResearchAssumption DEF Tell, Shape, RowOK, WorkerOK, WorkerType, Active, Terminal
        <3> QED
            BY <1>10, <3>1 DEF Tell, Shape, RowOK, Active, Terminal
    <2> QED
        BY <2>3, <2>4 DEF Shape
<1>11. ASSUME NEW w \in Workers, FinalizeReport(w) PROVE Shape'
    <2> DEFINE x == [worker[w] EXCEPT !.findings = findings']
    <2>1. worker' = [worker EXCEPT ![w] = x] /\ recorded \subseteq recorded'
        BY <1>11, <1>a DEF FinalizeReport, Compose
    <2>2. WorkerOK(x) /\ x.findings \subseteq recorded'
        BY <1>11, <1>a, <1>i DEF FinalizeReport, Compose, WorkerOK, WorkerType, Steps, Terminal
    <2> HIDE DEF x
    <2>3. WorkersOK'
        BY <2>1, <2>2, ReplaceWorker DEF Shape
    <2>4. RowOK'
        <3>1. composed' \in 0..2 /\ findings' \subseteq recorded
            BY <1>11, <1>a, <1>n, ResearchAssumption DEF FinalizeReport, Compose, Shape, RowOK, WorkerOK, WorkerType, Active, Terminal
        <3> QED
            BY <1>11, <3>1 DEF FinalizeReport, Compose, Shape, RowOK, Active, Terminal
    <2> QED
        BY <2>3, <2>4 DEF Shape
<1>12. ASSUME NEW w \in Workers, Die(w) PROVE Shape'
    <2> DEFINE x == Idle
    <2>1. worker' = [worker EXCEPT ![w] = x] /\ recorded \subseteq recorded'
        BY <1>12, <1>a DEF Die
    <2>2. WorkerOK(x) /\ x.findings \subseteq recorded'
        BY <1>12, <1>a, <1>i DEF Die, WorkerOK, WorkerType, Steps, Terminal
    <2> HIDE DEF x
    <2>3. WorkersOK'
        BY <2>1, <2>2, ReplaceWorker DEF Shape
    <2>4. RowOK'
        BY <1>12, <1>a, <1>n, ResearchAssumption DEF Die, Shape, RowOK, Active, Terminal
    <2> QED
        BY <2>3, <2>4 DEF Shape
<1>13. ASSUME NEW w \in Workers, NEW f \in Findings, Retrieve(w, f) PROVE Shape'
    <2> DEFINE x == [worker[w] EXCEPT !.retrieved = @ \cup {f}]
    <2>1. worker' = [worker EXCEPT ![w] = x] /\ recorded \subseteq recorded'
        BY <1>13, <1>a DEF Retrieve
    <2>2. WorkerOK(x) /\ x.findings \subseteq recorded'
        BY <1>13, <1>a, <1>i DEF Retrieve, WorkerOK, WorkerType, Steps, Terminal
    <2> HIDE DEF x
    <2>3. WorkersOK'
        BY <2>1, <2>2, ReplaceWorker DEF Shape
    <2>4. RowOK'
        BY <1>13, <1>a, <1>n, ResearchAssumption DEF Retrieve, Shape, RowOK, Active, Terminal
    <2> QED
        BY <2>3, <2>4 DEF Shape
<1>14. ASSUME NEW w \in Workers, NEW f \in Findings, RecordFinding(w, f) PROVE Shape'
    <2> DEFINE x == [worker[w] EXCEPT !.findings = findings \cup {f}, !.retrieved = @ \cup {f}]
    <2>1. worker' = [worker EXCEPT ![w] = x] /\ recorded \subseteq recorded'
        BY <1>14, <1>a DEF RecordFinding
    <2>2. WorkerOK(x) /\ x.findings \subseteq recorded'
        BY <1>14, <1>a, <1>i DEF RecordFinding, WorkerOK, WorkerType, Steps, Terminal
    <2> HIDE DEF x
    <2>3. WorkersOK'
        BY <2>1, <2>2, ReplaceWorker DEF Shape
    <2>4. RowOK'
        <3>1. findings' \subseteq recorded' /\ recorded' \subseteq Findings /\ steps' \in Nat
            BY <1>14, <1>a, <1>n, ResearchAssumption DEF RecordFinding, Shape, RowOK, WorkerOK, WorkerType, Active, Terminal
        <3> QED
            BY <1>14, <3>1 DEF RecordFinding, Shape, RowOK, Active, Terminal
    <2> QED
        BY <2>3, <2>4 DEF Shape
<1>15. ASSUME Age PROVE Shape'
    <2>1. WorkersOK'
        BY <1>15 DEF Age, Shape, WorkersOK
    <2>2. RowOK'
        BY <1>15, ResearchAssumption DEF Age, Shape, RowOK, Active, Terminal
    <2> QED
        BY <2>1, <2>2 DEF Shape
<1>16. ASSUME Reap PROVE Shape'
    <2>1. WorkersOK'
        BY <1>16 DEF Reap, Shape, WorkersOK
    <2>2. RowOK'
        BY <1>16, ResearchAssumption DEF Reap, Shape, RowOK, Active, Terminal
    <2> QED
        BY <2>1, <2>2 DEF Shape
<1>17. ASSUME UNCHANGED vars PROVE Shape'
    <2>1. WorkersOK'
        BY <1>17 DEF vars, Shape, WorkersOK
    <2>2. RowOK'
        BY <1>17, ResearchAssumption DEF vars, Shape, RowOK, Active, Terminal
    <2> QED
        BY <2>1, <2>2 DEF Shape
<1> QED
    BY ONLY [Next]_vars, <1>1, <1>2, <1>3, <1>4, <1>5, <1>6, <1>7, <1>8, <1>9,
            <1>10, <1>11, <1>12, <1>13, <1>14, <1>15, <1>16, <1>17
       DEF Next, Proceed

-----------------------------------------------------------------------------

(* A report that was composed has ended, unless it was reopened.             *)
OnceOK ==
    /\ composed > 0 => status # "NONE" /\ (reopened \/ status \in Terminal)
    /\ ~reopened => composed <= 1

(* Composing asks for a report that has not ended, and nothing but a new run *)
(* leads out of a terminal state.                                            *)
LEMMA OnceStep == ASSUME Shape, OnceOK, [Next]_vars PROVE OnceOK'
<1>a. composed \in 0..2 /\ status \in {"NONE"} \cup Active \cup Terminal
    BY DEF Shape, RowOK
<1>b. Upto2(composed) \in 0..2 /\ (composed = 0 => Upto2(composed) = 1) /\ Upto2(composed) > 0
    BY <1>a DEF Upto2
<1>1. ASSUME Start PROVE OnceOK'
    BY <1>1, <1>a, <1>b DEF Start, OnceOK, Active, Terminal
<1>2. ASSUME NEW w \in Workers, Deliver(w) PROVE OnceOK'
    BY <1>2, <1>a, <1>b DEF Deliver, OnceOK, Active, Terminal
<1>3. ASSUME NEW w \in Workers, MarkStarted(w) PROVE OnceOK'
    BY <1>3, <1>a, <1>b DEF MarkStarted, Go, OnceOK, Active, Terminal
<1>4. ASSUME NEW w \in Workers, Prepare(w) PROVE OnceOK'
    BY <1>4, <1>a, <1>b DEF Prepare, Go, OnceOK, Active, Terminal
<1>5. ASSUME NEW w \in Workers, ChatEnds(w) PROVE OnceOK'
    BY <1>5, <1>a, <1>b DEF ChatEnds, Go, OnceOK, Active, Terminal
<1>6. ASSUME NEW w \in Workers, Refresh(w) PROVE OnceOK'
    BY <1>6, <1>a, <1>b DEF Refresh, Ending, OnceOK, Active, Terminal
<1>7. ASSUME NEW w \in Workers, Salvage(w) PROVE OnceOK'
    BY <1>7, <1>a, <1>b DEF Salvage, Ending, Compose, OnceOK, Active, Terminal
<1>8. ASSUME NEW w \in Workers, MarkFailed(w) PROVE OnceOK'
    BY <1>8, <1>a, <1>b DEF MarkFailed, Ending, OnceOK, Active, Terminal
<1>9. ASSUME NEW w \in Workers, MarkCancelled(w) PROVE OnceOK'
    BY <1>9, <1>a, <1>b DEF MarkCancelled, Ending, OnceOK, Active, Terminal
<1>10. ASSUME NEW w \in Workers, Tell(w) PROVE OnceOK'
    BY <1>10, <1>a, <1>b DEF Tell, OnceOK, Active, Terminal
<1>11. ASSUME NEW w \in Workers, FinalizeReport(w) PROVE OnceOK'
    BY <1>11, <1>a, <1>b DEF FinalizeReport, Compose, OnceOK, Active, Terminal
<1>12. ASSUME NEW w \in Workers, Die(w) PROVE OnceOK'
    BY <1>12, <1>a, <1>b DEF Die, OnceOK, Active, Terminal
<1>13. ASSUME NEW w \in Workers, NEW f \in Findings, Retrieve(w, f) PROVE OnceOK'
    BY <1>13, <1>a, <1>b DEF Retrieve, OnceOK, Active, Terminal
<1>14. ASSUME NEW w \in Workers, NEW f \in Findings, RecordFinding(w, f) PROVE OnceOK'
    BY <1>14, <1>a, <1>b DEF RecordFinding, OnceOK, Active, Terminal
<1>15. ASSUME Age PROVE OnceOK'
    BY <1>15, <1>a, <1>b DEF Age, OnceOK, Active, Terminal
<1>16. ASSUME Reap PROVE OnceOK'
    BY <1>16, <1>a, <1>b DEF Reap, OnceOK, Active, Terminal
<1>17. ASSUME UNCHANGED vars PROVE OnceOK'
    BY <1>17, <1>a, <1>b DEF vars, OnceOK, Active, Terminal
<1> QED
    BY ONLY [Next]_vars, <1>1, <1>2, <1>3, <1>4, <1>5, <1>6, <1>7, <1>8, <1>9,
            <1>10, <1>11, <1>12, <1>13, <1>14, <1>15, <1>16, <1>17
       DEF Next, Proceed

-----------------------------------------------------------------------------

(* step_count counts the findings that were recorded.                        *)
StepsCount == IsFiniteSet(recorded) /\ steps = Cardinality(recorded)

(* Under the row lock an append adds one finding and one step.               *)
LEMMA CountStep == ASSUME Shape, StepsCount, [Next]_vars PROVE StepsCount'
<1> USE DEF StepsCount
<1>1. ASSUME Start PROVE StepsCount'
    BY <1>1 DEF Start
<1>2. ASSUME NEW w \in Workers, Deliver(w) PROVE StepsCount'
    BY <1>2 DEF Deliver
<1>3. ASSUME NEW w \in Workers, MarkStarted(w) PROVE StepsCount'
    BY <1>3 DEF MarkStarted, Go
<1>4. ASSUME NEW w \in Workers, Prepare(w) PROVE StepsCount'
    BY <1>4 DEF Prepare, Go
<1>5. ASSUME NEW w \in Workers, ChatEnds(w) PROVE StepsCount'
    BY <1>5 DEF ChatEnds, Go
<1>6. ASSUME NEW w \in Workers, Refresh(w) PROVE StepsCount'
    BY <1>6 DEF Refresh, Ending
<1>7. ASSUME NEW w \in Workers, Salvage(w) PROVE StepsCount'
    BY <1>7 DEF Salvage
<1>8. ASSUME NEW w \in Workers, MarkFailed(w) PROVE StepsCount'
    BY <1>8 DEF MarkFailed, Ending
<1>9. ASSUME NEW w \in Workers, MarkCancelled(w) PROVE StepsCount'
    BY <1>9 DEF MarkCancelled, Ending
<1>10. ASSUME NEW w \in Workers, Tell(w) PROVE StepsCount'
    BY <1>10 DEF Tell
<1>11. ASSUME NEW w \in Workers, FinalizeReport(w) PROVE StepsCount'
    BY <1>11 DEF FinalizeReport
<1>12. ASSUME NEW w \in Workers, Die(w) PROVE StepsCount'
    BY <1>12 DEF Die
<1>13. ASSUME NEW w \in Workers, NEW f \in Findings, Retrieve(w, f) PROVE StepsCount'
    BY <1>13 DEF Retrieve
<1>14. ASSUME NEW w \in Workers, NEW f \in Findings, RecordFinding(w, f)
      PROVE  StepsCount'
    <2>1. recorded' = recorded \cup {f} /\ steps' = steps + 1 /\ f \notin recorded
        BY <1>14 DEF RecordFinding
    <2>2. IsFiniteSet(recorded \cup {f}) /\ Cardinality(recorded \cup {f}) = Cardinality(recorded) + 1
        BY <2>1, FS_AddElement
    <2> QED
        BY <2>1, <2>2
<1>15. ASSUME Age PROVE StepsCount'
    BY <1>15 DEF Age
<1>16. ASSUME Reap PROVE StepsCount'
    BY <1>16 DEF Reap
<1>17. ASSUME UNCHANGED vars PROVE StepsCount'
    BY <1>17 DEF vars
<1> QED
    BY ONLY [Next]_vars, <1>1, <1>2, <1>3, <1>4, <1>5, <1>6, <1>7, <1>8, <1>9,
            <1>10, <1>11, <1>12, <1>13, <1>14, <1>15, <1>16, <1>17
       DEF Next, Proceed

(* The steps of a run between mark_started and its end.                      *)
InRun == {"preparing", "running", "ended", "salvaging"}

(* While there was one run, it has retrieved whatever is recorded.           *)
OneRun ==
    /\ legs = 0 => /\ recorded = {} /\ composed = 0 /\ told = {}
                   /\ status \in {"NONE", "QUEUED"}
                   /\ \A w \in Workers : worker[w].step \in {"idle", "loaded"}
    /\ legs = 1 => \A w \in Workers : worker[w].step \in InRun =>
                      /\ recorded \subseteq worker[w].retrieved
                      /\ \A v \in Workers \ {w} : worker[v].step \notin InRun

(* A run retrieves what it records, and a second one is a second leg.        *)
LEMMA RunStep == ASSUME Shape, OneRun, [Next]_vars PROVE OneRun'
<1>a. worker \in [Workers -> WorkerType] /\ recorded \subseteq Findings
    BY DEF Shape, WorkersOK, RowOK
<1>b. legs \in 0..2 /\ Upto2(legs) > 0 /\ (Upto2(legs) = 1 => legs = 0)
    BY DEF Shape, RowOK, Upto2
<1>1. ASSUME Start PROVE OneRun'
    BY <1>1, <1>a, <1>b DEF Start, OneRun, InRun, WorkerType, Idle, Terminal
<1>2. ASSUME NEW w \in Workers, Deliver(w) PROVE OneRun'
    BY <1>2, <1>a, <1>b DEF Deliver, OneRun, InRun, WorkerType, Idle, Terminal
<1>3. ASSUME NEW w \in Workers, MarkStarted(w) PROVE OneRun'
    BY <1>3, <1>a, <1>b DEF MarkStarted, Go, OneRun, InRun, WorkerType, Idle, Terminal
<1>4. ASSUME NEW w \in Workers, Prepare(w) PROVE OneRun'
    BY <1>4, <1>a, <1>b DEF Prepare, Go, OneRun, InRun, WorkerType, Idle, Terminal
<1>5. ASSUME NEW w \in Workers, ChatEnds(w) PROVE OneRun'
    BY <1>5, <1>a, <1>b DEF ChatEnds, Go, OneRun, InRun, WorkerType, Idle, Terminal
<1>6. ASSUME NEW w \in Workers, Refresh(w) PROVE OneRun'
    <2>1. UNCHANGED <<legs, recorded, composed, told, status>> /\ worker[w].step = "ended"
        BY <1>6 DEF Refresh
    <2>2. \A v \in Workers \ {w} : worker'[v] = worker[v]
        BY <1>6, <1>a DEF Refresh, Ending
    <2>3. \/ worker'[w].step \notin InRun
          \/ worker'[w].retrieved = worker[w].retrieved
        <3>1. CASE status = "COMPLETED"
            BY <1>6, <1>a, <3>1 DEF Refresh, Ending, Idle, InRun
        <3>2. CASE status # "COMPLETED"
            <4>1. worker' = [worker EXCEPT ![w].step = "salvaging", ![w].findings = findings]
                BY <1>6, <3>2 DEF Refresh
            <4> QED
                BY <1>a, <4>1 DEF WorkerType
        <3> QED
            BY <3>1, <3>2
    <2> QED
        BY <2>1, <2>2, <2>3 DEF OneRun, InRun
<1>7. ASSUME NEW w \in Workers, Salvage(w) PROVE OneRun'
    BY <1>7, <1>a, <1>b DEF Salvage, Ending, Compose, OneRun, InRun, WorkerType, Idle, Terminal
<1>8. ASSUME NEW w \in Workers, MarkFailed(w) PROVE OneRun'
    BY <1>8, <1>a, <1>b DEF MarkFailed, Ending, OneRun, InRun, WorkerType, Idle, Terminal
<1>9. ASSUME NEW w \in Workers, MarkCancelled(w) PROVE OneRun'
    BY <1>9, <1>a, <1>b DEF MarkCancelled, Ending, OneRun, InRun, WorkerType, Idle, Terminal
<1>10. ASSUME NEW w \in Workers, Tell(w) PROVE OneRun'
    BY <1>10, <1>a, <1>b DEF Tell, OneRun, InRun, WorkerType, Idle, Terminal
<1>11. ASSUME NEW w \in Workers, FinalizeReport(w) PROVE OneRun'
    BY <1>11, <1>a, <1>b DEF FinalizeReport, Compose, OneRun, InRun, WorkerType, Idle, Terminal
<1>12. ASSUME NEW w \in Workers, Die(w) PROVE OneRun'
    BY <1>12, <1>a, <1>b DEF Die, OneRun, InRun, WorkerType, Idle, Terminal
<1>13. ASSUME NEW w \in Workers, NEW f \in Findings, Retrieve(w, f) PROVE OneRun'
    BY <1>13, <1>a, <1>b DEF Retrieve, OneRun, InRun, WorkerType, Idle, Terminal
<1>14. ASSUME NEW w \in Workers, NEW f \in Findings, RecordFinding(w, f) PROVE OneRun'
    BY <1>14, <1>a, <1>b DEF RecordFinding, OneRun, InRun, WorkerType, Idle, Terminal
<1>15. ASSUME Age PROVE OneRun'
    BY <1>15, <1>a, <1>b DEF Age, OneRun, InRun, WorkerType, Idle, Terminal
<1>16. ASSUME Reap PROVE OneRun'
    BY <1>16, <1>a, <1>b DEF Reap, OneRun, InRun, WorkerType, Idle, Terminal
<1>17. ASSUME UNCHANGED vars PROVE OneRun'
    BY <1>17, <1>a, <1>b DEF vars, OneRun, InRun, WorkerType, Idle, Terminal
<1> QED
    BY ONLY [Next]_vars, <1>1, <1>2, <1>3, <1>4, <1>5, <1>6, <1>7, <1>8, <1>9,
            <1>10, <1>11, <1>12, <1>13, <1>14, <1>15, <1>16, <1>17
       DEF Next, Proceed

(* Nothing is withheld before a second run.                                  *)
NothingLost == composed = 0 \/ legs = 1 => findings = recorded

(* The first run withholds no card, as it has retrieved them all.            *)
LEMMA LostStep == ASSUME Shape, OneRun, NothingLost, [Next]_vars PROVE NothingLost'
<1>b. legs \in 0..2 /\ (Upto2(legs) = 1 => legs = 0) /\ (legs = 0 => composed = 0)
      /\ composed \in 0..2 /\ Upto2(composed) > 0
    BY DEF Shape, RowOK, Upto2, OneRun
<1>c. ASSUME NEW w \in Workers, worker[w].step \in {"running", "salvaging"}, legs = 1
      PROVE  (worker[w].findings \cap Cards) \ worker[w].retrieved = {}
    BY <1>c DEF Shape, WorkersOK, OneRun, InRun
<1>1. ASSUME Start PROVE NothingLost'
    BY <1>1, <1>b, <1>c DEF Start, NothingLost
<1>2. ASSUME NEW w \in Workers, Deliver(w) PROVE NothingLost'
    BY <1>2, <1>b, <1>c DEF Deliver, NothingLost
<1>3. ASSUME NEW w \in Workers, MarkStarted(w) PROVE NothingLost'
    BY <1>3, <1>b, <1>c DEF MarkStarted, Go, NothingLost
<1>4. ASSUME NEW w \in Workers, Prepare(w) PROVE NothingLost'
    BY <1>4, <1>b, <1>c DEF Prepare, Go, NothingLost
<1>5. ASSUME NEW w \in Workers, ChatEnds(w) PROVE NothingLost'
    BY <1>5, <1>b, <1>c DEF ChatEnds, Go, NothingLost
<1>6. ASSUME NEW w \in Workers, Refresh(w) PROVE NothingLost'
    BY <1>6, <1>b, <1>c DEF Refresh, Ending, NothingLost
<1>7. ASSUME NEW w \in Workers, Salvage(w) PROVE NothingLost'
    BY <1>7, <1>b, <1>c DEF Salvage, Ending, Compose, NothingLost
<1>8. ASSUME NEW w \in Workers, MarkFailed(w) PROVE NothingLost'
    BY <1>8, <1>b, <1>c DEF MarkFailed, Ending, NothingLost
<1>9. ASSUME NEW w \in Workers, MarkCancelled(w) PROVE NothingLost'
    BY <1>9, <1>b, <1>c DEF MarkCancelled, Ending, NothingLost
<1>10. ASSUME NEW w \in Workers, Tell(w) PROVE NothingLost'
    BY <1>10, <1>b, <1>c DEF Tell, NothingLost
<1>11. ASSUME NEW w \in Workers, FinalizeReport(w) PROVE NothingLost'
    BY <1>11, <1>b, <1>c DEF FinalizeReport, Compose, NothingLost
<1>12. ASSUME NEW w \in Workers, Die(w) PROVE NothingLost'
    BY <1>12, <1>b, <1>c DEF Die, NothingLost
<1>13. ASSUME NEW w \in Workers, NEW f \in Findings, Retrieve(w, f) PROVE NothingLost'
    BY <1>13, <1>b, <1>c DEF Retrieve, NothingLost
<1>14. ASSUME NEW w \in Workers, NEW f \in Findings, RecordFinding(w, f)
      PROVE  NothingLost'
    BY <1>14, <1>b, <1>c DEF RecordFinding, NothingLost
<1>15. ASSUME Age PROVE NothingLost'
    BY <1>15, <1>b, <1>c DEF Age, NothingLost
<1>16. ASSUME Reap PROVE NothingLost'
    BY <1>16, <1>b, <1>c DEF Reap, NothingLost
<1>17. ASSUME UNCHANGED vars PROVE NothingLost'
    BY <1>17, <1>b, <1>c DEF vars, NothingLost
<1> QED
    BY ONLY [Next]_vars, <1>1, <1>2, <1>3, <1>4, <1>5, <1>6, <1>7, <1>8, <1>9,
            <1>10, <1>11, <1>12, <1>13, <1>14, <1>15, <1>16, <1>17
       DEF Next, Proceed

(* The steps in which a worker has an instance of the row.                   *)
Loaded == {"loaded", "preparing", "running", "ended", "salvaging"}

(* While one worker at a time has the report.                                *)
Alone ==
    ~shared =>
        /\ \A v, w \in Workers : v # w => worker[v] = Idle \/ worker[w] = Idle
        /\ \A w \in Workers : worker[w].step \in Loaded => worker[w].findings = findings
        /\ \A w \in Workers : worker[w].step \in InRun => status \in {"RUNNING", "COMPLETED"}
        /\ recorded \ findings \subseteq Cards

(* Then nobody else changes the row between a load and its use.              *)
LEMMA AloneStep == ASSUME Shape, OneRun, Alone, [Next]_vars PROVE Alone'
<1> DEFINE Good == /\ \A v, w \in Workers : v # w => worker[v] = Idle \/ worker[w] = Idle
                   /\ \A w \in Workers : worker[w].step \in Loaded => worker[w].findings = findings
                   /\ \A w \in Workers : worker[w].step \in InRun => status \in {"RUNNING", "COMPLETED"}
                   /\ recorded \ findings \subseteq Cards
<1> SUFFICES ASSUME ~shared' PROVE Good'
    BY DEF Alone
<1>l. Good
    <2>1. ~shared
        BY DEF Next, Proceed, Start, Deliver, MarkStarted, Prepare, ChatEnds, Refresh, Salvage,
               MarkFailed, MarkCancelled, Tell, FinalizeReport, Die, Retrieve, RecordFinding,
               Age, Reap, vars
    <2> QED
        BY <2>1 DEF Alone
<1>a. /\ worker \in [Workers -> WorkerType]
      /\ \A w \in Workers : worker[w].step = "idle" => worker[w] = Idle
    BY DEF Shape, WorkersOK, WorkerOK
<1>i. Idle.step = "idle" /\ Idle.step \notin Loaded /\ Idle.step \notin InRun
    BY DEF Idle, Loaded, InRun
<1>1. ASSUME Start PROVE Good'
    BY <1>1, <1>a, <1>i, <1>l DEF Start, InRun, Loaded, WorkerType, Idle, Terminal
<1>2. ASSUME NEW w \in Workers, Deliver(w) PROVE Good'
    <2>1. CASE status \in Terminal
        BY <1>2, <1>l, <2>1 DEF Deliver
    <2>2. CASE status \notin Terminal
        <3>1. worker' = [worker EXCEPT ![w].step = "loaded", ![w].findings = findings]
              /\ UNCHANGED <<status, findings, recorded>>
            BY <1>2, <2>2 DEF Deliver
        <3>2. \A v \in Workers : worker[v] = Idle
            BY <1>2, <1>l, <2>2 DEF Deliver
        <3>3. \A v \in Workers \ {w} : worker'[v] = Idle
            BY <1>a, <3>1, <3>2
        <3>4. worker'[w].step = "loaded" /\ worker'[w].findings = findings'
            BY <1>a, <3>1 DEF WorkerType
        <3> QED
            BY <1>i, <1>l, <3>1, <3>3, <3>4 DEF InRun
    <2> QED
        BY <2>1, <2>2
<1>3. ASSUME NEW w \in Workers, MarkStarted(w) PROVE Good'
    BY <1>3, <1>a, <1>i, <1>l DEF MarkStarted, Go, InRun, Loaded, WorkerType, Idle, Terminal
<1>4. ASSUME NEW w \in Workers, Prepare(w) PROVE Good'
    BY <1>4, <1>a, <1>i, <1>l DEF Prepare, Go, InRun, Loaded, WorkerType, Idle, Terminal
<1>5. ASSUME NEW w \in Workers, ChatEnds(w) PROVE Good'
    BY <1>5, <1>a, <1>i, <1>l DEF ChatEnds, Go, InRun, Loaded, WorkerType, Idle, Terminal
<1>6. ASSUME NEW w \in Workers, Refresh(w) PROVE Good'
    <2>0. worker[w].step = "ended" /\ worker[w].step \in InRun /\ UNCHANGED <<status, findings, recorded>>
        BY <1>6 DEF Refresh, InRun
    <2>1. \A v \in Workers \ {w} : worker'[v] = worker[v] /\ worker[v] = Idle
        BY <1>6, <1>a, <1>l, <1>i, <2>0 DEF Refresh, Ending
    <2>2. worker'[w].step \in Loaded => worker'[w].findings = findings'
        <3>1. CASE status = "COMPLETED"
            BY <1>6, <1>a, <3>1 DEF Refresh, Ending, Idle, Loaded
        <3>2. CASE status # "COMPLETED"
            <4>1. worker' = [worker EXCEPT ![w].step = "salvaging", ![w].findings = findings]
                BY <1>6, <3>2 DEF Refresh
            <4> QED
                BY <1>a, <2>0, <4>1 DEF WorkerType
        <3> QED
            BY <3>1, <3>2
    <2>3. status' \in {"RUNNING", "COMPLETED"}
        BY <1>l, <2>0
    <2> QED
        BY <1>i, <1>l, <2>0, <2>1, <2>2, <2>3
<1>7. ASSUME NEW w \in Workers, Salvage(w) PROVE Good'
    <2>0. worker[w].step \in InRun /\ worker[w].step \in Loaded
        BY <1>7 DEF Salvage, InRun, Loaded
    <2>1. findings' \in {findings, worker[w].findings \ ((worker[w].findings \cap Cards) \ worker[w].retrieved)}
          /\ recorded' = recorded
        BY <1>7 DEF Salvage, Ending, Compose
    <2>2. recorded' \ findings' \subseteq Cards
        BY <1>l, <2>0, <2>1
    <2>3. \A v \in Workers \ {w} : worker'[v] = worker[v] /\ worker[v] = Idle
        BY <1>7, <1>a, <1>l, <2>0, <1>i DEF Salvage, Ending, Compose, InRun
    <2>4. /\ worker'[w].step \in Loaded => worker'[w].findings = findings'
          /\ worker'[w].step \in InRun => status' = "COMPLETED"
        BY <1>7, <1>a DEF Salvage, Ending, Compose, Idle, InRun, Loaded, WorkerType
    <2> QED
        BY <1>i, <2>2, <2>3, <2>4 DEF InRun, Loaded
<1>8. ASSUME NEW w \in Workers, MarkFailed(w) PROVE Good'
    BY <1>8, <1>a, <1>i, <1>l DEF MarkFailed, Ending, InRun, Loaded, WorkerType, Idle, Terminal
<1>9. ASSUME NEW w \in Workers, MarkCancelled(w) PROVE Good'
    BY <1>9, <1>a, <1>i, <1>l DEF MarkCancelled, Ending, InRun, Loaded, WorkerType, Idle, Terminal
<1>10. ASSUME NEW w \in Workers, Tell(w) PROVE Good'
    BY <1>10, <1>a, <1>i, <1>l DEF Tell, InRun, Loaded, WorkerType, Idle, Terminal
<1>11. ASSUME NEW w \in Workers, FinalizeReport(w) PROVE Good'
    <2>0. worker[w].step \in InRun /\ worker[w].step \in Loaded
        BY <1>11 DEF FinalizeReport, InRun, Loaded
    <2>1. findings' \in {findings, worker[w].findings \ ((worker[w].findings \cap Cards) \ worker[w].retrieved)}
          /\ recorded' = recorded
        BY <1>11 DEF FinalizeReport, Compose
    <2>2. recorded' \ findings' \subseteq Cards
        BY <1>l, <2>0, <2>1
    <2>3. \A v \in Workers \ {w} : worker'[v] = worker[v] /\ worker[v] = Idle
        BY <1>11, <1>a, <1>l, <2>0, <1>i DEF FinalizeReport, Compose, InRun
    <2>4. /\ worker'[w].step \in Loaded => worker'[w].findings = findings'
          /\ worker'[w].step \in InRun => status' = "COMPLETED"
        BY <1>11, <1>a DEF FinalizeReport, Compose, Idle, InRun, Loaded, WorkerType
    <2> QED
        BY <1>i, <2>2, <2>3, <2>4 DEF InRun, Loaded
<1>12. ASSUME NEW w \in Workers, Die(w) PROVE Good'
    BY <1>12, <1>a, <1>i, <1>l DEF Die, InRun, Loaded, WorkerType, Idle, Terminal
<1>13. ASSUME NEW w \in Workers, NEW f \in Findings, Retrieve(w, f) PROVE Good'
    BY <1>13, <1>a, <1>i, <1>l DEF Retrieve, InRun, Loaded, WorkerType, Idle, Terminal
<1>14. ASSUME NEW w \in Workers, NEW f \in Findings, RecordFinding(w, f) PROVE Good'
    BY <1>14, <1>a, <1>i, <1>l DEF RecordFinding, InRun, Loaded, WorkerType, Idle, Terminal
<1>15. ASSUME Age PROVE Good'
    BY <1>15, <1>a, <1>i, <1>l DEF Age, InRun, Loaded, WorkerType, Idle, Terminal
<1>16. ASSUME Reap PROVE Good'
    BY <1>16, <1>a, <1>i, <1>l DEF Reap, InRun, Loaded, WorkerType, Idle, Terminal
<1>17. ASSUME UNCHANGED vars PROVE Good'
    BY <1>17, <1>a, <1>i, <1>l DEF vars, InRun, Loaded, WorkerType, Idle, Terminal
<1> QED
    BY ONLY [Next]_vars, <1>1, <1>2, <1>3, <1>4, <1>5, <1>6, <1>7, <1>8, <1>9,
            <1>10, <1>11, <1>12, <1>13, <1>14, <1>15, <1>16, <1>17
       DEF Next, Proceed

(* A terminal state was told, or will be by who is about to.                 *)
ToldOK ==
    /\ status = "COMPLETED" => composed > 0
    /\ faults = 0 =>
         /\ status \in Terminal =>
               \/ status \in told
               \/ \E w \in Workers : worker[w].step = "telling" /\ worker[w].outcome = status
               \/ status = "COMPLETED" /\ \E w \in Workers : worker[w].step \in {"running", "ended", "salvaging"}
         /\ ~shared => /\ "COMPLETED" \in told => composed > 0
                       /\ \A w \in Workers : worker[w].outcome = "COMPLETED" => composed > 0

(* Whoever ends the report tells it before it lets go, unless it is killed.  *)
LEMMA ToldStep == ASSUME Shape, Alone, OneRun, ToldOK, [Next]_vars PROVE ToldOK'
<1>a. /\ worker \in [Workers -> WorkerType] /\ faults \in Nat
      /\ \A w \in Workers : worker[w].step = "telling" <=> worker[w].outcome # "none"
    BY DEF Shape, WorkersOK, WorkerOK, RowOK
<1>b. composed \in 0..2 /\ Upto2(composed) > 0
    BY DEF Shape, RowOK, Upto2
<1>c. ~shared => \A w \in Workers : worker[w].step \in InRun => status \in {"RUNNING", "COMPLETED"}
    BY DEF Alone
<1>1. ASSUME Start PROVE ToldOK'
    BY <1>1, <1>a, <1>b, <1>c DEF Start, ToldOK, WorkerType, InRun, Idle, Terminal
<1>2. ASSUME NEW w \in Workers, Deliver(w) PROVE ToldOK'
    <2>1. UNCHANGED <<status, composed, told, faults>> /\ (shared => shared')
        BY <1>2 DEF Deliver
    <2>2. \A v \in Workers : \/ worker'[v] = worker[v]
                             \/ worker[v].step = "idle" /\ worker'[v].outcome = worker[v].outcome
        BY <1>2, <1>a DEF Deliver, Idle, WorkerType
    <2> QED
        BY <2>1, <2>2 DEF ToldOK
<1>3. ASSUME NEW w \in Workers, MarkStarted(w) PROVE ToldOK'
    BY <1>3, <1>a, <1>b, <1>c DEF MarkStarted, Go, ToldOK, WorkerType, InRun, Idle, Terminal
<1>4. ASSUME NEW w \in Workers, Prepare(w) PROVE ToldOK'
    BY <1>4, <1>a, <1>b, <1>c DEF Prepare, Go, ToldOK, WorkerType, InRun, Idle, Terminal
<1>5. ASSUME NEW w \in Workers, ChatEnds(w) PROVE ToldOK'
    BY <1>5, <1>a, <1>b, <1>c DEF ChatEnds, Go, ToldOK, WorkerType, InRun, Idle, Terminal
<1>6. ASSUME NEW w \in Workers, Refresh(w) PROVE ToldOK'
    BY <1>6, <1>a, <1>b, <1>c DEF Refresh, Ending, ToldOK, WorkerType, InRun, Idle, Terminal
<1>7. ASSUME NEW w \in Workers, Salvage(w) PROVE ToldOK'
    BY <1>7, <1>a, <1>b, <1>c DEF Salvage, Ending, Compose, ToldOK, WorkerType, InRun, Idle, Terminal
<1>8. ASSUME NEW w \in Workers, MarkFailed(w) PROVE ToldOK'
    BY <1>8, <1>a, <1>b, <1>c DEF MarkFailed, Ending, ToldOK, WorkerType, InRun, Idle, Terminal
<1>9. ASSUME NEW w \in Workers, MarkCancelled(w) PROVE ToldOK'
    BY <1>9, <1>a, <1>b, <1>c DEF MarkCancelled, Ending, ToldOK, WorkerType, InRun, Idle, Terminal
<1>10. ASSUME NEW w \in Workers, Tell(w) PROVE ToldOK'
    BY <1>10, <1>a, <1>b, <1>c DEF Tell, ToldOK, WorkerType, InRun, Idle, Terminal
<1>11. ASSUME NEW w \in Workers, FinalizeReport(w) PROVE ToldOK'
    BY <1>11, <1>a, <1>b, <1>c DEF FinalizeReport, Compose, ToldOK, WorkerType, InRun, Idle, Terminal
<1>12. ASSUME NEW w \in Workers, Die(w) PROVE ToldOK'
    BY <1>12, <1>a, <1>b, <1>c DEF Die, ToldOK, WorkerType, InRun, Idle, Terminal
<1>13. ASSUME NEW w \in Workers, NEW f \in Findings, Retrieve(w, f) PROVE ToldOK'
    BY <1>13, <1>a, <1>b, <1>c DEF Retrieve, ToldOK, WorkerType, InRun, Idle, Terminal
<1>14. ASSUME NEW w \in Workers, NEW f \in Findings, RecordFinding(w, f) PROVE ToldOK'
    BY <1>14, <1>a, <1>b, <1>c DEF RecordFinding, ToldOK, WorkerType, InRun, Idle, Terminal
<1>15. ASSUME Age PROVE ToldOK'
    BY <1>15, <1>a, <1>b, <1>c DEF Age, ToldOK, WorkerType, InRun, Idle, Terminal
<1>16. ASSUME Reap PROVE ToldOK'
    BY <1>16, <1>a, <1>b, <1>c DEF Reap, ToldOK, WorkerType, InRun, Idle, Terminal
<1>17. ASSUME UNCHANGED vars PROVE ToldOK'
    BY <1>17, <1>a, <1>b, <1>c DEF vars, ToldOK, WorkerType, InRun, Idle, Terminal
<1> QED
    BY ONLY [Next]_vars, <1>1, <1>2, <1>3, <1>4, <1>5, <1>6, <1>7, <1>8, <1>9,
            <1>10, <1>11, <1>12, <1>13, <1>14, <1>15, <1>16, <1>17
       DEF Next, Proceed

-----------------------------------------------------------------------------

(* The inductive invariant.                                                  *)
Inv == Shape /\ OnceOK /\ StepsCount /\ OneRun /\ NothingLost /\ Alone /\ ToldOK

(* It holds at the start.                                                    *)
LEMMA InitInv == Init => Inv
<1> SUFFICES ASSUME Init PROVE Inv
    OBVIOUS
<1>1. Shape
    <2>1. Idle \in WorkerType /\ WorkerOK(Idle) /\ Idle.findings = {}
        BY DEF Idle, WorkerType, WorkerOK, Steps
    <2>2. WorkersOK
        BY <2>1 DEF Init, WorkersOK
    <2>3. RowOK
        <3>1. 0 \in 0..MaxQueue /\ 0 \in 0..MaxFaults /\ 0 \in 0..2 /\ {} \subseteq Terminal
            BY ResearchAssumption
        <3> QED
            BY <3>1 DEF Init, RowOK
    <2> QED
        BY <2>2, <2>3 DEF Shape
<1>2. StepsCount
    BY FS_EmptySet DEF Init, StepsCount
<1> QED
    BY <1>1, <1>2
       DEF Init, Inv, OnceOK, OneRun, NothingLost, Alone, ToldOK, Idle, InRun, Loaded, Terminal

(* Every step keeps it.                                                      *)
LEMMA NextInv == Inv /\ [Next]_vars => Inv'
BY ShapeStep, OnceStep, CountStep, RunStep, LostStep, AloneStep, ToldStep DEF Inv

(* So it always holds.                                                       *)
LEMMA Invariance == Spec => []Inv
<1>1. Init => Inv
    BY InitInv
<1>2. Inv /\ [Next]_vars => Inv'
    BY NextInv
<1> QED
    BY <1>1, <1>2, PTL DEF Spec

(* The row, the broker and the workers keep their types.                     *)
THEOREM ReportTypeCorrect == Spec => []TypeOK
<1>1. Inv => TypeOK
    <2> SUFFICES ASSUME Shape PROVE TypeOK
        BY DEF Inv
    <2>1. worker \in [Workers -> [step : Steps, findings : SUBSET recorded,
                                  retrieved : SUBSET Findings, outcome : Terminal \cup {"none"}]]
        BY DEF Shape, WorkersOK, WorkerType
    <2> QED
        BY <2>1 DEF Shape, WorkersOK, WorkerOK, RowOK, TypeOK
<1> QED
    BY <1>1, Invariance, PTL

(* Whatever the number of workers on a report: no append is lost or counted  *)
(* twice before the report is composed; composing loses nothing in the only  *)
(* run of a report, and at most cards in a resumed run that was alone.  Of   *)
(* what workers that share a report compose, nothing is said.                *)
THEOREM FindingsKeptUntilComposed == Spec => []FindingsKept
<1>1. Inv => FindingsKept
    BY DEF Inv, StepsCount, NothingLost, Alone, FindingsKept
<1> QED
    BY <1>1, Invariance, PTL

(* No report is composed twice, unless a run was started on one that had     *)
(* ended.                                                                    *)
THEOREM ComposedOnceUnlessReopened == Spec => []FinalizedOnce
<1>1. Inv => FinalizedOnce
    BY DEF Inv, OnceOK, FinalizedOnce
<1> QED
    BY <1>1, Invariance, PTL

(* While no fault has happened, no death, kill or lost message: when all     *)
(* workers are idle, the owner was told of the terminal state of the report; *)
(* and a completion that was told was composed, if one worker at a time had  *)
(* the report.                                                               *)
THEOREM OwnerLearnsWithoutFaults == Spec => []OwnerIsTold
<1>1. Inv => OwnerIsTold
    BY DEF Inv, ToldOK, OwnerIsTold, Idle
<1> QED
    BY <1>1, Invariance, PTL

=============================================================================
