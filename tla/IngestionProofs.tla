-------------------------- MODULE IngestionProofs --------------------------
(***************************************************************************)
(* Proofs about Ingestion, for every set of documents, every number of     *)
(* chains and finalizers, and any number of faults.                        *)
(*                                                                         *)
(* Shape says which tasks can be at which document.  On it stand three     *)
(* independent arguments: before the claim of the import nothing was       *)
(* dispatched, and after it no row is pending (FanIn); who has locked a    *)
(* row is the only one to import its annotations (Annotations); and on a   *)
(* document that is left to one chain, that chain alone decides the        *)
(* outcome (Outcome).                                                      *)
(***************************************************************************)
EXTENDS Ingestion, TLAPS

(* What a chain, or the importer, may be at.                                 *)
AtType == [step : Steps, doc : Docs \cup {NONE}, layers : BOOLEAN]

(* The importer has steps of its own; a chain has a document while it runs.  *)
AtOK(o, x) ==
    /\ x \in AtType
    /\ o = Importer => x.step \in ImporterSteps
    /\ o \in Chains => x.step # "enumerating" /\ (x.step = "idle" <=> x.doc = NONE)

(* Who claims, or gives up, holds the lock of the import, and nobody else.   *)
HolderOK ==
    /\ holder \in Observers \cup {NONE}
    /\ \A o \in Observers : at[o].step \in {"claiming", "yielding"} <=> holder = o

(* The chains and the importer together.                                     *)
AtsOK ==
    /\ at \in [Observers -> AtType]
    /\ \A o \in Observers : AtOK(o, at[o])
    /\ HolderOK

-----------------------------------------------------------------------------

(* A step that changes one of them, and at most its own hold of the lock.    *)
LEMMA ReplaceAt ==
    ASSUME AtsOK, NEW o \in Observers, NEW x, AtOK(o, x), at' = [at EXCEPT ![o] = x],
           x.step \in {"claiming", "yielding"} <=> holder' = o,
           \/ holder' = holder
           \/ holder = NONE /\ holder' = o
           \/ holder = o /\ holder' = NONE
    PROVE  AtsOK'
<1>1. at' \in [Observers -> AtType]
    BY DEF AtsOK, AtOK
<1>2. \A p \in Observers : at'[p] = IF p = o THEN x ELSE at[p]
    BY DEF AtsOK
<1>3. \A p \in Observers : AtOK(p, at'[p])
    BY <1>2 DEF AtsOK
<1>4. NONE \notin Observers
    BY IngestionAssumption
<1>5. HolderOK'
    BY <1>2, <1>4 DEF AtsOK, HolderOK
<1> QED
    BY <1>1, <1>3, <1>5 DEF AtsOK

(* It goes on to another step with the same document.                        *)
LEMMA GoAt ==
    ASSUME AtsOK, NEW o \in Observers, NEW s \in Steps \ {"idle", "enumerating"},
           at[o].step # "idle", o = Importer => s \in ImporterSteps,
           at' = [at EXCEPT ![o].step = s],
           s \in {"claiming", "yielding"} <=> holder' = o,
           \/ holder' = holder
           \/ holder = NONE /\ holder' = o
           \/ holder = o /\ holder' = NONE
    PROVE  AtsOK'
<1> DEFINE x == [at[o] EXCEPT !.step = s]
<1>1. at[o] \in AtType /\ AtOK(o, at[o])
    BY DEF AtsOK
<1>2. x \in AtType /\ x.step = s /\ x.doc = at[o].doc
    BY <1>1 DEF AtType
<1>3. AtOK(o, x)
    BY <1>1, <1>2 DEF AtOK
<1>4. at' = [at EXCEPT ![o] = x]
    OBVIOUS
<1> HIDE DEF x
<1> QED
    BY <1>2, <1>3, <1>4, ReplaceAt

(* It ends.                                                                  *)
LEMMA EndAt ==
    ASSUME AtsOK, NEW o \in Observers, at' = [at EXCEPT ![o] = Idle], holder' # o,
           holder' = holder \/ (holder = o /\ holder' = NONE)
    PROVE  AtsOK'
<1>1. AtOK(o, Idle) /\ Idle.step = "idle"
    BY DEF Idle, AtOK, AtType, Steps, ImporterSteps
<1> QED
    BY <1>1, ReplaceAt

(* A chain begins, or steps back to the start of a task.                     *)
LEMMA BeginAt ==
    ASSUME AtsOK, NEW c \in Chains, NEW d \in Docs,
           NEW s \in {"convert", "ingest", "remap", "unlock", "errback"},
           at' = [at EXCEPT ![c] = [Idle EXCEPT !.step = s, !.doc = d]], holder' # c,
           holder' = holder \/ (holder = c /\ holder' = NONE)
    PROVE  AtsOK'
<1> DEFINE x == [Idle EXCEPT !.step = s, !.doc = d]
<1>0. /\ at' = [at EXCEPT ![c] = x] /\ c \in Observers /\ c # Importer /\ d # NONE
      /\ s \in Steps /\ s # "idle" /\ s # "enumerating"
    BY IngestionAssumption DEF Observers, Steps
<1>1. Idle \in AtType
    BY DEF Idle, AtType, Steps
<1>1a. x \in AtType /\ x.step = s /\ x.doc = d
    BY <1>0, <1>1 DEF AtType
<1>2. AtOK(c, x)
    BY <1>0, <1>1a DEF AtOK
<1>3. x.step \notin {"claiming", "yielding"}
    BY <1>1a
<1> HIDE DEF x
<1> QED
    BY <1>0, <1>2, <1>3, ReplaceAt

(* Every step is one of these.                                               *)
LEMMA AtsStep ==
    ASSUME AtsOK, parsed \in [Docs -> BOOLEAN], [Next]_vars
    PROVE  AtsOK'
<1>a. \A o \in Observers : at[o].step = "idle" \/ at[o].step # "idle"
    OBVIOUS
<1>c. /\ Chains \subseteq Observers /\ Importer \in Observers /\ Importer \notin Chains
      /\ NONE \notin Observers
    BY IngestionAssumption DEF Observers
<1>h. /\ \A o \in Observers : at[o].step \in {"claiming", "yielding"} <=> holder = o
      /\ at \in [Observers -> AtType] /\ at[Importer].step \in ImporterSteps
    BY <1>c DEF AtsOK, HolderOK, AtOK
<1>p. parsed \in [Docs -> BOOLEAN]
    OBVIOUS
<1>b. \A c \in Chains : Free(c) => holder # c
    BY <1>c, <1>h DEF Free, Idle
<1>k. ASSUME at' = at, holder' = holder PROVE AtsOK'
    BY <1>k DEF AtsOK, AtOK, HolderOK
<1>1. ASSUME NEW d \in Docs, NEW c \in Chains, ImportDocument(d, c) PROVE AtsOK'
    BY <1>1, <1>b, BeginAt DEF ImportDocument, Begin, importVars
<1>2. ASSUME NEW d \in Docs, NEW c \in Chains, Retry(d, c) PROVE AtsOK'
    <2>1. holder' = holder /\ holder # c
        BY <1>2, <1>b DEF Retry, importVars
    <2>2. CASE Begin(c, d, "convert")
        BY <2>1, <2>2, BeginAt DEF Begin
    <2>3. Begin(c, d, "convert") \/ at' = at
        BY <1>2 DEF Retry
    <2> QED
        BY <1>k, <2>1, <2>2, <2>3
<1>3. ASSUME Arm PROVE AtsOK'
    <2>1. at[Importer].step = "enumerating" /\ at' = [at EXCEPT ![Importer].step = "trigger"] /\ holder' = holder
        BY <1>3 DEF Arm, Go
    <2>2. "trigger" \in Steps \ {"idle", "enumerating"} /\ "trigger" \in ImporterSteps
        BY DEF Steps, ImporterSteps
    <2>3. holder # Importer
        BY <1>c, <1>h, <2>1
    <2> QED
        BY <1>c, <2>1, <2>2, <2>3, GoAt
<1>4. ASSUME NEW c \in Chains, Convert(c) PROVE AtsOK'
    BY <1>4, <1>a, <1>c, <1>h, GoAt DEF Convert, Go, Steps, importVars
<1>5. ASSUME NEW c \in Chains, IngestBegin(c) PROVE AtsOK'
    BY <1>5, <1>a, <1>c, <1>h, GoAt DEF IngestBegin, Go, Steps, importVars
<1>6. ASSUME NEW c \in Chains, IngestEnd(c) PROVE AtsOK'
    BY <1>6, <1>a, <1>c, <1>h, GoAt, EndAt DEF IngestEnd, Go, Steps, importVars
<1>7. ASSUME NEW c \in Chains, Remap(c) PROVE AtsOK'
    <2>1. CASE at[c].doc \notin Pending
        BY <1>7, <1>a, <1>c, <1>h, <2>1, GoAt DEF Remap, Go, Steps, importVars
    <2>2. CASE at[c].doc \in Pending
        <3> DEFINE x == [at[c] EXCEPT !.step = "anchoring", !.layers = parsed[at[c].doc]]
        <3>1. at[c] \in AtType /\ AtOK(c, at[c]) /\ at[c].step = "remap" /\ holder' = holder /\ holder # c
            BY <1>7, <1>a, <1>c, <1>h DEF Remap, importVars, AtsOK
        <3>2. parsed[at[c].doc] \in BOOLEAN
            BY <2>2, <1>p DEF Pending
        <3>3. x \in AtType /\ x.step = "anchoring" /\ x.doc = at[c].doc
            BY <3>1, <3>2 DEF AtType, Steps
        <3>4. AtOK(c, x)
            BY <1>c, <3>1, <3>3 DEF AtOK
        <3>5. at' = [at EXCEPT ![c] = x]
            BY <1>7, <2>2 DEF Remap
        <3> HIDE DEF x
        <3> QED
            BY <1>c, <3>1, <3>3, <3>4, <3>5, ReplaceAt
    <2> QED
        BY <2>1, <2>2
<1>8. ASSUME NEW c \in Chains, AnchorClaim(c) PROVE AtsOK'
    <2>1. PICK s \in {"importing", "trigger"} : at' = [at EXCEPT ![c].step = s]
        BY <1>8 DEF AnchorClaim, Go
    <2>2. at[c].step = "anchoring" /\ holder' = holder
        BY <1>8 DEF AnchorClaim, importVars
    <2>3. s \in Steps \ {"idle", "enumerating"} /\ s \notin {"claiming", "yielding"}
        BY DEF Steps
    <2> QED
        BY <1>c, <1>h, <2>1, <2>2, <2>3, GoAt
<1>9. ASSUME NEW c \in Chains, AnchorCommit(c) PROVE AtsOK'
    BY <1>9, <1>a, <1>c, <1>h, GoAt DEF AnchorCommit, Go, Steps, importVars
<1>10. ASSUME NEW c \in Chains, Unlock(c) PROVE AtsOK'
    BY <1>10, <1>a, <1>c, <1>h, GoAt, EndAt DEF Unlock, Go, End, Steps, importVars
<1>11. ASSUME NEW c \in Chains, UnlockSave(c) PROVE AtsOK'
    BY <1>11, <1>a, <1>c, <1>h, EndAt DEF UnlockSave, End, Steps, importVars
<1>12. ASSUME NEW c \in Chains, Errback(c) PROVE AtsOK'
    BY <1>12, <1>a, <1>c, <1>h, GoAt, EndAt DEF Errback, Go, End, Steps, importVars
<1>13. ASSUME NEW c \in Chains, ErrbackMark(c) PROVE AtsOK'
    BY <1>13, <1>a, <1>c, <1>h, EndAt DEF ErrbackMark, End, Steps, importVars
<1>14. ASSUME NEW c \in Chains, AnchorUnreadable(c) PROVE AtsOK'
    <2>1. PICK s \in {"trigger"} : at' = [at EXCEPT ![c].step = s]
        BY <1>14 DEF AnchorUnreadable, Go
    <2>2. at[c].step = "anchoring" /\ holder' = holder
        BY <1>14 DEF AnchorUnreadable, importVars
    <2>3. s \in Steps \ {"idle", "enumerating"} /\ s \notin {"claiming", "yielding"}
        BY DEF Steps
    <2> QED
        BY <1>c, <1>h, <2>1, <2>2, <2>3, GoAt
<1>15. ASSUME NEW o \in Observers, Observe(o) PROVE AtsOK'
    BY <1>15, <1>a, <1>c, <1>h, GoAt, EndAt DEF Observe, Go, Observed, End, Steps, ImporterSteps
<1>16. ASSUME NEW o \in Observers, Claim(o) PROVE AtsOK'
    BY <1>16, <1>a, <1>c, <1>h, GoAt DEF Claim, Go, Steps, ImporterSteps
<1>17. ASSUME NEW o \in Observers, Yield(o) PROVE AtsOK'
    BY <1>17, <1>a, <1>c, <1>h, GoAt, EndAt DEF Yield, Observed, Go, End, Steps, ImporterSteps
<1>18. ASSUME NEW o \in Observers, NEW f \in Finalizers, Dispatch(o, f) PROVE AtsOK'
    BY <1>18, <1>a, <1>c, <1>h, GoAt, EndAt DEF Dispatch, Observed, Go, End, Steps, ImporterSteps
<1>19. ASSUME NEW o \in Observers, Die(o) PROVE AtsOK'
    <2>1. CASE at' = [at EXCEPT ![o] = Idle]
        BY <1>19, <1>a, <1>c, <1>h, <2>1, EndAt DEF Die
    <2>2. CASE o # Importer /\ at' = [at EXCEPT ![o] = [Idle EXCEPT !.step = Task(at[o].step), !.doc = at[o].doc]]
        <3>1. o \in Chains /\ at[o].step # "idle"
            BY <1>19, <2>2 DEF Die, Observers
        <3>2. at[o].doc \in Docs /\ at[o].step \in Steps \ {"idle", "enumerating"}
            BY <3>1 DEF AtsOK, AtOK, AtType, Observers
        <3>3. Task(at[o].step) \in {"convert", "ingest", "remap", "unlock", "errback"}
            BY <3>2 DEF Task, Steps
        <3>4. holder' # o /\ (holder' = holder \/ (holder = o /\ holder' = NONE))
            BY <1>19, <1>c DEF Die
        <3> QED
            BY <2>2, <3>1, <3>2, <3>3, <3>4, BeginAt
    <2> QED
        BY <1>19, <2>1, <2>2 DEF Die, End
<1>20. ASSUME NEW f \in Finalizers, FinalizeBegin(f) PROVE AtsOK'
    BY <1>20, <1>k DEF FinalizeBegin, importVars
<1>21. ASSUME NEW f \in Finalizers, FinalizeWire(f) PROVE AtsOK'
    BY <1>21, <1>k DEF FinalizeWire, importVars
<1>22. ASSUME NEW f \in Finalizers, FinalizeFail(f) PROVE AtsOK'
    BY <1>22, <1>k DEF FinalizeFail, importVars
<1>23. ASSUME NEW f \in Finalizers, FinalizeRedeliver(f) PROVE AtsOK'
    BY <1>23, <1>k DEF FinalizeRedeliver, importVars
<1>24. ASSUME NEW f \in Finalizers, FinalizeDie(f) PROVE AtsOK'
    BY <1>24, <1>k DEF FinalizeDie, importVars
<1>25. ASSUME NEW d \in Docs, SweepRead(d) PROVE AtsOK'
    BY <1>25, <1>k DEF SweepRead, importVars
<1>26. ASSUME SweepMark PROVE AtsOK'
    BY <1>26, <1>k DEF SweepMark, importVars
<1>27. ASSUME NEW c \in Chains, NEW b \in Chains, Redeliver(c, b) PROVE AtsOK'
    <2>1. PICK task \in {Task(at[c].step), TaskBefore(Task(at[c].step))} : Begin(b, at[c].doc, task)
        BY <1>27 DEF Redeliver
    <2>2. at[c].doc \in Docs /\ at[c].step \in Steps \ {"idle", "enumerating", "errback", "marking"}
        BY <1>27 DEF Redeliver, AtsOK, AtOK, AtType, Observers
    <2>3. Task(at[c].step) \in {"convert", "ingest", "remap", "unlock", "errback"}
        BY <2>2 DEF Task, Steps
    <2>4. task \in {"convert", "ingest", "remap", "unlock", "errback"}
        BY <2>1, <2>3 DEF TaskBefore
    <2>5. holder' = holder /\ holder # b
        BY <1>27, <1>b DEF Redeliver, importVars
    <2> QED
        BY <2>1, <2>2, <2>4, <2>5, BeginAt DEF Begin
<1>28. ASSUME UNCHANGED vars PROVE AtsOK'
    BY <1>28, <1>k DEF vars, importVars
<1>29. ASSUME NEW d \in Docs, ConvergeDocument(d) PROVE AtsOK'
    BY <1>29, <1>k DEF ConvergeDocument, importVars
<1> QED
    BY ONLY [Next]_vars, <1>1, <1>2, <1>3, <1>4, <1>5, <1>6, <1>7, <1>8, <1>9, <1>10,
            <1>11, <1>12, <1>13, <1>14, <1>15, <1>16, <1>17, <1>18, <1>19, <1>20,
            <1>21, <1>22, <1>23, <1>24, <1>25, <1>26, <1>27, <1>28, <1>29
       DEF Next, ChainStep, Trigger, Finalize

-----------------------------------------------------------------------------

(* The types of what belongs to a document.                                  *)
DocTypes ==
    /\ status \in [Docs -> {"ABSENT", "PENDING", "PROCESSING", "COMPLETED", "FAILED"}]
    /\ locked \in [Docs -> BOOLEAN] /\ parsed \in [Docs -> BOOLEAN]
    /\ row \in [Docs -> {"NONE", "PENDING", "DONE", "FAILED", "KEPT"}]
    /\ imports \in [Docs -> Nat] /\ disturbed \in [Docs -> BOOLEAN]
    /\ sweep \in Docs \cup {NONE} /\ faults \in 0..MaxFaults

(* Nothing runs on a document that was not imported.                         *)
Started ==
    /\ \A d \in Docs : status[d] = "ABSENT" <=> row[d] = "NONE"
    /\ \A c \in Chains : at[c].doc \in Docs => status[at[c].doc] # "ABSENT"
    /\ sweep \in Docs => status[sweep] # "ABSENT"

(* The types of what belongs to the import.                                  *)
ImportTypes ==
    /\ import \in {"ENUMERATING", "READY", "FINALIZING", "DONE", "FAILED"}
    /\ final \in [Finalizers -> {"idle", "sent", "wiring", "failing"}]
    /\ dispatched \in Nat /\ wired \in 0..2 /\ overwritten \in BOOLEAN

(* All that the next lemmas need to know of a state.                         *)
Shape == AtsOK /\ DocTypes /\ Started /\ ImportTypes

(* A step keeps the types of the documents.                                  *)
LEMMA DocTypesStep == ASSUME Shape, [Next]_vars PROVE DocTypes'
<1>t. DocTypes /\ IngestionAssumption
    BY IngestionAssumption DEF Shape
<1>d. \A c \in Chains : at[c].step # "idle" => at[c].doc \in Docs
    BY DEF Shape, AtsOK, AtOK, AtType, Observers
<1>1. ASSUME NEW d \in Docs, NEW c \in Chains, ImportDocument(d, c) PROVE DocTypes'
    BY <1>1, <1>t, <1>d
       DEF ImportDocument, Begin, DocTypes, docVars, importVars, IngestionAssumption
<1>2. ASSUME NEW d \in Docs, NEW c \in Chains, Retry(d, c) PROVE DocTypes'
    BY <1>2, <1>t, <1>d
       DEF Retry, Begin, Fault, Meet, DocTypes, docVars, importVars, IngestionAssumption
<1>3. ASSUME Arm PROVE DocTypes'
    BY <1>3, <1>t, <1>d DEF Arm, Go, DocTypes, docVars, importVars, IngestionAssumption
<1>4. ASSUME NEW c \in Chains, Convert(c) PROVE DocTypes'
    BY <1>4, <1>t, <1>d DEF Convert, Go, DocTypes, docVars, importVars, IngestionAssumption
<1>5. ASSUME NEW c \in Chains, IngestBegin(c) PROVE DocTypes'
    BY <1>5, <1>t, <1>d DEF IngestBegin, Go, DocTypes, docVars, importVars, IngestionAssumption
<1>6. ASSUME NEW c \in Chains, IngestEnd(c) PROVE DocTypes'
    BY <1>6, <1>t, <1>d DEF IngestEnd, Go, DocTypes, docVars, importVars, IngestionAssumption
<1>7. ASSUME NEW c \in Chains, Remap(c) PROVE DocTypes'
    BY <1>7, <1>t, <1>d DEF Remap, Go, DocTypes, docVars, importVars, IngestionAssumption
<1>8. ASSUME NEW c \in Chains, AnchorClaim(c) PROVE DocTypes'
    BY <1>8, <1>t, <1>d DEF AnchorClaim, Go, DocTypes, docVars, importVars, IngestionAssumption
<1>9. ASSUME NEW c \in Chains, AnchorCommit(c) PROVE DocTypes'
    BY <1>9, <1>t, <1>d DEF AnchorCommit, Go, DocTypes, docVars, importVars, IngestionAssumption
<1>10. ASSUME NEW c \in Chains, Unlock(c) PROVE DocTypes'
    BY <1>10, <1>t, <1>d DEF Unlock, Go, End, DocTypes, docVars, importVars, IngestionAssumption
<1>11. ASSUME NEW c \in Chains, UnlockSave(c) PROVE DocTypes'
    BY <1>11, <1>t, <1>d DEF UnlockSave, End, DocTypes, docVars, importVars, IngestionAssumption
<1>12. ASSUME NEW c \in Chains, Errback(c) PROVE DocTypes'
    BY <1>12, <1>t, <1>d DEF Errback, Go, End, DocTypes, docVars, importVars, IngestionAssumption
<1>13. ASSUME NEW c \in Chains, ErrbackMark(c) PROVE DocTypes'
    BY <1>13, <1>t, <1>d DEF ErrbackMark, End, DocTypes, docVars, importVars, IngestionAssumption
<1>14. ASSUME NEW c \in Chains, AnchorUnreadable(c) PROVE DocTypes'
    BY <1>14, <1>t, <1>d
       DEF AnchorUnreadable, Go, Fault, DocTypes, docVars, importVars, IngestionAssumption
<1>15. ASSUME NEW o \in Observers, Observe(o) PROVE DocTypes'
    BY <1>15, <1>t, <1>d
       DEF Observe, Go, Observed, End, DocTypes, docVars, importVars, IngestionAssumption
<1>16. ASSUME NEW o \in Observers, Claim(o) PROVE DocTypes'
    BY <1>16, <1>t, <1>d DEF Claim, Go, DocTypes, docVars, importVars, IngestionAssumption
<1>17. ASSUME NEW o \in Observers, Yield(o) PROVE DocTypes'
    BY <1>17, <1>t, <1>d
       DEF Yield, Observed, Go, End, DocTypes, docVars, importVars, IngestionAssumption
<1>18. ASSUME NEW o \in Observers, NEW f \in Finalizers, Dispatch(o, f) PROVE DocTypes'
    BY <1>18, <1>t, <1>d
       DEF Dispatch, Observed, Go, End, DocTypes, docVars, importVars, IngestionAssumption
<1>19. ASSUME NEW o \in Observers, Die(o) PROVE DocTypes'
    BY <1>19, <1>t, <1>d DEF Die, Fault, End, DocTypes, docVars, importVars, IngestionAssumption
<1>20. ASSUME NEW f \in Finalizers, FinalizeBegin(f) PROVE DocTypes'
    BY <1>20, <1>t, <1>d
       DEF FinalizeBegin, Rerunnable, DocTypes, docVars, importVars, IngestionAssumption
<1>21. ASSUME NEW f \in Finalizers, FinalizeWire(f) PROVE DocTypes'
    BY <1>21, <1>t, <1>d
       DEF FinalizeWire, Rerunnable, DocTypes, docVars, importVars, IngestionAssumption
<1>22. ASSUME NEW f \in Finalizers, FinalizeFail(f) PROVE DocTypes'
    BY <1>22, <1>t, <1>d DEF FinalizeFail, DocTypes, docVars, importVars, IngestionAssumption
<1>23. ASSUME NEW f \in Finalizers, FinalizeRedeliver(f) PROVE DocTypes'
    BY <1>23, <1>t, <1>d
       DEF FinalizeRedeliver, Fault, DocTypes, docVars, importVars, IngestionAssumption
<1>24. ASSUME NEW f \in Finalizers, FinalizeDie(f) PROVE DocTypes'
    BY <1>24, <1>t, <1>d
       DEF FinalizeDie, Fault, DocTypes, docVars, importVars, IngestionAssumption
<1>25. ASSUME NEW d \in Docs, SweepRead(d) PROVE DocTypes'
    BY <1>25, <1>t, <1>d DEF SweepRead, Meet, DocTypes, docVars, importVars, IngestionAssumption
<1>26. ASSUME SweepMark PROVE DocTypes'
    BY <1>26, <1>t, <1>d DEF SweepMark, DocTypes, docVars, importVars, IngestionAssumption
<1>27. ASSUME NEW c \in Chains, NEW b \in Chains, Redeliver(c, b) PROVE DocTypes'
    BY <1>27, <1>t, <1>d
       DEF Redeliver, Fault, Begin, Meet, DocTypes, docVars, importVars, IngestionAssumption
<1>28. ASSUME UNCHANGED vars PROVE DocTypes'
    BY <1>28, <1>t, <1>d DEF vars, DocTypes, docVars, importVars, IngestionAssumption
<1>29. ASSUME NEW d \in Docs, ConvergeDocument(d) PROVE DocTypes'
    BY <1>29, <1>t DEF ConvergeDocument, DocTypes, importVars
<1> QED
    BY ONLY [Next]_vars, <1>1, <1>2, <1>3, <1>4, <1>5, <1>6, <1>7, <1>8, <1>9, <1>10,
            <1>11, <1>12, <1>13, <1>14, <1>15, <1>16, <1>17, <1>18, <1>19, <1>20,
            <1>21, <1>22, <1>23, <1>24, <1>25, <1>26, <1>27, <1>28, <1>29
       DEF Next, ChainStep, Trigger, Finalize

(* A step keeps the types of the import.                                     *)
LEMMA ImportTypesStep == ASSUME ImportTypes, [Next]_vars PROVE ImportTypes'
<1> USE DEF ImportTypes
<1>1. ASSUME NEW d \in Docs, NEW c \in Chains, ImportDocument(d, c) PROVE ImportTypes'
    BY <1>1 DEF ImportDocument, Begin, docVars, importVars
<1>2. ASSUME NEW d \in Docs, NEW c \in Chains, Retry(d, c) PROVE ImportTypes'
    BY <1>2 DEF Retry, Begin, Fault, Meet, docVars, importVars
<1>3. ASSUME Arm PROVE ImportTypes'
    BY <1>3 DEF Arm, Go, docVars, importVars
<1>4. ASSUME NEW c \in Chains, Convert(c) PROVE ImportTypes'
    BY <1>4 DEF Convert, Go, docVars, importVars
<1>5. ASSUME NEW c \in Chains, IngestBegin(c) PROVE ImportTypes'
    BY <1>5 DEF IngestBegin, Go, docVars, importVars
<1>6. ASSUME NEW c \in Chains, IngestEnd(c) PROVE ImportTypes'
    BY <1>6 DEF IngestEnd, Go, docVars, importVars
<1>7. ASSUME NEW c \in Chains, Remap(c) PROVE ImportTypes'
    BY <1>7 DEF Remap, Go, docVars, importVars
<1>8. ASSUME NEW c \in Chains, AnchorClaim(c) PROVE ImportTypes'
    BY <1>8 DEF AnchorClaim, Go, docVars, importVars
<1>9. ASSUME NEW c \in Chains, AnchorCommit(c) PROVE ImportTypes'
    BY <1>9 DEF AnchorCommit, Go, docVars, importVars
<1>10. ASSUME NEW c \in Chains, Unlock(c) PROVE ImportTypes'
    BY <1>10 DEF Unlock, Go, End, docVars, importVars
<1>11. ASSUME NEW c \in Chains, UnlockSave(c) PROVE ImportTypes'
    BY <1>11 DEF UnlockSave, End, docVars, importVars
<1>12. ASSUME NEW c \in Chains, Errback(c) PROVE ImportTypes'
    BY <1>12 DEF Errback, Go, End, docVars, importVars
<1>13. ASSUME NEW c \in Chains, ErrbackMark(c) PROVE ImportTypes'
    BY <1>13 DEF ErrbackMark, End, docVars, importVars
<1>14. ASSUME NEW c \in Chains, AnchorUnreadable(c) PROVE ImportTypes'
    BY <1>14 DEF AnchorUnreadable, Go, Fault, docVars, importVars
<1>15. ASSUME NEW o \in Observers, Observe(o) PROVE ImportTypes'
    BY <1>15 DEF Observe, Go, Observed, End, docVars, importVars
<1>16. ASSUME NEW o \in Observers, Claim(o) PROVE ImportTypes'
    BY <1>16 DEF Claim, Go, docVars, importVars
<1>17. ASSUME NEW o \in Observers, Yield(o) PROVE ImportTypes'
    BY <1>17 DEF Yield, Observed, Go, End, docVars, importVars
<1>18. ASSUME NEW o \in Observers, NEW f \in Finalizers, Dispatch(o, f)
      PROVE  ImportTypes'
    BY <1>18 DEF Dispatch, Observed, Go, End, docVars, importVars
<1>19. ASSUME NEW o \in Observers, Die(o) PROVE ImportTypes'
    BY <1>19 DEF Die, Fault, End, docVars, importVars
<1>20. ASSUME NEW f \in Finalizers, FinalizeBegin(f) PROVE ImportTypes'
    BY <1>20 DEF FinalizeBegin, Rerunnable, docVars, importVars
<1>21. ASSUME NEW f \in Finalizers, FinalizeWire(f) PROVE ImportTypes'
    BY <1>21 DEF FinalizeWire, Rerunnable, docVars, importVars
<1>22. ASSUME NEW f \in Finalizers, FinalizeFail(f) PROVE ImportTypes'
    BY <1>22 DEF FinalizeFail, docVars, importVars
<1>23. ASSUME NEW f \in Finalizers, FinalizeRedeliver(f) PROVE ImportTypes'
    BY <1>23 DEF FinalizeRedeliver, Fault, docVars, importVars
<1>24. ASSUME NEW f \in Finalizers, FinalizeDie(f) PROVE ImportTypes'
    BY <1>24 DEF FinalizeDie, Fault, docVars, importVars
<1>25. ASSUME NEW d \in Docs, SweepRead(d) PROVE ImportTypes'
    BY <1>25 DEF SweepRead, Meet, docVars, importVars
<1>26. ASSUME SweepMark PROVE ImportTypes'
    BY <1>26 DEF SweepMark, docVars, importVars
<1>27. ASSUME NEW c \in Chains, NEW b \in Chains, Redeliver(c, b) PROVE ImportTypes'
    BY <1>27 DEF Redeliver, Fault, Begin, Meet, docVars, importVars
<1>28. ASSUME UNCHANGED vars PROVE ImportTypes'
    BY <1>28 DEF vars, docVars, importVars
<1>29. ASSUME NEW d \in Docs, ConvergeDocument(d) PROVE ImportTypes'
    BY <1>29 DEF ConvergeDocument, importVars
<1> QED
    BY ONLY [Next]_vars, <1>1, <1>2, <1>3, <1>4, <1>5, <1>6, <1>7, <1>8, <1>9, <1>10,
            <1>11, <1>12, <1>13, <1>14, <1>15, <1>16, <1>17, <1>18, <1>19, <1>20,
            <1>21, <1>22, <1>23, <1>24, <1>25, <1>26, <1>27, <1>28, <1>29
       DEF Next, ChainStep, Trigger, Finalize

(* A chain only ever begins on a document that is there.                     *)
LEMMA StartedStep == ASSUME Shape, [Next]_vars PROVE Started'
<1>t. DocTypes /\ Started /\ NONE \notin Docs
    BY IngestionAssumption DEF Shape
<1>d. /\ at \in [Observers -> AtType] /\ Chains \subseteq Observers /\ Importer \notin Chains
      /\ \A c \in Chains : at[c].step # "idle" => at[c].doc \in Docs
    BY IngestionAssumption DEF Shape, AtsOK, AtOK, AtType, Observers
<1>q. ASSUME status' = status, row' = row, sweep' = sweep,
             \A b \in Chains : at'[b].doc \in {at[b].doc, NONE}
      PROVE  Started'
    BY <1>q, <1>t DEF Started
<1>1. ASSUME NEW d \in Docs, NEW c \in Chains, ImportDocument(d, c) PROVE Started'
    BY <1>1, <1>t, <1>d
       DEF ImportDocument, Begin, Started, DocTypes, AtType, docVars, importVars, Idle, Pending
<1>2. ASSUME NEW d \in Docs, NEW c \in Chains, Retry(d, c) PROVE Started'
    <2>1. \A b \in Chains : at'[b].doc \in {at[b].doc, d}
        BY <1>2, <1>d DEF Retry, Begin, AtType, Idle
    <2>2. status[d] = "FAILED" /\ status' = [status EXCEPT ![d] = "PENDING"] /\ row' = row /\ sweep' = sweep
        BY <1>2 DEF Retry
    <2> QED
        BY <1>t, <2>1, <2>2 DEF Started, DocTypes
<1>3. ASSUME Arm PROVE Started'
    BY <1>3, <1>t, <1>d DEF Arm, Go, Started, DocTypes, AtType, docVars, importVars, Idle, Pending
<1>4. ASSUME NEW c \in Chains, Convert(c) PROVE Started'
    BY <1>4, <1>t, <1>d
       DEF Convert, Go, Started, DocTypes, AtType, docVars, importVars, Idle, Pending
<1>5. ASSUME NEW c \in Chains, IngestBegin(c) PROVE Started'
    BY <1>5, <1>t, <1>d
       DEF IngestBegin, Go, Started, DocTypes, AtType, docVars, importVars, Idle, Pending
<1>6. ASSUME NEW c \in Chains, IngestEnd(c) PROVE Started'
    BY <1>6, <1>t, <1>d
       DEF IngestEnd, Go, Started, DocTypes, AtType, docVars, importVars, Idle, Pending
<1>7. ASSUME NEW c \in Chains, Remap(c) PROVE Started'
    BY <1>7, <1>t, <1>d
       DEF Remap, Go, Started, DocTypes, AtType, docVars, importVars, Idle, Pending
<1>8. ASSUME NEW c \in Chains, AnchorClaim(c) PROVE Started'
    BY <1>8, <1>t, <1>d
       DEF AnchorClaim, Go, Started, DocTypes, AtType, docVars, importVars, Idle, Pending
<1>9. ASSUME NEW c \in Chains, AnchorCommit(c) PROVE Started'
    BY <1>9, <1>t, <1>d
       DEF AnchorCommit, Go, Started, DocTypes, AtType, docVars, importVars, Idle, Pending
<1>10. ASSUME NEW c \in Chains, Unlock(c) PROVE Started'
    BY <1>10, <1>t, <1>d
       DEF Unlock, Go, End, Started, DocTypes, AtType, docVars, importVars, Idle, Pending
<1>11. ASSUME NEW c \in Chains, UnlockSave(c) PROVE Started'
    BY <1>11, <1>t, <1>d
       DEF UnlockSave, End, Started, DocTypes, AtType, docVars, importVars, Idle, Pending
<1>12. ASSUME NEW c \in Chains, Errback(c) PROVE Started'
    BY <1>12, <1>t, <1>d
       DEF Errback, Go, End, Started, DocTypes, AtType, docVars, importVars, Idle, Pending
<1>13. ASSUME NEW c \in Chains, ErrbackMark(c) PROVE Started'
    BY <1>13, <1>t, <1>d
       DEF ErrbackMark, End, Started, DocTypes, AtType, docVars, importVars, Idle, Pending
<1>14. ASSUME NEW c \in Chains, AnchorUnreadable(c) PROVE Started'
    BY <1>14, <1>t, <1>d
       DEF AnchorUnreadable, Go, Fault, Started, DocTypes, AtType, docVars, importVars, Idle,
           Pending
<1>15. ASSUME NEW o \in Observers, Observe(o) PROVE Started'
    BY <1>15, <1>t, <1>d
       DEF Observe, Go, Observed, End, Started, DocTypes, AtType, docVars, importVars, Idle,
           Pending
<1>16. ASSUME NEW o \in Observers, Claim(o) PROVE Started'
    BY <1>16, <1>t, <1>d
       DEF Claim, Go, Started, DocTypes, AtType, docVars, importVars, Idle, Pending
<1>17. ASSUME NEW o \in Observers, Yield(o) PROVE Started'
    BY <1>17, <1>t, <1>d
       DEF Yield, Observed, Go, End, Started, DocTypes, AtType, docVars, importVars, Idle, Pending
<1>18. ASSUME NEW o \in Observers, NEW f \in Finalizers, Dispatch(o, f) PROVE Started'
    <2>1. \A b \in Chains : at'[b].doc \in {at[b].doc, NONE}
        BY <1>18, <1>d DEF Dispatch, Observed, Go, End, AtType, Idle
    <2> QED
        BY <1>18, <1>q, <2>1 DEF Dispatch, docVars
<1>19. ASSUME NEW o \in Observers, Die(o) PROVE Started'
    <2>1. \A b \in Chains : at'[b].doc \in {at[b].doc, NONE}
        <3> DEFINE t == Task(at[o].step)
                   x == [Idle EXCEPT !.step = t, !.doc = at[o].doc]
        <3>1. x.doc = at[o].doc /\ Idle.doc = NONE
            BY DEF Idle
        <3>2. at' = [at EXCEPT ![o] = Idle] \/ at' = [at EXCEPT ![o] = x]
            BY <1>19 DEF Die, End
        <3> HIDE DEF x
        <3> QED
            BY <1>d, <3>1, <3>2
    <2> QED
        BY <1>19, <1>q, <2>1 DEF Die, docVars
<1>20. ASSUME NEW f \in Finalizers, FinalizeBegin(f) PROVE Started'
    BY <1>20, <1>t, <1>d
       DEF FinalizeBegin, Rerunnable, Started, DocTypes, AtType, docVars, importVars, Idle,
           Pending
<1>21. ASSUME NEW f \in Finalizers, FinalizeWire(f) PROVE Started'
    BY <1>21, <1>t, <1>d
       DEF FinalizeWire, Rerunnable, Started, DocTypes, AtType, docVars, importVars, Idle, Pending
<1>22. ASSUME NEW f \in Finalizers, FinalizeFail(f) PROVE Started'
    BY <1>22, <1>t, <1>d
       DEF FinalizeFail, Started, DocTypes, AtType, docVars, importVars, Idle, Pending
<1>23. ASSUME NEW f \in Finalizers, FinalizeRedeliver(f) PROVE Started'
    BY <1>23, <1>t, <1>d
       DEF FinalizeRedeliver, Fault, Started, DocTypes, AtType, docVars, importVars, Idle, Pending
<1>24. ASSUME NEW f \in Finalizers, FinalizeDie(f) PROVE Started'
    BY <1>24, <1>t, <1>d
       DEF FinalizeDie, Fault, Started, DocTypes, AtType, docVars, importVars, Idle, Pending
<1>25. ASSUME NEW d \in Docs, SweepRead(d) PROVE Started'
    BY <1>25, <1>t, <1>d
       DEF SweepRead, Meet, Started, DocTypes, AtType, docVars, importVars, Idle, Pending
<1>26. ASSUME SweepMark PROVE Started'
    BY <1>26, <1>t, <1>d
       DEF SweepMark, Started, DocTypes, AtType, docVars, importVars, Idle, Pending
<1>27. ASSUME NEW c \in Chains, NEW b \in Chains, Redeliver(c, b) PROVE Started'
    BY <1>27, <1>t, <1>d
       DEF Redeliver, Fault, Begin, Meet, Started, DocTypes, AtType, docVars, importVars, Idle,
           Pending
<1>28. ASSUME UNCHANGED vars PROVE Started'
    BY <1>28, <1>t, <1>d DEF vars, Started, DocTypes, AtType, docVars, importVars, Idle, Pending
<1>29. ASSUME NEW d \in Docs, ConvergeDocument(d) PROVE Started'
    BY <1>29, <1>t, <1>d DEF ConvergeDocument, Started, DocTypes
<1> QED
    BY ONLY [Next]_vars, <1>1, <1>2, <1>3, <1>4, <1>5, <1>6, <1>7, <1>8, <1>9, <1>10,
            <1>11, <1>12, <1>13, <1>14, <1>15, <1>16, <1>17, <1>18, <1>19, <1>20,
            <1>21, <1>22, <1>23, <1>24, <1>25, <1>26, <1>27, <1>28, <1>29
       DEF Next, ChainStep, Trigger, Finalize

(* A step keeps the shape.                                                   *)
LEMMA ShapeStep == ASSUME Shape, [Next]_vars PROVE Shape'
BY AtsStep, DocTypesStep, ImportTypesStep, StartedStep DEF Shape, DocTypes

(* The steps at which a task begins.                                         *)
Tasks == {"convert", "ingest", "remap", "unlock", "errback"}

(* A death ends one chain, or sends it back to the start of its task.        *)
LEMMA DieShape ==
    ASSUME Shape, NEW o \in Observers, Die(o)
    PROVE  /\ at[o].step # "idle"
           /\ \A p \in Observers \ {o} : at'[p] = at[p]
           /\ \/ at'[o] = Idle
              \/ at'[o].step \in Tasks /\ at'[o].doc = at[o].doc /\ at'[o].step = Task(at[o].step)
<1>1. at[o].step # "idle" /\ at[o].step \in Steps /\ at \in [Observers -> AtType]
      /\ (o \in Chains => at[o].step # "enumerating")
    BY DEF Die, Shape, AtsOK, AtOK, AtType
<1>2. \/ at' = [at EXCEPT ![o] = Idle]
      \/ /\ o # Importer
         /\ at' = [at EXCEPT ![o] = [Idle EXCEPT !.step = Task(at[o].step), !.doc = at[o].doc]]
    BY DEF Die, End
<1>3. CASE at' = [at EXCEPT ![o] = Idle]
    BY <1>1, <1>3
<1>4. CASE /\ o # Importer
           /\ at' = [at EXCEPT ![o] = [Idle EXCEPT !.step = Task(at[o].step), !.doc = at[o].doc]]
    <2> DEFINE t == Task(at[o].step)
    <2>1. t \in Tasks
        BY <1>1, <1>4 DEF Task, Steps, Tasks, Observers
    <2> HIDE DEF t
    <2>2. at' = [at EXCEPT ![o] = [Idle EXCEPT !.step = t, !.doc = at[o].doc]]
        BY <1>4 DEF t
    <2>3. at'[o].step = t /\ at'[o].doc = at[o].doc
        BY <1>1, <2>2 DEF Idle
    <2> QED
        BY <1>1, <2>1, <2>2, <2>3 DEF t
<1> QED
    BY <1>2, <1>3, <1>4

(* A second delivery begins a task in a chain that was idle.                 *)
LEMMA RedeliverShape ==
    ASSUME Shape, NEW c \in Chains, NEW b \in Chains, Redeliver(c, b)
    PROVE  /\ at[c].step # "idle" /\ at[b] = Idle /\ c # b
           /\ \A p \in Observers \ {b} : at'[p] = at[p]
           /\ at'[b].step \in Tasks /\ at'[b].doc = at[c].doc
<1>1. at[c].step \notin {"idle", "enumerating", "errback", "marking"} /\ at[c].step \in Steps
      /\ at[b] = Idle /\ at \in [Observers -> AtType] /\ b \in Observers
    BY DEF Redeliver, Free, Shape, AtsOK, AtOK, AtType, Observers
<1>2. PICK task \in {Task(at[c].step), TaskBefore(Task(at[c].step))} : Begin(b, at[c].doc, task)
    BY DEF Redeliver
<1>3. Task(at[c].step) \in Tasks
    BY <1>1 DEF Task, Steps, Tasks
<1>4. task \in Tasks
    BY <1>2, <1>3 DEF TaskBefore, Tasks
<1>5. at' = [at EXCEPT ![b] = [Idle EXCEPT !.step = task, !.doc = at[c].doc]]
    BY <1>2 DEF Begin
<1>6. at'[b].step = task /\ at'[b].doc = at[c].doc
    BY <1>1, <1>5 DEF Idle
<1> QED
    BY <1>1, <1>4, <1>5, <1>6 DEF Idle

-----------------------------------------------------------------------------

(* Until the claim nothing was dispatched; who claims sees no pending row;   *)
(* and the claimed import is wired by DONE.                                  *)
FanIn ==
    /\ at[Importer].step = "enumerating" => import = "ENUMERATING"
    /\ import \in {"ENUMERATING", "READY"} =>
          /\ dispatched = 0 /\ wired = 0
          /\ \A f \in Finalizers : final[f] = "idle"
          /\ \A o \in Observers : at[o].step # "dispatch"
    /\ \A o \in Observers : at[o].step = "dispatch" =>
          dispatched = 0 /\ \A p \in Observers \ {o} : at[p].step # "dispatch"
    /\ \A o \in Observers : at[o].step = "claiming" => import = "READY"
    /\ import \notin {"ENUMERATING", "READY"} => Pending = {}
    /\ dispatched <= 1
    /\ ~overwritten => wired <= 1 /\ (wired > 0 => import = "DONE")
    /\ import = "DONE" => wired > 0

(* The lock of the import is what keeps a second claim away.                 *)
LEMMA FanInStep == ASSUME Shape, FanIn, [Next]_vars PROVE FanIn'
<1>t. /\ at \in [Observers -> AtType] /\ Chains \subseteq Observers /\ Importer \notin Chains
      /\ Importer \in Observers /\ at[Importer].step \in ImporterSteps
      /\ \A o \in Observers : at[o].step \in {"claiming", "yielding"} <=> holder = o
      /\ dispatched \in Nat /\ wired \in 0..2 /\ final \in [Finalizers -> {"idle", "sent", "wiring", "failing"}]
      /\ row \in [Docs -> {"NONE", "PENDING", "DONE", "FAILED", "KEPT"}]
    BY IngestionAssumption DEF Shape, AtsOK, AtOK, HolderOK, ImportTypes, DocTypes, Observers
<1>k. ASSUME row' = row, import' = import, final' = final, dispatched' = dispatched,
             wired' = wired, overwritten' = overwritten,
             \A o \in Observers : at'[o].step \in {"enumerating", "dispatch", "claiming"} =>
                 at'[o].step = at[o].step
      PROVE  FanIn'
    BY <1>k, <1>t DEF FanIn, Pending
<1>1. ASSUME NEW d \in Docs, NEW c \in Chains, ImportDocument(d, c) PROVE FanIn'
    BY <1>1, <1>t DEF ImportDocument, Begin, FanIn, AtType, docVars, importVars, Idle, Pending
<1>2. ASSUME NEW d \in Docs, NEW c \in Chains, Retry(d, c) PROVE FanIn'
    BY <1>2, <1>t DEF Retry, Begin, Fault, Meet, FanIn, AtType, docVars, importVars, Idle, Pending
<1>3. ASSUME Arm PROVE FanIn'
    BY <1>3, <1>t DEF Arm, Go, FanIn, AtType, docVars, importVars, Idle, Pending
<1>4. ASSUME NEW c \in Chains, Convert(c) PROVE FanIn'
    BY <1>4, <1>t DEF Convert, Go, FanIn, AtType, docVars, importVars, Idle, Pending
<1>5. ASSUME NEW c \in Chains, IngestBegin(c) PROVE FanIn'
    <2>1. \A o \in Observers : at'[o].step \in {"enumerating", "dispatch", "claiming"} => at'[o].step = at[o].step
        BY <1>5, <1>t DEF IngestBegin, Go, AtType
    <2> QED
        BY <1>5, <1>k, <2>1 DEF IngestBegin, importVars
<1>6. ASSUME NEW c \in Chains, IngestEnd(c) PROVE FanIn'
    BY <1>6, <1>t DEF IngestEnd, Go, FanIn, AtType, docVars, importVars, Idle, Pending
<1>7. ASSUME NEW c \in Chains, Remap(c) PROVE FanIn'
    BY <1>7, <1>t DEF Remap, Go, FanIn, AtType, docVars, importVars, Idle, Pending
<1>8. ASSUME NEW c \in Chains, AnchorClaim(c) PROVE FanIn'
    BY <1>8, <1>t DEF AnchorClaim, Go, FanIn, AtType, docVars, importVars, Idle, Pending
<1>9. ASSUME NEW c \in Chains, AnchorCommit(c) PROVE FanIn'
    BY <1>9, <1>t DEF AnchorCommit, Go, FanIn, AtType, docVars, importVars, Idle, Pending
<1>10. ASSUME NEW c \in Chains, Unlock(c) PROVE FanIn'
    BY <1>10, <1>t DEF Unlock, Go, End, FanIn, AtType, docVars, importVars, Idle, Pending
<1>11. ASSUME NEW c \in Chains, UnlockSave(c) PROVE FanIn'
    BY <1>11, <1>t DEF UnlockSave, End, FanIn, AtType, docVars, importVars, Idle, Pending
<1>12. ASSUME NEW c \in Chains, Errback(c) PROVE FanIn'
    BY <1>12, <1>t DEF Errback, Go, End, FanIn, AtType, docVars, importVars, Idle, Pending
<1>13. ASSUME NEW c \in Chains, ErrbackMark(c) PROVE FanIn'
    BY <1>13, <1>t DEF ErrbackMark, End, FanIn, AtType, docVars, importVars, Idle, Pending
<1>14. ASSUME NEW c \in Chains, AnchorUnreadable(c) PROVE FanIn'
    BY <1>14, <1>t
       DEF AnchorUnreadable, Go, Fault, FanIn, AtType, docVars, importVars, Idle, Pending
<1>15. ASSUME NEW o \in Observers, Observe(o) PROVE FanIn'
    BY <1>15, <1>t
       DEF Observe, Go, Observed, End, FanIn, AtType, docVars, importVars, Idle, Pending
<1>16. ASSUME NEW o \in Observers, Claim(o) PROVE FanIn'
    BY <1>16, <1>t DEF Claim, Go, FanIn, AtType, docVars, importVars, Idle, Pending
<1>17. ASSUME NEW o \in Observers, Yield(o) PROVE FanIn'
    BY <1>17, <1>t DEF Yield, Observed, Go, End, FanIn, AtType, docVars, importVars, Idle, Pending
<1>18. ASSUME NEW o \in Observers, NEW f \in Finalizers, Dispatch(o, f) PROVE FanIn'
    BY <1>18, <1>t
       DEF Dispatch, Observed, Go, End, FanIn, AtType, docVars, importVars, Idle, Pending
<1>19. ASSUME NEW o \in Observers, Die(o) PROVE FanIn'
    <2>1. \A p \in Observers : at'[p].step \in {"enumerating", "dispatch", "claiming"} => at'[p].step = at[p].step
        BY <1>19, DieShape DEF Tasks, Idle
    <2> QED
        BY <1>19, <1>k, <2>1 DEF Die, docVars
<1>20. ASSUME NEW f \in Finalizers, FinalizeBegin(f) PROVE FanIn'
    BY <1>20, <1>t
       DEF FinalizeBegin, Rerunnable, FanIn, AtType, docVars, importVars, Idle, Pending
<1>21. ASSUME NEW f \in Finalizers, FinalizeWire(f) PROVE FanIn'
    BY <1>21, <1>t DEF FinalizeWire, Rerunnable, FanIn, AtType, docVars, importVars, Idle, Pending
<1>22. ASSUME NEW f \in Finalizers, FinalizeFail(f) PROVE FanIn'
    BY <1>22, <1>t DEF FinalizeFail, FanIn, AtType, docVars, importVars, Idle, Pending
<1>23. ASSUME NEW f \in Finalizers, FinalizeRedeliver(f) PROVE FanIn'
    BY <1>23, <1>t DEF FinalizeRedeliver, Fault, FanIn, AtType, docVars, importVars, Idle, Pending
<1>24. ASSUME NEW f \in Finalizers, FinalizeDie(f) PROVE FanIn'
    BY <1>24, <1>t DEF FinalizeDie, Fault, FanIn, AtType, docVars, importVars, Idle, Pending
<1>25. ASSUME NEW d \in Docs, SweepRead(d) PROVE FanIn'
    BY <1>25, <1>t DEF SweepRead, Meet, FanIn, AtType, docVars, importVars, Idle, Pending
<1>26. ASSUME SweepMark PROVE FanIn'
    BY <1>26, <1>t DEF SweepMark, FanIn, AtType, docVars, importVars, Idle, Pending
<1>27. ASSUME NEW c \in Chains, NEW b \in Chains, Redeliver(c, b) PROVE FanIn'
    <2>1. \A p \in Observers : at'[p].step \in {"enumerating", "dispatch", "claiming"} => at'[p].step = at[p].step
        BY <1>27, RedeliverShape DEF Tasks
    <2> QED
        BY <1>27, <1>k, <2>1 DEF Redeliver, docVars, importVars
<1>28. ASSUME UNCHANGED vars PROVE FanIn'
    BY <1>28, <1>t DEF vars, FanIn, AtType, docVars, importVars, Idle, Pending
<1>29. ASSUME NEW d \in Docs, ConvergeDocument(d) PROVE FanIn'
    BY <1>29, <1>t DEF ConvergeDocument, FanIn, importVars, Pending
<1> QED
    BY ONLY [Next]_vars, <1>1, <1>2, <1>3, <1>4, <1>5, <1>6, <1>7, <1>8, <1>9, <1>10,
            <1>11, <1>12, <1>13, <1>14, <1>15, <1>16, <1>17, <1>18, <1>19, <1>20,
            <1>21, <1>22, <1>23, <1>24, <1>25, <1>26, <1>27, <1>28, <1>29
       DEF Next, ChainStep, Trigger, Finalize

(* A row tells whether its annotations were imported, and who imports them   *)
(* is alone with the lock of the row.                                        *)
Annotations ==
    \A d \in Docs :
        /\ imports[d] <= 1
        /\ row[d] \in {"NONE", "PENDING", "KEPT"} => imports[d] = 0
        /\ row[d] = "DONE" => imports[d] = 1
        /\ imports[d] = 1 /\ faults = 0 => row[d] = "DONE"
        /\ \A c \in Chains : at[c].step = "importing" /\ at[c].doc = d =>
              /\ imports[d] = 0 /\ row[d] # "KEPT"
              /\ \A b \in Chains \ {c} : ~(at[b].step = "importing" /\ at[b].doc = d)

(* The status is read again under that lock.                                 *)
LEMMA AnnotationsStep == ASSUME Shape, Annotations, [Next]_vars PROVE Annotations'
<1>t. /\ at \in [Observers -> AtType] /\ Chains \subseteq Observers /\ Importer \notin Chains
      /\ DocTypes /\ Started /\ faults \in Nat
      /\ \A c \in Chains : at[c].step # "idle" => at[c].doc \in Docs
    BY IngestionAssumption DEF Shape, AtsOK, AtOK, AtType, Observers, DocTypes
<1>k. ASSUME row' = row, imports' = imports, faults' = 0 => faults = 0,
             \A b \in Chains : at'[b].step = "importing" => at'[b] = at[b]
      PROVE  Annotations'
    BY <1>k DEF Annotations
<1>1. ASSUME NEW d \in Docs, NEW c \in Chains, ImportDocument(d, c) PROVE Annotations'
    <2>1. status[d] = "ABSENT" /\ row' = [row EXCEPT ![d] = "PENDING"] /\ UNCHANGED <<imports, faults>>
        BY <1>1 DEF ImportDocument
    <2>2. \A b \in Chains : at'[b].step = "importing" => at'[b] = at[b] /\ at[b].doc # d
        BY <1>1, <1>t DEF ImportDocument, Begin, AtType, Idle, Started
    <2> QED
        BY <1>t, <2>1, <2>2 DEF Annotations, Started, DocTypes
<1>2. ASSUME NEW d \in Docs, NEW c \in Chains, Retry(d, c) PROVE Annotations'
    <2>1. row' = row /\ imports' = imports /\ (faults' = 0 => faults = 0)
        BY <1>2, <1>t DEF Retry, docVars, importVars, Fault
    <2>2. \A b \in Chains : at'[b].step = "importing" => at'[b] = at[b]
        BY <1>2, <1>t DEF Retry, Begin, Fault, Meet, AtType, Idle
    <2> QED
        BY <1>k, <2>1, <2>2
<1>3. ASSUME Arm PROVE Annotations'
    <2>1. row' = row /\ imports' = imports /\ (faults' = 0 => faults = 0)
        BY <1>3, <1>t DEF Arm, docVars, importVars, Fault
    <2>2. \A b \in Chains : at'[b].step = "importing" => at'[b] = at[b]
        BY <1>3, <1>t DEF Arm, Go, AtType, Idle
    <2> QED
        BY <1>k, <2>1, <2>2
<1>4. ASSUME NEW c \in Chains, Convert(c) PROVE Annotations'
    <2>1. row' = row /\ imports' = imports /\ (faults' = 0 => faults = 0)
        BY <1>4, <1>t DEF Convert, docVars, importVars, Fault
    <2>2. \A b \in Chains : at'[b].step = "importing" => at'[b] = at[b]
        BY <1>4, <1>t DEF Convert, Go, AtType, Idle
    <2> QED
        BY <1>k, <2>1, <2>2
<1>5. ASSUME NEW c \in Chains, IngestBegin(c) PROVE Annotations'
    <2>1. row' = row /\ imports' = imports /\ (faults' = 0 => faults = 0)
        BY <1>5, <1>t DEF IngestBegin, docVars, importVars, Fault
    <2>2. \A b \in Chains : at'[b].step = "importing" => at'[b] = at[b]
        BY <1>5, <1>t DEF IngestBegin, Go, AtType, Idle
    <2> QED
        BY <1>k, <2>1, <2>2
<1>6. ASSUME NEW c \in Chains, IngestEnd(c) PROVE Annotations'
    <2>1. row' = row /\ imports' = imports /\ (faults' = 0 => faults = 0)
        BY <1>6, <1>t DEF IngestEnd, docVars, importVars, Fault
    <2>2. \A b \in Chains : at'[b].step = "importing" => at'[b] = at[b]
        BY <1>6, <1>t DEF IngestEnd, Go, AtType, Idle
    <2> QED
        BY <1>k, <2>1, <2>2
<1>7. ASSUME NEW c \in Chains, Remap(c) PROVE Annotations'
    <2>1. row' = row /\ imports' = imports /\ (faults' = 0 => faults = 0)
        BY <1>7, <1>t DEF Remap, docVars, importVars, Fault
    <2>2. \A b \in Chains : at'[b].step = "importing" => at'[b] = at[b]
        BY <1>7, <1>t DEF Remap, Go, AtType, Idle
    <2> QED
        BY <1>k, <2>1, <2>2
<1>8. ASSUME NEW c \in Chains, AnchorClaim(c) PROVE Annotations'
    <2>1. /\ row' = row /\ imports' = imports /\ faults' = faults
          /\ \A b \in Chains \ {c} : at'[b] = at[b]
          /\ at'[c].doc = at[c].doc
        BY <1>8, <1>t DEF AnchorClaim, Go, AtType, docVars
    <2>2. at'[c].step = "importing" => ~RowLocked(at[c].doc) /\ at[c].doc \in Pending
        BY <1>8, <1>t DEF AnchorClaim, Go, AtType
    <2>3. at'[c].step = "importing" =>
              /\ row[at[c].doc] = "PENDING"
              /\ \A b \in Chains : ~(at[b].step = "importing" /\ at[b].doc = at[c].doc)
        BY <2>2 DEF Pending, RowLocked
    <2>4. ASSUME NEW d \in Docs, NEW b \in Chains, at'[b].step = "importing", at'[b].doc = d
          PROVE  /\ imports[d] = 0 /\ row[d] # "KEPT"
                 /\ \A a \in Chains \ {b} : ~(at'[a].step = "importing" /\ at'[a].doc = d)
        <3>1. CASE b = c
            BY <2>1, <2>3, <2>4, <3>1 DEF Annotations
        <3>2. CASE b # c
            <4>1. at[b].step = "importing" /\ at[b].doc = d
                BY <2>1, <2>4, <3>2
            <4>2. /\ imports[d] = 0 /\ row[d] # "KEPT"
                  /\ \A a \in Chains \ {b} : ~(at[a].step = "importing" /\ at[a].doc = d)
                BY <4>1 DEF Annotations
            <4>3. ~(at'[c].step = "importing" /\ at'[c].doc = d)
                BY <2>1, <2>3, <4>1
            <4> QED
                BY <2>1, <4>2, <4>3
        <3> QED
            BY <3>1, <3>2
    <2>5. \A d \in Docs : /\ imports'[d] <= 1
                          /\ row'[d] \in {"NONE", "PENDING", "KEPT"} => imports'[d] = 0
                          /\ row'[d] = "DONE" => imports'[d] = 1
                          /\ imports'[d] = 1 /\ faults' = 0 => row'[d] = "DONE"
        BY <2>1 DEF Annotations
    <2>6. \A d \in Docs, b \in Chains : at'[b].step = "importing" /\ at'[b].doc = d =>
              /\ imports'[d] = 0 /\ row'[d] # "KEPT"
              /\ \A a \in Chains \ {b} : ~(at'[a].step = "importing" /\ at'[a].doc = d)
        BY <2>1, <2>4
    <2> QED
        BY <2>5, <2>6 DEF Annotations
<1>9. ASSUME NEW c \in Chains, AnchorCommit(c) PROVE Annotations'
    <2> DEFINE d == at[c].doc
    <2>1. /\ at[c].step = "importing" /\ faults' = faults /\ at'[c].step # "importing"
          /\ \A b \in Chains \ {c} : at'[b] = at[b]
        BY <1>9, <1>t DEF AnchorCommit, Go, AtType
    <2>a. d \in Docs
        BY <1>t, <2>1
    <2>b. imports[d] = 0 /\ row[d] # "KEPT"
        BY <2>1, <2>a DEF Annotations
    <2>2. d \in Docs /\ imports[d] = 0 /\ row[d] # "KEPT"
        BY <2>a, <2>b
    <2>3. \A b \in Chains : at'[b].step = "importing" =>
              at'[b] = at[b] /\ at[b].step = "importing" /\ at[b].doc # d
        <3>1. \A b \in Chains \ {c} : ~(at[b].step = "importing" /\ at[b].doc = d)
            BY <2>1, <2>a DEF Annotations
        <3> QED
            BY <2>1, <3>1
    <2>4. /\ \A e \in Docs \ {d} : row'[e] = row[e] /\ imports'[e] = imports[e]
          /\ \/ row'[d] = "DONE" /\ imports'[d] = 1
             \/ row'[d] = "FAILED" /\ imports'[d] = 0
             \/ row'[d] = row[d] /\ imports'[d] = 0
        BY <1>9, <1>t, <2>2 DEF AnchorCommit, DocTypes
    <2> HIDE DEF d
    <2>5. /\ row'[d] \in {"NONE", "PENDING", "KEPT"} => imports'[d] = 0
          /\ row'[d] = "DONE" => imports'[d] = 1
          /\ imports'[d] <= 1 /\ (imports'[d] = 1 => row'[d] = "DONE")
        BY <2>2, <2>4 DEF Annotations
    <2> QED
        BY <2>1, <2>2, <2>3, <2>4, <2>5 DEF Annotations
<1>10. ASSUME NEW c \in Chains, Unlock(c) PROVE Annotations'
    <2>1. row' = row /\ imports' = imports /\ (faults' = 0 => faults = 0)
        BY <1>10, <1>t DEF Unlock, docVars, importVars, Fault
    <2>2. \A b \in Chains : at'[b].step = "importing" => at'[b] = at[b]
        BY <1>10, <1>t DEF Unlock, Go, End, AtType, Idle
    <2> QED
        BY <1>k, <2>1, <2>2
<1>11. ASSUME NEW c \in Chains, UnlockSave(c) PROVE Annotations'
    <2>1. row' = row /\ imports' = imports /\ (faults' = 0 => faults = 0)
        BY <1>11, <1>t DEF UnlockSave, docVars, importVars, Fault
    <2>2. \A b \in Chains : at'[b].step = "importing" => at'[b] = at[b]
        BY <1>11, <1>t DEF UnlockSave, End, AtType, Idle
    <2> QED
        BY <1>k, <2>1, <2>2
<1>12. ASSUME NEW c \in Chains, Errback(c) PROVE Annotations'
    <2>1. row' = row /\ imports' = imports /\ (faults' = 0 => faults = 0)
        BY <1>12, <1>t DEF Errback, docVars, importVars, Fault
    <2>2. \A b \in Chains : at'[b].step = "importing" => at'[b] = at[b]
        BY <1>12, <1>t DEF Errback, Go, End, AtType, Idle
    <2> QED
        BY <1>k, <2>1, <2>2
<1>13. ASSUME NEW c \in Chains, ErrbackMark(c) PROVE Annotations'
    <2>1. row' = row /\ imports' = imports /\ (faults' = 0 => faults = 0)
        BY <1>13, <1>t DEF ErrbackMark, docVars, importVars, Fault
    <2>2. \A b \in Chains : at'[b].step = "importing" => at'[b] = at[b]
        BY <1>13, <1>t DEF ErrbackMark, End, AtType, Idle
    <2> QED
        BY <1>k, <2>1, <2>2
<1>14. ASSUME NEW c \in Chains, AnchorUnreadable(c) PROVE Annotations'
    BY <1>14, <1>t
       DEF AnchorUnreadable, Go, Fault, Annotations, AtType, docVars, importVars, Idle, Pending,
           DocTypes, Started, RowLocked
<1>15. ASSUME NEW o \in Observers, Observe(o) PROVE Annotations'
    <2>1. row' = row /\ imports' = imports /\ (faults' = 0 => faults = 0)
        BY <1>15, <1>t DEF Observe, docVars, importVars, Fault
    <2>2. \A b \in Chains : at'[b].step = "importing" => at'[b] = at[b]
        BY <1>15, <1>t DEF Observe, Go, Observed, End, AtType, Idle
    <2> QED
        BY <1>k, <2>1, <2>2
<1>16. ASSUME NEW o \in Observers, Claim(o) PROVE Annotations'
    <2>1. row' = row /\ imports' = imports /\ (faults' = 0 => faults = 0)
        BY <1>16, <1>t DEF Claim, docVars, importVars, Fault
    <2>2. \A b \in Chains : at'[b].step = "importing" => at'[b] = at[b]
        BY <1>16, <1>t DEF Claim, Go, AtType, Idle
    <2> QED
        BY <1>k, <2>1, <2>2
<1>17. ASSUME NEW o \in Observers, Yield(o) PROVE Annotations'
    <2>1. row' = row /\ imports' = imports /\ (faults' = 0 => faults = 0)
        BY <1>17, <1>t DEF Yield, docVars, importVars, Fault
    <2>2. \A b \in Chains : at'[b].step = "importing" => at'[b] = at[b]
        BY <1>17, <1>t DEF Yield, Observed, Go, End, AtType, Idle
    <2> QED
        BY <1>k, <2>1, <2>2
<1>18. ASSUME NEW o \in Observers, NEW f \in Finalizers, Dispatch(o, f)
      PROVE  Annotations'
    <2>1. row' = row /\ imports' = imports /\ (faults' = 0 => faults = 0)
        BY <1>18, <1>t DEF Dispatch, docVars, importVars, Fault
    <2>2. \A b \in Chains : at'[b].step = "importing" => at'[b] = at[b]
        BY <1>18, <1>t DEF Dispatch, Observed, Go, End, AtType, Idle
    <2> QED
        BY <1>k, <2>1, <2>2
<1>19. ASSUME NEW o \in Observers, Die(o) PROVE Annotations'
    <2>1. row' = row /\ imports' = imports /\ (faults' = 0 => faults = 0)
        BY <1>19, <1>t DEF Die, docVars, importVars, Fault
    <2>2. \A b \in Chains : at'[b].step = "importing" => at'[b] = at[b]
        BY <1>19, <1>t, DieShape DEF Tasks, Idle
    <2> QED
        BY <1>k, <2>1, <2>2
<1>20. ASSUME NEW f \in Finalizers, FinalizeBegin(f) PROVE Annotations'
    <2>1. row' = row /\ imports' = imports /\ (faults' = 0 => faults = 0)
        BY <1>20, <1>t DEF FinalizeBegin, docVars, importVars, Fault
    <2>2. \A b \in Chains : at'[b].step = "importing" => at'[b] = at[b]
        BY <1>20, <1>t DEF FinalizeBegin, Rerunnable, AtType, Idle
    <2> QED
        BY <1>k, <2>1, <2>2
<1>21. ASSUME NEW f \in Finalizers, FinalizeWire(f) PROVE Annotations'
    <2>1. row' = row /\ imports' = imports /\ (faults' = 0 => faults = 0)
        BY <1>21, <1>t DEF FinalizeWire, docVars, importVars, Fault
    <2>2. \A b \in Chains : at'[b].step = "importing" => at'[b] = at[b]
        BY <1>21, <1>t DEF FinalizeWire, Rerunnable, AtType, Idle
    <2> QED
        BY <1>k, <2>1, <2>2
<1>22. ASSUME NEW f \in Finalizers, FinalizeFail(f) PROVE Annotations'
    <2>1. row' = row /\ imports' = imports /\ (faults' = 0 => faults = 0)
        BY <1>22, <1>t DEF FinalizeFail, docVars, importVars, Fault
    <2>2. \A b \in Chains : at'[b].step = "importing" => at'[b] = at[b]
        BY <1>22, <1>t DEF FinalizeFail, AtType, Idle
    <2> QED
        BY <1>k, <2>1, <2>2
<1>23. ASSUME NEW f \in Finalizers, FinalizeRedeliver(f) PROVE Annotations'
    <2>1. row' = row /\ imports' = imports /\ (faults' = 0 => faults = 0)
        BY <1>23, <1>t DEF FinalizeRedeliver, docVars, importVars, Fault
    <2>2. \A b \in Chains : at'[b].step = "importing" => at'[b] = at[b]
        BY <1>23, <1>t DEF FinalizeRedeliver, Fault, AtType, Idle
    <2> QED
        BY <1>k, <2>1, <2>2
<1>24. ASSUME NEW f \in Finalizers, FinalizeDie(f) PROVE Annotations'
    <2>1. row' = row /\ imports' = imports /\ (faults' = 0 => faults = 0)
        BY <1>24, <1>t DEF FinalizeDie, docVars, importVars, Fault
    <2>2. \A b \in Chains : at'[b].step = "importing" => at'[b] = at[b]
        BY <1>24, <1>t DEF FinalizeDie, Fault, AtType, Idle
    <2> QED
        BY <1>k, <2>1, <2>2
<1>25. ASSUME NEW d \in Docs, SweepRead(d) PROVE Annotations'
    <2>1. row' = row /\ imports' = imports /\ (faults' = 0 => faults = 0)
        BY <1>25, <1>t DEF SweepRead, docVars, importVars, Fault
    <2>2. \A b \in Chains : at'[b].step = "importing" => at'[b] = at[b]
        BY <1>25, <1>t DEF SweepRead, Meet, AtType, Idle
    <2> QED
        BY <1>k, <2>1, <2>2
<1>26. ASSUME SweepMark PROVE Annotations'
    <2>1. row' = row /\ imports' = imports /\ (faults' = 0 => faults = 0)
        BY <1>26, <1>t DEF SweepMark, docVars, importVars, Fault
    <2>2. \A b \in Chains : at'[b].step = "importing" => at'[b] = at[b]
        BY <1>26, <1>t DEF SweepMark, AtType, Idle
    <2> QED
        BY <1>k, <2>1, <2>2
<1>27. ASSUME NEW c \in Chains, NEW b \in Chains, Redeliver(c, b) PROVE Annotations'
    <2>1. row' = row /\ imports' = imports /\ (faults' = 0 => faults = 0)
        BY <1>27, <1>t DEF Redeliver, docVars, importVars, Fault
    <2>2. \A p \in Chains : at'[p].step = "importing" => at'[p] = at[p]
        BY <1>27, <1>t, RedeliverShape DEF Tasks
    <2> QED
        BY <1>k, <2>1, <2>2
<1>28. ASSUME UNCHANGED vars PROVE Annotations'
    <2>1. row' = row /\ imports' = imports /\ (faults' = 0 => faults = 0)
        BY <1>28, <1>t DEF vars, docVars, importVars, Fault
    <2>2. \A b \in Chains : at'[b].step = "importing" => at'[b] = at[b]
        BY <1>28, <1>t DEF vars, AtType, Idle
    <2> QED
        BY <1>k, <2>1, <2>2
<1>29. ASSUME NEW d \in Docs, ConvergeDocument(d) PROVE Annotations'
    <2>1. /\ status[d] = "ABSENT" /\ row' = [row EXCEPT ![d] = "KEPT"]
          /\ UNCHANGED <<at, imports, faults>>
        BY <1>29 DEF ConvergeDocument
    <2>2. \A b \in Chains : at[b].step = "importing" => at[b].doc # d
        BY <1>t, <2>1 DEF Started
    <2> QED
        BY <1>t, <2>1, <2>2 DEF Annotations, Started, DocTypes
<1> QED
    BY ONLY [Next]_vars, <1>1, <1>2, <1>3, <1>4, <1>5, <1>6, <1>7, <1>8, <1>9, <1>10,
            <1>11, <1>12, <1>13, <1>14, <1>15, <1>16, <1>17, <1>18, <1>19, <1>20,
            <1>21, <1>22, <1>23, <1>24, <1>25, <1>26, <1>27, <1>28, <1>29
       DEF Next, ChainStep, Trigger, Finalize

(* The steps behind the parser.                                              *)
Late == {"remap", "anchoring", "importing", "trigger", "claiming", "yielding", "dispatch",
         "unlock"}

(* One chain has the document, or the sweep, or nobody; and behind the       *)
(* parser the document was parsed or has failed.                             *)
Undisturbed(d) ==
    /\ \A b, c \in Chains : Runs(b, d) /\ Runs(c, d) => b = c
    /\ sweep = d => status[d] = "PROCESSING" /\ \A c \in Chains : ~Runs(c, d)
    /\ status[d] # "ABSENT" => (locked[d] <=> status[d] # "COMPLETED")
    /\ status[d] = "COMPLETED" => parsed[d]
    /\ \A c \in Chains : Runs(c, d) =>
          /\ status[d] # "COMPLETED"
          /\ at[c].step \in Late => status[d] = "FAILED" \/ parsed[d]
          /\ at[c].step = "unlocking" => parsed[d]

(* Every document that nobody disturbed.                                     *)
Outcome == \A d \in Docs : ~disturbed[d] => Undisturbed(d)

(* A chain that moves on changes its own document only.                      *)
LEMMA ChainMoves ==
    ASSUME Shape, Outcome, NEW c \in Chains, at[c].step # "idle", NEW d, d = at[c].doc,
           sweep' = sweep, \A p \in Chains \ {c} : at'[p] = at[p],
           at'[c].step = "idle" \/ at'[c].doc = d,
           \A e \in Docs \ {d} : /\ status'[e] = status[e] /\ locked'[e] = locked[e]
                                 /\ parsed'[e] = parsed[e] /\ disturbed'[e] = disturbed[e],
           ~disturbed'[d] =>
               /\ ~disturbed[d] /\ status'[d] # "ABSENT"
               /\ locked'[d] <=> status'[d] # "COMPLETED"
               /\ status'[d] = "COMPLETED" => parsed'[d]
               /\ at'[c].step # "idle" =>
                     /\ status'[d] # "COMPLETED"
                     /\ at'[c].step \in Late => status'[d] = "FAILED" \/ parsed'[d]
                     /\ at'[c].step = "unlocking" => parsed'[d]
    PROVE  Outcome'
<1>1. d \in Docs
    BY DEF Shape, AtsOK, AtOK, AtType, Observers
<1>2. ASSUME NEW e \in Docs \ {d}, ~disturbed'[e] PROVE Undisturbed(e)'
    <2>1. \A p \in Chains : Runs(p, e)' => Runs(p, e) /\ at'[p] = at[p]
        BY DEF Runs
    <2> QED
        BY <1>2, <2>1 DEF Outcome, Undisturbed
<1>3. ASSUME ~disturbed'[d] PROVE Undisturbed(d)'
    <2>1. Runs(c, d) /\ Undisturbed(d)
        BY <1>1, <1>3 DEF Runs, Outcome
    <2>2. \A p \in Chains : Runs(p, d)' => p = c
        BY <2>1 DEF Runs, Undisturbed
    <2>3. sweep' # d
        BY <2>1 DEF Undisturbed
    <2> QED
        BY <1>3, <2>2, <2>3 DEF Undisturbed, Runs
<1> QED
    BY <1>1, <1>2, <1>3 DEF Outcome

(* Whoever comes beside a chain disturbs its document.                       *)
LEMMA OutcomeStep == ASSUME Shape, Outcome, [Next]_vars PROVE Outcome'
<1>t. /\ at \in [Observers -> AtType] /\ Chains \subseteq Observers /\ Importer \notin Chains
      /\ DocTypes /\ Started /\ NONE \notin Docs
      /\ \A c \in Chains : at[c].step # "idle" => at[c].doc \in Docs
    BY IngestionAssumption DEF Shape, AtsOK, AtOK, AtType, Observers
<1>k. ASSUME status' = status, locked' = locked, parsed' = parsed, sweep' = sweep,
             disturbed' = disturbed,
             \A b \in Chains : \/ at'[b].step = "idle"
                               \/ /\ at'[b].doc = at[b].doc /\ at[b].step # "idle"
                                  /\ at'[b].step \in Late => at[b].step \in Late \cup {"unlocking"}
                                  /\ at'[b].step = "unlocking" => at[b].step = "unlocking"
      PROVE  Outcome'
    BY <1>k DEF Outcome, Undisturbed, Runs
<1>1. ASSUME NEW d \in Docs, NEW c \in Chains, ImportDocument(d, c) PROVE Outcome'
    BY <1>1, <1>t
       DEF ImportDocument, Begin, Outcome, Undisturbed, Runs, Late, AtType, docVars, importVars,
           Idle, DocTypes, Started
<1>2. ASSUME NEW d \in Docs, NEW c \in Chains, Retry(d, c) PROVE Outcome'
    <2>1. /\ sweep' = sweep /\ parsed' = parsed /\ Meet(d)
          /\ status' = [status EXCEPT ![d] = "PENDING"] /\ locked' = [locked EXCEPT ![d] = TRUE]
        BY <1>2 DEF Retry
    <2>2. \A p \in Chains : at'[p] = at[p] \/ at'[p].doc = d
        BY <1>2, <1>t DEF Retry, Begin, Idle
    <2>5. \A p \in Chains : at'[p] = at[p] \/ (p = c /\ at'[p].step = "convert")
        BY <1>2, <1>t DEF Retry, Begin, Idle
    <2>3. ASSUME NEW e \in Docs \ {d}, ~disturbed'[e] PROVE Undisturbed(e)'
        <3>1. ~disturbed[e]
            BY <1>t, <2>1, <2>3 DEF DocTypes, Meet
        <3>2. \A p \in Chains : Runs(p, e)' => Runs(p, e) /\ at'[p] = at[p]
            BY <2>2, <2>3 DEF Runs
        <3>3. /\ status'[e] = status[e] /\ locked'[e] = locked[e]
              /\ parsed'[e] = parsed[e] /\ sweep' = sweep
            BY <1>t, <2>1 DEF DocTypes
        <3> QED
            BY <3>1, <3>2, <3>3 DEF Outcome, Undisturbed
    <2>4. ASSUME ~disturbed'[d] PROVE Undisturbed(d)'
        <3>1. sweep # d /\ \A p \in Chains : ~Runs(p, d)
            BY <1>t, <2>1, <2>4 DEF DocTypes, Meet
        <3>2. \A p \in Chains : Runs(p, d)' => p = c /\ at'[p].step = "convert"
            BY <2>5, <3>1 DEF Runs
        <3>3. status'[d] = "PENDING" /\ locked'[d]
            BY <1>t, <2>1 DEF DocTypes
        <3> QED
            BY <2>1, <3>1, <3>2, <3>3 DEF Undisturbed, Late
    <2> QED
        BY <2>3, <2>4 DEF Outcome
<1>3. ASSUME Arm PROVE Outcome'
    <2>1. status' = status /\ locked' = locked /\ parsed' = parsed /\ sweep' = sweep /\ disturbed' = disturbed
        BY <1>3 DEF Arm, docVars
    <2>2. \A b \in Chains : \/ at'[b].step = "idle"
                            \/ /\ at'[b].doc = at[b].doc /\ at[b].step # "idle"
                               /\ at'[b].step \in Late => at[b].step \in Late \cup {"unlocking"}
                               /\ at'[b].step = "unlocking" => at[b].step = "unlocking"
        BY <1>3, <1>t DEF Arm, Go, AtType, Idle, Late
    <2> QED
        BY <1>k, <2>1, <2>2
<1>4. ASSUME NEW c \in Chains, Convert(c) PROVE Outcome'
    <2>1. Runs(c, at[c].doc) /\ at[c].doc \in Docs /\ status[at[c].doc] # "ABSENT"
        BY <1>4, <1>t DEF Convert, Runs, Started
    <2>2. ~disturbed[at[c].doc] => Undisturbed(at[c].doc)
        BY <2>1 DEF Outcome
    <2>3. sweep' = sweep /\ \A p \in Chains \ {c} : at'[p] = at[p]
        BY <1>4, <1>t DEF Convert, Go
    <2>4. at'[c].step # "idle" /\ at'[c].doc = at[c].doc
        BY <1>4, <1>t DEF Convert, Go, AtType
    <2>5. \A e \in Docs \ {at[c].doc} : /\ status'[e] = status[e] /\ locked'[e] = locked[e]
                                       /\ parsed'[e] = parsed[e] /\ disturbed'[e] = disturbed[e]
        BY <1>4, <1>t DEF Convert, DocTypes
    <2>6. ~disturbed'[at[c].doc] =>
               /\ ~disturbed[at[c].doc] /\ status'[at[c].doc] # "ABSENT"
               /\ locked'[at[c].doc] <=> status'[at[c].doc] # "COMPLETED"
               /\ status'[at[c].doc] = "COMPLETED" => parsed'[at[c].doc]
               /\ at'[c].step # "idle" =>
                     /\ status'[at[c].doc] # "COMPLETED"
                     /\ at'[c].step \in Late => status'[at[c].doc] = "FAILED" \/ parsed'[at[c].doc]
                     /\ at'[c].step = "unlocking" => parsed'[at[c].doc]
        BY <1>4, <1>t, <2>1, <2>2 DEF Convert, Go, DocTypes, Undisturbed, Late, AtType
    <2> QED
        BY <1>t, <2>1, <2>3, <2>4, <2>5, <2>6, ChainMoves DEF Runs
<1>5. ASSUME NEW c \in Chains, IngestBegin(c) PROVE Outcome'
    <2>1. Runs(c, at[c].doc) /\ at[c].doc \in Docs /\ status[at[c].doc] # "ABSENT"
        BY <1>5, <1>t DEF IngestBegin, Runs, Started
    <2>2. ~disturbed[at[c].doc] => Undisturbed(at[c].doc)
        BY <2>1 DEF Outcome
    <2>3. sweep' = sweep /\ \A p \in Chains \ {c} : at'[p] = at[p]
        BY <1>5, <1>t DEF IngestBegin, Go
    <2>4. at'[c].step # "idle" /\ at'[c].doc = at[c].doc
        BY <1>5, <1>t DEF IngestBegin, Go, AtType
    <2>5. \A e \in Docs \ {at[c].doc} : /\ status'[e] = status[e] /\ locked'[e] = locked[e]
                                       /\ parsed'[e] = parsed[e] /\ disturbed'[e] = disturbed[e]
        BY <1>5, <1>t DEF IngestBegin, DocTypes
    <2>6. ~disturbed'[at[c].doc] =>
               /\ ~disturbed[at[c].doc] /\ status'[at[c].doc] # "ABSENT"
               /\ locked'[at[c].doc] <=> status'[at[c].doc] # "COMPLETED"
               /\ status'[at[c].doc] = "COMPLETED" => parsed'[at[c].doc]
               /\ at'[c].step # "idle" =>
                     /\ status'[at[c].doc] # "COMPLETED"
                     /\ at'[c].step \in Late => status'[at[c].doc] = "FAILED" \/ parsed'[at[c].doc]
                     /\ at'[c].step = "unlocking" => parsed'[at[c].doc]
        BY <1>5, <1>t, <2>1, <2>2 DEF IngestBegin, Go, DocTypes, Undisturbed, Late, AtType
    <2> QED
        BY <1>t, <2>1, <2>3, <2>4, <2>5, <2>6, ChainMoves DEF Runs
<1>6. ASSUME NEW c \in Chains, IngestEnd(c) PROVE Outcome'
    <2>1. Runs(c, at[c].doc) /\ at[c].doc \in Docs /\ status[at[c].doc] # "ABSENT"
        BY <1>6, <1>t DEF IngestEnd, Runs, Started
    <2>2. ~disturbed[at[c].doc] => Undisturbed(at[c].doc)
        BY <2>1 DEF Outcome
    <2>3. sweep' = sweep /\ \A p \in Chains \ {c} : at'[p] = at[p]
        BY <1>6, <1>t DEF IngestEnd, Go
    <2>4. at'[c].step # "idle" /\ at'[c].doc = at[c].doc
        BY <1>6, <1>t DEF IngestEnd, Go, AtType
    <2>5. \A e \in Docs \ {at[c].doc} : /\ status'[e] = status[e] /\ locked'[e] = locked[e]
                                       /\ parsed'[e] = parsed[e] /\ disturbed'[e] = disturbed[e]
        BY <1>6, <1>t DEF IngestEnd, DocTypes
    <2>6. ~disturbed'[at[c].doc] =>
               /\ ~disturbed[at[c].doc] /\ status'[at[c].doc] # "ABSENT"
               /\ locked'[at[c].doc] <=> status'[at[c].doc] # "COMPLETED"
               /\ status'[at[c].doc] = "COMPLETED" => parsed'[at[c].doc]
               /\ at'[c].step # "idle" =>
                     /\ status'[at[c].doc] # "COMPLETED"
                     /\ at'[c].step \in Late => status'[at[c].doc] = "FAILED" \/ parsed'[at[c].doc]
                     /\ at'[c].step = "unlocking" => parsed'[at[c].doc]
        BY <1>6, <1>t, <2>1, <2>2 DEF IngestEnd, Go, DocTypes, Undisturbed, Late, AtType
    <2> QED
        BY <1>t, <2>1, <2>3, <2>4, <2>5, <2>6, ChainMoves DEF Runs
<1>7. ASSUME NEW c \in Chains, Remap(c) PROVE Outcome'
    <2>1. status' = status /\ locked' = locked /\ parsed' = parsed /\ sweep' = sweep /\ disturbed' = disturbed
        BY <1>7 DEF Remap, docVars
    <2>2. \A b \in Chains : \/ at'[b].step = "idle"
                            \/ /\ at'[b].doc = at[b].doc /\ at[b].step # "idle"
                               /\ at'[b].step \in Late => at[b].step \in Late \cup {"unlocking"}
                               /\ at'[b].step = "unlocking" => at[b].step = "unlocking"
        BY <1>7, <1>t DEF Remap, Go, AtType, Idle, Late
    <2> QED
        BY <1>k, <2>1, <2>2
<1>8. ASSUME NEW c \in Chains, AnchorClaim(c) PROVE Outcome'
    <2>1. status' = status /\ locked' = locked /\ parsed' = parsed /\ sweep' = sweep /\ disturbed' = disturbed
        BY <1>8 DEF AnchorClaim, docVars
    <2>2. \A b \in Chains : \/ at'[b].step = "idle"
                            \/ /\ at'[b].doc = at[b].doc /\ at[b].step # "idle"
                               /\ at'[b].step \in Late => at[b].step \in Late \cup {"unlocking"}
                               /\ at'[b].step = "unlocking" => at[b].step = "unlocking"
        BY <1>8, <1>t DEF AnchorClaim, Go, AtType, Idle, Late
    <2> QED
        BY <1>k, <2>1, <2>2
<1>9. ASSUME NEW c \in Chains, AnchorCommit(c) PROVE Outcome'
    <2>1. status' = status /\ locked' = locked /\ parsed' = parsed /\ sweep' = sweep /\ disturbed' = disturbed
        BY <1>9 DEF AnchorCommit, docVars
    <2>2. \A b \in Chains : \/ at'[b].step = "idle"
                            \/ /\ at'[b].doc = at[b].doc /\ at[b].step # "idle"
                               /\ at'[b].step \in Late => at[b].step \in Late \cup {"unlocking"}
                               /\ at'[b].step = "unlocking" => at[b].step = "unlocking"
        BY <1>9, <1>t DEF AnchorCommit, Go, AtType, Idle, Late
    <2> QED
        BY <1>k, <2>1, <2>2
<1>10. ASSUME NEW c \in Chains, Unlock(c) PROVE Outcome'
    <2>1. /\ at[c].step = "unlock" /\ UNCHANGED docVars /\ sweep' = sweep
          /\ disturbed' = disturbed /\ \A p \in Chains \ {c} : at'[p] = at[p]
        BY <1>10, <1>t DEF Unlock, Go, End
    <2>2. \/ at'[c].step = "idle"
          \/ /\ status[at[c].doc] # "FAILED"
             /\ at'[c].step = "unlocking" /\ at'[c].doc = at[c].doc
        BY <1>10, <1>t DEF Unlock, Go, End, Idle, AtType
    <2>3. at[c].doc \in Docs /\ Runs(c, at[c].doc)
        BY <1>t, <2>1 DEF Runs
    <2>4. "unlock" \in Late /\ "unlocking" \notin Late
        BY DEF Late
    <2> DEFINE d == at[c].doc
    <2>5. ~disturbed[d] => /\ locked[d] <=> status[d] # "COMPLETED"
                           /\ status[d] # "ABSENT" /\ status[d] # "COMPLETED"
                           /\ status[d] = "FAILED" \/ parsed[d]
        BY <1>t, <2>1, <2>3, <2>4 DEF Outcome, Undisturbed, Started
    <2>6. /\ status' = status /\ locked' = locked /\ parsed' = parsed
          /\ at[c].step # "idle" /\ (at'[c].step = "idle" \/ at'[c].doc = d)
        BY <2>1, <2>2 DEF docVars
    <2>7. ~disturbed'[d] =>
               /\ ~disturbed[d] /\ status'[d] # "ABSENT"
               /\ locked'[d] <=> status'[d] # "COMPLETED"
               /\ status'[d] = "COMPLETED" => parsed'[d]
               /\ at'[c].step # "idle" =>
                     /\ status'[d] # "COMPLETED"
                     /\ at'[c].step \in Late => status'[d] = "FAILED" \/ parsed'[d]
                     /\ at'[c].step = "unlocking" => parsed'[d]
        BY <2>1, <2>2, <2>4, <2>5, <2>6
    <2> HIDE DEF d
    <2> QED
        BY <2>1, <2>6, <2>7, ChainMoves DEF d
<1>11. ASSUME NEW c \in Chains, UnlockSave(c) PROVE Outcome'
    BY <1>11, <1>t
       DEF UnlockSave, End, Outcome, Undisturbed, Runs, Late, AtType, docVars, importVars, Idle,
           DocTypes, Started
<1>12. ASSUME NEW c \in Chains, Errback(c) PROVE Outcome'
    <2>1. status' = status /\ locked' = locked /\ parsed' = parsed /\ sweep' = sweep /\ disturbed' = disturbed
        BY <1>12 DEF Errback, docVars
    <2>2. \A b \in Chains : \/ at'[b].step = "idle"
                            \/ /\ at'[b].doc = at[b].doc /\ at[b].step # "idle"
                               /\ at'[b].step \in Late => at[b].step \in Late \cup {"unlocking"}
                               /\ at'[b].step = "unlocking" => at[b].step = "unlocking"
        BY <1>12, <1>t DEF Errback, Go, End, AtType, Idle, Late
    <2> QED
        BY <1>k, <2>1, <2>2
<1>13. ASSUME NEW c \in Chains, ErrbackMark(c) PROVE Outcome'
    BY <1>13, <1>t
       DEF ErrbackMark, End, Outcome, Undisturbed, Runs, Late, AtType, docVars, importVars, Idle,
           DocTypes, Started
<1>14. ASSUME NEW c \in Chains, AnchorUnreadable(c) PROVE Outcome'
    <2>1. status' = status /\ locked' = locked /\ parsed' = parsed /\ sweep' = sweep /\ disturbed' = disturbed
        BY <1>14 DEF AnchorUnreadable, docVars
    <2>2. \A b \in Chains : \/ at'[b].step = "idle"
                            \/ /\ at'[b].doc = at[b].doc /\ at[b].step # "idle"
                               /\ at'[b].step \in Late => at[b].step \in Late \cup {"unlocking"}
                               /\ at'[b].step = "unlocking" => at[b].step = "unlocking"
        BY <1>14, <1>t DEF AnchorUnreadable, Go, Fault, AtType, Idle, Late
    <2> QED
        BY <1>k, <2>1, <2>2
<1>15. ASSUME NEW o \in Observers, Observe(o) PROVE Outcome'
    <2>1. status' = status /\ locked' = locked /\ parsed' = parsed /\ sweep' = sweep /\ disturbed' = disturbed
        BY <1>15 DEF Observe, docVars
    <2>2. \A b \in Chains : \/ at'[b].step = "idle"
                            \/ /\ at'[b].doc = at[b].doc /\ at[b].step # "idle"
                               /\ at'[b].step \in Late => at[b].step \in Late \cup {"unlocking"}
                               /\ at'[b].step = "unlocking" => at[b].step = "unlocking"
        BY <1>15, <1>t DEF Observe, Go, Observed, End, AtType, Idle, Late
    <2> QED
        BY <1>k, <2>1, <2>2
<1>16. ASSUME NEW o \in Observers, Claim(o) PROVE Outcome'
    <2>1. status' = status /\ locked' = locked /\ parsed' = parsed /\ sweep' = sweep /\ disturbed' = disturbed
        BY <1>16 DEF Claim, docVars
    <2>2. \A b \in Chains : \/ at'[b].step = "idle"
                            \/ /\ at'[b].doc = at[b].doc /\ at[b].step # "idle"
                               /\ at'[b].step \in Late => at[b].step \in Late \cup {"unlocking"}
                               /\ at'[b].step = "unlocking" => at[b].step = "unlocking"
        BY <1>16, <1>t DEF Claim, Go, AtType, Idle, Late
    <2> QED
        BY <1>k, <2>1, <2>2
<1>17. ASSUME NEW o \in Observers, Yield(o) PROVE Outcome'
    <2>1. status' = status /\ locked' = locked /\ parsed' = parsed /\ sweep' = sweep /\ disturbed' = disturbed
        BY <1>17 DEF Yield, docVars
    <2>2. \A b \in Chains : \/ at'[b].step = "idle"
                            \/ /\ at'[b].doc = at[b].doc /\ at[b].step # "idle"
                               /\ at'[b].step \in Late => at[b].step \in Late \cup {"unlocking"}
                               /\ at'[b].step = "unlocking" => at[b].step = "unlocking"
        BY <1>17, <1>t DEF Yield, Observed, Go, End, AtType, Idle, Late
    <2> QED
        BY <1>k, <2>1, <2>2
<1>18. ASSUME NEW o \in Observers, NEW f \in Finalizers, Dispatch(o, f) PROVE Outcome'
    <2>1. status' = status /\ locked' = locked /\ parsed' = parsed /\ sweep' = sweep /\ disturbed' = disturbed
        BY <1>18 DEF Dispatch, docVars
    <2>2. \A b \in Chains : \/ at'[b].step = "idle"
                            \/ /\ at'[b].doc = at[b].doc /\ at[b].step # "idle"
                               /\ at'[b].step \in Late => at[b].step \in Late \cup {"unlocking"}
                               /\ at'[b].step = "unlocking" => at[b].step = "unlocking"
        BY <1>18, <1>t DEF Dispatch, Observed, Go, End, AtType, Idle, Late
    <2> QED
        BY <1>k, <2>1, <2>2
<1>19. ASSUME NEW o \in Observers, Die(o) PROVE Outcome'
    <2>1. status' = status /\ locked' = locked /\ parsed' = parsed /\ sweep' = sweep /\ disturbed' = disturbed
        BY <1>19 DEF Die, docVars
    <2>2. \A b \in Chains : \/ at'[b].step = "idle"
                            \/ /\ at'[b].doc = at[b].doc /\ at[b].step # "idle"
                               /\ at'[b].step \in Late => at[b].step \in Late \cup {"unlocking"}
                               /\ at'[b].step = "unlocking" => at[b].step = "unlocking"
        <3>1. \A p \in Chains : at[p].step \in Steps \ {"idle", "enumerating"} =>
                  (Task(at[p].step) \in Late => at[p].step \in Late \cup {"unlocking"})
            BY DEF Task, Late, Steps
        <3>2. \A p \in Chains : at[p].step \in Steps \ {"enumerating"}
            BY DEF Shape, AtsOK, AtOK, AtType, Observers
        <3> QED
            BY <1>19, <1>t, <3>1, <3>2, DieShape DEF Tasks, Idle
    <2> QED
        BY <1>k, <2>1, <2>2
<1>20. ASSUME NEW f \in Finalizers, FinalizeBegin(f) PROVE Outcome'
    BY <1>20, <1>k DEF FinalizeBegin, Rerunnable, docVars, importVars, Late
<1>21. ASSUME NEW f \in Finalizers, FinalizeWire(f) PROVE Outcome'
    BY <1>21, <1>k DEF FinalizeWire, Rerunnable, docVars, importVars, Late
<1>22. ASSUME NEW f \in Finalizers, FinalizeFail(f) PROVE Outcome'
    BY <1>22, <1>k DEF FinalizeFail, docVars, importVars, Late
<1>23. ASSUME NEW f \in Finalizers, FinalizeRedeliver(f) PROVE Outcome'
    BY <1>23, <1>k DEF FinalizeRedeliver, Fault, docVars, importVars, Late
<1>24. ASSUME NEW f \in Finalizers, FinalizeDie(f) PROVE Outcome'
    BY <1>24, <1>k DEF FinalizeDie, Fault, docVars, importVars, Late
<1>25. ASSUME NEW d \in Docs, SweepRead(d) PROVE Outcome'
    BY <1>25, <1>t
       DEF SweepRead, Meet, Outcome, Undisturbed, Runs, Late, AtType, docVars, importVars, Idle,
           DocTypes, Started
<1>26. ASSUME SweepMark PROVE Outcome'
    BY <1>26, <1>t
       DEF SweepMark, Outcome, Undisturbed, Runs, Late, AtType, docVars, importVars, Idle,
           DocTypes, Started
<1>27. ASSUME NEW c \in Chains, NEW b \in Chains, Redeliver(c, b) PROVE Outcome'
    <2>1. UNCHANGED docVars /\ sweep' = sweep /\ Meet(at[c].doc)
        BY <1>27 DEF Redeliver
    <2>2. Runs(c, at[c].doc) /\ at[c].doc \in Docs
        BY <1>27, <1>t, RedeliverShape DEF Runs
    <2>3. disturbed' = [disturbed EXCEPT ![at[c].doc] = TRUE]
        BY <1>t, <2>1, <2>2 DEF Meet, DocTypes
    <2>4. \A p \in Chains : p # b => at'[p] = at[p]
        BY <1>27, <1>t, RedeliverShape
    <2>5. at'[b].doc = at[c].doc
        BY <1>27, RedeliverShape
    <2>6. ASSUME NEW e \in Docs, ~disturbed'[e] PROVE Undisturbed(e)'
        <3>1. e # at[c].doc /\ ~disturbed[e]
            BY <1>t, <2>2, <2>3, <2>6 DEF DocTypes
        <3>2. \A p \in Chains : Runs(p, e)' => Runs(p, e) /\ at'[p] = at[p]
            BY <2>4, <2>5, <3>1 DEF Runs
        <3> QED
            BY <2>1, <2>6, <3>1, <3>2 DEF Outcome, Undisturbed, docVars
    <2> QED
        BY <2>6 DEF Outcome
<1>28. ASSUME UNCHANGED vars PROVE Outcome'
    BY <1>28, <1>k DEF vars, docVars, importVars, Late
<1>29. ASSUME NEW d \in Docs, ConvergeDocument(d) PROVE Outcome'
    <2>1. /\ status[d] = "ABSENT" /\ UNCHANGED <<at, sweep, disturbed>>
          /\ \A e \in Docs \ {d} : /\ status'[e] = status[e] /\ locked'[e] = locked[e]
                                   /\ parsed'[e] = parsed[e]
        BY <1>29, <1>t DEF ConvergeDocument, DocTypes
    <2>2. PICK done \in BOOLEAN :
              /\ status'[d] = IF done THEN "COMPLETED" ELSE "FAILED"
              /\ locked'[d] = ~done /\ parsed'[d] = done
        BY <1>29, <1>t DEF ConvergeDocument, DocTypes
    <2>3. sweep # d /\ \A p \in Chains : ~Runs(p, d)
        BY <1>t, <2>1 DEF Started, Runs
    <2>4. ASSUME NEW e \in Docs \ {d}, ~disturbed'[e] PROVE Undisturbed(e)'
        BY <2>1, <2>4 DEF Outcome, Undisturbed, Runs
    <2>5. Undisturbed(d)'
        BY <2>1, <2>2, <2>3 DEF Undisturbed, Runs
    <2> QED
        BY <2>4, <2>5 DEF Outcome
<1> QED
    BY ONLY [Next]_vars, <1>1, <1>2, <1>3, <1>4, <1>5, <1>6, <1>7, <1>8, <1>9, <1>10,
            <1>11, <1>12, <1>13, <1>14, <1>15, <1>16, <1>17, <1>18, <1>19, <1>20,
            <1>21, <1>22, <1>23, <1>24, <1>25, <1>26, <1>27, <1>28, <1>29
       DEF Next, ChainStep, Trigger, Finalize

-----------------------------------------------------------------------------

(* The inductive invariant.                                                  *)
Inv == Shape /\ FanIn /\ Annotations /\ Outcome

(* It holds at the start.                                                    *)
LEMMA InitInv == Init => Inv
<1> SUFFICES ASSUME Init PROVE Inv
    OBVIOUS
<1>1. /\ at \in [Observers -> AtType] /\ Importer \in Observers /\ Importer \notin Chains
      /\ at[Importer].step = "enumerating" /\ \A c \in Chains : at[c] = Idle
      /\ Chains \subseteq Observers /\ at[Importer].doc = NONE
    BY IngestionAssumption DEF Init, Observers, AtType, Idle, Steps
<1>2. AtsOK
    <2>1. \A o \in Observers : at[o].step \notin {"claiming", "yielding"} /\ holder # o
        BY <1>1, IngestionAssumption DEF Observers, Init, Idle
    <2>2. \A o \in Observers : AtOK(o, at[o])
        BY <1>1 DEF Observers, AtOK, Idle, ImporterSteps
    <2> QED
        BY <1>1, <2>1, <2>2 DEF AtsOK, HolderOK, Init
<1>3. DocTypes /\ Started /\ ImportTypes
    <2>1. 0 \in 0..MaxFaults
        BY IngestionAssumption
    <2>2. DocTypes
        BY <2>1, IngestionAssumption DEF Init, DocTypes
    <2>4. ImportTypes
        <3>1. /\ import = "ENUMERATING" /\ final = [f \in Finalizers |-> "idle"]
              /\ dispatched = 0 /\ wired = 0 /\ overwritten = FALSE
            BY DEF Init
        <3>2. final \in [Finalizers -> {"idle", "sent", "wiring", "failing"}]
            BY <3>1
        <3>3. overwritten \in BOOLEAN
            BY <3>1
        <3>4. /\ import \in {"ENUMERATING", "READY", "FINALIZING", "DONE", "FAILED"}
              /\ dispatched \in Nat /\ wired \in 0..2
            BY <3>1
        <3> QED
            BY <3>2, <3>3, <3>4 DEF ImportTypes
    <2>3. Started
        BY <1>1, IngestionAssumption DEF Init, Started, Idle
    <2> QED
        BY <2>2, <2>4, <2>3
<1>4. FanIn
    BY <1>1 DEF Init, FanIn, Observers, Idle
<1>5. Annotations /\ Outcome
    BY <1>1, IngestionAssumption DEF Init, Annotations, Outcome, Undisturbed, Runs, Idle
<1> QED
    BY <1>2, <1>3, <1>4, <1>5 DEF Inv, Shape

(* Every step keeps it.                                                      *)
LEMMA NextInv == Inv /\ [Next]_vars => Inv'
BY ShapeStep, FanInStep, AnnotationsStep, OutcomeStep DEF Inv

(* So it always holds.                                                       *)
LEMMA Invariance == Spec => []Inv
<1>1. Init => Inv
    BY InitInv
<1>2. Inv /\ [Next]_vars => Inv'
    BY NextInv
<1> QED
    BY <1>1, <1>2, PTL DEF Spec

(* Documents, chains, the import and its finalizers keep their types, and a  *)
(* chain has a document just while it runs.                                  *)
THEOREM IngestionTypeCorrect == Spec => []TypeOK
<1>1. Inv => TypeOK
    BY IngestionAssumption
       DEF Inv, Shape, AtsOK, AtOK, AtType, HolderOK, DocTypes, Started, ImportTypes, TypeOK,
           Observers
<1> QED
    BY <1>1, Invariance, PTL

(* However tasks are delivered, retried and killed, the annotations of a     *)
(* document are imported at most once, and its row tells whether they were.  *)
THEOREM AnnotationsImportedOnce == Spec => []AnnotationsOnce
<1>1. Inv => AnnotationsOnce
    BY DEF Inv, Annotations, AnnotationsOnce
<1> QED
    BY <1>1, Invariance, PTL

(* However many chains race for the fan-in: at most one finalizer is sent,   *)
(* only after the last document has its annotations, and at most one wires   *)
(* the relationships unless a failing one has overwritten its success.  That *)
(* one is sent is not proved: the code may send none (ImportFinalizes).      *)
THEOREM FinalizedAtMostOnce == Spec => []FanInOnce
<1>1. Inv => FanInOnce
    BY DEF Inv, FanIn, FanInOnce
<1> QED
    BY <1>1, Invariance, PTL

(* The outcome of a document that is left to one chain is the one that its   *)
(* parse deserves, however often the chain was killed and retried.           *)
THEOREM OutcomesStand == Spec => []OutcomeStands
<1>1. Inv => OutcomeStands
    BY DEF Inv, Outcome, Undisturbed, OutcomeStands
<1> QED
    BY <1>1, Invariance, PTL

=============================================================================
