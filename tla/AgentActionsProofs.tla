------------------------ MODULE AgentActionsProofs ------------------------
(***************************************************************************)
(* Proofs about AgentActions, for any executions and workers, and any      *)
(* number of retries and faults.                                           *)
(*                                                                         *)
(* The result is the lock of the agents.  OneAgentAtATime says so: who     *)
(* works has it RUNNING, and an answer leaves it COMPLETED.  Together with *)
(* the shape of the state it is inductive as it stands: a claim finds the  *)
(* result in neither state, unless it is recorded as crossed, and so does  *)
(* the mark of a failure.                                                  *)
(***************************************************************************)
EXTENDS AgentActions, TLAPS

WorkerType == [step : Steps, exec : Executions \cup {NONE}, tries : 0..MaxRetries,
               answer : Executions \cup {NONE}]

(* Only a worker that does nothing has no execution.                         *)
WorkerOK(x) == x \in WorkerType /\ (x.exec = NONE <=> x = Idle)

WorkersOK ==
    /\ worker \in [Workers -> WorkerType]
    /\ \A w \in Workers : WorkerOK(worker[w])

ResultOK ==
    /\ result \in [status : {"NONE", "RUNNING"} \cup Ended, answer : Executions \cup {NONE}]
    /\ result.status = "NONE" => result.answer = NONE
    /\ result.status = "COMPLETED" => result.answer # NONE

QueueOK == queue \in [Executions -> [0..MaxRetries -> Nat]]

RestOK ==
    /\ exec \in [Executions -> {"ABSENT", "SELECTED"} \cup Open \cup Ended]
    /\ force \subseteq Executions /\ lost \subseteq Executions
    /\ faults \in 0..MaxFaults /\ answered \in 0..2 /\ crossed \in BOOLEAN

Shape == WorkersOK /\ ResultOK /\ QueueOK /\ RestOK

-----------------------------------------------------------------------------

(* A step that changes one worker.                                           *)
LEMMA ReplaceWorker ==
    ASSUME WorkersOK, NEW w \in Workers, NEW x, WorkerOK(x), worker' = [worker EXCEPT ![w] = x]
    PROVE  WorkersOK'
<1>1. worker' \in [Workers -> WorkerType]
    BY DEF WorkersOK, WorkerOK
<1>2. \A v \in Workers : worker'[v] = IF v = w THEN x ELSE worker[v]
    BY DEF WorkersOK
<1> QED
    BY <1>1, <1>2 DEF WorkersOK

(* A worker that has a task may go to any other step of it.                  *)
LEMMA GoWorker ==
    ASSUME WorkersOK, NEW w \in Workers, worker[w].step # "idle", NEW s \in Steps, Go(w, s)
    PROVE  WorkersOK'
<1> DEFINE x == [worker[w] EXCEPT !.step = s]
<1>1. worker[w] \in WorkerType /\ WorkerOK(worker[w])
    BY DEF WorkersOK
<1>2. worker[w].exec # NONE
    BY <1>1 DEF WorkerOK, Idle
<1>3. x \in WorkerType /\ x.exec = worker[w].exec
    BY <1>1 DEF WorkerType
<1>4. x # Idle
    BY <1>2, <1>3 DEF Idle
<1>5. WorkerOK(x) /\ worker' = [worker EXCEPT ![w] = x]
    BY <1>2, <1>3, <1>4 DEF WorkerOK, Go
<1> HIDE DEF x
<1> QED
    BY <1>5, ReplaceWorker

(* A worker that has a task may be done with it.                             *)
LEMMA LeaveWorker ==
    ASSUME WorkersOK, NEW w \in Workers, worker' = [worker EXCEPT ![w] = Idle]
    PROVE  WorkersOK'
<1>1. WorkerOK(Idle)
    BY ActionAssumption DEF WorkerOK, WorkerType, Idle, Steps
<1> QED
    BY <1>1, ReplaceWorker

(* A message more, or one less of those that are there.                      *)
LEMMA QueueChanges ==
    ASSUME QueueOK, NEW e \in Executions, NEW n \in 0..MaxRetries, NEW k \in Nat,
           queue' = [queue EXCEPT ![e][n] = k]
    PROVE  QueueOK'
BY DEF QueueOK

(* The count of one execution's messages.                                    *)
LEMMA QueueAt ==
    ASSUME QueueOK, NEW e \in Executions, NEW n \in 0..MaxRetries
    PROVE  queue[e][n] \in Nat
<1> DEFINE N == 0..MaxRetries
           f == queue[e]
<1>1. n \in N
    OBVIOUS
<1>2. f \in [N -> Nat]
    BY DEF QueueOK
<1> HIDE DEF N, f
<1>3. f[n] \in Nat
    BY <1>1, <1>2
<1> QED
    BY <1>3 DEF f

(* A message more.                                                           *)
LEMMA SendQueue ==
    ASSUME QueueOK, NEW e \in Executions, NEW n \in 0..MaxRetries, Sent(e, n)
    PROVE  QueueOK'
<1>1. queue[e][n] + 1 \in Nat
    BY QueueAt
<1> QED
    BY <1>1, QueueChanges DEF Sent

(* What a worker that has a task knows of it.                                *)
LEMMA TaskOf ==
    ASSUME WorkersOK, NEW w \in Workers, worker[w] # Idle
    PROVE  /\ At(w) \in Executions /\ worker[w].tries \in 0..MaxRetries
           /\ worker[w].answer \in Executions \cup {NONE}
<1>1. WorkerOK(worker[w])
    BY DEF WorkersOK
<1> QED
    BY <1>1 DEF WorkerOK, WorkerType, At

(* The frame of a step that touches neither workers nor messages, and so on. *)
LEMMA KeepWorkers == ASSUME WorkersOK, UNCHANGED worker PROVE WorkersOK'
BY DEF WorkersOK

(* A step that leaves the queue alone, and one that leaves the result alone. *)
LEMMA KeepQueue == ASSUME QueueOK, UNCHANGED queue PROVE QueueOK'
BY DEF QueueOK

(* And the result.                                                           *)
LEMMA KeepResult == ASSUME ResultOK, UNCHANGED result PROVE ResultOK'
BY DEF ResultOK

(* A fault is counted, below its bound.                                      *)
LEMMA FaultCounts == ASSUME RestOK, Fault PROVE faults' \in 0..MaxFaults
BY ActionAssumption DEF RestOK, Fault

(* A change of one execution's status.                                       *)
LEMMA MarkedExec ==
    ASSUME RestOK, NEW e \in Executions, NEW s \in {"SELECTED"} \cup Open \cup Ended, Marked(e, s)
    PROVE  exec' \in [Executions -> {"ABSENT", "SELECTED"} \cup Open \cup Ended]
BY DEF RestOK, Marked

-----------------------------------------------------------------------------

(* A request queues an execution; the force of it is the request's own.      *)
LEMMA QueueShape ==
    ASSUME Shape, NEW e \in Executions, Queue(e), force' \subseteq Executions
    PROVE  Shape'
<1>1. WorkersOK' /\ ResultOK'
    BY KeepWorkers, KeepResult DEF Shape, Queue
<1>2. QueueOK'
    <2>1. 0 \in 0..MaxRetries
        BY ActionAssumption
    <2> QED
        BY <2>1, SendQueue, KeepQueue DEF Shape, Queue
<1>3. exec' \in [Executions -> {"ABSENT", "SELECTED"} \cup Open \cup Ended]
    BY MarkedExec DEF Shape, Queue, Open
<1>4. faults' \in 0..MaxFaults /\ lost' \subseteq Executions
    BY FaultCounts DEF Shape, RestOK, Queue
<1>5. RestOK'
    BY <1>3, <1>4 DEF Shape, RestOK, Queue
<1> QED
    BY <1>1, <1>2, <1>5 DEF Shape

(* Every step keeps the shape, one case for each action.                     *)
LEMMA ShapeStep == Shape /\ [Next]_vars => Shape'
<1> SUFFICES ASSUME Shape, [Next]_vars PROVE Shape'
    OBVIOUS
<1> USE DEF Shape
<1>1. ASSUME NEW e \in Executions, Trigger(e) PROVE Shape'
    BY <1>1, QueueShape DEF Trigger, RestOK
<1>2. ASSUME NEW e \in Executions, RunNow(e) PROVE Shape'
    BY <1>2, QueueShape DEF RunNow, RestOK
<1>3. ASSUME NEW e \in Executions, BatchSelect(e) PROVE Shape'
    BY <1>3, KeepWorkers, KeepResult, KeepQueue, MarkedExec DEF BatchSelect, RestOK
<1>4. ASSUME NEW e \in Executions, BatchQueue(e) PROVE Shape'
    BY <1>4, QueueShape DEF BatchQueue, RestOK
<1>5. ASSUME NEW w \in Workers, NEW e \in Executions, NEW n \in 0..MaxRetries, Deliver(w, e, n)
      PROVE  Shape'
    <2> DEFINE x == [Idle EXCEPT !.step = "claiming", !.exec = e, !.tries = n]
    <2>1. WorkerOK(x)
        BY ActionAssumption DEF WorkerOK, WorkerType, Idle, Steps
    <2>2. worker' = [worker EXCEPT ![w] = x]
        BY <1>5 DEF Deliver
    <2> HIDE DEF x
    <2>3. WorkersOK'
        BY <2>1, <2>2, ReplaceWorker
    <2>4. QueueOK'
        <3>1. queue[e][n] \in Nat /\ queue[e][n] > 0
            BY <1>5, QueueAt DEF Deliver
        <3>2. queue[e][n] - 1 \in Nat
            BY <3>1
        <3> QED
            BY <1>5, <3>2, QueueChanges DEF Deliver
    <2>5. exec' \in [Executions -> {"ABSENT", "SELECTED"} \cup Open \cup Ended]
        BY <1>5, MarkedExec DEF Deliver, Open
    <2> QED
        BY <1>5, <2>3, <2>4, <2>5, KeepResult DEF Deliver, RestOK
<1>6. ASSUME NEW w \in Workers, LoadFails(w) PROVE Shape'
    BY <1>6, GoWorker, KeepQueue, KeepResult DEF LoadFails, RestOK, Steps
<1>7. ASSUME NEW w \in Workers, FindNone(w) PROVE Shape'
    BY <1>7, GoWorker, KeepQueue, KeepResult DEF FindNone, RestOK, Steps
<1>8. ASSUME NEW w \in Workers, Create(w) PROVE Shape'
    <2>1. WorkersOK'
        BY <1>8, GoWorker DEF Create, Steps
    <2>2. ResultOK'
        BY <1>8 DEF Create, ResultOK, NoResult
    <2> QED
        BY <1>8, <2>1, <2>2, KeepQueue DEF Create, RestOK
<1>9. ASSUME NEW w \in Workers, Claim(w) PROVE Shape'
    <2>1. WorkersOK'
        <3>1. CASE At(w) \in force \/ result.status = "FAILED"
            <4> DEFINE x == [worker[w] EXCEPT !.step = "running", !.answer = result.answer]
            <4>1. WorkerOK(worker[w]) /\ worker[w].step = "claiming"
                BY <1>9 DEF Claim, WorkersOK
            <4>2. worker[w].exec # NONE /\ result.answer \in Executions \cup {NONE}
                BY <4>1 DEF WorkerOK, Idle, ResultOK
            <4>3. x \in WorkerType /\ x.exec = worker[w].exec
                BY <4>1, <4>2 DEF WorkerOK, WorkerType, Steps
            <4>4. WorkerOK(x)
                BY <4>2, <4>3 DEF WorkerOK, Idle
            <4>5. worker' = [worker EXCEPT ![w] = x]
                BY <1>9, <3>1, <4>1 DEF Claim, WorkersOK, WorkerOK, WorkerType
            <4> HIDE DEF x
            <4> QED
                BY <4>4, <4>5, ReplaceWorker
        <3>2. CASE ~(At(w) \in force \/ result.status = "FAILED")
            BY <1>9, <3>2, GoWorker DEF Claim, Steps
        <3> QED
            BY <3>1, <3>2
    <2>2. ResultOK'
        BY <1>9 DEF Claim, ResultOK
    <2>3. RestOK'
        BY <1>9 DEF Claim, RestOK, Forces, OthersWork
    <2> QED
        BY <1>9, <2>1, <2>2, <2>3, KeepQueue DEF Claim
<1>10. ASSUME NEW w \in Workers, Answer(w) PROVE Shape'
    <2>1. WorkersOK'
        BY <1>10, GoWorker DEF Answer, Steps
    <2>2. At(w) \in Executions /\ At(w) # NONE
        BY <1>10, TaskOf, ActionAssumption DEF Answer, Idle
    <2>3. ResultOK'
        BY <1>10, <2>2 DEF Answer, ResultOK, Ended
    <2>4. answered' \in 0..2
        BY <1>10 DEF Answer, RestOK
    <2> QED
        BY <1>10, <2>1, <2>3, <2>4, KeepQueue DEF Answer, RestOK
<1>11. ASSUME NEW w \in Workers, AgentFails(w) PROVE Shape'
    <2>1. WorkersOK'
        BY <1>11, GoWorker DEF AgentFails, Steps
    <2>2. worker[w].answer \in Executions \cup {NONE} /\ At(w) \in Executions
        BY <1>11, TaskOf DEF AgentFails, Idle
    <2>3. ResultOK'
        BY <1>11, <2>2 DEF AgentFails, ResultOK, Ended
    <2>4. faults' \in 0..MaxFaults
        BY <1>11, FaultCounts DEF AgentFails, RestOK
    <2> QED
        BY <1>11, <2>1, <2>3, <2>4, KeepQueue DEF AgentFails, RestOK
<1>12. ASSUME NEW w \in Workers, Complete(w) PROVE Shape'
    <2>1. At(w) \in Executions
        BY <1>12, TaskOf DEF Complete, Idle
    <2>2. WorkersOK'
        BY <1>12, GoWorker, LeaveWorker DEF Complete, Steps
    <2>3. exec' \in [Executions -> {"ABSENT", "SELECTED"} \cup Open \cup Ended]
        BY <1>12, <2>1 DEF Complete, Marked, RestOK, Ended
    <2>4. faults' \in 0..MaxFaults
        BY <1>12, FaultCounts DEF Complete, RestOK
    <2> QED
        BY <1>12, <2>2, <2>3, <2>4, KeepQueue, KeepResult DEF Complete, RestOK
<1>13. ASSUME NEW w \in Workers, FailExecution(w) PROVE Shape'
    <2>1. At(w) \in Executions
        BY <1>13, TaskOf DEF FailExecution, Idle
    <2>2. exec' \in [Executions -> {"ABSENT", "SELECTED"} \cup Open \cup Ended]
        BY <1>13, <2>1, MarkedExec DEF FailExecution, Ended
    <2>3. WorkersOK'
        BY <1>13, GoWorker DEF FailExecution, Steps
    <2> QED
        BY <1>13, <2>2, <2>3, KeepQueue, KeepResult DEF FailExecution, RestOK
<1>14. ASSUME NEW w \in Workers, FailResult(w) PROVE Shape'
    <2>1. WorkersOK'
        BY <1>14, GoWorker DEF FailResult, Steps
    <2>2. ResultOK'
        BY <1>14 DEF FailResult, ResultOK, Ended
    <2>3. faults' \in 0..MaxFaults
        BY <1>14, FaultCounts DEF FailResult, RestOK
    <2>4. crossed' \in BOOLEAN
        BY <1>14 DEF FailResult, RestOK, OthersWork
    <2> QED
        BY <1>14, <2>1, <2>2, <2>3, <2>4, KeepQueue DEF FailResult, RestOK
<1>15. ASSUME NEW w \in Workers, Retry(w) PROVE Shape'
    <2>1. WorkersOK'
        BY <1>15, LeaveWorker DEF Retry
    <2>2. At(w) \in Executions /\ worker[w].tries \in 0..MaxRetries
        BY <1>15, TaskOf DEF Retry, Idle
    <2>3. worker[w].tries < MaxRetries => worker[w].tries + 1 \in 0..MaxRetries
        BY <2>2, ActionAssumption
    <2>4. QueueOK'
        BY <1>15, <2>2, <2>3, SendQueue, KeepQueue DEF Retry
    <2> QED
        BY <1>15, <2>1, <2>4, KeepResult DEF Retry, RestOK
<1>16. ASSUME NEW w \in Workers, Die(w) PROVE Shape'
    <2>1. At(w) \in Executions /\ worker[w].tries \in 0..MaxRetries
        BY <1>16, TaskOf DEF Die
    <2>2. WorkersOK'
        BY <1>16, LeaveWorker DEF Die
    <2>3. QueueOK'
        BY <1>16, <2>1, SendQueue, KeepQueue DEF Die
    <2>4. faults' \in 0..MaxFaults
        BY <1>16, FaultCounts DEF Die
    <2> QED
        BY <1>16, <2>1, <2>2, <2>3, <2>4, KeepResult DEF Die, RestOK
<1>17. ASSUME NEW w \in Workers, Redeliver(w) PROVE Shape'
    <2>1. At(w) \in Executions /\ worker[w].tries \in 0..MaxRetries
        BY <1>17, TaskOf DEF Redeliver
    <2>2. QueueOK'
        BY <1>17, <2>1, SendQueue DEF Redeliver
    <2>3. faults' \in 0..MaxFaults
        BY <1>17, FaultCounts DEF Redeliver
    <2> QED
        BY <1>17, <2>2, <2>3, KeepWorkers, KeepResult DEF Redeliver, RestOK
<1>18. CASE UNCHANGED vars
    BY <1>18, KeepWorkers, KeepQueue, KeepResult DEF vars, RestOK
<1> QED
    BY ONLY [Next]_vars, <1>1, <1>2, <1>3, <1>4, <1>5, <1>6, <1>7, <1>8, <1>9, <1>10, <1>11,
            <1>12, <1>13, <1>14, <1>15, <1>16, <1>17, <1>18 DEF Next, Proceed

-----------------------------------------------------------------------------

(* A worker that goes anywhere but to the agent, or gets or loses a task,    *)
(* sets nobody to work.                                                      *)
LEMMA GoIdles ==
    ASSUME WorkersOK, NEW w \in Workers, NEW s, s # "running", Go(w, s)
    PROVE  (\A v \in Workers : Working(v)' => Working(v) /\ v # w)
<1> DEFINE x == [worker[w] EXCEPT !.step = s]
<1>1. \A v \in Workers : worker'[v] = IF v = w THEN x ELSE worker[v]
    BY DEF WorkersOK, Go
<1>2. x.step = s
    BY DEF WorkersOK, WorkerType
<1> HIDE DEF x
<1> QED
    BY <1>1, <1>2 DEF Working

(* A worker that stops: no other starts to run.                              *)
LEMMA ReplaceIdles ==
    ASSUME WorkersOK, NEW w \in Workers, NEW x, x.step # "running", worker' = [worker EXCEPT ![w] = x]
    PROVE  (\A v \in Workers : Working(v)' => Working(v) /\ v # w)
BY DEF WorkersOK, Working

(* A step that leaves the result alone, and sets nobody to work.             *)
LEMMA QuietStep ==
    ASSUME OneAgentAtATime, UNCHANGED <<result, answered, crossed>>,
           \A v \in Workers : Working(v)' => Working(v)
    PROVE  OneAgentAtATime'
BY DEF OneAgentAtATime

(* A worker claims a result that nobody works on and nobody has finished.    *)
LEMMA ClaimStep ==
    ASSUME Shape, NEW w \in Workers, worker' \in [Workers -> WorkerType],
           \A v \in Workers : v # w => worker'[v] = worker[v],
           \A v \in Workers \ {w} : ~Working(v),
           answered = 0, answered' = 0, result'.status = "RUNNING"
    PROVE  OneAgentAtATime'
<1>1. \A v \in Workers : Working(v)' => v = w
    BY DEF Working
<1> QED
    BY <1>1 DEF OneAgentAtATime

(* No step sets a second agent to work.                                      *)
LEMMA ExclusiveStep == Shape /\ OneAgentAtATime /\ [Next]_vars => OneAgentAtATime'
<1> SUFFICES ASSUME Shape, OneAgentAtATime, [Next]_vars PROVE OneAgentAtATime'
    OBVIOUS
<1>0. WorkersOK /\ ResultOK /\ answered \in 0..2 /\ crossed \in BOOLEAN
    BY DEF Shape, RestOK
<1>1. ASSUME NEW e \in Executions, Queue(e) PROVE OneAgentAtATime'
    BY <1>1, QuietStep DEF Queue, Working
<1>2. ASSUME NEW e \in Executions, BatchSelect(e) PROVE OneAgentAtATime'
    BY <1>2, QuietStep DEF BatchSelect, Working
<1>3. ASSUME NEW w \in Workers, NEW e \in Executions, NEW n \in 0..MaxRetries, Deliver(w, e, n)
      PROVE  OneAgentAtATime'
    <2> DEFINE x == [Idle EXCEPT !.step = "claiming", !.exec = e, !.tries = n]
    <2>1. x.step # "running" /\ worker' = [worker EXCEPT ![w] = x]
        BY <1>3 DEF Deliver, Idle
    <2> HIDE DEF x
    <2> QED
        BY <1>3, <1>0, <2>1, ReplaceIdles, QuietStep DEF Deliver
<1>4. ASSUME NEW w \in Workers, LoadFails(w) PROVE OneAgentAtATime'
    BY <1>4, <1>0, GoIdles, QuietStep DEF LoadFails
<1>5. ASSUME NEW w \in Workers, FindNone(w) PROVE OneAgentAtATime'
    BY <1>5, <1>0, GoIdles, QuietStep DEF FindNone
<1>6. ASSUME NEW w \in Workers, Create(w) PROVE OneAgentAtATime'
    <2>1. CASE result # NoResult
        BY <1>6, <1>0, <2>1, GoIdles, QuietStep DEF Create
    <2>2. CASE result = NoResult /\ ~crossed
        <3>1. result.status = "NONE"
            BY <2>2 DEF NoResult
        <3>2. answered = 0 /\ \A v \in Workers : ~Working(v)
            BY <1>0, <2>2, <3>1 DEF OneAgentAtATime
        <3>3. worker' \in [Workers -> WorkerType] /\ \A v \in Workers : v # w => worker'[v] = worker[v]
            BY <1>6, <1>0, <2>2 DEF Create, Go, WorkersOK, WorkerType, Steps
        <3>4. result'.status = "RUNNING" /\ answered' = 0
            BY <1>6, <2>2, <3>2 DEF Create, NoResult
        <3> QED
            BY <3>2, <3>3, <3>4, ClaimStep
    <2>3. CASE crossed
        BY <1>6, <2>3 DEF Create, OneAgentAtATime
    <2> QED
        BY <1>0, <2>1, <2>2, <2>3
<1>7. ASSUME NEW w \in Workers, Claim(w) PROVE OneAgentAtATime'
    <2>1. CASE ~(At(w) \in force \/ result.status = "FAILED")
        BY <1>7, <1>0, <2>1, GoIdles, QuietStep DEF Claim
    <2>2. CASE (At(w) \in force \/ result.status = "FAILED") /\ ~crossed'
        <3>1. ~crossed /\ ~Forces(w)
            BY <1>7, <1>0, <2>2 DEF Claim
        <3>2. result.status # "COMPLETED" /\ ~OthersWork(w)
            <4>1. CASE At(w) \in force
                BY <3>1, <4>1 DEF Forces
            <4>2. CASE result.status = "FAILED"
                BY <3>1, <4>2 DEF OneAgentAtATime, OthersWork
            <4> QED
                BY <2>2, <4>1, <4>2
        <3>3. answered = 0
            BY <1>0, <3>1, <3>2 DEF OneAgentAtATime
        <3>4. worker' = [worker EXCEPT ![w].step = "running", ![w].answer = result.answer]
            BY <1>7, <2>2 DEF Claim
        <3>5. worker' \in [Workers -> WorkerType] /\ \A v \in Workers : v # w => worker'[v] = worker[v]
            <4>1. WorkersOK'
                BY ShapeStep DEF Shape
            <4> QED
                BY <3>4, <4>1, <1>0 DEF WorkersOK
        <3>6. result'.status = "RUNNING" /\ answered' = 0
            BY <1>7, <1>0, <2>2, <3>3 DEF Claim, ResultOK
        <3> QED
            BY <3>2, <3>3, <3>5, <3>6, ClaimStep DEF OthersWork
    <2>3. CASE crossed'
        BY <2>3 DEF OneAgentAtATime
    <2> QED
        BY <2>1, <2>2, <2>3
<1>8. ASSUME NEW w \in Workers, Answer(w) PROVE OneAgentAtATime'
    <2>1. CASE ~crossed
        <3>1. Working(w) /\ result.status = "RUNNING" /\ \A v \in Workers : Working(v) => v = w
            BY <1>8, <2>1 DEF Answer, Working, OneAgentAtATime
        <3>2. answered = 0
            BY <1>0, <2>1, <3>1 DEF OneAgentAtATime
        <3>3. \A v \in Workers : ~Working(v)'
            BY <1>8, <1>0, <3>1, GoIdles DEF Answer
        <3>4. answered' = 1 /\ result'.status = "COMPLETED"
            BY <1>8, <3>2 DEF Answer
        <3> QED
            BY <3>3, <3>4 DEF OneAgentAtATime
    <2>2. CASE crossed
        BY <1>8, <2>2 DEF Answer, OneAgentAtATime
    <2> QED
        BY <2>1, <2>2
<1>9. ASSUME NEW w \in Workers, AgentFails(w) PROVE OneAgentAtATime'
    <2>1. CASE ~crossed
        <3>1. Working(w) /\ result.status = "RUNNING" /\ \A v \in Workers : Working(v) => v = w
            BY <1>9, <2>1 DEF AgentFails, Working, OneAgentAtATime
        <3>2. answered = 0 /\ answered' = 0
            BY <1>9, <1>0, <2>1, <3>1 DEF OneAgentAtATime, AgentFails
        <3>3. \A v \in Workers : ~Working(v)'
            BY <1>9, <1>0, <3>1, GoIdles DEF AgentFails
        <3> QED
            BY <3>2, <3>3 DEF OneAgentAtATime
    <2>2. CASE crossed
        BY <1>9, <2>2 DEF AgentFails, OneAgentAtATime
    <2> QED
        BY <2>1, <2>2
<1>10. ASSUME NEW w \in Workers, Complete(w) PROVE OneAgentAtATime'
    <2>1. Idle.step # "running"
        BY DEF Idle
    <2> QED
        BY <1>10, <1>0, <2>1, GoIdles, ReplaceIdles, QuietStep DEF Complete
<1>11. ASSUME NEW w \in Workers, FailExecution(w) PROVE OneAgentAtATime'
    BY <1>11, <1>0, GoIdles, QuietStep DEF FailExecution
<1>12. ASSUME NEW w \in Workers, FailResult(w) PROVE OneAgentAtATime'
    <2>1. \A v \in Workers : Working(v)' => Working(v) /\ v # w
        BY <1>12, <1>0, GoIdles DEF FailResult
    <2>2. CASE UNCHANGED <<result, crossed>>
        BY <1>12, <2>1, <2>2, QuietStep DEF FailResult
    <2>3. CASE crossed' = (crossed \/ result.status = "COMPLETED" \/ OthersWork(w)) /\ ~crossed'
        <3>1. ~crossed /\ result.status # "COMPLETED" /\ ~OthersWork(w)
            BY <1>0, <2>3
        <3>2. answered = 0 /\ answered' = 0
            BY <1>12, <1>0, <3>1 DEF OneAgentAtATime, FailResult
        <3>3. \A v \in Workers : ~Working(v)'
            BY <2>1, <3>1 DEF OthersWork
        <3> QED
            BY <3>2, <3>3 DEF OneAgentAtATime
    <2>4. CASE crossed'
        BY <2>4 DEF OneAgentAtATime
    <2> QED
        BY <1>12, <2>2, <2>3, <2>4 DEF FailResult
<1>13. ASSUME NEW w \in Workers, Retry(w) \/ Die(w) \/ Redeliver(w) PROVE OneAgentAtATime'
    <2>1. Idle.step # "running"
        BY DEF Idle
    <2>2. \A v \in Workers : Working(v)' => Working(v)
        BY <1>13, <1>0, <2>1, ReplaceIdles DEF Retry, Die, Redeliver, Working
    <2> QED
        BY <1>13, <2>2, QuietStep DEF Retry, Die, Redeliver
<1>14. CASE UNCHANGED vars
    BY <1>14, QuietStep DEF vars, Working
<1> QED
    BY ONLY [Next]_vars, <1>1, <1>2, <1>3, <1>4, <1>5, <1>6, <1>7, <1>8, <1>9, <1>10, <1>11,
            <1>12, <1>13, <1>14 DEF Next, Proceed, Trigger, RunNow, BatchQueue

-----------------------------------------------------------------------------

IInv == Shape /\ OneAgentAtATime

(* The invariant holds at the start.                                         *)
LEMMA InitInv == Init => IInv
<1> SUFFICES ASSUME Init PROVE IInv
    OBVIOUS
<1>1. WorkersOK
    BY ActionAssumption DEF Init, WorkersOK, WorkerOK, WorkerType, Idle, Steps
<1>2. ResultOK /\ QueueOK
    BY DEF Init, ResultOK, QueueOK, NoResult
<1>3. RestOK
    <2>1. exec \in [Executions -> {"ABSENT", "SELECTED"} \cup Open \cup Ended]
        BY DEF Init
    <2>2. 0 \in 0..MaxFaults /\ 0 \in 0..2
        BY ActionAssumption
    <2> QED
        BY <2>1, <2>2 DEF Init, RestOK
<1>4. OneAgentAtATime
    BY DEF Init, OneAgentAtATime, Working, Idle
<1> QED
    BY <1>1, <1>2, <1>3, <1>4 DEF IInv, Shape

(* So it always holds.                                                       *)
LEMMA Invariance == Spec => []IInv
<1>1. IInv /\ [Next]_vars => IInv'
    BY ShapeStep, ExclusiveStep DEF IInv
<1> QED
    BY <1>1, InitInv, PTL DEF Spec

(* Rows, messages and tasks stay well formed, and a COMPLETED result of an   *)
(* action always has an answer, although a failing run saves the answer its  *)
(* instance had at the claim (tasks/agent_tasks.py).                         *)
THEOREM ActionTypeCorrect == Spec => []TypeOK
<1>1. IInv => TypeOK
    BY DEF IInv, Shape, WorkersOK, WorkerOK, WorkerType, ResultOK, QueueOK, RestOK, TypeOK
<1> QED
    BY <1>1, Invariance, PTL

(* However tasks are repeated, retried and killed, one agent works at a      *)
(* time, on a result that says so, and one run answers, unless a forced run  *)
(* or the mark of a failure has been written over the result                 *)
(* (_acquire_agent_result_for_run of tasks/agent_tasks.py).                  *)
THEOREM OneAgentOnly == Spec => []OneAgentAtATime
<1>1. IInv => OneAgentAtATime
    BY DEF IInv
<1> QED
    BY <1>1, Invariance, PTL

=============================================================================
