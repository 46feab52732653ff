------------------------------ MODULE AgentActions ------------------------------
(***************************************************************************)
(* The runs of one agent action of a corpus on one document                *)
(* (tasks/agent_tasks.py).  Whoever asks for a run creates an execution    *)
(* and sends a task; the task claims the one result that action and        *)
(* document have, lets the agent work, and records in both how it went.    *)
(* Results of other documents or actions share nothing with this one.      *)
(*                                                                         *)
(* Tasks are delivered at least once, and repeat themselves when they      *)
(* fail.  The claim locks the result; every later save is made from an     *)
(* instance that was read at the claim, and writes without a look.         *)
(***************************************************************************)
EXTENDS Naturals

CONSTANTS
    Executions,  \* executions that may ever be created
    Workers,
    NONE,        \* no execution
    MaxRetries,  \* retries of a task
    MaxFaults    \* bound: lost or repeated messages, deaths, database errors

ASSUME ActionAssumption ==
    /\ NONE \notin Executions /\ MaxRetries \in Nat /\ MaxFaults \in Nat

VARIABLES
    exec,        \* CorpusActionExecution.status; "SELECTED" is in a batch request's hand
    force,       \* executions whose tasks are to run even when there is a result
    result,      \* AgentActionResult: status, and whose agent_response it has
    queue,       \* messages in the broker, of each execution and number of retries
    worker,
    faults,
    lost,        \* history: executions with a lost message, or a task killed for good
    answered,    \* history: runs of the agent that ended well, counted up to two
    crossed      \* history: a forced claim, or the mark of a failure, was written over
                 \* a result that was finished, or in the hands of another

vars == <<exec, force, result, queue, worker, faults, lost, answered, crossed>>

Open == {"QUEUED", "RUNNING"}
Ended == {"COMPLETED", "FAILED"}

(* Where a task is, for whom, how often it was retried, and the answer that  *)
(* its instance of the result has.                                           *)
Idle == [step |-> "idle", exec |-> NONE, tries |-> 0, answer |-> NONE]
NoResult == [status |-> "NONE", answer |-> NONE]

Init ==
    /\ exec = [e \in Executions |-> "ABSENT"] /\ force = {}
    /\ result = NoResult /\ queue = [e \in Executions |-> [n \in 0..MaxRetries |-> 0]]
    /\ worker = [w \in Workers |-> Idle] /\ faults = 0
    /\ lost = {} /\ answered = 0 /\ crossed = FALSE

Fault == faults < MaxFaults /\ faults' = faults + 1
At(w) == worker[w].exec
Go(w, step) == worker' = [worker EXCEPT ![w].step = step]
Marked(e, status) == exec' = [exec EXCEPT ![e] = status]
Sent(e, n) == queue' = [queue EXCEPT ![e][n] = @ + 1]
Working(w) == worker[w].step = "running"
OthersWork(w) == \E v \in Workers \ {w} : Working(v)

-----------------------------------------------------------------------------
(* Who asks for a run: the message is sent after the commit, unless the      *)
(* sender dies in between.                                                   *)

Queue(e) ==
    /\ Marked(e, "QUEUED")
    /\ \/ Sent(e, 0) /\ UNCHANGED <<faults, lost>>
       \/ Fault /\ lost' = lost \cup {e} /\ UNCHANGED queue
    /\ UNCHANGED <<result, worker, answered, crossed>>

(* process_corpus_action: a document was added, edited or unlocked.  Several *)
(* of these may come for one document.                                       *)
Trigger(e) == exec[e] = "ABSENT" /\ Queue(e) /\ UNCHANGED force

(* RunCorpusAction.                                                          *)
RunNow(e) == exec[e] = "ABSENT" /\ Queue(e) /\ force' = force \cup {e}

(* batch_run_action finds the document without a live or finished execution, *)
(* and queues one; nothing keeps others from doing so in between.            *)
BatchSelect(e) ==
    /\ exec[e] = "ABSENT" /\ \A d \in Executions : exec[d] \notin Open \cup {"COMPLETED"}
    /\ Marked(e, "SELECTED")
    /\ UNCHANGED <<force, result, queue, worker, faults, lost, answered, crossed>>

BatchQueue(e) == exec[e] = "SELECTED" /\ Queue(e) /\ force' = force \cup {e}

-----------------------------------------------------------------------------
(* run_agent_corpus_action.                                                  *)

(* The execution is marked as started, whatever it has come to.              *)
Deliver(w, e, n) ==
    /\ worker[w] = Idle /\ queue[e][n] > 0
    /\ queue' = [queue EXCEPT ![e][n] = @ - 1] /\ Marked(e, "RUNNING")
    /\ worker' = [worker EXCEPT ![w] = [Idle EXCEPT !.step = "claiming", !.exec = e, !.tries = n]]
    /\ UNCHANGED <<force, result, faults, lost, answered, crossed>>

(* Action and document are loaded, which may raise.                          *)
LoadFails(w) ==
    /\ worker[w].step = "claiming" /\ Go(w, "failing")
    /\ UNCHANGED <<exec, force, result, queue, faults, lost, answered, crossed>>

(* There is no result to lock: the task goes on to create one.               *)
FindNone(w) ==
    /\ worker[w].step = "claiming" /\ result = NoResult /\ Go(w, "creating")
    /\ UNCHANGED <<exec, force, result, queue, faults, lost, answered, crossed>>

(* Another may have been quicker: the constraint raises.                     *)
Create(w) ==
    /\ worker[w].step = "creating"
    /\ IF result = NoResult
       THEN result' = [NoResult EXCEPT !.status = "RUNNING"] /\ Go(w, "running")
       ELSE Go(w, "failing") /\ UNCHANGED result
    /\ UNCHANGED <<exec, force, queue, faults, lost, answered, crossed>>

(* A claim by force, of what others have or have finished.                   *)
Forces(w) == At(w) \in force /\ (result.status = "COMPLETED" \/ OthersWork(w))

(* Mutant: only a finished result is left alone.                             *)
ClaimRunningBug(w) ==
    /\ worker[w].step = "claiming" /\ result # NoResult
    /\ IF At(w) \in force \/ result.status # "COMPLETED"
       THEN /\ result' = [result EXCEPT !.status = "RUNNING"]
            /\ worker' = [worker EXCEPT ![w].step = "running", ![w].answer = result.answer]
            /\ crossed' = (crossed \/ Forces(w))
       ELSE Go(w, "done") /\ UNCHANGED <<result, crossed>>
    /\ UNCHANGED <<exec, force, queue, faults, lost, answered>>

(* The result is locked, and claimed unless somebody has it or it is done:   *)
(* then the task has nothing to do, and counts as completed.                 *)
Claim(w) ==
    /\ worker[w].step = "claiming" /\ result # NoResult
    /\ IF At(w) \in force \/ result.status = "FAILED"
       THEN /\ result' = [result EXCEPT !.status = "RUNNING"]
            /\ worker' = [worker EXCEPT ![w].step = "running", ![w].answer = result.answer]
            /\ crossed' = (crossed \/ Forces(w))
       ELSE Go(w, "done") /\ UNCHANGED <<result, crossed>>
    /\ UNCHANGED <<exec, force, queue, faults, lost, answered>>

(* Mutant: the response is not among the fields that are saved.              *)
AnswerStatusBug(w) ==
    /\ worker[w].step = "running"
    /\ result' = [result EXCEPT !.status = "COMPLETED"]
    /\ Go(w, "done") /\ answered' = IF answered < 2 THEN answered + 1 ELSE 2
    /\ UNCHANGED <<exec, force, queue, faults, lost, crossed>>

(* The agent has answered: all of the instance is saved.                     *)
Answer(w) ==
    /\ worker[w].step = "running"
    /\ result' = [status |-> "COMPLETED", answer |-> At(w)]
    /\ Go(w, "done") /\ answered' = IF answered < 2 THEN answered + 1 ELSE 2
    /\ UNCHANGED <<exec, force, queue, faults, lost, crossed>>

(* The agent, or the save of its answer, raised: all of the instance is      *)
(* saved, with the answer that it had at the claim or has got since; or that *)
(* save raises as well.                                                      *)
AgentFails(w) ==
    /\ worker[w].step = "running" /\ Go(w, "failing")
    /\ \/ /\ \E a \in {worker[w].answer, At(w)} : result' = [status |-> "FAILED", answer |-> a]
          /\ UNCHANGED faults
       \/ Fault /\ UNCHANGED result
    /\ UNCHANGED <<exec, force, queue, lost, answered, crossed>>

(* The execution is completed; or this save, or the link to the result after *)
(* it, raises, which the task takes for a failure of its run.                *)
Complete(w) ==
    /\ worker[w].step = "done"
    /\ \/ Marked(At(w), "COMPLETED") /\ worker' = [worker EXCEPT ![w] = Idle] /\ UNCHANGED faults
       \/ /\ Fault /\ Go(w, "failing")
          /\ exec' \in {exec, [exec EXCEPT ![At(w)] = "COMPLETED"]}
    /\ UNCHANGED <<force, result, queue, lost, answered, crossed>>

(* Mutant: only the result is marked.                                        *)
FailExecutionBug(w) ==
    /\ worker[w].step = "failing" /\ Go(w, "failed")
    /\ UNCHANGED <<exec, force, result, queue, faults, lost, answered, crossed>>

(* The handler marks the execution.                                          *)
FailExecution(w) ==
    /\ worker[w].step = "failing" /\ Go(w, "failed") /\ Marked(At(w), "FAILED")
    /\ UNCHANGED <<force, result, queue, faults, lost, answered, crossed>>

(* It marks the result, created if need be, whosever it is; an error is only *)
(* logged.                                                                   *)
FailResult(w) ==
    /\ worker[w].step = "failed" /\ Go(w, "retrying")
    /\ \/ /\ result' = [result EXCEPT !.status = "FAILED"] /\ UNCHANGED faults
          /\ crossed' = (crossed \/ result.status = "COMPLETED" \/ OthersWork(w))
       \/ Fault /\ UNCHANGED <<result, crossed>>
    /\ UNCHANGED <<exec, force, queue, lost, answered>>

(* The task sends itself again, or has been retried often enough.            *)
Retry(w) ==
    /\ worker[w].step = "retrying" /\ worker' = [worker EXCEPT ![w] = Idle]
    /\ IF worker[w].tries < MaxRetries THEN Sent(At(w), worker[w].tries + 1) ELSE UNCHANGED queue
    /\ UNCHANGED <<exec, force, result, faults, lost, answered, crossed>>

-----------------------------------------------------------------------------
(* The broker.                                                               *)

(* The worker process is lost, and the task is delivered again; or the hard  *)
(* time limit kills the task, or its execution cannot be marked, and it      *)
(* counts as done.                                                           *)
Die(w) ==
    /\ worker[w] # Idle /\ Fault /\ worker' = [worker EXCEPT ![w] = Idle]
    /\ \/ Sent(At(w), worker[w].tries) /\ UNCHANGED lost
       \/ lost' = lost \cup {At(w)} /\ UNCHANGED queue
    /\ UNCHANGED <<exec, force, result, answered, crossed>>

(* The task takes longer than the visibility timeout.                        *)
Redeliver(w) ==
    /\ worker[w] # Idle /\ Fault /\ Sent(At(w), worker[w].tries)
    /\ UNCHANGED <<exec, force, result, worker, lost, answered, crossed>>

-----------------------------------------------------------------------------

Proceed(w) ==
    \/ LoadFails(w) \/ FindNone(w) \/ Create(w) \/ Claim(w) \/ Answer(w) \/ AgentFails(w)
    \/ Complete(w) \/ FailExecution(w) \/ FailResult(w) \/ Retry(w)

Next ==
    \/ \E e \in Executions : Trigger(e) \/ RunNow(e) \/ BatchSelect(e) \/ BatchQueue(e)
    \/ \E w \in Workers, e \in Executions, n \in 0..MaxRetries : Deliver(w, e, n)
    \/ \E w \in Workers : Proceed(w) \/ Die(w) \/ Redeliver(w)

(* Workers take what is in the broker, and a task ends or is killed.         *)
Fairness ==
    /\ \A w \in Workers : WF_vars(Proceed(w))
    /\ \A e \in Executions, n \in 0..MaxRetries :
          WF_vars(\E w \in Workers : Deliver(w, e, n))

Spec == Init /\ [][Next]_vars /\ Fairness

-----------------------------------------------------------------------------

Steps == {"idle", "claiming", "creating", "running", "done", "failing", "failed", "retrying"}

(* Rows, messages and tasks are well formed, and a finished result always    *)
(* has an answer, although failing runs save the answer of an old instance.  *)
TypeOK ==
    /\ exec \in [Executions -> {"ABSENT", "SELECTED"} \cup Open \cup Ended]
    /\ force \subseteq Executions /\ lost \subseteq Executions
    /\ result \in [status : {"NONE", "RUNNING"} \cup Ended, answer : Executions \cup {NONE}]
    /\ queue \in [Executions -> [0..MaxRetries -> Nat]]
    /\ worker \in [Workers -> [step : Steps, exec : Executions \cup {NONE},
                               tries : 0..MaxRetries, answer : Executions \cup {NONE}]]
    /\ \A w \in Workers : worker[w].exec = NONE <=> worker[w] = Idle
    /\ faults \in 0..MaxFaults /\ answered \in 0..2 /\ crossed \in BOOLEAN
    /\ result.status = "NONE" => result.answer = NONE
    /\ result.status = "COMPLETED" => result.answer # NONE

(* "Implements idempotency (skips already-completed or running tasks)"       *)
(* (docs/architecture/agent_corpus_actions_design.md:80): however tasks are  *)
(* repeated, retried and killed, one agent works at a time, on a result that *)
(* says so, and only one run answers, which the result shows from then on -  *)
(* until a forced run or the handler of a failure writes over it.            *)
OneAgentAtATime ==
    ~crossed =>
        /\ \A w, v \in Workers : Working(w) /\ Working(v) => w = v
        /\ (\E w \in Workers : Working(w)) => result.status = "RUNNING"
        /\ answered <= 1 /\ (answered = 1 => result.status = "COMPLETED")

(* Every run that was asked for ends: its execution is completed or failed   *)
(* for good, whatever worker is lost, unless its message was lost or its     *)
(* task was killed or could not mark it (nothing looks for those).           *)
EveryExecutionEnds ==
    \A e \in Executions : exec[e] \in Open ~> exec[e] \in Ended \/ e \in lost

=============================================================================
