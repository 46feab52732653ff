--------------------------- MODULE ResearchReports ---------------------------
(***************************************************************************)
(* One deep-research report: the row, the messages in the broker that ask  *)
(* for its run, and the workers that carry it out (tasks/research_tasks.py *)
(* and research/services/research_reports.py).  The agent's language model *)
(* decides what it records and when it finalizes; usage limits and time    *)
(* limits end every run.                                                   *)
(*                                                                         *)
(* A worker works on its own instance of the row.  The appends and         *)
(* finalize_once lock the row, the other transitions are plain saves of    *)
(* named fields; so the row is where two workers meet: one redelivered     *)
(* after a death, or sent by the reaper although the first is alive.       *)
(***************************************************************************)
EXTENDS Naturals, FiniteSets

CONSTANTS
    Findings,    \* findings that the agents may record, each with its source
    Cards,       \* those that are material obligation cards
    Workers,
    MaxQueue,    \* bound: messages in the broker
    MaxFaults    \* bound: deaths, hard kills, lost messages, lost commits

ASSUME ResearchAssumption ==
    /\ Cards \subseteq Findings /\ IsFiniteSet(Findings)
    /\ MaxQueue \in Nat \ {0} /\ MaxFaults \in Nat

VARIABLES
    status,      \* of the row, "NONE" before start
    findings,    \* the findings of the row
    steps,       \* step_count
    stale,       \* last_progress_at is before the cutoff of the reaper
    queue,       \* messages in the broker
    worker,      \* the workers
    faults,
    recorded,    \* history: findings that were ever recorded
    told,        \* history: kinds of notifications sent
    composed,    \* history: compositions, counted up to two
    legs,        \* history: runs started, counted up to two
    shared,      \* history: two workers have had the report at once
    reopened     \* history: a run was started on a report that had ended

vars == <<status, findings, steps, stale, queue, worker, faults,
          recorded, told, composed, legs, shared, reopened>>

Active == {"QUEUED", "RUNNING"}
Terminal == {"COMPLETED", "FAILED", "CANCELLED"}

(* A worker: where it is, the findings of its instance, the sources that the *)
(* retrieval tools have surfaced in this run, and how the run ended.         *)
Idle == [step |-> "idle", findings |-> {}, retrieved |-> {}, outcome |-> "none"]

Init ==
    /\ status = "NONE" /\ findings = {} /\ steps = 0 /\ stale = FALSE
    /\ queue = 0 /\ worker = [w \in Workers |-> Idle] /\ faults = 0
    /\ recorded = {} /\ told = {} /\ composed = 0 /\ legs = 0
    /\ shared = FALSE /\ reopened = FALSE

Upto2(n) == IF n < 2 THEN n + 1 ELSE 2
Go(w, step) == worker' = [worker EXCEPT ![w].step = step]

(* The run is over: the terminal state is written, the notification is not.  *)
Ending(w, outcome) ==
    worker' = [worker EXCEPT ![w] = [Idle EXCEPT !.step = "telling", !.outcome = outcome]]

-----------------------------------------------------------------------------

(* start: the row, and after the commit the message, which may be lost.      *)
Start ==
    /\ status = "NONE" /\ status' = "QUEUED"
    /\ \/ queue' = 1 /\ UNCHANGED faults
       \/ queue' = 0 /\ faults < MaxFaults /\ faults' = faults + 1
    /\ UNCHANGED <<findings, steps, stale, worker, recorded, told, composed, legs, shared, reopened>>

-----------------------------------------------------------------------------
(* run_deep_research.                                                        *)

(* A worker loads the report, and is done with one that has ended.           *)
Deliver(w) ==
    /\ worker[w] = Idle /\ queue > 0 /\ queue' = queue - 1
    /\ IF status \in Terminal
       THEN UNCHANGED <<worker, shared>>
       ELSE /\ worker' = [worker EXCEPT ![w].step = "loaded", ![w].findings = findings]
            /\ shared' = (shared \/ \E v \in Workers : worker[v] # Idle)
    /\ UNCHANGED <<status, findings, steps, stale, faults, recorded, told, composed, legs, reopened>>

(* mark_started writes RUNNING whatever the row has become since the load.   *)
MarkStarted(w) ==
    /\ worker[w].step = "loaded"
    /\ status' = "RUNNING" /\ stale' = FALSE /\ Go(w, "preparing")
    /\ legs' = Upto2(legs) /\ reopened' = (reopened \/ status \in Terminal)
    /\ UNCHANGED <<findings, steps, queue, faults, recorded, told, composed, shared>>

(* The agent is built; nothing is retrieved yet.                             *)
Prepare(w) ==
    /\ worker[w].step = "preparing" /\ Go(w, "running")
    /\ UNCHANGED <<status, findings, steps, stale, queue, faults, recorded, told, composed, legs, shared, reopened>>

(* A run retrieves the source of a finding that an earlier one recorded.     *)
Retrieve(w, f) ==
    /\ worker[w].step = "running" /\ f \in recorded \ worker[w].retrieved
    /\ worker' = [worker EXCEPT ![w].retrieved = @ \cup {f}]
    /\ UNCHANGED <<status, findings, steps, stale, queue, faults, recorded, told, composed, legs, shared, reopened>>

(* Mutant: the append starts from the worker's instance.                     *)
RecordFindingUnlockedBug(w, f) ==
    /\ worker[w].step = "running" /\ f \notin recorded
    /\ findings' = worker[w].findings \cup {f}
    /\ worker' = [worker EXCEPT ![w].findings = worker[w].findings \cup {f},
                             ![w].retrieved = @ \cup {f}]
    /\ steps' = steps + 1 /\ stale' = FALSE /\ recorded' = recorded \cup {f}
    /\ UNCHANGED <<status, queue, faults, told, composed, legs, shared, reopened>>

(* A finding whose source the run has retrieved is appended to the locked    *)
(* row, whatever its status, and mirrored onto the instance.  The poll for a *)
(* requested cancel that follows raises inside the tool, and the tool        *)
(* wrapper turns that into an answer to the model: cancel_requested has no   *)
(* effect on the report, and is left out.                                    *)
RecordFinding(w, f) ==
    /\ worker[w].step = "running" /\ f \notin recorded
    /\ findings' = findings \cup {f}
    /\ worker' = [worker EXCEPT ![w].findings = findings \cup {f},
                             ![w].retrieved = @ \cup {f}]
    /\ steps' = steps + 1 /\ stale' = FALSE /\ recorded' = recorded \cup {f}
    /\ UNCHANGED <<status, queue, faults, told, composed, legs, shared, reopened>>

(* finalize, from the caller's instance.  Cards whose source this run did    *)
(* not retrieve are withheld: then, and only then, the instance's findings   *)
(* are written back.                                                         *)
Compose(w) ==
    /\ status' = "COMPLETED" /\ stale' = FALSE /\ composed' = Upto2(composed)
    /\ LET blocked == (worker[w].findings \cap Cards) \ worker[w].retrieved
       IN  findings' = IF blocked = {} THEN findings ELSE worker[w].findings \ blocked

(* Mutant: only a completed report refuses to be finalized.                  *)
FinalizeReportCompletedBug(w) ==
    /\ worker[w].step = "running" /\ status # "COMPLETED"
    /\ Compose(w)
    /\ worker' = [worker EXCEPT ![w].findings = findings']
    /\ UNCHANGED <<steps, queue, faults, recorded, told, legs, shared, reopened>>

(* finalize_report, under the row lock; a refusal is an answer to the model. *)
FinalizeReport(w) ==
    /\ worker[w].step = "running" /\ status \notin Terminal
    /\ Compose(w)
    /\ worker' = [worker EXCEPT ![w].findings = findings']
    /\ UNCHANGED <<steps, queue, faults, recorded, told, legs, shared, reopened>>

(* The model stops, or a usage limit or any error stops it, which chat turns *)
(* into an answer.                                                           *)
ChatEnds(w) ==
    /\ worker[w].step = "running" /\ Go(w, "ended")
    /\ UNCHANGED <<status, findings, steps, stale, queue, faults, recorded, told, composed, legs, shared, reopened>>

(* Mutant: a finalized run ends without an outcome to tell.                  *)
RefreshOutcomeBug(w) ==
    /\ worker[w].step = "ended"
    /\ IF status = "COMPLETED"
       THEN Go(w, "telling")
       ELSE worker' = [worker EXCEPT ![w].step = "salvaging", ![w].findings = findings]
    /\ UNCHANGED <<status, findings, steps, stale, queue, faults, recorded, told, composed, legs, shared, reopened>>

(* The row is read again; unless it is COMPLETED a salvage is composed.      *)
Refresh(w) ==
    /\ worker[w].step = "ended"
    /\ IF status = "COMPLETED"
       THEN Ending(w, "COMPLETED")
       ELSE worker' = [worker EXCEPT ![w].step = "salvaging", ![w].findings = findings]
    /\ UNCHANGED <<status, findings, steps, stale, queue, faults, recorded, told, composed, legs, shared, reopened>>

(* A refused salvage is dropped; the run counts as completed all the same.   *)
(* A database error in the copy to the workspace is swallowed inside the     *)
(* transaction, which then rolls back unnoticed.                             *)
Salvage(w) ==
    /\ worker[w].step = "salvaging" /\ Ending(w, "COMPLETED")
    /\ \/ status \notin Terminal /\ Compose(w) /\ UNCHANGED faults
       \/ status \in Terminal /\ UNCHANGED <<status, stale, findings, composed, faults>>
       \/ /\ faults < MaxFaults /\ faults' = faults + 1
          /\ UNCHANGED <<status, stale, findings, composed>>
    /\ UNCHANGED <<steps, queue, recorded, told, legs, shared, reopened>>

(* An exception before the chat or after it (within, the model is told);     *)
(* mark_failed saves without a look.                                         *)
MarkFailed(w) ==
    /\ worker[w].step \in {"preparing", "ended", "salvaging"}
    /\ status' = "FAILED" /\ stale' = FALSE /\ Ending(w, "FAILED")
    /\ UNCHANGED <<findings, steps, queue, faults, recorded, told, composed, legs, shared, reopened>>

(* Mutant: nobody is told of a run that ran out of time.                     *)
MarkCancelledSilentBug(w) ==
    /\ worker[w].step \in {"preparing", "running", "ended", "salvaging"}
    /\ status' = "CANCELLED" /\ stale' = FALSE
    /\ worker' = [worker EXCEPT ![w] = Idle]
    /\ UNCHANGED <<findings, steps, queue, faults, recorded, told, composed, legs, shared, reopened>>

(* The soft time limit; mark_cancelled saves without a look.                 *)
MarkCancelled(w) ==
    /\ worker[w].step \in {"preparing", "running", "ended", "salvaging"}
    /\ status' = "CANCELLED" /\ stale' = FALSE /\ Ending(w, "CANCELLED")
    /\ UNCHANGED <<findings, steps, queue, faults, recorded, told, composed, legs, shared, reopened>>

(* The notification, and the end of the task.                                *)
Tell(w) ==
    /\ worker[w].step = "telling"
    /\ told' = told \cup {worker[w].outcome} /\ worker' = [worker EXCEPT ![w] = Idle]
    /\ UNCHANGED <<status, findings, steps, stale, queue, faults, recorded, composed, legs, shared, reopened>>

-----------------------------------------------------------------------------

(* The worker process dies, and the broker delivers the message again; or    *)
(* the hard time limit kills the task, which counts as done.                 *)
Die(w) ==
    /\ worker[w] # Idle /\ faults < MaxFaults /\ faults' = faults + 1
    /\ worker' = [worker EXCEPT ![w] = Idle]
    /\ queue' \in {queue} \cup IF queue < MaxQueue THEN {queue + 1} ELSE {}
    /\ UNCHANGED <<status, findings, steps, stale, recorded, told, composed, legs, shared, reopened>>

Age ==
    /\ status = "RUNNING" /\ ~stale /\ stale' = TRUE
    /\ UNCHANGED <<status, findings, steps, queue, worker, faults, recorded, told, composed, legs, shared, reopened>>

(* Mutant: the reaper looks for reports that never started.                  *)
ReapQueuedBug ==
    /\ status = "QUEUED" /\ stale /\ queue < MaxQueue /\ queue' = queue + 1
    /\ UNCHANGED <<status, findings, steps, stale, worker, faults, recorded, told, composed, legs, shared, reopened>>

(* reap_stalled_research, in every sweep anew.                               *)
Reap ==
    /\ status = "RUNNING" /\ stale /\ queue < MaxQueue /\ queue' = queue + 1
    /\ UNCHANGED <<status, findings, steps, stale, worker, faults, recorded, told, composed, legs, shared, reopened>>

Proceed(w) ==
    \/ MarkStarted(w) \/ Prepare(w) \/ ChatEnds(w) \/ Refresh(w) \/ Salvage(w)
    \/ MarkFailed(w) \/ MarkCancelled(w) \/ Tell(w)

Next ==
    \/ Start
    \/ \E w \in Workers :
          \/ Deliver(w) \/ Proceed(w) \/ FinalizeReport(w) \/ Die(w)
          \/ \E f \in Findings : Retrieve(w, f) \/ RecordFinding(w, f)
    \/ Age \/ Reap

(* Workers take messages, a run ends at its limits at the latest, time       *)
(* passes, and Beat starts the reaper every five minutes.                    *)
Fairness ==
    /\ \A w \in Workers : WF_vars(Proceed(w))
    /\ WF_vars(\E w \in Workers : Deliver(w)) /\ WF_vars(Age) /\ WF_vars(Reap)

Spec == Init /\ [][Next]_vars /\ Fairness

-----------------------------------------------------------------------------

Steps == {"idle", "loaded", "preparing", "running", "ended", "salvaging", "telling"}

TypeOK ==
    /\ status \in {"NONE"} \cup Active \cup Terminal
    /\ stale \in BOOLEAN
    /\ findings \subseteq recorded /\ recorded \subseteq Findings
    /\ steps \in Nat /\ queue \in 0..MaxQueue /\ faults \in 0..MaxFaults
    /\ worker \in [Workers -> [step : Steps, findings : SUBSET recorded,
                               retrieved : SUBSET Findings, outcome : Terminal \cup {"none"}]]
    /\ \A w \in Workers : worker[w].step = "telling" <=> worker[w].outcome # "none"
    /\ \A w \in Workers : worker[w].step = "idle" => worker[w] = Idle
    /\ told \subseteq Terminal
    /\ composed \in 0..2 /\ legs \in 0..2
    /\ shared \in BOOLEAN /\ reopened \in BOOLEAN

(* Two workers append to one row, are killed and resumed: every append       *)
(* counts once, and until the report is composed no finding is missing.      *)
(* Composing writes back what the worker knows.  It loses nothing in the     *)
(* only run of a report; after a run that was resumed, but had the report to *)
(* itself, the gate may withhold the cards of the earlier leg; and a worker  *)
(* that shared the report may write back an old list and lose findings.      *)
FindingsKept ==
    /\ steps = Cardinality(recorded)
    /\ composed = 0 \/ legs = 1 => findings = recorded
    /\ ~shared => recorded \ findings \subseteq Cards

(* finalize "is deliberately NOT idempotent" (research_reports.py:721): a    *)
(* report is composed at most once, however many workers and salvages try,   *)
(* unless a run was started on a report that had ended meanwhile: that start *)
(* sets the status back, and a second worker may compose it again.           *)
FinalizedOnce == ~reopened => composed <= 1

(* "A notification + (optional) chat message land on every terminal state"   *)
(* (research_tasks.py:761): while there was no fault, the owner is told of   *)
(* the state that the report has in the end, and while one worker at a time  *)
(* had it, a completion is announced only for a report that was composed.    *)
OwnerIsTold ==
    faults = 0 =>
        /\ status \in Terminal /\ (\A w \in Workers : worker[w] = Idle) => status \in told
        /\ "COMPLETED" \in told /\ ~shared => composed > 0

(* Every run that has begun ends, wherever its worker dies: the broker       *)
(* delivers again, and the reaper finds what a hard kill left behind.        *)
EveryRunEnds == status = "RUNNING" ~> status \in Terminal

=============================================================================
