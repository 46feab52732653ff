---------------------------- MODULE WorkerUploads ----------------------------
(***************************************************************************)
(* The staging queue of worker_uploads/tasks.py: documents and authority-  *)
(* section batches that external workers push are rows, and Celery slots   *)
(* on the queue worker_uploads drain them.  A row is claimed in a          *)
(* transaction of its own, processed in another one, and a sweep gives     *)
(* rows that have been in process for too long back to the queue.          *)
(*                                                                         *)
(* Time is abstract: a row in process goes stale at some moment after its  *)
(* claim (Age), whether the slot that claimed it is dead or only slow.     *)
(***************************************************************************)
EXTENDS Naturals, FiniteSets

CONSTANTS
    Uploads,     \* WorkerDocumentUpload rows
    Batches,     \* WorkerAuthoritySectionBatch rows; a settled one stands for a new one again
    Slots,       \* Celery slots that serve the queue
    NULL,        \* no row
    BatchSize,   \* WORKER_UPLOAD_BATCH_SIZE
    BatchCap,    \* WORKER_AUTHORITY_SECTION_BATCH_CAP
    MaxCrashes   \* bound: deaths of a slot in the middle of a task

Rows == Uploads \cup Batches

ASSUME QueueAssumption ==
    /\ Uploads \cap Batches = {} /\ NULL \notin Rows
    /\ BatchSize \in Nat \ {0} /\ BatchCap \in Nat /\ MaxCrashes \in Nat

VARIABLES
    status,      \* the status of each row, "ABSENT" before the push
    stale,       \* processing_started of a row in process is before the cutoff
    file,        \* the staging file of each upload exists
    imported,    \* documents made from each upload
    slot,        \* the task each slot executes
    crashes,     \* deaths so far
    overrun      \* history: uploads the sweep took from a live slot

vars == <<status, stale, file, imported, slot, crashes, overrun>>

Idle == [step |-> "idle", todo |-> {}, row |-> NULL, claimed |-> 0]

Pending(S) == {r \in S : status[r] = "PENDING"}
Stalled == {r \in Rows : status[r] = "PROCESSING" /\ stale[r]}
Settled(r) == status[r] \in {"COMPLETED", "FAILED"}

(* The rows that slot w has claimed and not settled.                         *)
Holds(w) ==
    slot[w].todo \cup
        (IF slot[w].step \in {"importing", "failing", "bootstrapping"}
         THEN {slot[w].row} ELSE {})

Init ==
    /\ status = [r \in Rows |-> "ABSENT"] /\ stale = [r \in Rows |-> FALSE]
    /\ file = [u \in Uploads |-> FALSE] /\ imported = [u \in Uploads |-> 0]
    /\ slot = [w \in Slots |-> Idle] /\ crashes = 0 /\ overrun = {}

-----------------------------------------------------------------------------
(* The endpoints: a row and its file are stored, and the drain is nudged.    *)

PushUpload(u) ==
    /\ status[u] = "ABSENT"
    /\ status' = [status EXCEPT ![u] = "PENDING"]
    /\ file' = [file EXCEPT ![u] = TRUE]
    /\ UNCHANGED <<stale, imported, slot, crashes, overrun>>

PushBatch(b) ==
    /\ status[b] = "ABSENT" \/ Settled(b)
    /\ \A w \in Slots : b \notin Holds(w)
    /\ status' = [status EXCEPT ![b] = "PENDING"]
    /\ UNCHANGED <<stale, file, imported, slot, crashes, overrun>>

-----------------------------------------------------------------------------
(* process_pending_uploads.                                                  *)

Start(S) ==
    /\ status' = [r \in Rows |-> IF r \in S THEN "PROCESSING" ELSE status[r]]
    /\ stale' = [r \in Rows |-> IF r \in S THEN FALSE ELSE stale[r]]

(* Mutant: the claim does not tell the two tables apart.                     *)
ClaimUploadsTablesBug(w) ==
    /\ slot[w].step = "idle"
    /\ \E S \in (SUBSET Pending(Rows)) \ {{}} :
          Start(S) /\ slot' = [slot EXCEPT ![w].step = "documents", ![w].todo = S]
    /\ UNCHANGED <<file, imported, crashes, overrun>>

(* The claim: up to BatchSize rows, in whatever order they were created.     *)
ClaimUploads(w) ==
    /\ slot[w].step = "idle"
    /\ \E S \in SUBSET Pending(Uploads) :
          /\ S # {} /\ Cardinality(S) <= BatchSize
          /\ Cardinality(S) = BatchSize \/ S = Pending(Uploads)
          /\ Start(S)
          /\ slot' = [slot EXCEPT ![w].step = "documents", ![w].todo = S]
    /\ UNCHANGED <<file, imported, crashes, overrun>>

(* Mutant: the staging file is deleted before the failure is recorded.       *)
OpenUploadDeleteBug(w, u) ==
    /\ slot[w].step = "documents" /\ u \in slot[w].todo
    /\ \E ok \in {FALSE, file[u]} :
          /\ slot' = [slot EXCEPT ![w].step = IF ok THEN "importing" ELSE "failing",
                                  ![w].row = u, ![w].todo = @ \ {u}]
          /\ file' = [file EXCEPT ![u] = ok]
    /\ UNCHANGED <<status, stale, imported, crashes, overrun>>

(* The next upload of the batch is read, its status ignored: the import      *)
(* raises, always without the staging file, and its transaction rolls back,  *)
(* or it gets to the commit.                                                 *)
OpenUpload(w, u) ==
    /\ slot[w].step = "documents" /\ u \in slot[w].todo
    /\ \E step \in {"failing"} \cup IF file[u] THEN {"importing"} ELSE {} :
          slot' = [slot EXCEPT ![w].step = step, ![w].row = u,
                               ![w].todo = @ \ {u}]
    /\ UNCHANGED <<status, stale, file, imported, crashes, overrun>>

Settle(w, outcome, next) ==
    /\ status' = [status EXCEPT ![slot[w].row] = outcome]
    /\ stale' = [stale EXCEPT ![slot[w].row] = FALSE]
    /\ slot' = [slot EXCEPT ![w] = next]
    /\ UNCHANGED <<crashes, overrun>>

ToCleanUp(w) == [slot[w] EXCEPT !.step = "cleanup"]

(* Mutant: an exception after the commit reaches the handler of the loop.    *)
CommitImportRaiseBug(w) ==
    /\ slot[w].step = "importing"
    /\ imported' = [imported EXCEPT ![slot[w].row] = @ + 1]
    /\ \E step \in {"cleanup", "failing"} :
          Settle(w, "COMPLETED", [slot[w] EXCEPT !.step = step])
    /\ UNCHANGED file

(* The document and the COMPLETED row are committed together.                *)
CommitImport(w) ==
    /\ slot[w].step = "importing"
    /\ imported' = [imported EXCEPT ![slot[w].row] = @ + 1]
    /\ Settle(w, "COMPLETED", ToCleanUp(w))
    /\ UNCHANGED file

FailUpload(w) ==
    /\ slot[w].step = "failing"
    /\ Settle(w, "FAILED", ToCleanUp(w))
    /\ UNCHANGED <<file, imported>>

(* The staging file is deleted, or the storage refuses and it stays.         *)
CleanUp(w) ==
    /\ slot[w].step = "cleanup"
    /\ file' \in {file, [file EXCEPT ![slot[w].row] = FALSE]}
    /\ slot' = [slot EXCEPT ![w].step = "documents", ![w].row = NULL]
    /\ UNCHANGED <<status, stale, imported, crashes, overrun>>

EndDocuments(w) ==
    /\ slot[w].step = "documents" /\ slot[w].todo = {}
    /\ slot' = [slot EXCEPT ![w] = Idle]
    /\ UNCHANGED <<status, stale, file, imported, crashes, overrun>>

-----------------------------------------------------------------------------
(* process_pending_section_batches: one row at a time, up to the cap.  What  *)
(* a batch does to the authority corpus is repeatable and left out.          *)

UnderCap(w) == BatchCap = 0 \/ slot[w].claimed < BatchCap

(* Mutant: the loop forgets to count its claims.                             *)
ClaimBatchUncountedBug(w, b) ==
    /\ slot[w].step \in {"idle", "sections"} /\ UnderCap(w)
    /\ b \in Pending(Batches)
    /\ Start({b})
    /\ slot' = [slot EXCEPT ![w].step = "bootstrapping", ![w].row = b]
    /\ UNCHANGED <<file, imported, crashes, overrun>>

ClaimBatch(w, b) ==
    /\ slot[w].step \in {"idle", "sections"} /\ UnderCap(w)
    /\ b \in Pending(Batches)
    /\ Start({b})
    /\ slot' = [slot EXCEPT ![w].step = "bootstrapping", ![w].row = b,
                            ![w].claimed = IF BatchCap = 0 THEN 0 ELSE @ + 1]
    /\ UNCHANGED <<file, imported, crashes, overrun>>

FinishBatch(w) ==
    /\ slot[w].step = "bootstrapping"
    /\ \E outcome \in {"COMPLETED", "FAILED"} :
          Settle(w, outcome, [slot[w] EXCEPT !.step = "sections", !.row = NULL])
    /\ UNCHANGED <<file, imported>>

EndSections(w) ==
    /\ slot[w].step = "sections"
    /\ ~UnderCap(w) \/ Pending(Batches) = {}
    /\ slot' = [slot EXCEPT ![w] = Idle]
    /\ UNCHANGED <<status, stale, file, imported, crashes, overrun>>

-----------------------------------------------------------------------------
(* recover_stalled_uploads.  The rows it selects stay locked until it        *)
(* commits, so the compare-and-swap always swaps; no slot keeps a row locked *)
(* while it processes it.                                                    *)
Sweep(w) ==
    /\ slot[w].step = "idle" /\ Stalled # {}
    /\ status' = [r \in Rows |-> IF r \in Stalled THEN "PENDING" ELSE status[r]]
    /\ stale' = [r \in Rows |-> FALSE]
    /\ overrun' = overrun \cup {u \in Uploads \cap Stalled : \E v \in Slots : u \in Holds(v)}
    /\ UNCHANGED <<file, imported, slot, crashes>>

(* WORKER_UPLOAD_STALE_MINUTES pass after the claim.                         *)
Age(r) ==
    /\ status[r] = "PROCESSING" /\ ~stale[r]
    /\ stale' = [stale EXCEPT ![r] = TRUE]
    /\ UNCHANGED <<status, file, imported, slot, crashes, overrun>>

(* The process dies, or an exception leaves the task: its redelivery is one  *)
(* more drain, which claims what is PENDING by then.                         *)
Crash(w) ==
    /\ slot[w].step # "idle" /\ crashes < MaxCrashes
    /\ slot' = [slot EXCEPT ![w] = Idle] /\ crashes' = crashes + 1
    /\ UNCHANGED <<status, stale, file, imported, overrun>>

-----------------------------------------------------------------------------

(* What a slot does next in the task it has begun.                           *)
Continue(w) ==
    \/ \E u \in Uploads : OpenUpload(w, u)
    \/ CommitImport(w)
    \/ FailUpload(w)
    \/ CleanUp(w)
    \/ EndDocuments(w)
    \/ slot[w].step = "sections" /\ \E b \in Batches : ClaimBatch(w, b)
    \/ FinishBatch(w)
    \/ EndSections(w)

Next ==
    \/ \E u \in Uploads : PushUpload(u)
    \/ \E b \in Batches : PushBatch(b)
    \/ \E w \in Slots :
          \/ ClaimUploads(w)
          \/ \E b \in Batches : ClaimBatch(w, b)
          \/ Continue(w)
          \/ Sweep(w)
          \/ Crash(w)
    \/ \E r \in Rows : Age(r)

(* Beat sends every task again and again and the broker hands them out in    *)
(* order, so each gets a slot in the end, though not whenever a slot is idle *)
(* (SF); each claim takes the oldest rows, so each batch gets its turn.  A   *)
(* slot goes on with its task, and time passes.                              *)
Fairness ==
    /\ \A w \in Slots : WF_vars(Continue(w))
    /\ \A r \in Rows : WF_vars(Age(r))
    /\ SF_vars(\E w \in Slots : ClaimUploads(w))
    /\ \A b \in Batches : SF_vars(\E w \in Slots : ClaimBatch(w, b))
    /\ SF_vars(\E w \in Slots : Sweep(w))

Spec == Init /\ [][Next]_vars /\ Fairness

-----------------------------------------------------------------------------

Steps == {"idle", "documents", "importing", "failing", "cleanup", "sections", "bootstrapping"}

TypeOK ==
    /\ status \in [Rows -> {"ABSENT", "PENDING", "PROCESSING", "COMPLETED", "FAILED"}]
    /\ stale \in [Rows -> BOOLEAN]
    /\ file \in [Uploads -> BOOLEAN] /\ imported \in [Uploads -> Nat]
    /\ slot \in [Slots -> [step : Steps, todo : SUBSET Uploads,
                           row : Rows \cup {NULL}, claimed : Nat]]
    /\ \A w \in Slots :
          /\ slot[w].step \in {"importing", "failing", "cleanup"} => slot[w].row \in Uploads
          /\ slot[w].step = "bootstrapping" => slot[w].row \in Batches
    /\ crashes \in 0..MaxCrashes /\ overrun \in SUBSET Uploads

(* The staging file is there as long as an upload may still be processed,    *)
(* also after a crash anywhere and with several slots on the upload: it is   *)
(* deleted only "after successful commit" of the outcome (tasks.py:453).     *)
FileOutlivesUpload ==
    \A u \in Uploads : status[u] \in {"PENDING", "PROCESSING"} => file[u]

(* An upload that the sweep never took from a live slot has made one document *)
(* if it is COMPLETED, and otherwise none: crashes and retries ("each row is  *)
(* reset individually ... to prevent races", tasks.py:154) leave neither a    *)
(* duplicate nor a FAILED upload whose document exists.                       *)
StatusTellsImport ==
    \A u \in Uploads \ overrun :
        imported[u] = IF status[u] = "COMPLETED" THEN 1 ELSE 0

(* No push is lost, and none waits for ever behind the pushes of others: "a  *)
(* backlog ... can't monopolise" the slots (tasks.py:811).                   *)
EveryPushSettles == \A r \in Rows : status[r] = "PENDING" ~> Settled(r)

=============================================================================
