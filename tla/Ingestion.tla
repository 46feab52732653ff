------------------------------ MODULE Ingestion ------------------------------
(***************************************************************************)
(* The ingestion of the documents of one corpus import                     *)
(* (tasks/doc_tasks.py): for each document a chain of tasks converts,      *)
(* parses, anchors the annotations that came with it, and unlocks it.  The *)
(* import wires relationships between the annotations once all documents   *)
(* have theirs, and nobody waits for that: every chain, and the importer   *)
(* itself, looks whether it was the last.                                  *)
(*                                                                         *)
(* Beside the chains there are the sweep that gives up on documents that   *)
(* take too long, the user who retries failed ones, and a broker that      *)
(* delivers at least once, or loses a message.  Every task saves what it   *)
(* has decided on an instance it has read before.  Documents are their     *)
(* processing state; one import stands for all.                            *)
(***************************************************************************)
EXTENDS Naturals

CONSTANTS
    Docs,
    Chains,      \* chains that can be under way at once
    Importer,    \* the task that imports the corpus
    Finalizers,  \* deliveries of the finalizing task at once
    NONE,        \* no document, nobody
    MaxFaults    \* bound: deaths, redelivered and lost messages, unreadable files

Observers == Chains \cup {Importer}

ASSUME IngestionAssumption ==
    /\ Importer \notin Chains /\ NONE \notin Docs \cup Observers
    /\ MaxFaults \in Nat

VARIABLES
    status,      \* processing_status, "ABSENT" before the document is there
    locked,      \* backend_lock
    parsed,      \* the document has a text layer
    row,         \* its PendingDocumentAnnotations row; "KEPT": DONE from the start
    import,      \* status of the PendingCorpusImport row
    holder,      \* who holds the lock of that row
    at,          \* the chains, and the importer
    final,       \* the deliveries of finalize_corpus_import_relationships
    sweep,       \* the document that the sweep is about to give up
    faults,
    imports,     \* history: imports of the annotations of a document
    dispatched,  \* history: finalizers that were sent
    wired,       \* history: how often the relationships were wired, up to two
    overwritten, \* history: a failing finalizer has overwritten DONE
    disturbed    \* history: two chains, or the sweep and a chain, have met on the
                 \* document, or its parse was refused

docVars == <<status, locked, parsed, row>>
importVars == <<import, holder, final, dispatched, wired, overwritten>>
vars == <<docVars, importVars, at, sweep, faults, imports, disturbed>>

Idle == [step |-> "idle", doc |-> NONE, layers |-> FALSE]

Init ==
    /\ status = [d \in Docs |-> "ABSENT"] /\ locked = [d \in Docs |-> FALSE]
    /\ parsed = [d \in Docs |-> FALSE]
    /\ row = [d \in Docs |-> "NONE"] /\ imports = [d \in Docs |-> 0]
    /\ import = "ENUMERATING" /\ holder = NONE
    /\ at = [o \in Observers |-> IF o = Importer THEN [Idle EXCEPT !.step = "enumerating"] ELSE Idle]
    /\ final = [f \in Finalizers |-> "idle"] /\ dispatched = 0 /\ wired = 0
    /\ overwritten = FALSE /\ sweep = NONE /\ faults = 0
    /\ disturbed = [d \in Docs |-> FALSE]

Go(o, step) == at' = [at EXCEPT ![o].step = step]
End(o) == at' = [at EXCEPT ![o] = Idle]
Runs(c, d) == at[c].step # "idle" /\ at[c].doc = d
Free(c) == at[c] = Idle
Fault == faults < MaxFaults /\ faults' = faults + 1

(* Chain c starts on document d with the given task.                         *)
Begin(c, d, step) == at' = [at EXCEPT ![c] = [Idle EXCEPT !.step = step, !.doc = d]]

(* Something begins on document d, perhaps beside something else.            *)
Meet(d) ==
    disturbed' = [disturbed EXCEPT ![d] = @ \/ sweep = d \/ \E b \in Chains : Runs(b, d)]

Pending == {d \in Docs : row[d] = "PENDING"}

-----------------------------------------------------------------------------
(* The importer, _import_corpus with reingest_and_remap.                     *)

(* Document, pending row and chain come with one commit.  A document that    *)
(* cannot be imported is left out.                                           *)
ImportDocument(d, c) ==
    /\ at[Importer].step = "enumerating" /\ status[d] = "ABSENT" /\ Free(c)
    /\ status' = [status EXCEPT ![d] = "PENDING"]
    /\ locked' = [locked EXCEPT ![d] = TRUE] /\ row' = [row EXCEPT ![d] = "PENDING"]
    /\ Begin(c, d, "convert")
    /\ UNCHANGED <<parsed, importVars, sweep, faults, imports, disturbed>>

(* A document that is there already and has not changed gets no chain, and a *)
(* row that is DONE and has nothing to import.                               *)
ConvergeDocument(d) ==
    /\ at[Importer].step = "enumerating" /\ status[d] = "ABSENT"
    /\ row' = [row EXCEPT ![d] = "KEPT"]
    /\ \E done \in BOOLEAN :
          /\ status' = [status EXCEPT ![d] = IF done THEN "COMPLETED" ELSE "FAILED"]
          /\ locked' = [locked EXCEPT ![d] = ~done] /\ parsed' = [parsed EXCEPT ![d] = done]
    /\ UNCHANGED <<importVars, at, sweep, faults, imports, disturbed>>

Arm ==
    /\ at[Importer].step = "enumerating" /\ Go(Importer, "trigger") /\ import' = "READY"
    /\ UNCHANGED <<docVars, holder, final, dispatched, wired, overwritten, sweep, faults,
                   imports, disturbed>>

-----------------------------------------------------------------------------
(* A chain.                                                                  *)

(* convert_document_to_pdf and extract_thumbnail.  A conversion that fails   *)
(* marks the document and raises, the thumbnail only raises: the chain       *)
(* halts, and its errback is called.                                         *)
Convert(c) ==
    /\ at[c].step = "convert"
    /\ \/ Go(c, "ingest") /\ UNCHANGED status
       \/ Go(c, "errback") /\ status' \in {status, [status EXCEPT ![at[c].doc] = "FAILED"]}
    /\ UNCHANGED <<locked, parsed, row, importVars, sweep, faults, imports, disturbed>>

(* ingest_doc refuses a user who may not read the document, without marking  *)
(* it; else it writes PROCESSING and parses.                                 *)
IngestBegin(c) ==
    /\ at[c].step = "ingest"
    /\ \/ /\ Go(c, "remap") /\ disturbed' = [disturbed EXCEPT ![at[c].doc] = TRUE]
          /\ UNCHANGED status
       \/ /\ Go(c, "parsing") /\ status' = [status EXCEPT ![at[c].doc] = "PROCESSING"]
          /\ UNCHANGED disturbed
    /\ UNCHANGED <<locked, parsed, row, importVars, sweep, faults, imports>>

(* The parser succeeds; or fails for good, which marks the document and lets *)
(* the chain go on; or a chunk of a large document raises.  A retry starts   *)
(* the parser again and changes nothing.                                     *)
IngestEnd(c) ==
    /\ at[c].step = "parsing"
    /\ \/ Go(c, "remap") /\ parsed' = [parsed EXCEPT ![at[c].doc] = TRUE] /\ UNCHANGED status
       \/ Go(c, "remap") /\ status' = [status EXCEPT ![at[c].doc] = "FAILED"] /\ UNCHANGED parsed
       \/ Go(c, "errback") /\ UNCHANGED <<status, parsed>>
    /\ UNCHANGED <<locked, row, importVars, sweep, faults, imports, disturbed>>

(* remap_pending_annotations: nothing to do, or anchor the annotations in    *)
(* the layers that the document has by now.                                  *)
Remap(c) ==
    /\ at[c].step = "remap"
    /\ IF at[c].doc \in Pending
       THEN at' = [at EXCEPT ![c].step = "anchoring", ![c].layers = parsed[at[c].doc]]
       ELSE Go(c, "unlock")
    /\ UNCHANGED <<docVars, importVars, sweep, faults, imports, disturbed>>

RowLocked(d) == \E b \in Chains : at[b].step = "importing" /\ at[b].doc = d

(* Mutant: the row's status is not looked at again.                          *)
AnchorClaimBlindBug(c) ==
    /\ at[c].step = "anchoring"
    /\ Go(c, IF ~RowLocked(at[c].doc) THEN "importing" ELSE "trigger")
    /\ UNCHANGED <<docVars, importVars, sweep, faults, imports, disturbed>>

(* The row is locked unless somebody else has it, and read again.            *)
AnchorClaim(c) ==
    /\ at[c].step = "anchoring"
    /\ Go(c, IF ~RowLocked(at[c].doc) /\ at[c].doc \in Pending THEN "importing" ELSE "trigger")
    /\ UNCHANGED <<docVars, importVars, sweep, faults, imports, disturbed>>

(* Annotations and row commit together; FAILED when none could be placed, as *)
(* without layers.  An exception rolls back and halts the chain.             *)
AnchorCommit(c) ==
    /\ at[c].step = "importing"
    /\ \/ /\ at[c].layers /\ Go(c, "trigger") /\ row' = [row EXCEPT ![at[c].doc] = "DONE"]
          /\ imports' = [imports EXCEPT ![at[c].doc] = @ + 1]
       \/ /\ Go(c, "trigger") /\ row' = [row EXCEPT ![at[c].doc] = "FAILED"]
          /\ UNCHANGED imports
       \/ Go(c, "errback") /\ UNCHANGED <<row, imports>>
    /\ UNCHANGED <<status, locked, parsed, importVars, sweep, faults, disturbed>>

(* The layers cannot be read: the row is marked, without a second look.      *)
AnchorUnreadable(c) ==
    /\ at[c].step = "anchoring" /\ Fault
    /\ Go(c, "trigger") /\ row' = [row EXCEPT ![at[c].doc] = "FAILED"]
    /\ UNCHANGED <<status, locked, parsed, importVars, sweep, imports, disturbed>>

(* Mutant: a document that failed is unlocked with the others.               *)
UnlockBlindBug(c) ==
    /\ at[c].step = "unlock" /\ Go(c, "unlocking")
    /\ UNCHANGED <<docVars, importVars, sweep, faults, imports, disturbed>>

(* set_doc_lock_state leaves a document that failed locked.                  *)
Unlock(c) ==
    /\ at[c].step = "unlock"
    /\ IF status[at[c].doc] = "FAILED" THEN End(c) ELSE Go(c, "unlocking")
    /\ UNCHANGED <<docVars, importVars, sweep, faults, imports, disturbed>>

UnlockSave(c) ==
    /\ at[c].step = "unlocking" /\ End(c)
    /\ status' = [status EXCEPT ![at[c].doc] = "COMPLETED"]
    /\ locked' = [locked EXCEPT ![at[c].doc] = FALSE]
    /\ UNCHANGED <<parsed, row, importVars, sweep, faults, imports, disturbed>>

(* mark_doc_failed_on_chain_error leaves an outcome alone.                   *)
Errback(c) ==
    /\ at[c].step = "errback"
    /\ IF status[at[c].doc] \in {"FAILED", "COMPLETED"} THEN End(c) ELSE Go(c, "marking")
    /\ UNCHANGED <<docVars, importVars, sweep, faults, imports, disturbed>>

ErrbackMark(c) ==
    /\ at[c].step = "marking" /\ End(c)
    /\ status' = [status EXCEPT ![at[c].doc] = "FAILED"]
    /\ UNCHANGED <<locked, parsed, row, importVars, sweep, faults, imports, disturbed>>

-----------------------------------------------------------------------------
(* _maybe_finalize_corpus_import, for a chain or the importer.               *)

Observed(o) == IF o = Importer THEN End(o) ELSE Go(o, "unlock")

(* Mutant: the row is read without its lock.                                 *)
ObserveUnlockedBug(o) ==
    /\ at[o].step = "trigger"
    /\ IF import = "READY"
       THEN Go(o, "claiming") /\ holder' = o
       ELSE Observed(o) /\ UNCHANGED holder
    /\ UNCHANGED <<docVars, import, final, dispatched, wired, overwritten, sweep, faults,
                   imports, disturbed>>

(* The READY row is locked; who finds it locked goes away.                   *)
Observe(o) ==
    /\ at[o].step = "trigger"
    /\ IF import = "READY" /\ holder = NONE
       THEN Go(o, "claiming") /\ holder' = o
       ELSE Observed(o) /\ UNCHANGED holder
    /\ UNCHANGED <<docVars, import, final, dispatched, wired, overwritten, sweep, faults,
                   imports, disturbed>>

(* Mutant: only the caller's own document is looked at.                      *)
ClaimOwnBug(o) ==
    /\ at[o].step = "claiming"
    /\ IF at[o].doc \in Pending
       THEN Go(o, "yielding") /\ UNCHANGED <<import, holder>>
       ELSE Go(o, "dispatch") /\ import' = "FINALIZING" /\ holder' = NONE
    /\ UNCHANGED <<docVars, final, dispatched, wired, overwritten, sweep, faults,
                   imports, disturbed>>

(* When a pending row is left the lock is given up, a little later; else the *)
(* claim commits.                                                            *)
Claim(o) ==
    /\ at[o].step = "claiming"
    /\ IF Pending # {}
       THEN Go(o, "yielding") /\ UNCHANGED <<import, holder>>
       ELSE Go(o, "dispatch") /\ import' = "FINALIZING" /\ holder' = NONE
    /\ UNCHANGED <<docVars, final, dispatched, wired, overwritten, sweep, faults,
                   imports, disturbed>>

Yield(o) ==
    /\ at[o].step = "yielding" /\ Observed(o) /\ holder' = NONE
    /\ UNCHANGED <<docVars, import, final, dispatched, wired, overwritten, sweep, faults,
                   imports, disturbed>>

Dispatch(o, f) ==
    /\ at[o].step = "dispatch" /\ final[f] = "idle"
    /\ Observed(o) /\ final' = [final EXCEPT ![f] = "sent"] /\ dispatched' = dispatched + 1
    /\ UNCHANGED <<docVars, import, holder, wired, overwritten, sweep, faults,
                   imports, disturbed>>

-----------------------------------------------------------------------------
(* finalize_corpus_import_relationships.                                     *)

Rerunnable == import \in {"FINALIZING", "FAILED"}

FinalizeBegin(f) ==
    /\ final[f] = "sent"
    /\ final' = [final EXCEPT ![f] = IF Rerunnable THEN "wiring" ELSE "idle"]
    /\ UNCHANGED <<docVars, import, holder, dispatched, wired, overwritten, at, sweep, faults,
                   imports, disturbed>>

(* Under the row lock the status is read again, and the wiring commits with  *)
(* DONE; or it raises and rolls back.                                        *)
FinalizeWire(f) ==
    /\ final[f] = "wiring"
    /\ \/ /\ Rerunnable /\ final' = [final EXCEPT ![f] = "idle"] /\ import' = "DONE"
          /\ wired' = IF wired < 2 THEN wired + 1 ELSE 2
       \/ ~Rerunnable /\ final' = [final EXCEPT ![f] = "idle"] /\ UNCHANGED <<import, wired>>
       \/ Rerunnable /\ final' = [final EXCEPT ![f] = "failing"] /\ UNCHANGED <<import, wired>>
    /\ UNCHANGED <<docVars, holder, dispatched, overwritten, at, sweep, faults,
                   imports, disturbed>>

FinalizeFail(f) ==
    /\ final[f] = "failing" /\ final' = [final EXCEPT ![f] = "idle"]
    /\ import' = "FAILED" /\ overwritten' = (overwritten \/ import = "DONE")
    /\ UNCHANGED <<docVars, holder, dispatched, wired, at, sweep, faults,
                   imports, disturbed>>

-----------------------------------------------------------------------------
(* The sweep and the user.                                                   *)

(* Mutant: the sweep looks for documents that never started.                 *)
SweepReadPendingBug(d) ==
    /\ sweep = NONE /\ status[d] = "PENDING" /\ locked[d] /\ sweep' = d
    /\ Meet(d)
    /\ UNCHANGED <<docVars, importVars, at, faults, imports>>

(* reconcile_stuck_documents reads a document again, and then saves.  The    *)
(* clock of a document starts when it is created or retried, not when a      *)
(* worker gets to it: the sweep may come while its chain is alive.           *)
SweepRead(d) ==
    /\ sweep = NONE /\ status[d] = "PROCESSING" /\ locked[d] /\ sweep' = d
    /\ Meet(d)
    /\ UNCHANGED <<docVars, importVars, at, faults, imports>>

SweepMark ==
    /\ sweep # NONE /\ sweep' = NONE /\ status' = [status EXCEPT ![sweep] = "FAILED"]
    /\ UNCHANGED <<locked, parsed, row, importVars, at, faults, imports, disturbed>>

(* retry_document_processing swaps FAILED for PENDING and sends a new chain, *)
(* whether the old one has ended or not.  A death in between sends none.     *)
Retry(d, c) ==
    /\ status[d] = "FAILED" /\ Free(c) /\ Meet(d)
    /\ status' = [status EXCEPT ![d] = "PENDING"] /\ locked' = [locked EXCEPT ![d] = TRUE]
    /\ \/ Begin(c, d, "convert") /\ UNCHANGED faults
       \/ Fault /\ UNCHANGED at
    /\ UNCHANGED <<parsed, row, importVars, sweep, imports>>

-----------------------------------------------------------------------------
(* The broker.                                                               *)

(* The task of a chain to which a step belongs, and the task before it.      *)
Task(step) ==
    CASE step \in {"convert", "ingest", "remap", "unlock", "errback"} -> step
      [] step = "parsing" -> "ingest"
      [] step \in {"anchoring", "importing", "trigger", "claiming", "yielding", "dispatch"} -> "remap"
      [] step = "unlocking" -> "unlock"
      [] step = "marking" -> "errback"

TaskBefore(task) ==
    CASE task = "ingest" -> "convert"
      [] task = "remap" -> "ingest"
      [] task = "unlock" -> "remap"
      [] OTHER -> task

(* The worker dies: the transaction is rolled back, and the task is          *)
(* delivered again, or its message is lost.  (The importer's new delivery    *)
(* is another import.)                                                       *)
Die(o) ==
    /\ at[o].step # "idle" /\ Fault
    /\ \/ End(o)
       \/ /\ o # Importer
          /\ at' = [at EXCEPT ![o] = [Idle EXCEPT !.step = Task(at[o].step), !.doc = at[o].doc]]
    /\ holder' = (IF holder = o THEN NONE ELSE holder)
    /\ UNCHANGED <<docVars, import, final, dispatched, wired, overwritten, sweep,
                   imports, disturbed>>

(* A task is delivered again although it still runs, or although it has sent *)
(* the next one of its chain.                                                *)
Redeliver(c, b) ==
    /\ at[c].step \notin {"idle", "errback", "marking"} /\ Free(b) /\ Fault
    /\ \E task \in {Task(at[c].step), TaskBefore(Task(at[c].step))} : Begin(b, at[c].doc, task)
    /\ Meet(at[c].doc)
    /\ UNCHANGED <<docVars, importVars, sweep, imports>>

FinalizeRedeliver(f) ==
    /\ dispatched > 0 /\ final[f] = "idle" /\ Fault
    /\ final' = [final EXCEPT ![f] = "sent"]
    /\ UNCHANGED <<docVars, import, holder, dispatched, wired, overwritten, at, sweep,
                   imports, disturbed>>

(* A finalizer dies, its transaction is rolled back; it is delivered again,  *)
(* or lost.                                                                  *)
FinalizeDie(f) ==
    /\ final[f] # "idle" /\ Fault
    /\ final' \in {[final EXCEPT ![f] = "idle"], [final EXCEPT ![f] = "sent"]}
    /\ UNCHANGED <<docVars, import, holder, dispatched, wired, overwritten, at, sweep,
                   imports, disturbed>>

-----------------------------------------------------------------------------

ChainStep(c) ==
    \/ Convert(c) \/ IngestBegin(c) \/ IngestEnd(c)
    \/ Remap(c) \/ AnchorClaim(c) \/ AnchorCommit(c)
    \/ Unlock(c) \/ UnlockSave(c) \/ Errback(c) \/ ErrbackMark(c)

Trigger(o) ==
    \/ Observe(o) \/ Claim(o) \/ Yield(o)
    \/ \E f \in Finalizers : Dispatch(o, f)

Finalize(f) == FinalizeBegin(f) \/ FinalizeWire(f) \/ FinalizeFail(f)

Next ==
    \/ \E d \in Docs, c \in Chains : ImportDocument(d, c) \/ Retry(d, c)
    \/ Arm
    \/ \E c \in Chains : ChainStep(c) \/ AnchorUnreadable(c)
    \/ \E o \in Observers : Trigger(o) \/ Die(o)
    \/ \E f \in Finalizers : Finalize(f) \/ FinalizeRedeliver(f) \/ FinalizeDie(f)
    \/ \E d \in Docs : ConvergeDocument(d) \/ SweepRead(d)
    \/ SweepMark
    \/ \E c, b \in Chains : Redeliver(c, b)

(* Workers go on with what they have begun, and a sweep, which Beat starts    *)
(* every five minutes, gets to every document that stays in process.         *)
Fairness ==
    /\ WF_vars(Arm)
    /\ \A c \in Chains : WF_vars(ChainStep(c))
    /\ \A o \in Observers : WF_vars(Trigger(o))
    /\ \A f \in Finalizers : WF_vars(Finalize(f))
    /\ \A d \in Docs : SF_vars(SweepRead(d))
    /\ WF_vars(SweepMark)

Spec == Init /\ [][Next]_vars /\ Fairness

-----------------------------------------------------------------------------

Steps == {"idle", "enumerating", "convert", "ingest", "parsing", "remap", "anchoring",
          "importing", "trigger", "claiming", "yielding", "dispatch", "unlock", "unlocking",
          "errback", "marking"}
ImporterSteps == {"idle", "enumerating", "trigger", "claiming", "yielding", "dispatch"}

TypeOK ==
    /\ status \in [Docs -> {"ABSENT", "PENDING", "PROCESSING", "COMPLETED", "FAILED"}]
    /\ locked \in [Docs -> BOOLEAN] /\ parsed \in [Docs -> BOOLEAN]
    /\ row \in [Docs -> {"NONE", "PENDING", "DONE", "FAILED", "KEPT"}]
    /\ \A d \in Docs : status[d] = "ABSENT" <=> row[d] = "NONE"
    /\ import \in {"ENUMERATING", "READY", "FINALIZING", "DONE", "FAILED"}
    /\ holder \in Observers \cup {NONE}
    /\ at \in [Observers -> [step : Steps, doc : Docs \cup {NONE}, layers : BOOLEAN]]
    /\ at[Importer].step \in ImporterSteps
    /\ \A c \in Chains : at[c].step # "enumerating" /\ (at[c].step = "idle" <=> at[c].doc = NONE)
    /\ \A o \in Observers : at[o].step \in {"claiming", "yielding"} <=> holder = o
    /\ final \in [Finalizers -> {"idle", "sent", "wiring", "failing"}]
    /\ sweep \in Docs \cup {NONE} /\ faults \in 0..MaxFaults
    /\ imports \in [Docs -> Nat] /\ dispatched \in Nat /\ wired \in 0..2
    /\ overwritten \in BOOLEAN /\ disturbed \in [Docs -> BOOLEAN]

(* However often tasks are delivered and retried, the annotations of a       *)
(* document are imported at most once, and its row tells it: PENDING never   *)
(* after the import, DONE only after it, and without a fault DONE whenever   *)
(* they were imported.  For a document that was there already nothing is     *)
(* imported, however often it is retried.                                    *)
AnnotationsOnce ==
    \A d \in Docs :
        /\ imports[d] <= 1
        /\ row[d] \in {"PENDING", "KEPT"} => imports[d] = 0
        /\ row[d] = "DONE" => imports[d] = 1
        /\ imports[d] = 1 /\ faults = 0 => row[d] = "DONE"

(* The fan-in is "exactly-once" (doc_tasks.py:1920), of which this is the at *)
(* most once: however the last chains, the importer and redelivered tasks    *)
(* race for the claim, no second finalizer is sent, and none before the last *)
(* document has its annotations; and no second one wires the relationships   *)
(* ("a stray redelivery after success never double-wires",                   *)
(* doc_tasks.py:1975), unless a failing finalizer has overwritten the        *)
(* success of another.  That one is sent at all is ImportFinalizes.          *)
FanInOnce ==
    /\ dispatched <= 1
    /\ import \notin {"ENUMERATING", "READY"} => Pending = {}
    /\ ~overwritten => wired <= 1
    /\ import = "DONE" => wired > 0

(* A document that no two chains, nor the sweep and a chain, have met on,    *)
(* and whose parse nobody refused: unlocked means that it is COMPLETED and   *)
(* was parsed, wherever tasks died and whatever was retried; a failure stays *)
(* locked, and no later task of its chain turns it into a success.           *)
OutcomeStands ==
    \A d \in Docs :
        ~disturbed[d] /\ status[d] # "ABSENT" =>
            /\ locked[d] <=> status[d] # "COMPLETED"
            /\ status[d] = "COMPLETED" => parsed[d]

(* No document stays in process for ever: the chain, its errback, or the     *)
(* sweep for what was lost without a trace, gives it an outcome, "so they    *)
(* don't show 'processing' forever" (base.py:908).                           *)
EveryIngestionEnds ==
    \A d \in Docs :
        status[d] = "PROCESSING" /\ locked[d] ~> status[d] \in {"COMPLETED", "FAILED"}

(* An import that is armed and has no pending row left is finalized: who     *)
(* sees the run complete and wins the claim dispatches the finalizer,        *)
(* "robust to the post-loop / last-remap race" (doc_tasks.py:1928).          *)
ImportFinalizes ==
    import = "READY" /\ Pending = {} ~> import \in {"DONE", "FAILED"}

=============================================================================
