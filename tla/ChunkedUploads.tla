--------------------------- MODULE ChunkedUploads ---------------------------
(***************************************************************************)
(* One session of the chunked uploads of document_imports/services.py: a   *)
(* client stores the parts of a file, repeats some, and asks for the       *)
(* import; an hourly task purges sessions without activity.  Sessions      *)
(* share nothing, so one stands for all.                                   *)
(*                                                                         *)
(* Every HTTP request is one database transaction (ATOMIC_REQUESTS), but   *)
(* the files of the parts are in a storage that no transaction covers.     *)
(* ASSEMBLING is therefore seen by the request that wrote it, and by no    *)
(* other: it commits COMPLETED or FAILED, or rolls back to PENDING.  The   *)
(* purge commits each statement.                                           *)
(***************************************************************************)
EXTENDS Naturals, FiniteSets

CONSTANTS
    Index,       \* 0 .. total_chunks - 1
    Copies,      \* names that the storage can give to the file of one part
    Canonical,   \* the name part_<index>.bin, which it gives when it is free
    Requests,    \* requests that can be in flight at once
    NULL,        \* no request
    MaxCalls,    \* bound: calls of store_chunk and complete
    MaxFaults    \* bound: requests and purges that break off

ASSUME UploadAssumption ==
    /\ Canonical \in Copies /\ NULL \notin Requests \cup (Index \X Copies)
    /\ MaxCalls \in Nat /\ MaxFaults \in Nat

(* A part is a full slice of the file, or shorter (the sizes then do not add *)
(* up to total_size).                                                        *)
Sizes == {"full", "short"}
Files == Index \X Copies
NoPart == [file |-> NULL, size |-> "none"]

VARIABLES
    status,      \* of the session: "ABSENT" before start, "GONE" after the purge
    stale,       \* modified is before the cutoff of the purge
    lock,        \* the request that holds the row lock of the session
    parts,       \* ChunkedUploadPart rows, by index
    files,       \* the storage: the size of each file, "none" when absent
    imported,    \* committed imports of the session
    req,         \* requests in flight
    purge,       \* the purge task
    calls, faults,
    selected,    \* history: a purge has selected the session
    tainted      \* history: something broke off after it had touched the storage

vars == <<status, stale, lock, parts, files, imported, req, purge, calls, faults, selected, tainted>>

Idle == [step |-> "idle", index |-> NULL, size |-> "none", file |-> NULL,
         rows |-> {}, got |-> {}, overtaken |-> FALSE]
AtRest == [step |-> "rest", todo |-> {}]

Present == {i \in Index : parts[i] # NoPart}
NoParts == [i \in Index |-> NoPart]

(* The files F are deleted; the storage may refuse some, which is only       *)
(* logged.                                                                   *)
Delete(F) ==
    \E kept \in SUBSET F :
       /\ files' = [f \in Files |-> IF f \in F \ kept THEN "none" ELSE files[f]]
       /\ tainted' = (tainted \/ kept # {})

Init ==
    /\ status = "ABSENT" /\ stale = FALSE /\ lock = NULL /\ parts = NoParts
    /\ files = [f \in Files |-> "none"] /\ imported = 0
    /\ req = [r \in Requests |-> Idle] /\ purge = AtRest
    /\ calls = 0 /\ faults = 0 /\ selected = FALSE /\ tainted = FALSE

Go(r, step) == req' = [req EXCEPT ![r].step = step]
End(r) == req' = [req EXCEPT ![r] = Idle]

-----------------------------------------------------------------------------

StartUpload ==
    /\ status = "ABSENT" /\ status' = "PENDING"
    /\ UNCHANGED <<stale, lock, parts, files, imported, req, purge, calls, faults, selected, tainted>>

-----------------------------------------------------------------------------
(* store_chunk.                                                              *)

(* The status is read without the lock, and not again under it.              *)
StoreBegin(r, i, size) ==
    /\ req[r] = Idle /\ calls < MaxCalls /\ status = "PENDING"
    /\ req' = [req EXCEPT ![r].step = "waiting", ![r].index = i, ![r].size = size]
    /\ calls' = calls + 1
    /\ UNCHANGED <<status, stale, lock, parts, files, imported, purge, faults, selected, tainted>>

(* Mutant: nobody waits for the row lock.                                    *)
StoreLockFreeBug(r) ==
    /\ req[r].step = "waiting" /\ status # "GONE"
    /\ LET old == parts[req[r].index].file
       IN  /\ lock' = r
           /\ req' = [req EXCEPT ![r].step = IF old = NULL THEN "adding" ELSE "replacing"]
           /\ files' = [f \in Files |-> IF f = old THEN "none" ELSE files[f]]
    /\ UNCHANGED <<status, stale, parts, imported, purge, calls, faults, selected, tainted>>

(* The row is locked, unless it is gone, and the file that the part had is   *)
(* deleted.                                                                  *)
StoreLock(r) ==
    /\ req[r].step = "waiting" /\ lock = NULL
    /\ IF status = "GONE"
       THEN End(r) /\ UNCHANGED <<lock, files>>
       ELSE LET old == parts[req[r].index].file
            IN  /\ lock' = r
                /\ req' = [req EXCEPT ![r].step = IF old = NULL THEN "adding" ELSE "replacing"]
                /\ files' = [f \in Files |-> IF f = old THEN "none" ELSE files[f]]
    /\ UNCHANGED <<status, stale, parts, imported, purge, calls, faults, selected, tainted>>

(* The new file is stored, under a name that is free.                        *)
StoreFile(r) ==
    /\ req[r].step \in {"adding", "replacing"}
    /\ \E copy \in Copies :
          LET f == <<req[r].index, copy>>
          IN  /\ files[f] = "none"
              /\ copy = Canonical \/ files[<<req[r].index, Canonical>>] # "none"
              /\ files' = [files EXCEPT ![f] = req[r].size]
              /\ req' = [req EXCEPT ![r].step = IF @ = "adding" THEN "added" ELSE "replaced",
                                    ![r].file = f]
    /\ UNCHANGED <<status, stale, lock, parts, imported, purge, calls, faults, selected, tainted>>

(* The row of the part is created, or updated (which raises, and rolls back, *)
(* when the purge has deleted it); modified is bumped; the request commits.  *)
StoreCommit(r) ==
    /\ req[r].step \in {"added", "replaced"} /\ lock = r
    /\ lock' = NULL
    /\ IF req[r].step = "replaced" /\ req[r].index \notin Present
       THEN End(r) /\ tainted' = TRUE /\ UNCHANGED <<stale, parts>>
       ELSE /\ parts' = [parts EXCEPT ![req[r].index] =
                            [file |-> req[r].file, size |-> req[r].size]]
            /\ req' = [q \in Requests |->
                          IF q = r THEN Idle
                          ELSE [req[q] EXCEPT !.overtaken = @ \/ req[q].step = "checked"]]
            /\ stale' = FALSE /\ UNCHANGED tainted
    /\ UNCHANGED <<status, files, imported, purge, calls, faults, selected>>

-----------------------------------------------------------------------------
(* complete_chunked_upload.                                                  *)

(* Mutant: only the sizes of the parts that are there are added up.          *)
CompleteCheckSizesBug(r) ==
    /\ req[r] = Idle /\ calls < MaxCalls
    /\ status = "PENDING" /\ \A i \in Present : parts[i].size = "full"
    /\ Go(r, "checked") /\ calls' = calls + 1
    /\ UNCHANGED <<status, stale, lock, parts, files, imported, purge, faults, selected, tainted>>

(* The session is PENDING and the parts are all there and add up.            *)
CompleteCheck(r) ==
    /\ req[r] = Idle /\ calls < MaxCalls
    /\ status = "PENDING" /\ Present = Index /\ \A i \in Index : parts[i].size = "full"
    /\ Go(r, "checked") /\ calls' = calls + 1
    /\ UNCHANGED <<status, stale, lock, parts, files, imported, purge, faults, selected, tainted>>

(* Mutant: the claim is a plain save.                                        *)
CompleteClaimBlindBug(r) ==
    /\ req[r].step = "checked" /\ lock = NULL /\ status # "GONE"
    /\ Go(r, "claimed") /\ lock' = r
    /\ UNCHANGED <<status, stale, parts, files, imported, purge, calls, faults, selected, tainted>>

(* The compare-and-swap PENDING -> ASSEMBLING keeps the row locked until the *)
(* end of the request; who swaps nothing is refused.                         *)
CompleteClaim(r) ==
    /\ req[r].step = "checked" /\ lock = NULL
    /\ IF status = "PENDING"
       THEN Go(r, "claimed") /\ lock' = r
       ELSE End(r) /\ UNCHANGED lock
    /\ UNCHANGED <<status, stale, parts, files, imported, purge, calls, faults, selected, tainted>>

CompleteList(r) ==
    /\ req[r].step = "claimed"
    /\ req' = [req EXCEPT ![r].step = "listed",
                          ![r].rows = {<<i, parts[i].file>> : i \in Present}]
    /\ UNCHANGED <<status, stale, lock, parts, files, imported, purge, calls, faults, selected, tainted>>

(* The listed files are read one after the other; a missing one raises out   *)
(* of the request, which rolls back.                                         *)
Assemble(r) ==
    /\ req[r].step = "listed"
    /\ IF \A row \in req[r].rows : files[row[2]] # "none"
       THEN /\ req' = [req EXCEPT ![r].step = "assembled", ![r].rows = {},
                            ![r].got = {<<row[1], files[row[2]]>> : row \in req[r].rows}]
            /\ UNCHANGED lock
       ELSE End(r) /\ lock' = NULL
    /\ UNCHANGED <<status, stale, parts, files, imported, purge, calls, faults, selected, tainted>>

(* The token is refused, or the import raises or returns an error: the parts *)
(* stay.  When what raises comes after the document is made (the grant of    *)
(* permissions), the document is committed with the failure.                 *)
CompleteFailed(r) ==
    /\ req[r].step \in {"claimed", "assembled"}
    /\ status' = "FAILED" /\ stale' = FALSE /\ lock' = NULL /\ End(r)
    /\ imported' \in {imported} \cup IF req[r].step = "assembled" THEN {imported + 1} ELSE {}
    /\ UNCHANGED <<parts, files, purge, calls, faults, selected, tainted>>

(* The import is done; the files go before the rows and before the commit.   *)
CompleteClean(r) ==
    /\ req[r].step = "assembled"
    /\ Delete({parts[i].file : i \in Present}) /\ Go(r, "cleaned")
    /\ UNCHANGED <<status, stale, lock, parts, imported, purge, calls, faults, selected>>

CompleteCommit(r) ==
    /\ req[r].step = "cleaned"
    /\ status' = "COMPLETED" /\ stale' = FALSE /\ parts' = NoParts
    /\ imported' = imported + 1 /\ lock' = NULL /\ End(r)
    /\ UNCHANGED <<files, purge, calls, faults, selected, tainted>>

-----------------------------------------------------------------------------
(* purge_stale_chunked_uploads.  PENDING and FAILED sessions go after the    *)
(* stale window, COMPLETED ones after the retention; ASSEMBLING ones are     *)
(* spared, but a session that is being completed reads as PENDING.           *)

(* Mutant: failed sessions are not purged.                                   *)
PurgeSelectFailedBug ==
    /\ purge = AtRest /\ stale /\ status \in {"PENDING", "COMPLETED"}
    /\ purge' = [purge EXCEPT !.step = "selected"] /\ selected' = TRUE
    /\ UNCHANGED <<status, stale, lock, parts, files, imported, req, calls, faults, tainted>>

PurgeSelect ==
    /\ purge = AtRest /\ stale /\ status \in {"PENDING", "FAILED", "COMPLETED"}
    /\ purge' = [purge EXCEPT !.step = "selected"] /\ selected' = TRUE
    /\ UNCHANGED <<status, stale, lock, parts, files, imported, req, calls, faults, tainted>>

PurgeList ==
    /\ purge.step = "selected"
    /\ purge' = [step |-> "files", todo |-> {parts[i].file : i \in Present}]
    /\ UNCHANGED <<status, stale, lock, parts, files, imported, req, calls, faults, selected, tainted>>

PurgeFile(f) ==
    /\ purge.step = "files" /\ f \in purge.todo
    /\ Delete({f}) /\ purge' = [purge EXCEPT !.todo = @ \ {f}]
    /\ UNCHANGED <<status, stale, lock, parts, imported, req, calls, faults, selected>>

(* Whatever rows there are by now.                                           *)
PurgeRows ==
    /\ purge.step = "files" /\ purge.todo = {}
    /\ parts' = NoParts /\ purge' = [purge EXCEPT !.step = "rows"]
    /\ UNCHANGED <<status, stale, lock, files, imported, req, calls, faults, selected, tainted>>

(* The row is deleted as soon as nobody holds its lock, with the part rows   *)
(* that were added meanwhile, and whatever its status has become.            *)
PurgeSession ==
    /\ purge.step = "rows" /\ lock = NULL
    /\ status' = "GONE" /\ parts' = NoParts /\ purge' = AtRest
    /\ UNCHANGED <<stale, lock, files, imported, req, calls, faults, selected, tainted>>

-----------------------------------------------------------------------------

Age ==
    /\ status \in {"PENDING", "FAILED", "COMPLETED"} /\ ~stale
    /\ stale' = TRUE
    /\ UNCHANGED <<status, lock, parts, files, imported, req, purge, calls, faults, selected, tainted>>

(* The connection breaks, the process dies, or an exception leaves the view: *)
(* the transaction is rolled back, the storage is not.                       *)
Break(r) ==
    /\ req[r].step # "idle" /\ faults < MaxFaults
    /\ End(r) /\ lock' = (IF lock = r THEN NULL ELSE lock) /\ faults' = faults + 1
    /\ tainted' = (tainted \/ req[r].step \in {"replacing", "added", "replaced", "cleaned"})
    /\ UNCHANGED <<status, stale, parts, files, imported, purge, calls, selected>>

PurgeBreak ==
    /\ purge.step # "rest" /\ faults < MaxFaults
    /\ purge' = AtRest /\ faults' = faults + 1
    /\ UNCHANGED <<status, stale, lock, parts, files, imported, req, calls, selected, tainted>>

-----------------------------------------------------------------------------

Continue(r) ==
    \/ StoreLock(r) \/ StoreFile(r) \/ StoreCommit(r)
    \/ CompleteClaim(r) \/ CompleteList(r) \/ Assemble(r)
    \/ CompleteFailed(r) \/ CompleteClean(r) \/ CompleteCommit(r)

PurgeContinue ==
    \/ PurgeList
    \/ \E f \in Files : PurgeFile(f)
    \/ PurgeRows
    \/ PurgeSession

Next ==
    \/ StartUpload
    \/ \E r \in Requests :
          \/ \E i \in Index, size \in Sizes : StoreBegin(r, i, size)
          \/ CompleteCheck(r)
          \/ Continue(r)
          \/ Break(r)
    \/ PurgeSelect \/ PurgeContinue \/ PurgeBreak
    \/ Age

(* A request runs to its end, time passes, and Beat starts the purge every   *)
(* hour; the purge waits for a row lock that one request after the other may *)
(* take, but PostgreSQL queues those who wait (SF).                          *)
Fairness ==
    /\ \A r \in Requests : WF_vars(Continue(r))
    /\ WF_vars(Age) /\ WF_vars(PurgeSelect) /\ SF_vars(PurgeContinue)

Spec == Init /\ [][Next]_vars /\ Fairness

-----------------------------------------------------------------------------

Steps == {"idle", "waiting", "adding", "replacing", "added", "replaced",
          "checked", "claimed", "listed", "assembled", "cleaned"}
Locked == Steps \ {"idle", "waiting", "checked"}

TypeOK ==
    /\ status \in {"ABSENT", "PENDING", "FAILED", "COMPLETED", "GONE"}
    /\ stale \in BOOLEAN /\ lock \in Requests \cup {NULL}
    /\ parts \in [Index -> [file : Files, size : Sizes] \cup {NoPart}]
    /\ files \in [Files -> Sizes \cup {"none"}] /\ imported \in Nat
    /\ req \in [Requests -> [step : Steps, index : Index \cup {NULL},
                             size : Sizes \cup {"none"}, file : Files \cup {NULL},
                             rows : SUBSET (Index \X Files), got : SUBSET (Index \X Sizes),
                             overtaken : BOOLEAN]]
    /\ \A r \in Requests :
          req[r].step \in {"waiting", "adding", "replacing", "added", "replaced"} =>
              req[r].index \in Index /\ req[r].size \in Sizes
    /\ \A r \in Requests : req[r].step \in {"added", "replaced"} => req[r].file \in Files
    /\ \A r \in Requests : req[r].step \in Locked <=> lock = r
    /\ purge \in [step : {"rest", "selected", "files", "rows"}, todo : SUBSET Files]
    /\ calls \in 0..MaxCalls /\ faults \in 0..MaxFaults
    /\ selected \in BOOLEAN /\ tainted \in BOOLEAN

(* However many requests complete a session, and wherever they and the purge *)
(* break off, its file is imported once at the most, for a COMPLETED session *)
(* exactly once, and for one that can still be completed not at all: no one  *)
(* may "assemble + import the same bytes twice" (services.py:1276).          *)
ImportedOnce ==
    /\ imported <= 1
    /\ status = "COMPLETED" => imported = 1
    /\ status \in {"ABSENT", "PENDING"} => imported = 0

(* What is imported has every part, although parts are counted before the    *)
(* claim and listed after it, unless a purge has selected the session.  It   *)
(* also has the size that was declared, unless a part was stored between     *)
(* check and claim or something broke off over the storage.                  *)
ImportedWhole ==
    \A r \in Requests :
        req[r].step \in {"assembled", "cleaned"} /\ ~selected =>
            /\ {row[1] : row \in req[r].got} = Index
            /\ ~tainted /\ ~req[r].overtaken => \A row \in req[r].got : row[2] = "full"

Replaces(i) ==
    lock # NULL /\ \/ req[lock].step = "cleaned"
                   \/ req[lock].step \in {"replacing", "replaced"} /\ req[lock].index = i

(* Rows and storage agree, although requests repeat parts, overlap and come  *)
(* too late: without a fault and before a purge, the file of each part is    *)
(* there with the recorded size, or the lock holder is replacing it, and no  *)
(* file is left over that no row will ever lead to.                          *)
RowsMatchStorage ==
    ~selected /\ ~tainted =>
        /\ \A i \in Present : Replaces(i) \/ files[parts[i].file] = parts[i].size
        /\ \A f \in Files : files[f] # "none" =>
              \/ \E i \in Present : parts[i].file = f
              \/ \E r \in Requests : req[r].step \in {"added", "replaced"} /\ req[r].file = f

(* Every session is reclaimed in the end, completed, failed or abandoned:    *)
(* "so the audit-trail rows don't accumulate unboundedly"                    *)
(* (services.py:1398).                                                       *)
EverySessionPurged == status = "PENDING" ~> status = "GONE"

=============================================================================
