------------------------ MODULE ChunkedUploadsProofs ------------------------
(***************************************************************************)
(* Proofs about ChunkedUploads, for every number of parts, of requests in  *)
(* flight, of calls and of faults.                                         *)
(*                                                                         *)
(* Two arguments.  The row lock: whoever is past the claim holds it, and   *)
(* only its holder changes a status of PENDING (ClaimPending), so the      *)
(* second import finds no session to claim.  The storage: as long as       *)
(* nothing broke off and no purge selected the session, every file is that *)
(* of a row or of the part that the lock holder is storing (StorageOK), so *)
(* what was counted before the claim is what is read after it (WholeOK).   *)
(***************************************************************************)
EXTENDS ChunkedUploads, TLAPS

ReqType == [step : Steps, index : Index \cup {NULL},
            size : Sizes \cup {"none"}, file : Files \cup {NULL},
            rows : SUBSET (Index \X Files), got : SUBSET (Index \X Sizes),
            overtaken : BOOLEAN]

(* What a request may remember between two steps.                            *)
ReqOK(q) ==
    /\ q \in ReqType
    /\ q.step \in {"waiting", "adding", "replacing", "added", "replaced"} =>
          q.index \in Index /\ q.size \in Sizes
    /\ q.step \in {"added", "replaced"} => q.file \in Files /\ q.file[1] = q.index

(* The requests, and who holds the row lock.                                 *)
ReqsOK ==
    /\ req \in [Requests -> ReqType]
    /\ \A r \in Requests : ReqOK(req[r])
    /\ lock \in Requests \cup {NULL}
    /\ \A r \in Requests : req[r].step \in Locked <=> lock = r

(* The rows of the parts, each with a file of its own.                       *)
PartsOK ==
    /\ parts \in [Index -> [file : Files, size : Sizes] \cup {NoPart}]
    /\ \A i \in Present : parts[i].file \in Files /\ parts[i].file[1] = i

DataOK ==
    /\ status \in {"ABSENT", "PENDING", "FAILED", "COMPLETED", "GONE"}
    /\ stale \in BOOLEAN
    /\ files \in [Files -> Sizes \cup {"none"}] /\ imported \in Nat
    /\ purge \in [step : {"rest", "selected", "files", "rows"}, todo : SUBSET Files]
    /\ calls \in 0..MaxCalls /\ faults \in 0..MaxFaults
    /\ selected \in BOOLEAN /\ tainted \in BOOLEAN

Shape == ReqsOK /\ PartsOK /\ DataOK

-----------------------------------------------------------------------------

(* A step that changes what one request remembers, and at the most takes or  *)
(* releases the lock for it.                                                 *)
LEMMA ReplaceRequest ==
    ASSUME ReqsOK, NEW r \in Requests, NEW q, ReqOK(q), req' = [req EXCEPT ![r] = q],
           lock' = lock \/ (lock' = r /\ lock = NULL) \/ (lock = r /\ lock' = NULL),
           q.step \in Locked <=> lock' = r
    PROVE  ReqsOK'
<1>1. req' \in [Requests -> ReqType]
    BY DEF ReqsOK, ReqOK
<1>2. \A p \in Requests : req'[p] = IF p = r THEN q ELSE req[p]
    BY DEF ReqsOK
<1>3. lock' \in Requests \cup {NULL}
    BY DEF ReqsOK
<1>4. \A p \in Requests : ReqOK(req'[p])
    BY <1>2 DEF ReqsOK
<1>5. \A p \in Requests \ {r} : req[p].step \in Locked <=> lock' = p
    BY UploadAssumption DEF ReqsOK
<1> QED
    BY <1>1, <1>2, <1>3, <1>4, <1>5 DEF ReqsOK

(* A step keeps the types.                                                   *)
LEMMA ShapeStep == ASSUME Shape, [Next]_vars PROVE Shape'
<1>a. ASSUME NEW r \in Requests PROVE ReqOK(req[r]) /\ req[r] \in ReqType
    BY DEF Shape, ReqsOK, ReqOK
<1>b. ReqOK(Idle) /\ Idle.step \notin Locked
    BY DEF Idle, ReqOK, ReqType, Steps, Locked
<1>c. \A i \in Present : parts[i] \in [file : Files, size : Sizes]
    BY DEF Shape, PartsOK, Present
<1>d. ASSUME ReqsOK', UNCHANGED parts, DataOK' PROVE Shape'
    BY <1>d DEF Shape, PartsOK, Present
<1>1. ASSUME StartUpload PROVE Shape'
    BY <1>1 DEF StartUpload, Shape, ReqsOK, ReqOK, PartsOK, DataOK, Present
<1>2. ASSUME NEW r \in Requests, NEW i \in Index, NEW size \in Sizes, StoreBegin(r, i, size)
      PROVE  Shape'
    <2> DEFINE q == [req[r] EXCEPT !.step = "waiting", !.index = i, !.size = size]
    <2>1. ReqOK(q) /\ q.step \notin Locked
        BY <1>a DEF ReqOK, ReqType, Steps, Locked
    <2>2. req' = [req EXCEPT ![r] = q] /\ lock' = lock /\ req[r].step \notin Locked
        BY <1>2, <1>b DEF StoreBegin
    <2>3. lock # r
        BY <2>2 DEF Shape, ReqsOK
    <2> HIDE DEF q
    <2>4. ReqsOK'
        BY <2>1, <2>2, <2>3, ReplaceRequest DEF Shape
    <2> QED
        BY <1>2, <1>d, <2>4, UploadAssumption DEF StoreBegin, Shape, DataOK
<1>3. ASSUME NEW r \in Requests, StoreLock(r) PROVE Shape'
    <2> DEFINE step == IF parts[req[r].index].file = NULL THEN "adding" ELSE "replacing"
               q == [req[r] EXCEPT !.step = step]
    <2>0. lock # r
        BY <1>3, UploadAssumption DEF StoreLock
    <2>1. CASE status = "GONE"
        <3>1. ReqsOK'
            BY <1>3, <1>b, <2>0, <2>1, ReplaceRequest DEF StoreLock, Shape, End
        <3> QED
            BY <1>3, <1>d, <2>1, <3>1 DEF StoreLock, Shape, DataOK
    <2>2. CASE status # "GONE"
        <3>1. ReqOK(q) /\ q.step \in Locked
            BY <1>a, <1>3 DEF StoreLock, ReqOK, ReqType, Steps, Locked
        <3>2. req' = [req EXCEPT ![r] = q] /\ lock' = r /\ lock = NULL
            BY <1>3, <2>2 DEF StoreLock
        <3> HIDE DEF q
        <3>3. ReqsOK'
            BY <3>1, <3>2, ReplaceRequest DEF Shape
        <3>4. files' \in [Files -> Sizes \cup {"none"}]
            BY <1>3, <2>2 DEF StoreLock, Shape, DataOK
        <3> QED
            BY <1>3, <1>d, <3>3, <3>4 DEF StoreLock, Shape, DataOK
    <2> QED
        BY <2>1, <2>2
<1>4. ASSUME NEW r \in Requests, StoreFile(r) PROVE Shape'
    <2>1. PICK copy \in Copies :
             /\ files' = [files EXCEPT ![<<req[r].index, copy>>] = req[r].size]
             /\ req' = [req EXCEPT ![r].step = IF @ = "adding" THEN "added" ELSE "replaced",
                                   ![r].file = <<req[r].index, copy>>]
        BY <1>4 DEF StoreFile
    <2> DEFINE f == <<req[r].index, copy>>
               step == IF req[r].step = "adding" THEN "added" ELSE "replaced"
               q == [req[r] EXCEPT !.step = step, !.file = f]
    <2>2. /\ req[r].step \in {"adding", "replacing"} /\ req[r].step \in Locked
          /\ req[r].index \in Index /\ req[r].size \in Sizes
        BY <1>a, <1>4 DEF StoreFile, ReqOK, Locked, Steps
    <2>3. f \in Files /\ f[1] = req[r].index
        BY <2>2 DEF Files
    <2>4. step \in {"added", "replaced"} /\ step \in Steps /\ step \in Locked
        BY DEF Steps, Locked
    <2>5. req' = [req EXCEPT ![r] = q]
        BY <2>1 DEF Shape, ReqsOK
    <2> HIDE DEF f, step
    <2>6. ReqOK(q) /\ q.step \in Locked
        BY <1>a, <2>2, <2>3, <2>4 DEF ReqOK, ReqType
    <2>7. lock = r
        BY <2>2 DEF Shape, ReqsOK
    <2> HIDE DEF q
    <2>8. ReqsOK'
        BY <1>4, <2>5, <2>6, <2>7, ReplaceRequest DEF Shape, StoreFile
    <2>9. files' \in [Files -> Sizes \cup {"none"}]
        BY <2>1, <2>2 DEF Shape, DataOK
    <2> QED
        BY <1>4, <1>d, <2>8, <2>9 DEF StoreFile, Shape, DataOK
<1>5. ASSUME NEW r \in Requests, StoreCommit(r) PROVE Shape'
    <2>0. lock = r /\ lock' = NULL
        BY <1>5 DEF StoreCommit
    <2>1. CASE req[r].step = "replaced" /\ req[r].index \notin Present
        <3>1. ReqsOK'
            BY <1>5, <1>b, <2>0, <2>1, UploadAssumption, ReplaceRequest DEF StoreCommit, Shape, End
        <3> QED
            BY <1>5, <1>d, <2>1, <3>1 DEF StoreCommit, Shape, DataOK
    <2>2. CASE ~(req[r].step = "replaced" /\ req[r].index \notin Present)
        <3>1. /\ req[r].index \in Index /\ req[r].size \in Sizes
              /\ req[r].file \in Files /\ req[r].file[1] = req[r].index
            BY <1>a, <1>5 DEF StoreCommit, ReqOK
        <3>2. parts' = [parts EXCEPT ![req[r].index] =
                            [file |-> req[r].file, size |-> req[r].size]]
            BY <1>5, <2>2 DEF StoreCommit
        <3>3. PartsOK'
            BY <3>1, <3>2 DEF Shape, PartsOK, Present
        <3>4. req' = [q \in Requests |->
                          IF q = r THEN Idle
                          ELSE [req[q] EXCEPT !.overtaken = @ \/ req[q].step = "checked"]]
            BY <1>5, <2>2 DEF StoreCommit
        <3>5. ASSUME NEW p \in Requests, p # r
              PROVE  ReqOK(req'[p]) /\ req'[p].step = req[p].step
            <4>1. req'[p] = [req[p] EXCEPT !.overtaken = req[p].overtaken \/ req[p].step = "checked"]
                BY <3>4, <3>5
            <4>2. (req[p].overtaken \/ req[p].step = "checked") \in BOOLEAN
                OBVIOUS
            <4> QED
                BY <1>a, <4>1, <4>2 DEF ReqOK, ReqType
        <3>6. req'[r] = Idle
            BY <3>4
        <3>7. req' \in [Requests -> ReqType] /\ \A p \in Requests : ReqOK(req'[p])
            <4>1. \A p \in Requests : ReqOK(req'[p])
                BY <3>5, <3>6, <1>b
            <4>2. req' = [p \in Requests |-> req'[p]]
                BY <3>4
            <4>3. \A p \in Requests : req'[p] \in ReqType
                BY <4>1 DEF ReqOK
            <4> QED
                BY <4>1, <4>2, <4>3
        <3>8. \A p \in Requests : req'[p].step \in Locked <=> lock' = p
            BY <2>0, <3>5, <3>6, <1>b, UploadAssumption DEF Shape, ReqsOK
        <3>9. ReqsOK'
            BY <3>7, <3>8, <2>0 DEF ReqsOK
        <3> QED
            BY <1>5, <2>2, <3>3, <3>9 DEF StoreCommit, Shape, DataOK
    <2> QED
        BY <2>1, <2>2
<1>6. ASSUME NEW r \in Requests, CompleteCheck(r) PROVE Shape'
    <2> DEFINE q == [req[r] EXCEPT !.step = "checked"]
    <2>1. ReqOK(q) /\ q.step \notin Locked
        BY <1>a DEF ReqOK, ReqType, Steps, Locked
    <2>2. req' = [req EXCEPT ![r] = q] /\ lock' = lock /\ req[r].step \notin Locked
        BY <1>6, <1>b DEF CompleteCheck, Go
    <2>3. lock # r
        BY <2>2 DEF Shape, ReqsOK
    <2> HIDE DEF q
    <2>4. ReqsOK'
        BY <2>1, <2>2, <2>3, ReplaceRequest DEF Shape
    <2> QED
        BY <1>6, <1>d, <2>4, UploadAssumption DEF CompleteCheck, Shape, DataOK
<1>7. ASSUME NEW r \in Requests, CompleteClaim(r) PROVE Shape'
    <2> DEFINE q == [req[r] EXCEPT !.step = "claimed"]
    <2>0. lock # r
        BY <1>7, UploadAssumption DEF CompleteClaim
    <2>1. ReqOK(q) /\ q.step \in Locked
        BY <1>a DEF ReqOK, ReqType, Steps, Locked
    <2>2. \/ req' = [req EXCEPT ![r] = q] /\ lock' = r /\ lock = NULL
          \/ req' = [req EXCEPT ![r] = Idle] /\ lock' = lock
        BY <1>7 DEF CompleteClaim, Go, End
    <2> HIDE DEF q
    <2>3. ReqsOK'
        BY <1>b, <2>0, <2>1, <2>2, ReplaceRequest DEF Shape
    <2> QED
        BY <1>7, <1>d, <2>3 DEF CompleteClaim, Shape, DataOK
<1>8. ASSUME NEW r \in Requests, CompleteList(r) PROVE Shape'
    <2> DEFINE rows == {<<i, parts[i].file>> : i \in Present}
               q == [req[r] EXCEPT !.step = "listed", !.rows = rows]
    <2>1. rows \subseteq Index \X Files
        BY DEF Shape, PartsOK, Present
    <2>2. req' = [req EXCEPT ![r] = q] /\ lock' = lock /\ req[r].step \in Locked
        BY <1>8 DEF CompleteList, Shape, ReqsOK, Locked, Steps
    <2> HIDE DEF rows
    <2>3. ReqOK(q) /\ q.step \in Locked
        <3>1. "listed" \in Steps /\ "listed" \in Locked
            BY DEF Steps, Locked
        <3>2. q \in ReqType
            BY ONLY <1>a, <2>1, <3>1, r \in Requests DEF ReqType
        <3>3. q.step = "listed"
            BY <1>a DEF ReqType
        <3> QED
            BY <3>1, <3>2, <3>3 DEF ReqOK
    <2>4. lock = r
        BY <2>2 DEF Shape, ReqsOK
    <2> HIDE DEF q
    <2>5. ReqsOK'
        BY <2>2, <2>3, <2>4, ReplaceRequest DEF Shape
    <2> QED
        BY <1>8, <1>d, <2>5 DEF CompleteList, Shape, DataOK
<1>9. ASSUME NEW r \in Requests, Assemble(r) PROVE Shape'
    <2> DEFINE got == {<<row[1], files[row[2]]>> : row \in req[r].rows}
               q == [req[r] EXCEPT !.step = "assembled", !.rows = {}, !.got = got]
    <2>1. req[r].step \in Locked /\ lock = r
        BY <1>9 DEF Assemble, Locked, Steps, Shape, ReqsOK
    <2>2. CASE \A row \in req[r].rows : files[row[2]] # "none"
        <3>1. req[r].rows \subseteq Index \X Files
            BY <1>a DEF ReqType
        <3>2. \A row \in Index \X Files : row[1] \in Index /\ row[2] \in Files
            OBVIOUS
        <3>3. got \subseteq Index \X Sizes
            BY <2>2, <3>1, <3>2 DEF Shape, DataOK
        <3>4. req' = [req EXCEPT ![r] = q] /\ lock' = lock
            BY <1>9, <2>2 DEF Assemble, Shape, ReqsOK
        <3> HIDE DEF got
        <3>5. ReqOK(q) /\ q.step \in Locked
            <4>1. "assembled" \in Steps /\ "assembled" \in Locked
                BY DEF Steps, Locked
            <4>2. q \in ReqType
                BY ONLY <1>a, <3>3, <4>1, r \in Requests DEF ReqType
            <4>3. q.step = "assembled"
                BY <1>a DEF ReqType
            <4> QED
                BY <4>1, <4>2, <4>3 DEF ReqOK
        <3> HIDE DEF q
        <3>6. ReqsOK'
            BY <2>1, <3>4, <3>5, ReplaceRequest DEF Shape
        <3> QED
            BY <1>9, <1>d, <3>6 DEF Assemble, Shape, DataOK
    <2>3. CASE ~ \A row \in req[r].rows : files[row[2]] # "none"
        <3>1. req' = [req EXCEPT ![r] = Idle] /\ lock' = NULL
            BY <1>9, <2>3 DEF Assemble, End
        <3>2. ReqsOK'
            BY <1>b, <2>1, <3>1, UploadAssumption, ReplaceRequest DEF Shape
        <3> QED
            BY <1>9, <1>d, <3>2 DEF Assemble, Shape, DataOK
    <2> QED
        BY <2>2, <2>3
<1>10. ASSUME NEW r \in Requests, CompleteFailed(r) PROVE Shape'
    <2>1. req[r].step \in Locked /\ lock = r
        BY <1>10 DEF CompleteFailed, Locked, Steps, Shape, ReqsOK
    <2>2. req' = [req EXCEPT ![r] = Idle] /\ lock' = NULL
        BY <1>10 DEF CompleteFailed, End
    <2>3. ReqsOK'
        BY <1>b, <2>1, <2>2, UploadAssumption, ReplaceRequest DEF Shape
    <2>4. imported' \in Nat
        BY <1>10 DEF CompleteFailed, Shape, DataOK
    <2> QED
        BY <1>10, <1>d, <2>3, <2>4 DEF CompleteFailed, Shape, DataOK
<1>11. ASSUME NEW r \in Requests, CompleteClean(r) PROVE Shape'
    <2> DEFINE q == [req[r] EXCEPT !.step = "cleaned"]
    <2>1. req[r].step \in Locked /\ lock = r
        BY <1>11 DEF CompleteClean, Locked, Steps, Shape, ReqsOK
    <2>2. req' = [req EXCEPT ![r] = q] /\ lock' = lock
        BY <1>11 DEF CompleteClean, Go
    <2>3. ReqOK(q) /\ q.step \in Locked
        BY <1>a DEF ReqOK, ReqType, Steps, Locked
    <2> HIDE DEF q
    <2>4. ReqsOK'
        BY <2>1, <2>2, <2>3, ReplaceRequest DEF Shape
    <2>5. files' \in [Files -> Sizes \cup {"none"}] /\ tainted' \in BOOLEAN
        BY <1>11 DEF CompleteClean, Delete, Shape, DataOK
    <2> QED
        BY <1>11, <1>d, <2>4, <2>5 DEF CompleteClean, Shape, DataOK
<1>12. ASSUME NEW r \in Requests, CompleteCommit(r) PROVE Shape'
    <2>1. req[r].step \in Locked /\ lock = r
        BY <1>12 DEF CompleteCommit, Locked, Steps, Shape, ReqsOK
    <2>2. req' = [req EXCEPT ![r] = Idle] /\ lock' = NULL
        BY <1>12 DEF CompleteCommit, End
    <2>3. ReqsOK'
        BY <1>b, <2>1, <2>2, UploadAssumption, ReplaceRequest DEF Shape
    <2>4. PartsOK'
        BY <1>12 DEF CompleteCommit, PartsOK, NoParts, Present
    <2>5. /\ status' = "COMPLETED" /\ stale' = FALSE /\ imported' = imported + 1
          /\ UNCHANGED <<files, purge, calls, faults, selected, tainted>>
        BY <1>12 DEF CompleteCommit
    <2>6. DataOK'
        <3>1. imported' \in Nat
            BY <2>5 DEF Shape, DataOK
        <3> QED
            BY ONLY Shape, <2>5, <3>1 DEF Shape, DataOK
    <2> QED
        BY <2>3, <2>4, <2>6 DEF Shape
<1>13. ASSUME PurgeSelect PROVE Shape'
    BY <1>13 DEF PurgeSelect, AtRest, Shape, ReqsOK, ReqOK, PartsOK, DataOK, Present
<1>14. ASSUME PurgeList PROVE Shape'
    <2>1. {parts[i].file : i \in Present} \subseteq Files
        BY DEF Shape, PartsOK
    <2> QED
        BY <1>14, <2>1 DEF PurgeList, Shape, ReqsOK, ReqOK, PartsOK, DataOK, Present
<1>15. ASSUME NEW f \in Files, PurgeFile(f) PROVE Shape'
    <2>1. files' \in [Files -> Sizes \cup {"none"}] /\ tainted' \in BOOLEAN
        BY <1>15 DEF PurgeFile, Delete, Shape, DataOK
    <2> QED
        BY <1>15, <2>1 DEF PurgeFile, Shape, ReqsOK, ReqOK, PartsOK, DataOK, Present
<1>16. ASSUME PurgeRows PROVE Shape'
    <2>1. PartsOK'
        BY <1>16 DEF PurgeRows, PartsOK, NoParts, Present
    <2> QED
        BY <1>16, <2>1 DEF PurgeRows, Shape, ReqsOK, ReqOK, DataOK
<1>17. ASSUME PurgeSession PROVE Shape'
    <2>1. PartsOK'
        BY <1>17 DEF PurgeSession, PartsOK, NoParts, Present
    <2> QED
        BY <1>17, <2>1 DEF PurgeSession, AtRest, Shape, ReqsOK, ReqOK, DataOK
<1>18. ASSUME Age PROVE Shape'
    BY <1>18 DEF Age, Shape, ReqsOK, ReqOK, PartsOK, DataOK, Present
<1>19. ASSUME NEW r \in Requests, Break(r) PROVE Shape'
    <2>1. req' = [req EXCEPT ![r] = Idle] /\ lock' = IF lock = r THEN NULL ELSE lock
        BY <1>19 DEF Break, End
    <2>2. ReqsOK'
        BY <1>b, <2>1, UploadAssumption, ReplaceRequest DEF Shape
    <2>3. tainted' \in BOOLEAN /\ faults' \in 0..MaxFaults
        BY <1>19, UploadAssumption DEF Break, Shape, DataOK
    <2> QED
        BY <1>19, <1>d, <2>2, <2>3 DEF Break, Shape, DataOK
<1>20. ASSUME PurgeBreak PROVE Shape'
    BY <1>20, UploadAssumption
       DEF PurgeBreak, AtRest, Shape, ReqsOK, ReqOK, PartsOK, DataOK, Present
<1>21. ASSUME UNCHANGED vars PROVE Shape'
    BY <1>21 DEF vars, Shape, ReqsOK, ReqOK, PartsOK, DataOK, Present
<1> QED
    BY ONLY [Next]_vars, <1>1, <1>2, <1>3, <1>4, <1>5, <1>6, <1>7, <1>8, <1>9, <1>10, <1>11,
            <1>12, <1>13, <1>14, <1>15, <1>16, <1>17, <1>18, <1>19, <1>20, <1>21
       DEF Next, Continue, PurgeContinue

-----------------------------------------------------------------------------

(* From the claim to its commit a request holds the lock on a PENDING row.   *)
Completing == {"claimed", "listed", "assembled", "cleaned"}

ClaimPending == \A r \in Requests : req[r].step \in Completing => status = "PENDING"

(* Only the lock holder, the start and the purge, which waits for the lock,  *)
(* change the status.                                                        *)
LEMMA ClaimStep == ASSUME Shape, ClaimPending, [Next]_vars PROVE ClaimPending'
<1> SUFFICES ASSUME NEW p \in Requests PROVE (req[p].step \in Completing => status = "PENDING")'
    BY DEF ClaimPending
<1>a. req[p].step \in Completing => status = "PENDING" /\ lock = p
    BY DEF ClaimPending, Completing, Shape, ReqsOK, Locked, Steps
<1>b. req \in [Requests -> ReqType] /\ NULL \notin Requests
    BY UploadAssumption DEF Shape, ReqsOK
<1>c. \A r \in Requests : req[r].step \in {"claimed", "assembled", "cleaned"} => lock = r
    BY DEF Shape, ReqsOK, Locked, Steps
<1>1. ASSUME StartUpload PROVE (req[p].step \in Completing => status = "PENDING")'
    BY <1>1, <1>a, <1>b, <1>c DEF StartUpload, ReqType, Completing
<1>2. ASSUME NEW r \in Requests, NEW i \in Index, NEW size \in Sizes, StoreBegin(r, i, size)
      PROVE  (req[p].step \in Completing => status = "PENDING")'
    BY <1>2, <1>a, <1>b, <1>c DEF StoreBegin, ReqType, Completing
<1>3. ASSUME NEW r \in Requests, StoreLock(r)
      PROVE  (req[p].step \in Completing => status = "PENDING")'
    BY <1>3, <1>a, <1>b, <1>c DEF StoreLock, End, Idle, ReqType, Completing
<1>4. ASSUME NEW r \in Requests, StoreFile(r)
      PROVE  (req[p].step \in Completing => status = "PENDING")'
    BY <1>4, <1>a, <1>b, <1>c DEF StoreFile, ReqType, Completing
<1>5. ASSUME NEW r \in Requests, StoreCommit(r)
      PROVE  (req[p].step \in Completing => status = "PENDING")'
    BY <1>5, <1>a, <1>b, <1>c DEF StoreCommit, End, Idle, ReqType, Completing
<1>6. ASSUME NEW r \in Requests, CompleteCheck(r)
      PROVE  (req[p].step \in Completing => status = "PENDING")'
    BY <1>6, <1>a, <1>b, <1>c DEF CompleteCheck, Go, ReqType, Completing
<1>7. ASSUME NEW r \in Requests, CompleteClaim(r)
      PROVE  (req[p].step \in Completing => status = "PENDING")'
    BY <1>7, <1>a, <1>b, <1>c DEF CompleteClaim, Go, End, Idle, ReqType, Completing
<1>8. ASSUME NEW r \in Requests, CompleteList(r)
      PROVE  (req[p].step \in Completing => status = "PENDING")'
    BY <1>8, <1>a, <1>b, <1>c DEF CompleteList, ReqType, Completing
<1>9. ASSUME NEW r \in Requests, Assemble(r)
      PROVE  (req[p].step \in Completing => status = "PENDING")'
    BY <1>9, <1>a, <1>b, <1>c DEF Assemble, End, Idle, ReqType, Completing
<1>10. ASSUME NEW r \in Requests, CompleteFailed(r)
       PROVE  (req[p].step \in Completing => status = "PENDING")'
    BY <1>10, <1>a, <1>b, <1>c DEF CompleteFailed, End, Idle, ReqType, Completing
<1>11. ASSUME NEW r \in Requests, CompleteClean(r)
       PROVE  (req[p].step \in Completing => status = "PENDING")'
    BY <1>11, <1>a, <1>b, <1>c DEF CompleteClean, Go, ReqType, Completing
<1>12. ASSUME NEW r \in Requests, CompleteCommit(r)
       PROVE  (req[p].step \in Completing => status = "PENDING")'
    BY <1>12, <1>a, <1>b, <1>c DEF CompleteCommit, End, Idle, ReqType, Completing
<1>13. ASSUME PurgeSelect PROVE (req[p].step \in Completing => status = "PENDING")'
    BY <1>13, <1>a, <1>b, <1>c DEF PurgeSelect, ReqType, Completing
<1>14. ASSUME PurgeList PROVE (req[p].step \in Completing => status = "PENDING")'
    BY <1>14, <1>a, <1>b, <1>c DEF PurgeList, ReqType, Completing
<1>15. ASSUME NEW f \in Files, PurgeFile(f)
       PROVE  (req[p].step \in Completing => status = "PENDING")'
    BY <1>15, <1>a, <1>b, <1>c DEF PurgeFile, ReqType, Completing
<1>16. ASSUME PurgeRows PROVE (req[p].step \in Completing => status = "PENDING")'
    BY <1>16, <1>a, <1>b, <1>c DEF PurgeRows, ReqType, Completing
<1>17. ASSUME PurgeSession PROVE (req[p].step \in Completing => status = "PENDING")'
    BY <1>17, <1>a, <1>b, <1>c DEF PurgeSession, ReqType, Completing
<1>18. ASSUME Age PROVE (req[p].step \in Completing => status = "PENDING")'
    BY <1>18, <1>a, <1>b, <1>c DEF Age, ReqType, Completing
<1>19. ASSUME NEW r \in Requests, Break(r)
       PROVE  (req[p].step \in Completing => status = "PENDING")'
    BY <1>19, <1>a, <1>b, <1>c DEF Break, End, Idle, ReqType, Completing
<1>20. ASSUME PurgeBreak PROVE (req[p].step \in Completing => status = "PENDING")'
    BY <1>20, <1>a, <1>b, <1>c DEF PurgeBreak, ReqType, Completing
<1>21. ASSUME UNCHANGED vars PROVE (req[p].step \in Completing => status = "PENDING")'
    BY <1>21, <1>a, <1>b, <1>c DEF vars, ReqType, Completing
<1> QED
    BY ONLY [Next]_vars, <1>1, <1>2, <1>3, <1>4, <1>5, <1>6, <1>7, <1>8, <1>9, <1>10, <1>11,
            <1>12, <1>13, <1>14, <1>15, <1>16, <1>17, <1>18, <1>19, <1>20, <1>21
       DEF Next, Continue, PurgeContinue

(* An import is committed by a request that found the session PENDING.       *)
LEMMA ImportStep ==
    ASSUME Shape, ClaimPending, ImportedOnce, [Next]_vars
    PROVE  ImportedOnce'
<1>a. \A r \in Requests : req[r].step \in {"assembled", "cleaned"} => status = "PENDING"
    BY DEF ClaimPending, Completing
<1>b. \A r \in Requests : req[r].step = "claimed" => status = "PENDING"
    BY DEF ClaimPending, Completing
<1>c. imported \in Nat
    BY DEF Shape, DataOK
<1>1. ASSUME StartUpload PROVE ImportedOnce'
    BY <1>1, <1>a, <1>b, <1>c DEF StartUpload, ImportedOnce
<1>2. ASSUME NEW r \in Requests, NEW i \in Index, NEW size \in Sizes, StoreBegin(r, i, size)
      PROVE  ImportedOnce'
    BY <1>2, <1>a, <1>b, <1>c DEF StoreBegin, ImportedOnce
<1>3. ASSUME NEW r \in Requests, StoreLock(r) PROVE ImportedOnce'
    BY <1>3, <1>a, <1>b, <1>c DEF StoreLock, End, Idle, ImportedOnce
<1>4. ASSUME NEW r \in Requests, StoreFile(r) PROVE ImportedOnce'
    BY <1>4, <1>a, <1>b, <1>c DEF StoreFile, ImportedOnce
<1>5. ASSUME NEW r \in Requests, StoreCommit(r) PROVE ImportedOnce'
    BY <1>5, <1>a, <1>b, <1>c DEF StoreCommit, End, Idle, ImportedOnce
<1>6. ASSUME NEW r \in Requests, CompleteCheck(r) PROVE ImportedOnce'
    BY <1>6, <1>a, <1>b, <1>c DEF CompleteCheck, Go, ImportedOnce
<1>7. ASSUME NEW r \in Requests, CompleteClaim(r) PROVE ImportedOnce'
    BY <1>7, <1>a, <1>b, <1>c DEF CompleteClaim, Go, End, Idle, ImportedOnce
<1>8. ASSUME NEW r \in Requests, CompleteList(r) PROVE ImportedOnce'
    BY <1>8, <1>a, <1>b, <1>c DEF CompleteList, ImportedOnce
<1>9. ASSUME NEW r \in Requests, Assemble(r) PROVE ImportedOnce'
    BY <1>9, <1>a, <1>b, <1>c DEF Assemble, End, Idle, ImportedOnce
<1>10. ASSUME NEW r \in Requests, CompleteFailed(r) PROVE ImportedOnce'
    BY <1>10, <1>a, <1>b, <1>c DEF CompleteFailed, End, Idle, ImportedOnce
<1>11. ASSUME NEW r \in Requests, CompleteClean(r) PROVE ImportedOnce'
    BY <1>11, <1>a, <1>b, <1>c DEF CompleteClean, Go, ImportedOnce
<1>12. ASSUME NEW r \in Requests, CompleteCommit(r) PROVE ImportedOnce'
    BY <1>12, <1>a, <1>b, <1>c DEF CompleteCommit, End, Idle, ImportedOnce
<1>13. ASSUME PurgeSelect PROVE ImportedOnce'
    BY <1>13, <1>a, <1>b, <1>c DEF PurgeSelect, ImportedOnce
<1>14. ASSUME PurgeList PROVE ImportedOnce'
    BY <1>14, <1>a, <1>b, <1>c DEF PurgeList, ImportedOnce
<1>15. ASSUME NEW f \in Files, PurgeFile(f) PROVE ImportedOnce'
    BY <1>15, <1>a, <1>b, <1>c DEF PurgeFile, ImportedOnce
<1>16. ASSUME PurgeRows PROVE ImportedOnce'
    BY <1>16, <1>a, <1>b, <1>c DEF PurgeRows, ImportedOnce
<1>17. ASSUME PurgeSession PROVE ImportedOnce'
    BY <1>17, <1>a, <1>b, <1>c DEF PurgeSession, ImportedOnce
<1>18. ASSUME Age PROVE ImportedOnce'
    BY <1>18, <1>a, <1>b, <1>c DEF Age, ImportedOnce
<1>19. ASSUME NEW r \in Requests, Break(r) PROVE ImportedOnce'
    BY <1>19, <1>a, <1>b, <1>c DEF Break, End, Idle, ImportedOnce
<1>20. ASSUME PurgeBreak PROVE ImportedOnce'
    BY <1>20, <1>a, <1>b, <1>c DEF PurgeBreak, ImportedOnce
<1>21. ASSUME UNCHANGED vars PROVE ImportedOnce'
    BY <1>21, <1>a, <1>b, <1>c DEF vars, ImportedOnce
<1> QED
    BY ONLY [Next]_vars, <1>1, <1>2, <1>3, <1>4, <1>5, <1>6, <1>7, <1>8, <1>9, <1>10, <1>11,
            <1>12, <1>13, <1>14, <1>15, <1>16, <1>17, <1>18, <1>19, <1>20, <1>21
       DEF Next, Continue, PurgeContinue

-----------------------------------------------------------------------------

(* Before a purge selects the session, no purge is under way.                *)
Unpurged == ~selected => purge.step = "rest" /\ status # "GONE"

(* Only PurgeSelect starts a purge, and only a purge removes the session.    *)
LEMMA UnpurgedStep == ASSUME Shape, Unpurged, [Next]_vars PROVE Unpurged'
<1> USE DEF Unpurged
<1>1. ASSUME StartUpload PROVE Unpurged'
    BY <1>1 DEF StartUpload, AtRest
<1>2. ASSUME NEW r \in Requests, NEW i \in Index, NEW size \in Sizes, StoreBegin(r, i, size)
      PROVE  Unpurged'
    BY <1>2 DEF StoreBegin, AtRest
<1>3. ASSUME NEW r \in Requests, StoreLock(r) PROVE Unpurged'
    BY <1>3 DEF StoreLock, End, Idle, AtRest
<1>4. ASSUME NEW r \in Requests, StoreFile(r) PROVE Unpurged'
    BY <1>4 DEF StoreFile, AtRest
<1>5. ASSUME NEW r \in Requests, StoreCommit(r) PROVE Unpurged'
    BY <1>5 DEF StoreCommit, End, Idle, AtRest
<1>6. ASSUME NEW r \in Requests, CompleteCheck(r) PROVE Unpurged'
    BY <1>6 DEF CompleteCheck, Go, AtRest
<1>7. ASSUME NEW r \in Requests, CompleteClaim(r) PROVE Unpurged'
    BY <1>7 DEF CompleteClaim, Go, End, Idle, AtRest
<1>8. ASSUME NEW r \in Requests, CompleteList(r) PROVE Unpurged'
    BY <1>8 DEF CompleteList, AtRest
<1>9. ASSUME NEW r \in Requests, Assemble(r) PROVE Unpurged'
    BY <1>9 DEF Assemble, End, Idle, AtRest
<1>10. ASSUME NEW r \in Requests, CompleteFailed(r) PROVE Unpurged'
    BY <1>10 DEF CompleteFailed, End, Idle, AtRest
<1>11. ASSUME NEW r \in Requests, CompleteClean(r) PROVE Unpurged'
    BY <1>11 DEF CompleteClean, Go, AtRest
<1>12. ASSUME NEW r \in Requests, CompleteCommit(r) PROVE Unpurged'
    BY <1>12 DEF CompleteCommit, End, Idle, AtRest
<1>13. ASSUME PurgeSelect PROVE Unpurged'
    BY <1>13 DEF PurgeSelect, AtRest
<1>14. ASSUME PurgeList PROVE Unpurged'
    BY <1>14 DEF PurgeList, AtRest
<1>15. ASSUME NEW f \in Files, PurgeFile(f) PROVE Unpurged'
    BY <1>15 DEF PurgeFile, AtRest
<1>16. ASSUME PurgeRows PROVE Unpurged'
    BY <1>16 DEF PurgeRows, AtRest
<1>17. ASSUME PurgeSession PROVE Unpurged'
    BY <1>17 DEF PurgeSession, AtRest
<1>18. ASSUME Age PROVE Unpurged'
    BY <1>18 DEF Age, AtRest
<1>19. ASSUME NEW r \in Requests, Break(r) PROVE Unpurged'
    BY <1>19 DEF Break, End, Idle, AtRest
<1>20. ASSUME PurgeBreak PROVE Unpurged'
    BY <1>20 DEF PurgeBreak, AtRest
<1>21. ASSUME UNCHANGED vars PROVE Unpurged'
    BY <1>21 DEF vars, AtRest
<1> QED
    BY ONLY [Next]_vars, <1>1, <1>2, <1>3, <1>4, <1>5, <1>6, <1>7, <1>8, <1>9, <1>10, <1>11,
            <1>12, <1>13, <1>14, <1>15, <1>16, <1>17, <1>18, <1>19, <1>20, <1>21
       DEF Next, Continue, PurgeContinue

(* What the lock holder has done to the storage so far.                      *)
HeldOK(r) ==
    /\ req[r].step \in {"adding", "added"} => req[r].index \notin Present
    /\ req[r].step = "replacing" =>
          req[r].index \in Present /\ files[parts[req[r].index].file] = "none"
    /\ req[r].step = "replaced" =>
          /\ req[r].index \in Present
          /\ \/ files[parts[req[r].index].file] = "none"
             \/ parts[req[r].index].file = req[r].file
    /\ req[r].step \in {"added", "replaced"} => files[req[r].file] = req[r].size
    /\ req[r].step = "cleaned" => \A f \in Files : files[f] = "none"

RowOK(i) == i \in Present => Replaces(i) \/ files[parts[i].file] = parts[i].size

FileOK(f) ==
    files[f] # "none" =>
        \/ \E i \in Present : parts[i].file = f
        \/ \E r \in Requests : req[r].step \in {"added", "replaced"} /\ req[r].file = f

StorageOK ==
    /\ \A r \in Requests : HeldOK(r)
    /\ \A i \in Index : RowOK(i)
    /\ \A f \in Files : FileOK(f)

StorageKept == ~selected /\ ~tainted => StorageOK

(* The steps in which rows and storage may differ.                           *)
Touching == {"adding", "replacing", "added", "replaced", "cleaned"}

(* A step that touches neither rows nor files keeps their agreement.         *)
LEMMA QuietStep ==
    ASSUME Shape, Shape', StorageOK, parts' = parts, files' = files,
           \A p \in Requests : \/ req'[p] = req[p]
                               \/ /\ req[p].step \notin Touching \ {"adding"}
                                  /\ req'[p].step \notin Touching
    PROVE  StorageOK'
<1>1. Present' = Present
    BY DEF Present
<1>2. \A p \in Requests : HeldOK(p)'
    BY <1>1 DEF StorageOK, HeldOK, Touching
<1>3. ASSUME NEW i \in Index, Replaces(i) PROVE Replaces(i)'
    <2>1. lock \in Requests /\ req[lock].step \in Touching \ {"adding"}
        BY <1>3 DEF Replaces, Touching, Shape, ReqsOK
    <2>2. req'[lock] = req[lock]
        BY <2>1
    <2>3. req[lock].step \in Locked
        BY <2>1 DEF Touching, Locked, Steps
    <2>4. lock' = lock
        BY <2>1, <2>2, <2>3 DEF Shape, ReqsOK
    <2> QED
        BY <1>3, <2>1, <2>2, <2>4 DEF Replaces
<1>4. \A i \in Index : RowOK(i)'
    BY <1>1, <1>3 DEF StorageOK, RowOK
<1>5. \A f \in Files : FileOK(f)'
    BY <1>1 DEF StorageOK, FileOK, Touching
<1> QED
    BY <1>2, <1>4, <1>5 DEF StorageOK

(* What the histories record stays recorded.                                 *)
LEMMA HistoryStep == ASSUME Shape, [Next]_vars PROVE (selected => selected') /\ (tainted => tainted')
<1>1. ASSUME StartUpload PROVE (selected => selected') /\ (tainted => tainted')
    BY <1>1 DEF StartUpload
<1>2. ASSUME NEW r \in Requests, NEW i \in Index, NEW size \in Sizes, StoreBegin(r, i, size)
      PROVE  (selected => selected') /\ (tainted => tainted')
    BY <1>2 DEF StoreBegin
<1>3. ASSUME NEW r \in Requests, StoreLock(r)
      PROVE  (selected => selected') /\ (tainted => tainted')
    BY <1>3 DEF StoreLock, End, Idle
<1>4. ASSUME NEW r \in Requests, StoreFile(r)
      PROVE  (selected => selected') /\ (tainted => tainted')
    BY <1>4 DEF StoreFile
<1>5. ASSUME NEW r \in Requests, StoreCommit(r)
      PROVE  (selected => selected') /\ (tainted => tainted')
    BY <1>5 DEF StoreCommit, End, Idle
<1>6. ASSUME NEW r \in Requests, CompleteCheck(r)
      PROVE  (selected => selected') /\ (tainted => tainted')
    BY <1>6 DEF CompleteCheck, Go
<1>7. ASSUME NEW r \in Requests, CompleteClaim(r)
      PROVE  (selected => selected') /\ (tainted => tainted')
    BY <1>7 DEF CompleteClaim, Go, End, Idle
<1>8. ASSUME NEW r \in Requests, CompleteList(r)
      PROVE  (selected => selected') /\ (tainted => tainted')
    BY <1>8 DEF CompleteList
<1>9. ASSUME NEW r \in Requests, Assemble(r)
      PROVE  (selected => selected') /\ (tainted => tainted')
    BY <1>9 DEF Assemble, End, Idle
<1>10. ASSUME NEW r \in Requests, CompleteFailed(r)
       PROVE  (selected => selected') /\ (tainted => tainted')
    BY <1>10 DEF CompleteFailed, End, Idle
<1>11. ASSUME NEW r \in Requests, CompleteClean(r)
       PROVE  (selected => selected') /\ (tainted => tainted')
    BY <1>11 DEF CompleteClean, Delete
<1>12. ASSUME NEW r \in Requests, CompleteCommit(r)
       PROVE  (selected => selected') /\ (tainted => tainted')
    BY <1>12 DEF CompleteCommit, End, Idle
<1>13. ASSUME PurgeSelect PROVE (selected => selected') /\ (tainted => tainted')
    BY <1>13 DEF PurgeSelect
<1>14. ASSUME PurgeList PROVE (selected => selected') /\ (tainted => tainted')
    BY <1>14 DEF PurgeList
<1>15. ASSUME NEW f \in Files, PurgeFile(f)
       PROVE  (selected => selected') /\ (tainted => tainted')
    BY <1>15 DEF PurgeFile, Delete
<1>16. ASSUME PurgeRows PROVE (selected => selected') /\ (tainted => tainted')
    BY <1>16 DEF PurgeRows
<1>17. ASSUME PurgeSession PROVE (selected => selected') /\ (tainted => tainted')
    BY <1>17 DEF PurgeSession
<1>18. ASSUME Age PROVE (selected => selected') /\ (tainted => tainted')
    BY <1>18 DEF Age
<1>19. ASSUME NEW r \in Requests, Break(r)
       PROVE  (selected => selected') /\ (tainted => tainted')
    BY <1>19 DEF Break, End, Idle
<1>20. ASSUME PurgeBreak PROVE (selected => selected') /\ (tainted => tainted')
    BY <1>20 DEF PurgeBreak
<1>21. ASSUME UNCHANGED vars PROVE (selected => selected') /\ (tainted => tainted')
    BY <1>21 DEF vars
<1> QED
    BY ONLY [Next]_vars, <1>1, <1>2, <1>3, <1>4, <1>5, <1>6, <1>7, <1>8, <1>9, <1>10, <1>11,
            <1>12, <1>13, <1>14, <1>15, <1>16, <1>17, <1>18, <1>19, <1>20, <1>21
       DEF Next, Continue, PurgeContinue

(* Rows and storage change under the lock, and its holder tells how far it is. *)
LEMMA StorageStep ==
    ASSUME Shape, Unpurged, StorageKept, [Next]_vars
    PROVE  StorageKept'
<1> SUFFICES ASSUME ~selected', ~tainted' PROVE StorageOK'
    BY DEF StorageKept
<1>u. ~selected /\ ~tainted /\ purge.step = "rest" /\ status # "GONE"
    BY HistoryStep DEF Unpurged
<1>s. StorageOK
    BY <1>u DEF StorageKept
<1>x. Shape'
    BY ShapeStep
<1>b. /\ req \in [Requests -> ReqType] /\ NULL \notin Requests
      /\ \A r \in Requests : ReqOK(req[r])
      /\ \A r \in Requests : req[r].step \in {"waiting", "adding", "replacing", "added", "replaced"} =>
            req[r].index \in Index /\ req[r].size \in Sizes
      /\ \A r \in Requests : req[r].step \in {"added", "replaced"} =>
            req[r].file \in Files /\ req[r].file[1] = req[r].index
      /\ \A r \in Requests : req[r].step \in Locked <=> lock = r
      /\ \A r \in Requests : req'[r].step \in Locked <=> lock' = r
      /\ parts \in [Index -> [file : Files, size : Sizes] \cup {NoPart}]
      /\ \A i \in Present : parts[i].file \in Files /\ parts[i].file[1] = i
      /\ files \in [Files -> Sizes \cup {"none"}]
    BY <1>x, UploadAssumption DEF Shape, ReqsOK, ReqOK, PartsOK, DataOK
<1>q. ASSUME parts' = parts, files' = files,
             \A p \in Requests : \/ req'[p] = req[p]
                                 \/ /\ req[p].step \notin Touching \ {"adding"}
                                    /\ req'[p].step \notin Touching
      PROVE  StorageOK'
    BY <1>q, <1>s, <1>x, QuietStep
<1>1. ASSUME StartUpload PROVE StorageOK'
    <2>1. parts' = parts /\ files' = files
        BY <1>1 DEF StartUpload
    <2>2. \A p \in Requests : \/ req'[p] = req[p]
                              \/ /\ req[p].step \notin Touching \ {"adding"}
                                 /\ req'[p].step \notin Touching
        BY <1>1, <1>b, <1>u DEF StartUpload, Idle, ReqType, Touching
    <2> QED
        BY <1>q, <2>1, <2>2
<1>2. ASSUME NEW r \in Requests, NEW i \in Index, NEW size \in Sizes, StoreBegin(r, i, size)
      PROVE  StorageOK'
    <2>1. parts' = parts /\ files' = files
        BY <1>2 DEF StoreBegin
    <2>2. \A p \in Requests : \/ req'[p] = req[p]
                              \/ /\ req[p].step \notin Touching \ {"adding"}
                                 /\ req'[p].step \notin Touching
        BY <1>2, <1>b, <1>u DEF StoreBegin, Idle, ReqType, Touching
    <2> QED
        BY <1>q, <2>1, <2>2
<1>3. ASSUME NEW r \in Requests, StoreLock(r) PROVE StorageOK'
    <2> DEFINE i == req[r].index
               old == parts[i].file
    <2>1. req[r].step = "waiting" /\ lock = NULL /\ status # "GONE" /\ i \in Index
        BY <1>3, <1>b, <1>u DEF StoreLock
    <2>2. \A p \in Requests : req[p].step \notin Locked
        BY <2>1, <1>b
    <2>3. \A j \in Present : files[parts[j].file] = parts[j].size
        BY <2>1, <1>s DEF StorageOK, RowOK, Replaces, Present
    <2>4. parts' = parts /\ req' = [req EXCEPT ![r].step = IF old = NULL THEN "adding" ELSE "replacing"]
          /\ files' = [f \in Files |-> IF f = old THEN "none" ELSE files[f]] /\ lock' = r
        BY <1>3, <2>1 DEF StoreLock
    <2>5. (old = NULL <=> i \notin Present) /\ (i \in Present => old \in Files /\ old[1] = i)
        BY <2>1, <1>b, UploadAssumption DEF Present, NoPart, Files
    <2>6. \A p \in Requests \ {r} : req'[p] = req[p]
        BY <2>4, <1>b
    <2>7. req'[r].step = (IF old = NULL THEN "adding" ELSE "replacing") /\ req'[r].index = i
        BY <2>4, <1>b DEF ReqType
    <2>8. Present' = Present
        BY <2>4 DEF Present
    <2>9. \A p \in Requests : HeldOK(p)'
        <3>1. HeldOK(r)'
            BY <2>4, <2>5, <2>7, <2>8 DEF HeldOK
        <3> QED
            BY <3>1, <2>2, <2>6 DEF HeldOK, Locked, Steps
    <2>10. \A j \in Index : RowOK(j)'
        <3> SUFFICES ASSUME NEW j \in Present PROVE RowOK(j)'
            BY <2>8 DEF RowOK
        <3>1. CASE j = i
            BY <2>4, <2>5, <2>7, <3>1, UploadAssumption DEF RowOK, Replaces
        <3>2. CASE j # i
            <4>1. parts[j].file \in Files /\ parts[j].file # old
                BY <1>b, <2>5, <3>2, UploadAssumption DEF Present, NoPart, Files
            <4> QED
                BY <2>3, <2>4, <4>1 DEF RowOK
        <3> QED
            BY <3>1, <3>2
    <2>11. \A f \in Files : FileOK(f)'
        <3> SUFFICES ASSUME NEW f \in Files, files'[f] # "none"
                     PROVE  \E j \in Present : parts[j].file = f
            BY <2>4, <2>8 DEF FileOK
        <3> QED
            BY <1>s, <2>2, <2>4 DEF StorageOK, FileOK, Locked, Steps
    <2> QED
        BY <2>9, <2>10, <2>11 DEF StorageOK
<1>4. ASSUME NEW r \in Requests, StoreFile(r) PROVE StorageOK'
    <2> DEFINE i == req[r].index
    <2>1. PICK copy \in Copies :
             /\ files[<<i, copy>>] = "none"
             /\ files' = [files EXCEPT ![<<i, copy>>] = req[r].size]
             /\ req' = [req EXCEPT ![r].step = IF @ = "adding" THEN "added" ELSE "replaced",
                                   ![r].file = <<i, copy>>]
        BY <1>4 DEF StoreFile
    <2> DEFINE g == <<i, copy>>
    <2>2. req[r].step \in {"adding", "replacing"} /\ req[r].step \in Locked /\ i \in Index
          /\ req[r].size \in Sizes /\ lock' = lock /\ parts' = parts
        BY <1>4, <1>b DEF StoreFile, Locked, Steps
    <2>3. lock = r /\ \A p \in Requests \ {r} : req[p].step \notin Locked
        BY <2>2, <1>b
    <2>4. /\ req'[r].step = (IF req[r].step = "adding" THEN "added" ELSE "replaced")
          /\ req'[r].file = g /\ req'[r].index = i /\ req'[r].size = req[r].size
          /\ \A p \in Requests \ {r} : req'[p] = req[p]
        BY <2>1, <1>b DEF ReqType
    <2>5. g \in Files /\ g[1] = i /\ files'[g] = req[r].size /\ req[r].size # "none"
          /\ \A f \in Files \ {g} : files'[f] = files[f]
        BY <2>1, <2>2, <1>b DEF Files, Sizes
    <2>6. Present' = Present
        BY <2>2 DEF Present
    <2>7. \A p \in Requests : HeldOK(p)'
        <3>1. HeldOK(r)
            BY <1>s DEF StorageOK
        <3>2. i \in Present => parts[i].file \in Files
            BY <1>b
        <3>3. HeldOK(r)'
            BY <2>2, <2>4, <2>5, <2>6, <3>1, <3>2 DEF HeldOK
        <3> QED
            BY <3>3, <2>3, <2>4 DEF HeldOK, Locked, Steps
    <2>8. \A j \in Index : RowOK(j)'
        <3> SUFFICES ASSUME NEW j \in Present PROVE RowOK(j)'
            BY <2>6 DEF RowOK
        <3>1. CASE j = i
            BY <2>2, <2>3, <2>4, <3>1, <1>s, UploadAssumption DEF StorageOK, HeldOK, RowOK, Replaces
        <3>2. CASE j # i
            <4>0. parts[j].file \in Files /\ parts[j].file[1] = j /\ g[1] = i
                BY <1>b, <2>5
            <4>1. parts[j].file \in Files /\ parts[j].file # g
                <5> SUFFICES ASSUME parts[j].file = g PROVE FALSE
                    BY <4>0
                <5>1. parts[j].file[1] = i
                    BY <4>0
                <5> QED
                    BY <3>2, <4>0, <5>1
            <4>2. files[parts[j].file] = parts[j].size
                BY <1>s, <2>2, <2>3, <3>2 DEF StorageOK, RowOK, Replaces, Present
            <4> QED
                BY <2>2, <2>5, <4>1, <4>2 DEF RowOK
        <3> QED
            BY <3>1, <3>2
    <2>9. \A f \in Files : FileOK(f)'
        <3> SUFFICES ASSUME NEW f \in Files, f # g, files'[f] # "none"
                     PROVE  \E j \in Present : parts[j].file = f
            BY <2>2, <2>4, <2>6 DEF FileOK
        <3> QED
            BY <1>s, <2>2, <2>3, <2>5 DEF StorageOK, FileOK, Locked, Steps
    <2> QED
        BY <2>7, <2>8, <2>9 DEF StorageOK
<1>5. ASSUME NEW r \in Requests, StoreCommit(r) PROVE StorageOK'
    <2> DEFINE i == req[r].index
               g == req[r].file
    <2>1. req[r].step \in {"added", "replaced"} /\ lock = r /\ lock' = NULL /\ files' = files
        BY <1>5 DEF StoreCommit
    <2>2. i \in Index /\ req[r].size \in Sizes /\ g \in Files /\ g[1] = i /\ HeldOK(r)
        BY <2>1, <1>b, <1>s DEF StorageOK
    <2>3. files[g] = req[r].size /\ req[r].size # "none"
        BY <2>1, <2>2 DEF HeldOK, Sizes
    <2>4. /\ parts' = [parts EXCEPT ![i] = [file |-> g, size |-> req[r].size]]
          /\ req' = [q \in Requests |->
                        IF q = r THEN Idle
                        ELSE [req[q] EXCEPT !.overtaken = @ \/ req[q].step = "checked"]]
        BY <1>5 DEF StoreCommit
    <2>5. parts'[i] = [file |-> g, size |-> req[r].size] /\ parts'[i] # NoPart
          /\ \A j \in Index \ {i} : parts'[j] = parts[j]
        BY <2>2, <2>3, <2>4, <1>b, UploadAssumption DEF NoPart
    <2>6. Present' = Present \cup {i}
        BY <2>2, <2>5 DEF Present
    <2>7. \A p \in Requests : req'[p].step \notin Locked
        BY <1>b, <2>1
    <2>8. \A p \in Requests : HeldOK(p)'
        BY <2>7 DEF HeldOK, Locked, Steps
    <2>9. \A j \in Index : RowOK(j)'
        <3> SUFFICES ASSUME NEW j \in Index, j \in Present' PROVE RowOK(j)'
            BY DEF RowOK
        <3>1. CASE j = i
            BY <2>1, <2>3, <2>5, <3>1 DEF RowOK
        <3>2. CASE j # i
            <4>1. ~Replaces(j) /\ RowOK(j) /\ j \in Present
                BY <1>s, <2>1, <2>6, <3>2 DEF StorageOK, Replaces
            <4> QED
                BY <2>1, <2>5, <3>2, <4>1 DEF RowOK
        <3> QED
            BY <3>1, <3>2
    <2>10. \A f \in Files : FileOK(f)'
        <3> SUFFICES ASSUME NEW f \in Files, f # g, files[f] # "none"
                     PROVE  \E j \in Present' : parts'[j].file = f
            BY <2>1, <2>2, <2>5, <2>6 DEF FileOK
        <3>1. \A p \in Requests \ {r} : req[p].step \notin {"added", "replaced"}
            BY <1>b, <2>1 DEF Locked, Steps
        <3>2. PICK j \in Present : parts[j].file = f
            BY <1>s, <3>1 DEF StorageOK, FileOK
        <3>3. j # i
            BY <2>1, <2>2, <3>2 DEF HeldOK
        <3> QED
            BY <2>5, <2>6, <3>2, <3>3 DEF Present
    <2> QED
        BY <2>8, <2>9, <2>10 DEF StorageOK
<1>6. ASSUME NEW r \in Requests, CompleteCheck(r) PROVE StorageOK'
    <2>1. parts' = parts /\ files' = files
        BY <1>6 DEF CompleteCheck
    <2>2. \A p \in Requests : \/ req'[p] = req[p]
                              \/ /\ req[p].step \notin Touching \ {"adding"}
                                 /\ req'[p].step \notin Touching
        BY <1>6, <1>b, <1>u DEF CompleteCheck, Go, Idle, ReqType, Touching
    <2> QED
        BY <1>q, <2>1, <2>2
<1>7. ASSUME NEW r \in Requests, CompleteClaim(r) PROVE StorageOK'
    <2>1. parts' = parts /\ files' = files
        BY <1>7 DEF CompleteClaim
    <2>2. \A p \in Requests : \/ req'[p] = req[p]
                              \/ /\ req[p].step \notin Touching \ {"adding"}
                                 /\ req'[p].step \notin Touching
        BY <1>7, <1>b, <1>u DEF CompleteClaim, Go, End, Idle, Idle, ReqType, Touching
    <2> QED
        BY <1>q, <2>1, <2>2
<1>8. ASSUME NEW r \in Requests, CompleteList(r) PROVE StorageOK'
    <2>1. parts' = parts /\ files' = files
        BY <1>8 DEF CompleteList
    <2>2. \A p \in Requests : \/ req'[p] = req[p]
                              \/ /\ req[p].step \notin Touching \ {"adding"}
                                 /\ req'[p].step \notin Touching
        BY <1>8, <1>b, <1>u DEF CompleteList, Idle, ReqType, Touching
    <2> QED
        BY <1>q, <2>1, <2>2
<1>9. ASSUME NEW r \in Requests, Assemble(r) PROVE StorageOK'
    <2>1. parts' = parts /\ files' = files
        BY <1>9 DEF Assemble
    <2>2. \A p \in Requests : \/ req'[p] = req[p]
                              \/ /\ req[p].step \notin Touching \ {"adding"}
                                 /\ req'[p].step \notin Touching
        BY <1>9, <1>b, <1>u DEF Assemble, End, Idle, Idle, ReqType, Touching
    <2> QED
        BY <1>q, <2>1, <2>2
<1>10. ASSUME NEW r \in Requests, CompleteFailed(r) PROVE StorageOK'
    <2>1. parts' = parts /\ files' = files
        BY <1>10 DEF CompleteFailed
    <2>2. \A p \in Requests : \/ req'[p] = req[p]
                              \/ /\ req[p].step \notin Touching \ {"adding"}
                                 /\ req'[p].step \notin Touching
        BY <1>10, <1>b, <1>u DEF CompleteFailed, End, Idle, Idle, ReqType, Touching
    <2> QED
        BY <1>q, <2>1, <2>2
<1>11. ASSUME NEW r \in Requests, CompleteClean(r) PROVE StorageOK'
    <2>1. req[r].step = "assembled" /\ parts' = parts /\ lock' = lock
          /\ req' = [req EXCEPT ![r].step = "cleaned"] /\ Delete({parts[i].file : i \in Present})
        BY <1>11 DEF CompleteClean, Go
    <2>2. files' = [f \in Files |-> IF f \in {parts[i].file : i \in Present} THEN "none" ELSE files[f]]
        <3>1. PICK kept \in SUBSET {parts[i].file : i \in Present} :
                 /\ files' = [f \in Files |-> IF f \in {parts[i].file : i \in Present} \ kept
                                               THEN "none" ELSE files[f]]
                 /\ tainted' = (tainted \/ kept # {})
            BY <2>1 DEF Delete
        <3>2. kept = {}
            BY <3>1
        <3> QED
            BY <3>1, <3>2
    <2>3. lock = r /\ \A p \in Requests \ {r} : req[p].step \notin Locked
        BY <2>1, <1>b DEF Locked, Steps
    <2>4. \A f \in Files : files'[f] = "none"
        BY <1>s, <2>1, <2>2, <2>3 DEF StorageOK, FileOK, Locked, Steps
    <2>5. req'[r].step = "cleaned" /\ \A p \in Requests \ {r} : req'[p] = req[p]
        BY <2>1, <1>b DEF ReqType
    <2>6. \A p \in Requests : HeldOK(p)'
        BY <2>3, <2>4, <2>5 DEF HeldOK, Locked, Steps
    <2>7. \A j \in Index : RowOK(j)'
        BY <2>1, <2>3, <2>5, UploadAssumption DEF RowOK, Replaces
    <2> QED
        BY <2>4, <2>6, <2>7 DEF StorageOK, FileOK
<1>12. ASSUME NEW r \in Requests, CompleteCommit(r) PROVE StorageOK'
    <2>1. req[r].step = "cleaned" /\ parts' = NoParts /\ files' = files /\ lock' = NULL
        BY <1>12 DEF CompleteCommit
    <2>2. \A f \in Files : files[f] = "none"
        BY <1>s, <2>1 DEF StorageOK, HeldOK
    <2>3. Present' = {}
        BY <2>1 DEF Present, NoParts
    <2>4. \A p \in Requests : req'[p].step \notin Locked
        BY <1>b, <2>1
    <2>5. \A p \in Requests : HeldOK(p)'
        BY <2>4 DEF HeldOK, Locked, Steps
    <2> QED
        BY <2>1, <2>2, <2>3, <2>5 DEF StorageOK, FileOK, RowOK
<1>13. ASSUME PurgeSelect PROVE StorageOK'
    BY <1>13, <1>u DEF PurgeSelect
<1>14. ASSUME PurgeList PROVE StorageOK'
    BY <1>14, <1>u DEF PurgeList
<1>15. ASSUME NEW f \in Files, PurgeFile(f) PROVE StorageOK'
    BY <1>15, <1>u DEF PurgeFile
<1>16. ASSUME PurgeRows PROVE StorageOK'
    BY <1>16, <1>u DEF PurgeRows
<1>17. ASSUME PurgeSession PROVE StorageOK'
    BY <1>17, <1>u DEF PurgeSession
<1>18. ASSUME Age PROVE StorageOK'
    <2>1. parts' = parts /\ files' = files
        BY <1>18 DEF Age
    <2>2. \A p \in Requests : \/ req'[p] = req[p]
                              \/ /\ req[p].step \notin Touching \ {"adding"}
                                 /\ req'[p].step \notin Touching
        BY <1>18, <1>b, <1>u DEF Age, Idle, ReqType, Touching
    <2> QED
        BY <1>q, <2>1, <2>2
<1>19. ASSUME NEW r \in Requests, Break(r) PROVE StorageOK'
    <2>1. parts' = parts /\ files' = files
        BY <1>19 DEF Break
    <2>2. \A p \in Requests : \/ req'[p] = req[p]
                              \/ /\ req[p].step \notin Touching \ {"adding"}
                                 /\ req'[p].step \notin Touching
        BY <1>19, <1>b, <1>u DEF Break, End, Idle, Idle, ReqType, Touching
    <2> QED
        BY <1>q, <2>1, <2>2
<1>20. ASSUME PurgeBreak PROVE StorageOK'
    BY <1>20, <1>u DEF PurgeBreak
<1>21. ASSUME UNCHANGED vars PROVE StorageOK'
    BY <1>21, <1>b, <1>q DEF vars, Touching
<1> QED
    BY ONLY [Next]_vars, <1>1, <1>2, <1>3, <1>4, <1>5, <1>6, <1>7, <1>8, <1>9, <1>10, <1>11,
            <1>12, <1>13, <1>14, <1>15, <1>16, <1>17, <1>18, <1>19, <1>20, <1>21
       DEF Next, Continue, PurgeContinue

-----------------------------------------------------------------------------

(* No request comes before the start.                                        *)
NoRequestYet == status = "ABSENT" => \A r \in Requests : req[r] = Idle

(* A request begins on a PENDING session, and no session becomes ABSENT.     *)
LEMMA NoRequestStep == ASSUME Shape, NoRequestYet, [Next]_vars PROVE NoRequestYet'
<1> USE DEF NoRequestYet
<1>b. req \in [Requests -> ReqType]
    BY DEF Shape, ReqsOK
<1>1. ASSUME StartUpload PROVE NoRequestYet'
    BY <1>1, <1>b DEF StartUpload, Idle
<1>2. ASSUME NEW r \in Requests, NEW i \in Index, NEW size \in Sizes, StoreBegin(r, i, size)
      PROVE  NoRequestYet'
    BY <1>2, <1>b DEF StoreBegin, Idle
<1>3. ASSUME NEW r \in Requests, StoreLock(r) PROVE NoRequestYet'
    BY <1>3, <1>b DEF StoreLock, End, Idle, Idle
<1>4. ASSUME NEW r \in Requests, StoreFile(r) PROVE NoRequestYet'
    BY <1>4, <1>b DEF StoreFile, Idle
<1>5. ASSUME NEW r \in Requests, StoreCommit(r) PROVE NoRequestYet'
    <2>1. status' = status /\ req[r] # Idle
        BY <1>5 DEF StoreCommit, Idle
    <2> QED
        BY <2>1
<1>6. ASSUME NEW r \in Requests, CompleteCheck(r) PROVE NoRequestYet'
    BY <1>6, <1>b DEF CompleteCheck, Go, Idle
<1>7. ASSUME NEW r \in Requests, CompleteClaim(r) PROVE NoRequestYet'
    BY <1>7, <1>b DEF CompleteClaim, Go, End, Idle, Idle
<1>8. ASSUME NEW r \in Requests, CompleteList(r) PROVE NoRequestYet'
    BY <1>8, <1>b DEF CompleteList, Idle
<1>9. ASSUME NEW r \in Requests, Assemble(r) PROVE NoRequestYet'
    BY <1>9, <1>b DEF Assemble, End, Idle, Idle
<1>10. ASSUME NEW r \in Requests, CompleteFailed(r) PROVE NoRequestYet'
    BY <1>10, <1>b DEF CompleteFailed, End, Idle, Idle
<1>11. ASSUME NEW r \in Requests, CompleteClean(r) PROVE NoRequestYet'
    BY <1>11, <1>b DEF CompleteClean, Go, Idle
<1>12. ASSUME NEW r \in Requests, CompleteCommit(r) PROVE NoRequestYet'
    BY <1>12, <1>b DEF CompleteCommit, End, Idle, Idle
<1>13. ASSUME PurgeSelect PROVE NoRequestYet'
    BY <1>13, <1>b DEF PurgeSelect, Idle
<1>14. ASSUME PurgeList PROVE NoRequestYet'
    BY <1>14, <1>b DEF PurgeList, Idle
<1>15. ASSUME NEW f \in Files, PurgeFile(f) PROVE NoRequestYet'
    BY <1>15, <1>b DEF PurgeFile, Idle
<1>16. ASSUME PurgeRows PROVE NoRequestYet'
    BY <1>16, <1>b DEF PurgeRows, Idle
<1>17. ASSUME PurgeSession PROVE NoRequestYet'
    BY <1>17, <1>b DEF PurgeSession, Idle
<1>18. ASSUME Age PROVE NoRequestYet'
    BY <1>18, <1>b DEF Age, Idle
<1>19. ASSUME NEW r \in Requests, Break(r) PROVE NoRequestYet'
    BY <1>19, <1>b DEF Break, End, Idle, Idle
<1>20. ASSUME PurgeBreak PROVE NoRequestYet'
    BY <1>20, <1>b DEF PurgeBreak, Idle
<1>21. ASSUME UNCHANGED vars PROVE NoRequestYet'
    BY <1>21, <1>b DEF vars, Idle
<1> QED
    BY ONLY [Next]_vars, <1>1, <1>2, <1>3, <1>4, <1>5, <1>6, <1>7, <1>8, <1>9, <1>10, <1>11,
            <1>12, <1>13, <1>14, <1>15, <1>16, <1>17, <1>18, <1>19, <1>20, <1>21
       DEF Next, Continue, PurgeContinue

(* What a completing request has seen is still there: the parts are counted, *)
(* claimed, listed and read, and nothing takes one away meanwhile.           *)
WholeOK(r) ==
    LET full == ~req[r].overtaken => \A i \in Index : parts[i].size = "full"
    IN  /\ req[r].step = "checked" /\ status = "PENDING" => Present = Index /\ full
        /\ req[r].step \in {"claimed", "listed"} => Present = Index /\ full
        /\ req[r].step = "listed" => req[r].rows = {<<i, parts[i].file>> : i \in Index}
        /\ req[r].step \in {"assembled", "cleaned"} =>
              /\ {row[1] : row \in req[r].got} = Index
              /\ ~tainted /\ ~req[r].overtaken => \A row \in req[r].got : row[2] = "full"

WholeKept == ~selected => \A r \in Requests : WholeOK(r)

(* The steps of a completing request.                                        *)
Asking == {"checked", "claimed", "listed", "assembled", "cleaned"}

(* A part is only added or replaced while the session is PENDING, which marks *)
(* those who have checked already, and never while somebody is past the claim. *)
LEMMA WholeStep ==
    ASSUME Shape, Unpurged, NoRequestYet, StorageKept, WholeKept, [Next]_vars
    PROVE  WholeKept'
<1> SUFFICES ASSUME ~selected', NEW p \in Requests PROVE WholeOK(p)'
    BY DEF WholeKept
<1>h. tainted => tainted'
    BY HistoryStep
<1>u. ~selected /\ purge.step = "rest"
    BY HistoryStep DEF Unpurged
<1>w. WholeOK(p)
    BY <1>u DEF WholeKept
<1>s. StorageKept
    OBVIOUS
<1>c. NoRequestYet /\ Idle.step \notin Asking
    BY DEF Idle, Asking
<1>b. /\ req \in [Requests -> ReqType] /\ NULL \notin Requests
      /\ \A r \in Requests : req[r].step \in Locked <=> lock = r
    BY UploadAssumption DEF Shape, ReqsOK
<1>d. /\ parts \in [Index -> [file : Files, size : Sizes] \cup {NoPart}]
      /\ \A r \in Requests : req[r].step \in {"waiting", "adding", "replacing", "added", "replaced"} =>
            req[r].index \in Index /\ req[r].size \in Sizes
    BY DEF Shape, ReqsOK, ReqOK, PartsOK
<1>k. ASSUME parts' = parts, status' = status, tainted => tainted',
             req'[p] = req[p] \/ req'[p].step \notin Asking
      PROVE  WholeOK(p)'
    <2>1. Present' = Present
        BY <1>k DEF Present
    <2> QED
        BY <1>k, <1>w, <2>1 DEF WholeOK, Asking
<1>1. ASSUME StartUpload PROVE WholeOK(p)'
    <2>1. req[p].step \notin Asking /\ req' = req
        BY <1>1, <1>c DEF StartUpload, NoRequestYet
    <2> QED
        BY <2>1 DEF WholeOK, Asking
<1>2. ASSUME NEW r \in Requests, NEW i \in Index, NEW size \in Sizes, StoreBegin(r, i, size)
      PROVE  WholeOK(p)'
    <2>1. parts' = parts /\ status' = status /\ tainted' = tainted
        BY <1>2 DEF StoreBegin
    <2>2. req'[p] = req[p] \/ req'[p].step \notin Asking
        BY <1>2, <1>b DEF StoreBegin, Idle, Asking, ReqType
    <2> QED
        BY <1>k, <2>1, <2>2
<1>3. ASSUME NEW r \in Requests, StoreLock(r) PROVE WholeOK(p)'
    <2>1. parts' = parts /\ status' = status /\ tainted' = tainted
        BY <1>3 DEF StoreLock
    <2>2. req'[p] = req[p] \/ req'[p].step \notin Asking
        BY <1>3, <1>b DEF StoreLock, End, Idle, Idle, Asking, ReqType
    <2> QED
        BY <1>k, <2>1, <2>2
<1>4. ASSUME NEW r \in Requests, StoreFile(r) PROVE WholeOK(p)'
    <2>1. parts' = parts /\ status' = status /\ tainted' = tainted
        BY <1>4 DEF StoreFile
    <2>2. req'[p] = req[p] \/ req'[p].step \notin Asking
        BY <1>4, <1>b DEF StoreFile, Idle, Asking, ReqType
    <2> QED
        BY <1>k, <2>1, <2>2
<1>5. ASSUME NEW r \in Requests, StoreCommit(r) PROVE WholeOK(p)'
    <2>1. req[r].step \in Locked /\ lock = r /\ status' = status
        BY <1>5, <1>b DEF StoreCommit, Locked, Steps
    <2>2. CASE p = r
        BY <1>5, <1>b, <2>2 DEF StoreCommit, End, Idle, WholeOK
    <2>3. CASE p # r
        <3>1. req[p].step \notin Locked
            BY <1>b, <2>1, <2>3
        <3>2. CASE UNCHANGED parts
            <4>1. req' = [req EXCEPT ![r] = Idle] \/ req'[p] = [req[p] EXCEPT !.overtaken = @ \/ req[p].step = "checked"]
                BY <1>5, <2>3 DEF StoreCommit, End
            <4>2. req'[p].step = req[p].step /\ (req[p].overtaken => req'[p].overtaken)
                BY <1>b, <2>3, <4>1 DEF ReqType
            <4> QED
                BY <1>w, <2>1, <3>1, <3>2, <4>2 DEF WholeOK, Locked, Steps, Present
        <3>3. CASE parts' # parts
            <4>1. /\ parts' = [parts EXCEPT ![req[r].index] = [file |-> req[r].file, size |-> req[r].size]]
                  /\ req'[p] = [req[p] EXCEPT !.overtaken = @ \/ req[p].step = "checked"]
                BY <1>5, <2>3, <3>3 DEF StoreCommit
            <4>2. req'[p].step = req[p].step /\ (req[p].step = "checked" => req'[p].overtaken)
                BY <1>b, <4>1 DEF ReqType
            <4>3. req[r].size # "none" /\ req[r].index \in Index
                BY <1>5, <1>d DEF StoreCommit, Sizes
            <4>4. Present \subseteq Present'
                BY <1>d, <4>1, <4>3, UploadAssumption DEF Present, NoPart
            <4>5. Present' \subseteq Index
                BY DEF Present
            <4> QED
                BY <1>w, <2>1, <3>1, <4>2, <4>4, <4>5 DEF WholeOK, Locked, Steps
        <3> QED
            BY <3>2, <3>3
    <2> QED
        BY <2>2, <2>3
<1>6. ASSUME NEW r \in Requests, CompleteCheck(r) PROVE WholeOK(p)'
    <2>1. parts' = parts /\ status' = status /\ tainted' = tainted
        BY <1>6 DEF CompleteCheck
    <2>2. CASE p = r
        <3>1. req'[p].step = "checked" /\ Present = Index /\ \A i \in Index : parts[i].size = "full"
            BY <1>6, <1>b, <2>2 DEF CompleteCheck, Go, ReqType
        <3> QED
            BY <2>1, <3>1 DEF WholeOK, Present
    <2>3. CASE p # r
        BY <1>6, <1>b, <1>k, <2>1, <2>3 DEF CompleteCheck, Go
    <2> QED
        BY <2>2, <2>3
<1>7. ASSUME NEW r \in Requests, CompleteClaim(r) PROVE WholeOK(p)'
    <2>1. parts' = parts /\ status' = status /\ tainted' = tainted
        BY <1>7 DEF CompleteClaim
    <2>2. CASE p = r /\ status = "PENDING"
        <3>1. req[p].step = "checked" /\ req'[p].step = "claimed" /\ req'[p].overtaken = req[p].overtaken
            BY <1>7, <1>b, <2>2 DEF CompleteClaim, Go, ReqType
        <3> QED
            BY <1>w, <2>1, <2>2, <3>1 DEF WholeOK, Present
    <2>3. CASE ~(p = r /\ status = "PENDING")
        <3>1. req'[p] = req[p] \/ req'[p].step \notin Asking
            BY <1>7, <1>b, <2>3 DEF CompleteClaim, Go, End, Idle, Asking
        <3> QED
            BY <1>k, <2>1, <3>1
    <2> QED
        BY <2>2, <2>3
<1>8. ASSUME NEW r \in Requests, CompleteList(r) PROVE WholeOK(p)'
    <2>1. parts' = parts /\ status' = status /\ tainted' = tainted
        BY <1>8 DEF CompleteList
    <2>2. CASE p = r
        <3>1. /\ req[p].step = "claimed" /\ req'[p].step = "listed"
              /\ req'[p].overtaken = req[p].overtaken
              /\ req'[p].rows = {<<i, parts[i].file>> : i \in Present}
            BY <1>8, <1>b, <2>2 DEF CompleteList, ReqType
        <3> QED
            BY <1>w, <2>1, <3>1 DEF WholeOK, Present
    <2>3. CASE p # r
        BY <1>8, <1>b, <1>k, <2>1, <2>3 DEF CompleteList
    <2> QED
        BY <2>2, <2>3
<1>9. ASSUME NEW r \in Requests, Assemble(r) PROVE WholeOK(p)'
    <2>1. parts' = parts /\ status' = status /\ tainted' = tainted
        BY <1>9 DEF Assemble
    <2>2. CASE p = r /\ \A row \in req[r].rows : files[row[2]] # "none"
        <3>1. /\ req[p].step = "listed" /\ req'[p].step = "assembled"
              /\ req'[p].overtaken = req[p].overtaken
              /\ req'[p].got = {<<row[1], files[row[2]]>> : row \in req[p].rows}
            BY <1>9, <1>b, <2>2 DEF Assemble, ReqType
        <3>2. /\ Present = Index /\ req[p].rows = {<<i, parts[i].file>> : i \in Index}
              /\ ~req[p].overtaken => \A i \in Index : parts[i].size = "full"
            BY <1>w, <3>1 DEF WholeOK
        <3>3. /\ \A i \in Index : <<i, files[parts[i].file]>> \in req'[p].got
              /\ \A x \in req'[p].got : \E i \in Index : x = <<i, files[parts[i].file]>>
            <4>1. ASSUME NEW i \in Index PROVE <<i, files[parts[i].file]>> \in req'[p].got
                <5> DEFINE row == <<i, parts[i].file>>
                <5>1. row \in req[p].rows /\ row[1] = i /\ row[2] = parts[i].file
                    BY <3>2
                <5>2. <<row[1], files[row[2]]>> \in req'[p].got
                    BY <3>1, <5>1
                <5> QED
                    BY <5>1, <5>2
            <4>2. ASSUME NEW x \in req'[p].got PROVE \E i \in Index : x = <<i, files[parts[i].file]>>
                <5>1. PICK row \in req[p].rows : x = <<row[1], files[row[2]]>>
                    BY <3>1
                <5>2. PICK i \in Index : row = <<i, parts[i].file>>
                    BY <3>2
                <5> QED
                    BY <5>1, <5>2
            <4> QED
                BY <4>1, <4>2
        <3>4. {row[1] : row \in req'[p].got} = Index
            <4>1. ASSUME NEW i \in Index PROVE \E row \in req'[p].got : row[1] = i
                <5>1. <<i, files[parts[i].file]>>[1] = i
                    OBVIOUS
                <5> QED
                    BY <3>3, <5>1
            <4>2. ASSUME NEW row \in req'[p].got PROVE row[1] \in Index
                <5>1. PICK i \in Index : row = <<i, files[parts[i].file]>>
                    BY <3>3
                <5> QED
                    BY <5>1
            <4> QED
                BY <4>1, <4>2
        <3>5. ASSUME ~tainted PROVE \A i \in Index : files[parts[i].file] = parts[i].size
            <4>1. lock = p
                BY <3>1, <1>b DEF Locked, Steps
            <4> QED
                BY <1>s, <1>u, <3>1, <3>2, <3>5, <4>1 DEF StorageKept, StorageOK, RowOK, Replaces
        <3>6. ~tainted /\ ~req'[p].overtaken => \A row \in req'[p].got : row[2] = "full"
            BY <3>1, <3>2, <3>3, <3>5
        <3> QED
            BY <2>1, <3>1, <3>4, <3>6 DEF WholeOK
    <2>3. CASE ~(p = r /\ \A row \in req[r].rows : files[row[2]] # "none")
        <3>1. req'[p] = req[p] \/ req'[p].step \notin Asking
            BY <1>9, <1>b, <2>3 DEF Assemble, End, Idle, Asking
        <3> QED
            BY <1>k, <2>1, <3>1
    <2> QED
        BY <2>2, <2>3
<1>10. ASSUME NEW r \in Requests, CompleteFailed(r) PROVE WholeOK(p)'
    <2>1. req[r].step \in Locked /\ lock = r /\ status' # "PENDING"
        BY <1>10, <1>b DEF CompleteFailed, Locked, Steps
    <2>2. CASE p = r
        BY <1>10, <1>b, <2>2 DEF CompleteFailed, End, Idle, WholeOK
    <2>3. CASE p # r
        <3>1. req[p].step \notin Locked /\ req'[p] = req[p]
            BY <1>10, <1>b, <2>1, <2>3 DEF CompleteFailed, End
        <3> QED
            BY <2>1, <3>1 DEF WholeOK, Locked, Steps
    <2> QED
        BY <2>2, <2>3
<1>11. ASSUME NEW r \in Requests, CompleteClean(r) PROVE WholeOK(p)'
    <2>1. parts' = parts /\ status' = status
        BY <1>11 DEF CompleteClean
    <2>2. CASE p = r
        <3>1. /\ req[p].step = "assembled" /\ req'[p].step = "cleaned"
              /\ req'[p].overtaken = req[p].overtaken /\ req'[p].got = req[p].got
            BY <1>11, <1>b, <2>2 DEF CompleteClean, Go, ReqType
        <3> QED
            BY <1>w, <1>h, <3>1 DEF WholeOK
    <2>3. CASE p # r
        <3>1. req'[p] = req[p]
            BY <1>11, <1>b, <2>3 DEF CompleteClean, Go
        <3> QED
            BY <1>k, <1>h, <2>1, <3>1
    <2> QED
        BY <2>2, <2>3
<1>12. ASSUME NEW r \in Requests, CompleteCommit(r) PROVE WholeOK(p)'
    <2>1. req[r].step \in Locked /\ lock = r /\ status' # "PENDING"
        BY <1>12, <1>b DEF CompleteCommit, Locked, Steps
    <2>2. CASE p = r
        BY <1>12, <1>b, <2>2 DEF CompleteCommit, End, Idle, WholeOK
    <2>3. CASE p # r
        <3>1. req[p].step \notin Locked /\ req'[p] = req[p]
            BY <1>12, <1>b, <2>1, <2>3 DEF CompleteCommit, End
        <3> QED
            BY <2>1, <3>1 DEF WholeOK, Locked, Steps
    <2> QED
        BY <2>2, <2>3
<1>13. ASSUME PurgeSelect PROVE WholeOK(p)'
    BY <1>13, <1>u DEF PurgeSelect
<1>14. ASSUME PurgeList PROVE WholeOK(p)'
    BY <1>14, <1>u DEF PurgeList
<1>15. ASSUME NEW f \in Files, PurgeFile(f) PROVE WholeOK(p)'
    BY <1>15, <1>u DEF PurgeFile
<1>16. ASSUME PurgeRows PROVE WholeOK(p)'
    BY <1>16, <1>u DEF PurgeRows
<1>17. ASSUME PurgeSession PROVE WholeOK(p)'
    BY <1>17, <1>u DEF PurgeSession
<1>18. ASSUME Age PROVE WholeOK(p)'
    <2>1. parts' = parts /\ status' = status /\ tainted' = tainted
        BY <1>18 DEF Age
    <2>2. req'[p] = req[p] \/ req'[p].step \notin Asking
        BY <1>18, <1>b DEF Age, Idle, Asking, ReqType
    <2> QED
        BY <1>k, <2>1, <2>2
<1>19. ASSUME NEW r \in Requests, Break(r) PROVE WholeOK(p)'
    <2>1. parts' = parts /\ status' = status
        BY <1>19 DEF Break
    <2>2. req'[p] = req[p] \/ req'[p].step \notin Asking
        BY <1>19, <1>b DEF Break, End, Idle, Asking, ReqType
    <2> QED
        BY <1>k, <1>h, <2>1, <2>2
<1>20. ASSUME PurgeBreak PROVE WholeOK(p)'
    BY <1>20, <1>u DEF PurgeBreak
<1>21. ASSUME UNCHANGED vars PROVE WholeOK(p)'
    BY <1>21, <1>b, <1>k DEF vars, Asking
<1> QED
    BY ONLY [Next]_vars, <1>1, <1>2, <1>3, <1>4, <1>5, <1>6, <1>7, <1>8, <1>9, <1>10, <1>11,
            <1>12, <1>13, <1>14, <1>15, <1>16, <1>17, <1>18, <1>19, <1>20, <1>21
       DEF Next, Continue, PurgeContinue

-----------------------------------------------------------------------------

(* The inductive invariant.                                                  *)
Inv ==
    /\ Shape
    /\ ClaimPending
    /\ ImportedOnce
    /\ Unpurged
    /\ NoRequestYet
    /\ StorageKept
    /\ WholeKept

(* It holds at the start.                                                    *)
LEMMA InitInv == Init => Inv
<1> SUFFICES ASSUME Init PROVE Inv
    OBVIOUS
<1>1. Shape
    <2>1. Idle \in ReqType /\ ReqOK(Idle) /\ Idle.step \notin Locked
        BY DEF Idle, ReqOK, ReqType, Steps, Locked
    <2>2. ReqsOK
        BY <2>1, UploadAssumption DEF Init, ReqsOK
    <2>3. PartsOK
        BY DEF Init, PartsOK, NoParts, Present
    <2>4. DataOK
        <3>1. 0 \in 0..MaxCalls /\ 0 \in 0..MaxFaults
            BY UploadAssumption
        <3>2. files \in [Files -> Sizes \cup {"none"}] /\ purge = [step |-> "rest", todo |-> {}]
            BY DEF Init, AtRest
        <3>3. /\ status = "ABSENT" /\ stale = FALSE /\ imported = 0 /\ calls = 0 /\ faults = 0
              /\ selected = FALSE /\ tainted = FALSE
            BY DEF Init
        <3>4. purge \in [step : {"rest", "selected", "files", "rows"}, todo : SUBSET Files]
            BY <3>2
        <3> QED
            BY ONLY <3>1, <3>2, <3>3, <3>4 DEF DataOK
    <2> QED
        BY <2>2, <2>3, <2>4 DEF Shape
<1>2. StorageKept /\ WholeKept
    BY DEF Init, StorageKept, StorageOK, HeldOK, RowOK, FileOK, Present, NoParts, Idle,
           WholeKept, WholeOK
<1> QED
    BY <1>1, <1>2 DEF Init, Inv, ClaimPending, Completing, ImportedOnce, Unpurged, NoRequestYet,
                      Idle, AtRest

(* Every step keeps it.                                                      *)
LEMMA NextInv == Inv /\ [Next]_vars => Inv'
BY ShapeStep, ClaimStep, ImportStep, UnpurgedStep, NoRequestStep, StorageStep, WholeStep DEF Inv

(* So it always holds.                                                       *)
LEMMA Invariance == Spec => []Inv
<1>1. Init => Inv
    BY InitInv
<1>2. Inv /\ [Next]_vars => Inv'
    BY NextInv
<1> QED
    BY <1>1, <1>2, PTL DEF Spec

(* Session, parts, storage, requests and purge keep their types, and the row *)
(* lock is held exactly by a request that is past taking it.                 *)
THEOREM UploadTypeCorrect == Spec => []TypeOK
<1>1. Inv => TypeOK
    BY DEF Inv, Shape, ReqsOK, ReqOK, ReqType, PartsOK, DataOK, TypeOK
<1> QED
    BY <1>1, Invariance, PTL

(* However many requests complete a session, break off or race the purge, its *)
(* file is imported at most once, and a COMPLETED session exactly once.      *)
THEOREM NeverImportedTwice == Spec => []ImportedOnce
<1>1. Inv => ImportedOnce
    BY DEF Inv
<1> QED
    BY <1>1, Invariance, PTL

(* Until a purge or a fault, rows and storage agree between any two steps of *)
(* any number of requests.                                                   *)
THEOREM StorageAgrees == Spec => []RowsMatchStorage
<1>1. Inv => RowsMatchStorage
    BY DEF Inv, StorageKept, StorageOK, RowOK, FileOK, RowsMatchStorage, Present
<1> QED
    BY <1>1, Invariance, PTL

(* Unless a purge has selected the session, what is imported has every part  *)
(* of it; and it has the declared size, if moreover no part was stored       *)
(* between check and claim and nothing broke off over the storage.           *)
THEOREM ImportedWholeUnlessPurged == Spec => []ImportedWhole
<1>1. Inv => ImportedWhole
    BY DEF Inv, WholeKept, WholeOK, ImportedWhole
<1> QED
    BY <1>1, Invariance, PTL

=============================================================================
