------------------------- MODULE WorkerUploadsProofs -------------------------
(***************************************************************************)
(* Proofs about WorkerUploads, for every number of uploads, batches, slots *)
(* and crashes, and every batch size and cap.                              *)
(*                                                                         *)
(* The argument is who owns a row.  An upload that no sweep took from a    *)
(* live slot is held by at most one slot, and only while it is PROCESSING; *)
(* so the slot that commits it is the first to do so.  A slot that deletes *)
(* a staging file does so for an upload that is settled, and a settled     *)
(* upload never becomes anything else.                                     *)
(***************************************************************************)
EXTENDS WorkerUploads, TLAPS

(* What a slot may remember between two steps.                               *)
SlotOK(s) ==
    /\ s \in [step : Steps, todo : SUBSET Uploads, row : Rows \cup {NULL}, claimed : Nat]
    /\ s.step \in {"importing", "failing", "cleanup"} => s.row \in Uploads
    /\ s.step = "bootstrapping" => s.row \in Batches
    /\ s.step \in {"idle", "documents", "sections"} => s.row = NULL
    /\ s.step \in {"idle", "sections", "bootstrapping"} => s.todo = {}
    /\ s.row \notin s.todo

Shape == TypeOK /\ \A w \in Slots : SlotOK(slot[w])

(* Only the file of a settled upload is ever deleted.                        *)
CleanUpSettled ==
    \A w \in Slots : slot[w].step = "cleanup" => Settled(slot[w].row)

(* An upload that was not overrun has one owner, and only in process.        *)
OneOwner ==
    \A u \in Uploads \ overrun : \A w \in Slots : u \in Holds(w) =>
        /\ status[u] = "PROCESSING"
        /\ \A v \in Slots \ {w} : u \notin Holds(v)

Inv ==
    /\ Shape
    /\ CleanUpSettled
    /\ FileOutlivesUpload
    /\ OneOwner
    /\ StatusTellsImport

-----------------------------------------------------------------------------

(* A step keeps the types, and the shape of what a slot remembers.           *)
LEMMA ShapeStep == ASSUME Shape, [Next]_vars PROVE Shape'
<1> USE QueueAssumption DEF Rows, Shape, TypeOK, SlotOK, Steps
<1>1. ASSUME NEW u \in Uploads, PushUpload(u) PROVE Shape'
    BY <1>1 DEF PushUpload
<1>2. ASSUME NEW b \in Batches, PushBatch(b) PROVE Shape'
    BY <1>2 DEF PushBatch
<1>3. ASSUME NEW w \in Slots, ClaimUploads(w) PROVE Shape'
    <2>1. PICK S \in SUBSET Pending(Uploads) :
              Start(S) /\ slot' = [slot EXCEPT ![w].step = "documents", ![w].todo = S]
        BY <1>3 DEF ClaimUploads
    <2>2. S \subseteq Uploads /\ slot[w].step = "idle"
        BY <1>3 DEF ClaimUploads, Pending
    <2>3. slot'[w] = [step |-> "documents", todo |-> S, row |-> NULL, claimed |-> slot[w].claimed]
        BY ONLY Shape, <2>1, <2>2, w \in Slots DEF Shape, TypeOK, SlotOK
    <2>3a. \A v \in Slots \ {w} : slot'[v] = slot[v]
        BY <2>1
    <2>3b. \A v \in Slots : SlotOK(slot'[v])
        BY <2>2, <2>3, <2>3a
    <2>4. status' \in [Rows -> {"ABSENT", "PENDING", "PROCESSING", "COMPLETED", "FAILED"}]
          /\ stale' \in [Rows -> BOOLEAN]
        BY <2>1 DEF Start
    <2> QED
        BY <1>3, <2>1, <2>3b, <2>4 DEF ClaimUploads
<1>4. ASSUME NEW w \in Slots, NEW u \in Uploads, OpenUpload(w, u) PROVE Shape'
    BY <1>4 DEF OpenUpload
<1>5. ASSUME NEW w \in Slots, CommitImport(w) PROVE Shape'
    BY <1>5 DEF CommitImport, Settle, ToCleanUp
<1>6. ASSUME NEW w \in Slots, FailUpload(w) PROVE Shape'
    BY <1>6 DEF FailUpload, Settle, ToCleanUp
<1>7. ASSUME NEW w \in Slots, CleanUp(w) PROVE Shape'
    BY <1>7 DEF CleanUp
<1>8. ASSUME NEW w \in Slots, EndDocuments(w) PROVE Shape'
    BY <1>8 DEF EndDocuments, Idle
<1>9. ASSUME NEW w \in Slots, NEW b \in Batches, ClaimBatch(w, b) PROVE Shape'
    <2>1. \A v \in Slots : SlotOK(slot'[v])
        BY <1>9 DEF ClaimBatch, Pending
    <2>2. status' \in [Rows -> {"ABSENT", "PENDING", "PROCESSING", "COMPLETED", "FAILED"}]
          /\ stale' \in [Rows -> BOOLEAN]
        BY <1>9 DEF ClaimBatch, Start
    <2> QED
        BY <1>9, <2>1, <2>2 DEF ClaimBatch
<1>10. ASSUME NEW w \in Slots, FinishBatch(w) PROVE Shape'
    <2>1. slot[w].step = "bootstrapping" /\ slot[w].row \in Batches
        BY <1>10 DEF FinishBatch
    <2>2. slot' = [slot EXCEPT ![w] = [slot[w] EXCEPT !.step = "sections", !.row = NULL]]
        BY <1>10 DEF FinishBatch, Settle
    <2>3. SlotOK([slot[w] EXCEPT !.step = "sections", !.row = NULL])
        BY <2>1
    <2>4. \A v \in Slots : SlotOK(slot'[v])
        BY ONLY Shape, <2>2, <2>3 DEF Shape, TypeOK
    <2> QED
        BY <1>10, <2>1, <2>4 DEF FinishBatch, Settle
<1>11. ASSUME NEW w \in Slots, EndSections(w) PROVE Shape'
    BY <1>11 DEF EndSections, Idle
<1>12. ASSUME NEW w \in Slots, Sweep(w) PROVE Shape'
    BY <1>12 DEF Sweep
<1>13. ASSUME NEW w \in Slots, Crash(w) PROVE Shape'
    BY <1>13 DEF Crash, Idle
<1>14. ASSUME NEW r \in Rows, Age(r) PROVE Shape'
    BY <1>14 DEF Age
<1>15. ASSUME UNCHANGED vars PROVE Shape'
    BY <1>15 DEF vars
<1> QED
    BY ONLY [Next]_vars, <1>1, <1>2, <1>3, <1>4, <1>5, <1>6, <1>7, <1>8, <1>9,
            <1>10, <1>11, <1>12, <1>13, <1>14, <1>15 DEF Next, Continue

-----------------------------------------------------------------------------

(* A settled upload stays settled: claims take PENDING rows, the sweep takes *)
(* rows in process, and only batches are pushed again.                       *)
LEMMA SettledStays ==
    ASSUME Shape, [Next]_vars, NEW u \in Uploads, Settled(u)
    PROVE  Settled(u)'
<1> USE QueueAssumption DEF Rows, Shape, TypeOK, Settled
<1>1. ASSUME NEW x \in Uploads, PushUpload(x) PROVE Settled(u)'
    BY <1>1 DEF PushUpload
<1>2. ASSUME NEW b \in Batches, PushBatch(b) PROVE Settled(u)'
    BY <1>2 DEF PushBatch
<1>3. ASSUME NEW w \in Slots, ClaimUploads(w) PROVE Settled(u)'
    BY <1>3 DEF ClaimUploads, Start, Pending
<1>4. ASSUME NEW w \in Slots, NEW x \in Uploads, OpenUpload(w, x) PROVE Settled(u)'
    BY <1>4 DEF OpenUpload
<1>5. ASSUME NEW w \in Slots, CommitImport(w) PROVE Settled(u)'
    BY <1>5 DEF CommitImport, Settle
<1>6. ASSUME NEW w \in Slots, FailUpload(w) PROVE Settled(u)'
    BY <1>6 DEF FailUpload, Settle
<1>7. ASSUME NEW w \in Slots, CleanUp(w) PROVE Settled(u)'
    BY <1>7 DEF CleanUp
<1>8. ASSUME NEW w \in Slots, EndDocuments(w) PROVE Settled(u)'
    BY <1>8 DEF EndDocuments
<1>9. ASSUME NEW w \in Slots, NEW b \in Batches, ClaimBatch(w, b) PROVE Settled(u)'
    BY <1>9 DEF ClaimBatch, Start, Pending
<1>10. ASSUME NEW w \in Slots, FinishBatch(w) PROVE Settled(u)'
    BY <1>10 DEF FinishBatch, Settle
<1>11. ASSUME NEW w \in Slots, EndSections(w) PROVE Settled(u)'
    BY <1>11 DEF EndSections
<1>12. ASSUME NEW w \in Slots, Sweep(w) PROVE Settled(u)'
    BY <1>12 DEF Sweep, Stalled
<1>13. ASSUME NEW w \in Slots, Crash(w) PROVE Settled(u)'
    BY <1>13 DEF Crash
<1>14. ASSUME NEW r \in Rows, Age(r) PROVE Settled(u)'
    BY <1>14 DEF Age
<1>15. ASSUME UNCHANGED vars PROVE Settled(u)'
    BY <1>15 DEF vars
<1> QED
    BY ONLY [Next]_vars, <1>1, <1>2, <1>3, <1>4, <1>5, <1>6, <1>7, <1>8, <1>9,
            <1>10, <1>11, <1>12, <1>13, <1>14, <1>15 DEF Next, Continue

(* A slot comes to "cleanup" when it settles the upload, and keeps its row.  *)
LEMMA CleanUpStep ==
    ASSUME Shape, CleanUpSettled, [Next]_vars
    PROVE  CleanUpSettled'
<1> SUFFICES ASSUME NEW v \in Slots, slot'[v].step = "cleanup"
             PROVE  Settled(slot[v].row)' 
    BY DEF CleanUpSettled
<1> DEFINE Kept == slot'[v].row = slot[v].row /\ slot[v].step = "cleanup"
<1> DEFINE Came == slot'[v].row = slot[v].row /\ slot[v].row \in Uploads
                     /\ status'[slot[v].row] \in {"COMPLETED", "FAILED"}
<1>a. slot \in [Slots -> [step : Steps, todo : SUBSET Uploads, row : Rows \cup {NULL}, claimed : Nat]]
      /\ status \in [Rows -> {"ABSENT", "PENDING", "PROCESSING", "COMPLETED", "FAILED"}]
      /\ (slot[v].step \in {"importing", "failing", "cleanup"} => slot[v].row \in Uploads)
    BY DEF Shape, TypeOK
<1>1. ASSUME NEW x \in Uploads, PushUpload(x) PROVE Kept
    BY <1>1 DEF PushUpload
<1>2. ASSUME NEW b \in Batches, PushBatch(b) PROVE Kept
    BY <1>2 DEF PushBatch
<1>3. ASSUME NEW w \in Slots, ClaimUploads(w) PROVE Kept
    BY <1>a, <1>3 DEF ClaimUploads
<1>4. ASSUME NEW w \in Slots, NEW x \in Uploads, OpenUpload(w, x) PROVE Kept
    BY <1>a, <1>4 DEF OpenUpload
<1>5. ASSUME NEW w \in Slots, CommitImport(w) PROVE Kept \/ Came
    BY <1>a, <1>5 DEF CommitImport, Settle, ToCleanUp, Rows
<1>6. ASSUME NEW w \in Slots, FailUpload(w) PROVE Kept \/ Came
    BY <1>a, <1>6 DEF FailUpload, Settle, ToCleanUp, Rows
<1>7. ASSUME NEW w \in Slots, CleanUp(w) PROVE Kept
    BY <1>a, <1>7 DEF CleanUp
<1>8. ASSUME NEW w \in Slots, EndDocuments(w) PROVE Kept
    BY <1>a, <1>8 DEF EndDocuments, Idle
<1>9. ASSUME NEW w \in Slots, NEW b \in Batches, ClaimBatch(w, b) PROVE Kept
    BY <1>a, <1>9 DEF ClaimBatch
<1>10. ASSUME NEW w \in Slots, FinishBatch(w) PROVE Kept
    BY <1>a, <1>10 DEF FinishBatch, Settle
<1>11. ASSUME NEW w \in Slots, EndSections(w) PROVE Kept
    BY <1>a, <1>11 DEF EndSections, Idle
<1>12. ASSUME NEW w \in Slots, Sweep(w) PROVE Kept
    BY <1>12 DEF Sweep
<1>13. ASSUME NEW w \in Slots, Crash(w) PROVE Kept
    BY <1>a, <1>13 DEF Crash, Idle
<1>14. ASSUME NEW r \in Rows, Age(r) PROVE Kept
    BY <1>14 DEF Age
<1>15. ASSUME UNCHANGED vars PROVE Kept
    BY <1>15 DEF vars
<1>16. Kept \/ Came
    BY ONLY [Next]_vars, <1>1, <1>2, <1>3, <1>4, <1>5, <1>6, <1>7, <1>8, <1>9,
            <1>10, <1>11, <1>12, <1>13, <1>14, <1>15 DEF Next, Continue
<1>17. CASE Kept
    <2>1. slot[v].row \in Uploads /\ Settled(slot[v].row)
        BY <1>17, <1>a DEF CleanUpSettled
    <2>2. ASSUME NEW u \in Uploads, Settled(u) PROVE Settled(u)'
        BY <2>2, SettledStays
    <2> QED
        BY <1>17, <2>1, <2>2 DEF Settled
<1>18. CASE Came
    BY <1>18 DEF Settled
<1> QED
    BY <1>16, <1>17, <1>18

(* A file disappears only when its upload is settled.                        *)
LEMMA FileStep ==
    ASSUME Shape, CleanUpSettled, FileOutlivesUpload, [Next]_vars
    PROVE  FileOutlivesUpload'
<1> SUFFICES ASSUME NEW u \in Uploads, status'[u] \in {"PENDING", "PROCESSING"}
             PROVE  file'[u]
    BY DEF FileOutlivesUpload
<1> USE QueueAssumption DEF Rows, Shape, TypeOK
<1>0. ~Settled(u)
    BY SettledStays DEF Settled
<1>a. (status[u] \in {"PENDING", "PROCESSING"} => file[u]) /\ status[u] \notin {"COMPLETED", "FAILED"}
    BY <1>0 DEF FileOutlivesUpload, Settled
<1>1. ASSUME NEW x \in Uploads, PushUpload(x) PROVE file'[u]
    BY <1>1, <1>a DEF PushUpload
<1>2. ASSUME NEW b \in Batches, PushBatch(b) PROVE file'[u]
    BY <1>2, <1>a DEF PushBatch
<1>3. ASSUME NEW w \in Slots, ClaimUploads(w) PROVE file'[u]
    BY <1>3, <1>a DEF ClaimUploads, Start, Pending
<1>4. ASSUME NEW w \in Slots, NEW x \in Uploads, OpenUpload(w, x) PROVE file'[u]
    BY <1>4, <1>a DEF OpenUpload
<1>5. ASSUME NEW w \in Slots, CommitImport(w) PROVE file'[u]
    BY <1>5, <1>a DEF CommitImport, Settle
<1>6. ASSUME NEW w \in Slots, FailUpload(w) PROVE file'[u]
    BY <1>6, <1>a DEF FailUpload, Settle
<1>7. ASSUME NEW w \in Slots, CleanUp(w) PROVE file'[u]
    <2>1. slot[w].row # u
        BY <1>7, <1>0 DEF CleanUp, CleanUpSettled
    <2> QED
        BY <1>7, <1>a, <2>1 DEF CleanUp
<1>8. ASSUME NEW w \in Slots, EndDocuments(w) PROVE file'[u]
    BY <1>8, <1>a DEF EndDocuments
<1>9. ASSUME NEW w \in Slots, NEW b \in Batches, ClaimBatch(w, b) PROVE file'[u]
    BY <1>9, <1>a DEF ClaimBatch, Start
<1>10. ASSUME NEW w \in Slots, FinishBatch(w) PROVE file'[u]
    BY <1>10, <1>a DEF FinishBatch, Settle
<1>11. ASSUME NEW w \in Slots, EndSections(w) PROVE file'[u]
    BY <1>11, <1>a DEF EndSections
<1>12. ASSUME NEW w \in Slots, Sweep(w) PROVE file'[u]
    BY <1>12, <1>a DEF Sweep, Stalled
<1>13. ASSUME NEW w \in Slots, Crash(w) PROVE file'[u]
    BY <1>13, <1>a DEF Crash
<1>14. ASSUME NEW r \in Rows, Age(r) PROVE file'[u]
    BY <1>14, <1>a DEF Age
<1>15. ASSUME UNCHANGED vars PROVE file'[u]
    BY <1>15, <1>a DEF vars
<1> QED
    BY ONLY [Next]_vars, <1>1, <1>2, <1>3, <1>4, <1>5, <1>6, <1>7, <1>8, <1>9,
            <1>10, <1>11, <1>12, <1>13, <1>14, <1>15 DEF Next, Continue

(* Ownership: only a claim, of an upload that nobody holds, makes an owner;  *)
(* the owner that settles the upload lets go of it; and the sweep takes an   *)
(* upload that is not overrun from nobody.                                   *)
LEMMA OwnerStep ==
    ASSUME Shape, OneOwner, StatusTellsImport, [Next]_vars
    PROVE  OneOwner' /\ StatusTellsImport'
<1> DEFINE Owned(u) == \A w \in Slots : u \in Holds(w) =>
                          /\ status[u] = "PROCESSING"
                          /\ \A v \in Slots \ {w} : u \notin Holds(v)
           Told(u) == imported[u] = IF status[u] = "COMPLETED" THEN 1 ELSE 0
           Good(u) == Owned(u) /\ Told(u)
<1>0. overrun \subseteq overrun'
    BY DEF Next, Continue, PushUpload, PushBatch, ClaimUploads, OpenUpload, CommitImport,
           FailUpload, Settle, CleanUp, EndDocuments, ClaimBatch, FinishBatch, EndSections,
           Sweep, Crash, Age, vars
<1> SUFFICES ASSUME NEW u \in Uploads, u \notin overrun' PROVE Good(u)'
    BY DEF OneOwner, StatusTellsImport
<1>a. Good(u)
    BY <1>0 DEF OneOwner, StatusTellsImport
<1> DEFINE Shrinks == \A v \in Slots : u \in Holds(v)' => u \in Holds(v)
           Same == status'[u] = status[u] /\ imported'[u] = imported[u]
<1>k. ASSUME Shrinks, Same PROVE Good(u)'
    BY <1>a, <1>k
<1> HIDE DEF Good, Owned, Told, Same, Shrinks
<1>t. /\ slot \in [Slots -> [step : Steps, todo : SUBSET Uploads, row : Rows \cup {NULL}, claimed : Nat]]
      /\ status \in [Rows -> {"ABSENT", "PENDING", "PROCESSING", "COMPLETED", "FAILED"}]
      /\ imported \in [Uploads -> Nat]
      /\ \A w \in Slots : SlotOK(slot[w])
      /\ Uploads \cap Batches = {} /\ Rows = Uploads \cup Batches
    BY QueueAssumption DEF Shape, TypeOK, Rows
<1>1. ASSUME NEW x \in Uploads, PushUpload(x) PROVE Good(u)'
    <2>1. Shrinks
        BY <1>1 DEF PushUpload, Holds, Shrinks
    <2>2. CASE u # x
        BY <1>1, <1>k, <1>t, <2>1, <2>2 DEF PushUpload, Same
    <2>3. CASE u = x
        BY <1>1, <1>a, <1>t, <2>1, <2>3 DEF PushUpload, Shrinks, Good, Owned, Told
    <2> QED
        BY <2>2, <2>3
<1>2. ASSUME NEW b \in Batches, PushBatch(b) PROVE Good(u)'
    <2>1. Shrinks /\ Same
        BY <1>2, <1>t DEF PushBatch, Holds, Shrinks, Same
    <2> QED
        BY <1>k, <2>1
<1>3. ASSUME NEW w \in Slots, ClaimUploads(w) PROVE Good(u)'
    <2>1. PICK S \in SUBSET Pending(Uploads) :
              Start(S) /\ slot' = [slot EXCEPT ![w].step = "documents", ![w].todo = S]
        BY <1>3 DEF ClaimUploads
    <2>2. Holds(w)' = S /\ \A v \in Slots \ {w} : Holds(v)' = Holds(v)
        BY <1>t, <2>1 DEF Holds
    <2>3. imported' = imported
        BY <1>3 DEF ClaimUploads
    <2>4. CASE u \in S
        <3>1. status[u] = "PENDING" /\ status'[u] = "PROCESSING"
            BY <1>t, <2>1, <2>4 DEF Pending, Start
        <3> QED
            BY <1>a, <2>2, <2>3, <3>1 DEF Good, Owned, Told
    <2>5. CASE u \notin S
        <3>1. Shrinks /\ Same
            BY <1>t, <2>1, <2>2, <2>3, <2>5 DEF Start, Shrinks, Same
        <3> QED
            BY <1>k, <3>1
    <2> QED
        BY <2>4, <2>5
<1>4. ASSUME NEW w \in Slots, NEW x \in Uploads, OpenUpload(w, x) PROVE Good(u)'
    <2>1. Shrinks
        BY <1>4, <1>t DEF OpenUpload, Holds, Shrinks
    <2>2. Same
        BY <1>4 DEF OpenUpload, Same
    <2> QED
        BY <1>k, <2>1, <2>2
<1>5. ASSUME NEW w \in Slots, CommitImport(w) PROVE Good(u)'
    <2>1. slot[w].step = "importing" /\ slot[w].row \in Uploads /\ slot[w].row \in Holds(w)
          /\ slot[w].row \notin slot[w].todo
        BY <1>5, <1>t DEF CommitImport, Holds, SlotOK
    <2>2. Holds(w)' = slot[w].todo /\ \A v \in Slots \ {w} : Holds(v)' = Holds(v)
        BY <1>5, <1>t, <2>1 DEF CommitImport, Settle, ToCleanUp, Holds
    <2>3. Holds(w)' \subseteq Holds(w)
        BY <2>2 DEF Holds
    <2>4. CASE u = slot[w].row
        <3>1. status[u] = "PROCESSING" /\ \A v \in Slots \ {w} : u \notin Holds(v)
            BY <1>a, <2>1, <2>4 DEF Good, Owned
        <3>2. status'[u] = "COMPLETED" /\ imported'[u] = 1
            BY <1>5, <1>a, <1>t, <2>4, <3>1 DEF CommitImport, Settle, Good, Told
        <3> QED
            BY <2>1, <2>2, <2>4, <3>1, <3>2 DEF Good, Owned, Told
    <2>5. CASE u # slot[w].row
        <3>1. Shrinks /\ Same
            BY <1>5, <1>t, <2>1, <2>2, <2>3, <2>5 DEF CommitImport, Settle, Shrinks, Same
        <3> QED
            BY <1>k, <3>1
    <2> QED
        BY <2>4, <2>5
<1>6. ASSUME NEW w \in Slots, FailUpload(w) PROVE Good(u)'
    <2>1. slot[w].step = "failing" /\ slot[w].row \in Uploads /\ slot[w].row \in Holds(w)
          /\ slot[w].row \notin slot[w].todo
        BY <1>6, <1>t DEF FailUpload, Holds, SlotOK
    <2>2. Holds(w)' = slot[w].todo /\ \A v \in Slots \ {w} : Holds(v)' = Holds(v)
        BY <1>6, <1>t, <2>1 DEF FailUpload, Settle, ToCleanUp, Holds
    <2>3. Holds(w)' \subseteq Holds(w)
        BY <2>2 DEF Holds
    <2>4. CASE u = slot[w].row
        <3>1. status[u] = "PROCESSING" /\ \A v \in Slots \ {w} : u \notin Holds(v)
            BY <1>a, <2>1, <2>4 DEF Good, Owned
        <3>2. status'[u] = "FAILED" /\ imported'[u] = 0
            BY <1>6, <1>a, <1>t, <2>4, <3>1 DEF FailUpload, Settle, Good, Told
        <3> QED
            BY <2>1, <2>2, <2>4, <3>1, <3>2 DEF Good, Owned, Told
    <2>5. CASE u # slot[w].row
        <3>1. Shrinks /\ Same
            BY <1>6, <1>t, <2>1, <2>2, <2>3, <2>5 DEF FailUpload, Settle, Shrinks, Same
        <3> QED
            BY <1>k, <3>1
    <2> QED
        BY <2>4, <2>5
<1>7. ASSUME NEW w \in Slots, CleanUp(w) PROVE Good(u)'
    <2>1. Shrinks /\ Same
        BY <1>7, <1>t DEF CleanUp, Holds, Shrinks, Same
    <2> QED
        BY <1>k, <2>1
<1>8. ASSUME NEW w \in Slots, EndDocuments(w) PROVE Good(u)'
    <2>1. Shrinks /\ Same
        BY <1>8, <1>t DEF EndDocuments, Idle, Holds, Shrinks, Same
    <2> QED
        BY <1>k, <2>1
<1>9. ASSUME NEW w \in Slots, NEW b \in Batches, ClaimBatch(w, b) PROVE Good(u)'
    <2>1. Shrinks
        BY <1>9, <1>t DEF ClaimBatch, Holds, Shrinks, SlotOK
    <2>2. Same
        BY <1>9, <1>t DEF ClaimBatch, Start, Same
    <2> QED
        BY <1>k, <2>1, <2>2
<1>10. ASSUME NEW w \in Slots, FinishBatch(w) PROVE Good(u)'
    <2>1. slot[w].row \in Batches
        BY <1>10, <1>t DEF FinishBatch, SlotOK
    <2>2. Shrinks
        BY <1>10, <1>t DEF FinishBatch, Settle, Holds, Shrinks
    <2>3. Same
        BY <1>10, <1>t, <2>1 DEF FinishBatch, Settle, Same
    <2> QED
        BY <1>k, <2>2, <2>3
<1>11. ASSUME NEW w \in Slots, EndSections(w) PROVE Good(u)'
    <2>1. Shrinks /\ Same
        BY <1>11, <1>t DEF EndSections, Idle, Holds, Shrinks, Same
    <2> QED
        BY <1>k, <2>1
<1>12. ASSUME NEW w \in Slots, Sweep(w) PROVE Good(u)'
    <2>1. slot' = slot /\ imported' = imported
        BY <1>12 DEF Sweep
    <2>2. Shrinks
        BY <2>1 DEF Holds, Shrinks
    <2>3. CASE u \in Stalled
        <3>1. \A v \in Slots : u \notin Holds(v)'
            BY <1>12, <2>2, <2>3 DEF Sweep, Shrinks
        <3>2. status[u] = "PROCESSING" /\ status'[u] = "PENDING"
            BY <1>12, <1>t, <2>3 DEF Sweep, Stalled
        <3> QED
            BY <1>a, <2>1, <3>1, <3>2 DEF Good, Owned, Told
    <2>4. CASE u \notin Stalled
        BY <1>12, <1>k, <1>t, <2>1, <2>2, <2>4 DEF Sweep, Same
    <2> QED
        BY <2>3, <2>4
<1>13. ASSUME NEW w \in Slots, Crash(w) PROVE Good(u)'
    <2>1. Shrinks /\ Same
        BY <1>13, <1>t DEF Crash, Idle, Holds, Shrinks, Same
    <2> QED
        BY <1>k, <2>1
<1>14. ASSUME NEW r \in Rows, Age(r) PROVE Good(u)'
    <2>1. Shrinks /\ Same
        BY <1>14 DEF Age, Holds, Shrinks, Same
    <2> QED
        BY <1>k, <2>1
<1>15. ASSUME UNCHANGED vars PROVE Good(u)'
    <2>1. Shrinks /\ Same
        BY <1>15 DEF vars, Holds, Shrinks, Same
    <2> QED
        BY <1>k, <2>1
<1> QED
    BY ONLY [Next]_vars, <1>1, <1>2, <1>3, <1>4, <1>5, <1>6, <1>7, <1>8, <1>9,
            <1>10, <1>11, <1>12, <1>13, <1>14, <1>15 DEF Next, Continue

-----------------------------------------------------------------------------

(* The invariant holds at the start.                                         *)
LEMMA InitInv == Init => Inv
BY QueueAssumption
   DEF Init, Inv, Shape, TypeOK, SlotOK, Idle, Steps, Rows, CleanUpSettled,
       FileOutlivesUpload, OneOwner, Holds, StatusTellsImport

(* Every step keeps it.                                                      *)
LEMMA NextInv == Inv /\ [Next]_vars => Inv'
BY ShapeStep, CleanUpStep, FileStep, OwnerStep DEF Inv

(* So it always holds.                                                       *)
LEMMA Invariance == Spec => []Inv
<1>1. Init => Inv
    BY InitInv
<1>2. Inv /\ [Next]_vars => Inv'
    BY NextInv
<1> QED
    BY <1>1, <1>2, PTL DEF Spec

(* The tables, the files and what the slots remember keep their types.       *)
THEOREM QueueTypeCorrect == Spec => []TypeOK
<1>1. Inv => TypeOK
    BY DEF Inv, Shape
<1> QED
    BY <1>1, Invariance, PTL

(* Whatever crashes, however many slots are on an upload: it is not without  *)
(* its staging file before its outcome is recorded.                          *)
THEOREM FilesAreKept == Spec => []FileOutlivesUpload
<1>1. Inv => FileOutlivesUpload
    BY DEF Inv
<1> QED
    BY <1>1, Invariance, PTL

(* An upload that the sweep never took from a live slot is imported once if  *)
(* it is COMPLETED, and not at all otherwise.                                *)
THEOREM ImportedAsTold == Spec => []StatusTellsImport
<1>1. Inv => StatusTellsImport
    BY DEF Inv
<1> QED
    BY <1>1, Invariance, PTL

=============================================================================
