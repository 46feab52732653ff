----------------------- MODULE AuthorityFrontierProofs -----------------------
(***************************************************************************)
(* Proofs about AuthorityFrontier, for every set of keys, of workers and   *)
(* of requests, and for every bound.                                       *)
(*                                                                         *)
(* A worker that has a row either leaves it, or keeps the instance that it *)
(* has read (Handles); what it saves is the state, and the trail of that   *)
(* instance.  So an instance that is in somebody's hands records no more   *)
(* approvals than were granted, and no less than the row as long as the    *)
(* row did not grow beside it (Records); and a row that nobody put back    *)
(* has one worker only, because a row that is held is not queued (Hands).  *)
(***************************************************************************)
EXTENDS AuthorityFrontier, TLAPS

WorkerType == [step : {"idle", "next", "claimed", "fetching", "fetched", "bootstrapped", "citing"},
               kind : {"none", "crawl", "selected"}, scope : SUBSET Keys,
               key : Keys \cup {NONE}, inst : InstType, got : NeedsApproval \cup {NONE},
               tally : [Jurisdictions -> Nat]]
RequestType == [verb : {"none", "requeue", "approve"}, key : Keys \cup {NONE}, inst : InstType]

(* What a worker may have in hand.                                           *)
WorkerOK(q) ==
    /\ q \in WorkerType
    /\ q.key # NONE <=> q.step \in {"claimed", "fetching", "fetched", "bootstrapped"}
    /\ q.step = "citing" => q.inst.depth < MaxDepth
    /\ q.got # NONE => q.step = "bootstrapped" /\ q.got \in q.inst.approved

RequestOK(q) ==
    /\ q \in RequestType
    /\ q = NoRequest \/ q.key # NONE
    /\ q.verb = "approve" => q.inst.pending # NONE

RowsOK ==
    /\ row \in [Keys -> RowType]
    /\ \A k \in Keys : row[k].state = "queued" => ~row[k].doc

WorkersOK == worker \in [Workers -> WorkerType] /\ \A w \in Workers : WorkerOK(worker[w])
RequestsOK == admin \in [Admins -> RequestType] /\ \A a \in Admins : RequestOK(admin[a])

CountsOK ==
    /\ actions \in 0..MaxActions
    /\ trail \in [Keys -> SUBSET Candidates] /\ granted \in [Keys -> SUBSET Responses]
    /\ shared \subseteq Keys /\ stale \subseteq Keys

Shape == RowsOK /\ WorkersOK /\ RequestsOK /\ CountsOK

-----------------------------------------------------------------------------

(* One worker, one request or one row changes, to a well-formed one.         *)
LEMMA ReplaceWorker ==
    ASSUME WorkersOK, NEW w \in Workers, NEW q, WorkerOK(q), worker' = [worker EXCEPT ![w] = q]
    PROVE  WorkersOK'
BY DEF WorkersOK, WorkerOK

(* One request changes.                                                      *)
LEMMA ReplaceRequest ==
    ASSUME RequestsOK, NEW a \in Admins, NEW q, RequestOK(q), admin' = [admin EXCEPT ![a] = q]
    PROVE  RequestsOK'
BY DEF RequestsOK, RequestOK

(* One row changes.                                                          *)
LEMMA ReplaceRow ==
    ASSUME RowsOK, NEW k \in Keys, NEW r \in RowType, r.state = "queued" => ~r.doc,
           row' = [row EXCEPT ![k] = r]
    PROVE  RowsOK'
BY DEF RowsOK

(* What is idle, and what is read.                                           *)
LEMMA Idles ==
    /\ NoInst \in InstType /\ WorkerOK(Idle) /\ RequestOK(NoRequest)
    /\ \A k \in Keys : RowsOK => Read(k) \in InstType /\ Read(k).id = row[k].id
<1>1. NoInst \in InstType
    BY FrontierAssumption DEF NoInst, InstType
<1>2. NoTally \in [Jurisdictions -> Nat]
    BY DEF NoTally
<1>3. WorkerOK(Idle)
    BY <1>1, <1>2 DEF Idle, WorkerOK, WorkerType
<1>4. RequestOK(NoRequest)
    BY <1>1 DEF NoRequest, RequestOK, RequestType
<1>5. ASSUME NEW k \in Keys, RowsOK PROVE Read(k) \in InstType /\ Read(k).id = row[k].id
    BY <1>5 DEF Read, InstType, RowsOK, RowType
<1> QED
    BY <1>1, <1>3, <1>4, <1>5

(* A row just created, and the place of one that is gone.                    *)
LEMMA NewRow ==
    ASSUME NEW id \in Nat, NEW depth \in 0..MaxDepth, NEW listed \in SUBSET Candidates
    PROVE  /\ New(id, depth, listed) \in RowType /\ Absent(id) \in RowType
           /\ ~New(id, depth, listed).doc /\ Absent(id).state = "absent"
           /\ New(id, depth, listed).state = "queued" /\ New(id, depth, listed).id = id
           /\ New(id, depth, listed).listed = listed /\ New(id, depth, listed).approved = {}
           /\ Absent(id).id = id
BY FrontierAssumption DEF New, Absent, RowType, States

(* Seeds are rows of the type, and leave a row that is there alone.          *)
LEMMA SeedRows ==
    ASSUME RowsOK, NEW S \in SUBSET Keys, NEW depth \in 0..MaxDepth, row' = Seed(S, depth)
    PROVE  /\ RowsOK'
           /\ \A k \in Keys : row'[k] = row[k] \/ (k \in Fresh(S) /\ row'[k] = New(row[k].id + 1, depth, {}))
           /\ \A k \in Fresh(S) : row'[k] = New(row[k].id + 1, depth, {})
<1>1. \A k \in Keys : row'[k] = IF k \in Fresh(S) THEN New(row[k].id + 1, depth, {}) ELSE row[k]
    BY DEF Seed, Fresh
<1>2. ASSUME NEW k \in Keys PROVE row'[k] \in RowType /\ (row'[k].state = "queued" => ~row'[k].doc)
    <2>1. row[k].id + 1 \in Nat /\ row[k] \in RowType
        BY DEF RowsOK, RowType
    <2> QED
        BY <1>1, <2>1, NewRow DEF RowsOK
<1>3. row' \in [Keys -> RowType]
    BY <1>2 DEF Seed
<1> QED
    BY <1>1, <1>2, <1>3 DEF RowsOK, Fresh

(* Forgetting the records of some keys.                                      *)
LEMMA ForgetTypes ==
    ASSUME CountsOK, NEW S, Forget(S)
    PROVE  trail' \in [Keys -> SUBSET Candidates] /\ granted' \in [Keys -> SUBSET Responses]
BY DEF CountsOK, Forget

-----------------------------------------------------------------------------

(* Worker w saves row k, of which it has the instance: it keeps the row      *)
(* exactly if it leaves it in progress.                                      *)
Writes(w, k) ==
    /\ Holds(w, k)
    /\ row'[k].id = row[k].id /\ row'[k].state \notin {"absent", "queued"}
    /\ row'[k].state = "in_progress" <=> worker'[w].key = k
    /\ \/ row'[k].listed = row[k].listed /\ row'[k].approved = row[k].approved
       \/ row'[k].listed = Inst(w).listed /\ row'[k].approved = Inst(w).approved

(* Row k is not left in progress, or it counts as left.                      *)
Excused(k) == row'[k].state = "in_progress" => k \in lost'

(* A step of worker w with what it has in hand.                              *)
Handles(w) ==
    /\ \A v \in Workers \ {w} : worker'[v] = worker[v]
    /\ \/ worker'[w].key = NONE
       \/ /\ worker'[w].key = At(w) /\ worker'[w].inst = Inst(w)
          /\ worker'[w].kind = worker[w].kind
          /\ At(w) \in Keys =>
                worker[w].step # "claimed" \/ row'[At(w)].state = "in_progress"
    /\ \A k \in Keys : row'[k] = row[k] \/ Writes(w, k)
    /\ \A k \in Keys : Holds(w, k) => Writes(w, k) \/ worker'[w].key = k \/ Excused(k)
    /\ UNCHANGED <<admin, history, shared, stale>>

(* Worker w turns into q, and row k, which it holds, into r.                 *)
LEMMA WorkerWrites ==
    ASSUME Shape, NEW w \in Workers, At(w) \in Keys, Here(w), NEW q, WorkerOK(q),
           NEW r \in RowType, r.state \notin {"absent", "queued"}, r.id = row[At(w)].id,
           r.state = "in_progress" <=> q.key # NONE,
           \/ r.listed = row[At(w)].listed /\ r.approved = row[At(w)].approved
           \/ r.listed = Inst(w).listed /\ r.approved = Inst(w).approved,
           q.key = NONE \/ (q.key = At(w) /\ q.inst = Inst(w) /\ q.kind = worker[w].kind),
           row' = [row EXCEPT ![At(w)] = r], worker' = [worker EXCEPT ![w] = q],
           UNCHANGED <<admin, actions, history, shared, stale>>
    PROVE  Shape' /\ Handles(w)
<1>1. WorkersOK'
    BY ReplaceWorker DEF Shape
<1>2. worker'[w] = q /\ \A v \in Workers \ {w} : worker'[v] = worker[v]
    BY DEF Shape, WorkersOK
<1>3. row'[At(w)] = r /\ \A k \in Keys \ {At(w)} : row'[k] = row[k]
    BY DEF Shape, RowsOK
<1>4. RowsOK'
    BY ReplaceRow DEF Shape
<1>5. RequestsOK' /\ CountsOK'
    BY DEF Shape, RequestsOK, CountsOK, history
<1>6. Writes(w, At(w))
    BY <1>2, <1>3, FrontierAssumption DEF Writes, Here
<1>7. \A k \in Keys : Holds(w, k) => k = At(w)
    BY DEF Holds, At
<1>8. Handles(w)
    BY <1>2, <1>3, <1>6, <1>7, FrontierAssumption DEF Handles, history
<1> QED
    BY <1>1, <1>4, <1>5, <1>8 DEF Shape

(* Worker w turns into q, and no row changes.                                *)
LEMMA WorkerLeaves ==
    ASSUME Shape, NEW w \in Workers, NEW q, WorkerOK(q),
           \/ q.key = NONE
           \/ /\ q.key = At(w) /\ q.inst = Inst(w) /\ q.kind = worker[w].kind
              /\ worker[w].step # "claimed",
           worker' = [worker EXCEPT ![w] = q],
           UNCHANGED <<row, admin, actions, history, shared, stale>>,
           \A k \in Keys : Holds(w, k) => q.key = k \/ Excused(k)
    PROVE  Shape' /\ Handles(w)
<1>1. WorkersOK'
    BY ReplaceWorker DEF Shape
<1>2. worker'[w] = q /\ \A v \in Workers \ {w} : worker'[v] = worker[v]
    BY DEF Shape, WorkersOK
<1>3. RowsOK' /\ RequestsOK' /\ CountsOK'
    BY DEF Shape, RowsOK, RequestsOK, CountsOK, history
<1>4. Handles(w)
    BY <1>2 DEF Handles
<1> QED
    BY <1>1, <1>3, <1>4 DEF Shape

(* The steps of a worker, but for the claim and the seeds.                   *)
LEMMA WorkerSteps ==
    ASSUME Shape, NEW w \in Workers,
           \/ Raises(w) \/ Park(w) \/ Begin(w) \/ Fetch(w) \/ Refuse(w) \/ Bootstrap(w)
           \/ Settle(w) \/ Stop(w)
           \/ (Escape(w) \/ Die(w)) /\ Left(Keys \cap {At(w)})
    PROVE  Shape' /\ Handles(w)
<1> DEFINE k == At(w)
<1>a. WorkerOK(worker[w]) /\ worker[w] \in WorkerType
    BY DEF Shape, WorkersOK
<1>b. WorkerOK(Idle) /\ Idle.key = NONE /\ NoInst \in InstType
    BY Idles DEF Idle
<1>h. \A l \in Keys : Holds(w, l) => At(w) = l /\ Here(w)
    BY DEF Holds, Here, At
<1>d. ASSUME worker[w].step \in {"claimed", "fetching", "fetched", "bootstrapped"}
      PROVE  k \in Keys /\ row[k] \in RowType /\ Inst(w) \in InstType
    BY <1>a, <1>d DEF WorkerOK, WorkerType, At, Inst, Shape, RowsOK
<1>e. ASSUME Proceed(w) PROVE \E q : WorkerOK(q) /\ q.key = NONE /\ worker' = [worker EXCEPT ![w] = q]
    <2> DEFINE q == [worker[w] EXCEPT !.step = "next", !.key = NONE, !.inst = NoInst, !.got = NONE]
    <2>1. WorkerOK(q) /\ q.key = NONE
        BY <1>a, <1>b DEF WorkerOK, WorkerType
    <2>2. worker' = [worker EXCEPT ![w] = q] \/ worker' = [worker EXCEPT ![w] = Idle]
        BY <1>e DEF Proceed
    <2> QED
        BY <1>b, <2>1, <2>2
<1>f. ASSUME NEW s \in States \ {"absent", "queued", "in_progress"}, NEW d \in BOOLEAN,
             NEW p \in NeedsApproval \cup {NONE}, Marked(w, s, d, p), Proceed(w), Here(w),
             worker[w].step \in {"claimed", "fetching", "fetched", "bootstrapped"},
             UNCHANGED <<admin, actions, history, shared, stale>>
      PROVE  Shape' /\ Handles(w)
    <2> DEFINE r == [row[k] EXCEPT !.state = s, !.doc = d, !.pending = p,
                                   !.listed = Inst(w).listed, !.approved = Inst(w).approved]
    <2>1. row' = [row EXCEPT ![k] = r]
        BY <1>f DEF Marked
    <2>2. /\ r \in RowType /\ r.state = s /\ r.id = row[k].id
          /\ r.listed = Inst(w).listed /\ r.approved = Inst(w).approved
        BY <1>d, <1>f DEF RowType, InstType
    <2>3. PICK q : WorkerOK(q) /\ q.key = NONE /\ worker' = [worker EXCEPT ![w] = q]
        BY <1>e, <1>f
    <2> HIDE DEF r
    <2> QED
        BY <1>d, <1>f, <2>1, <2>2, <2>3, WorkerWrites
<1>g. ASSUME NEW s \in States \ {"absent", "queued", "in_progress"},
             row' = [row EXCEPT ![k].state = s], Proceed(w), Here(w),
             worker[w].step \in {"claimed", "fetching", "fetched", "bootstrapped"},
             UNCHANGED <<admin, actions, history, shared, stale>>
      PROVE  Shape' /\ Handles(w)
    <2> DEFINE r == [row[k] EXCEPT !.state = s]
    <2>1. row' = [row EXCEPT ![k] = r]
        BY <1>g
    <2>2. /\ r \in RowType /\ r.state = s /\ r.id = row[k].id
          /\ r.listed = row[k].listed /\ r.approved = row[k].approved
        BY <1>d, <1>g DEF RowType
    <2>3. PICK q : WorkerOK(q) /\ q.key = NONE /\ worker' = [worker EXCEPT ![w] = q]
        BY <1>e, <1>g
    <2> HIDE DEF r
    <2> QED
        BY <1>d, <1>g, <2>1, <2>2, <2>3, WorkerWrites
<1>1. CASE Raises(w)
    BY <1>1, <1>b, <1>h, WorkerLeaves DEF Raises
<1>2. CASE Park(w)
    BY <1>2, <1>g DEF Park, States
<1>3. CASE Begin(w)
    <2>1. CASE row' = [row EXCEPT ![k].state = "unsupported"] /\ Proceed(w)
        BY <1>3, <1>g, <2>1 DEF Begin, States
    <2>2. CASE /\ row' = [row EXCEPT ![k].state = "in_progress"]
               /\ worker' = [worker EXCEPT ![w].step = "fetching"]
        <3> DEFINE r == [row[k] EXCEPT !.state = "in_progress"]
                   q == [worker[w] EXCEPT !.step = "fetching"]
        <3>1. row' = [row EXCEPT ![k] = r] /\ worker' = [worker EXCEPT ![w] = q]
            BY <2>2
        <3>2. /\ r \in RowType /\ r.state = "in_progress" /\ r.id = row[k].id
              /\ r.listed = row[k].listed /\ r.approved = row[k].approved
            BY <1>3, <1>d DEF Begin, RowType, States
        <3>3. /\ WorkerOK(q) /\ q.key = At(w) /\ q.inst = Inst(w) /\ q.kind = worker[w].kind
              /\ q.key # NONE
            BY <1>3, <1>a DEF Begin, WorkerOK, WorkerType, At, Inst
        <3> HIDE DEF r, q
        <3> QED
            BY <1>3, <1>d, <3>1, <3>2, <3>3, WorkerWrites DEF Begin
    <2> QED
        BY <1>3, <2>1, <2>2 DEF Begin
<1>4. CASE Refuse(w)
    <2>1. /\ k \in Keys /\ row[k].doc \in BOOLEAN
          /\ Inst(w).pending \in NeedsApproval \cup {NONE}
        BY <1>4, <1>d DEF Refuse, RowType, InstType
    <2> QED
        BY <1>4, <1>f, <2>1 DEF Refuse, States
<1>5. CASE Bootstrap(w)
    <2> PICK r \in Responses :
            /\ r \notin NeedsApproval \/ r \in Inst(w).approved
            /\ worker' = [worker EXCEPT ![w].step = "bootstrapped",
                                        ![w].got = IF r \in NeedsApproval THEN r ELSE NONE]
        BY <1>5 DEF Bootstrap
    <2> DEFINE got == IF r \in NeedsApproval THEN r ELSE NONE
               q == [worker[w] EXCEPT !.step = "bootstrapped", !.got = got]
    <2>1. worker' = [worker EXCEPT ![w] = q]
        BY DEF Shape, WorkersOK
    <2>2. got \in NeedsApproval \cup {NONE} /\ (got # NONE => got \in Inst(w).approved)
        OBVIOUS
    <2> HIDE DEF got
    <2>3. /\ WorkerOK(q) /\ q.key = At(w) /\ q.inst = Inst(w) /\ q.kind = worker[w].kind
        BY <1>5, <1>a, <2>2 DEF Bootstrap, WorkerOK, WorkerType, At, Inst
    <2> HIDE DEF q
    <2> QED
        BY <1>5, <1>h, <2>1, <2>3, WorkerLeaves DEF Bootstrap
<1>6. CASE Settle(w)
    <2>1. /\ k \in Keys /\ row[k].doc \in BOOLEAN /\ row[k] \in RowType
          /\ Inst(w).pending \in NeedsApproval \cup {NONE} /\ Inst(w) \in InstType
        BY <1>6, <1>d DEF Settle, RowType, InstType
    <2>2. CASE Marked(w, "failed", row[k].doc, Inst(w).pending) /\ Proceed(w)
        BY <1>6, <1>f, <2>1, <2>2 DEF Settle, States
    <2>3. ASSUME NEW doc \in {row[k].doc, TRUE}, Marked(w, "ingested", doc, Inst(w).pending),
                 Proceed(w)
          PROVE  Shape' /\ Handles(w)
        BY <1>6, <1>f, <2>1, <2>3 DEF Settle, States
    <2>4. ASSUME NEW doc \in {row[k].doc, TRUE}, Marked(w, "ingested", doc, Inst(w).pending),
                 worker' = [worker EXCEPT ![w] = Counted(w)]
          PROVE  Shape' /\ Handles(w)
        <3> DEFINE tally == [worker[w].tally EXCEPT ![JurisdictionOf[k]] = @ + 1]
                   q == [worker[w] EXCEPT !.key = NONE, !.got = NONE, !.tally = tally]
                   r == [row[k] EXCEPT !.state = "ingested", !.doc = doc,
                                       !.pending = Inst(w).pending,
                                       !.listed = Inst(w).listed,
                                       !.approved = Inst(w).approved]
        <3>1. JurisdictionOf[k] \in Jurisdictions
            BY <2>1, FrontierAssumption
        <3>2. tally \in [Jurisdictions -> Nat]
            BY <1>a, <3>1 DEF WorkerType
        <3>3. Counted(w) = IF Inst(w).depth < MaxDepth THEN [q EXCEPT !.step = "citing"]
                           ELSE [q EXCEPT !.step = "next", !.inst = NoInst]
            BY <1>a DEF Counted, WorkerType
        <3> HIDE DEF tally
        <3>4. WorkerOK(Counted(w)) /\ Counted(w).key = NONE
            <4>1. q \in WorkerType /\ q.key = NONE /\ q.got = NONE /\ q.inst = Inst(w)
                BY <1>a, <3>2 DEF WorkerType, Inst
            <4> HIDE DEF q
            <4>2. CASE Inst(w).depth < MaxDepth
                BY <3>3, <4>1, <4>2 DEF WorkerOK, WorkerType
            <4>3. CASE ~(Inst(w).depth < MaxDepth)
                BY <3>3, <4>1, <4>3, <1>b DEF WorkerOK, WorkerType
            <4> QED
                BY <4>2, <4>3
        <3>5. row' = [row EXCEPT ![k] = r]
            BY <2>4 DEF Marked
        <3>6. /\ r \in RowType /\ r.state = "ingested" /\ r.id = row[k].id
              /\ r.listed = Inst(w).listed /\ r.approved = Inst(w).approved
            BY <2>1, <2>4 DEF RowType, InstType, States
        <3> HIDE DEF r
        <3> QED
            BY <1>6, <2>1, <2>4, <3>4, <3>5, <3>6, WorkerWrites DEF Settle
    <2> QED
        BY <1>6, <2>2, <2>3, <2>4 DEF Settle
<1>7. CASE Stop(w)
    <2>1. At(w) = NONE
        BY <1>7, <1>a DEF Stop, At, WorkerOK
    <2>2. \A l \in Keys : ~Holds(w, l)
        BY <1>h, <2>1, FrontierAssumption
    <2> QED
        BY <1>7, <1>b, <2>2, WorkerLeaves DEF Stop
<1>8. CASE (Escape(w) \/ Die(w)) /\ Left(Keys \cap {At(w)})
    <2>1. \A l \in Keys : Holds(w, l) => Excused(l)
        BY <1>8, <1>h DEF Left, Excused
    <2> QED
        BY <1>8, <1>b, <2>1, WorkerLeaves DEF Escape, Die
<1>9. CASE Fetch(w)
    <2>1. CASE Here(w) /\ Marked(w, "failed", row[k].doc, Inst(w).pending) /\ Proceed(w)
        <3>1. /\ k \in Keys /\ row[k].doc \in BOOLEAN
              /\ Inst(w).pending \in NeedsApproval \cup {NONE}
            BY <1>9, <1>d DEF Fetch, RowType, InstType
        <3> QED
            BY <1>9, <1>f, <2>1, <3>1 DEF Fetch, States
    <2>2. CASE worker' = [worker EXCEPT ![w].step = "fetched"] /\ UNCHANGED row
        <3> DEFINE q == [worker[w] EXCEPT !.step = "fetched"]
        <3>1. worker' = [worker EXCEPT ![w] = q]
            BY <2>2
        <3>2. /\ WorkerOK(q) /\ q.key = At(w) /\ q.inst = Inst(w) /\ q.kind = worker[w].kind
            BY <1>9, <1>a DEF Fetch, WorkerOK, WorkerType, At, Inst
        <3> HIDE DEF q
        <3> QED
            BY <1>9, <1>h, <2>2, <3>1, <3>2, WorkerLeaves DEF Fetch
    <2> QED
        BY <1>9, <2>1, <2>2 DEF Fetch
<1> QED
    BY <1>1, <1>2, <1>3, <1>4, <1>5, <1>6, <1>7, <1>8, <1>9

(* A step keeps the types.                                                   *)
LEMMA ShapeStep == ASSUME Shape, [Next]_vars PROVE Shape'
<1>a. ASSUME NEW w \in Workers PROVE WorkerOK(worker[w]) /\ worker[w] \in WorkerType
    BY DEF Shape, WorkersOK
<1>b. ASSUME NEW k \in Keys PROVE row[k] \in RowType /\ Read(k) \in InstType
    BY Idles DEF Shape, RowsOK
<1>c. WorkerOK(Idle) /\ RequestOK(NoRequest) /\ NoInst \in InstType
    BY Idles
<1>1. ASSUME NEW w \in Workers, StartCrawl(w) PROVE Shape'
    <2>1. PICK S \in SUBSET Keys \ {{}} :
             /\ row' = Seed(S, 0) /\ Forget(Fresh(S))
             /\ worker' = [worker EXCEPT ![w] = [Idle EXCEPT !.step = "next", !.kind = "crawl",
                                                             !.scope = S]]
        BY <1>1 DEF StartCrawl
    <2> DEFINE q == [Idle EXCEPT !.step = "next", !.kind = "crawl", !.scope = S]
    <2>2. WorkerOK(q)
        BY <1>c DEF Idle, WorkerOK, WorkerType
    <2>3. WorkersOK'
        BY <2>1, <2>2, ReplaceWorker DEF Shape
    <2>4. RowsOK'
        BY <2>1, SeedRows, FrontierAssumption DEF Shape
    <2>5. CountsOK' /\ RequestsOK'
        BY <1>1, <2>1, ForgetTypes DEF StartCrawl, Shape, CountsOK, RequestsOK
    <2> QED
        BY <2>3, <2>4, <2>5 DEF Shape
<1>2. ASSUME NEW w \in Workers, Cite(w) PROVE Shape'
    <2>1. PICK S \in SUBSET Keys :
             /\ row' = Seed(S, Inst(w).depth + 1) /\ Forget(Fresh(S))
             /\ worker' = [worker EXCEPT ![w].step = "next", ![w].inst = NoInst,
                                         ![w].scope = @ \cup S]
        BY <1>2 DEF Cite
    <2> DEFINE q == [worker[w] EXCEPT !.step = "next", !.inst = NoInst,
                                      !.scope = worker[w].scope \cup S]
    <2>2. WorkerOK(q)
        <3>1. worker[w].key = NONE /\ worker[w].got = NONE
            BY <1>2, <1>a DEF Cite, WorkerOK
        <3>2. worker[w].scope \cup S \subseteq Keys
            BY <1>a DEF WorkerType
        <3>3. /\ q \in WorkerType /\ q.step = "next" /\ q.key = NONE /\ q.got = NONE
            BY <1>a, <1>c, <3>1, <3>2 DEF WorkerType
        <3> HIDE DEF q
        <3> QED
            BY <3>3 DEF WorkerOK
    <2>3. worker' = [worker EXCEPT ![w] = q]
        BY <2>1, <1>a DEF Shape, WorkersOK, WorkerType
    <2> HIDE DEF q
    <2>4. WorkersOK'
        BY <2>2, <2>3, ReplaceWorker DEF Shape
    <2>5. Inst(w).depth + 1 \in 0..MaxDepth
        BY <1>2, <1>a, FrontierAssumption DEF Cite, WorkerOK, WorkerType, InstType, Inst
    <2>6. RowsOK'
        BY <2>1, <2>5, SeedRows DEF Shape
    <2>7. CountsOK' /\ RequestsOK'
        BY <1>2, <2>1, ForgetTypes DEF Cite, Shape, CountsOK, RequestsOK
    <2> QED
        BY <2>4, <2>6, <2>7 DEF Shape
<1>3. ASSUME NEW k \in Keys, NEW x \in Candidates, SeedDiscovery(k, x) PROVE Shape'
    <2>1. WorkersOK' /\ RequestsOK'
        BY <1>3 DEF SeedDiscovery, Shape, WorkersOK, RequestsOK
    <2>2. RowsOK'
        <3>1. CASE Exists(k)
            <4> DEFINE r == [row[k] EXCEPT !.listed = @ \cup {x}]
            <4>1. r \in RowType /\ r.state = row[k].state /\ r.doc = row[k].doc
                BY <1>b DEF RowType
            <4>2. row' = [row EXCEPT ![k] = r]
                BY <1>3, <3>1 DEF SeedDiscovery
            <4> HIDE DEF r
            <4> QED
                BY <4>1, <4>2, ReplaceRow DEF Shape, RowsOK
        <3>2. CASE ~Exists(k)
            <4>1. row[k].id + 1 \in Nat
                BY <1>b DEF RowType
            <4>2. row' = [row EXCEPT ![k] = New(row[k].id + 1, 0, {x})]
                BY <1>3, <3>2 DEF SeedDiscovery
            <4>3. 0 \in 0..MaxDepth /\ {x} \in SUBSET Candidates
                BY FrontierAssumption
            <4>4. New(row[k].id + 1, 0, {x}) \in RowType /\ ~New(row[k].id + 1, 0, {x}).doc
                BY <4>1, <4>3, NewRow
            <4> QED
                BY <4>2, <4>4, ReplaceRow DEF Shape
        <3> QED
            BY <3>1, <3>2
    <2>3. CountsOK'
        BY <1>3 DEF SeedDiscovery, Shape, CountsOK
    <2> QED
        BY <2>1, <2>2, <2>3 DEF Shape
<1>4. ASSUME NEW w \in Workers, NEW k \in Keys, Claim(w, k) PROVE Shape'
    <2> DEFINE q == [worker[w] EXCEPT !.step = "claimed", !.key = k, !.inst = Read(k)]
               r == [row[k] EXCEPT !.state = "in_progress"]
    <2>1. WorkerOK(q)
        BY <1>4, <1>a, <1>b, FrontierAssumption DEF Claim, WorkerOK, WorkerType
    <2>2. WorkersOK'
        BY <1>4, <2>1, ReplaceWorker DEF Claim, Shape
    <2>3. r \in RowType /\ r.state = "in_progress"
        BY <1>b DEF RowType, States
    <2>4. row' = [row EXCEPT ![k] = r]
        BY <1>4 DEF Claim
    <2> HIDE DEF r
    <2>5. RowsOK'
        BY <2>3, <2>4, ReplaceRow DEF Shape
    <2> QED
        BY <1>4, <2>2, <2>5 DEF Claim, Shape, CountsOK, RequestsOK, history
<1>5. ASSUME NEW w \in Workers, NEW k \in Keys, Select(w, k) PROVE Shape'
    <2> DEFINE q == [Idle EXCEPT !.step = "claimed", !.kind = "selected", !.key = k,
                                 !.inst = Read(k)]
    <2>1. WorkerOK(q)
        BY <1>b, <1>c, FrontierAssumption DEF Idle, WorkerOK, WorkerType
    <2>2. WorkersOK'
        BY <1>5, <2>1, ReplaceWorker DEF Select, Shape
    <2> QED
        BY <1>5, <2>2 DEF Select, Shape, CountsOK, RequestsOK, RowsOK, history
<1>6. ASSUME NEW a \in Admins, NEW k \in Keys, Ask(a, k) PROVE Shape'
    <2>1. \E q : RequestOK(q) /\ admin' = [admin EXCEPT ![a] = q]
        <3>1. [NoInst EXCEPT !.id = row[k].id] \in InstType
            BY <1>b, <1>c DEF InstType, RowType
        <3>2. RequestOK([verb |-> "requeue", key |-> k, inst |-> [NoInst EXCEPT !.id = row[k].id]])
            BY <3>1, FrontierAssumption DEF RequestOK, RequestType
        <3>3. row[k].pending # NONE =>
                  RequestOK([verb |-> "approve", key |-> k, inst |-> Read(k)])
            BY <1>b, FrontierAssumption DEF RequestOK, RequestType, Read
        <3> QED
            BY <1>6, <3>2, <3>3 DEF Ask
    <2>2. RequestsOK'
        BY <2>1, ReplaceRequest DEF Shape
    <2>3. actions' \in 0..MaxActions
        BY <1>6, FrontierAssumption DEF Ask, Shape, CountsOK
    <2> QED
        BY <1>6, <2>2, <2>3 DEF Ask, Shape, CountsOK, WorkersOK, RowsOK, history
<1>d. ASSUME NEW a \in Admins, InPlace(a)
      PROVE  /\ admin[a].key \in Keys /\ row[admin[a].key] \in RowType
             /\ admin[a].inst \in InstType
             /\ admin[a].verb = "approve" => admin[a].inst.pending \in NeedsApproval
    <2>1. RequestOK(admin[a]) /\ admin[a] \in RequestType
        BY DEF Shape, RequestsOK
    <2>2. admin[a].key \in Keys
        BY <1>d, <2>1 DEF InPlace, Asked, RequestOK, RequestType
    <2> QED
        BY <2>1, <2>2, <1>b DEF RequestOK, RequestType, InstType
<1>7. ASSUME NEW a \in Admins, Requeue(a) PROVE Shape'
    <2> DEFINE k == admin[a].key
               r == [row[k] EXCEPT !.state = "queued", !.doc = FALSE]
    <2>1. r \in RowType /\ r.doc = FALSE
        BY <1>7, <1>d DEF Requeue, RowType, States
    <2>2. row' = [row EXCEPT ![k] = r]
        BY <1>7, <1>d DEF Requeue, Shape, RowsOK
    <2> HIDE DEF r
    <2>3. RowsOK'
        BY <1>7, <1>d, <2>1, <2>2, ReplaceRow DEF Requeue, Shape
    <2>4. RequestsOK'
        BY <1>7, <1>c, ReplaceRequest DEF Requeue, Shape
    <2>5. shared' \subseteq Keys
        BY <1>7, <1>d DEF Requeue, PutBack, Shape, CountsOK
    <2> QED
        BY <1>7, <2>3, <2>4, <2>5 DEF Requeue, Shape, CountsOK, WorkersOK, history
<1>8. ASSUME NEW a \in Admins, Approve(a) PROVE Shape'
    <2> DEFINE k == admin[a].key
               i == admin[a].inst
               r == [row[k] EXCEPT !.state = "queued", !.listed = i.listed,
                                   !.approved = i.approved \cup {i.pending},
                                   !.pending = i.pending]
    <2>0. k \in Keys /\ i \in InstType /\ i.pending \in NeedsApproval
        BY <1>8, <1>d DEF Approve
    <2>1. r \in RowType /\ r.doc = FALSE
        BY <1>8, <1>d, <2>0, FrontierAssumption DEF Approve, RowType, InstType, States
    <2>2. row' = [row EXCEPT ![k] = r]
        BY <1>8 DEF Approve
    <2> HIDE DEF r
    <2>3. RowsOK'
        BY <2>0, <2>1, <2>2, ReplaceRow DEF Shape
    <2>4. RequestsOK'
        BY <1>8, <1>c, ReplaceRequest DEF Approve, Shape
    <2>5. shared' \subseteq Keys /\ stale' \subseteq Keys
        BY <1>8, <2>0 DEF Approve, PutBack, Shape, CountsOK
    <2>6. granted' \in [Keys -> SUBSET Responses]
        BY <1>8, <2>0, FrontierAssumption DEF Approve, Shape, CountsOK
    <2> QED
        BY <1>8, <2>3, <2>4, <2>5, <2>6 DEF Approve, Shape, CountsOK, WorkersOK
<1>9. ASSUME NEW a \in Admins, GiveUp(a) PROVE Shape'
    <2>1. RequestsOK'
        BY <1>9, <1>c, ReplaceRequest DEF GiveUp, Shape
    <2> QED
        BY <1>9, <2>1 DEF GiveUp, Shape, CountsOK, WorkersOK, RowsOK, history
<1>10. ASSUME NEW k \in Keys, Delete(k) PROVE Shape'
    <2>1. Absent(row[k].id) \in RowType /\ Absent(row[k].id).state = "absent"
        BY <1>b, FrontierAssumption DEF Absent, RowType, States
    <2>2. RowsOK'
        BY <1>10, <2>1, ReplaceRow DEF Delete, Shape
    <2>3. CountsOK'
        BY <1>10, ForgetTypes, FrontierAssumption DEF Delete, Shape, CountsOK
    <2> QED
        BY <1>10, <2>2, <2>3 DEF Delete, Shape, WorkersOK, RequestsOK
<1>11. ASSUME UNCHANGED vars PROVE Shape'
    BY <1>11 DEF vars, history, Shape, RowsOK, WorkersOK, RequestsOK, CountsOK
<1> QED
    BY ONLY Shape, [Next]_vars, WorkerSteps, <1>1, <1>2, <1>3, <1>4, <1>5, <1>6, <1>7, <1>8, <1>9,
            <1>10, <1>11
       DEF Next, Step, Work

-----------------------------------------------------------------------------

(* Whoever has an instance has one of the row that is there, or of an older  *)
(* one: so nobody has an instance of a row that is new.                      *)
Ids ==
    /\ \A w \in Workers : worker[w].key \in Keys => worker[w].inst.id <= row[worker[w].key].id
    /\ \A a \in Admins : admin[a].key \in Keys => admin[a].inst.id <= row[admin[a].key].id

(* Ids never go back.                                                        *)
LEMMA IdsGrow == ASSUME Shape, [Next]_vars, NEW k \in Keys PROVE row[k].id <= row'[k].id
<1>a. row[k].id \in Nat /\ row \in [Keys -> RowType]
    BY DEF Shape, RowsOK, RowType
<1>b. ASSUME NEW S \in SUBSET Keys, NEW d, row' = Seed(S, d) PROVE row[k].id <= row'[k].id
    BY <1>a, <1>b DEF Seed, New
<1>1. ASSUME NEW w \in Workers, StartCrawl(w) PROVE row[k].id <= row'[k].id
    BY <1>1, <1>b DEF StartCrawl
<1>2. ASSUME NEW w \in Workers, Cite(w) PROVE row[k].id <= row'[k].id
    BY <1>2, <1>b DEF Cite
<1>3. ASSUME NEW l \in Keys, NEW x \in Candidates, SeedDiscovery(l, x) PROVE row[k].id <= row'[k].id
    BY <1>3, <1>a DEF SeedDiscovery, New, RowType
<1>4. ASSUME NEW w \in Workers, NEW l \in Keys, Claim(w, l) PROVE row[k].id <= row'[k].id
    BY <1>4, <1>a DEF Claim, RowType
<1>5. ASSUME NEW w \in Workers, NEW l \in Keys, Select(w, l) PROVE row[k].id <= row'[k].id
    BY <1>5, <1>a DEF Select
<1>6. ASSUME NEW a \in Admins, NEW l \in Keys, Ask(a, l) PROVE row[k].id <= row'[k].id
    BY <1>6, <1>a DEF Ask
<1>7. ASSUME NEW a \in Admins, Requeue(a) PROVE row[k].id <= row'[k].id
    BY <1>7, <1>a DEF Requeue, RowType
<1>8. ASSUME NEW a \in Admins, Approve(a) PROVE row[k].id <= row'[k].id
    BY <1>8, <1>a DEF Approve, RowType
<1>9. ASSUME NEW a \in Admins, GiveUp(a) PROVE row[k].id <= row'[k].id
    BY <1>9, <1>a DEF GiveUp
<1>10. ASSUME NEW l \in Keys, Delete(l) PROVE row[k].id <= row'[k].id
    BY <1>10, <1>a DEF Delete, Absent, RowType
<1>11. ASSUME UNCHANGED vars PROVE row[k].id <= row'[k].id
    BY <1>11, <1>a DEF vars
<1>12. ASSUME NEW w \in Workers, Handles(w) PROVE row[k].id <= row'[k].id
    BY <1>12, <1>a DEF Handles, Writes
<1> QED
    BY ONLY Shape, [Next]_vars, WorkerSteps, <1>1, <1>2, <1>3, <1>4, <1>5, <1>6, <1>7, <1>8, <1>9,
            <1>10, <1>11, <1>12
       DEF Next, Step, Work

(* No step gives anybody an instance that is newer than its row.             *)
LEMMA IdsStep == ASSUME Shape, Ids, [Next]_vars PROVE Ids'
<1>a. \A k \in Keys : row[k].id <= row'[k].id /\ row[k].id \in Nat /\ row'[k].id \in Nat
    BY IdsGrow, ShapeStep DEF Shape, RowsOK, RowType
<1>b. \A k \in Keys : Read(k).id = row[k].id
    BY Idles DEF Shape
<1>c. /\ worker \in [Workers -> WorkerType] /\ admin \in [Admins -> RequestType]
      /\ \A w \in Workers : worker[w].inst.id \in Nat
      /\ \A a \in Admins : admin[a].inst.id \in Nat
    BY DEF Shape, WorkersOK, RequestsOK, WorkerType, RequestType, InstType
<1>d. ASSUME UNCHANGED <<worker, admin>> PROVE Ids'
    BY <1>a, <1>c, <1>d DEF Ids
<1>e. ASSUME NEW w \in Workers, UNCHANGED admin,
             \A v \in Workers \ {w} : worker'[v] = worker[v],
             \/ worker'[w].key = NONE
             \/ worker'[w].key = worker[w].key /\ worker'[w].inst = worker[w].inst
             \/ worker'[w].key \in Keys /\ worker'[w].inst = Read(worker'[w].key)
      PROVE  Ids'
    <2>1. ASSUME NEW v \in Workers, worker'[v].key \in Keys
          PROVE  worker'[v].inst.id <= row'[worker'[v].key].id
        <3>1. CASE worker'[v].key = worker[v].key /\ worker'[v].inst = worker[v].inst
            BY <1>a, <1>c, <2>1, <3>1 DEF Ids
        <3>2. CASE worker'[v].inst = Read(worker'[v].key)
            BY <1>a, <1>b, <2>1, <3>2
        <3> QED
            BY <1>e, <2>1, <3>1, <3>2, FrontierAssumption
    <2> QED
        BY <1>a, <1>c, <1>e, <2>1 DEF Ids
<1>f. ASSUME NEW a \in Admins, UNCHANGED worker,
             \A b \in Admins \ {a} : admin'[b] = admin[b],
             \/ admin'[a].key = NONE
             \/ admin'[a].key \in Keys /\ admin'[a].inst.id = row[admin'[a].key].id
      PROVE  Ids'
    <2>1. ASSUME NEW b \in Admins, admin'[b].key \in Keys
          PROVE  admin'[b].inst.id <= row'[admin'[b].key].id
        BY <1>a, <1>c, <1>f, <2>1, FrontierAssumption DEF Ids
    <2> QED
        BY <1>a, <1>c, <1>f, <2>1 DEF Ids
<1>1. ASSUME NEW w \in Workers, StartCrawl(w) PROVE Ids'
    <2>1. worker'[w].key = NONE
        BY <1>1, <1>c DEF StartCrawl, Idle
    <2> QED
        BY <1>1, <1>c, <1>e, <2>1 DEF StartCrawl
<1>2. ASSUME NEW w \in Workers, Cite(w) PROVE Ids'
    <2>1. worker'[w].key = NONE
        BY <1>2, <1>c DEF Cite, Shape, WorkersOK, WorkerOK, WorkerType
    <2> QED
        BY <1>2, <1>c, <1>e, <2>1 DEF Cite
<1>3. ASSUME NEW l \in Keys, NEW x \in Candidates, SeedDiscovery(l, x) PROVE Ids'
    BY <1>3, <1>d DEF SeedDiscovery
<1>4. ASSUME NEW w \in Workers, NEW l \in Keys, Claim(w, l) PROVE Ids'
    <2>1. worker'[w].key = l /\ worker'[w].inst = Read(l)
        BY <1>4, <1>c DEF Claim, WorkerType
    <2> QED
        BY <1>4, <1>c, <1>e, <2>1 DEF Claim
<1>5. ASSUME NEW w \in Workers, NEW l \in Keys, Select(w, l) PROVE Ids'
    <2>1. worker'[w].key = l /\ worker'[w].inst = Read(l)
        BY <1>5, <1>c DEF Select, Idle
    <2> QED
        BY <1>5, <1>c, <1>e, <2>1 DEF Select
<1>6. ASSUME NEW a \in Admins, NEW l \in Keys, Ask(a, l) PROVE Ids'
    <2>1. admin'[a].key = l /\ admin'[a].inst.id = row[l].id
        BY <1>6, <1>b, <1>c DEF Ask, NoInst
    <2> QED
        BY <1>6, <1>c, <1>f, <2>1 DEF Ask
<1>7. ASSUME NEW a \in Admins, Requeue(a) PROVE Ids'
    BY <1>7, <1>c, <1>f DEF Requeue, NoRequest
<1>8. ASSUME NEW a \in Admins, Approve(a) PROVE Ids'
    BY <1>8, <1>c, <1>f DEF Approve, NoRequest
<1>9. ASSUME NEW a \in Admins, GiveUp(a) PROVE Ids'
    BY <1>9, <1>c, <1>f DEF GiveUp, NoRequest
<1>10. ASSUME NEW l \in Keys, Delete(l) PROVE Ids'
    BY <1>10, <1>d DEF Delete
<1>11. ASSUME UNCHANGED vars PROVE Ids'
    BY <1>11, <1>d DEF vars
<1>12. ASSUME NEW w \in Workers, Handles(w) PROVE Ids'
    BY <1>12, <1>e DEF Handles, At, Inst
<1> QED
    BY ONLY Shape, [Next]_vars, WorkerSteps, <1>1, <1>2, <1>3, <1>4, <1>5, <1>6, <1>7, <1>8, <1>9,
            <1>10, <1>11, <1>12
       DEF Next, Step, Work

-----------------------------------------------------------------------------

(* Record i of key k, a row or an instance of it, has no approval that was   *)
(* not granted, and, unless the key is stale, all that was recorded.         *)
Good(k, i) ==
    /\ i.approved \subseteq granted[k]
    /\ k \notin stale => trail[k] \subseteq i.listed /\ granted[k] \subseteq i.approved

(* Request a is about to approve row k, which is still there.                *)
Approves(a, k) == Approving(a, k) /\ Exists(k) /\ row[k].id = admin[a].inst.id

GoodKey(k) ==
    /\ Exists(k) => Good(k, row[k])
    /\ \A w \in Workers : Holds(w, k) => Good(k, worker[w].inst)
    /\ \A a \in Admins : Approves(a, k) => Good(k, admin[a].inst)

Records == \A k \in Keys : GoodKey(k)

(* A row that is new is in nobody's hands.                                   *)
LEMMA NewInNoHands ==
    ASSUME Shape, Ids, NEW k \in Keys, row'[k].id = row[k].id + 1,
           \A v \in Workers : worker'[v].key = k => worker'[v] = worker[v],
           \A a \in Admins : admin'[a] = admin[a]
    PROVE  (\A v \in Workers : ~Holds(v, k)') /\ (\A a \in Admins : ~Approves(a, k)')
<1>1. /\ row[k].id \in Nat
      /\ \A v \in Workers : worker[v].inst.id \in Nat
      /\ \A a \in Admins : admin[a].inst.id \in Nat
    BY DEF Shape, RowsOK, RowType, WorkersOK, RequestsOK, WorkerType, RequestType, InstType
<1> QED
    BY <1>1 DEF Ids, Holds, Approves, Approving

(* Nothing about key k changes.                                              *)
LEMMA SameKey ==
    ASSUME NEW k \in Keys, row'[k] = row[k], trail'[k] = trail[k], granted'[k] = granted[k],
           k \in stale' <=> k \in stale, GoodKey(k),
           \A v \in Workers : worker'[v].key = k => worker'[v] = worker[v],
           \A a \in Admins : admin'[a].key = k => admin'[a] = admin[a]
    PROVE  GoodKey(k)'
BY DEF GoodKey, Good, Holds, Exists, Approves, Approving

(* Every step keeps Good of each row, and of each instance in use.           *)
LEMMA RecordsStep == ASSUME Shape, Ids, Records, [Next]_vars PROVE Records'
<1> SUFFICES ASSUME NEW k \in Keys PROVE GoodKey(k)'
    BY DEF Records
<1>a. /\ worker \in [Workers -> WorkerType] /\ admin \in [Admins -> RequestType]
      /\ row \in [Keys -> RowType] /\ trail \in [Keys -> SUBSET Candidates]
      /\ granted \in [Keys -> SUBSET Responses] /\ NONE \notin Keys
    BY FrontierAssumption DEF Shape, RowsOK, WorkersOK, RequestsOK, CountsOK
<1>b. GoodKey(k)
    BY DEF Records
<1>c. /\ Read(k).listed = row[k].listed /\ Read(k).approved = row[k].approved
      /\ Read(k).id = row[k].id
    BY DEF Read
<1>d. ASSUME NEW w \in Workers, NEW S \in SUBSET Keys, NEW d \in 0..MaxDepth, row' = Seed(S, d),
             Forget(Fresh(S)), UNCHANGED <<admin, stale>>, worker'[w].key = NONE,
             \A v \in Workers \ {w} : worker'[v] = worker[v]
      PROVE  GoodKey(k)'
    <2>1. CASE k \in Fresh(S)
        <3>1. row'[k] = New(row[k].id + 1, d, {}) /\ trail'[k] = {} /\ granted'[k] = {}
            BY <1>d, <2>1, SeedRows DEF Forget, Shape
        <3>2. row'[k].id = row[k].id + 1 /\ row'[k].approved = {}
            BY <3>1 DEF New
        <3>3. (\A v \in Workers : ~Holds(v, k)') /\ (\A a \in Admins : ~Approves(a, k)')
            BY <1>a, <1>d, <3>2, NewInNoHands
        <3> QED
            BY <3>1, <3>2, <3>3 DEF GoodKey, Good
    <2>2. CASE k \notin Fresh(S)
        <3>1. row'[k] = row[k] /\ trail'[k] = trail[k] /\ granted'[k] = granted[k]
            BY <1>d, <2>2, SeedRows DEF Forget, Shape
        <3> QED
            BY <1>a, <1>b, <1>d, <3>1, SameKey
    <2> QED
        BY <2>1, <2>2
<1>1. ASSUME NEW w \in Workers, StartCrawl(w) PROVE GoodKey(k)'
    <2>1. worker'[w].key = NONE
        BY <1>1, <1>a DEF StartCrawl, Idle
    <2> QED
        BY <1>1, <1>a, <1>d, <2>1, FrontierAssumption DEF StartCrawl
<1>2. ASSUME NEW w \in Workers, Cite(w) PROVE GoodKey(k)'
    <2>1. worker'[w].key = NONE /\ Inst(w).depth + 1 \in 0..MaxDepth
        <3>1. WorkerOK(worker[w]) /\ worker[w] \in WorkerType /\ worker[w].step = "citing"
            BY <1>2 DEF Cite, Shape, WorkersOK
        <3>2. worker[w].key = NONE /\ Inst(w) \in InstType /\ Inst(w).depth < MaxDepth
            BY <3>1 DEF WorkerOK, WorkerType, Inst
        <3>3. Inst(w).depth + 1 \in 0..MaxDepth
            BY <3>2, FrontierAssumption DEF InstType
        <3>4. worker'[w].key = worker[w].key
            BY <1>2, <1>a, <3>1 DEF Cite, WorkerType
        <3> QED
            BY <3>2, <3>3, <3>4
    <2> QED
        BY <1>2, <1>a, <1>d, <2>1 DEF Cite
<1>3. ASSUME NEW l \in Keys, NEW x \in Candidates, SeedDiscovery(l, x) PROVE GoodKey(k)'
    <2>1. CASE k # l
        <3>1. /\ row'[k] = row[k] /\ trail'[k] = trail[k] /\ granted'[k] = granted[k]
              /\ (k \in stale' <=> k \in stale) /\ UNCHANGED <<worker, admin>>
            BY <1>3, <1>a, <2>1 DEF SeedDiscovery
        <3> QED
            BY <1>b, <3>1, SameKey
    <2>2. CASE k = l /\ Exists(k)
        <3>1. /\ row'[k] = [row[k] EXCEPT !.listed = @ \cup {x}]
              /\ trail'[k] = trail[k] \cup {x} /\ granted'[k] = granted[k]
              /\ UNCHANGED <<worker, admin>>
              /\ stale' = IF Held(k) \/ (\E a \in Admins : Approving(a, k))
                          THEN stale \cup {k} ELSE stale
            BY <1>3, <1>a, <2>2 DEF SeedDiscovery
        <3>2. /\ row'[k].listed = row[k].listed \cup {x} /\ row'[k].approved = row[k].approved
              /\ row'[k].id = row[k].id /\ row'[k].state = row[k].state
            BY <1>a, <3>1 DEF RowType
        <3>3. ASSUME NEW v \in Workers, Holds(v, k)' PROVE Holds(v, k) /\ k \in stale'
            BY <2>2, <3>1, <3>2, <3>3 DEF Holds, Held, Exists
        <3>4. ASSUME NEW a \in Admins, Approves(a, k)' PROVE Approves(a, k) /\ k \in stale'
            BY <2>2, <3>1, <3>2, <3>4 DEF Approves, Approving, Exists
        <3> QED
            BY <1>b, <2>2, <3>1, <3>2, <3>3, <3>4 DEF GoodKey, Good
    <2>3. CASE k = l /\ ~Exists(k)
        <3>1. /\ row'[k] = New(row[k].id + 1, 0, {x})
              /\ trail'[k] = {x} /\ granted'[k] = {} /\ UNCHANGED <<worker, admin>>
            BY <1>3, <1>a, <2>3 DEF SeedDiscovery
        <3>2. row'[k].id = row[k].id + 1 /\ row'[k].approved = {} /\ row'[k].listed = {x}
            BY <3>1 DEF New
        <3>3. (\A v \in Workers : ~Holds(v, k)') /\ (\A a \in Admins : ~Approves(a, k)')
            BY <3>1, <3>2, NewInNoHands
        <3> QED
            BY <3>1, <3>2, <3>3 DEF GoodKey, Good
    <2> QED
        BY <2>1, <2>2, <2>3
<1>e. ASSUME NEW w \in Workers, worker'[w].inst = Read(k), Exists(k),
             row'[k].listed = row[k].listed, row'[k].approved = row[k].approved,
             row'[k].id = row[k].id, UNCHANGED <<admin, history, stale>>,
             \A v \in Workers \ {w} : worker'[v] = worker[v]
      PROVE  GoodKey(k)'
    <2>1. Good(k, row[k]) /\ Good(k, row[k])'
        BY <1>b, <1>e DEF GoodKey, Good, history
    <2>2. ASSUME NEW v \in Workers, Holds(v, k)' PROVE Good(k, worker[v].inst)'
        <3>1. CASE v = w
            BY <1>c, <1>e, <2>1, <3>1 DEF Good, history
        <3>2. CASE v # w
            BY <1>b, <1>e, <2>2, <3>2 DEF GoodKey, Good, Holds, Exists, history
        <3> QED
            BY <3>1, <3>2
    <2>3. ASSUME NEW a \in Admins, Approves(a, k)' PROVE Good(k, admin[a].inst)'
        BY <1>b, <1>e, <2>3 DEF GoodKey, Good, Approves, Approving, Exists, history
    <2> QED
        BY <2>1, <2>2, <2>3 DEF GoodKey
<1>4. ASSUME NEW w \in Workers, NEW l \in Keys, Claim(w, l) PROVE GoodKey(k)'
    <2>1. worker'[w].key = l /\ worker'[w].inst = Read(l)
        BY <1>4, <1>a DEF Claim, WorkerType
    <2>2. CASE k = l
        <3>1. /\ row'[k].listed = row[k].listed /\ row'[k].approved = row[k].approved
              /\ row'[k].id = row[k].id /\ Exists(k)
            BY <1>4, <1>a, <2>2 DEF Claim, Claimable, Exists, RowType
        <3> QED
            BY <1>4, <1>a, <1>e, <2>1, <2>2, <3>1 DEF Claim
    <2>3. CASE k # l
        BY <1>4, <1>a, <1>b, <2>1, <2>3, SameKey DEF Claim, history
    <2> QED
        BY <2>2, <2>3
<1>5. ASSUME NEW w \in Workers, NEW l \in Keys, Select(w, l) PROVE GoodKey(k)'
    <2>1. worker'[w].key = l /\ worker'[w].inst = Read(l)
        BY <1>5, <1>a DEF Select, Idle
    <2>2. CASE k = l
        BY <1>5, <1>a, <1>e, <2>1, <2>2 DEF Select
    <2>3. CASE k # l
        BY <1>5, <1>a, <1>b, <2>1, <2>3, SameKey DEF Select, history
    <2> QED
        BY <2>2, <2>3
<1>6. ASSUME NEW a \in Admins, NEW l \in Keys, Ask(a, l) PROVE GoodKey(k)'
    <2>1. /\ admin'[a].key = l
          /\ admin'[a].verb = "approve" => admin'[a].inst = Read(l)
          /\ \A b \in Admins \ {a} : admin'[b] = admin[b]
          /\ UNCHANGED <<row, worker, history, stale>> /\ Exists(l)
        BY <1>6, <1>a DEF Ask
    <2>2. ASSUME NEW b \in Admins, Approves(b, k)' PROVE Good(k, admin[b].inst)'
        <3>1. CASE b = a
            <4>1. k = l /\ admin'[a].inst = Read(k)
                BY <2>1, <2>2, <3>1 DEF Approves, Approving
            <4> QED
                BY <1>b, <1>c, <2>1, <3>1, <4>1 DEF GoodKey, Good, history
        <3>2. CASE b # a
            BY <1>b, <2>1, <2>2, <3>2 DEF GoodKey, Good, Approves, Approving, Exists, history
        <3> QED
            BY <3>1, <3>2
    <2> QED
        BY <1>b, <2>1, <2>2 DEF GoodKey, Good, Holds, Exists, history
<1>7. ASSUME NEW a \in Admins, Requeue(a) PROVE GoodKey(k)'
    <2>1. /\ row'[k].listed = row[k].listed /\ row'[k].approved = row[k].approved
          /\ row'[k].id = row[k].id /\ Exists(k) <=> Exists(k)'
          /\ UNCHANGED <<worker, history, stale>>
        BY <1>7, <1>a DEF Requeue, InPlace, Exists, RowType
    <2>2. admin'[a].key = NONE /\ \A b \in Admins \ {a} : admin'[b] = admin[b]
        BY <1>7, <1>a DEF Requeue, NoRequest
    <2> QED
        BY <1>a, <1>b, <2>1, <2>2 DEF GoodKey, Good, Holds, Approves, Approving, history
<1>8. ASSUME NEW a \in Admins, Approve(a) PROVE GoodKey(k)'
    <2>2. admin'[a].key = NONE /\ (\A b \in Admins \ {a} : admin'[b] = admin[b]) /\ UNCHANGED worker
        BY <1>8, <1>a DEF Approve, NoRequest
    <2>3. CASE k # admin[a].key
        <3>1. /\ row'[k] = row[k] /\ trail'[k] = trail[k] /\ granted'[k] = granted[k]
              /\ k \in stale' <=> k \in stale
            BY <1>8, <1>a, <2>3 DEF Approve
        <3> QED
            BY <1>a, <1>b, <2>2, <2>3, <3>1, SameKey
    <2>4. CASE k = admin[a].key
        <3> DEFINE i == admin[a].inst
        <3>1. /\ row'[k].listed = i.listed /\ row'[k].approved = i.approved \cup {i.pending}
              /\ row'[k].id = row[k].id /\ trail'[k] = trail[k]
              /\ granted'[k] = granted[k] \cup {i.pending}
              /\ stale' = IF Held(k) \/ (\E b \in Admins \ {a} : Approving(b, k))
                          THEN stale \cup {k} ELSE stale
            BY <1>8, <1>a, <2>4 DEF Approve, RowType
        <3>2. Good(k, i) /\ Exists(k)
            BY <1>8, <1>b, <2>4 DEF Approve, InPlace, GoodKey, Approves, Approving
        <3>3. Good(k, row[k])'
            BY <3>1, <3>2 DEF Good
        <3>4. ASSUME NEW v \in Workers, Holds(v, k)' PROVE Holds(v, k) /\ k \in stale'
            BY <2>2, <3>1, <3>2, <3>4 DEF Holds, Held, Exists
        <3>5. ASSUME NEW b \in Admins, Approves(b, k)' PROVE Approves(b, k) /\ k \in stale' /\ b # a
            BY <1>a, <2>2, <3>1, <3>2, <3>5 DEF Approves, Approving, Exists
        <3> QED
            BY <1>b, <2>2, <3>1, <3>3, <3>4, <3>5 DEF GoodKey, Good
    <2> QED
        BY <2>3, <2>4
<1>9. ASSUME NEW a \in Admins, GiveUp(a) PROVE GoodKey(k)'
    <2>1. admin'[a].key = NONE /\ \A b \in Admins \ {a} : admin'[b] = admin[b]
        BY <1>9, <1>a DEF GiveUp, NoRequest
    <2> QED
        BY <1>9, <1>a, <1>b, <2>1, SameKey DEF GiveUp, history
<1>10. ASSUME NEW l \in Keys, Delete(l) PROVE GoodKey(k)'
    <2>1. CASE k = l
        <3>1. ~Exists(k)'
            BY <1>10, <1>a, <2>1 DEF Delete, Absent, Exists
        <3> QED
            BY <3>1 DEF GoodKey, Holds, Approves
    <2>2. CASE k # l
        BY <1>10, <1>a, <1>b, <2>2, SameKey DEF Delete, Forget
    <2> QED
        BY <2>1, <2>2
<1>11. ASSUME UNCHANGED vars PROVE GoodKey(k)'
    BY <1>11, <1>b, SameKey DEF vars, history
<1>12. ASSUME NEW w \in Workers, Handles(w) PROVE GoodKey(k)'
    <2>1. \A v \in Workers : worker'[v].key = k => worker'[v].inst = worker[v].inst /\ worker[v].key = k
        BY <1>12, <1>a DEF Handles, At, Inst
    <2>2. row'[k].id = row[k].id /\ (Exists(k)' <=> Exists(k)) /\ UNCHANGED <<admin, history, stale>>
        BY <1>12 DEF Handles, Writes, Holds, Exists
    <2>3. \A v \in Workers : Holds(v, k)' => Holds(v, k) /\ Good(k, worker[v].inst)'
        BY <1>b, <2>1, <2>2 DEF Holds, GoodKey, Good, history
    <2>4. Exists(k)' => Good(k, row[k])'
        <3>1. CASE row'[k] = row[k]
            BY <1>b, <2>2, <3>1 DEF GoodKey, Good, history
        <3>2. CASE Writes(w, k)
            BY <1>b, <2>2, <3>2 DEF Writes, Inst, GoodKey, Good, Holds, history
        <3> QED
            BY <1>12, <3>1, <3>2 DEF Handles
    <2> QED
        BY <1>b, <2>2, <2>3, <2>4 DEF GoodKey, Good, Approves, Approving, history
<1> QED
    BY ONLY Shape, [Next]_vars, WorkerSteps, <1>1, <1>2, <1>3, <1>4, <1>5, <1>6, <1>7, <1>8, <1>9,
            <1>10, <1>11, <1>12
       DEF Next, Step, Work

-----------------------------------------------------------------------------

(* A row that is held, and was not put back or selected beside its worker,   *)
(* has one worker, and is not queued.                                        *)
HandsOf(k) ==
    k \notin shared =>
        \A w \in Workers : Holds(w, k) =>
            /\ row[k].state # "queued"
            /\ worker[w].kind = "crawl" \/ worker[w].step # "claimed" =>
                  row[k].state = "in_progress"
            /\ \A v \in Workers : Holds(v, k) => v = w

Hands == \A k \in Keys : HandsOf(k)

(* Nobody takes the row, which keeps its state.                              *)
LEMMA SameHands ==
    ASSUME NEW k \in Keys, HandsOf(k), row'[k].state = row[k].state, row'[k].id = row[k].id,
           k \in shared => k \in shared',
           \A v \in Workers : worker'[v].key = k => worker'[v] = worker[v]
    PROVE  HandsOf(k)'
BY DEF HandsOf, Holds, Exists

(* Every step keeps a row that is not shared in the hands of one worker.     *)
LEMMA HandsStep == ASSUME Shape, Ids, Hands, [Next]_vars PROVE Hands'
<1> SUFFICES ASSUME NEW k \in Keys PROVE HandsOf(k)'
    BY DEF Hands
<1>a. /\ worker \in [Workers -> WorkerType] /\ row \in [Keys -> RowType] /\ NONE \notin Keys
      /\ admin \in [Admins -> RequestType]
    BY FrontierAssumption DEF Shape, RowsOK, WorkersOK, RequestsOK
<1>b. HandsOf(k)
    BY DEF Hands
<1>c. Read(k).id = row[k].id
    BY DEF Read
<1>d. ASSUME NEW w \in Workers, NEW S \in SUBSET Keys, NEW d \in 0..MaxDepth, row' = Seed(S, d),
             UNCHANGED <<admin, shared>>, worker'[w].key = NONE,
             \A v \in Workers \ {w} : worker'[v] = worker[v]
      PROVE  HandsOf(k)'
    <2>1. CASE k \in Fresh(S)
        <3>1. row'[k] = New(row[k].id + 1, d, {})
            BY <1>d, <2>1, SeedRows DEF Shape
        <3>2. row'[k].id = row[k].id + 1
            BY <3>1 DEF New
        <3>3. \A v \in Workers : ~Holds(v, k)'
            BY <1>a, <1>d, <3>2, NewInNoHands
        <3> QED
            BY <3>3 DEF HandsOf
    <2>2. CASE k \notin Fresh(S)
        <3>1. row'[k] = row[k]
            BY <1>d, <2>2, SeedRows DEF Shape
        <3> QED
            BY <1>a, <1>b, <1>d, <3>1, SameHands
    <2> QED
        BY <2>1, <2>2
<1>1. ASSUME NEW w \in Workers, StartCrawl(w) PROVE HandsOf(k)'
    <2>1. worker'[w].key = NONE
        BY <1>1, <1>a DEF StartCrawl, Idle
    <2> QED
        BY <1>1, <1>a, <1>d, <2>1, FrontierAssumption DEF StartCrawl
<1>2. ASSUME NEW w \in Workers, Cite(w) PROVE HandsOf(k)'
    <2>1. worker'[w].key = NONE /\ Inst(w).depth + 1 \in 0..MaxDepth
        <3>1. WorkerOK(worker[w]) /\ worker[w] \in WorkerType /\ worker[w].step = "citing"
            BY <1>2 DEF Cite, Shape, WorkersOK
        <3>2. worker[w].key = NONE /\ Inst(w) \in InstType /\ Inst(w).depth < MaxDepth
            BY <3>1 DEF WorkerOK, WorkerType, Inst
        <3>3. Inst(w).depth + 1 \in 0..MaxDepth
            BY <3>2, FrontierAssumption DEF InstType
        <3>4. worker'[w].key = worker[w].key
            BY <1>2, <1>a, <3>1 DEF Cite, WorkerType
        <3> QED
            BY <3>2, <3>3, <3>4
    <2> QED
        BY <1>2, <1>a, <1>d, <2>1 DEF Cite
<1>3. ASSUME NEW l \in Keys, NEW x \in Candidates, SeedDiscovery(l, x) PROVE HandsOf(k)'
    <2>1. CASE Exists(k) \/ k # l
        <3>1. row'[k].state = row[k].state /\ row'[k].id = row[k].id
            BY <1>3, <1>a, <2>1 DEF SeedDiscovery, RowType
        <3> QED
            BY <1>3, <1>b, <3>1, SameHands DEF SeedDiscovery
    <2>2. CASE k = l /\ ~Exists(k)
        <3>1. row'[k].id = row[k].id + 1
            BY <1>3, <1>a, <2>2 DEF SeedDiscovery, New
        <3>2. \A v \in Workers : ~Holds(v, k)'
            BY <1>3, <3>1, NewInNoHands DEF SeedDiscovery
        <3> QED
            BY <3>2 DEF HandsOf
    <2> QED
        BY <2>1, <2>2
<1>4. ASSUME NEW w \in Workers, NEW l \in Keys, Claim(w, l) PROVE HandsOf(k)'
    <2>1. /\ worker'[w].key = l /\ \A v \in Workers \ {w} : worker'[v] = worker[v]
          /\ shared' = shared
        BY <1>4, <1>a DEF Claim, WorkerType
    <2>2. CASE k = l
        <3>1. /\ row[k].state = "queued" /\ row'[k].state = "in_progress"
              /\ row'[k].id = row[k].id
            BY <1>4, <1>a, <2>2 DEF Claim, Claimable, RowType
        <3>2. k \notin shared => \A v \in Workers : ~Holds(v, k)
            BY <1>b, <3>1 DEF HandsOf
        <3>3. k \notin shared => \A v \in Workers \ {w} : ~Holds(v, k)'
            BY <2>1, <3>1, <3>2 DEF Holds, Exists
        <3> QED
            BY <2>1, <3>1, <3>3 DEF HandsOf
    <2>3. CASE k # l
        <3>1. row'[k] = row[k]
            BY <1>4, <1>a, <2>3 DEF Claim
        <3> QED
            BY <1>b, <2>1, <2>3, <3>1, SameHands
    <2> QED
        BY <2>2, <2>3
<1>5. ASSUME NEW w \in Workers, NEW l \in Keys, Select(w, l) PROVE HandsOf(k)'
    <2>1. /\ worker'[w].key = l /\ \A v \in Workers \ {w} : worker'[v] = worker[v]
          /\ worker'[w].kind = "selected" /\ worker'[w].step = "claimed" /\ row' = row
        BY <1>5, <1>a DEF Select, Idle
    <2>2. CASE k = l
        <3>1. ASSUME k \notin shared' PROVE row[k].state # "queued" /\ ~Held(k)
            BY <1>5, <2>2, <3>1 DEF Select
        <3>2. k \notin shared' => \A v \in Workers \ {w} : ~Holds(v, k)'
            BY <2>1, <3>1 DEF Holds, Held, Exists
        <3> QED
            BY <2>1, <3>1, <3>2 DEF HandsOf
    <2>3. CASE k # l
        <3>1. k \in shared => k \in shared'
            BY <1>5 DEF Select
        <3> QED
            BY <1>b, <2>1, <2>3, <3>1, SameHands
    <2> QED
        BY <2>2, <2>3
<1>6. ASSUME NEW a \in Admins, NEW l \in Keys, Ask(a, l) PROVE HandsOf(k)'
    BY <1>6, <1>b, SameHands DEF Ask
<1>e. ASSUME NEW a \in Admins, PutBack(a), UNCHANGED worker,
             k # admin[a].key => row'[k] = row[k], row'[k].id = row[k].id, Exists(k)' <=> Exists(k)
      PROVE  HandsOf(k)'
    <2>1. CASE k = admin[a].key
        <3>1. k \notin shared' => ~Held(k)
            BY <1>e, <2>1 DEF PutBack
        <3> QED
            BY <1>e, <3>1 DEF HandsOf, Held, Holds
    <2>2. CASE k # admin[a].key
        <3>1. k \in shared => k \in shared'
            BY <1>e DEF PutBack
        <3> QED
            BY <1>b, <1>e, <2>2, <3>1, SameHands
    <2> QED
        BY <2>1, <2>2
<1>7. ASSUME NEW a \in Admins, Requeue(a) PROVE HandsOf(k)'
    <2>1. /\ k # admin[a].key => row'[k] = row[k]
          /\ row'[k].id = row[k].id /\ (Exists(k)' <=> Exists(k))
        BY <1>7, <1>a DEF Requeue, InPlace, Exists, RowType
    <2> QED
        BY <1>7, <1>e, <2>1 DEF Requeue
<1>8. ASSUME NEW a \in Admins, Approve(a) PROVE HandsOf(k)'
    <2>1. /\ k # admin[a].key => row'[k] = row[k]
          /\ row'[k].id = row[k].id /\ (Exists(k)' <=> Exists(k))
        BY <1>8, <1>a DEF Approve, InPlace, Exists, RowType
    <2> QED
        BY <1>8, <1>e, <2>1 DEF Approve
<1>9. ASSUME NEW a \in Admins, GiveUp(a) PROVE HandsOf(k)'
    BY <1>9, <1>b, SameHands DEF GiveUp
<1>10. ASSUME NEW l \in Keys, Delete(l) PROVE HandsOf(k)'
    <2>1. CASE k = l
        <3>1. ~Exists(k)'
            BY <1>10, <1>a, <2>1 DEF Delete, Absent, Exists
        <3> QED
            BY <3>1 DEF HandsOf, Holds
    <2>2. CASE k # l
        <3>1. row'[k] = row[k]
            BY <1>10, <1>a, <2>2 DEF Delete
        <3> QED
            BY <1>10, <1>b, <3>1, SameHands DEF Delete
    <2> QED
        BY <2>1, <2>2
<1>11. ASSUME UNCHANGED vars PROVE HandsOf(k)'
    BY <1>11, <1>b, SameHands DEF vars
<1>12. ASSUME NEW w \in Workers, Handles(w), Shape' PROVE HandsOf(k)'
    <2>1. row'[k].id = row[k].id /\ (Exists(k)' <=> Exists(k)) /\ shared' = shared
        BY <1>12 DEF Handles, Writes, Holds, Exists
    <2>2. \A v \in Workers : Holds(v, k)' => Holds(v, k)
        BY <1>12, <1>a, <2>1 DEF Handles, Holds, At, Inst
    <2>3. ASSUME k \notin shared, NEW v \in Workers, Holds(v, k)', v # w
          PROVE  row'[k] = row[k] /\ worker'[v] = worker[v]
        BY <1>12, <1>b, <2>2, <2>3 DEF Handles, Writes, HandsOf
    <2>4. ASSUME k \notin shared, Holds(w, k)' PROVE row'[k].state = "in_progress"
        <3>1. Holds(w, k) /\ worker'[w].key = k /\ At(w) = k /\ k # NONE
            BY <1>a, <2>2, <2>4 DEF Holds, At
        <3>2. CASE Writes(w, k)
            BY <3>1, <3>2 DEF Writes
        <3>3. CASE row'[k] = row[k]
            <4>1. worker[w].step # "claimed" \/ row'[k].state = "in_progress"
                BY <1>12, <3>1 DEF Handles
            <4> QED
                BY <1>b, <2>4, <3>1, <3>3, <4>1 DEF HandsOf
        <3> QED
            BY <1>12, <3>2, <3>3 DEF Handles
    <2> QED
        BY <1>b, <2>1, <2>2, <2>3, <2>4 DEF HandsOf
<1> QED
    BY ONLY Shape, [Next]_vars, WorkerSteps, <1>1, <1>2, <1>3, <1>4, <1>5, <1>6, <1>7, <1>8, <1>9,
            <1>10, <1>11, <1>12
       DEF Next, Step, Work

-----------------------------------------------------------------------------

(* What is in progress is in somebody's hands, unless a worker has left it.  *)
HeldOf(k) == k \notin lost /\ row[k].state = "in_progress" => Held(k)

Tended == lost \subseteq Keys /\ \A k \in Keys : HeldOf(k)

(* What was left counts as left as long as it is in progress.                *)
LEMMA StillLeft ==
    ASSUME lost \subseteq Keys, [Next]_vars
    PROVE  lost' \subseteq Keys /\ \A k \in lost : Excused(k)
<1>1. ASSUME NEW S \in SUBSET Keys, Left(S)
      PROVE  lost' \subseteq Keys /\ \A k \in lost : Excused(k)
    BY <1>1 DEF Left, Excused
<1>2. ASSUME UNCHANGED vars PROVE lost' \subseteq Keys /\ \A k \in lost : Excused(k)
    BY <1>2 DEF vars, Excused
<1> QED
    BY <1>1, <1>2 DEF Next

(* Nobody lets go of the row, which keeps its state, unless it is settled.   *)
LEMMA SameHeld ==
    ASSUME NEW k \in Keys, HeldOf(k), k \in lost => Excused(k),
           row'[k].state = "in_progress" => row'[k].state = row[k].state /\ row'[k].id = row[k].id,
           \A v \in Workers : worker[v].key = k =>
               worker'[v].key = k /\ worker'[v].inst = worker[v].inst
    PROVE  HeldOf(k)'
BY DEF HeldOf, Held, Holds, Exists, Excused

(* Every step keeps what is in progress in somebody's hands.                 *)
LEMMA TendedStep == ASSUME Shape, Ids, Tended, [Next]_vars PROVE Tended'
<1> SUFFICES ASSUME NEW k \in Keys PROVE HeldOf(k)'
    BY StillLeft DEF Tended
<1>a. /\ worker \in [Workers -> WorkerType] /\ row \in [Keys -> RowType] /\ NONE \notin Keys
      /\ admin \in [Admins -> RequestType]
    BY FrontierAssumption DEF Shape, RowsOK, WorkersOK, RequestsOK
<1>b. HeldOf(k) /\ (k \in lost => Excused(k))
    BY StillLeft DEF Tended
<1>c. Read(k).id = row[k].id
    BY DEF Read
<1>d. ASSUME NEW w \in Workers, worker[w].key = NONE,
             \A v \in Workers \ {w} : worker'[v] = worker[v],
             row'[k] = row[k] \/ row'[k].state # "in_progress"
      PROVE  HeldOf(k)'
    BY <1>a, <1>b, <1>d, SameHeld
<1>e. ASSUME NEW S \in SUBSET Keys, NEW d \in 0..MaxDepth, row' = Seed(S, d)
      PROVE  row'[k] = row[k] \/ row'[k].state # "in_progress"
    BY <1>e DEF Seed, New
<1>1. ASSUME NEW w \in Workers, StartCrawl(w) PROVE HeldOf(k)'
    BY <1>1, <1>a, <1>d, <1>e, FrontierAssumption DEF StartCrawl, Idle
<1>2. ASSUME NEW w \in Workers, Cite(w) PROVE HeldOf(k)'
    <2>1. worker[w].key = NONE /\ Inst(w).depth + 1 \in 0..MaxDepth
        <3>1. WorkerOK(worker[w]) /\ worker[w] \in WorkerType /\ worker[w].step = "citing"
            BY <1>2 DEF Cite, Shape, WorkersOK
        <3>2. worker[w].key = NONE /\ Inst(w) \in InstType /\ Inst(w).depth < MaxDepth
            BY <3>1 DEF WorkerOK, WorkerType, Inst
        <3>3. Inst(w).depth + 1 \in 0..MaxDepth
            BY <3>2, FrontierAssumption DEF InstType
        <3>4. worker'[w].key = worker[w].key
            BY <1>2, <1>a, <3>1 DEF Cite, WorkerType
        <3> QED
            BY <3>2, <3>3, <3>4
    <2> QED
        BY <1>2, <1>a, <1>d, <1>e, <2>1 DEF Cite
<1>3. ASSUME NEW l \in Keys, NEW x \in Candidates, SeedDiscovery(l, x) PROVE HeldOf(k)'
    <2>1. row'[k].state = "in_progress" => row'[k].state = row[k].state /\ row'[k].id = row[k].id
        BY <1>3, <1>a DEF SeedDiscovery, New, RowType
    <2> QED
        BY <1>3, <1>b, <2>1, SameHeld DEF SeedDiscovery
<1>4. ASSUME NEW w \in Workers, NEW l \in Keys, Claim(w, l) PROVE HeldOf(k)'
    <2>1. /\ worker'[w].key = l /\ worker'[w].inst = Read(l) /\ worker[w].key = NONE
          /\ \A v \in Workers \ {w} : worker'[v] = worker[v]
        BY <1>4, <1>a DEF Claim, WorkerType, Shape, WorkersOK, WorkerOK
    <2>2. CASE k = l
        <3>1. row'[k].id = row[k].id /\ row'[k].state = "in_progress"
            BY <1>4, <1>a, <2>2 DEF Claim, RowType
        <3>2. Holds(w, k)'
            BY <1>c, <2>1, <2>2, <3>1 DEF Holds, Exists
        <3> QED
            BY <3>2 DEF HeldOf, Held
    <2>3. CASE k # l
        BY <1>4, <1>a, <1>d, <2>1, <2>3 DEF Claim
    <2> QED
        BY <2>2, <2>3
<1>5. ASSUME NEW w \in Workers, NEW l \in Keys, Select(w, l) PROVE HeldOf(k)'
    BY <1>5, <1>a, <1>d DEF Select, Idle
<1>6. ASSUME NEW a \in Admins, NEW l \in Keys, Ask(a, l) PROVE HeldOf(k)'
    BY <1>6, <1>b, SameHeld DEF Ask
<1>7. ASSUME NEW a \in Admins, Requeue(a) PROVE HeldOf(k)'
    <2>1. row'[k].state = "in_progress" => row'[k].state = row[k].state /\ row'[k].id = row[k].id
        BY <1>7, <1>a DEF Requeue, RowType
    <2> QED
        BY <1>7, <1>b, <2>1, SameHeld DEF Requeue
<1>8. ASSUME NEW a \in Admins, Approve(a) PROVE HeldOf(k)'
    <2>1. row'[k].state = "in_progress" => row'[k].state = row[k].state /\ row'[k].id = row[k].id
        BY <1>8, <1>a DEF Approve, RowType
    <2> QED
        BY <1>8, <1>b, <2>1, SameHeld DEF Approve
<1>9. ASSUME NEW a \in Admins, GiveUp(a) PROVE HeldOf(k)'
    BY <1>9, <1>b, SameHeld DEF GiveUp
<1>10. ASSUME NEW l \in Keys, Delete(l) PROVE HeldOf(k)'
    <2>1. row'[k].state = "in_progress" => row'[k].state = row[k].state /\ row'[k].id = row[k].id
        BY <1>10, <1>a DEF Delete, Absent, RowType
    <2> QED
        BY <1>10, <1>b, <2>1, SameHeld DEF Delete
<1>11. ASSUME UNCHANGED vars PROVE HeldOf(k)'
    BY <1>11, <1>b, SameHeld DEF vars
<1>12. ASSUME NEW w \in Workers, Handles(w) PROVE HeldOf(k)'
    <2> SUFFICES ASSUME k \notin lost', row'[k].state = "in_progress" PROVE Held(k)'
        BY DEF HeldOf
    <2>1. row'[k].id = row[k].id /\ Exists(k)'
        BY <1>12 DEF Handles, Writes, Exists
    <2>2. CASE Writes(w, k)
        <3>1. worker'[w].key = k /\ Holds(w, k)
            BY <2>2 DEF Writes
        <3>2. worker'[w].inst = worker[w].inst
            BY <1>12, <1>a, <3>1 DEF Handles, Inst
        <3> QED
            BY <2>1, <3>1, <3>2 DEF Held, Holds
    <2>3. CASE ~Writes(w, k)
        <3>1. row'[k] = row[k] /\ k \notin lost /\ ~Excused(k)
            BY <1>b, <1>12, <2>3 DEF Handles, Excused
        <3>2. PICK v \in Workers : Holds(v, k)
            BY <1>b, <3>1 DEF HeldOf, Held
        <3>3. worker'[v].key = k /\ worker'[v].inst = worker[v].inst
            BY <1>12, <1>a, <2>3, <3>1, <3>2 DEF Handles, Holds, Inst
        <3> QED
            BY <2>1, <3>2, <3>3 DEF Held, Holds
    <2> QED
        BY <2>2, <2>3
<1> QED
    BY ONLY Shape, [Next]_vars, WorkerSteps, <1>1, <1>2, <1>3, <1>4, <1>5, <1>6, <1>7, <1>8, <1>9,
            <1>10, <1>11, <1>12
       DEF Next, Step, Work

-----------------------------------------------------------------------------

(* The inductive invariant.                                                  *)
Inv == Shape /\ Ids /\ Records /\ Hands /\ Tended

(* It holds when there are no rows yet, and everybody is idle.               *)
LEMMA InitInv == Init => Inv
<1> SUFFICES ASSUME Init PROVE Inv
    OBVIOUS
<1>1. /\ \A k \in Keys : row[k] = Absent(0) /\ ~Exists(k)
      /\ \A w \in Workers : worker[w] = Idle
      /\ \A a \in Admins : admin[a] = NoRequest
    BY DEF Init, Exists, Absent
<1>2. Shape
    <2>1. Absent(0) \in RowType /\ Absent(0).state # "queued"
        BY FrontierAssumption DEF Absent, RowType, States
    <2>2. RowsOK
        BY <1>1, <2>1 DEF RowsOK, Init
    <2>3. WorkersOK /\ RequestsOK
        BY <1>1, Idles DEF WorkersOK, RequestsOK, Init, WorkerOK, RequestOK
    <2>4. CountsOK
        BY FrontierAssumption DEF CountsOK, Init
    <2> QED
        BY <2>2, <2>3, <2>4 DEF Shape
<1>3. Ids
    BY <1>1, FrontierAssumption DEF Ids, Idle, NoRequest
<1>4. Records /\ Hands /\ Tended
    BY <1>1 DEF Records, GoodKey, Holds, Approves, Hands, HandsOf, Tended, HeldOf, Absent, Init
<1> QED
    BY <1>2, <1>3, <1>4 DEF Inv

(* Every step keeps it.                                                      *)
LEMMA NextInv == Inv /\ [Next]_vars => Inv'
BY ShapeStep, IdsStep, RecordsStep, HandsStep, TendedStep DEF Inv

(* So it always holds.                                                       *)
LEMMA Invariance == Spec => []Inv
<1>1. Init => Inv
    BY InitInv
<1>2. Inv /\ [Next]_vars => Inv'
    BY NextInv
<1> QED
    BY <1>1, <1>2, PTL DEF Spec

(* Rows and instances keep their types, and no queued row has a document.    *)
THEOREM FrontierTypeCorrect == Spec => []TypeOK
<1>1. Inv => TypeOK
    BY DEF Inv, Shape, RowsOK, WorkersOK, RequestsOK, CountsOK, Tended, WorkerType, RequestType,
           TypeOK
<1> QED
    BY <1>1, Invariance, PTL

(* However many crawls claim rows: one worker has a row that nobody put back *)
(* or selected beside a worker, and the row says so.                         *)
THEOREM OneWorkerEach == Spec => []OneWorkerPerRow
<1>1. Inv => OneWorkerPerRow
    BY DEF Inv, Hands, HandsOf, OneWorkerPerRow
<1> QED
    BY <1>1, Invariance, PTL

(* However old the instances are that workers and superusers save: a         *)
(* response is ingested for a row just when it was approved for that row.    *)
THEOREM OnlyWhatWasApproved == Spec => []IngestedAsApproved
<1>1. ASSUME Inv, NEW w \in Workers, worker[w].got # NONE, Here(w)
      PROVE  worker[w].got \in granted[At(w)]
    <2>1. WorkerOK(worker[w]) /\ worker[w] \in WorkerType
        BY <1>1 DEF Inv, Shape, WorkersOK
    <2>2. At(w) \in Keys /\ worker[w].got \in worker[w].inst.approved
        BY <1>1, <2>1 DEF WorkerOK, WorkerType, At
    <2>3. Good(At(w), worker[w].inst)
        BY <1>1, <2>2 DEF Inv, Records, GoodKey, Here
    <2> QED
        BY <2>2, <2>3 DEF Good
<1>2. Inv => IngestedAsApproved
    BY <1>1 DEF IngestedAsApproved
<1> QED
    BY <1>2, Invariance, PTL

(* A row has every candidate and approval that was recorded for it, unless   *)
(* it was recorded beside an instance that was saved later.                  *)
THEOREM TrailIsKept == Spec => []TrailKept
<1>1. Inv => TrailKept
    BY DEF Inv, Records, GoodKey, Good, TrailKept
<1> QED
    BY <1>1, Invariance, PTL

(* A row in progress is in somebody's hands, unless a worker has died or an  *)
(* exception that nothing catches has ended its task.                        *)
THEOREM NobodyStranded == Spec => []NothingStranded
<1>1. Inv => NothingStranded
    BY DEF Inv, Tended, HeldOf, NothingStranded
<1> QED
    BY <1>1, Invariance, PTL

=============================================================================
