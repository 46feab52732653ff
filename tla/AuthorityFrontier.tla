--------------------------- MODULE AuthorityFrontier ---------------------------
(***************************************************************************)
(* The frontier of the authority crawl (enrichment/services): one row for  *)
(* each section of law that documents cite.  A crawl seeds rows, claims    *)
(* them one by one, fetches what a provider has, lets a gate decide and    *)
(* imports it, and seeds what the new document cites in its turn.          *)
(* Superusers run discovery on rows they select, put rows back into the    *)
(* queue, approve what the gate has parked, and delete rows.               *)
(*                                                                         *)
(* Only the claim and the seeds take a lock.  Everyone else saves an       *)
(* instance of the row that it has read before: the state, and with each   *)
(* attempt or approval the whole audit trail, candidate_sources.  Of the   *)
(* trail the model keeps what decisions are made from: the candidates that *)
(* were listed, the responses that were approved, and the response of the  *)
(* latest attempt that awaits approval.  A response stands for its         *)
(* fingerprint.  A batch of selected rows is taken one row at a time.      *)
(***************************************************************************)
EXTENDS Integers, FiniteSets

CONSTANTS
    Keys,            \* section roots that may be cited
    Jurisdictions,
    JurisdictionOf,  \* [Keys -> Jurisdictions]
    Workers,         \* tasks that crawl, or run discovery on a selected row
    Admins,          \* requests of superusers in flight
    Responses,       \* what a provider may answer
    NeedsApproval,   \* the responses that may not be ingested unasked
    Candidates,      \* what discovery providers list
    NONE,            \* no key, no response
    MaxDepth, MaxAuthorities, PerJurisdictionCap,  \* bounds of a crawl
    MaxActions       \* bound: requests of superusers

ASSUME FrontierAssumption ==
    /\ JurisdictionOf \in [Keys -> Jurisdictions]
    /\ NeedsApproval \subseteq Responses /\ NONE \notin Keys \cup Responses
    /\ MaxDepth \in Nat /\ MaxAuthorities \in Nat /\ PerJurisdictionCap \in Nat \ {0}
    /\ MaxActions \in Nat

VARIABLES
    row,      \* AuthorityFrontier, the row of each key
    worker,   \* what each worker does, and the instance it has in memory
    admin,    \* what each request is about to do, and the instance that it has read
    actions,
    trail,    \* history: the candidates that were recorded in the row of a key
    granted,  \* history: the responses that were approved for it
    shared,   \* history: keys whose row was put back, or selected, beside a worker
    stale,    \* history: keys whose trail grew beside an older instance
    lost      \* history: keys in progress that a worker has left without a mark

history == <<trail, granted>>
vars == <<row, worker, admin, actions, history, shared, stale, lost>>

(* The row of a key that has none: ids go on counting.                       *)
Absent(id) == [id |-> id, state |-> "absent", depth |-> 0, doc |-> FALSE,
               listed |-> {}, approved |-> {}, pending |-> NONE]
New(id, depth, listed) ==
    [id |-> id, state |-> "queued", depth |-> depth, doc |-> FALSE,
     listed |-> listed, approved |-> {}, pending |-> NONE]

(* What is used later of an instance that was read: a save writes the state  *)
(* and the fields that its caller has set, never the rest.                   *)
Read(k) == [id |-> row[k].id, depth |-> row[k].depth, listed |-> row[k].listed,
            approved |-> row[k].approved, pending |-> row[k].pending]
NoInst == [id |-> 0, depth |-> 0, listed |-> {}, approved |-> {}, pending |-> NONE]

NoTally == [j \in Jurisdictions |-> 0]
Idle == [step |-> "idle", kind |-> "none", scope |-> {}, key |-> NONE,
         inst |-> NoInst, got |-> NONE, tally |-> NoTally]
NoRequest == [verb |-> "none", key |-> NONE, inst |-> NoInst]

Init ==
    /\ row = [k \in Keys |-> Absent(0)]
    /\ worker = [w \in Workers |-> Idle] /\ admin = [a \in Admins |-> NoRequest]
    /\ actions = 0
    /\ trail = [k \in Keys |-> {}] /\ granted = [k \in Keys |-> {}]
    /\ shared = {} /\ stale = {} /\ lost = {}

Exists(k) == row[k].state # "absent"

(* Worker w has key k in hand, and the row that it read is still there.      *)
Holds(w, k) == worker[w].key = k /\ Exists(k) /\ row[k].id = worker[w].inst.id
Approving(a, k) == admin[a].verb = "approve" /\ admin[a].key = k
Held(k) == \E w \in Workers : Holds(w, k)

-----------------------------------------------------------------------------
(* Seeds: get_or_create, key by key.  A seed leaves a row that is there as   *)
(* it is, and whoever claims looks at one row: so the keys of a crawl, or of *)
(* a document, are seeded in one step.                                       *)

(* The rows when S is seeded: a row that is there keeps its state and depth. *)
Seed(S, depth) ==
    [k \in Keys |-> IF k \in S /\ ~Exists(k) THEN New(row[k].id + 1, depth, {}) ELSE row[k]]

Fresh(S) == {k \in S : ~Exists(k)}

(* The history of a key begins again with a new row.                         *)
Forget(S) ==
    /\ trail' = [k \in Keys |-> IF k \in S THEN {} ELSE trail[k]]
    /\ granted' = [k \in Keys |-> IF k \in S THEN {} ELSE granted[k]]

(* crawl seeds the wanted authorities, and its scope is what it has seeded.  *)
(* (A crawl that nothing is wanted of ends at once.)                         *)
StartCrawl(w) ==
    /\ worker[w] = Idle
    /\ \E S \in SUBSET Keys \ {{}} :
          /\ row' = Seed(S, 0) /\ Forget(Fresh(S))
          /\ worker' = [worker EXCEPT ![w] = [Idle EXCEPT !.step = "next", !.kind = "crawl",
                                                          !.scope = S]]
    /\ UNCHANGED <<admin, actions, shared, stale>>

(* seed_from_discovery records a candidate that is not in the trail.         *)
SeedDiscovery(k, x) ==
    /\ IF Exists(k)
       THEN /\ x \notin row[k].listed
            /\ row' = [row EXCEPT ![k].listed = @ \cup {x}]
            /\ trail' = [trail EXCEPT ![k] = @ \cup {x}] /\ UNCHANGED granted
            /\ stale' = IF Held(k) \/ (\E a \in Admins : Approving(a, k)) THEN stale \cup {k} ELSE stale
       ELSE /\ row' = [row EXCEPT ![k] = New(@.id + 1, 0, {x})]
            /\ trail' = [trail EXCEPT ![k] = {x}] /\ granted' = [granted EXCEPT ![k] = {}]
            /\ UNCHANGED stale
    /\ UNCHANGED <<worker, admin, actions, shared>>

-----------------------------------------------------------------------------
(* A worker.                                                                 *)

At(w) == worker[w].key
Inst(w) == worker[w].inst
Here(w) == Holds(w, At(w))
Total(t) == LET n[S \in SUBSET Jurisdictions] ==
                    IF S = {} THEN 0
                    ELSE LET j == CHOOSE i \in S : TRUE IN t[j] + n[S \ {j}]
            IN  n[Jurisdictions]

Claimable(w, k) ==
    k \in worker[w].scope /\ row[k].state = "queued" /\ row[k].depth <= MaxDepth

(* Mutant: a row that is in progress is taken again.                         *)
ClaimAgainBug(w, k) ==
    /\ worker[w].step = "next" /\ Total(worker[w].tally) < MaxAuthorities
    /\ k \in worker[w].scope /\ row[k].state \in {"queued", "in_progress"}
    /\ row' = [row EXCEPT ![k].state = "in_progress"]
    /\ worker' = [worker EXCEPT ![w] = [@ EXCEPT !.step = "claimed", !.key = k, !.inst = Read(k)]]
    /\ UNCHANGED <<admin, actions, history, shared, stale>>

(* dequeue_queued.  The floor of demand, and the order, are left open.       *)
Claim(w, k) ==
    /\ worker[w].step = "next" /\ Total(worker[w].tally) < MaxAuthorities
    /\ Claimable(w, k)
    /\ row' = [row EXCEPT ![k].state = "in_progress"]
    /\ worker' = [worker EXCEPT ![w] = [@ EXCEPT !.step = "claimed", !.key = k, !.inst = Read(k)]]
    /\ UNCHANGED <<admin, actions, history, shared, stale>>

(* A batch of discover_selected gets to row k.                               *)
Select(w, k) ==
    /\ worker[w] = Idle /\ Exists(k)
    /\ worker' = [worker EXCEPT ![w] = [Idle EXCEPT !.step = "claimed", !.kind = "selected",
                                                    !.key = k, !.inst = Read(k)]]
    /\ shared' = IF Held(k) \/ row[k].state = "queued" THEN shared \cup {k} ELSE shared
    /\ UNCHANGED <<row, admin, actions, history, stale>>

(* The row is done with: a crawl goes on, a selected row is all there was.   *)
Proceed(w) ==
    worker' = [worker EXCEPT ![w] =
        IF @.kind = "crawl" THEN [@ EXCEPT !.step = "next", !.key = NONE, !.inst = NoInst,
                                           !.got = NONE]
                            ELSE Idle]

(* save(update_fields) of a row that is gone raises: the task fails.         *)
Raises(w) ==
    /\ worker[w].step \in {"claimed", "fetching", "fetched", "bootstrapped"} /\ ~Here(w)
    /\ worker' = [worker EXCEPT ![w] = Idle]
    /\ UNCHANGED <<row, admin, actions, history, shared, stale>>

Capped(w) ==
    worker[w].kind = "crawl" /\ worker[w].tally[JurisdictionOf[At(w)]] >= PerJurisdictionCap

(* _park_for_cap.                                                            *)
Park(w) ==
    /\ worker[w].step = "claimed" /\ Here(w) /\ Capped(w)
    /\ row' = [row EXCEPT ![At(w)].state = "deferred_cap"] /\ Proceed(w)
    /\ UNCHANGED <<admin, actions, history, shared, stale>>

(* discover_and_bootstrap: no provider, or one, and then fetch.              *)
Begin(w) ==
    /\ worker[w].step = "claimed" /\ Here(w) /\ ~Capped(w)
    /\ \/ row' = [row EXCEPT ![At(w)].state = "unsupported"] /\ Proceed(w)
       \/ /\ row' = [row EXCEPT ![At(w)].state = "in_progress"]
          /\ worker' = [worker EXCEPT ![w].step = "fetching"]
    /\ UNCHANGED <<admin, actions, history, shared, stale>>

(* mark with a record: the trail is saved as the instance has it.            *)
Marked(w, state, doc, pending) ==
    row' = [row EXCEPT ![At(w)] = [@ EXCEPT !.state = state, !.doc = doc, !.pending = pending,
                                            !.listed = Inst(w).listed,
                                            !.approved = Inst(w).approved]]

(* provider.locate and fetch: what they raise is caught if its type is listed.*)
Fetch(w) ==
    /\ worker[w].step = "fetching"
    /\ \/ /\ Here(w) /\ Marked(w, "failed", row[At(w)].doc, Inst(w).pending)
          /\ Proceed(w)
       \/ worker' = [worker EXCEPT ![w].step = "fetched"] /\ UNCHANGED row
    /\ UNCHANGED <<admin, actions, history, shared, stale>>

(* Mutant: an exception of the gate leaves the task.                         *)
RefuseUncaughtBug(w) ==
    /\ worker[w].step = "fetched" /\ Here(w)
    /\ UNCHANGED row
    /\ worker' = [worker EXCEPT ![w] = Idle]
    /\ UNCHANGED <<admin, actions, history, shared, stale>>

(* The gate raises, or blocks what was fetched, or it has to be approved and *)
(* was not.                                                                  *)
Refuse(w) ==
    /\ worker[w].step = "fetched" /\ Here(w)
    /\ \/ \E s \in {"failed", "blocked"} : Marked(w, s, row[At(w)].doc, Inst(w).pending)
       \/ \E r \in NeedsApproval \ Inst(w).approved :
             Marked(w, "pending_approval", row[At(w)].doc, r)
    /\ Proceed(w)
    /\ UNCHANGED <<admin, actions, history, shared, stale>>

(* Mutant: whatever was approved once, approves every response.              *)
BootstrapAnyBug(w) ==
    /\ worker[w].step = "fetched"
    /\ \E r \in Responses :
          /\ r \notin NeedsApproval \/ Inst(w).approved # {}
          /\ worker' = [worker EXCEPT ![w].step = "bootstrapped",
                                       ![w].got = IF r \in NeedsApproval THEN r ELSE NONE]
    /\ UNCHANGED <<row, admin, actions, history, shared, stale>>

(* The gate passes a response, and bootstrap_authority_corpus imports it.    *)
(* (A row that is gone is noticed at the next save only.)                    *)
Bootstrap(w) ==
    /\ worker[w].step = "fetched"
    /\ \E r \in Responses :
          /\ r \notin NeedsApproval \/ r \in Inst(w).approved
          /\ worker' = [worker EXCEPT ![w].step = "bootstrapped",
                                       ![w].got = IF r \in NeedsApproval THEN r ELSE NONE]
    /\ UNCHANGED <<row, admin, actions, history, shared, stale>>

(* A crawl counts what it has ingested, and goes on to what that cites.      *)
Counted(w) ==
    LET q == [worker[w] EXCEPT !.key = NONE, !.got = NONE,
                               !.tally[JurisdictionOf[At(w)]] = @ + 1]
    IN  IF Inst(w).depth < MaxDepth THEN [q EXCEPT !.step = "citing"]
                                    ELSE [q EXCEPT !.step = "next", !.inst = NoInst]

(* The row is marked, with a document if the import returned one; or the     *)
(* import or the relink has raised, and it has failed.                       *)
Settle(w) ==
    /\ worker[w].step = "bootstrapped" /\ Here(w)
    /\ \/ Marked(w, "failed", row[At(w)].doc, Inst(w).pending) /\ Proceed(w)
       \/ /\ \E doc \in {row[At(w)].doc, TRUE} : Marked(w, "ingested", doc, Inst(w).pending)
          /\ IF worker[w].kind = "crawl" THEN worker' = [worker EXCEPT ![w] = Counted(w)]
                                         ELSE Proceed(w)
    /\ UNCHANGED <<admin, actions, history, shared, stale>>

(* What the new document cites is seeded one level down, and enters the      *)
(* scope.                                                                    *)
Cite(w) ==
    /\ worker[w].step = "citing"
    /\ \E S \in SUBSET Keys :
          /\ row' = Seed(S, Inst(w).depth + 1) /\ Forget(Fresh(S))
          /\ worker' = [worker EXCEPT ![w].step = "next", ![w].inst = NoInst,
                                      ![w].scope = @ \cup S]
    /\ UNCHANGED <<admin, actions, shared, stale>>

(* A bound is reached, or nothing is left to claim.                          *)
Stop(w) ==
    /\ worker[w].step = "next"
    /\ \/ Total(worker[w].tally) > 0
       \/ ~ \E k \in Keys : Claimable(w, k)
       \/ Total(worker[w].tally) >= MaxAuthorities
    /\ worker' = [worker EXCEPT ![w] = Idle]
    /\ UNCHANGED <<row, admin, actions, history, shared, stale>>

(* An exception leaves the task: nothing catches what the choice of a         *)
(* provider raises, a fetch whose exception is not listed, or the search for *)
(* citations.                                                                *)
Escape(w) ==
    /\ worker[w].step \in {"claimed", "fetching", "citing"}
    /\ worker' = [worker EXCEPT ![w] = Idle]
    /\ UNCHANGED <<row, admin, actions, history, shared, stale>>

(* The worker dies.                                                          *)
Die(w) ==
    /\ worker[w] # Idle
    /\ worker' = [worker EXCEPT ![w] = Idle]
    /\ UNCHANGED <<row, admin, actions, history, shared, stale>>

-----------------------------------------------------------------------------
(* Superusers.                                                               *)

(* requeue, reset and reroute refuse a row that is in progress; approve wants *)
(* a row with a response that waits.  Both look at the instance they read.   *)
Ask(a, k) ==
    /\ admin[a] = NoRequest /\ Exists(k) /\ actions < MaxActions
    /\ actions' = actions + 1
    /\ \/ /\ row[k].state # "in_progress"
          /\ admin' = [admin EXCEPT ![a] = [verb |-> "requeue", key |-> k,
                                            inst |-> [NoInst EXCEPT !.id = row[k].id]]]
       \/ /\ row[k].state = "pending_approval" /\ row[k].pending # NONE
          /\ admin' = [admin EXCEPT ![a] = [verb |-> "approve", key |-> k, inst |-> Read(k)]]
    /\ UNCHANGED <<row, worker, history, shared, stale>>

Asked(a) == admin[a] # NoRequest
InPlace(a) ==
    Asked(a) /\ Exists(admin[a].key) /\ row[admin[a].key].id = admin[a].inst.id

PutBack(a) ==
    shared' = IF Held(admin[a].key) THEN shared \cup {admin[a].key} ELSE shared

(* Mutant: the document is left in the row.                                  *)
RequeueDocBug(a) ==
    /\ InPlace(a) /\ admin[a].verb = "requeue"
    /\ row' = [row EXCEPT ![admin[a].key].state = "queued"]
    /\ PutBack(a) /\ admin' = [admin EXCEPT ![a] = NoRequest]
    /\ UNCHANGED <<worker, actions, history, stale>>

(* requeue, reset, reroute: no record is added, so the trail is not saved.   *)
Requeue(a) ==
    /\ InPlace(a) /\ admin[a].verb = "requeue"
    /\ row' = [row EXCEPT ![admin[a].key].state = "queued", ![admin[a].key].doc = FALSE]
    /\ PutBack(a) /\ admin' = [admin EXCEPT ![a] = NoRequest]
    /\ UNCHANGED <<worker, actions, history, stale>>

(* Mutant: the approval replaces the trail.                                  *)
ApproveForgetsBug(a) ==
    /\ InPlace(a) /\ admin[a].verb = "approve" /\ ~row[admin[a].key].doc
    /\ LET k == admin[a].key
           r == admin[a].inst.pending
       IN  /\ row' = [row EXCEPT ![k] = [@ EXCEPT !.state = "queued", !.listed = {},
                                                  !.approved = {r}, !.pending = r]]
           /\ granted' = [granted EXCEPT ![k] = @ \cup {r}]
    /\ UNCHANGED stale
    /\ PutBack(a) /\ admin' = [admin EXCEPT ![a] = NoRequest]
    /\ UNCHANGED <<worker, actions, trail>>

(* approve: the response of the latest pending attempt.  The constraint that *)
(* a queued row has no document refuses the rest.                            *)
Approve(a) ==
    /\ InPlace(a) /\ admin[a].verb = "approve" /\ ~row[admin[a].key].doc
    /\ LET k == admin[a].key
           i == admin[a].inst
       IN  /\ row' = [row EXCEPT ![k] = [@ EXCEPT !.state = "queued", !.listed = i.listed,
                                                  !.approved = i.approved \cup {i.pending},
                                                  !.pending = i.pending]]
           /\ granted' = [granted EXCEPT ![k] = @ \cup {i.pending}]
           /\ stale' = IF Held(k) \/ (\E b \in Admins \ {a} : Approving(b, k))
                       THEN stale \cup {k} ELSE stale
    /\ PutBack(a) /\ admin' = [admin EXCEPT ![a] = NoRequest]
    /\ UNCHANGED <<worker, actions, trail>>

(* The request is refused, or fails.                                         *)
GiveUp(a) ==
    /\ Asked(a) /\ admin' = [admin EXCEPT ![a] = NoRequest]
    /\ UNCHANGED <<row, worker, actions, history, shared, stale>>

(* delete_rows.                                                              *)
Delete(k) ==
    /\ Exists(k) /\ actions < MaxActions /\ actions' = actions + 1
    /\ row' = [row EXCEPT ![k] = Absent(@.id)]
    /\ Forget({k})
    /\ UNCHANGED <<worker, admin, shared, stale>>

-----------------------------------------------------------------------------

Work(w) ==
    \/ \E k \in Keys : Claim(w, k)
    \/ Raises(w) \/ Park(w) \/ Begin(w) \/ Fetch(w) \/ Refuse(w) \/ Bootstrap(w) \/ Settle(w)
    \/ Cite(w) \/ Stop(w)

(* A row that is in progress, and that a worker has left.                    *)
Left(S) == lost' = {k \in lost \cup S : row'[k].state = "in_progress"}

Step ==
    \/ \E w \in Workers : Work(w) \/ StartCrawl(w)
    \/ \E w \in Workers, k \in Keys : Select(w, k)
    \/ \E k \in Keys, x \in Candidates : SeedDiscovery(k, x)
    \/ \E a \in Admins, k \in Keys : Ask(a, k)
    \/ \E a \in Admins : Requeue(a) \/ Approve(a) \/ GiveUp(a)
    \/ \E k \in Keys : Delete(k)

Next ==
    \/ Step /\ Left({})
    \/ \E w \in Workers : (Escape(w) \/ Die(w)) /\ Left(Keys \cap {At(w)})

Spec == Init /\ [][Next]_vars

-----------------------------------------------------------------------------

States == {"absent", "queued", "in_progress", "ingested", "failed", "unsupported", "blocked",
           "pending_approval", "deferred_cap"}
InstType == [id : Nat, depth : 0..MaxDepth, listed : SUBSET Candidates,
             approved : SUBSET Responses, pending : NeedsApproval \cup {NONE}]
RowType == [id : Nat, state : States, depth : 0..MaxDepth, doc : BOOLEAN,
            listed : SUBSET Candidates, approved : SUBSET Responses,
            pending : NeedsApproval \cup {NONE}]

(* Rows and instances are well formed; and "a queued row that still carries  *)
(* a document" (authority_frontier_service.py:494) is never written.         *)
TypeOK ==
    /\ row \in [Keys -> RowType]
    /\ worker \in [Workers ->
           [step : {"idle", "next", "claimed", "fetching", "fetched", "bootstrapped", "citing"},
            kind : {"none", "crawl", "selected"}, scope : SUBSET Keys,
            key : Keys \cup {NONE}, inst : InstType,
            got : NeedsApproval \cup {NONE}, tally : [Jurisdictions -> Nat]]]
    /\ admin \in [Admins -> [verb : {"none", "requeue", "approve"}, key : Keys \cup {NONE},
                           inst : InstType]]
    /\ actions \in 0..MaxActions
    /\ trail \in [Keys -> SUBSET Candidates] /\ granted \in [Keys -> SUBSET Responses]
    /\ shared \subseteq Keys /\ stale \subseteq Keys /\ lost \subseteq Keys
    /\ \A k \in Keys : row[k].state = "queued" => ~row[k].doc

(* Two crawls "can never return - and therefore never discover_and_bootstrap *)
(* - the same frontier row twice" (authority_frontier_service.py:244): as    *)
(* long as no superuser puts it back, or selects it, beside a worker, one    *)
(* worker has a row, and the row says in_progress from the claim on.         *)
OneWorkerPerRow ==
    \A k \in Keys \ shared :
        /\ \A w, v \in Workers : Holds(w, k) /\ Holds(v, k) => w = v
        /\ \A w \in Workers :
              Holds(w, k) /\ (worker[w].kind = "crawl" \/ worker[w].step # "claimed") =>
                  row[k].state = "in_progress"

(* What has to be approved is ingested only after a superuser has approved   *)
(* that very response for that row: "A changed/reseeded response therefore   *)
(* parks for a new approval" (authority_frontier_service.py:664), also when  *)
(* approvals race with workers that have older instances.                    *)
IngestedAsApproved ==
    \A w \in Workers :
        worker[w].got # NONE /\ Here(w) => worker[w].got \in granted[At(w)]

(* The audit trail is append-only ("never overwrite prior attempts",         *)
(* authority_frontier_service.py:562): what was listed or approved stays,    *)
(* unless it came beside an instance that was read earlier and saved later.  *)
TrailKept ==
    \A k \in Keys \ stale : Exists(k) => 
        trail[k] \subseteq row[k].listed /\ granted[k] \subseteq row[k].approved

(* "A failure here ... must not strand the row in in_progress"               *)
(* (authority_discovery_service.py:616), nor one of the gate or one that the *)
(* fetch is expected to have: whoever marked the row is on the way to mark   *)
(* its outcome, however many have it, unless one of them has died or was     *)
(* left by an exception that nothing catches.                                *)
NothingStranded ==
    \A k \in Keys \ lost : row[k].state = "in_progress" => Held(k)

=============================================================================
