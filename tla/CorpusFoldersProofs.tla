------------------------- MODULE CorpusFoldersProofs -------------------------
(***************************************************************************)
(* Proofs about CorpusFolders, for any names, documents, requests and      *)
(* number of folders.                                                      *)
(*                                                                         *)
(* The first part is about the tree queries.  Subtree is the least set     *)
(* that is closed under children, so what holds of the roots and of the    *)
(* children of what it holds of, holds of all that is reachable: the       *)
(* induction that shows that get_path is defined and gives names.  The     *)
(* second is about what a folder request has locked, whatever requests     *)
(* overlap: nobody else writes the document rows that its transaction has  *)
(* written, so they still are in the folder where it found them.  The      *)
(* third is about folder requests that run alone: how the tree changes     *)
(* when a row is saved, children go up and folders are deleted, and what   *)
(* a request can rely on from its first read to its commit.                *)
(***************************************************************************)
EXTENDS CorpusFolders, TLAPS

-----------------------------------------------------------------------------
(* Subtrees.                                                                 *)

LEMMA SubtreeLeast ==
    ASSUME NEW F, NEW f, NEW S \in SUBSET DOMAIN F, f \in S, Children(F, S) \subseteq S
    PROVE  Subtree(F, f) \subseteq S
BY DEF Subtree

(* A folder's subtree holds the folder and is closed under children.         *)
LEMMA SubtreeFacts ==
    ASSUME NEW F, NEW f
    PROVE  /\ Subtree(F, f) \subseteq DOMAIN F
           /\ f \in DOMAIN F => f \in Subtree(F, f)
           /\ Children(F, Subtree(F, f)) \subseteq Subtree(F, f)
<1>1. Subtree(F, f) \subseteq DOMAIN F /\ (f \in DOMAIN F => f \in Subtree(F, f))
    BY DEF Subtree
<1>2. ASSUME NEW g \in Children(F, Subtree(F, f)) PROVE g \in Subtree(F, f)
    <2>1. g \in DOMAIN F /\ F[g].parent \in Subtree(F, f)
        BY <1>2 DEF Children
    <2>2. ASSUME NEW S \in SUBSET DOMAIN F, f \in S, Children(F, S) \subseteq S PROVE g \in S
        <3>1. F[g].parent \in S
            BY <2>1, <2>2, SubtreeLeast
        <3> QED
            BY <2>1, <2>2, <3>1 DEF Children
    <2>3. f \in DOMAIN F
        BY <2>1 DEF Subtree
    <2> QED
        BY <2>1, <2>2, <2>3 DEF Subtree
<1> QED
    BY <1>1, <1>2

(* Induction over the reachable folders.                                     *)
LEMMA ReachLeast ==
    ASSUME NEW F, NEW S \in SUBSET DOMAIN F,
           Children(F, {NULL}) \subseteq S, Children(F, S) \subseteq S
    PROVE  Reachable(F) \subseteq S
<1>1. \A f \in Children(F, {NULL}) : Subtree(F, f) \subseteq S
    BY SubtreeLeast
<1> QED
    BY <1>1 DEF Reachable

(* What is reachable holds the roots, is closed under children, and holds the*)
(* parent of each folder that is no root.                                    *)
LEMMA ReachFacts ==
    ASSUME NEW F
    PROVE  /\ Reachable(F) \subseteq DOMAIN F
           /\ Children(F, {NULL}) \subseteq Reachable(F)
           /\ Children(F, Reachable(F)) \subseteq Reachable(F)
           /\ \A f \in Reachable(F) : F[f].parent = NULL \/ F[f].parent \in Reachable(F)
<1>1. Reachable(F) \subseteq DOMAIN F
    BY SubtreeFacts DEF Reachable
<1>2. Children(F, {NULL}) \subseteq Reachable(F)
    <2>1. ASSUME NEW f \in Children(F, {NULL}) PROVE f \in Subtree(F, f)
        BY SubtreeFacts DEF Children
    <2> QED
        BY <2>1 DEF Reachable
<1>3. Children(F, Reachable(F)) \subseteq Reachable(F)
    <2>1. ASSUME NEW g \in Children(F, Reachable(F)) PROVE g \in Reachable(F)
        <3>1. PICK f \in Children(F, {NULL}) : F[g].parent \in Subtree(F, f)
            BY DEF Children, Reachable
        <3>2. g \in Children(F, Subtree(F, f))
            BY <3>1 DEF Children
        <3>3. g \in Subtree(F, f)
            BY <3>2, SubtreeFacts
        <3> QED
            BY <3>3 DEF Reachable
    <2> QED
        BY <2>1
<1>4. \A f \in Reachable(F) : F[f].parent = NULL \/ F[f].parent \in Reachable(F)
    <2> DEFINE S == {f \in Reachable(F) : F[f].parent = NULL \/ F[f].parent \in Reachable(F)}
    <2>1. Children(F, {NULL}) \subseteq S
        BY <1>2 DEF Children
    <2>2. Children(F, S) \subseteq S
        BY <1>3 DEF Children
    <2> QED
        BY <1>1, <2>1, <2>2, ReachLeast
<1> QED
    BY <1>1, <1>2, <1>3, <1>4

(* Below a reachable folder every folder is reachable.                       *)
LEMMA SubtreeReach ==
    ASSUME NEW F, NEW f \in Reachable(F)
    PROVE  Subtree(F, f) \subseteq Reachable(F)
BY ReachFacts, SubtreeLeast

-----------------------------------------------------------------------------
(* get_path.  Its recursive definition has a solution: Has relates a folder  *)
(* to the sequences of names that lead to it, and relates it to one only.    *)

(* A table of well-formed folder rows; the next lemmas take them apart, and  *)
(* build the sequences of names.                                             *)
TreeOK(F) == NULL \notin DOMAIN F /\ \A f \in DOMAIN F : F[f] \in FolderRow

Pairs(F) == (DOMAIN F) \X Seq(Names)

(* Sequences of names.                                                       *)
LEMMA NameSeq == ASSUME NEW n \in Names PROVE <<n>> \in Seq(Names)
OBVIOUS

(* And longer ones.                                                          *)
LEMMA AppendSeq ==
    ASSUME NEW s \in Seq(Names), NEW n \in Names
    PROVE  Append(s, n) \in Seq(Names)
OBVIOUS

(* A child's row.                                                            *)
LEMMA ChildRow ==
    ASSUME NEW F, TreeOK(F), NEW S, NEW f \in Children(F, S)
    PROVE  f \in DOMAIN F /\ F[f].name \in Names /\ F[f].parent \in S
BY DEF Children, TreeOK, FolderRow

(* The relation R has the path of every root, and with a folder's path those *)
(* of its children; Has is the least one.                                    *)
Leads(F, R) ==
    /\ \A f \in Children(F, {NULL}) : <<f, <<F[f].name>>>> \in R
    /\ \A g \in DOMAIN F, s \in Seq(Names) :
          <<g, s>> \in R => \A f \in Children(F, {g}) : <<f, Append(s, F[f].name)>> \in R

Has(F) == {z \in Pairs(F) : \A R \in SUBSET Pairs(F) : Leads(F, R) => z \in R}

(* Has itself is such a relation.                                            *)
LEMMA HasLeads == ASSUME NEW F, TreeOK(F) PROVE Leads(F, Has(F))
<1>1. ASSUME NEW f \in Children(F, {NULL}) PROVE <<f, <<F[f].name>>>> \in Has(F)
    <2>1. f \in DOMAIN F /\ <<F[f].name>> \in Seq(Names)
        <3>1. f \in DOMAIN F /\ F[f].name \in Names
            BY ChildRow
        <3> QED
            BY <3>1, NameSeq
    <2>2. <<f, <<F[f].name>>>> \in Pairs(F)
        BY <2>1 DEF Pairs
    <2>3. ASSUME NEW R \in SUBSET Pairs(F), Leads(F, R) PROVE <<f, <<F[f].name>>>> \in R
        BY <2>3 DEF Leads
    <2> QED
        BY <2>2, <2>3 DEF Has
<1>2. ASSUME NEW g \in DOMAIN F, NEW s \in Seq(Names), <<g, s>> \in Has(F), NEW f \in Children(F, {g})
      PROVE  <<f, Append(s, F[f].name)>> \in Has(F)
    <2>1. f \in DOMAIN F /\ Append(s, F[f].name) \in Seq(Names)
        <3>1. f \in DOMAIN F /\ F[f].name \in Names
            BY ChildRow
        <3> QED
            BY <3>1, AppendSeq
    <2>2. <<f, Append(s, F[f].name)>> \in Pairs(F)
        BY <2>1 DEF Pairs
    <2>3. ASSUME NEW R \in SUBSET Pairs(F), Leads(F, R) PROVE <<f, Append(s, F[f].name)>> \in R
        <3>1. <<g, s>> \in R
            BY <1>2, <2>3 DEF Has
        <3> QED
            BY <2>3, <3>1 DEF Leads
    <2> QED
        BY <2>2, <2>3 DEF Has
<1> QED
    BY <1>1, <1>2 DEF Leads

(* Every reachable folder has a path.                                        *)
LEMMA HasSome ==
    ASSUME NEW F, TreeOK(F), NEW f \in Reachable(F)
    PROVE  \E s \in Seq(Names) : <<f, s>> \in Has(F)
<1> DEFINE S == {g \in DOMAIN F : \E s \in Seq(Names) : <<g, s>> \in Has(F)}
<1>1. Children(F, {NULL}) \subseteq S
    <2>1. ASSUME NEW g \in Children(F, {NULL}) PROVE g \in S
        <3>1. g \in DOMAIN F /\ <<F[g].name>> \in Seq(Names)
            BY DEF Children, TreeOK, FolderRow
        <3>2. <<g, <<F[g].name>>>> \in Has(F)
            BY HasLeads DEF Leads
        <3> QED
            BY <3>1, <3>2
    <2> QED
        BY <2>1
<1>2. Children(F, S) \subseteq S
    <2>1. ASSUME NEW g \in Children(F, S) PROVE g \in S
        <3>1. g \in DOMAIN F /\ F[g].parent \in S /\ g \in Children(F, {F[g].parent})
            BY DEF Children
        <3>2. PICK s \in Seq(Names) : <<F[g].parent, s>> \in Has(F)
            BY <3>1
        <3>3. <<g, Append(s, F[g].name)>> \in Has(F)
            BY <3>1, <3>2, HasLeads DEF Leads
        <3>4. Append(s, F[g].name) \in Seq(Names)
            BY <3>1 DEF TreeOK, FolderRow
        <3> QED
            BY <3>1, <3>3, <3>4
    <2> QED
        BY <2>1
<1>3. Reachable(F) \subseteq S
    BY <1>1, <1>2, ReachLeast
<1> QED
    BY <1>3

(* A pair that neither a root nor a parent's path leads to is not in Has: it  *)
(* could be taken out.                                                       *)
LEMMA HasFrom ==
    ASSUME NEW F, TreeOK(F), NEW f \in DOMAIN F, NEW s \in Seq(Names), <<f, s>> \in Has(F)
    PROVE  \/ F[f].parent = NULL /\ s = <<F[f].name>>
           \/ \E t \in Seq(Names) : <<F[f].parent, t>> \in Has(F) /\ s = Append(t, F[f].name)
<1> SUFFICES ASSUME ~(F[f].parent = NULL /\ s = <<F[f].name>>),
                    \A t \in Seq(Names) :
                        <<F[f].parent, t>> \in Has(F) => s # Append(t, F[f].name)
             PROVE  FALSE
    OBVIOUS
<1> DEFINE R == Has(F) \ {<<f, s>>}
<1>1. ASSUME NEW g \in Children(F, {NULL}) PROVE <<g, <<F[g].name>>>> \in R
    <2>1. <<g, <<F[g].name>>>> \in Has(F)
        BY HasLeads DEF Leads
    <2>2. F[g].parent = NULL
        BY DEF Children
    <2> QED
        BY <2>1, <2>2
<1>2. ASSUME NEW g \in DOMAIN F, NEW t \in Seq(Names), <<g, t>> \in R, NEW h \in Children(F, {g})
      PROVE  <<h, Append(t, F[h].name)>> \in R
    <2>1. <<g, t>> \in Has(F) /\ <<h, Append(t, F[h].name)>> \in Has(F)
        BY <1>2, HasLeads DEF Leads
    <2>2. F[h].parent = g
        BY DEF Children
    <2> QED
        BY <2>1, <2>2
<1>3. R \in SUBSET Pairs(F)
    BY DEF Has
<1>4. Leads(F, R)
    BY <1>1, <1>2 DEF Leads
<1>5. <<f, s>> \in R
    BY <1>3, <1>4 DEF Has
<1> QED
    BY <1>5

(* And it has only one.                                                      *)
LEMMA HasOne ==
    ASSUME NEW F, TreeOK(F), NEW f \in Reachable(F), NEW s \in Seq(Names), NEW t \in Seq(Names),
           <<f, s>> \in Has(F), <<f, t>> \in Has(F)
    PROVE  s = t
<1> DEFINE S == {g \in DOMAIN F : \A u, v \in Seq(Names) :
                    <<g, u>> \in Has(F) /\ <<g, v>> \in Has(F) => u = v}
<1>0. \A g, u : <<g, u>> \in Has(F) => g \in DOMAIN F
    <2>1. Has(F) \subseteq Pairs(F)
        BY DEF Has
    <2>2. \A g, u : <<g, u>> \in Pairs(F) => g \in DOMAIN F
        BY DEF Pairs
    <2> QED
        BY <2>1, <2>2
<1>1. ASSUME NEW g \in Children(F, {NULL}) PROVE g \in S
    <2>1. g \in DOMAIN F /\ F[g].parent = NULL
        BY DEF Children
    <2>2. \A u \in Seq(Names) : <<NULL, u>> \notin Has(F)
        BY <1>0 DEF TreeOK
    <2>3. \A u \in Seq(Names) : <<g, u>> \in Has(F) => u = <<F[g].name>>
        BY <2>1, <2>2, HasFrom
    <2> QED
        BY <2>1, <2>3
<1>2. ASSUME NEW g \in Children(F, S) PROVE g \in S
    <2>1. g \in DOMAIN F /\ F[g].parent \in S /\ F[g].parent # NULL
        BY DEF Children, TreeOK
    <2>2. \A u \in Seq(Names) : <<g, u>> \in Has(F) =>
              \E w \in Seq(Names) : <<F[g].parent, w>> \in Has(F) /\ u = Append(w, F[g].name)
        BY <2>1, HasFrom
    <2>3. ASSUME NEW u \in Seq(Names), NEW v \in Seq(Names), <<g, u>> \in Has(F), <<g, v>> \in Has(F)
          PROVE  u = v
        <3>1. PICK w \in Seq(Names) : <<F[g].parent, w>> \in Has(F) /\ u = Append(w, F[g].name)
            BY <2>2, <2>3
        <3>2. PICK x \in Seq(Names) : <<F[g].parent, x>> \in Has(F) /\ v = Append(x, F[g].name)
            BY <2>2, <2>3
        <3>3. w = x
            BY <2>1, <3>1, <3>2
        <3> QED
            BY <3>1, <3>2, <3>3
    <2> QED
        BY <2>1, <2>3
<1>3. Reachable(F) \subseteq S
    BY <1>1, <1>2, ReachLeast
<1> QED
    BY <1>3

(* What get_path's definition says of it.                                    *)
PathStep(F, p) ==
    [f \in Reachable(F) |-> IF F[f].parent = NULL THEN <<F[f].name>>
                            ELSE Append(p[F[f].parent], F[f].name)]

(* The function that picks the one sequence Has gives a folder solves        *)
(* get_path's recursive definition.                                          *)
LEMMA PathExists == ASSUME NEW F, TreeOK(F) PROVE \E p : p = PathStep(F, p)
<1> DEFINE p == [f \in Reachable(F) |-> CHOOSE s \in Seq(Names) : <<f, s>> \in Has(F)]
<1>1. \A f \in Reachable(F) : p[f] \in Seq(Names) /\ <<f, p[f]>> \in Has(F)
    BY HasSome
<1>2. ASSUME NEW f \in Reachable(F) PROVE p[f] = PathStep(F, p)[f]
    <2>0. f \in DOMAIN F /\ F[f].name \in Names
        BY ReachFacts DEF TreeOK, FolderRow
    <2>1. CASE F[f].parent = NULL
        <3>1. f \in Children(F, {NULL})
            BY <2>0, <2>1 DEF Children
        <3>2. <<f, <<F[f].name>>>> \in Has(F)
            BY <3>1, HasLeads DEF Leads
        <3>3. <<F[f].name>> \in Seq(Names)
            BY <2>0
        <3>4. p[f] = <<F[f].name>>
            BY <1>1, <3>2, <3>3, HasOne
        <3> QED
            BY <2>1, <3>4 DEF PathStep
    <2>2. CASE F[f].parent # NULL
        <3> DEFINE g == F[f].parent
        <3>1. g \in Reachable(F) /\ g \in DOMAIN F
            BY <2>2, ReachFacts
        <3>2. p[g] \in Seq(Names) /\ <<g, p[g]>> \in Has(F)
            BY <1>1, <3>1
        <3>3. f \in Children(F, {g})
            BY <2>0 DEF Children
        <3>4. <<f, Append(p[g], F[f].name)>> \in Has(F)
            BY <3>1, <3>2, <3>3, HasLeads DEF Leads
        <3>5. Append(p[g], F[f].name) \in Seq(Names)
            BY <2>0, <3>2
        <3> HIDE DEF p
        <3>6. p[f] = Append(p[g], F[f].name)
            BY <1>1, <3>4, <3>5, HasOne
        <3> QED
            BY <2>2, <3>6 DEF PathStep
    <2> QED
        BY <2>1, <2>2
<1>3. p = PathStep(F, p)
    BY <1>2 DEF PathStep
<1> QED
    BY <1>3

(* So get_path's definition holds of get_path.                               *)
LEMMA PathEquation == ASSUME NEW F, TreeOK(F) PROVE PathIn(F) = PathStep(F, PathIn(F))
<1>1. PathIn(F) = CHOOSE p : p = PathStep(F, p)
    BY DEF PathIn, PathStep
<1> QED
    BY <1>1, PathExists

(* The path of a reachable folder is a sequence of names.                    *)
LEMMA PathType ==
    ASSUME NEW F, TreeOK(F), NEW f \in Reachable(F)
    PROVE  PathIn(F)[f] \in Seq(Names)
<1> DEFINE S == {g \in Reachable(F) : PathIn(F)[g] \in Seq(Names)}
<1>0. \A g \in Reachable(F) :
          PathIn(F)[g] = IF F[g].parent = NULL THEN <<F[g].name>>
                         ELSE Append(PathIn(F)[F[g].parent], F[g].name)
    BY PathEquation DEF PathStep
<1>1. \A g \in Reachable(F) : F[g].name \in Names
    BY ReachFacts DEF TreeOK, FolderRow
<1>2. ASSUME NEW g \in Children(F, {NULL}) PROVE g \in S
    <2>1. g \in Reachable(F) /\ F[g].parent = NULL
        BY ReachFacts DEF Children
    <2>2. PathIn(F)[g] = <<F[g].name>>
        BY <1>0, <2>1
    <2>3. PathIn(F)[g] \in Seq(Names)
        BY <1>1, <2>1, <2>2, NameSeq
    <2> QED
        BY <2>1, <2>3
<1>3. ASSUME NEW g \in Children(F, S) PROVE g \in S
    <2>1. F[g].parent \in S /\ F[g].parent # NULL /\ g \in Reachable(F)
        BY ReachFacts DEF Children, TreeOK
    <2>2. PathIn(F)[g] = Append(PathIn(F)[F[g].parent], F[g].name)
        BY <1>0, <2>1
    <2>3. PathIn(F)[g] \in Seq(Names)
        BY <1>1, <2>1, <2>2, AppendSeq
    <2> QED
        BY <2>1, <2>3
<1>4. S \in SUBSET DOMAIN F
    BY ReachFacts
<1>5. Reachable(F) \subseteq S
    BY <1>2, <1>3, <1>4, ReachLeast
<1> QED
    BY <1>5

-----------------------------------------------------------------------------
(* What a request holds, o, when the table of path rows is P and n folders   *)
(* have been created.                                                        *)

OpFields == {"phase", "kind", "id", "row", "path", "docs", "writes", "gone",
             "places"}

(* A row p that it has written for the row q of the table: the folder is the *)
(* same, or will be gone when the request commits.                           *)
Kept(phase, id, gone, p, q) ==
    \/ p.folder = q.folder
    \/ phase = "emptied" /\ id # NULL /\ q.folder = id
    \/ phase = "written" /\ q.folder \in gone

(* Over a row in the trash it writes one in the trash, with the same path.   *)
InTrash(p, q) == q.trashed => p.trashed /\ p.dir = q.dir

WritesOK(n, writes, gone) ==
    /\ DOMAIN writes \cup gone \subseteq 1..n
    /\ \A f \in DOMAIN writes : writes[f] \in FolderRow

PlacesOK(P, phase, id, gone, places) ==
    \A d \in DOMAIN places :
        /\ d \in DOMAIN P /\ places[d] \in Place
        /\ Kept(phase, id, gone, places[d], P[d]) /\ InTrash(places[d], P[d])

OpOK(o, n, P) ==
    /\ DOMAIN o = OpFields
    /\ o.phase \in {"read", "listed", "emptied"} =>
          IF o.kind = "empty" THEN o.id = NULL ELSE o.id \in 1..n
    /\ o.phase = "read" => o.kind # "empty"
    /\ o.phase = "read" /\ o.kind # "delete_all" => o.row \in FolderRow
    /\ o.phase \in {"read", "listed"} => DOMAIN o.places = {}
    /\ WritesOK(n, o.writes, o.gone)
    /\ PlacesOK(P, o.phase, o.id, o.gone, o.places)

FoldersOK ==
    /\ lastFolder \in Nat
    /\ DOMAIN folders \subseteq 1..lastFolder
    /\ \A f \in DOMAIN folders : folders[f] \in FolderRow

PlaceOK ==
    /\ DOMAIN place \subseteq Docs
    /\ \A d \in DOMAIN place : place[d] \in Place

OpsOK ==
    /\ DOMAIN op = Requests
    /\ \A r \in Requests : OpOK(op[r], lastFolder, place)

Locks == \A r, s \in Requests : r # s => DOMAIN op[r].places \cap DOMAIN op[s].places = {}

(* Whatever was read before the transaction, the names below a folder stay   *)
(* distinct and no folder or document refers to a folder that is gone: a     *)
(* commit checks it, and a document request does not disturb it.             *)
ConstraintsHold == SchemaOK(folders, place)

Inv == FoldersOK /\ PlaceOK /\ OpsOK /\ Locks /\ ConstraintsHold

(* The tables and what a request writes, taken apart.                        *)
LEMMA TreeFacts == ASSUME FoldersOK PROVE TreeOK(folders)
BY DEF FoldersOK, TreeOK, NULL

(* The empty function.                                                       *)
LEMMA NoneFacts == DOMAIN None = {}
BY DEF None

(* Writing g over f.                                                         *)
LEMMA PutFacts ==
    ASSUME NEW f, NEW g
    PROVE  /\ DOMAIN Put(f, g) = DOMAIN f \cup DOMAIN g
           /\ \A x \in DOMAIN f \cup DOMAIN g :
                 Put(f, g)[x] = IF x \in DOMAIN g THEN g[x] ELSE f[x]
BY DEF Put

(* Rows written over rows that are there add none.                           *)
LEMMA PutWithin ==
    ASSUME NEW f, NEW g, DOMAIN g \subseteq DOMAIN f
    PROVE  /\ DOMAIN Put(f, g) = DOMAIN f
           /\ \A x \in DOMAIN f : Put(f, g)[x] = IF x \in DOMAIN g THEN g[x] ELSE f[x]
BY DEF Put

(* A transaction that writes one folder.                                     *)
LEMMA FolderFacts ==
    ASSUME NEW f, NEW row
    PROVE  DOMAIN Folder(f, row) = {f} /\ Folder(f, row)[f] = row
BY DEF Folder

(* A transaction that writes nothing, and a slot with no request.            *)
LEMMA NothingOK ==
    ASSUME NEW n, NEW P, NEW phase, NEW id
    PROVE  WritesOK(n, None, {}) /\ PlacesOK(P, phase, id, {}, None)
BY NoneFacts DEF WritesOK, PlacesOK

(* A slot with no request is well formed, and locks nothing.                 *)
LEMMA IdleOK == ASSUME NEW n, NEW P PROVE OpOK(Idle, n, P) /\ DOMAIN Idle.places = {}
<1>1. DOMAIN Idle = OpFields /\ Idle.phase = "idle" /\ Idle.writes = None /\ Idle.gone = {}
      /\ Idle.places = None
    BY DEF Idle, OpFields
<1> QED
    BY <1>1, NoneFacts, NothingOK DEF OpOK

(* Others may add folders and path rows, and change path rows that this      *)
(* request has not locked.                                                   *)
LEMMA OpKeeps ==
    ASSUME NEW o, NEW n \in Nat, NEW m \in Nat, n <= m, NEW P, NEW Q, OpOK(o, n, P),
           DOMAIN P \subseteq DOMAIN Q, \A d \in DOMAIN o.places : Q[d] = P[d]
    PROVE  OpOK(o, m, Q)
<1>1. 1..n \subseteq 1..m
    OBVIOUS
<1>2. PlacesOK(Q, o.phase, o.id, o.gone, o.places)
    BY DEF OpOK, PlacesOK
<1>3. WritesOK(m, o.writes, o.gone)
    BY <1>1 DEF OpOK, WritesOK
<1> QED
    BY <1>1, <1>2, <1>3 DEF OpOK

(* A request goes on: what it holds now is well formed, and locked by it     *)
(* alone.                                                                    *)
LEMMA SetOp ==
    ASSUME Inv, NEW r \in Requests, NEW x, op' = [op EXCEPT ![r] = x],
           UNCHANGED <<folders, place>>, lastFolder' \in Nat, lastFolder <= lastFolder',
           OpOK(x, lastFolder', place),
           \A s \in Requests \ {r} : DOMAIN x.places \cap DOMAIN op[s].places = {}
    PROVE  Inv'
<1>1. DOMAIN op' = Requests /\ op'[r] = x /\ \A s \in Requests \ {r} : op'[s] = op[s]
    BY DEF Inv, OpsOK
<1>2. OpsOK'
    <2>1. ASSUME NEW s \in Requests \ {r} PROVE OpOK(op[s], lastFolder', place)
        <3>1. lastFolder \in Nat /\ OpOK(op[s], lastFolder, place)
            BY DEF Inv, FoldersOK, OpsOK
        <3> QED
            BY <3>1, OpKeeps
    <2> QED
        BY <1>1, <2>1 DEF OpsOK
<1>3. Locks'
    BY <1>1 DEF Inv, Locks
<1>4. FoldersOK'
    BY DEF Inv, FoldersOK
<1>5. PlaceOK' /\ ConstraintsHold'
    BY DEF Inv, PlaceOK, ConstraintsHold
<1> QED
    BY <1>2, <1>3, <1>4, <1>5 DEF Inv

(* A rollback: the slot holds nothing.                                       *)
LEMMA FailStep == ASSUME Inv, NEW r \in Requests, Fail(r) PROVE Inv'
<1>1. lastFolder' \in Nat /\ lastFolder <= lastFolder'
    BY DEF Inv, FoldersOK, Fail
<1>2. op' = [op EXCEPT ![r] = Idle] /\ UNCHANGED <<folders, place>>
    BY DEF Fail
<1>3. OpOK(Idle, lastFolder', place)
    BY IdleOK
<1>4. \A s \in Requests \ {r} : DOMAIN Idle.places \cap DOMAIN op[s].places = {}
    BY IdleOK
<1> QED
    BY <1>1, <1>2, <1>3, <1>4, SetOp

(* A request begins with a folder, and what it will save of it.              *)
LEMMA StartStep ==
    ASSUME Inv, NEW r \in Requests, NEW kind, NEW f \in DOMAIN folders, NEW row, NEW path,
           kind # "empty", kind # "delete_all" => row \in FolderRow, Start(r, kind, f, row, path)
    PROVE  Inv'
<1> DEFINE x == [Idle EXCEPT !.phase = "read", !.kind = kind, !.id = f, !.row = row, !.path = path]
<1>1. /\ DOMAIN x = OpFields /\ x.phase = "read" /\ x.kind = kind /\ x.id = f /\ x.row = row
      /\ x.writes = None /\ x.gone = {} /\ x.places = None
    BY DEF Idle, OpFields
<1>2. f \in 1..lastFolder /\ lastFolder \in Nat
    BY DEF Inv, FoldersOK
<1>3. op' = [op EXCEPT ![r] = x] /\ UNCHANGED <<folders, place, lastFolder>>
    BY DEF Start
<1> HIDE DEF x
<1>4. OpOK(x, lastFolder, place)
    BY <1>1, <1>2, NoneFacts, NothingOK DEF OpOK
<1>5. lastFolder' \in Nat /\ lastFolder <= lastFolder' /\ OpOK(x, lastFolder', place)
    BY <1>2, <1>3, <1>4
<1>6. \A s \in Requests \ {r} : DOMAIN x.places \cap DOMAIN op[s].places = {}
    BY <1>1, NoneFacts
<1> QED
    BY <1>3, <1>5, <1>6, SetOp

(* A request lists documents, of a folder that it has loaded or of the       *)
(* corpus.                                                                   *)
LEMMA ListedStep ==
    ASSUME Inv, NEW r \in Requests, ListContents(r) \/ StartEmpty(r)
    PROVE  Inv'
<1>0. OpOK(op[r], lastFolder, place) /\ lastFolder \in Nat
    BY DEF Inv, OpsOK, FoldersOK
<1>1. PICK docs : \/ /\ ListContents(r)
                     /\ op' = [op EXCEPT ![r] = [@ EXCEPT !.phase = "listed", !.docs = docs]]
                  \/ /\ StartEmpty(r)
                     /\ op' = [op EXCEPT ![r] = [Idle EXCEPT !.phase = "listed", !.kind = "empty",
                                                            !.docs = docs]]
    BY DEF ListContents, StartEmpty
<1>2. UNCHANGED <<folders, place, lastFolder>>
    BY DEF ListContents, StartEmpty
<1>3. CASE /\ ListContents(r)
           /\ op' = [op EXCEPT ![r] = [@ EXCEPT !.phase = "listed", !.docs = docs]]
    <2> DEFINE x == [op[r] EXCEPT !.phase = "listed", !.docs = docs]
    <2>1. DOMAIN op[r] = OpFields /\ op[r].phase = "read" /\ op' = [op EXCEPT ![r] = x]
        BY <1>0, <1>3 DEF OpOK, ListContents
    <2>2. /\ DOMAIN x = OpFields /\ x.phase = "listed" /\ x.kind = op[r].kind /\ x.id = op[r].id
          /\ x.writes = op[r].writes /\ x.gone = op[r].gone /\ x.places = op[r].places
        BY <2>1 DEF OpFields
    <2> HIDE DEF x
    <2>3. DOMAIN x.places = {}
        BY <1>0, <2>1, <2>2 DEF OpOK
    <2>4. OpOK(x, lastFolder', place)
        BY <1>0, <1>2, <2>1, <2>2, <2>3 DEF OpOK, PlacesOK
    <2>5. \A s \in Requests \ {r} : DOMAIN x.places \cap DOMAIN op[s].places = {}
        BY <2>3
    <2>6. lastFolder' \in Nat /\ lastFolder <= lastFolder'
        BY <1>0, <1>2
    <2> QED
        BY <1>2, <2>1, <2>4, <2>5, <2>6, SetOp
<1>4. CASE /\ StartEmpty(r)
           /\ op' = [op EXCEPT ![r] = [Idle EXCEPT !.phase = "listed", !.kind = "empty",
                                                  !.docs = docs]]
    <2> DEFINE x == [Idle EXCEPT !.phase = "listed", !.kind = "empty", !.docs = docs]
    <2>1. /\ DOMAIN x = OpFields /\ x.phase = "listed" /\ x.kind = "empty" /\ x.id = NULL
          /\ x.writes = None /\ x.gone = {} /\ x.places = None
        BY DEF Idle, OpFields
    <2>2. op' = [op EXCEPT ![r] = x]
        BY <1>4
    <2> HIDE DEF x
    <2>3. OpOK(x, lastFolder', place) /\ DOMAIN x.places = {}
        BY <2>1, NoneFacts, NothingOK DEF OpOK
    <2>4. \A s \in Requests \ {r} : DOMAIN x.places \cap DOMAIN op[s].places = {}
        BY <2>3
    <2>5. lastFolder' \in Nat /\ lastFolder <= lastFolder'
        BY <1>0, <1>2
    <2> QED
        BY <1>2, <2>2, <2>3, <2>4, <2>5, SetOp
<1> QED
    BY <1>1, <1>3, <1>4

(* A request runs a statement.                                               *)
LEMMA RunStep ==
    ASSUME Inv, NEW r \in Requests, NEW phase, NEW kind, NEW writes, NEW gone, NEW places,
           Run(r, phase, kind, writes, gone, places),
           phase \in {"emptied", "written"},
           phase = "emptied" => op[r].phase \in {"read", "listed"} /\ kind = op[r].kind,
           lastFolder' \in Nat, lastFolder <= lastFolder',
           WritesOK(lastFolder', writes, gone),
           PlacesOK(place, phase, op[r].id, gone, places)
    PROVE  Inv'
<1> DEFINE x == [op[r] EXCEPT !.phase = phase, !.kind = kind, !.docs = {},
                     !.writes = writes, !.gone = gone, !.places = places]
<1>0. OpOK(op[r], lastFolder, place) /\ lastFolder \in Nat
    BY DEF Inv, OpsOK, FoldersOK
<1>1. DOMAIN op[r] = OpFields
    BY <1>0 DEF OpOK
<1>2. /\ DOMAIN x = OpFields /\ x.phase = phase /\ x.kind = kind /\ x.id = op[r].id
      /\ x.writes = writes /\ x.gone = gone /\ x.places = places
    BY <1>1 DEF OpFields
<1>3. op' = [op EXCEPT ![r] = x] /\ UNCHANGED <<folders, place>>
    BY DEF Run
<1> HIDE DEF x
<1>4. phase = "emptied" => IF kind = "empty" THEN op[r].id = NULL ELSE op[r].id \in 1..lastFolder'
    BY <1>0 DEF OpOK
<1>5. OpOK(x, lastFolder', place)
    BY <1>2, <1>4 DEF OpOK
<1>6. \A s \in Requests \ {r} : DOMAIN x.places \cap DOMAIN op[s].places = {}
    BY <1>2 DEF Run
<1> QED
    BY <1>3, <1>5, <1>6, SetOp

(* A statement that ends the transaction, and one that empties a folder that *)
(* is to be deleted.                                                         *)
LEMMA WrittenStep ==
    ASSUME Inv, NEW r \in Requests, NEW kind, NEW writes, NEW gone, NEW places,
           Run(r, "written", kind, writes, gone, places),
           lastFolder' \in Nat, lastFolder <= lastFolder', WritesOK(lastFolder', writes, gone),
           PlacesOK(place, "written", op[r].id, gone, places)
    PROVE  Inv'
BY RunStep

(* One that empties a folder that is to be deleted.                          *)
LEMMA EmptiedStep ==
    ASSUME Inv, NEW r \in Requests, NEW kind, NEW writes, NEW gone, NEW places,
           Run(r, "emptied", kind, writes, gone, places),
           op[r].phase \in {"read", "listed"}, kind = op[r].kind,
           lastFolder' \in Nat, lastFolder <= lastFolder', WritesOK(lastFolder', writes, gone),
           PlacesOK(place, "emptied", op[r].id, gone, places)
    PROVE  Inv'
BY RunStep

-----------------------------------------------------------------------------
(* Folder rows and path rows that the requests make from those they read.    *)

LEMMA DirRow ==
    ASSUME NEW q \in Place, NEW s \in Seq(Names)
    PROVE  [q EXCEPT !.dir = s] \in Place /\ [q EXCEPT !.dir = s].folder = q.folder
<1>1. s \in Seq(Names \cup {Elsewhere})
    <2>1. s \in [1..Len(s) -> Names \cup {Elsewhere}] /\ Len(s) \in Nat
        OBVIOUS
    <2> QED
        BY <2>1
<1> QED
    BY <1>1 DEF Place

(* A document sent to the root; one sent to the trash.                       *)
LEMMA RootRow ==
    ASSUME NEW q \in Place
    PROVE  /\ [q EXCEPT !.folder = NULL] \in Place /\ InTrash([q EXCEPT !.folder = NULL], q)
           /\ [q EXCEPT !.folder = NULL, !.dir = <<>>] \in Place
<1>1. <<>> \in Seq(Names \cup {Elsewhere}) /\ NULL \in Nat
    BY DEF NULL
<1> QED
    BY <1>1 DEF Place, InTrash

(* A document sent to the trash.                                             *)
LEMMA TrashRow ==
    ASSUME NEW q \in Place, NEW b \in BOOLEAN
    PROVE  [q EXCEPT !.trashed = b] \in Place /\ [q EXCEPT !.trashed = b].folder = q.folder
BY DEF Place

(* An active document's row.                                                 *)
LEMMA ActiveFacts ==
    ASSUME PlaceOK, NEW S, NEW d \in ActiveIn(S)
    PROVE  /\ d \in DOMAIN place /\ place[d] \in Place /\ place[d].folder \in S
           /\ \A p : InTrash(p, place[d])
BY DEF PlaceOK, ActiveIn, InTrash

(* The path rows that a folder request rewrites below its folder.            *)
LEMMA ReconciledOK ==
    ASSUME PlaceOK, NEW F, TreeOK(F), NEW f \in Reachable(F), NEW old, NEW phase, NEW id, NEW gone
    PROVE  PlacesOK(place, phase, id, gone, Reconciled(F, f, old))
<1> DEFINE R == Reconciled(F, f, old)
<1>1. ASSUME NEW d \in DOMAIN R
      PROVE  d \in ActiveIn(Subtree(F, f)) /\ R[d] = [place[d] EXCEPT !.dir = PathIn(F)[place[d].folder]]
    BY NoneFacts DEF Reconciled
<1> HIDE DEF R
<1>2. ASSUME NEW d \in DOMAIN R
      PROVE  /\ d \in DOMAIN place /\ R[d] \in Place /\ R[d].folder = place[d].folder
             /\ InTrash(R[d], place[d])
    <2>1. /\ d \in DOMAIN place /\ place[d] \in Place /\ place[d].folder \in Subtree(F, f)
          /\ \A p : InTrash(p, place[d])
        BY <1>1, ActiveFacts
    <2>2. PathIn(F)[place[d].folder] \in Seq(Names)
        BY <2>1, SubtreeReach, PathType
    <2> QED
        BY <1>1, <2>1, <2>2, DirRow
<1>3. PlacesOK(place, phase, id, gone, R)
    BY <1>2 DEF PlacesOK, Kept
<1> QED
    BY <1>3 DEF R

-----------------------------------------------------------------------------
(* The folder requests.                                                      *)

LEMMA ReachRow ==
    ASSUME FoldersOK, NEW f \in Reachable(folders)
    PROVE  f \in DOMAIN folders /\ f \in 1..lastFolder /\ folders[f] \in FolderRow
BY ReachFacts DEF FoldersOK

(* create_folder.                                                            *)
LEMMA CreateStep ==
    ASSUME Inv, NEW r \in Requests, NEW parent \in Reachable(folders) \cup {NULL}, NEW name \in Names,
           Create(r, name, parent)
    PROVE  Inv'
<1> DEFINE row == [name |-> name, parent |-> parent]
           writes == Folder(lastFolder + 1, row)
<1>0. FoldersOK /\ lastFolder \in Nat
    BY DEF Inv, FoldersOK
<1>1. parent \in Nat
    BY <1>0, ReachRow DEF NULL
<1>2. row \in FolderRow
    BY <1>1 DEF FolderRow
<1>3. lastFolder' = lastFolder + 1 /\ Run(r, "written", "create", writes, {}, None)
    BY DEF Create
<1> HIDE DEF row
<1>4. DOMAIN writes = {lastFolder + 1} /\ writes[lastFolder + 1] = row
    BY FolderFacts
<1> HIDE DEF writes
<1>5. WritesOK(lastFolder', writes, {})
    BY <1>0, <1>2, <1>3, <1>4 DEF WritesOK
<1>6. PlacesOK(place, "written", op[r].id, {}, None)
    BY NothingOK
<1>7. lastFolder' \in Nat /\ lastFolder <= lastFolder'
    BY <1>0, <1>3
<1> QED
    BY <1>3, <1>5, <1>6, <1>7, WrittenStep

(* update_folder and move_folder: save, and                                  *)
(* reconcile_paths_after_folder_change.                                      *)
LEMMA SaveRelocateStep == ASSUME Inv, NEW r \in Requests, SaveRelocate(r) PROVE Inv'
<1> DEFINE f == op[r].id
           writes == Folder(f, op[r].row)
           F == Put(folders, writes)
           places == Reconciled(F, f, op[r].path)
<1>0. FoldersOK /\ PlaceOK /\ OpOK(op[r], lastFolder, place)
    BY DEF Inv, OpsOK
<1>1. op[r].phase = "read" /\ op[r].kind = "relocate" /\ lastFolder' = lastFolder
    BY DEF SaveRelocate
<1>2. f \in 1..lastFolder /\ op[r].row \in FolderRow
    BY <1>0, <1>1 DEF OpOK
<1>3. f \in Reachable(F) /\ Run(r, "written", "relocate", writes, {}, places)
    BY DEF SaveRelocate
<1>4. DOMAIN writes = {f} /\ writes[f] = op[r].row
    BY FolderFacts
<1> HIDE DEF writes
<1>5. WritesOK(lastFolder', writes, {})
    BY <1>1, <1>2, <1>4 DEF WritesOK
<1>6. TreeOK(F)
    <2>1. DOMAIN F = DOMAIN folders \cup {f}
        BY <1>4, PutFacts
    <2>2. ASSUME NEW g \in DOMAIN F PROVE F[g] = IF g = f THEN op[r].row ELSE folders[g]
        <3>1. g \in DOMAIN folders \cup DOMAIN writes
            BY <2>1, <1>4
        <3>2. F[g] = IF g \in DOMAIN writes THEN writes[g] ELSE folders[g]
            BY <3>1, PutFacts
        <3> QED
            BY <1>4, <3>2
    <2>3. DOMAIN F \subseteq 1..lastFolder
        BY <1>0, <1>2, <2>1 DEF FoldersOK
    <2> HIDE DEF F
    <2>4. NULL \notin DOMAIN F
        BY <2>3 DEF NULL
    <2>5. \A g \in DOMAIN F : F[g] \in FolderRow
        BY <1>0, <1>2, <2>1, <2>2 DEF FoldersOK
    <2> QED
        BY <2>4, <2>5 DEF TreeOK
<1> HIDE DEF F, f
<1>7. PlacesOK(place, "written", op[r].id, {}, places)
    BY <1>0, <1>3, <1>6, ReconciledOK
<1>8. lastFolder' \in Nat /\ lastFolder <= lastFolder'
    BY <1>0, <1>1 DEF FoldersOK
<1> QED
    BY <1>3, <1>5, <1>7, <1>8, WrittenStep

(* move_children_to_parent, and the documents to the root.                   *)
LEMMA EmptyOutStep == ASSUME Inv, NEW r \in Requests, EmptyOut(r) PROVE Inv'
<1> DEFINE id == op[r].id
           writes == [g \in Children(folders, {id}) |-> [folders[g] EXCEPT !.parent = op[r].row.parent]]
           places == [d \in ActiveIn({id}) |-> [place[d] EXCEPT !.folder = NULL, !.dir = <<>>]]
<1>0. FoldersOK /\ PlaceOK /\ OpOK(op[r], lastFolder, place)
    BY DEF Inv, OpsOK
<1>1. op[r].phase = "read" /\ op[r].kind = "delete_keep" /\ lastFolder' = lastFolder
    BY DEF EmptyOut
<1>2. op[r].row \in FolderRow
    BY <1>0, <1>1 DEF OpOK
<1>3. Run(r, "emptied", "delete_keep", writes, {}, places)
    BY DEF EmptyOut
<1>4. WritesOK(lastFolder', writes, {})
    <2>1. ASSUME NEW g \in DOMAIN writes PROVE g \in 1..lastFolder /\ writes[g] \in FolderRow
        <3>1. g \in DOMAIN folders /\ folders[g] \in FolderRow
            BY <1>0 DEF Children, FoldersOK
        <3> QED
            BY <1>0, <1>2, <3>1 DEF FoldersOK, FolderRow
    <2> QED
        BY <1>1, <2>1 DEF WritesOK
<1>5. PlacesOK(place, "emptied", id, {}, places)
    <2>1. ASSUME NEW d \in DOMAIN places
          PROVE  /\ d \in DOMAIN place /\ places[d] \in Place /\ place[d].folder = id
                 /\ InTrash(places[d], place[d])
        <3>1. d \in ActiveIn({id}) /\ places[d] = [place[d] EXCEPT !.folder = NULL, !.dir = <<>>]
            OBVIOUS
        <3>2. /\ d \in DOMAIN place /\ place[d] \in Place /\ place[d].folder \in {id}
              /\ \A p : InTrash(p, place[d])
            BY <1>0, <3>1, ActiveFacts
        <3> QED
            BY <3>1, <3>2, RootRow
    <2>2. id # NULL
        BY <1>0, <1>1 DEF OpOK, NULL
    <2> HIDE DEF places
    <2> QED
        BY <2>1, <2>2 DEF PlacesOK, Kept
<1>6. lastFolder' \in Nat /\ lastFolder <= lastFolder'
    BY <1>0, <1>1 DEF FoldersOK
<1> QED
    BY <1>1, <1>3, <1>4, <1>5, <1>6, EmptiedStep

(* update_folder, without a new name: the row as it was loaded.              *)
LEMMA SaveUpdateStep == ASSUME Inv, NEW r \in Requests, SaveUpdate(r) PROVE Inv'
<1> DEFINE writes == Folder(op[r].id, op[r].row)
<1>0. FoldersOK /\ OpOK(op[r], lastFolder, place)
    BY DEF Inv, OpsOK
<1>1. op[r].phase = "read" /\ op[r].kind = "update" /\ lastFolder' = lastFolder
      /\ Run(r, "written", "update", writes, {}, None)
    BY DEF SaveUpdate
<1>2. op[r].id \in 1..lastFolder /\ op[r].row \in FolderRow
    BY <1>0, <1>1 DEF OpOK
<1>3. DOMAIN writes = {op[r].id} /\ writes[op[r].id] = op[r].row
    BY FolderFacts
<1> HIDE DEF writes
<1>4. WritesOK(lastFolder', writes, {})
    BY <1>1, <1>2, <1>3 DEF WritesOK
<1>5. PlacesOK(place, "written", op[r].id, {}, None)
    BY NothingOK
<1>6. lastFolder' \in Nat /\ lastFolder <= lastFolder'
    BY <1>0, <1>1 DEF FoldersOK
<1> QED
    BY <1>1, <1>4, <1>5, <1>6, WrittenStep

(* The listed documents go to the trash.                                     *)
LEMMA TrashListedStep == ASSUME Inv, NEW r \in Requests, TrashListed(r) PROVE Inv'
<1> DEFINE S == op[r].docs \cap ActiveIn(Anywhere)
           places == [d \in S |-> [place[d] EXCEPT !.trashed = TRUE]]
<1>0. FoldersOK /\ PlaceOK
    BY DEF Inv
<1>1. op[r].phase = "listed" /\ lastFolder' = lastFolder
      /\ Run(r, "emptied", op[r].kind, None, {}, places)
    BY DEF TrashListed
<1>2. S \subseteq ActiveIn(Anywhere)
    OBVIOUS
<1> HIDE DEF S
<1>3. PlacesOK(place, "emptied", op[r].id, {}, places)
    <2>1. ASSUME NEW d \in DOMAIN places
          PROVE  /\ d \in DOMAIN place /\ places[d] \in Place /\ places[d].folder = place[d].folder
                 /\ InTrash(places[d], place[d])
        BY <1>0, <1>2, ActiveFacts, TrashRow
    <2> HIDE DEF places
    <2> QED
        BY <2>1 DEF PlacesOK, Kept
<1> HIDE DEF places
<1>4. lastFolder' \in Nat /\ lastFolder <= lastFolder'
    BY <1>0, <1>1 DEF FoldersOK
<1>5. WritesOK(lastFolder', None, {})
    BY NothingOK
<1> QED
    BY <1>1, <1>3, <1>4, <1>5, EmptiedStep

(* What a request deletes are folders; a folder that it has loaded is among  *)
(* them.                                                                     *)
LEMMA DoomedFacts ==
    ASSUME NEW kind, NEW F, NEW f
    PROVE  /\ Doomed(kind, F, f) \subseteq DOMAIN F
           /\ kind # "empty" /\ f \in DOMAIN F => f \in Doomed(kind, F, f)
BY ReachFacts, SubtreeFacts DEF Doomed

(* The cascade.  The folder of a document that was sent to the root is among *)
(* the rows it takes: the document, which nobody else can write, refers to   *)
(* it still.                                                                 *)
LEMMA DeleteRowsStep == ASSUME Inv, NEW r \in Requests, DeleteRows(r) PROVE Inv'
<1> DEFINE o == op[r]
           F == Put(folders, o.writes)
           P == Put(place, o.places)
           gone == Doomed(o.kind, F, o.id)
           places == [d \in {x \in DOMAIN P : P[x].folder \in gone} \cup DOMAIN o.places |->
                         IF P[d].folder \in gone THEN [P[d] EXCEPT !.folder = NULL] ELSE P[d]]
<1>0. FoldersOK /\ PlaceOK /\ OpOK(o, lastFolder, place) /\ ConstraintsHold
    BY DEF Inv, OpsOK
<1>1. o.phase = "emptied" /\ lastFolder' = lastFolder /\ Run(r, "written", o.kind, o.writes, gone, places)
    BY DEF DeleteRows
<1>2. /\ IF o.kind = "empty" THEN o.id = NULL ELSE o.id \in 1..lastFolder
      /\ WritesOK(lastFolder, o.writes, o.gone) /\ PlacesOK(place, "emptied", o.id, o.gone, o.places)
    BY <1>0, <1>1 DEF OpOK
<1>3. /\ DOMAIN P = DOMAIN place /\ DOMAIN o.places \subseteq DOMAIN place
      /\ \A d \in DOMAIN place : P[d] = IF d \in DOMAIN o.places THEN o.places[d] ELSE place[d]
    <2>1. DOMAIN o.places \subseteq DOMAIN place
        BY <1>2 DEF PlacesOK
    <2> HIDE DEF o
    <2> QED
        BY <2>1, PutWithin
<1>4. DOMAIN F = DOMAIN folders \cup DOMAIN o.writes
    BY PutFacts
<1>5. DOMAIN F \subseteq 1..lastFolder
    BY <1>0, <1>2, <1>4 DEF WritesOK, FoldersOK
<1>6. WritesOK(lastFolder', o.writes, gone)
    BY <1>1, <1>2, <1>5, DoomedFacts DEF WritesOK
<1>7. PlacesOK(place, "written", o.id, gone, places)
    <2> HIDE DEF P, F
    <2>1. ASSUME NEW d \in DOMAIN places
          PROVE  /\ d \in DOMAIN place /\ places[d] \in Place
                 /\ Kept("written", o.id, gone, places[d], place[d])
                 /\ InTrash(places[d], place[d])
        <3>1. d \in DOMAIN place /\ P[d] \in Place
            BY <1>0, <1>2, <1>3 DEF PlacesOK, PlaceOK
        <3>2. P[d].folder = place[d].folder \/ place[d].folder \in gone
            <4>1. CASE d \in DOMAIN o.places
                <5>1. P[d] = o.places[d] /\ Kept("emptied", o.id, o.gone, o.places[d], place[d])
                    BY <1>2, <1>3, <3>1, <4>1 DEF PlacesOK
                <5>2. ASSUME o.id # NULL, place[d].folder = o.id PROVE o.id \in gone
                    <6>1. place[d].folder \in DOMAIN folders \cup {NULL}
                        BY <1>0, <3>1 DEF ConstraintsHold, SchemaOK
                    <6>2. o.id \in DOMAIN F
                        BY <1>2, <1>4, <5>2, <6>1 DEF NULL
                    <6> QED
                        BY <1>2, <5>2, <6>2, DoomedFacts
                <5>3. P[d].folder = place[d].folder \/ (o.id # NULL /\ place[d].folder = o.id)
                    BY <5>1 DEF Kept
                <5> QED
                    BY <5>2, <5>3
            <4>2. CASE d \notin DOMAIN o.places
                BY <1>3, <3>1, <4>2
            <4> QED
                BY <4>1, <4>2
        <3>3. InTrash(P[d], place[d])
            BY <1>2, <1>3, <3>1 DEF PlacesOK, InTrash
        <3> HIDE DEF gone
        <3>4. CASE P[d].folder \in gone
            <4>1. places[d] = [P[d] EXCEPT !.folder = NULL]
                BY <3>4
            <4>2. places[d] \in Place /\ InTrash(places[d], P[d])
                BY <3>1, <4>1, RootRow
            <4>3. P[d].trashed => places[d].dir = P[d].dir
                BY <4>2 DEF InTrash
            <4>4. InTrash(places[d], place[d])
                BY <3>3, <4>2, <4>3 DEF InTrash
            <4> QED
                BY <3>1, <3>2, <3>4, <4>2, <4>4 DEF Kept
        <3>5. CASE P[d].folder \notin gone
            <4>1. places[d] = P[d]
                BY <3>5
            <4> QED
                BY <3>1, <3>2, <3>3, <4>1 DEF Kept
        <3> QED
            BY <3>4, <3>5
    <2> HIDE DEF places
    <2> QED
        BY <2>1 DEF PlacesOK
<1>8. lastFolder' \in Nat /\ lastFolder <= lastFolder'
    BY <1>0, <1>1 DEF FoldersOK
<1> HIDE DEF places, gone, F, P
<1> QED
    BY <1>1, <1>6, <1>7, <1>8, WrittenStep

(* A commit: what the database checks holds of the new tables, and nobody    *)
(* else has locked what it changes.                                          *)
LEMMA CommitStep ==
    ASSUME Inv, NEW r \in Requests, Commit(r)
    PROVE  /\ Inv'
           /\ \A d \in DOMAIN place : place[d].folder \in DOMAIN folders' =>
                 place'[d].folder = place[d].folder
           /\ \A d \in DOMAIN place : InTrash(place'[d], place[d])
<1> DEFINE o == op[r]
           F == [f \in (DOMAIN folders \cup DOMAIN o.writes) \ o.gone |-> Put(folders, o.writes)[f]]
           P == Put(place, o.places)
<1>0. FoldersOK /\ PlaceOK /\ OpOK(o, lastFolder, place)
    BY DEF Inv, OpsOK
<1>1. /\ o.phase = "written" /\ op' = [op EXCEPT ![r] = Idle] /\ lastFolder' = lastFolder
      /\ SchemaOK(F, P) /\ folders' = F /\ place' = P
    BY DEF Commit
<1>2. WritesOK(lastFolder, o.writes, o.gone) /\ PlacesOK(place, "written", o.id, o.gone, o.places)
    BY <1>0, <1>1 DEF OpOK
<1>3. FoldersOK'
    <2>1. ASSUME NEW f \in DOMAIN F PROVE f \in 1..lastFolder /\ F[f] \in FolderRow
        <3>1. F[f] = IF f \in DOMAIN o.writes THEN o.writes[f] ELSE folders[f]
            BY PutFacts
        <3> QED
            BY <1>0, <1>2, <3>1 DEF FoldersOK, WritesOK
    <2> HIDE DEF F
    <2> QED
        BY <1>0, <1>1, <2>1 DEF FoldersOK
<1>4. /\ DOMAIN P = DOMAIN place /\ DOMAIN o.places \subseteq DOMAIN place
      /\ \A d \in DOMAIN place : P[d] = IF d \in DOMAIN o.places THEN o.places[d] ELSE place[d]
    <2>1. DOMAIN o.places \subseteq DOMAIN place
        BY <1>2 DEF PlacesOK
    <2> HIDE DEF o
    <2> QED
        BY <2>1, PutWithin
<1>5. DOMAIN F \cap o.gone = {}
    OBVIOUS
<1> HIDE DEF F, P
<1>6. PlaceOK'
    BY <1>0, <1>1, <1>2, <1>4 DEF PlaceOK, PlacesOK
<1>7. DOMAIN op' = Requests /\ op'[r] = Idle /\ \A s \in Requests \ {r} : op'[s] = op[s]
    BY <1>1 DEF Inv, OpsOK
<1>8. OpsOK'
    <2>1. ASSUME NEW s \in Requests \ {r} PROVE OpOK(op[s], lastFolder, P)
        <3>1. DOMAIN op[s].places \cap DOMAIN o.places = {}
            BY DEF Inv, Locks
        <3>2. OpOK(op[s], lastFolder, place) /\ lastFolder \in Nat
            BY <1>0 DEF Inv, OpsOK, FoldersOK
        <3>3. DOMAIN op[s].places \subseteq DOMAIN place
            BY <3>2 DEF OpOK, PlacesOK
        <3>4. \A d \in DOMAIN op[s].places : P[d] = place[d]
            BY <1>4, <3>1, <3>3
        <3> QED
            BY <1>4, <3>2, <3>4, OpKeeps
    <2>2. OpOK(Idle, lastFolder, P)
        BY IdleOK
    <2> QED
        BY <1>1, <1>7, <2>1, <2>2 DEF OpsOK
<1>9. Locks'
    BY <1>7, IdleOK DEF Inv, Locks
<1>10. ConstraintsHold'
    BY <1>1 DEF ConstraintsHold
<1>11. ASSUME NEW d \in DOMAIN place, place[d].folder \in DOMAIN F
       PROVE  P[d].folder = place[d].folder
    BY <1>2, <1>4, <1>5, <1>11 DEF PlacesOK, Kept
<1>12. \A d \in DOMAIN place : InTrash(P[d], place[d])
    BY <1>2, <1>4 DEF PlacesOK, InTrash
<1> QED
    BY <1>1, <1>3, <1>6, <1>8, <1>9, <1>10, <1>11, <1>12 DEF Inv

-----------------------------------------------------------------------------
(* The documents' requests, on rows that no folder request has locked.       *)

LEMMA WriteStep ==
    ASSUME Inv, NEW d \in Docs, NEW p \in Place, p.folder \in DOMAIN folders \cup {NULL}, Write(d, p)
    PROVE  Inv'
<1> DEFINE P == Put(place, [x \in {d} |-> p])
<1>0. FoldersOK /\ PlaceOK /\ ConstraintsHold /\ lastFolder \in Nat
    BY DEF Inv, FoldersOK
<1>1. /\ place' = P /\ UNCHANGED <<folders, lastFolder, op>>
      /\ \A r \in Requests : d \notin DOMAIN op[r].places
    BY DEF Write
<1>2. DOMAIN P = DOMAIN place \cup {d} /\ \A x \in DOMAIN P : P[x] = IF x = d THEN p ELSE place[x]
    BY DEF Put
<1> HIDE DEF P
<1>3. PlaceOK'
    BY <1>0, <1>1, <1>2 DEF PlaceOK
<1>4. OpsOK'
    <2>1. ASSUME NEW r \in Requests PROVE OpOK(op[r], lastFolder, P)
        <3>1. OpOK(op[r], lastFolder, place)
            BY DEF Inv, OpsOK
        <3>2. \A x \in DOMAIN op[r].places : P[x] = place[x]
            BY <1>1, <1>2, <3>1 DEF OpOK, PlacesOK
        <3> QED
            BY <1>0, <1>2, <3>1, <3>2, OpKeeps
    <2> QED
        BY <1>1, <2>1 DEF Inv, OpsOK
<1>5. ConstraintsHold'
    BY <1>0, <1>1, <1>2 DEF ConstraintsHold, SchemaOK
<1>6. FoldersOK' /\ Locks'
    BY <1>0, <1>1 DEF Inv, FoldersOK, Locks
<1> QED
    BY <1>3, <1>4, <1>5, <1>6 DEF Inv

(* The document requests, one by one.                                        *)
LEMMA DocumentStep == ASSUME Inv, DocumentRequest PROVE Inv'
<1>0. FoldersOK /\ PlaceOK /\ ConstraintsHold /\ TreeOK(folders)
    BY TreeFacts DEF Inv
<1>1. Reachable(folders) \subseteq DOMAIN folders /\ DOMAIN folders \cup {NULL} \subseteq Nat
    BY <1>0, ReachFacts DEF FoldersOK, NULL
<1>2. ASSUME NEW d \in Docs, NEW f \in Reachable(folders) \cup {NULL}, Upload(d, f) PROVE Inv'
    <2> DEFINE p == [folder |-> f, dir |-> <<Elsewhere>>, trashed |-> FALSE]
    <2>1. <<Elsewhere>> \in Seq(Names \cup {Elsewhere}) /\ f \in DOMAIN folders \cup {NULL}
        BY <1>1
    <2>2. p \in Place /\ p.folder = f
        BY <1>1, <2>1 DEF Place
    <2>3. Write(d, p)
        BY <1>2 DEF Upload
    <2> HIDE DEF p
    <2> QED
        BY <2>1, <2>2, <2>3, WriteStep
<1>3. ASSUME NEW d \in Docs, NEW f \in Reachable(folders), ZipImport(d, f) PROVE Inv'
    <2> DEFINE s == PathIn(folders)[f]
               p == [folder |-> f, dir |-> s, trashed |-> FALSE]
    <2>1. s \in Seq(Names)
        BY <1>0, PathType
    <2>2. Write(d, p)
        BY <1>3 DEF ZipImport
    <2> HIDE DEF s
    <2>3. s \in [1..Len(s) -> Names \cup {Elsewhere}] /\ Len(s) \in Nat
        BY <2>1
    <2>4. s \in Seq(Names \cup {Elsewhere}) /\ f \in Nat
        BY <1>1, <2>3
    <2>5. p \in Place /\ p.folder = f
        BY <2>4 DEF Place
    <2> HIDE DEF p
    <2> QED
        BY <1>1, <2>2, <2>5, WriteStep
<1>4. ASSUME NEW d \in Docs, NEW f \in Reachable(folders) \cup {NULL}, MoveDocument(d, f) PROVE Inv'
    <2> DEFINE dir == IF f = NULL THEN <<>> ELSE PathIn(folders)[f]
               p == [place[d] EXCEPT !.folder = f, !.dir = dir]
    <2>1. dir \in Seq(Names)
        BY <1>0, PathType
    <2>2. place[d] \in Place
        BY <1>0, <1>4, ActiveFacts DEF MoveDocument
    <2>3. f \in DOMAIN folders \cup {NULL} /\ f \in Nat
        BY <1>1
    <2>4. Write(d, p)
        BY <1>4 DEF MoveDocument
    <2> HIDE DEF dir
    <2>5. [place[d] EXCEPT !.dir = dir] \in Place
        BY <2>1, <2>2, DirRow
    <2>6. p \in Place /\ p.folder = f
        BY <2>2, <2>3, <2>5 DEF Place
    <2> HIDE DEF p
    <2> QED
        BY <2>3, <2>4, <2>6, WriteStep
<1>5. ASSUME NEW d \in Docs, TrashOrRestore(d) PROVE Inv'
    <2> DEFINE p == [place[d] EXCEPT !.trashed = ~@]
    <2>1. d \in DOMAIN place /\ Write(d, p)
        BY <1>5 DEF TrashOrRestore
    <2>2. place[d] \in Place /\ place[d].folder \in DOMAIN folders \cup {NULL}
        BY <1>0, <2>1 DEF PlaceOK, ConstraintsHold, SchemaOK
    <2>3. p \in Place /\ p.folder = place[d].folder
        BY <2>2 DEF Place
    <2> HIDE DEF p
    <2> QED
        BY <2>1, <2>2, <2>3, WriteStep
<1> QED
    BY <1>2, <1>3, <1>4, <1>5 DEF DocumentRequest

-----------------------------------------------------------------------------

(* The folder requests, one by one.                                          *)
LEMMA FolderStep == ASSUME Inv, NEW r \in Requests, FolderRequest(r) PROVE Inv'
<1>0. FoldersOK
    BY DEF Inv
<1>1. ASSUME NEW parent \in Reachable(folders) \cup {NULL}, NEW name \in Names, Create(r, name, parent)
      PROVE  Inv'
    BY <1>1, CreateStep
<1>2. ASSUME NEW parent \in Reachable(folders) \cup {NULL}, NEW f \in Reachable(folders),
             StartMove(r, f, parent)
      PROVE  Inv'
    <2>1. f \in DOMAIN folders /\ folders[f] \in FolderRow /\ parent \in Nat
        BY <1>0, ReachRow DEF NULL
    <2>2. [folders[f] EXCEPT !.parent = parent] \in FolderRow
        BY <2>1 DEF FolderRow
    <2> QED
        BY <1>2, <2>1, <2>2, StartStep DEF StartMove
<1>3. ASSUME NEW f \in Reachable(folders), NEW name \in Names, StartRename(r, f, name) PROVE Inv'
    <2>1. f \in DOMAIN folders /\ folders[f] \in FolderRow
        BY <1>0, ReachRow
    <2>2. [folders[f] EXCEPT !.name = name] \in FolderRow
        BY <2>1 DEF FolderRow
    <2> QED
        BY <1>3, <2>1, <2>2, StartStep DEF StartRename
<1>4. ASSUME NEW f \in Reachable(folders), NEW kind \in {"delete_keep", "delete_all"},
             StartDelete(r, f, kind)
      PROVE  Inv'
    <2> DEFINE row == IF kind = "delete_keep" THEN folders[f] ELSE None
    <2>1. f \in DOMAIN folders /\ (kind # "delete_all" => row \in FolderRow) /\ kind # "empty"
        BY <1>0, ReachRow
    <2>2. Start(r, kind, f, row, <<>>)
        BY <1>4 DEF StartDelete
    <2> HIDE DEF row
    <2> QED
        BY <2>1, <2>2, StartStep
<1>5. ASSUME NEW f \in Reachable(folders), StartUpdate(r, f) PROVE Inv'
    <2>1. f \in DOMAIN folders /\ folders[f] \in FolderRow
        BY <1>0, ReachRow
    <2> QED
        BY <1>5, <2>1, StartStep DEF StartUpdate
<1>6. CASE SaveRelocate(r)
    BY <1>6, SaveRelocateStep
<1>7. CASE SaveUpdate(r)
    BY <1>7, SaveUpdateStep
<1>8. CASE EmptyOut(r)
    BY <1>8, EmptyOutStep
<1>9. CASE ListContents(r) \/ StartEmpty(r)
    BY <1>9, ListedStep
<1>10. CASE TrashListed(r)
    BY <1>10, TrashListedStep
<1>11. CASE DeleteRows(r)
    BY <1>11, DeleteRowsStep
<1>12. CASE Commit(r)
    BY <1>12, CommitStep
<1>13. CASE Fail(r)
    BY <1>13, FailStep
<1> QED
    BY <1>1, <1>2, <1>3, <1>4, <1>5, <1>6, <1>7, <1>8, <1>9, <1>10, <1>11, <1>12, <1>13
       DEF FolderRequest

(* Every step keeps the invariant, and it holds at the start.                *)
LEMMA NextInv == Inv /\ [Next]_vars => Inv'
<1> SUFFICES ASSUME Inv, [Next]_vars PROVE Inv'
    OBVIOUS
<1>1. CASE UNCHANGED vars
    BY <1>1 DEF vars, Inv, FoldersOK, PlaceOK, OpsOK, Locks, ConstraintsHold
<1> QED
    BY <1>1, DocumentStep, FolderStep DEF Next

(* The invariant holds at the start.                                         *)
LEMMA InitInv == Init => Inv
<1> SUFFICES ASSUME Init PROVE Inv
    OBVIOUS
<1>1. folders = None /\ place = None /\ lastFolder = 0 /\ op = [r \in Requests |-> Idle]
    BY DEF Init
<1>2. FoldersOK /\ PlaceOK
    BY <1>1, NoneFacts DEF FoldersOK, PlaceOK
<1>3. OpsOK /\ Locks
    BY <1>1, IdleOK DEF OpsOK, Locks
<1>4. ConstraintsHold
    BY <1>1, NoneFacts DEF ConstraintsHold, SchemaOK
<1> QED
    BY <1>2, <1>3, <1>4 DEF Inv

(* So it always holds.                                                       *)
LEMMA Invariance == Spec => []Inv
BY InitInv, NextInv, PTL DEF Spec

-----------------------------------------------------------------------------

(* The rows of folders and documents, and what requests hold of them, keep   *)
(* their types; a folder-derived path is a sequence of names (get_path of    *)
(* corpuses/models.py).                                                      *)
THEOREM FoldersTypeCorrect == Spec => []TypeOK
<1>1. Inv => TypeOK
    BY DEF Inv, TypeOK, FoldersOK, PlaceOK, OpsOK, OpOK, WritesOK, PlacesOK
<1> QED
    BY <1>1, Invariance, PTL

(* Until a folder request commits, its writes are its own.                   *)
LEMMA OnlyCommitWrites ==
    ASSUME NEW r, FolderRequest(r), ~Commit(r)
    PROVE  UNCHANGED <<folders, place>>
BY DEF FolderRequest, Create, StartMove, StartRename, StartDelete, StartUpdate, StartEmpty, Start,
       SaveRelocate, SaveUpdate, EmptyOut, ListContents, TrashListed, DeleteRows, Fail, Run

(* No folder request undoes where a concurrent request has put a document    *)
(* (reconcile_paths_after_folder_change and delete_folder).                  *)
THEOREM FoldersKeepDocuments == Spec => DocumentsKeepTheirFolder
<1>1. Inv /\ [Next]_vars =>
        [folders' # folders =>
            \A d \in DOMAIN place : place[d].folder \in DOMAIN folders' =>
                place'[d].folder = place[d].folder]_vars
    <2> SUFFICES ASSUME Inv, Next, folders' # folders
                 PROVE  \A d \in DOMAIN place : place[d].folder \in DOMAIN folders' =>
                            place'[d].folder = place[d].folder
        OBVIOUS
    <2>1. ~DocumentRequest
        BY DEF DocumentRequest, Upload, ZipImport, MoveDocument, TrashOrRestore, Write
    <2>2. PICK r \in Requests : FolderRequest(r)
        BY <2>1 DEF Next
    <2>3. Commit(r)
        BY <2>2, OnlyCommitWrites
    <2> QED
        BY <2>3, CommitStep
<1> QED
    BY <1>1, Invariance, PTL DEF Spec, DocumentsKeepTheirFolder

(* No folder request takes a document out of the trash or changes the path   *)
(* that it will be restored to, whatever soft deletes and restores it        *)
(* overlaps with (reconcile_paths_after_folder_change, delete_folder and     *)
(* empty_corpus).                                                            *)
THEOREM FoldersLeaveTheTrash == Spec => TrashKeepsItsPaths
<1>1. Inv /\ [Next]_vars =>
        [op' # op =>
            \A d \in DOMAIN place : place[d].trashed =>
                place'[d].trashed /\ place'[d].dir = place[d].dir]_vars
    <2> SUFFICES ASSUME Inv, Next, op' # op, NEW d \in DOMAIN place, place[d].trashed
                 PROVE  place'[d].trashed /\ place'[d].dir = place[d].dir
        OBVIOUS
    <2>1. ~DocumentRequest
        BY DEF DocumentRequest, Upload, ZipImport, MoveDocument, TrashOrRestore, Write
    <2>2. PICK r \in Requests : FolderRequest(r)
        BY <2>1 DEF Next
    <2>3. CASE Commit(r)
        BY <2>3, CommitStep DEF InTrash
    <2>4. CASE ~Commit(r)
        BY <2>2, <2>4, OnlyCommitWrites
    <2> QED
        BY <2>3, <2>4
<1> QED
    BY <1>1, Invariance, PTL DEF Spec, TrashKeepsItsPaths

-----------------------------------------------------------------------------
(* Folder requests that run alone: trees that change.                        *)

(* No folder that hangs off a root is its own parent.                        *)
LEMMA NotItsOwnParent ==
    ASSUME NEW F, TreeOK(F), NEW f \in Reachable(F)
    PROVE  F[f].parent # f
<1> SUFFICES ASSUME F[f].parent = f PROVE FALSE
    OBVIOUS
<1> DEFINE S == Reachable(F) \ {f}
<1>1. S \in SUBSET DOMAIN F /\ f \in DOMAIN F
    BY ReachFacts
<1>2. Children(F, {NULL}) \subseteq S
    <2>1. f \notin Children(F, {NULL})
        BY <1>1 DEF Children, TreeOK
    <2> QED
        BY <2>1, ReachFacts
<1>3. Children(F, S) \subseteq S
    <2>1. Children(F, S) \subseteq Children(F, Reachable(F)) /\ f \notin Children(F, S)
        BY DEF Children
    <2> QED
        BY <2>1, ReachFacts
<1> QED
    BY <1>1, <1>2, <1>3, ReachLeast

(* What get_path finds of one folder, from its parent's path.                *)
LEMMA PathOf ==
    ASSUME NEW F, TreeOK(F), NEW f \in Reachable(F)
    PROVE  /\ F[f].parent = NULL => PathIn(F)[f] = <<F[f].name>>
           /\ F[f].parent # NULL => PathIn(F)[f] = Append(PathIn(F)[F[f].parent], F[f].name)
BY PathEquation DEF PathStep

(* Outside a set T that is closed under children, two trees that hold the    *)
(* same rows have the same folders reachable, at the same paths.             *)
LEMMA SamePaths ==
    ASSUME NEW F, TreeOK(F), NEW G, TreeOK(G), NEW T, Children(F, T) \subseteq T,
           \A g \in DOMAIN F : g \notin T => g \in DOMAIN G /\ G[g] = F[g]
    PROVE  \A g \in Reachable(F) : g \notin T =>
              g \in Reachable(G) /\ PathIn(G)[g] = PathIn(F)[g]
<1> DEFINE Same(g) == g \in Reachable(G) /\ PathIn(G)[g] = PathIn(F)[g]
           S == {g \in Reachable(F) : g \in T \/ Same(g)}
<1>1. S \in SUBSET DOMAIN F /\ S \subseteq Reachable(F)
    BY ReachFacts
<1>2. ASSUME NEW g \in Children(F, {NULL}) PROVE g \in S
    <2>1. g \in Reachable(F) /\ g \in DOMAIN F /\ F[g].parent = NULL
        BY ReachFacts DEF Children
    <2>2. CASE g \notin T
        <3>1. g \in DOMAIN G /\ G[g] = F[g]
            BY <2>1, <2>2
        <3>2. g \in Reachable(G)
            BY <2>1, <3>1, ReachFacts DEF Children
        <3>3. PathIn(G)[g] = <<F[g].name>> /\ PathIn(F)[g] = <<F[g].name>>
            BY <2>1, <3>1, <3>2, PathOf
        <3> QED
            BY <2>1, <3>2, <3>3
    <2> QED
        BY <2>1, <2>2
<1>3. ASSUME NEW g \in Children(F, S) PROVE g \in S
    <2> DEFINE h == F[g].parent
    <2>1. g \in DOMAIN F /\ h \in S /\ h \in Reachable(F) /\ h # NULL
        BY <1>1, ReachFacts DEF Children, TreeOK
    <2>2. g \in Reachable(F)
        BY <2>1, ReachFacts DEF Children
    <2>3. CASE g \notin T
        <3>1. g \in DOMAIN G /\ G[g] = F[g]
            BY <2>1, <2>3
        <3>2. h \notin T
            BY <2>1, <2>3 DEF Children
        <3>3. h \in Reachable(G) /\ PathIn(G)[h] = PathIn(F)[h]
            BY <2>1, <3>2
        <3>4. g \in Reachable(G)
            BY <3>1, <3>3, ReachFacts DEF Children
        <3>5. PathIn(G)[g] = Append(PathIn(G)[h], F[g].name)
            BY <2>1, <3>1, <3>4, PathOf
        <3>6. PathIn(F)[g] = Append(PathIn(F)[h], F[g].name)
            BY <2>1, <2>2, PathOf
        <3> QED
            BY <2>2, <3>3, <3>4, <3>5, <3>6
    <2> QED
        BY <2>2, <2>3
<1>4. Reachable(F) \subseteq S
    BY <1>1, <1>2, <1>3, ReachLeast
<1> QED
    BY <1>4

(* A new row for folder f in the table F.                                    *)
Saved(F, f, row) == Put(F, Folder(f, row))

(* The table with the new row.                                               *)
LEMMA SavedFacts ==
    ASSUME NEW F, NEW f, NEW row
    PROVE  /\ \A x : x \in DOMAIN Saved(F, f, row) <=> x \in DOMAIN F \/ x = f
           /\ Saved(F, f, row)[f] = row
           /\ \A g \in DOMAIN F : g # f => Saved(F, f, row)[g] = F[g]
BY DEF Saved, Put, Folder

(* Whatever row a folder gets, what lies below it stays below it.            *)
LEMMA SavedSubtree ==
    ASSUME NEW F, NEW f \in DOMAIN F, NEW row
    PROVE  Subtree(Saved(F, f, row), f) = Subtree(F, f)
<1> DEFINE G == Saved(F, f, row)
<1>1. DOMAIN G = DOMAIN F /\ \A g \in DOMAIN F : g # f => G[g] = F[g]
    <2>1. /\ \A x : x \in DOMAIN G <=> x \in DOMAIN F \/ x = f
          /\ \A g \in DOMAIN F : g # f => G[g] = F[g]
        BY SavedFacts
    <2> HIDE DEF G
    <2> QED
        BY <2>1
<1> HIDE DEF G
<1>2. Subtree(G, f) \subseteq Subtree(F, f)
    <2> DEFINE S == Subtree(F, f)
    <2>1. S \in SUBSET DOMAIN F /\ f \in S /\ Children(F, S) \subseteq S
        BY SubtreeFacts
    <2> HIDE DEF S
    <2>2. Children(G, S) \subseteq S
        BY <1>1, <2>1 DEF Children
    <2>3. Subtree(G, f) \subseteq S
        BY <1>1, <2>1, <2>2, SubtreeLeast
    <2> QED
        BY <2>3 DEF S
<1>3. Subtree(F, f) \subseteq Subtree(G, f)
    <2> DEFINE S == Subtree(G, f)
    <2>1. S \in SUBSET DOMAIN F /\ f \in S /\ Children(G, S) \subseteq S
        BY <1>1, SubtreeFacts
    <2> HIDE DEF S
    <2>2. Children(F, S) \subseteq S
        BY <1>1, <2>1 DEF Children
    <2>3. Subtree(F, f) \subseteq S
        BY <2>1, <2>2, SubtreeLeast
    <2> QED
        BY <2>3 DEF S
<1> QED
    BY <1>2, <1>3 DEF G

(* The rest of a path below a folder: none for the folder itself, and a name *)
(* more for a child.                                                         *)
LEMMA EmptyRest == ASSUME NEW s \in Seq(Names) PROVE s = s \o <<>> /\ <<>> \in Seq(Names)
OBVIOUS

(* The rest of a child's path has the child's name more.                     *)
LEMMA AppendRest ==
    ASSUME NEW s \in Seq(Names), NEW u \in Seq(Names), NEW n \in Names
    PROVE  Append(s \o u, n) = s \o Append(u, n)
OBVIOUS

(* The path of a folder below f is f's path and the rest.  The rest does not *)
(* change when f gets a new row.                                             *)
LEMMA RestOfPath ==
    ASSUME NEW F, TreeOK(F), NEW f, NEW row, TreeOK(Saved(F, f, row)),
           f \in Reachable(F), f \in Reachable(Saved(F, f, row)), NEW h \in Subtree(F, f)
    PROVE  \E u \in Seq(Names) :
              /\ PathIn(F)[h] = PathIn(F)[f] \o u
              /\ PathIn(Saved(F, f, row))[h] = PathIn(Saved(F, f, row))[f] \o u
<1> DEFINE G == Saved(F, f, row)
           Rest(g, u) == PathIn(F)[g] = PathIn(F)[f] \o u /\ PathIn(G)[g] = PathIn(G)[f] \o u
           S == {g \in Subtree(F, f) : \E u \in Seq(Names) : Rest(g, u)}
<1>1. f \in DOMAIN F
    BY ReachFacts
<1>2. /\ DOMAIN G = DOMAIN F /\ \A g \in DOMAIN F : g # f => G[g] = F[g]
      /\ Subtree(G, f) = Subtree(F, f) /\ TreeOK(G) /\ f \in Reachable(G)
    <2>1. /\ \A x : x \in DOMAIN G <=> x \in DOMAIN F \/ x = f
          /\ \A g \in DOMAIN F : g # f => G[g] = F[g]
        BY SavedFacts
    <2>2. Subtree(G, f) = Subtree(F, f)
        BY <1>1, SavedSubtree
    <2> HIDE DEF G
    <2>3. DOMAIN G = DOMAIN F
        BY <1>1, <2>1
    <2> QED
        BY <2>1, <2>2, <2>3 DEF G
<1> HIDE DEF G
<1>3. PathIn(F)[f] \in Seq(Names) /\ PathIn(G)[f] \in Seq(Names)
    BY <1>2, PathType
<1>4. Subtree(F, f) \subseteq Reachable(F) /\ Subtree(F, f) \subseteq Reachable(G)
    BY <1>2, SubtreeReach
<1>5. S \in SUBSET DOMAIN F
    BY SubtreeFacts
<1>6. f \in S
    <2>1. Rest(f, <<>>)
        BY <1>3, EmptyRest
    <2>2. f \in Subtree(F, f) /\ <<>> \in Seq(Names)
        BY <1>1, <1>3, SubtreeFacts, EmptyRest
    <2> HIDE DEF Rest
    <2> QED
        BY <2>1, <2>2
<1>7. ASSUME NEW g \in Children(F, S), g # f PROVE g \in S
    <2> DEFINE p == F[g].parent
    <2>1. g \in DOMAIN F /\ p \in S /\ p # NULL /\ G[g] = F[g]
        BY <1>2, <1>5, <1>7 DEF Children, TreeOK
    <2>2. g \in Subtree(F, f)
        BY <2>1, SubtreeFacts DEF Children
    <2>3. g \in Reachable(F) /\ g \in Reachable(G) /\ F[g].name \in Names
        BY <1>4, <2>1, <2>2 DEF TreeOK, FolderRow
    <2>4. PICK u \in Seq(Names) : Rest(p, u)
        BY <2>1
    <2>5. /\ PathIn(F)[g] = Append(PathIn(F)[p], F[g].name)
          /\ PathIn(G)[g] = Append(PathIn(G)[p], F[g].name)
        BY <1>2, <2>1, <2>3, PathOf
    <2>6. Rest(g, Append(u, F[g].name))
        <3> DEFINE a == PathIn(F)[f]
                   b == PathIn(G)[f]
                   n == F[g].name
        <3>1. a \in Seq(Names) /\ b \in Seq(Names) /\ n \in Names
            BY <1>3, <2>3
        <3>2. PathIn(F)[g] = Append(a \o u, n) /\ PathIn(G)[g] = Append(b \o u, n)
            BY <2>4, <2>5
        <3> HIDE DEF a, b, n
        <3>3. Append(a \o u, n) = a \o Append(u, n) /\ Append(b \o u, n) = b \o Append(u, n)
            BY <3>1, AppendRest
        <3> QED
            BY <3>2, <3>3 DEF a, b, n
    <2>7. Append(u, F[g].name) \in Seq(Names)
        BY <2>3, AppendSeq
    <2> QED
        BY <2>2, <2>6, <2>7
<1>8. Children(F, S) \subseteq S
    BY <1>6, <1>7
<1>9. Subtree(F, f) \subseteq S
    BY <1>5, <1>6, <1>8, SubtreeLeast
<1> QED
    BY <1>9 DEF G

(* The tree without the folders in S.                                        *)
Pruned(F, S) == [f \in DOMAIN F \ S |-> F[f]]

(* A folder that goes with all that is below it cuts nothing off.            *)
LEMMA PrunedReachable ==
    ASSUME NEW F, TreeOK(F), Reachable(F) = DOMAIN F, NEW kind, NEW id
    PROVE  Reachable(Pruned(F, Doomed(kind, F, id))) = DOMAIN Pruned(F, Doomed(kind, F, id))
<1> DEFINE T == Doomed(kind, F, id)
           G == Pruned(F, T)
<1>1. Children(F, T) \subseteq T
    BY SubtreeFacts, ReachFacts DEF Doomed
<1> HIDE DEF T
<1>2. DOMAIN G = DOMAIN F \ T /\ \A f \in DOMAIN G : G[f] = F[f]
    BY DEF Pruned
<1> HIDE DEF G
<1>3. TreeOK(G)
    BY <1>2 DEF TreeOK
<1>4. \A f \in Reachable(F) : f \notin T => f \in Reachable(G)
    BY <1>1, <1>2, <1>3, SamePaths
<1>5. Reachable(G) = DOMAIN G
    BY <1>2, <1>4, ReachFacts
<1> QED
    BY <1>5 DEF G, T

(* A folder that is renamed or moved, and still hangs off a root, takes      *)
(* what is below it along; every other folder stays where it is.             *)
LEMMA SavedPaths ==
    ASSUME NEW F, TreeOK(F), NEW f \in Reachable(F), NEW row, TreeOK(Saved(F, f, row)),
           f \in Reachable(Saved(F, f, row))
    PROVE  \A h \in Reachable(F) :
              /\ h \in Reachable(Saved(F, f, row))
              /\ h \notin Subtree(F, f) => PathIn(Saved(F, f, row))[h] = PathIn(F)[h]
<1> DEFINE G == Saved(F, f, row)
           T == Subtree(F, f)
<1>1. /\ TreeOK(G) /\ f \in Reachable(G) /\ f \in DOMAIN F /\ f \in T
      /\ \A g \in DOMAIN F : g # f => g \in DOMAIN G /\ G[g] = F[g]
    BY ReachFacts, SavedFacts, SubtreeFacts
<1>2. Children(F, T) \subseteq T
    BY SubtreeFacts
<1>3. T \subseteq Reachable(G)
    BY <1>1, SavedSubtree, SubtreeReach
<1> HIDE DEF G, T
<1>4. \A h \in Reachable(F) : h \notin T => h \in Reachable(G) /\ PathIn(G)[h] = PathIn(F)[h]
    BY <1>1, <1>2, SamePaths
<1>5. \A h \in Reachable(F) :
         h \in Reachable(G) /\ (h \notin T => PathIn(G)[h] = PathIn(F)[h])
    BY <1>3, <1>4
<1> QED
    BY <1>5 DEF G, T

(* A new folder below a reachable one changes no path.                       *)
LEMMA CreatedPaths ==
    ASSUME NEW F, TreeOK(F), NEW k, k \notin DOMAIN F, NEW row,
           TreeOK(Saved(F, k, row)), row.parent \in Reachable(F) \cup {NULL}
    PROVE  /\ \A h \in Reachable(F) :
                 /\ h \in Reachable(Saved(F, k, row))
                 /\ PathIn(Saved(F, k, row))[h] = PathIn(F)[h]
           /\ k \in Reachable(Saved(F, k, row))
<1> DEFINE G == Saved(F, k, row)
<1>1. \A g \in DOMAIN F : g \notin {} => g \in DOMAIN G /\ G[g] = F[g]
    BY SavedFacts
<1>2. TreeOK(G) /\ k \in DOMAIN G /\ G[k] = row
    BY SavedFacts
<1>3. Children(F, {}) \subseteq {}
    BY DEF Children
<1> HIDE DEF G
<1>4. \A h \in Reachable(F) : h \in Reachable(G) /\ PathIn(G)[h] = PathIn(F)[h]
    BY <1>1, <1>2, <1>3, SamePaths
<1>5. k \in Reachable(G)
    BY <1>2, <1>4, ReachFacts DEF Children
<1> QED
    BY <1>4, <1>5 DEF G

(* The children of folder id, moved up to its parent.                        *)
Raised(F, id) == [g \in Children(F, {id}) |-> [F[g] EXCEPT !.parent = F[id].parent]]

(* They stay reachable, and nothing is left below id.                        *)
LEMMA RaisedTree ==
    ASSUME NEW F, TreeOK(F), Reachable(F) = DOMAIN F, NEW id \in DOMAIN F,
           TreeOK(Put(F, Raised(F, id)))
    PROVE  /\ Reachable(Put(F, Raised(F, id))) = DOMAIN Put(F, Raised(F, id))
           /\ Subtree(Put(F, Raised(F, id)), id) = {id}
<1> DEFINE up == Raised(F, id)
           G  == Put(F, up)
           p  == F[id].parent
<1>1. DOMAIN up = Children(F, {id}) /\ \A g \in DOMAIN up : up[g].parent = p
    <2>1. DOMAIN up = Children(F, {id})
        BY DEF Raised
    <2>2. ASSUME NEW g \in Children(F, {id}) PROVE up[g].parent = p
        <3>1. F[g] \in FolderRow
            BY DEF Children, TreeOK
        <3> DEFINE q == F[id].parent
        <3>2. up[g] = [F[g] EXCEPT !.parent = q]
            BY DEF Raised
        <3> HIDE DEF q
        <3>3. up[g].parent = q
            BY <3>1, <3>2 DEF FolderRow
        <3> QED
            BY <3>3 DEF q
    <2> QED
        BY <2>1, <2>2
<1>2. DOMAIN up \subseteq DOMAIN F
    BY <1>1 DEF Children
<1> HIDE DEF up
<1>3. /\ DOMAIN G = DOMAIN F
      /\ \A g \in DOMAIN F : G[g] = IF g \in DOMAIN up THEN up[g] ELSE F[g]
    BY <1>2, PutWithin
<1>4. TreeOK(G)
    BY DEF up
<1> HIDE DEF G, p
<1>5. p # id
    BY NotItsOwnParent DEF p
<1>6. id \in DOMAIN G /\ G[id].parent = p
    BY <1>1, <1>3, <1>5 DEF Children, p
<1>7. \A g \in DOMAIN F : /\ F[g].parent = id => G[g].parent = p
                          /\ F[g].parent # id => G[g].parent = F[g].parent
    BY <1>1, <1>3 DEF Children
<1>8. Subtree(G, id) = {id}
    <2>1. {id} \in SUBSET DOMAIN G /\ id \in {id}
        BY <1>6
    <2>2. Children(G, {id}) \subseteq {id}
        BY <1>3, <1>5, <1>7 DEF Children
    <2> DEFINE S == {id}
    <2>3. S \in SUBSET DOMAIN G /\ id \in S /\ Children(G, S) \subseteq S
        BY <2>1, <2>2
    <2> HIDE DEF S
    <2>4. Subtree(G, id) \subseteq S
        BY <2>3, SubtreeLeast
    <2>5. id \in Subtree(G, id)
        BY <1>6, SubtreeFacts
    <2> QED
        BY <2>4, <2>5 DEF S
<1>9. Reachable(F) \subseteq Reachable(G)
    <2> DEFINE S == Reachable(G)
    <2>1. S \in SUBSET DOMAIN F
        BY <1>3, ReachFacts
    <2>2. NULL # id
        BY DEF TreeOK
    <2>3. Children(F, {NULL}) \subseteq S
        <3>1. Children(F, {NULL}) \subseteq Children(G, {NULL})
            BY <1>3, <1>7, <2>2 DEF Children
        <3> QED
            BY <3>1, ReachFacts
    <2>4. ASSUME NEW g \in Children(F, S) PROVE g \in S
        <3>1. g \in DOMAIN G /\ F[g].parent \in S /\ g \in DOMAIN F
            BY <1>3 DEF Children
        <3>2. CASE F[g].parent = id
            <4>1. p = NULL \/ p \in S
                BY <1>6, <3>1, <3>2, ReachFacts
            <4> QED
                BY <1>7, <3>1, <3>2, <4>1, ReachFacts DEF Children
        <3>3. CASE F[g].parent # id
            BY <1>7, <3>1, <3>3, ReachFacts DEF Children
        <3> QED
            BY <3>2, <3>3
    <2>5. Children(F, S) \subseteq S
        BY <2>4
    <2> HIDE DEF S
    <2>6. Reachable(F) \subseteq S
        BY <2>1, <2>3, <2>5, ReachLeast
    <2> QED
        BY <2>6 DEF S
<1>10. Reachable(G) = DOMAIN G
    BY <1>3, <1>9, ReachFacts
<1> QED
    BY <1>8, <1>10 DEF G, up

-----------------------------------------------------------------------------
(* What a folder request that runs alone can rely on: the tables are still   *)
(* what it has read, and what its transaction has written will leave every   *)
(* folder reachable and every document where it can be found.                *)

(* The active documents of P in the folders S, and a document whose path     *)
(* string says where its folder is.                                          *)
LiesIn(P, S) == {d \in DOMAIN P : P[d].folder \in S /\ ~P[d].trashed}

FollowsIn(F, P, d) ==
    P[d].folder \in Reachable(F) /\ P[d].dir = PathIn(F)[P[d].folder]

(* The folders that a transaction leaves when it commits.                    *)
Result(F, writes, gone) ==
    [f \in (DOMAIN F \cup DOMAIN writes) \ gone |-> Put(F, writes)[f]]

(* Before the folder goes, what was in it has gone up, to the root or to the *)
(* trash.                                                                    *)
Emptied(F, P, kind, id, writes, places) ==
    /\ Reachable(Put(F, writes)) = DOMAIN Put(F, writes)
    /\ \A d \in LiesIn(P, Doomed(kind, Put(F, writes), id)) :
          /\ d \in DOMAIN places
          /\ \/ places[d].trashed /\ places[d].folder = P[d].folder
             \/ places[d].folder = NULL /\ places[d].dir = <<>>

(* What a whole transaction has written leaves: every folder reachable, the  *)
(* active documents of deleted folders at the root or in the trash, and, when*)
(* it deletes nothing, the path strings that said where their folder was.    *)
Written(F, P, writes, gone, places) ==
    /\ Reachable(Result(F, writes, gone)) = DOMAIN Result(F, writes, gone)
    /\ \A d \in LiesIn(P, gone) :
          /\ d \in DOMAIN places
          /\ places[d].folder = NULL /\ (places[d].trashed \/ places[d].dir = <<>>)
    /\ gone \cap DOMAIN F = {} =>
          \A d \in DOMAIN P : ~P[d].trashed /\ FollowsIn(F, P, d) =>
             FollowsIn(Result(F, writes, gone), Put(P, places), d)

(* What request o holds and has written fits the tables F and P.             *)
Ready(o, F, P) ==
    /\ o.phase \in {"read", "listed", "emptied"} /\ o.kind # "empty" => o.id \in Reachable(F)
    /\ o.phase = "read" =>
          /\ o.kind = "relocate" => o.path = PathIn(F)[o.id]
          /\ o.kind \in {"delete_keep", "update"} => o.row = F[o.id]
    /\ o.phase = "listed" => LiesIn(P, Doomed(o.kind, F, o.id)) \subseteq o.docs
    /\ o.phase = "emptied" => Emptied(F, P, o.kind, o.id, o.writes, o.places)
    /\ o.phase = "written" => Written(F, P, o.writes, o.gone, o.places)

(* The invariant of requests that run alone: every folder hangs off a root,  *)
(* at most one folder request is under way, and what it holds fits.          *)
AloneInv ==
    /\ folders = [f \in DOMAIN folders |-> folders[f]]
    /\ AllReachable
    /\ \A r, s \in Requests : op[r] # Idle /\ op[s] # Idle => r = s
    /\ \A r \in Requests : Ready(op[r], folders, place)

(* A slot with no request; and the two ways to say which documents are active*)
(* in a folder.                                                              *)
LEMMA IdleReady == ASSUME NEW F, NEW P PROVE Ready(Idle, F, P)
BY DEF Ready, Idle

(* The active documents in some folders, said of the current table.          *)
LEMMA ActiveLies == ASSUME NEW S PROVE ActiveIn(S) = LiesIn(place, S)
BY DEF ActiveIn, LiesIn

(* The tables that a transaction has written are a tree as well.             *)
LEMMA WrittenTree ==
    ASSUME FoldersOK, NEW n \in Nat, lastFolder <= n, NEW writes, NEW gone,
           WritesOK(n, writes, gone)
    PROVE  TreeOK(Put(folders, writes))
<1> DEFINE G == Put(folders, writes)
<1>1. /\ DOMAIN G = DOMAIN folders \cup DOMAIN writes
      /\ \A f \in DOMAIN folders \cup DOMAIN writes :
            G[f] = IF f \in DOMAIN writes THEN writes[f] ELSE folders[f]
    BY PutFacts
<1> HIDE DEF G
<1>2. \A f \in DOMAIN G : G[f] \in FolderRow
    BY <1>1 DEF FoldersOK, WritesOK
<1>3. NULL \notin DOMAIN G
    BY <1>1 DEF FoldersOK, WritesOK, NULL
<1> QED
    BY <1>2, <1>3 DEF TreeOK, G

(* A transaction that deletes nothing leaves the table it has written.       *)
LEMMA ResultSaved ==
    ASSUME NEW F, NEW f, NEW row
    PROVE  Result(F, Folder(f, row), {}) = Saved(F, f, row)
BY DEF Result, Saved, Put

(* What a transaction leaves is what it wrote without what it deleted.       *)
LEMMA ResultPruned ==
    ASSUME NEW F, NEW writes, NEW gone
    PROVE  Result(F, writes, gone) = Pruned(Put(F, writes), gone)
BY DEF Result, Pruned, Put

(* Nothing written over a table leaves the table.                            *)
LEMMA PutNone ==
    ASSUME NEW F
    PROVE  /\ F = [f \in DOMAIN F |-> F[f]] => Put(F, None) = F
           /\ \A x \in DOMAIN F : Put(F, None)[x] = F[x]
<1>1. /\ DOMAIN Put(F, None) = DOMAIN F /\ \A x \in DOMAIN F : Put(F, None)[x] = F[x]
      /\ Put(F, None) = [x \in DOMAIN Put(F, None) |-> Put(F, None)[x]]
    BY NoneFacts DEF Put
<1> QED
    BY <1>1

(* create_folder: no path changes.                                           *)
LEMMA CreateWrites ==
    ASSUME FoldersOK, AllReachable, NEW k \in Nat, lastFolder < k, NEW row \in FolderRow,
           row.parent \in Reachable(folders) \cup {NULL}
    PROVE  Written(folders, place, Folder(k, row), {}, None)
<1> DEFINE G == Saved(folders, k, row)
           W == Folder(k, row)
<1>1. k \notin DOMAIN folders /\ TreeOK(folders)
    BY TreeFacts DEF FoldersOK
<1>2. TreeOK(G)
    <2>1. DOMAIN W = {k} /\ W[k] = row
        BY FolderFacts
    <2> HIDE DEF W
    <2>2. WritesOK(k, W, {})
        BY <2>1 DEF WritesOK, FoldersOK
    <2>3. lastFolder <= k
        BY DEF FoldersOK
    <2>4. TreeOK(Put(folders, W))
        BY <2>2, <2>3, WrittenTree
    <2> QED
        BY <2>4 DEF Saved, W
<1>3. \A x : x \in DOMAIN G <=> x \in DOMAIN folders \/ x = k
    BY SavedFacts
<1>4. /\ \A h \in Reachable(folders) : h \in Reachable(G) /\ PathIn(G)[h] = PathIn(folders)[h]
      /\ k \in Reachable(G)
    BY <1>1, <1>2, CreatedPaths
<1> HIDE DEF G
<1>5. Reachable(G) = DOMAIN G
    BY <1>3, <1>4, ReachFacts DEF AllReachable
<1>6. \A d \in DOMAIN place : FollowsIn(folders, place, d) => FollowsIn(G, Put(place, None), d)
    BY <1>4, PutNone DEF FollowsIn
<1>7. Result(folders, W, {}) = G
    BY ResultSaved DEF G
<1> HIDE DEF W
<1>8. LiesIn(place, {}) = {}
    BY DEF LiesIn
<1> QED
    BY <1>5, <1>6, <1>7, <1>8 DEF Written, W

(* What Reconciled takes from a path below its folder is the rest of it.     *)
LEMMA RestIs ==
    ASSUME NEW s \in Seq(Names), NEW u \in Seq(Names)
    PROVE  SubSeq(s \o u, Len(s) + 1, Len(s \o u)) = u
OBVIOUS

(* A document whose path string says where its folder h is still says so     *)
(* when the folder f above it has a new row and its path is reconciled.      *)
LEMMA RelocateFollows ==
    ASSUME FoldersOK, NEW f \in Reachable(folders), NEW row, TreeOK(Saved(folders, f, row)),
           f \in Reachable(Saved(folders, f, row)), PlaceOK,
           NEW d \in DOMAIN place, ~place[d].trashed, FollowsIn(folders, place, d)
    PROVE  FollowsIn(Saved(folders, f, row),
                     Put(place, Reconciled(Saved(folders, f, row), f, PathIn(folders)[f])), d)
<1> DEFINE F   == folders
           G   == Saved(F, f, row)
           T   == Subtree(F, f)
           old == PathIn(F)[f]
           R   == Reconciled(G, f, old)
           h   == place[d].folder
<1>1. h \in Reachable(F) /\ place[d].dir = PathIn(F)[h]
    BY DEF FollowsIn
<1>2. TreeOK(F) /\ TreeOK(G) /\ f \in Reachable(G) /\ f \in DOMAIN F
    BY TreeFacts, ReachFacts
<1>3. Subtree(G, f) = T
    BY <1>2, SavedSubtree
<1>4. h \in Reachable(G) /\ (h \notin T => PathIn(G)[h] = PathIn(F)[h])
    BY <1>1, <1>2, SavedPaths
<1>5. /\ DOMAIN R \subseteq ActiveIn(T)
      /\ \A x \in DOMAIN R : R[x] = [place[x] EXCEPT !.dir = PathIn(G)[place[x].folder]]
    <2> HIDE DEF G, T
    <2> QED
        BY <1>3, NoneFacts DEF Reconciled
<1>6. DOMAIN R \subseteq DOMAIN place
    BY <1>5 DEF ActiveIn
<1>7. Put(place, R)[d] = IF d \in DOMAIN R THEN R[d] ELSE place[d]
    <2> HIDE DEF R
    <2> QED
        BY <1>6, PutWithin
<1>8. CASE d \in DOMAIN R
    <2> DEFINE path == PathIn(G)[h]
    <2>1. R[d] = [place[d] EXCEPT !.dir = path] /\ place[d] \in Place
        BY <1>5, <1>8 DEF PlaceOK
    <2> HIDE DEF path, R
    <2>2. R[d].dir = path /\ R[d].folder = h
        BY <2>1 DEF Place
    <2> QED
        BY <1>4, <1>7, <1>8, <2>2 DEF FollowsIn, path, R
<1>9. CASE d \notin DOMAIN R
    <2>1. CASE h \notin T
        BY <1>1, <1>4, <1>7, <1>9, <2>1 DEF FollowsIn
    <2>2. CASE h \in T
        <3>1. PICK u \in Seq(Names) : PathIn(F)[h] = old \o u /\ PathIn(G)[h] = PathIn(G)[f] \o u
            <4> HIDE DEF h
            <4>1. h \in Subtree(folders, f)
                BY <2>2
            <4> QED
                BY <1>2, <4>1, RestOfPath
        <3> DEFINE new == PathIn(G)[f]
        <3>2. old \in Seq(Names) /\ new \in Seq(Names)
            BY <1>2, PathType
        <3>3. old = new
            <4>1. SUFFICES ASSUME old # new PROVE d \in DOMAIN R
                BY <1>9
            <4>2. SubSeq(PathIn(G)[h], Len(PathIn(G)[f]) + 1, Len(PathIn(G)[h])) = u
                <5> HIDE DEF new
                <5>1. SubSeq(new \o u, Len(new) + 1, Len(new \o u)) = u
                    BY <3>2, RestIs
                <5> QED
                    BY <3>1, <5>1 DEF new
            <4>3. IsPrefix(old \o u, old \o u)
                <5> DEFINE s == old \o u
                <5>1. Len(s) <= Len(s) /\ SubSeq(s, 1, Len(s)) = SubSeq(s, 1, Len(s))
                    <6>1. s \in Seq(Names)
                        <7> HIDE DEF old
                        <7> QED
                            BY <3>2
                    <6> HIDE DEF s
                    <6> QED
                        BY <6>1
                <5> QED
                    BY <5>1 DEF IsPrefix
            <4>4. d \in ActiveIn(T)
                BY <2>2 DEF ActiveIn
            <4>5. IsPrefix(old \o SubSeq(PathIn(G)[h], Len(PathIn(G)[f]) + 1, Len(PathIn(G)[h])),
                           place[d].dir)
                BY <1>1, <3>1, <4>2, <4>3
            <4> HIDE DEF G, T, old
            <4> QED
                BY <1>3, <4>1, <4>4, <4>5 DEF Reconciled, new
        <3> QED
            BY <1>1, <1>4, <1>7, <1>9, <3>1, <3>3 DEF FollowsIn
    <2> QED
        BY <2>1, <2>2
<1> QED
    BY <1>8, <1>9

(* update_folder and move_folder.                                            *)
LEMMA RelocateWrites ==
    ASSUME FoldersOK, PlaceOK, AllReachable, NEW f \in Reachable(folders), NEW row \in FolderRow,
           f \in Reachable(Saved(folders, f, row))
    PROVE  Written(folders, place, Folder(f, row), {},
                   Reconciled(Saved(folders, f, row), f, PathIn(folders)[f]))
<1> DEFINE G == Saved(folders, f, row)
           W == Folder(f, row)
           R == Reconciled(G, f, PathIn(folders)[f])
<1>1. f \in DOMAIN folders /\ f \in 1..lastFolder /\ lastFolder \in Nat /\ TreeOK(folders)
    BY ReachRow, TreeFacts DEF FoldersOK
<1>2. TreeOK(G)
    <2>1. DOMAIN W = {f} /\ W[f] = row
        BY FolderFacts
    <2> HIDE DEF W
    <2>2. WritesOK(lastFolder, W, {}) /\ lastFolder <= lastFolder
        BY <1>1, <2>1 DEF WritesOK
    <2>3. TreeOK(Put(folders, W))
        BY <1>1, <2>2, WrittenTree
    <2> QED
        BY <2>3 DEF Saved, W
<1>3. \A d \in DOMAIN place : ~place[d].trashed /\ FollowsIn(folders, place, d) =>
          FollowsIn(G, Put(place, R), d)
    BY <1>2, RelocateFollows
<1>4. /\ \A x : x \in DOMAIN G <=> x \in DOMAIN folders \/ x = f
      /\ \A h \in Reachable(folders) : h \in Reachable(G)
    BY <1>1, <1>2, SavedFacts, SavedPaths
<1>5. Result(folders, W, {}) = G
    BY ResultSaved
<1> HIDE DEF G, R, W
<1>6. Reachable(G) = DOMAIN G
    BY <1>1, <1>4, ReachFacts DEF AllReachable
<1>7. LiesIn(place, {}) = {}
    BY DEF LiesIn
<1> QED
    BY <1>3, <1>5, <1>6, <1>7 DEF Written, G, R, W

(* delete_folder that keeps the contents: after move_children_to_parent, no  *)
(* folder and no active document is left in the folder.                      *)
LEMMA EmptyOutEmpties ==
    ASSUME FoldersOK, PlaceOK, AllReachable, NEW id \in Reachable(folders),
           TreeOK(Put(folders, Raised(folders, id)))
    PROVE  Emptied(folders, place, "delete_keep", id, Raised(folders, id),
                   [d \in ActiveIn({id}) |-> [place[d] EXCEPT !.folder = NULL, !.dir = <<>>]])
<1> DEFINE up == Raised(folders, id)
           G  == Put(folders, up)
           S  == {id}
           places == [d \in ActiveIn(S) |-> [place[d] EXCEPT !.folder = NULL, !.dir = <<>>]]
<1>1. id \in DOMAIN folders /\ TreeOK(folders) /\ Reachable(folders) = DOMAIN folders
    BY ReachFacts, TreeFacts DEF AllReachable
<1>2. Reachable(G) = DOMAIN G /\ Doomed("delete_keep", G, id) = S
    BY <1>1, RaisedTree DEF Doomed
<1> HIDE DEF G, S
<1>3. ASSUME NEW d \in LiesIn(place, S)
      PROVE  d \in DOMAIN places /\ places[d].folder = NULL /\ places[d].dir = <<>>
    <2>1. d \in ActiveIn(S) /\ place[d] \in Place
        BY ActiveLies, ActiveFacts
    <2>2. places[d] = [[place[d] EXCEPT !.folder = NULL] EXCEPT !.dir = <<>>]
        BY <2>1
    <2> DEFINE q == [place[d] EXCEPT !.folder = NULL]
    <2>3. q.folder = NULL /\ "dir" \in DOMAIN q /\ "folder" \in DOMAIN q
        BY <2>1 DEF Place
    <2> HIDE DEF q
    <2>4. [q EXCEPT !.dir = <<>>].folder = NULL /\ [q EXCEPT !.dir = <<>>].dir = <<>>
        BY <2>3
    <2> QED
        BY <2>1, <2>2, <2>4 DEF q
<1> HIDE DEF places
<1> QED
    BY <1>2, <1>3 DEF Emptied, G, up, S, places

(* delete_folder with its contents, and empty_corpus: the documents that were*)
(* listed go to the trash.                                                   *)
LEMMA TrashEmpties ==
    ASSUME FoldersOK, PlaceOK, AllReachable, folders = [f \in DOMAIN folders |-> folders[f]],
           NEW kind, NEW id, NEW docs, LiesIn(place, Doomed(kind, folders, id)) \subseteq docs
    PROVE  Emptied(folders, place, kind, id, None,
                   [d \in docs \cap ActiveIn(Anywhere) |-> [place[d] EXCEPT !.trashed = TRUE]])
<1> DEFINE T == Doomed(kind, folders, id)
           S == docs \cap ActiveIn(Anywhere)
           places == [d \in S |-> [place[d] EXCEPT !.trashed = TRUE]]
<1>1. Put(folders, None) = folders /\ Reachable(folders) = DOMAIN folders
    BY PutNone DEF AllReachable
<1>2. T \subseteq Anywhere
    BY DoomedFacts DEF Anywhere
<1> HIDE DEF T
<1>3. ASSUME NEW d \in LiesIn(place, T)
      PROVE  d \in DOMAIN places /\ places[d].trashed /\ places[d].folder = place[d].folder
    <2>1. d \in S
        BY <1>2 DEF ActiveIn, LiesIn, T
    <2>2. place[d] \in Place
        BY DEF LiesIn, PlaceOK
    <2> HIDE DEF S
    <2>3. PICK yes : yes = TRUE
        OBVIOUS
    <2>4. places[d] = [place[d] EXCEPT !.trashed = yes]
        BY <2>1, <2>3
    <2>5. places[d].trashed = yes /\ places[d].folder = place[d].folder
        BY <2>2, <2>4 DEF Place
    <2> QED
        BY <2>1, <2>3, <2>5
<1> HIDE DEF places
<1> QED
    BY <1>1, <1>3 DEF Emptied, T, S, places

(* folder.delete(): what was emptied goes, and nobody is left behind.        *)
LEMMA DeleteWrites ==
    ASSUME PlaceOK, NEW kind, NEW id, kind # "empty" => id \in Reachable(folders),
           NEW writes, NEW moved,
           Emptied(folders, place, kind, id, writes, moved), TreeOK(Put(folders, writes)),
           DOMAIN moved \subseteq DOMAIN place, \A d \in DOMAIN moved : moved[d] \in Place
    PROVE  LET P    == Put(place, moved)
               gone == Doomed(kind, Put(folders, writes), id)
           IN  Written(folders, place, writes, gone,
                       [d \in {x \in DOMAIN P : P[x].folder \in gone} \cup DOMAIN moved |->
                           IF P[d].folder \in gone THEN [P[d] EXCEPT !.folder = NULL] ELSE P[d]])
<1> DEFINE P    == Put(place, moved)
           G    == Put(folders, writes)
           gone == Doomed(kind, G, id)
           places == [d \in {x \in DOMAIN P : P[x].folder \in gone} \cup DOMAIN moved |->
                         IF P[d].folder \in gone THEN [P[d] EXCEPT !.folder = NULL] ELSE P[d]]
           H    == Result(folders, writes, gone)
<1>1. Reachable(G) = DOMAIN G
    BY DEF Emptied
<1>2. Reachable(H) = DOMAIN H
    <2>1. H = Pruned(G, gone)
        BY ResultPruned
    <2> HIDE DEF G, H
    <2> QED
        BY <1>1, <2>1, PrunedReachable DEF G
<1>3. gone \cap DOMAIN folders = {} => Reachable(folders) = {}
    <2>1. DOMAIN folders \subseteq DOMAIN G /\ Reachable(folders) \subseteq DOMAIN folders
        BY ReachFacts DEF Put
    <2>2. CASE kind # "empty"
        <3>1. id \in DOMAIN folders /\ id \in DOMAIN G
            BY <2>1, <2>2
        <3> HIDE DEF G
        <3>2. id \in gone
            BY <2>2, <3>1, DoomedFacts
        <3> QED
            BY <3>1, <3>2
    <2>3. CASE kind = "empty"
        <3> HIDE DEF G
        <3>1. gone = DOMAIN G
            BY <1>1, <2>3 DEF Doomed
        <3> QED
            BY <2>1, <3>1
    <2> QED
        BY <2>2, <2>3
<1>4. \A d \in LiesIn(place, gone) :
          /\ d \in DOMAIN moved
          /\ \/ moved[d].trashed /\ moved[d].folder = place[d].folder
             \/ moved[d].folder = NULL /\ moved[d].dir = <<>>
    BY DEF Emptied
<1>5. /\ DOMAIN P = DOMAIN place
      /\ \A d \in DOMAIN moved : P[d] = moved[d]
    BY PutWithin
<1>6. NULL \notin gone
    BY DoomedFacts DEF TreeOK
<1> HIDE DEF gone, P, G, H
<1>7. ASSUME NEW d \in LiesIn(place, gone)
      PROVE  /\ d \in DOMAIN places
             /\ places[d].folder = NULL /\ (places[d].trashed \/ places[d].dir = <<>>)
    <2>1. d \in DOMAIN moved /\ d \in DOMAIN places /\ P[d] = moved[d] /\ moved[d] \in Place
        BY <1>4, <1>5
    <2>2. place[d].folder \in gone
        BY DEF LiesIn
    <2>3. CASE P[d].folder \in gone
        <3>1. places[d] = [P[d] EXCEPT !.folder = NULL]
            BY <2>1, <2>3
        <3>2. moved[d].trashed
            BY <1>4, <1>6, <2>1, <2>3
        <3> HIDE DEF places
        <3>3. places[d].folder = NULL /\ places[d].trashed = P[d].trashed
            BY <2>1, <3>1 DEF Place
        <3> QED
            BY <2>1, <3>2, <3>3 DEF places
    <2>4. CASE P[d].folder \notin gone
        <3>1. places[d] = P[d]
            BY <2>1, <2>4
        <3>2. moved[d].folder = NULL /\ moved[d].dir = <<>>
            BY <1>4, <2>1, <2>2, <2>4
        <3> HIDE DEF places
        <3> QED
            BY <2>1, <3>1, <3>2 DEF places
    <2> QED
        BY <2>3, <2>4
<1>8. gone \cap DOMAIN folders = {} => \A d : ~FollowsIn(folders, place, d)
    BY <1>3 DEF FollowsIn
<1> HIDE DEF places
<1>9. Written(folders, place, writes, gone, places)
    BY <1>2, <1>7, <1>8 DEF Written, H
<1> QED
    BY <1>9 DEF P, G, gone, places

-----------------------------------------------------------------------------
(* Every step of a folder request that runs alone keeps what it relies on.   *)

(* The request r goes on with x, and no table changes.                       *)
LEMMA ReadyStep ==
    ASSUME Inv, AloneInv, NEW r \in Requests, Alone(r), NEW x, op' = [op EXCEPT ![r] = x],
           UNCHANGED <<folders, place>>, Ready(x, folders, place)
    PROVE  AloneInv'
<1>1. op'[r] = x /\ \A s \in Requests \ {r} : op'[s] = op[s] /\ op[s] = Idle
    BY DEF Inv, OpsOK, Alone
<1>2. \A s \in Requests : Ready(op'[s], folders, place)
    BY <1>1, IdleReady
<1>3. \A s, t \in Requests : op'[s] # Idle /\ op'[t] # Idle => s = t
    BY <1>1
<1>4. folders' = [f \in DOMAIN folders' |-> folders'[f]] /\ AllReachable'
    BY DEF AloneInv, AllReachable
<1> QED
    BY <1>2, <1>3, <1>4 DEF AloneInv

(* A rollback, and the load of a folder: no table changes.                   *)
LEMMA FailAlone == ASSUME Inv, AloneInv, NEW r \in Requests, Alone(r), Fail(r) PROVE AloneInv'
BY IdleReady, ReadyStep DEF Fail

(* A folder is loaded: what is kept of it is what the tables hold.           *)
LEMMA StartAlone ==
    ASSUME Inv, AloneInv, NEW r \in Requests, Alone(r), NEW kind, NEW f \in Reachable(folders),
           NEW row, NEW path, Start(r, kind, f, row, path),
           kind = "relocate" => path = PathIn(folders)[f],
           kind \in {"delete_keep", "update"} => row = folders[f]
    PROVE  AloneInv'
<1> DEFINE x == [Idle EXCEPT !.phase = "read", !.kind = kind, !.id = f, !.row = row, !.path = path]
<1>1. x.phase = "read" /\ x.kind = kind /\ x.id = f /\ x.row = row /\ x.path = path
    BY DEF Idle
<1>2. op' = [op EXCEPT ![r] = x] /\ UNCHANGED <<folders, place>>
    BY DEF Start
<1> HIDE DEF x
<1>3. Ready(x, folders, place)
    BY <1>1 DEF Ready
<1> QED
    BY <1>2, <1>3, ReadyStep

(* A statement of the transaction, once its writes are known to fit.         *)
LEMMA RunAlone ==
    ASSUME Inv, AloneInv, NEW r \in Requests, Alone(r), NEW phase, NEW kind, NEW writes,
           NEW gone, NEW places, Run(r, phase, kind, writes, gone, places),
           \/ /\ phase = "written" /\ Written(folders, place, writes, gone, places)
           \/ /\ phase = "emptied" /\ (kind # "empty" => op[r].id \in Reachable(folders))
              /\ Emptied(folders, place, kind, op[r].id, writes, places)
    PROVE  AloneInv'
<1> DEFINE x == [op[r] EXCEPT !.phase = phase, !.kind = kind, !.docs = {},
                     !.writes = writes, !.gone = gone, !.places = places]
<1>1. DOMAIN op[r] = OpFields
    BY DEF Inv, OpsOK, OpOK
<1>2. /\ x.phase = phase /\ x.kind = kind /\ x.id = op[r].id
      /\ x.writes = writes /\ x.gone = gone /\ x.places = places
    BY <1>1 DEF OpFields
<1>3. op' = [op EXCEPT ![r] = x] /\ UNCHANGED <<folders, place>>
    BY DEF Run
<1> HIDE DEF x
<1>4. Ready(x, folders, place)
    BY <1>2 DEF Ready
<1> QED
    BY <1>3, <1>4, ReadyStep

(* create_folder.                                                            *)
LEMMA CreateAlone ==
    ASSUME Inv, AloneInv, NEW r \in Requests, Alone(r),
           NEW parent \in Reachable(folders) \cup {NULL}, NEW name \in Names,
           Create(r, name, parent)
    PROVE  AloneInv'
<1> DEFINE row == [name |-> name, parent |-> parent]
           k   == lastFolder + 1
<1>1. FoldersOK /\ AllReachable /\ k \in Nat /\ lastFolder < k
    BY DEF Inv, AloneInv, FoldersOK
<1>2. row \in FolderRow /\ row.parent \in Reachable(folders) \cup {NULL}
    BY <1>1, ReachRow DEF NULL, FolderRow, FoldersOK
<1>3. Run(r, "written", "create", Folder(k, row), {}, None)
    BY DEF Create
<1> HIDE DEF row, k
<1>4. Written(folders, place, Folder(k, row), {}, None)
    BY <1>1, <1>2, CreateWrites
<1> QED
    BY <1>3, <1>4, RunAlone

(* update_folder and move_folder.                                            *)
LEMMA SaveRelocateAlone ==
    ASSUME Inv, AloneInv, NEW r \in Requests, Alone(r), SaveRelocate(r)
    PROVE  AloneInv'
<1> DEFINE f   == op[r].id
           row == op[r].row
           W   == Folder(f, row)
           R   == Reconciled(Saved(folders, f, row), f, PathIn(folders)[f])
<1>1. FoldersOK /\ PlaceOK /\ AllReachable /\ Ready(op[r], folders, place) /\ OpOK(op[r], lastFolder, place)
    BY DEF Inv, AloneInv, OpsOK
<1>2. op[r].phase = "read" /\ op[r].kind = "relocate"
    BY DEF SaveRelocate
<1>3. f \in Reachable(folders) /\ op[r].path = PathIn(folders)[f] /\ row \in FolderRow
    BY <1>1, <1>2 DEF Ready, OpOK
<1>4. f \in Reachable(Saved(folders, f, row)) /\ Run(r, "written", "relocate", W, {}, R)
    BY <1>3 DEF SaveRelocate, Saved
<1> HIDE DEF f, row
<1>5. Written(folders, place, W, {}, R)
    BY <1>1, <1>3, <1>4, RelocateWrites
<1> HIDE DEF W, R
<1> QED
    BY <1>4, <1>5, RunAlone

(* delete_folder, keeping the contents.                                      *)
LEMMA EmptyOutAlone ==
    ASSUME Inv, AloneInv, NEW r \in Requests, Alone(r), EmptyOut(r)
    PROVE  AloneInv'
<1> DEFINE id == op[r].id
           up == Raised(folders, id)
           places == [d \in ActiveIn({id}) |-> [place[d] EXCEPT !.folder = NULL, !.dir = <<>>]]
<1>1. FoldersOK /\ PlaceOK /\ AllReachable /\ Ready(op[r], folders, place)
    BY DEF Inv, AloneInv
<1>2. op[r].phase = "read" /\ op[r].kind = "delete_keep"
    BY DEF EmptyOut
<1>3. id \in Reachable(folders) /\ op[r].row = folders[id]
    BY <1>1, <1>2 DEF Ready
<1>4. Run(r, "emptied", "delete_keep", up, {}, places)
    BY <1>3 DEF EmptyOut, Raised
<1>5. TreeOK(Put(folders, up))
    <2> DEFINE p == folders[id].parent
    <2>1. id \in DOMAIN folders /\ folders[id] \in FolderRow
        BY <1>1, <1>3, ReachRow
    <2>2. p \in Nat
        BY <2>1 DEF FolderRow
    <2>3. up = [g \in Children(folders, {id}) |-> [folders[g] EXCEPT !.parent = p]]
        BY DEF Raised
    <2> HIDE DEF p
    <2>4. ASSUME NEW g \in Children(folders, {id}) PROVE up[g] \in FolderRow /\ g \in 1..lastFolder
        <3>1. g \in DOMAIN folders /\ folders[g] \in FolderRow /\ g \in 1..lastFolder
            BY <1>1 DEF Children, FoldersOK
        <3>2. up[g] = [folders[g] EXCEPT !.parent = p]
            BY <2>3
        <3> HIDE DEF up
        <3> QED
            BY <2>2, <3>1, <3>2 DEF FolderRow
    <2>5. DOMAIN up = Children(folders, {id})
        BY <2>3
    <2> HIDE DEF up
    <2>6. WritesOK(lastFolder, up, {}) /\ lastFolder \in Nat /\ lastFolder <= lastFolder
        BY <1>1, <2>4, <2>5 DEF WritesOK, FoldersOK
    <2> QED
        BY <1>1, <2>6, WrittenTree
<1> HIDE DEF id
<1>6. Emptied(folders, place, "delete_keep", id, up, places)
    BY <1>1, <1>3, <1>5, EmptyOutEmpties
<1> HIDE DEF up, places
<1> QED
    BY <1>3, <1>4, <1>6, RunAlone DEF id

(* update_folder that leaves the name: the row is what the table holds.      *)
LEMMA SaveUpdateAlone ==
    ASSUME Inv, AloneInv, NEW r \in Requests, Alone(r), SaveUpdate(r)
    PROVE  AloneInv'
<1> DEFINE f == op[r].id
           W == Folder(f, folders[f])
<1>1. /\ AllReachable /\ Ready(op[r], folders, place)
      /\ folders = [g \in DOMAIN folders |-> folders[g]]
    BY DEF AloneInv
<1>2. op[r].phase = "read" /\ op[r].kind = "update"
    BY DEF SaveUpdate
<1>3. f \in DOMAIN folders /\ op[r].row = folders[f]
    BY <1>1, <1>2, ReachFacts DEF Ready
<1>4. Run(r, "written", "update", W, {}, None)
    BY <1>3 DEF SaveUpdate
<1> HIDE DEF f
<1>5. Result(folders, W, {}) = folders
    <2>1. DOMAIN W = {f} /\ W[f] = folders[f]
        BY FolderFacts
    <2> HIDE DEF W
    <2>2. Result(folders, W, {}) = [g \in DOMAIN folders |-> folders[g]]
        BY <1>3, <2>1 DEF Result, Put
    <2> QED
        BY <1>1, <2>2
<1> HIDE DEF W
<1>6. \A d \in DOMAIN place : FollowsIn(folders, place, d) =>
          FollowsIn(folders, Put(place, None), d)
    BY PutNone DEF FollowsIn
<1>7. Written(folders, place, W, {}, None)
    BY <1>1, <1>5, <1>6 DEF Written, AllReachable, LiesIn
<1> QED
    BY <1>4, <1>7, RunAlone

(* The documents of a folder that is to be deleted, or of the corpus, are    *)
(* listed.                                                                   *)
LEMMA ListedAlone ==
    ASSUME Inv, AloneInv, NEW r \in Requests, Alone(r), ListContents(r) \/ StartEmpty(r)
    PROVE  AloneInv'
<1>1. /\ FoldersOK /\ AllReachable /\ Ready(op[r], folders, place)
      /\ OpOK(op[r], lastFolder, place)
    BY DEF Inv, AloneInv, OpsOK
<1>2. UNCHANGED <<folders, place>>
    BY DEF ListContents, StartEmpty
<1>3. CASE ListContents(r)
    <2> DEFINE docs == ActiveIn(Subtree(folders, op[r].id) \cap Reachable(folders))
               x    == [op[r] EXCEPT !.phase = "listed", !.docs = docs]
    <2>1. /\ op[r].phase = "read" /\ op[r].kind = "delete_all" /\ op' = [op EXCEPT ![r] = x]
          /\ DOMAIN op[r] = OpFields
        BY <1>1, <1>3 DEF ListContents, OpOK
    <2>2. op[r].id \in Reachable(folders)
        BY <1>1, <2>1 DEF Ready
    <2>3. docs = LiesIn(place, Doomed("delete_all", folders, op[r].id))
        BY <2>2, SubtreeReach, ActiveLies DEF Doomed
    <2> HIDE DEF docs
    <2>4. /\ x.phase = "listed" /\ x.kind = "delete_all" /\ x.id = op[r].id
          /\ x.docs = docs
        BY <2>1 DEF OpFields
    <2> HIDE DEF x
    <2>5. Ready(x, folders, place)
        BY <2>2, <2>3, <2>4 DEF Ready
    <2> QED
        BY <1>2, <2>1, <2>5, ReadyStep
<1>4. CASE StartEmpty(r)
    <2> DEFINE docs == ActiveIn(Anywhere)
               x    == [Idle EXCEPT !.phase = "listed", !.kind = "empty", !.docs = docs]
    <2>1. op' = [op EXCEPT ![r] = x]
        BY <1>4 DEF StartEmpty
    <2>2. LiesIn(place, Doomed("empty", folders, NULL)) \subseteq docs
        BY DoomedFacts DEF LiesIn, ActiveIn, Anywhere
    <2> HIDE DEF docs
    <2>3. x.phase = "listed" /\ x.kind = "empty" /\ x.id = NULL /\ x.docs = docs
        BY DEF Idle
    <2> HIDE DEF x
    <2>4. Ready(x, folders, place)
        BY <2>2, <2>3 DEF Ready
    <2> QED
        BY <1>2, <2>1, <2>4, ReadyStep
<1> QED
    BY <1>3, <1>4

(* They go to the trash.                                                     *)
LEMMA TrashListedAlone ==
    ASSUME Inv, AloneInv, NEW r \in Requests, Alone(r), TrashListed(r)
    PROVE  AloneInv'
<1> DEFINE id == op[r].id
           kind == op[r].kind
           docs == op[r].docs
           places == [d \in docs \cap ActiveIn(Anywhere) |-> [place[d] EXCEPT !.trashed = TRUE]]
<1>1. /\ FoldersOK /\ PlaceOK /\ AllReachable /\ Ready(op[r], folders, place)
      /\ folders = [f \in DOMAIN folders |-> folders[f]]
    BY DEF Inv, AloneInv
<1>2. op[r].phase = "listed" /\ Run(r, "emptied", kind, None, {}, places)
    BY DEF TrashListed
<1>3. /\ LiesIn(place, Doomed(kind, folders, id)) \subseteq docs
      /\ kind # "empty" => id \in Reachable(folders)
    BY <1>1, <1>2 DEF Ready
<1> HIDE DEF id, kind, docs
<1>4. Emptied(folders, place, kind, id, None, places)
    BY <1>1, <1>3, TrashEmpties
<1> HIDE DEF places
<1> QED
    BY <1>2, <1>3, <1>4, RunAlone DEF id

(* folder.delete(), after either.                                            *)
LEMMA DeleteRowsAlone ==
    ASSUME Inv, AloneInv, NEW r \in Requests, Alone(r), DeleteRows(r)
    PROVE  AloneInv'
<1> DEFINE id     == op[r].id
           writes == op[r].writes
           moved  == op[r].places
           kind   == op[r].kind
           P      == Put(place, moved)
           gone   == Doomed(kind, Put(folders, writes), id)
           places == [d \in {x \in DOMAIN P : P[x].folder \in gone} \cup DOMAIN moved |->
                         IF P[d].folder \in gone THEN [P[d] EXCEPT !.folder = NULL] ELSE P[d]]
<1>1. FoldersOK /\ PlaceOK /\ Ready(op[r], folders, place) /\ OpOK(op[r], lastFolder, place)
    BY DEF Inv, AloneInv, OpsOK
<1>2. op[r].phase = "emptied" /\ Run(r, "written", kind, writes, gone, places)
    BY DEF DeleteRows
<1>3. /\ kind # "empty" => id \in Reachable(folders)
      /\ Emptied(folders, place, kind, id, writes, moved)
    BY <1>1, <1>2 DEF Ready
<1>4. /\ WritesOK(lastFolder, writes, op[r].gone)
      /\ DOMAIN moved \subseteq DOMAIN place /\ \A d \in DOMAIN moved : moved[d] \in Place
    BY <1>1 DEF OpOK, PlacesOK
<1>5. TreeOK(Put(folders, writes))
    <2>1. lastFolder \in Nat /\ lastFolder <= lastFolder
        BY <1>1 DEF FoldersOK
    <2> HIDE DEF writes
    <2> QED
        BY <1>1, <1>4, <2>1, WrittenTree
<1> HIDE DEF id, kind, writes, moved
<1>6. Written(folders, place, writes, gone, places)
    BY <1>1, <1>3, <1>4, <1>5, DeleteWrites
<1> HIDE DEF gone, places
<1> QED
    BY <1>2, <1>6, RunAlone

(* A commit leaves what was written, and no request under way.               *)
LEMMA CommitAlone ==
    ASSUME Inv, AloneInv, NEW r \in Requests, Alone(r), Commit(r)
    PROVE  /\ AloneInv'
           /\ LET o == op[r]
              IN  /\ Written(folders, place, o.writes, o.gone, o.places)
                  /\ folders' = Result(folders, o.writes, o.gone)
                  /\ place' = Put(place, o.places)
<1> DEFINE o == op[r]
           F == Result(folders, o.writes, o.gone)
<1>1. /\ o.phase = "written" /\ op' = [op EXCEPT ![r] = Idle]
      /\ folders' = F /\ place' = Put(place, o.places)
    BY DEF Commit, Result
<1>2. Written(folders, place, o.writes, o.gone, o.places)
    BY <1>1 DEF AloneInv, Ready
<1>3. \A s \in Requests : op'[s] = Idle
    BY <1>1 DEF Inv, OpsOK, Alone
<1>4. F = [f \in DOMAIN F |-> F[f]]
    BY DEF Result
<1>5. AllReachable'
    BY <1>1, <1>2 DEF Written, AllReachable
<1> HIDE DEF F
<1>6. folders' = [f \in DOMAIN folders' |-> folders'[f]]
    BY <1>1, <1>4
<1>7. \A s \in Requests : Ready(op'[s], folders', place')
    BY <1>3, IdleReady
<1> QED
    BY <1>1, <1>2, <1>3, <1>5, <1>6, <1>7 DEF AloneInv, F

(* The folder requests, one by one.                                          *)
LEMMA FolderRequestAlone ==
    ASSUME Inv, AloneInv, NEW r \in Requests, Alone(r), FolderRequest(r)
    PROVE  AloneInv'
<1>1. ASSUME NEW parent \in Reachable(folders) \cup {NULL}, NEW name \in Names,
             Create(r, name, parent)
      PROVE  AloneInv'
    BY <1>1, CreateAlone
<1>2. ASSUME NEW parent, NEW f \in Reachable(folders), StartMove(r, f, parent)
      PROVE  AloneInv'
    <2> DEFINE row == [folders[f] EXCEPT !.parent = parent]
    <2>1. Start(r, "relocate", f, row, PathIn(folders)[f])
        BY <1>2 DEF StartMove
    <2> HIDE DEF row
    <2> QED
        BY <2>1, StartAlone
<1>3. ASSUME NEW f \in Reachable(folders), NEW name, StartRename(r, f, name)
      PROVE  AloneInv'
    <2> DEFINE row == [folders[f] EXCEPT !.name = name]
    <2>1. Start(r, "relocate", f, row, PathIn(folders)[f])
        BY <1>3 DEF StartRename
    <2> HIDE DEF row
    <2> QED
        BY <2>1, StartAlone
<1>4. ASSUME NEW f \in Reachable(folders), NEW kind \in {"delete_keep", "delete_all"},
             StartDelete(r, f, kind)
      PROVE  AloneInv'
    <2> DEFINE row == IF kind = "delete_keep" THEN folders[f] ELSE None
    <2>1. Start(r, kind, f, row, <<>>) /\ (kind = "delete_keep" => row = folders[f])
          /\ kind # "update" /\ kind # "relocate"
        BY <1>4 DEF StartDelete
    <2> HIDE DEF row
    <2> QED
        BY <2>1, StartAlone
<1>5. CASE SaveRelocate(r)
    BY <1>5, SaveRelocateAlone
<1>6. CASE EmptyOut(r)
    BY <1>6, EmptyOutAlone
<1>7. CASE TrashListed(r)
    BY <1>7, TrashListedAlone
<1>8. CASE DeleteRows(r)
    BY <1>8, DeleteRowsAlone
<1>9. CASE Commit(r)
    BY <1>9, CommitAlone
<1>10. CASE Fail(r)
    BY <1>10, FailAlone
<1>11. ASSUME NEW f \in Reachable(folders), StartUpdate(r, f)
       PROVE  AloneInv'
    BY <1>11, StartAlone DEF StartUpdate
<1>12. CASE SaveUpdate(r)
    BY <1>12, SaveUpdateAlone
<1>13. CASE ListContents(r) \/ StartEmpty(r)
    BY <1>13, ListedAlone
<1> QED
    BY <1>1, <1>2, <1>3, <1>4, <1>5, <1>6, <1>7, <1>8, <1>9, <1>10, <1>11, <1>12, <1>13
    DEF FolderRequest

(* The documents' requests change no folder, and find no folder request      *)
(* under way.                                                                *)
LEMMA DocumentRequestAlone ==
    ASSUME AloneInv, DocumentRequest, \A r \in Requests : op[r] = Idle
    PROVE  AloneInv'
<1>1. folders' = folders /\ op' = op
    BY DEF DocumentRequest, Upload, ZipImport, MoveDocument, TrashOrRestore, Write
<1>2. \A r \in Requests : Ready(op'[r], folders', place')
    BY <1>1, IdleReady
<1> QED
    BY <1>1, <1>2 DEF AloneInv, AllReachable

(* Every step of requests that run alone keeps both invariants, which hold at*)
(* the start.                                                                *)
LEMMA NextAlone == Inv /\ AloneInv /\ [NextApart]_vars => (Inv /\ AloneInv)'
<1> SUFFICES ASSUME Inv, AloneInv, [NextApart]_vars PROVE Inv' /\ AloneInv'
    OBVIOUS
<1>1. CASE DocumentRequest /\ \A r \in Requests : op[r] = Idle
    <2>1. Next
        BY <1>1 DEF Next
    <2> QED
        BY <1>1, <2>1, NextInv, DocumentRequestAlone
<1>2. ASSUME NEW r \in Requests, Alone(r), FolderRequest(r)
      PROVE  Inv' /\ AloneInv'
    <2>1. Next
        BY <1>2 DEF Next
    <2>2. AloneInv'
        BY <1>2, FolderRequestAlone
    <2> QED
        BY <2>1, <2>2, NextInv
<1>3. CASE UNCHANGED vars
    <2>1. AloneInv'
        BY <1>3 DEF vars, AloneInv, AllReachable
    <2> QED
        BY <1>3, <2>1, NextInv
<1> QED
    BY <1>1, <1>2, <1>3 DEF NextApart

(* The invariant of requests that run alone holds at the start.              *)
LEMMA InitAlone == Init => AloneInv
<1> SUFFICES ASSUME Init PROVE AloneInv
    OBVIOUS
<1>1. folders = None /\ DOMAIN folders = {}
    BY NoneFacts DEF Init
<1>2. folders = [f \in DOMAIN folders |-> folders[f]]
    BY <1>1 DEF None
<1>3. AllReachable
    BY <1>1, ReachFacts DEF AllReachable
<1>4. \A r \in Requests : op[r] = Idle
    BY DEF Init
<1> QED
    BY <1>2, <1>3, <1>4, IdleReady DEF AloneInv

(* So both always hold.                                                      *)
LEMMA AlwaysAlone == SpecApart => [](Inv /\ AloneInv)
BY InitInv, InitAlone, NextAlone, PTL DEF SpecApart

(* What the steps of requests that run alone do to the tables.               *)
LEMMA ApartStep ==
    ASSUME Inv, AloneInv, NextApart
    PROVE  \/ DocumentRequest
           \/ UNCHANGED <<folders, place>>
           \/ \E writes, gone, places :
                 /\ Written(folders, place, writes, gone, places)
                 /\ folders' = Result(folders, writes, gone) /\ place' = Put(place, places)
<1>1. ASSUME NEW r \in Requests, Alone(r), FolderRequest(r), ~Commit(r)
      PROVE  UNCHANGED <<folders, place>>
    BY <1>1, OnlyCommitWrites
<1> QED
    BY <1>1, CommitAlone DEF NextApart

-----------------------------------------------------------------------------

(* As long as folder requests run one after the other, every folder hangs    *)
(* off a root ("Cannot move folder into its descendants", folders.py:635).   *)
(* It takes two that overlap to lose a folder in a cycle.                    *)
THEOREM AloneAllReachable == SpecApart => []AllReachable
<1>1. AloneInv => AllReachable
    BY DEF AloneInv
<1> QED
    BY <1>1, AlwaysAlone, PTL

(* As long as they run alone, a deletion leaves no active document without a *)
(* place (delete_folder): at the root, or in the trash.                      *)
THEOREM DeletionStrandsNothing == SpecApart => NoDocumentStranded
<1>1. Inv /\ AloneInv /\ [NextApart]_vars =>
        [\A d \in ActiveIn(DOMAIN folders \ DOMAIN folders') :
            place'[d].folder = NULL /\ (place'[d].trashed \/ place'[d].dir = <<>>)]_vars
    <2> SUFFICES ASSUME Inv, AloneInv, NextApart, NEW d \in ActiveIn(DOMAIN folders \ DOMAIN folders')
                 PROVE  place'[d].folder = NULL /\ (place'[d].trashed \/ place'[d].dir = <<>>)
        OBVIOUS
    <2>1. folders' # folders
        BY DEF ActiveIn
    <2>2. ~DocumentRequest
        BY <2>1 DEF DocumentRequest, Upload, ZipImport, MoveDocument, TrashOrRestore, Write
    <2>3. PICK writes, gone, places :
             /\ Written(folders, place, writes, gone, places)
             /\ folders' = Result(folders, writes, gone) /\ place' = Put(place, places)
        BY <2>1, <2>2, ApartStep
    <2>4. DOMAIN folders \ DOMAIN folders' \subseteq gone
        BY <2>3 DEF Result
    <2>5. d \in LiesIn(place, gone)
        BY <2>4 DEF ActiveIn, LiesIn
    <2>6. /\ d \in DOMAIN places
          /\ places[d].folder = NULL /\ (places[d].trashed \/ places[d].dir = <<>>)
        BY <2>3, <2>5 DEF Written
    <2>7. place'[d] = places[d]
        BY <2>3, <2>6 DEF Put
    <2> QED
        BY <2>6, <2>7
<1> QED
    BY <1>1, AlwaysAlone, PTL DEF SpecApart, NoDocumentStranded

(* As long as they run alone, renaming or moving a folder at any height, and *)
(* creating one, keeps the path string of every document that says where its *)
(* folder is true (reconcile_paths_after_folder_change).                     *)
THEOREM RelocationsKeepPaths == SpecApart => RelocationKeepsPaths
<1>1. Inv /\ AloneInv /\ [NextApart]_vars =>
        [DOMAIN folders \subseteq DOMAIN folders' =>
            \A d \in DOMAIN place : Follows(d) /\ StaysPut(d) => Follows(d)']_vars
    <2> SUFFICES ASSUME Inv, AloneInv, NextApart, DOMAIN folders \subseteq DOMAIN folders',
                        NEW d \in DOMAIN place, Follows(d), StaysPut(d)
                 PROVE  Follows(d)'
        OBVIOUS
    <2>1. ~place[d].trashed /\ ~place'[d].trashed /\ FollowsIn(folders, place, d)
        BY DEF Follows, StaysPut, ActiveIn, FollowsIn
    <2>2. CASE UNCHANGED <<folders, place>>
        BY <2>2 DEF Follows, ActiveIn
    <2>3. CASE DocumentRequest
        <3>1. PICK e : e \in Docs /\ \E p : Write(e, p) /\ (e = d => p.folder # place[d].folder \/ p.trashed)
            <4>1. ASSUME NEW e \in Docs, NEW f, Upload(e, f) \/ ZipImport(e, f)
                  PROVE  \E p : Write(e, p) /\ e # d
                BY <4>1 DEF Upload, ZipImport
            <4>2. ASSUME NEW e \in Docs, NEW f, MoveDocument(e, f)
                  PROVE  \E p : Write(e, p) /\ (e = d => p.folder # place[d].folder)
                <5> DEFINE dir == IF f = NULL THEN <<>> ELSE PathIn(folders)[f]
                           p   == [place[e] EXCEPT !.folder = f, !.dir = dir]
                <5>1. Write(e, p) /\ e \in DOMAIN place /\ place[e].folder # f
                    BY <4>2 DEF MoveDocument, ActiveIn
                <5>2. place[e] \in Place
                    BY <5>1 DEF Inv, PlaceOK
                <5> HIDE DEF dir
                <5>3. p.folder = f
                    BY <5>2 DEF Place
                <5> QED
                    BY <5>1, <5>3
            <4>3. ASSUME NEW e \in Docs, TrashOrRestore(e)
                  PROVE  \E p : Write(e, p) /\ (e = d => p.trashed)
                <5> DEFINE p == [place[e] EXCEPT !.trashed = ~@]
                <5>1. Write(e, p) /\ e \in DOMAIN place
                    BY <4>3 DEF TrashOrRestore
                <5>2. place[e] \in Place
                    BY <5>1 DEF Inv, PlaceOK
                <5>3. p.trashed = ~place[e].trashed
                    BY <5>2 DEF Place
                <5> QED
                    BY <2>1, <5>1, <5>3
            <4> QED
                BY <2>3, <4>1, <4>2, <4>3 DEF DocumentRequest
        <3>2. PICK p : Write(e, p) /\ (e = d => p.folder # place[d].folder \/ p.trashed)
            BY <3>1
        <3>3. folders' = folders /\ place' = Put(place, [x \in {e} |-> p])
            BY <3>2 DEF Write
        <3>4. e # d
            <4>1. e = d => place'[d] = p
                BY <3>3 DEF Put
            <4> QED
                BY <2>1, <3>2, <4>1 DEF StaysPut
        <3>5. d \in DOMAIN place' /\ place'[d] = place[d]
            BY <3>3, <3>4 DEF Put
        <3> QED
            BY <3>3, <3>5 DEF Follows, ActiveIn
    <2>4. CASE \E writes, gone, places :
                  /\ Written(folders, place, writes, gone, places)
                  /\ folders' = Result(folders, writes, gone) /\ place' = Put(place, places)
        <3>1. PICK writes, gone, places :
                 /\ Written(folders, place, writes, gone, places)
                 /\ folders' = Result(folders, writes, gone) /\ place' = Put(place, places)
            BY <2>4
        <3>2. gone \cap DOMAIN folders = {}
            BY <3>1 DEF Result
        <3>3. FollowsIn(folders', place', d)
            BY <2>1, <3>1, <3>2 DEF Written
        <3>4. d \in DOMAIN place'
            BY <3>1 DEF Put
        <3> QED
            BY <2>1, <3>3, <3>4 DEF Follows, FollowsIn, ActiveIn
    <2> QED
        BY <2>2, <2>3, <2>4, ApartStep
<1> QED
    BY <1>1, AlwaysAlone, PTL DEF SpecApart, RelocationKeepsPaths

=============================================================================
