------------------------- MODULE DocVersioningProofs -------------------------
(***************************************************************************)
(* Proofs about DocVersioning, for every number of requests, corpora,      *)
(* paths and rows, in two parts.                                           *)
(*                                                                         *)
(* Whatever requests overlap.  The difficulty is the rows a request holds  *)
(* in memory: a stale save can write them back long after the tables have  *)
(* moved on, even after the row was deleted.  The invariant Inv therefore  *)
(* speaks of a ledger: h gives every path row ever written, t the version  *)
(* tree of every document ever made, and c the corpus of every version     *)
(* tree.  Tables and memories may lose rows, but all agree with one        *)
(* ledger.  The constraints of the schema hold on top of it.               *)
(*                                                                         *)
(* Requests that keep apart.  The invariant ApartInv adds that the rows in *)
(* memory are the rows of the tables, and that the tables are a forest     *)
(* with one head to a tree.  From it follow the properties of a lineage    *)
(* and that the store implements the filesystem of CorpusFiles.            *)
(***************************************************************************)
EXTENDS DocFilesystem, FiniteSetTheorems, WellFoundedInduction, TLAPS

(* a and b are the same row, up to the columns that are ever updated.        *)
SameRow(a, b) ==
    /\ a.doc = b.doc /\ a.corpus = b.corpus /\ a.path = b.path
    /\ a.ver = b.ver /\ a.parent = b.parent /\ a.deleted = b.deleted

NodesOK(N, h) ==
    /\ DOMAIN N \subseteq DOMAIN h
    /\ \A n \in DOMAIN N : N[n] \in NodeRow /\ SameRow(N[n], h[n])

DocsOK(D, t, i) ==
    /\ DOMAIN D \subseteq 1..i
    /\ \A d \in DOMAIN D : D[d] \in DocRow /\ D[d].tree = t[d]

(* One row of the ledger.                                                    *)
EntryOK(n, row, h, t, c, i) ==
    /\ row \in NodeRow
    /\ row.doc \in 1..i
    /\ c[t[row.doc]] = row.corpus
    /\ \/ row.parent = NULL /\ row.ver = 1
       \/ /\ row.parent \in DOMAIN h /\ row.parent < n
          /\ ChildOf(row, h[row.parent])

LedgerOK(h, t, c, i, k) ==
    /\ DOMAIN h \subseteq 1..k
    /\ \A d \in 1..i : t[d] \in 1..i
    /\ \A n \in DOMAIN h : EntryOK(n, h[n], h, t, c, i)

RequestOK(o, h, t, i) ==
    /\ o.kind \in OpKinds
    /\ o.doc \in 0..i
    /\ DocsOK(o.docs, t, i)
    /\ NodesOK(o.nodes, h)
    /\ o.kind \in {"soft_delete", "restore", "restore_version"}
          => \E n : DOMAIN o.nodes = {n}
    /\ o.kind \in {"read_version", "restore_version"} => o.doc \in DOMAIN o.docs
    /\ o.kind = "restore_version" =>
          \A n \in DOMAIN o.nodes : /\ t[o.nodes[n].doc] = o.docs[o.doc].tree
                                    /\ o.nodes[n].current

ForeignKeys(D, N) ==
    \A n \in DOMAIN N : N[n].doc \in DOMAIN D /\ N[n].parent \in DOMAIN N \cup {NULL}

Agree(h, t, c) ==
    /\ LedgerOK(h, t, c, lastDoc, lastNode)
    /\ DocsOK(docs, t, lastDoc)
    /\ NodesOK(nodes, h)
    /\ \A r \in Requests : RequestOK(op[r], h, t, lastDoc)

Inv ==
    /\ lastDoc \in Nat /\ lastNode \in Nat
    /\ op = [r \in Requests |-> op[r]]
    /\ ForeignKeys(docs, nodes)
    /\ \E h, t, c : Agree(h, t, c)

-----------------------------------------------------------------------------
(* What the invariant gives.                                                 *)

(* The ledger types the tables and what the requests hold.                   *)
LEMMA InvTypeOK == Inv => TypeOK
<1> SUFFICES ASSUME Inv PROVE TypeOK
    OBVIOUS
<1>1. PICK h, t, c : Agree(h, t, c)
    BY DEF Inv
<1> QED
    BY <1>1 DEF Inv, Agree, LedgerOK, DocsOK, NodesOK, RequestOK, TypeOK

(* Ledger entries count versions, and the tables agree with the ledger.      *)
LEMMA InvVersionsCount == Inv => VersionsCount
<1> SUFFICES ASSUME Inv, NEW n \in DOMAIN nodes
             PROVE  IF nodes[n].parent = NULL
                    THEN nodes[n].ver = 1
                    ELSE /\ nodes[n].parent < n
                         /\ ChildOf(nodes[n], nodes[nodes[n].parent])
    BY DEF VersionsCount
<1>1. PICK h, t, c : Agree(h, t, c)
    BY DEF Inv
<1>2. n \in DOMAIN h /\ SameRow(nodes[n], h[n]) /\ EntryOK(n, h[n], h, t, c, lastDoc)
    BY <1>1 DEF Agree, NodesOK, LedgerOK
<1>3. n \in 1..lastNode /\ DOMAIN h \subseteq 1..lastNode /\ lastNode \in Nat
    BY <1>1, <1>2 DEF Agree, LedgerOK, Inv
<1>4. CASE nodes[n].parent = NULL
    BY <1>2, <1>3, <1>4 DEF SameRow, EntryOK, NULL
<1>5. CASE nodes[n].parent # NULL
    <2>1. nodes[n].parent \in DOMAIN nodes
        BY <1>5 DEF Inv, ForeignKeys
    <2>2. SameRow(nodes[nodes[n].parent], h[nodes[n].parent])
        BY <1>1, <2>1 DEF Agree, NodesOK
    <2> QED
        BY <1>2, <1>5, <2>2 DEF SameRow, EntryOK, ChildOf
<1> QED
    BY <1>4, <1>5

(* The ledger gives every version tree one corpus.                           *)
LEMMA InvCorpusIsolation == Inv => CorpusIsolation
<1> SUFFICES ASSUME Inv, NEW m \in DOMAIN nodes, NEW n \in DOMAIN nodes,
                    docs[nodes[m].doc].tree = docs[nodes[n].doc].tree
             PROVE  nodes[m].corpus = nodes[n].corpus
    BY DEF CorpusIsolation
<1>1. PICK h, t, c : Agree(h, t, c)
    BY DEF Inv
<1>2. ASSUME NEW x \in DOMAIN nodes
      PROVE  nodes[x].corpus = c[docs[nodes[x].doc].tree]
    <2>1. SameRow(nodes[x], h[x]) /\ c[t[h[x].doc]] = h[x].corpus
        BY <1>1 DEF Agree, NodesOK, LedgerOK, EntryOK
    <2>2. docs[nodes[x].doc].tree = t[nodes[x].doc]
        BY <1>1 DEF Inv, ForeignKeys, Agree, DocsOK
    <2> QED
        BY <2>1, <2>2 DEF SameRow
<1> QED
    BY <1>2

-----------------------------------------------------------------------------
(* Bringing the ledger forward.                                              *)

(* The ledger (h2, t2, c2) with i2 documents extends (h, t, c) with i.       *)
Extends(h2, t2, i2, h, t, i) ==
    /\ i \in Nat /\ i2 \in Nat /\ i <= i2
    /\ DOMAIN h \subseteq DOMAIN h2
    /\ \A n \in DOMAIN h : h2[n] = h[n]
    /\ \A d \in 1..i : t2[d] = t[d]

(* Tables that agree with a ledger agree with every ledger that extends it.  *)
LEMMA TablesCarryOver ==
    ASSUME NEW h, NEW t, NEW i, NEW h2, NEW t2, NEW i2, Extends(h2, t2, i2, h, t, i)
    PROVE  /\ \A N : NodesOK(N, h) => NodesOK(N, h2)
           /\ \A D : DocsOK(D, t, i) => DocsOK(D, t2, i2)
<1>1. ASSUME NEW N, NodesOK(N, h) PROVE NodesOK(N, h2)
    BY <1>1 DEF NodesOK, Extends
<1>2. ASSUME NEW D, DocsOK(D, t, i) PROVE DocsOK(D, t2, i2)
    BY <1>2 DEF DocsOK, Extends
<1> QED
    BY <1>1, <1>2

(* So do the rows that a request holds.                                      *)
LEMMA RequestCarriesOver ==
    ASSUME NEW h, NEW t, NEW c, NEW i, NEW k, NEW h2, NEW t2, NEW i2,
           Extends(h2, t2, i2, h, t, i), LedgerOK(h, t, c, i, k),
           NEW o, RequestOK(o, h, t, i)
    PROVE  RequestOK(o, h2, t2, i2)
<1>1. DocsOK(o.docs, t2, i2) /\ NodesOK(o.nodes, h2)
    BY TablesCarryOver DEF RequestOK
<1>2. o.doc \in 0..i2
    BY DEF RequestOK, Extends
<1>3. ASSUME o.kind = "restore_version", NEW n \in DOMAIN o.nodes
      PROVE  t2[o.nodes[n].doc] = o.docs[o.doc].tree
    <2>1. o.nodes[n].doc = h[n].doc /\ h[n].doc \in 1..i
        BY DEF RequestOK, NodesOK, SameRow, LedgerOK, EntryOK
    <2> QED
        BY <1>3, <2>1 DEF RequestOK, Extends
<1> QED
    BY <1>1, <1>2, <1>3 DEF RequestOK

(* The rows new, with ids above k, fit a ledger that t2 and c2 extend to i2  *)
(* documents and new to k2 path rows.                                        *)
Grows(h, t, c, i, k, t2, c2, i2, k2, new) ==
    /\ i \in Nat /\ k \in Nat /\ i2 \in Nat /\ k2 \in Nat /\ i <= i2 /\ k <= k2
    /\ \A d \in 1..i : t2[d] = t[d] /\ c2[d] = c[d]
    /\ \A d \in 1..i2 : t2[d] \in 1..i2
    /\ DOMAIN new \subseteq (k + 1)..k2
    /\ \A n \in DOMAIN new : EntryOK(n, new[n], h, t2, c2, i2)

(* Such rows can be entered in the ledger: it extends the old one.           *)
LEMMA LedgerGrows ==
    ASSUME NEW h, NEW t, NEW c, NEW i, NEW k, LedgerOK(h, t, c, i, k),
           NEW t2, NEW c2, NEW i2, NEW k2, NEW new,
           Grows(h, t, c, i, k, t2, c2, i2, k2, new)
    PROVE  /\ LedgerOK(Put(h, new), t2, c2, i2, k2)
           /\ Extends(Put(h, new), t2, i2, h, t, i)
           /\ \A n \in DOMAIN new : new[n] \in NodeRow /\ SameRow(new[n], Put(h, new)[n])
           /\ \A n \in DOMAIN h : n \notin DOMAIN new
<1> DEFINE h2 == Put(h, new)
<1>1. DOMAIN h2 = DOMAIN h \cup DOMAIN new
    BY DEF Put
<1>2. \A n \in DOMAIN h : n \notin DOMAIN new
    BY DEF LedgerOK, Grows
<1>3. \A n \in DOMAIN h : h2[n] = h[n]
    BY <1>2 DEF Put
<1>4. \A n \in DOMAIN new : h2[n] = new[n]
    BY DEF Put
<1>5. DOMAIN h2 \subseteq 1..k2
    BY <1>1 DEF LedgerOK, Grows
<1>6. ASSUME NEW n \in DOMAIN h PROVE EntryOK(n, h2[n], h2, t2, c2, i2)
    <2>1. EntryOK(n, h[n], h, t, c, i)
        BY DEF LedgerOK
    <2>2. h[n].doc \in 1..i /\ t[h[n].doc] \in 1..i
        BY <2>1 DEF EntryOK, LedgerOK
    <2>3. c2[t2[h[n].doc]] = h[n].corpus
        BY <2>1, <2>2 DEF EntryOK, Grows
    <2> HIDE DEF h2
    <2> QED
        BY <1>1, <1>3, <2>1, <2>2, <2>3 DEF EntryOK, ChildOf, Grows
<1>7. ASSUME NEW n \in DOMAIN new PROVE EntryOK(n, h2[n], h2, t2, c2, i2)
    <2>1. EntryOK(n, new[n], h, t2, c2, i2)
        BY DEF Grows
    <2> HIDE DEF h2
    <2> QED
        BY <1>1, <1>3, <1>4, <2>1 DEF EntryOK, ChildOf
<1>8. LedgerOK(h2, t2, c2, i2, k2)
    BY <1>1, <1>5, <1>6, <1>7 DEF LedgerOK, Grows
<1>9. Extends(h2, t2, i2, h, t, i)
    BY <1>1, <1>3 DEF Extends, Grows
<1>10. \A n \in DOMAIN new : new[n] \in NodeRow /\ SameRow(new[n], h2[n])
    BY <1>4 DEF EntryOK, SameRow, Grows
<1> QED
    BY <1>2, <1>8, <1>9, <1>10

(* Clearing is_current keeps a table in agreement with the ledger.           *)
LEMMA RetiredOK ==
    ASSUME NEW h, NEW mem, NodesOK(mem, h)
    PROVE  NodesOK(Retired(mem), h)
    BY DEF NodesOK, Retired, SameRow, NodeRow

(* Saving rows that agree with the ledger keeps the table in agreement.      *)
LEMMA PutOK ==
    ASSUME NEW h, NEW N, NodesOK(N, h), NEW mem, NodesOK(mem, h)
    PROVE  NodesOK(Put(N, mem), h)
    BY DEF NodesOK, Put

(* Replaced, as the requests use it.                                         *)
LEMMA ReplacedOK ==
    ASSUME NEW h, NodesOK(nodes, h), NEW mem, NodesOK(mem, h), NEW new, NEW h2,
           DOMAIN h2 = DOMAIN h \cup DOMAIN new,
           \A n \in DOMAIN h : h2[n] = h[n],
           \A n \in DOMAIN new : new[n] \in NodeRow /\ SameRow(new[n], h2[n])
    PROVE  NodesOK(Replaced(mem, new), h2)
<1>1. NodesOK(Put(nodes, Retired(mem)), h)
    BY RetiredOK, PutOK
<1> DEFINE old == Put(nodes, Retired(mem))
<1>2. NodesOK(old, h2)
    BY <1>1 DEF NodesOK
<1>3. NodesOK(new, h2)
    BY DEF NodesOK
<1> QED
    BY <1>2, <1>3, PutOK DEF Replaced

(* A request that holds nothing agrees with every ledger.                    *)
LEMMA IdleOK ==
    ASSUME NEW h, NEW t, NEW i \in Nat
    PROVE  RequestOK(Idle, h, t, i)
    BY DEF RequestOK, Idle, NoRows, NULL, OpKinds, DocsOK, NodesOK

(* A step that retires the rows mem, inserts the rows new, and at most ends  *)
(* a request.                                                                *)
LEMMA WriteKeepsInv ==
    ASSUME NEW h, NEW t, NEW c, Agree(h, t, c), NEW t2, NEW c2, NEW mem, NEW new,
           Grows(h, t, c, lastDoc, lastNode, t2, c2, lastDoc', lastNode', new),
           NodesOK(mem, h),
           nodes' = Replaced(mem, new),
           DocsOK(docs', t2, lastDoc'),
           ForeignKeys(docs', nodes'),
           op' = [r \in Requests |-> op'[r]],
           \A r \in Requests : op'[r] = op[r] \/ op'[r] = Idle
    PROVE  Inv'
<1> DEFINE h2 == Put(h, new)
<1>1. LedgerOK(h, t, c, lastDoc, lastNode) /\ NodesOK(nodes, h)
    BY DEF Agree
<1>2. /\ LedgerOK(h2, t2, c2, lastDoc', lastNode')
      /\ Extends(h2, t2, lastDoc', h, t, lastDoc)
      /\ \A n \in DOMAIN new : new[n] \in NodeRow /\ SameRow(new[n], h2[n])
    BY <1>1, LedgerGrows
<1>3. /\ DOMAIN h2 = DOMAIN h \cup DOMAIN new
      /\ \A n \in DOMAIN h : h2[n] = h[n]
    BY <1>2 DEF Extends, Put
<1> HIDE DEF h2
<1>4. NodesOK(nodes', h2)
    BY <1>1, <1>2, <1>3, ReplacedOK
<1>5. ASSUME NEW r \in Requests PROVE RequestOK(op'[r], h2, t2, lastDoc')
    <2>1. RequestOK(op[r], h, t, lastDoc)
        BY DEF Agree
    <2>2. RequestOK(op[r], h2, t2, lastDoc')
        BY <1>1, <1>2, <2>1, RequestCarriesOver
    <2>3. RequestOK(Idle, h2, t2, lastDoc')
        BY IdleOK DEF Grows
    <2> QED
        BY <2>2, <2>3
<1>6. Agree(h2, t2, c2)'
    BY <1>2, <1>4, <1>5 DEF Agree
<1> QED
    BY <1>6 DEF Inv, Grows

(* disambiguate_path returns paths.                                          *)
LEMMA DisambiguatedIsPath ==
    ASSUME NEW c, NEW p \in Path, NEW except
    PROVE  Disambiguated(c, p, except) \subseteq Path
<1>1. ASSUME NEW k \in 0..MaxSuffix PROVE Suffixed(p, k) \in Path
    <2>1. k \in Nat
        BY BoundsAssumption
    <2>2. p.sfx \in Seq(Nat)
        BY DEF Path
    <2>3. Append(p.sfx, k) \in Seq(Nat)
        BY <2>1, <2>2
    <2> QED
        BY <2>3 DEF Suffixed, Path
<1> QED
    BY <1>1 DEF Disambiguated

(* The empty tables agree with the empty ledger.                             *)
LEMMA InitInv == Init => Inv
<1> SUFFICES ASSUME Init PROVE Inv
    OBVIOUS
<1> DEFINE none == [n \in {} |-> NULL]
<1>1. Agree(none, none, none)
    <2>1. \A r \in Requests : RequestOK(op[r], none, none, 0)
        BY IdleOK DEF Init
    <2> QED
        BY <2>1 DEF Init, Agree, LedgerOK, DocsOK, NodesOK, NoRows
<1> QED
    BY <1>1 DEF Init, Inv, ForeignKeys, NoRows

-----------------------------------------------------------------------------
(* The requests that lock.                                                   *)

(* A table of one row.                                                       *)
LEMMA RowFacts ==
    ASSUME NEW id, NEW r
    PROVE  DOMAIN Row(id, r) = {id} /\ Row(id, r)[id] = r
    BY DEF Row

(* Some of the rows of a table agree with the ledger when all do.            *)
LEMMA RowsOK ==
    ASSUME NEW h, NEW N, NodesOK(N, h), NEW S
    PROVE  NodesOK(Rows(N, S), h)
    BY DEF NodesOK, Rows

(* The foreign keys after a locked request, whose rows mem are still there.  *)
LEMMA LockedForeignKeys ==
    ASSUME NEW h, NodesOK(nodes, h), ForeignKeys(docs, nodes),
           NEW S \in SUBSET DOMAIN nodes, NEW new, NEW D,
           DOMAIN docs \subseteq DOMAIN D,
           \A n \in DOMAIN new : /\ new[n].doc \in DOMAIN D
                                 /\ new[n].parent \in DOMAIN nodes \cup {NULL}
    PROVE  ForeignKeys(D, Replaced(Rows(nodes, S), new))
<1> DEFINE N == Replaced(Rows(nodes, S), new)
<1>1. DOMAIN N = DOMAIN nodes \cup DOMAIN new
    BY DEF Replaced, Put, Retired, Rows
<1>2. ASSUME NEW n \in DOMAIN new
      PROVE  N[n].doc \in DOMAIN D /\ N[n].parent \in DOMAIN N \cup {NULL}
    BY <1>1 DEF Replaced, Put
<1>3. ASSUME NEW n \in DOMAIN nodes \ DOMAIN new
      PROVE  N[n].doc \in DOMAIN D /\ N[n].parent \in DOMAIN N \cup {NULL}
    <2>1. nodes[n] \in NodeRow
        BY DEF NodesOK
    <2>2. N[n] = nodes[n] \/ N[n] = [nodes[n] EXCEPT !.current = FALSE]
        BY DEF Replaced, Put, Retired, Rows
    <2>3. N[n].doc = nodes[n].doc /\ N[n].parent = nodes[n].parent
        BY <2>1, <2>2 DEF NodeRow
    <2> QED
        BY <1>1, <2>3 DEF ForeignKeys
<1> QED
    BY <1>1, <1>2, <1>3 DEF ForeignKeys

(* import_document at a free path, and add_document, keep the invariant.     *)
LEMMA NewTreeInv ==
    ASSUME Inv, NEW cp \in Corpora, NEW p \in Path, NEW e \in Lineage, NewTree(cp, p, e)
    PROVE  Inv'
<1>1. PICK h, t, c : Agree(h, t, c)
    BY DEF Inv
<1> DEFINE d  == lastDoc + 1
           t2 == [x \in Nat |-> IF x = d THEN d ELSE t[x]]
           c2 == [x \in Nat |-> IF x = d THEN cp ELSE c[x]]
           row == [doc |-> d, corpus |-> cp, path |-> p, ver |-> 1, parent |-> NULL,
                   deleted |-> FALSE, current |-> TRUE, ext |-> e]
           new == Row(lastNode + 1, row)
<1>2. lastDoc \in Nat /\ lastNode \in Nat /\ lastDoc' = d /\ lastNode' = lastNode + 1
    BY DEF Inv, NewTree
<1>3. LedgerOK(h, t, c, lastDoc, lastNode) /\ NodesOK(nodes, h) /\ DocsOK(docs, t, lastDoc)
    BY <1>1 DEF Agree
<1>4. row \in NodeRow
    BY <1>2 DEF NodeRow, NULL
<1>5. EntryOK(lastNode + 1, row, h, t2, c2, d)
    <2>1. row.doc = d /\ row.corpus = cp /\ row.parent = NULL /\ row.ver = 1
        OBVIOUS
    <2>2. d \in 1..d /\ c2[t2[d]] = cp
        BY <1>2
    <2> HIDE DEF row, c2, t2
    <2> QED
        BY <1>4, <2>1, <2>2 DEF EntryOK
<1>6. Grows(h, t, c, lastDoc, lastNode, t2, c2, lastDoc', lastNode', new)
    <2>1. DOMAIN new = {lastNode + 1} /\ new[lastNode + 1] = row
        BY RowFacts
    <2>2. \A x \in 1..lastDoc : t2[x] = t[x] /\ c2[x] = c[x]
        BY <1>2
    <2>3. \A x \in 1..d : t2[x] \in 1..d
        BY <1>2, <1>3 DEF LedgerOK
    <2> HIDE DEF new, t2, c2, row
    <2> QED
        BY <1>2, <1>5, <2>1, <2>2, <2>3 DEF Grows
<1>7. DocsOK(docs', t2, lastDoc') /\ DOMAIN docs' = DOMAIN docs \cup {d}
    BY <1>2, <1>3 DEF NewTree, DocsOK, Put, Row, DocRow, NULL
<1>8. nodes' = Replaced(NoRows, new)
    BY DEF NewTree
<1>9. NodesOK(NoRows, h)
    BY DEF NodesOK, NoRows
<1>10. ForeignKeys(docs', nodes')
    <2>1. Rows(nodes, {}) = NoRows
        BY DEF Rows, NoRows
    <2>2. \A n \in DOMAIN new : new[n].doc = d /\ new[n].parent = NULL
        BY DEF Row
    <2> HIDE DEF new
    <2> QED
        BY <1>3, <1>7, <1>8, <2>1, <2>2, LockedForeignKeys DEF Inv
<1>11. op' = op /\ op = [r \in Requests |-> op[r]]
    BY DEF NewTree, Inv
<1> HIDE DEF t2, c2, new
<1> QED
    BY <1>1, <1>6, <1>7, <1>8, <1>9, <1>10, <1>11, WriteKeepsInv

(* Any request that supersedes one node.                                     *)
LEMMA SupersedeInv ==
    ASSUME Inv, NEW h, NEW t, NEW c, Agree(h, t, c),
           NEW n \in DOMAIN nodes, NEW row \in NodeRow, Supersede(n, row),
           NEW t2,
           lastDoc' \in Nat, lastDoc <= lastDoc',
           \A d \in 1..lastDoc : t2[d] = t[d],
           \A d \in 1..lastDoc' : t2[d] \in 1..lastDoc',
           DocsOK(docs', t2, lastDoc'), DOMAIN docs \subseteq DOMAIN docs',
           row.doc \in DOMAIN docs', t2[row.doc] = t[nodes[n].doc],
           row.corpus = nodes[n].corpus,
           row.ver = nodes[n].ver + (IF row.doc = nodes[n].doc THEN 0 ELSE 1)
    PROVE  Inv'
<1> DEFINE r   == [row EXCEPT !.parent = n]
           id  == lastNode + 1
           new == Row(id, r)
           mem == Rows(nodes, {n})
<1>1. lastNode \in Nat /\ lastNode' = id /\ nodes' = Replaced(mem, new)
    BY DEF Inv, Supersede
<1>2. LedgerOK(h, t, c, lastDoc, lastNode) /\ NodesOK(nodes, h)
    BY DEF Agree
<1>3. /\ n \in DOMAIN h /\ n \in 1..lastNode /\ SameRow(nodes[n], h[n])
      /\ EntryOK(n, h[n], h, t, c, lastDoc)
    BY <1>1, <1>2 DEF NodesOK, LedgerOK
<1>4. r \in NodeRow /\ r.parent = n /\ r.doc = row.doc /\ r.corpus = row.corpus
         /\ r.ver = row.ver
    BY <1>3 DEF NodeRow
<1>5. r.doc \in 1..lastDoc' /\ c[t2[r.doc]] = h[n].corpus
    BY <1>3, <1>4 DEF DocsOK, SameRow, EntryOK
<1>6. r.corpus = h[n].corpus /\ r.ver = h[n].ver + (IF r.doc = h[n].doc THEN 0 ELSE 1)
    BY <1>3, <1>4 DEF SameRow
<1>7. EntryOK(id, r, h, t2, c, lastDoc')
    <2> HIDE DEF r
    <2>1. n < id
        BY <1>1, <1>3
    <2>2. ChildOf(r, h[n])
        BY <1>6 DEF ChildOf
    <2>3. r.parent \in DOMAIN h /\ r.parent < id /\ ChildOf(r, h[r.parent])
        BY <1>3, <1>4, <2>1, <2>2
    <2>4. c[t2[r.doc]] = r.corpus
        BY <1>5, <1>6
    <2> HIDE DEF id
    <2> QED
        BY <1>4, <1>5, <2>3, <2>4 DEF EntryOK
<1>8. DOMAIN new = {id} /\ new[id] = r
    BY DEF Row
<1>9. Grows(h, t, c, lastDoc, lastNode, t2, c, lastDoc', lastNode', new)
    <2> HIDE DEF new, r
    <2> QED
        BY <1>1, <1>7, <1>8 DEF Grows, Inv
<1>10. NodesOK(mem, h)
    BY <1>2, RowsOK
<1>11. ForeignKeys(docs', nodes')
    <2>1. \A m \in DOMAIN new : /\ new[m].doc \in DOMAIN docs'
                                /\ new[m].parent \in DOMAIN nodes \cup {NULL}
        <3> HIDE DEF new, r
        <3> QED
            BY <1>4, <1>8
    <2> HIDE DEF new
    <2> QED
        BY <1>1, <1>2, <2>1, LockedForeignKeys DEF Inv
<1>12. op' = op /\ op = [q \in Requests |-> op[q]]
    BY DEF Supersede, Inv
<1> HIDE DEF new, mem
<1> QED
    BY <1>1, <1>9, <1>10, <1>11, <1>12, WriteKeepsInv

(* import_document at an occupied path keeps the invariant.                  *)
LEMMA VersionUpInv ==
    ASSUME Inv, NEW n \in DOMAIN nodes, NEW e \in Lineage,
           VersionUp(n, nodes[n].doc, nodes[n].ver + 1, e)
    PROVE  Inv'
<1>1. PICK h, t, c : Agree(h, t, c)
    BY DEF Inv
<1> DEFINE old  == nodes[n]
           d    == lastDoc + 1
           tree == docs[old.doc].tree
           kin  == {x \in DOMAIN docs : docs[x].tree = tree}
           t2   == [x \in Nat |-> IF x = d THEN tree ELSE t[x]]
           row  == [old EXCEPT !.doc = d, !.ver = old.ver + 1,
                               !.ext = IF e = NoExt THEN @ ELSE e]
<1>2. lastDoc \in Nat /\ lastDoc' = d
    BY DEF Inv, VersionUp
<1>3. /\ LedgerOK(h, t, c, lastDoc, lastNode) /\ NodesOK(nodes, h)
      /\ DocsOK(docs, t, lastDoc)
    BY <1>1 DEF Agree
<1>4. old \in NodeRow /\ old.doc \in DOMAIN docs
    BY <1>3 DEF NodesOK, Inv, ForeignKeys
<1>5. old.doc \in 1..lastDoc /\ tree = t[old.doc] /\ tree \in 1..lastDoc
    BY <1>3, <1>4 DEF DocsOK, LedgerOK
<1>6. row \in NodeRow /\ row.doc = d /\ row.ver = old.ver + 1 /\ row.corpus = old.corpus
    <2>1. d \in Nat /\ old.ver + 1 \in Nat
        BY <1>2, <1>4 DEF NodeRow
    <2>2. (IF e = NoExt THEN old.ext ELSE e) \in Lineage
        BY <1>4 DEF NodeRow
    <2>3. row = [old EXCEPT !.doc = d, !.ver = old.ver + 1,
                            !.ext = IF e = NoExt THEN old.ext ELSE e]
        BY <1>4 DEF NodeRow
    <2> HIDE DEF row
    <2> QED
        BY <1>4, <2>1, <2>2, <2>3 DEF NodeRow
<1>7. Supersede(n, row)
    BY DEF VersionUp
<1>8. docs' = Put(Put(docs, Retired(Rows(docs, kin))), Row(d,
                [tree |-> tree, parent |-> old.doc, current |-> TRUE]))
    BY DEF VersionUp
<1>9. DocsOK(docs', t2, d) /\ DOMAIN docs \subseteq DOMAIN docs' /\ d \in DOMAIN docs'
    <2>1. DOMAIN docs' = DOMAIN docs \cup {d}
        BY <1>8 DEF Put, Retired, Rows, Row
    <2>2. docs'[d] \in DocRow /\ docs'[d].tree = t2[d]
        BY <1>2, <1>5, <1>8 DEF Put, Row, DocRow
    <2>3. ASSUME NEW x \in DOMAIN docs PROVE docs'[x] \in DocRow /\ docs'[x].tree = t2[x]
        <3>1. x \in 1..lastDoc /\ x # d /\ docs[x] \in DocRow /\ docs[x].tree = t[x]
            BY <1>2, <1>3 DEF DocsOK
        <3>2. docs'[x] = docs[x] \/ docs'[x] = [docs[x] EXCEPT !.current = FALSE]
            BY <1>8, <3>1 DEF Put, Retired, Rows, Row
        <3>3. docs'[x] \in DocRow /\ docs'[x].tree = docs[x].tree
            BY <3>1, <3>2 DEF DocRow
        <3>4. t2[x] = t[x]
            BY <1>2, <3>1
        <3> QED
            BY <3>1, <3>3, <3>4
    <2> QED
        BY <1>2, <1>3, <2>1, <2>2, <2>3 DEF DocsOK
<1>10. /\ \A x \in 1..lastDoc : t2[x] = t[x]
       /\ \A x \in 1..d : t2[x] \in 1..d
       /\ t2[d] = t[old.doc]
    BY <1>2, <1>3, <1>5 DEF LedgerOK
<1>11. row.ver = old.ver + (IF row.doc = old.doc THEN 0 ELSE 1)
    BY <1>2, <1>5, <1>6
<1> HIDE DEF row, t2
<1> QED
    BY <1>1, <1>2, <1>6, <1>7, <1>9, <1>10, <1>11, SupersedeInv

(* A request that leaves the documents alone and supersedes one node with    *)
(* the same document and version.                                            *)
LEMMA SameDocInv ==
    ASSUME Inv, NEW n \in DOMAIN nodes, NEW row \in NodeRow,
           row.doc = nodes[n].doc, row.corpus = nodes[n].corpus, row.ver = nodes[n].ver,
           Supersede(n, row), UNCHANGED <<docs, lastDoc>>
    PROVE  Inv'
<1>1. PICK h, t, c : Agree(h, t, c)
    BY DEF Inv
<1>2. /\ LedgerOK(h, t, c, lastDoc, lastNode) /\ NodesOK(nodes, h)
      /\ DocsOK(docs, t, lastDoc) /\ lastDoc \in Nat
    BY <1>1 DEF Agree, Inv
<1>3. nodes[n].doc \in DOMAIN docs /\ nodes[n] \in NodeRow
    BY <1>2 DEF Inv, ForeignKeys, NodesOK
<1>4. \A d \in 1..lastDoc : t[d] \in 1..lastDoc
    BY <1>2 DEF LedgerOK
<1>5. nodes[n].ver \in Nat
    BY <1>3 DEF NodeRow
<1>6. row.ver = nodes[n].ver + (IF row.doc = nodes[n].doc THEN 0 ELSE 1)
    BY <1>5
<1> QED
    BY <1>1, <1>2, <1>3, <1>4, <1>6, SupersedeInv

(* An import that records metadata as a node keeps the invariant.            *)
LEMMA RecordMetadataInv ==
    ASSUME Inv, NEW cp, NEW p, NEW e \in Lineage, RecordMetadata(cp, p, e)
    PROVE  Inv'
<1>1. PICK n \in ActiveAt(cp, p) :
            /\ Supersede(n, [nodes[n] EXCEPT !.ext = IF e = NoExt THEN @ ELSE e])
            /\ UNCHANGED <<docs, lastDoc>>
    BY DEF RecordMetadata
<1>2. n \in DOMAIN nodes /\ nodes[n] \in NodeRow
    BY DEF ActiveAt, Active, Inv, Agree, NodesOK
<1> DEFINE row == [nodes[n] EXCEPT !.ext = IF e = NoExt THEN @ ELSE e]
<1>3. row \in NodeRow /\ row.doc = nodes[n].doc /\ row.corpus = nodes[n].corpus
         /\ row.ver = nodes[n].ver
    BY <1>2 DEF NodeRow
<1> HIDE DEF row
<1> QED
    BY <1>1, <1>2, <1>3, SameDocInv DEF row

(* Moving or renaming a path keeps the invariant.                            *)
LEMMA RelocateInv ==
    ASSUME Inv, NEW n \in DOMAIN nodes, NEW base \in Path, Relocate(n, base)
    PROVE  Inv'
<1>1. PICK q \in Disambiguated(nodes[n].corpus, base, {n}) :
            /\ Supersede(n, [nodes[n] EXCEPT !.path = q, !.ext = NoExt])
            /\ UNCHANGED <<docs, lastDoc>>
    BY DEF Relocate
<1>2. q \in Path
    BY DisambiguatedIsPath
<1>3. nodes[n] \in NodeRow
    BY DEF Inv, Agree, NodesOK
<1> DEFINE row == [nodes[n] EXCEPT !.path = q, !.ext = NoExt]
<1>4. row \in NodeRow /\ row.doc = nodes[n].doc /\ row.corpus = nodes[n].corpus
         /\ row.ver = nodes[n].ver
    BY <1>2, <1>3 DEF NodeRow, Lineage
<1>5. Supersede(n, row) /\ UNCHANGED <<docs, lastDoc>>
    BY <1>1
<1> HIDE DEF row
<1> QED
    BY <1>4, <1>5, SameDocInv

(* An import that writes metadata in place keeps the invariant.              *)
LEMMA ImportMetadataInv ==
    ASSUME Inv, NEW cp, NEW p, NEW e, ImportMetadata(cp, p, e)
    PROVE  Inv'
<1>1. PICK h, t, c : Agree(h, t, c)
    BY DEF Inv
<1>2. PICK n \in ActiveAt(cp, p) :
            /\ e \in ExtIds
            /\ nodes' = [nodes EXCEPT ![n].ext = e]
            /\ UNCHANGED <<docs, lastDoc, lastNode, op>>
    BY DEF ImportMetadata
<1>3. DOMAIN nodes' = DOMAIN nodes
    BY <1>2
<1>4. ASSUME NEW m \in DOMAIN nodes
      PROVE  nodes'[m] \in NodeRow /\ SameRow(nodes'[m], nodes[m])
    <2>1. nodes[m] \in NodeRow
        BY <1>1 DEF Agree, NodesOK
    <2>2. nodes'[m] = nodes[m] \/ nodes'[m] = [nodes[m] EXCEPT !.ext = e]
        BY <1>2
    <2> QED
        BY <1>2, <2>1, <2>2 DEF NodeRow, SameRow, Lineage
<1>5. NodesOK(nodes', h)
    BY <1>1, <1>3, <1>4 DEF Agree, NodesOK, SameRow
<1>6. ForeignKeys(docs', nodes')
    BY <1>2, <1>3, <1>4 DEF Inv, ForeignKeys, SameRow
<1>7. Agree(h, t, c)'
    BY <1>1, <1>2, <1>5 DEF Agree
<1> QED
    BY <1>2, <1>6, <1>7 DEF Inv

-----------------------------------------------------------------------------
(* Trash nodes: fresh ids, one for each row, in the order of the rows.       *)

(* The ids of trash nodes are fresh, in range, and all different.             *)
LEMMA NewIdFacts ==
    ASSUME lastNode \in Nat, NEW mem, DOMAIN mem \subseteq 1..lastNode
    PROVE  /\ Cardinality(DOMAIN mem) \in Nat
           /\ \A n \in DOMAIN mem :
                 NewId(mem, n) \in (lastNode + 1)..(lastNode + Cardinality(DOMAIN mem))
           /\ \A m, n \in DOMAIN mem : NewId(mem, m) = NewId(mem, n) => m = n
<1> DEFINE Upto(n) == {m \in DOMAIN mem : m <= n}
<1>1. IsFiniteSet(DOMAIN mem)
    <2>1. IsFiniteSet(1..lastNode)
        BY FS_Interval
    <2> QED
        BY <2>1, FS_Subset
<1>2. ASSUME NEW n \in DOMAIN mem
      PROVE  /\ IsFiniteSet(Upto(n)) /\ n \in Upto(n)
             /\ Cardinality(Upto(n)) \in Nat
             /\ Cardinality(Upto(n)) >= 1
             /\ Cardinality(Upto(n)) <= Cardinality(DOMAIN mem)
    <2>1. Upto(n) \subseteq DOMAIN mem /\ n \in Upto(n)
        OBVIOUS
    <2>2. IsFiniteSet(Upto(n)) /\ Cardinality(Upto(n)) <= Cardinality(DOMAIN mem)
        BY <1>1, <2>1, FS_Subset
    <2>3. Cardinality(Upto(n)) \in Nat /\ Cardinality(Upto(n)) # 0
        BY <2>1, <2>2, FS_CardinalityType, FS_EmptySet
    <2> QED
        BY <2>1, <2>2, <2>3
<1>3. ASSUME NEW m \in DOMAIN mem, NEW n \in DOMAIN mem, m < n
      PROVE  Cardinality(Upto(m)) # Cardinality(Upto(n))
    <2>1. Upto(m) \subseteq Upto(n) /\ n \notin Upto(m) /\ n \in Upto(n)
        BY <1>3
    <2> QED
        BY <1>2, <2>1, FS_Subset
<1>4. ASSUME NEW m \in DOMAIN mem, NEW n \in DOMAIN mem, NewId(mem, m) = NewId(mem, n)
      PROVE  m = n
    <2>1. Cardinality(Upto(m)) = Cardinality(Upto(n))
        BY <1>2, <1>4 DEF NewId
    <2>2. m \in Nat /\ n \in Nat
        OBVIOUS
    <2> QED
        BY <1>3, <2>1, <2>2
<1>5. Cardinality(DOMAIN mem) \in Nat
    BY <1>1, FS_CardinalityType
<1> QED
    BY <1>2, <1>4, <1>5 DEF NewId

(* Each row of mem has its trash node, at the id that NewId gives it.        *)
LEMMA TrashNodesFacts ==
    ASSUME lastNode \in Nat, NEW mem, DOMAIN mem \subseteq 1..lastNode
    PROVE  /\ DOMAIN TrashNodes(mem) = {NewId(mem, n) : n \in DOMAIN mem}
           /\ \A n \in DOMAIN mem :
                 TrashNodes(mem)[NewId(mem, n)] =
                    [mem[n] EXCEPT !.parent = n, !.deleted = TRUE, !.current = TRUE,
                                   !.ext = NoExt]
<1>1. ASSUME NEW n \in DOMAIN mem
      PROVE  (CHOOSE m \in DOMAIN mem : NewId(mem, m) = NewId(mem, n)) = n
    BY NewIdFacts
<1> QED
    BY <1>1 DEF TrashNodes

(* Trash nodes are ledger entries, each a child of the row it trashes.       *)
LEMMA TrashNodesOK ==
    ASSUME NEW h, NEW t, NEW c, NEW i, LedgerOK(h, t, c, i, lastNode),
           lastNode \in Nat, NEW mem, NodesOK(mem, h)
    PROVE  /\ DOMAIN TrashNodes(mem)
                 \subseteq (lastNode + 1)..(lastNode + Cardinality(DOMAIN mem))
           /\ \A id \in DOMAIN TrashNodes(mem) :
                 /\ EntryOK(id, TrashNodes(mem)[id], h, t, c, i)
                 /\ \E n \in DOMAIN mem : TrashNodes(mem)[id].parent = n
                                          /\ TrashNodes(mem)[id].doc = mem[n].doc
<1>1. DOMAIN mem \subseteq DOMAIN h /\ DOMAIN mem \subseteq 1..lastNode
    BY DEF NodesOK, LedgerOK
<1>2. ASSUME NEW n \in DOMAIN mem
      PROVE  LET id == NewId(mem, n) IN
             /\ EntryOK(id, TrashNodes(mem)[id], h, t, c, i)
             /\ TrashNodes(mem)[id].parent = n
             /\ TrashNodes(mem)[id].doc = mem[n].doc
    <2> DEFINE id  == NewId(mem, n)
               row == [mem[n] EXCEPT !.parent = n, !.deleted = TRUE, !.current = TRUE,
                                     !.ext = NoExt]
    <2>1. TrashNodes(mem)[id] = row
        BY <1>1, TrashNodesFacts
    <2>2. n \in 1..lastNode /\ n < id
        BY <1>1, NewIdFacts
    <2>3. mem[n] \in NodeRow /\ SameRow(mem[n], h[n])
        BY DEF NodesOK
    <2>4. EntryOK(n, h[n], h, t, c, i) /\ n \in DOMAIN h
        BY <1>1 DEF LedgerOK
    <2>5. /\ row \in NodeRow /\ row.parent = n /\ row.doc = mem[n].doc
          /\ row.ver = mem[n].ver /\ row.corpus = mem[n].corpus
        <3>1. n \in Nat /\ NoExt \in Lineage
            BY <2>2 DEF Lineage
        <3> QED
            BY <2>3, <3>1 DEF NodeRow
    <2>6. ChildOf(row, h[n])
        <3>1. h[n].ver \in Nat
            BY <2>4 DEF EntryOK, NodeRow
        <3> HIDE DEF row
        <3> QED
            BY <2>3, <2>5, <3>1 DEF SameRow, ChildOf
    <2>7. row.doc \in 1..i /\ c[t[row.doc]] = row.corpus
        <3> HIDE DEF row
        <3> QED
            BY <2>3, <2>4, <2>5 DEF SameRow, EntryOK
    <2> HIDE DEF row, id
    <2>8. EntryOK(id, row, h, t, c, i)
        BY <2>2, <2>4, <2>5, <2>6, <2>7 DEF EntryOK
    <2> QED
        BY <2>1, <2>5, <2>8 DEF id
<1>3. DOMAIN TrashNodes(mem) = {NewId(mem, n) : n \in DOMAIN mem}
    BY <1>1, TrashNodesFacts
<1>4. \A n \in DOMAIN mem :
         NewId(mem, n) \in (lastNode + 1)..(lastNode + Cardinality(DOMAIN mem))
    BY <1>1, NewIdFacts
<1> QED
    BY <1>2, <1>3, <1>4

(* Trash nodes can be entered in the ledger.                                 *)
LEMMA TrashGrows ==
    ASSUME NEW h, NEW t, NEW c, LedgerOK(h, t, c, lastDoc, lastNode),
           lastDoc \in Nat, lastNode \in Nat, NEW mem, NodesOK(mem, h)
    PROVE  Grows(h, t, c, lastDoc, lastNode, t, c, lastDoc,
                 lastNode + Cardinality(DOMAIN mem), TrashNodes(mem))
<1> DEFINE new == TrashNodes(mem)
           k2  == lastNode + Cardinality(DOMAIN mem)
<1>1. DOMAIN mem \subseteq 1..lastNode
    BY DEF NodesOK, LedgerOK
<1>2. Cardinality(DOMAIN mem) \in Nat
    BY <1>1, NewIdFacts
<1>3. k2 \in Nat /\ lastNode <= k2
    BY <1>2
<1>4. DOMAIN new \subseteq (lastNode + 1)..k2
    BY TrashNodesOK
<1>5. \A id \in DOMAIN new : EntryOK(id, new[id], h, t, c, lastDoc)
    BY TrashNodesOK
<1>6. \A d \in 1..lastDoc : t[d] \in 1..lastDoc
    BY DEF LedgerOK
<1> HIDE DEF new, k2
<1>7. Grows(h, t, c, lastDoc, lastNode, t, c, lastDoc, k2, new)
    BY <1>3, <1>4, <1>5, <1>6 DEF Grows
<1> QED
    BY <1>7 DEF new, k2

(* BulkSoftDelete, for any choice of documents.                              *)
LEMMA BulkSoftDeleteInv ==
    ASSUME Inv, NEW cp, NEW ds, BulkSoftDelete(cp, ds)
    PROVE  Inv'
<1>1. PICK h, t, c : Agree(h, t, c)
    BY DEF Inv
<1> DEFINE heads == UNION {ActiveOf(d, cp) : d \in ds}
           mem   == Rows(nodes, heads)
           new   == TrashNodes(mem)
<1>2. /\ lastDoc \in Nat /\ lastNode \in Nat /\ ForeignKeys(docs, nodes)
      /\ LedgerOK(h, t, c, lastDoc, lastNode) /\ NodesOK(nodes, h)
      /\ DocsOK(docs, t, lastDoc)
    BY <1>1 DEF Agree, Inv
<1>3. heads \subseteq DOMAIN nodes
    BY DEF ActiveOf, Active
<1>4. DOMAIN mem = heads /\ \A n \in heads : mem[n] = nodes[n]
    BY <1>3 DEF Rows
<1>5. NodesOK(mem, h)
    BY <1>2, RowsOK
<1>6. /\ nodes' = Replaced(mem, new)
      /\ lastNode' = lastNode + Cardinality(heads)
      /\ docs' = docs /\ lastDoc' = lastDoc /\ op' = op
    BY DEF BulkSoftDelete
<1>7. Grows(h, t, c, lastDoc, lastNode, t, c, lastDoc', lastNode', new)
    <2> HIDE DEF mem, heads
    <2> QED
        BY <1>2, <1>4, <1>5, <1>6, TrashGrows
<1>8. ForeignKeys(docs', nodes')
    <2>1. ASSUME NEW id \in DOMAIN new
          PROVE  new[id].doc \in DOMAIN docs /\ new[id].parent \in DOMAIN nodes
        <3>1. PICK n \in DOMAIN mem : new[id].parent = n /\ new[id].doc = mem[n].doc
            <4> HIDE DEF mem
            <4> QED
                BY <1>2, <1>5, TrashNodesOK
        <3> HIDE DEF mem, new, heads
        <3> QED
            BY <1>2, <1>3, <1>4, <3>1 DEF ForeignKeys
    <2> HIDE DEF new, heads
    <2> QED
        BY <1>2, <1>3, <1>6, <2>1, LockedForeignKeys
<1> HIDE DEF mem, new, heads
<1> QED
    BY <1>1, <1>2, <1>5, <1>6, <1>7, <1>8, WriteKeepsInv DEF Inv

-----------------------------------------------------------------------------
(* The requests that read without a lock.                                    *)

(* A step that changes what one request holds, and nothing else.             *)
LEMMA OpOnly ==
    ASSUME Inv, NEW h, NEW t, NEW c, Agree(h, t, c), NEW r \in Requests, NEW o,
           RequestOK(o, h, t, lastDoc),
           op' = [op EXCEPT ![r] = o],
           UNCHANGED <<docs, nodes, lastDoc, lastNode>>
    PROVE  Inv'
<1>1. op = [s \in Requests |-> op[s]]
    BY DEF Inv
<1>2. op' = [s \in Requests |-> op'[s]] /\ op'[r] = o
    BY <1>1
<1>3. \A s \in Requests : op'[s] = op[s] \/ s = r
    BY <1>1
<1>4. Agree(h, t, c)'
    BY <1>2, <1>3 DEF Agree
<1> QED
    BY <1>2, <1>4 DEF Inv

(* A request that fails keeps the invariant.                                 *)
LEMMA FailInv ==
    ASSUME Inv, NEW r \in Requests, Fail(r)
    PROVE  Inv'
<1>1. PICK h, t, c : Agree(h, t, c)
    BY DEF Inv
<1>2. RequestOK(Idle, h, t, lastDoc)
    BY IdleOK DEF Inv
<1> QED
    BY <1>1, <1>2, OpOnly DEF Fail

(* A commit, or its rollback.                                                *)
LEMMA FinishInv ==
    ASSUME Inv, NEW h, NEW t, NEW c, Agree(h, t, c), NEW r \in Requests,
           NEW D, NEW mem, NEW new, NEW i, NEW j, Finish(r, D, Replaced(mem, new), i, j),
           NEW t2, NEW c2,
           Grows(h, t, c, lastDoc, lastNode, t2, c2, lastDoc + i, lastNode + j, new),
           NodesOK(mem, h), DocsOK(D, t2, lastDoc + i)
    PROVE  Inv'
<1> DEFINE N == Replaced(mem, new)
<1>1. CASE SchemaOK(D, N)
    <2>1. /\ docs' = D /\ nodes' = N
          /\ lastDoc' = lastDoc + i /\ lastNode' = lastNode + j
        BY <1>1 DEF Finish
    <2>2. ForeignKeys(D, N)
        BY <1>1 DEF SchemaOK, ForeignKeys
    <2>3. op = [s \in Requests |-> op[s]] /\ op' = [op EXCEPT ![r] = Idle]
        BY DEF Inv, Finish
    <2>4. /\ op' = [s \in Requests |-> op'[s]]
          /\ \A s \in Requests : op'[s] = op[s] \/ op'[s] = Idle
        BY <2>3
    <2> QED
        BY <2>1, <2>2, <2>4, WriteKeepsInv
<1>2. CASE ~SchemaOK(D, N)
    <2>1. Fail(r)
        BY <1>2 DEF Finish, Fail
    <2> QED
        BY <2>1, FailInv
<1> QED
    BY <1>1, <1>2

(* A request that has read path rows of the tables agrees with the ledger.   *)
LEMMA StartInv ==
    ASSUME Inv, NEW h, NEW t, NEW c, Agree(h, t, c), NEW r \in Requests,
           NEW kind \in {"soft_delete", "remove", "restore", "purge"},
           NEW d \in DOMAIN docs, NEW S,
           kind \in {"soft_delete", "restore"} => \E n \in DOMAIN nodes : S = {n},
           Start(r, kind, d, NoRows, Rows(nodes, S))
    PROVE  Inv'
<1> DEFINE o == [kind |-> kind, doc |-> d, docs |-> NoRows, nodes |-> Rows(nodes, S)]
<1>1. NodesOK(nodes, h) /\ DocsOK(docs, t, lastDoc) /\ lastDoc \in Nat
    BY DEF Agree, Inv
<1>2. NodesOK(Rows(nodes, S), h)
    BY <1>1, RowsOK
<1>3. DocsOK(NoRows, t, lastDoc)
    BY DEF DocsOK, NoRows
<1>4. d \in 0..lastDoc
    BY <1>1 DEF DocsOK
<1>5. kind \in {"soft_delete", "restore"} => \E n : DOMAIN Rows(nodes, S) = {n}
    BY DEF Rows
<1>6. RequestOK(o, h, t, lastDoc)
    BY <1>2, <1>3, <1>4, <1>5 DEF RequestOK, OpKinds
<1> QED
    BY <1>6, OpOnly DEF Start

(* Every read of an unlocked request keeps the invariant.                    *)
LEMMA StartRequestInv ==
    ASSUME Inv, NEW r \in Requests, StartRequest(r)
    PROVE  Inv'
<1>1. PICK h, t, c : Agree(h, t, c)
    BY DEF Inv
<1>2. PICK d \in DOMAIN docs :
        \/ StartRestoreVersion(r, d)
        \/ \E cp \in Corpora : \/ StartSoftDelete(r, d, cp)
                               \/ StartRemove(r, d, cp)
                               \/ StartRestore(r, d, cp)
                               \/ StartPurge(r, d, cp)
    BY DEF StartRequest
<1>3. ASSUME StartRestoreVersion(r, d) PROVE Inv'
    <2>1. PICK cur \in DOMAIN docs : Start(r, "read_version", cur, Rows(docs, {cur}), NoRows)
        BY <1>3 DEF StartRestoreVersion
    <2> DEFINE o == [kind |-> "read_version", doc |-> cur,
                     docs |-> Rows(docs, {cur}), nodes |-> NoRows]
    <2>2. DocsOK(docs, t, lastDoc) /\ lastDoc \in Nat
        BY <1>1 DEF Agree, Inv
    <2>3. DocsOK(Rows(docs, {cur}), t, lastDoc) /\ cur \in DOMAIN Rows(docs, {cur})
        BY <2>2 DEF DocsOK, Rows
    <2>4. NodesOK(NoRows, h) /\ cur \in 0..lastDoc
        BY <2>2 DEF NodesOK, NoRows, DocsOK
    <2>5. RequestOK(o, h, t, lastDoc)
        BY <2>3, <2>4 DEF RequestOK, OpKinds
    <2> QED
        BY <1>1, <2>1, <2>5, OpOnly DEF Start
<1>4. ASSUME NEW cp \in Corpora, StartSoftDelete(r, d, cp) PROVE Inv'
    <2>1. PICK n \in ActiveOf(d, cp) : Start(r, "soft_delete", d, NoRows, Rows(nodes, {n}))
        BY <1>4 DEF StartSoftDelete
    <2>2. n \in DOMAIN nodes
        BY DEF ActiveOf, Active
    <2> QED
        BY <1>1, <2>1, <2>2, StartInv
<1>5. ASSUME NEW cp \in Corpora, StartRemove(r, d, cp) PROVE Inv'
    BY <1>1, <1>5, StartInv DEF StartRemove
<1>6. ASSUME NEW cp \in Corpora, StartRestore(r, d, cp) PROVE Inv'
    <2>1. PICK n \in Newest(TrashedOf(d, cp)) :
                Start(r, "restore", d, NoRows, Rows(nodes, {n}))
        BY <1>6 DEF StartRestore
    <2>2. n \in DOMAIN nodes
        BY DEF Newest, TrashedOf, Trashed
    <2> QED
        BY <1>1, <2>1, <2>2, StartInv
<1>7. ASSUME NEW cp \in Corpora, StartPurge(r, d, cp) PROVE Inv'
    BY <1>1, <1>7, StartInv DEF StartPurge
<1> QED
    BY <1>2, <1>3, <1>4, <1>5, <1>6, <1>7

(* The commit of soft_delete_document keeps the invariant.                   *)
LEMMA CommitSoftDeleteInv ==
    ASSUME Inv, NEW r \in Requests, CommitSoftDelete(r)
    PROVE  Inv'
<1>1. PICK h, t, c : Agree(h, t, c)
    BY DEF Inv
<1> DEFINE mem == op[r].nodes
<1>2. Finish(r, docs, Replaced(mem, TrashNodes(mem)), 0, 1)
    BY DEF CommitSoftDelete
<1>3. /\ lastDoc \in Nat /\ lastNode \in Nat /\ DocsOK(docs, t, lastDoc)
      /\ LedgerOK(h, t, c, lastDoc, lastNode) /\ NodesOK(mem, h)
    BY <1>1 DEF Agree, RequestOK, Inv
<1>4. Cardinality(DOMAIN mem) = 1
    <2>1. PICK n : DOMAIN mem = {n}
        BY <1>1 DEF CommitSoftDelete, Agree, RequestOK
    <2> QED
        BY <2>1, FS_Singleton
<1>5. lastDoc + 0 = lastDoc
    BY <1>3
<1> HIDE DEF mem
<1>6. Grows(h, t, c, lastDoc, lastNode, t, c, lastDoc + 0, lastNode + 1, TrashNodes(mem))
    BY <1>3, <1>4, <1>5, TrashGrows
<1> QED
    BY <1>1, <1>2, <1>3, <1>5, <1>6, FinishInv

(* The commit of remove_document keeps the invariant.                        *)
LEMMA CommitRemoveInv ==
    ASSUME Inv, NEW r \in Requests, CommitRemove(r)
    PROVE  Inv'
<1>1. PICK h, t, c : Agree(h, t, c)
    BY DEF Inv
<1> DEFINE mem == op[r].nodes
           now == Rows(nodes, DOMAIN mem)
           j   == Cardinality(DOMAIN mem)
<1>2. /\ lastDoc \in Nat /\ lastNode \in Nat /\ DocsOK(docs, t, lastDoc)
      /\ LedgerOK(h, t, c, lastDoc, lastNode) /\ NodesOK(mem, h)
    BY <1>1 DEF Agree, RequestOK, Inv
<1>3. NodesOK(now, h)
    BY <1>1, RowsOK DEF Agree
<1>4. lastDoc + 0 = lastDoc
    BY <1>2
<1>5. Grows(h, t, c, lastDoc, lastNode, t, c, lastDoc + 0, lastNode + j, TrashNodes(mem))
    <2> HIDE DEF mem
    <2> QED
        BY <1>2, <1>4, TrashGrows
<1>6. Fail(r) \/ Finish(r, docs, Replaced(now, TrashNodes(mem)), 0, j)
    BY DEF CommitRemove
<1>7. ASSUME Finish(r, docs, Replaced(now, TrashNodes(mem)), 0, j) PROVE Inv'
    <2> HIDE DEF mem, now, j
    <2> QED
        BY <1>1, <1>2, <1>3, <1>4, <1>5, <1>7, FinishInv
<1> QED
    BY <1>6, <1>7, FailInv

(* The one row that a restore inserts: a child of a row the request holds.   *)
LEMMA ChildGrows ==
    ASSUME NEW h, NEW t, NEW c, LedgerOK(h, t, c, lastDoc, lastNode),
           lastDoc \in Nat, lastNode \in Nat,
           NEW mem, NodesOK(mem, h), NEW n \in DOMAIN mem,
           NEW t2, NEW i2 \in Nat, lastDoc <= i2,
           \A d \in 1..lastDoc : t2[d] = t[d],
           \A d \in 1..i2 : t2[d] \in 1..i2,
           NEW row \in NodeRow, row.parent = n, row.corpus = mem[n].corpus,
           row.doc \in 1..i2, t2[row.doc] = t[mem[n].doc],
           row.ver = mem[n].ver + (IF row.doc = mem[n].doc THEN 0 ELSE 1)
    PROVE  Grows(h, t, c, lastDoc, lastNode, t2, c, i2, lastNode + 1,
                 Row(lastNode + 1, row))
<1> DEFINE id  == lastNode + 1
           new == Row(id, row)
<1>1. n \in DOMAIN h /\ n \in 1..lastNode /\ n < id
    BY DEF NodesOK, LedgerOK
<1>2. SameRow(mem[n], h[n]) /\ EntryOK(n, h[n], h, t, c, lastDoc)
    BY <1>1 DEF NodesOK, LedgerOK
<1>3. ChildOf(row, h[n])
    BY <1>2 DEF SameRow, ChildOf
<1>4. c[t2[row.doc]] = row.corpus
    BY <1>2 DEF SameRow, EntryOK
<1>5. row.parent \in DOMAIN h /\ row.parent < id /\ ChildOf(row, h[row.parent])
    BY <1>1, <1>3
<1>6. EntryOK(id, row, h, t2, c, i2)
    <2> HIDE DEF id
    <2> QED
        BY <1>4, <1>5 DEF EntryOK
<1>7. DOMAIN new = {id} /\ new[id] = row
    BY DEF Row
<1>8. id \in Nat /\ lastNode <= id
    OBVIOUS
<1> HIDE DEF new
<1>9. Grows(h, t, c, lastDoc, lastNode, t2, c, i2, id, new)
    BY <1>6, <1>7, <1>8 DEF Grows
<1> QED
    BY <1>9 DEF new

(* The commit of restore_document keeps the invariant.                       *)
LEMMA CommitRestoreInv ==
    ASSUME Inv, NEW r \in Requests, CommitRestore(r)
    PROVE  Inv'
<1>1. PICK h, t, c : Agree(h, t, c)
    BY DEF Inv
<1> DEFINE mem == op[r].nodes
<1>2. PICK n \in DOMAIN mem :
        \/ Fail(r)
        \/ \E q \in Disambiguated(mem[n].corpus, mem[n].path, {}) :
             Finish(r, docs,
                    Replaced(mem, Row(lastNode + 1,
                        [mem[n] EXCEPT !.parent = n, !.path = q, !.deleted = FALSE,
                                       !.current = TRUE, !.ext = NoExt])),
                    0, 1)
    BY DEF CommitRestore
<1>3. /\ lastDoc \in Nat /\ lastNode \in Nat /\ DocsOK(docs, t, lastDoc)
      /\ LedgerOK(h, t, c, lastDoc, lastNode) /\ NodesOK(mem, h)
    BY <1>1 DEF Agree, RequestOK, Inv
<1> HIDE DEF mem
<1>4. mem[n] \in NodeRow /\ n \in 1..lastNode /\ mem[n].doc \in 1..lastDoc
    <2>1. mem[n] \in NodeRow /\ SameRow(mem[n], h[n]) /\ n \in DOMAIN h
        BY <1>3 DEF NodesOK
    <2>2. n \in 1..lastNode /\ h[n].doc \in 1..lastDoc
        BY <1>3, <2>1 DEF LedgerOK, EntryOK
    <2> QED
        BY <2>1, <2>2 DEF SameRow
<1>5. \A d \in 1..lastDoc : t[d] \in 1..lastDoc
    BY <1>3 DEF LedgerOK
<1>6. ASSUME NEW q \in Disambiguated(mem[n].corpus, mem[n].path, {}),
             Finish(r, docs,
                    Replaced(mem, Row(lastNode + 1,
                        [mem[n] EXCEPT !.parent = n, !.path = q, !.deleted = FALSE,
                                       !.current = TRUE, !.ext = NoExt])),
                    0, 1)
      PROVE  Inv'
    <2> DEFINE row == [mem[n] EXCEPT !.parent = n, !.path = q, !.deleted = FALSE,
                                     !.current = TRUE, !.ext = NoExt]
    <2>1. q \in Path
        BY <1>4, DisambiguatedIsPath DEF NodeRow
    <2>2. /\ row \in NodeRow /\ row.parent = n /\ row.doc = mem[n].doc
          /\ row.corpus = mem[n].corpus /\ row.ver = mem[n].ver
        <3>1. n \in Nat /\ NoExt \in Lineage
            BY <1>4 DEF Lineage
        <3> QED
            BY <1>4, <2>1, <3>1 DEF NodeRow
    <2>3. Finish(r, docs, Replaced(mem, Row(lastNode + 1, row)), 0, 1)
        BY <1>6
    <2> HIDE DEF row
    <2>4. row.ver = mem[n].ver + (IF row.doc = mem[n].doc THEN 0 ELSE 1)
        BY <1>4, <2>2 DEF NodeRow
    <2>5. Grows(h, t, c, lastDoc, lastNode, t, c, lastDoc, lastNode + 1, Row(lastNode + 1, row))
        BY <1>3, <1>4, <1>5, <2>2, <2>4, ChildGrows
    <2>6. lastDoc + 0 = lastDoc
        BY <1>3
    <2> QED
        BY <1>1, <1>3, <2>3, <2>5, <2>6, FinishInv
<1> QED
    BY <1>2, <1>6, FailInv

(* The second read of RestoreDocumentToVersion keeps the invariant.          *)
LEMMA ReadVersionPathInv ==
    ASSUME Inv, NEW r \in Requests, NEW cp \in Corpora, ReadVersionPath(r, cp)
    PROVE  Inv'
<1>1. PICK h, t, c : Agree(h, t, c)
    BY DEF Inv
<1> DEFINE tree  == op[r].docs[op[r].doc].tree
           heads == {n \in Active(nodes) :
                        nodes[n].corpus = cp /\ docs[nodes[n].doc].tree = tree}
<1>2. Fail(r) \/ \E n \in First(heads) :
              /\ op' = [op EXCEPT ![r] = [kind |-> "restore_version", doc |-> op[r].doc,
                            docs |-> op[r].docs, nodes |-> Rows(nodes, {n})]]
              /\ UNCHANGED <<docs, nodes, lastDoc, lastNode>>
    BY DEF ReadVersionPath
<1>3. ASSUME NEW n \in First(heads),
             op' = [op EXCEPT ![r] = [kind |-> "restore_version", doc |-> op[r].doc,
                            docs |-> op[r].docs, nodes |-> Rows(nodes, {n})]],
             UNCHANGED <<docs, nodes, lastDoc, lastNode>>
      PROVE  Inv'
    <2> DEFINE o == [kind |-> "restore_version", doc |-> op[r].doc,
                     docs |-> op[r].docs, nodes |-> Rows(nodes, {n})]
    <2>1. n \in DOMAIN nodes /\ docs[nodes[n].doc].tree = tree /\ nodes[n].current
        BY DEF First, Active
    <2>2. DOMAIN Rows(nodes, {n}) = {n} /\ Rows(nodes, {n})[n] = nodes[n]
        BY <2>1 DEF Rows
    <2>3. NodesOK(Rows(nodes, {n}), h)
        BY <1>1, RowsOK DEF Agree
    <2>4. RequestOK(op[r], h, t, lastDoc) /\ op[r].doc \in DOMAIN op[r].docs
        BY <1>1 DEF Agree, RequestOK, ReadVersionPath
    <2>5. t[nodes[n].doc] = tree
        <3>1. nodes[n].doc \in DOMAIN docs
            BY <2>1 DEF Inv, ForeignKeys
        <3> QED
            BY <1>1, <2>1, <3>1 DEF Agree, DocsOK
    <2>6. RequestOK(o, h, t, lastDoc)
        <3>1. o.kind = "restore_version" /\ o.doc = op[r].doc /\ o.docs = op[r].docs
                 /\ o.nodes = Rows(nodes, {n})
            OBVIOUS
        <3> HIDE DEF o
        <3> QED
            BY <2>1, <2>2, <2>3, <2>4, <2>5, <3>1 DEF RequestOK, OpKinds
    <2> QED
        BY <1>1, <1>3, <2>6, OpOnly
<1> QED
    BY <1>2, <1>3, FailInv

(* The commit of RestoreDocumentToVersion keeps the invariant.               *)
LEMMA CommitRestoreVersionInv ==
    ASSUME Inv, NEW r \in Requests, CommitRestoreVersion(r)
    PROVE  Inv'
<1>1. PICK h, t, c : Agree(h, t, c)
    BY DEF Inv
<1> DEFINE cur  == op[r].doc
           dmem == op[r].docs
           mem  == op[r].nodes
           d    == lastDoc + 1
           tree == dmem[cur].tree
           D    == Put(Put(docs, Retired(dmem)), Row(d,
                       [tree |-> tree, parent |-> cur, current |-> TRUE]))
           t2   == [x \in Nat |-> IF x = d THEN tree ELSE t[x]]
<1>2. PICK n \in DOMAIN mem :
        Finish(r, D, Replaced(mem, Row(lastNode + 1,
                       [mem[n] EXCEPT !.doc = lastDoc + 1, !.ver = @ + 1,
                                      !.parent = n, !.ext = NoExt])), 1, 1)
    BY DEF CommitRestoreVersion
<1> DEFINE row == [mem[n] EXCEPT !.doc = d, !.ver = mem[n].ver + 1,
                                 !.parent = n, !.ext = NoExt]
<1>3. /\ lastDoc \in Nat /\ lastNode \in Nat /\ DocsOK(docs, t, lastDoc)
      /\ LedgerOK(h, t, c, lastDoc, lastNode) /\ NodesOK(mem, h)
    BY <1>1 DEF Agree, RequestOK, Inv
<1>4. /\ DocsOK(dmem, t, lastDoc) /\ cur \in DOMAIN dmem /\ t[mem[n].doc] = tree
      /\ cur \in Nat
    BY <1>1, <1>3 DEF Agree, RequestOK, CommitRestoreVersion
<1>5. mem[n] \in NodeRow /\ n \in 1..lastNode /\ mem[n].doc \in 1..lastDoc
    <2>1. mem[n] \in NodeRow /\ SameRow(mem[n], h[n]) /\ n \in DOMAIN h
        BY <1>3 DEF NodesOK
    <2>2. n \in 1..lastNode /\ h[n].doc \in 1..lastDoc
        BY <1>3, <2>1 DEF LedgerOK, EntryOK
    <2> QED
        BY <2>1, <2>2 DEF SameRow
<1>6. tree \in 1..lastDoc /\ \A x \in 1..lastDoc : t[x] \in 1..lastDoc
    BY <1>3, <1>4, <1>5 DEF LedgerOK
<1>7. /\ row \in NodeRow /\ row.parent = n /\ row.doc = d
      /\ row.corpus = mem[n].corpus /\ row.ver = mem[n].ver + 1
    <2>1. n \in Nat /\ NoExt \in Lineage /\ d \in Nat /\ mem[n].ver + 1 \in Nat
        BY <1>3, <1>5 DEF Lineage, NodeRow
    <2> HIDE DEF mem
    <2> QED
        BY <1>5, <2>1 DEF NodeRow
<1>8. Finish(r, D, Replaced(mem, Row(lastNode + 1, row)), 1, 1)
    BY <1>2
<1>9. /\ \A x \in 1..lastDoc : t2[x] = t[x]
      /\ \A x \in 1..d : t2[x] \in 1..d
      /\ t2[d] = t[mem[n].doc]
    BY <1>3, <1>4, <1>6
<1>10. DocsOK(D, t2, d)
    <2>1. DOMAIN D = DOMAIN docs \cup DOMAIN dmem \cup {d}
        BY DEF Put, Retired, Row
    <2>2. D[d] = [tree |-> tree, parent |-> cur, current |-> TRUE]
        BY DEF Put, Row
    <2>3. D[d] \in DocRow /\ D[d].tree = t2[d]
        <3>1. tree \in Nat /\ d \in Nat
            BY <1>3, <1>6
        <3>2. t2[d] = tree
            BY <3>1
        <3> HIDE DEF D, t2, tree, cur
        <3> QED
            BY <1>4, <2>2, <3>1, <3>2 DEF DocRow
    <2>4. ASSUME NEW x \in DOMAIN docs \cup DOMAIN dmem
          PROVE  x \in 1..lastDoc /\ D[x] \in DocRow /\ D[x].tree = t2[x]
        <3>1. x \in 1..lastDoc /\ x # d
            BY <1>3, <1>4 DEF DocsOK
        <3>2. \/ x \in DOMAIN docs /\ D[x] = docs[x]
              \/ x \in DOMAIN dmem /\ D[x] = [dmem[x] EXCEPT !.current = FALSE]
            BY <3>1 DEF Put, Retired, Row
        <3>3. D[x] \in DocRow /\ D[x].tree = t[x]
            <4> HIDE DEF D, dmem
            <4> QED
                BY <1>3, <1>4, <3>2 DEF DocsOK, DocRow
        <3> QED
            BY <1>9, <3>1, <3>3
    <2> HIDE DEF D, t2, dmem
    <2> QED
        BY <1>3, <2>1, <2>3, <2>4 DEF DocsOK
<1>11. d \in Nat /\ lastDoc <= d /\ d \in 1..d /\ d # mem[n].doc
    BY <1>3, <1>5
<1> HIDE DEF mem, row, t2, d, D
<1>12. row.ver = mem[n].ver + (IF row.doc = mem[n].doc THEN 0 ELSE 1)
    BY <1>7, <1>11
<1>13. Grows(h, t, c, lastDoc, lastNode, t2, c, d, lastNode + 1, Row(lastNode + 1, row))
    BY <1>3, <1>7, <1>9, <1>11, <1>12, ChildGrows
<1> QED
    BY <1>1, <1>3, <1>8, <1>10, <1>13, FinishInv DEF d

(* The commit of permanently_delete_document keeps the invariant.            *)
LEMMA CommitPurgeInv ==
    ASSUME Inv, NEW r \in Requests, CommitPurge(r)
    PROVE  Inv'
<1>1. PICK h, t, c : Agree(h, t, c)
    BY DEF Inv
<1>2. PICK D, T : /\ Finish(r, D, Without(nodes, T), 0, 0)
                  /\ D = docs \/ \E S : D = Without(docs, S)
    BY DEF CommitPurge
<1> DEFINE N == Without(nodes, T)
<1>3. CASE SchemaOK(D, N)
    <2>1. /\ docs' = D /\ nodes' = N
          /\ lastDoc' = lastDoc /\ lastNode' = lastNode
        BY <1>2, <1>3 DEF Finish, Inv
    <2>2. ForeignKeys(D, N)
        BY <1>3 DEF SchemaOK, ForeignKeys
    <2>3. DocsOK(D, t, lastDoc) /\ NodesOK(N, h)
        BY <1>1, <1>2 DEF Agree, DocsOK, NodesOK, Without
    <2>4. op' = [op EXCEPT ![r] = Idle] /\ op = [s \in Requests |-> op[s]]
        BY <1>2 DEF Finish, Inv
    <2>5. op' = [s \in Requests |-> op'[s]]
        BY <2>4
    <2>6. \A s \in Requests : RequestOK(op'[s], h, t, lastDoc)
        BY <1>1, <2>4, IdleOK DEF Agree, Inv
    <2>7. Agree(h, t, c)'
        BY <1>1, <2>1, <2>3, <2>6 DEF Agree
    <2> QED
        BY <2>1, <2>2, <2>5, <2>7 DEF Inv
<1>4. CASE ~SchemaOK(D, N)
    <2>1. Fail(r)
        BY <1>2, <1>4 DEF Finish, Fail
    <2> QED
        BY <2>1, FailInv
<1> QED
    BY <1>3, <1>4

-----------------------------------------------------------------------------
(* Every step keeps the invariant.                                           *)

(* Every locked request keeps the invariant.                                 *)
LEMMA LockedRequestInv ==
    ASSUME Inv, LockedRequest
    PROVE  Inv'
<1>1. \A n \in DOMAIN nodes : nodes[n] \in NodeRow
    BY DEF Inv, Agree, NodesOK
<1>2. PICK cp \in Corpora :
        \/ \E dir \in Dirs, name \in Names, e \in Lineage :
              LET p == [dir |-> dir, name |-> name, sfx |-> <<>>]
              IN  ImportNew(cp, p, e) \/ AddDocument(cp, p, e)
        \/ \E n \in Active(nodes), e \in Lineage :
              \/ ImportVersion(cp, nodes[n].path, e)
              \/ ImportMetadata(cp, nodes[n].path, e)
              \/ RecordMetadata(cp, nodes[n].path, e)
        \/ \E d \in DOMAIN docs :
              \/ \E dir \in Dirs : MoveToFolder(d, cp, dir)
              \/ \E name \in Names : Rename(d, cp, name)
        \/ EmptyCorpus(cp)
    BY DEF LockedRequest
<1>3. ASSUME NEW p \in Path, NEW e \in Lineage, ImportNew(cp, p, e) PROVE Inv'
    BY <1>3, NewTreeInv DEF ImportNew
<1>4. ASSUME NEW p \in Path, NEW e \in Lineage, AddDocument(cp, p, e) PROVE Inv'
    <2>1. PICK q \in Disambiguated(cp, p, {}) : NewTree(cp, q, e)
        BY <1>4 DEF AddDocument
    <2>2. q \in Path
        BY DisambiguatedIsPath
    <2> QED
        BY <2>1, <2>2, NewTreeInv
<1>5. ASSUME NEW p, NEW e \in Lineage, ImportVersion(cp, p, e) PROVE Inv'
    <2>1. PICK n \in ActiveAt(cp, p) : VersionUp(n, nodes[n].doc, nodes[n].ver + 1, e)
        BY <1>5 DEF ImportVersion
    <2>2. n \in DOMAIN nodes
        BY DEF ActiveAt, Active
    <2> QED
        BY <2>1, <2>2, VersionUpInv
<1>6. ASSUME NEW p, NEW e \in Lineage, ImportMetadata(cp, p, e) PROVE Inv'
    BY <1>6, ImportMetadataInv
<1>7. ASSUME NEW p, NEW e \in Lineage, RecordMetadata(cp, p, e) PROVE Inv'
    BY <1>7, RecordMetadataInv
<1>8. ASSUME NEW d, NEW dir \in Dirs, MoveToFolder(d, cp, dir) PROVE Inv'
    <2>1. PICK n \in ActiveOf(d, cp) : Relocate(n, [nodes[n].path EXCEPT !.dir = dir])
        BY <1>8 DEF MoveToFolder, First
    <2>2. n \in DOMAIN nodes /\ nodes[n].path \in Path
        BY <1>1 DEF ActiveOf, Active, NodeRow
    <2>3. [nodes[n].path EXCEPT !.dir = dir] \in Path
        BY <2>2 DEF Path
    <2> QED
        BY <2>1, <2>2, <2>3, RelocateInv
<1>9. ASSUME NEW d, NEW name \in Names, Rename(d, cp, name) PROVE Inv'
    <2> DEFINE base(n) == [nodes[n].path EXCEPT !.name = name, !.sfx = <<>>]
    <2>1. PICK n \in ActiveOf(d, cp) : Relocate(n, base(n))
        BY <1>9 DEF Rename, First
    <2>2. n \in DOMAIN nodes /\ nodes[n].path \in Path
        BY <1>1 DEF ActiveOf, Active, NodeRow
    <2>3. base(n) \in Path
        <3>1. <<>> \in Seq(Nat)
            OBVIOUS
        <3> QED
            BY <2>2, <3>1 DEF Path
    <2> HIDE DEF base
    <2> QED
        BY <2>1, <2>2, <2>3, RelocateInv
<1>10. ASSUME EmptyCorpus(cp) PROVE Inv'
    BY <1>10, BulkSoftDeleteInv DEF EmptyCorpus
<1>11. \A dir \in Dirs, name \in Names : [dir |-> dir, name |-> name, sfx |-> <<>>] \in Path
    BY DEF Path
<1> QED
    BY <1>2, <1>3, <1>4, <1>5, <1>6, <1>7, <1>8, <1>9, <1>10, <1>11

(* Every step keeps the invariant.                                           *)
LEMMA NextInv == Inv /\ [Next]_vars => Inv'
<1> SUFFICES ASSUME Inv, [Next]_vars PROVE Inv'
    OBVIOUS
<1>1. CASE LockedRequest
    BY <1>1, LockedRequestInv
<1>2. ASSUME NEW r \in Requests, StartRequest(r) PROVE Inv'
    BY <1>2, StartRequestInv
<1>3. ASSUME NEW r \in Requests, CommitRequest(r) PROVE Inv'
    <2>1. CASE CommitSoftDelete(r)
        BY <2>1, CommitSoftDeleteInv
    <2>2. CASE CommitRemove(r)
        BY <2>2, CommitRemoveInv
    <2>3. CASE CommitRestore(r)
        BY <2>3, CommitRestoreInv
    <2>4. CASE \E cp \in Corpora : ReadVersionPath(r, cp)
        BY <2>4, ReadVersionPathInv
    <2>5. CASE CommitRestoreVersion(r)
        BY <2>5, CommitRestoreVersionInv
    <2>6. CASE CommitPurge(r)
        BY <2>6, CommitPurgeInv
    <2>7. CASE op[r] # Idle /\ Fail(r)
        BY <2>7, FailInv
    <2> QED
        BY <1>3, <2>1, <2>2, <2>3, <2>4, <2>5, <2>6, <2>7 DEF CommitRequest
<1>4. CASE UNCHANGED vars
    <2>1. PICK h, t, c : Agree(h, t, c)
        BY DEF Inv
    <2>2. Agree(h, t, c)'
        BY <1>4, <2>1 DEF vars, Agree
    <2> QED
        BY <1>4, <2>2 DEF vars, Inv, ForeignKeys
<1> QED
    BY <1>1, <1>2, <1>3, <1>4 DEF Next

(* The ledger exists in every reachable state.                               *)
LEMMA AlwaysInv == Spec => []Inv
<1> QED
    BY InitInv, NextInv, PTL DEF Spec

(* Every row, and every row a request holds in memory, is well formed: a     *)
(* stale save cannot bring in an id that the sequences have not issued.      *)
THEOREM TypeCorrect == Spec => []TypeOK
<1> QED
    BY AlwaysInv, InvTypeOK, PTL

(* Rules P2 and P5 for any number of overlapping requests: versions count    *)
(* the content changes along every chain of path nodes, and chains do not    *)
(* loop, although no save of soft_delete, restore or restore-to-version      *)
(* looks at what became of the row it read.                                  *)
THEOREM VersionsAlwaysCount == Spec => []VersionsCount
<1> QED
    BY AlwaysInv, InvVersionsCount, PTL

(* Rule I1 for any number of overlapping requests: a version tree never      *)
(* reaches into a second corpus.                                             *)
THEOREM CorporaAreIsolated == Spec => []CorpusIsolation
<1> QED
    BY AlwaysInv, InvCorpusIsolation, PTL

-----------------------------------------------------------------------------
(* What a step does to the rows that are already there.                      *)

(* The step retires the rows mem, each for a current child among the rows    *)
(* new, whose ids were never used.                                           *)
Rewrites(mem, new) ==
    /\ nodes' = Replaced(mem, new)
    /\ DOMAIN new \cap 1..lastNode = {}
    /\ \A n \in DOMAIN mem : \E m \in DOMAIN new : new[m].parent = n /\ new[m].current

Evolves(h) ==
    \/ \E mem, new : NodesOK(mem, h) /\ Rewrites(mem, new)
    \/ \E T : nodes' = Without(nodes, T)
    \/ \E n \in DOMAIN nodes, e \in ExtIds : nodes' = [nodes EXCEPT ![n].ext = e]
    \/ nodes' = nodes

(* Two versions of the same row differ in the updated columns alone.         *)
LEMMA SameRowUpdates ==
    ASSUME NEW a \in NodeRow, NEW b \in NodeRow, SameRow(a, b)
    PROVE  a = [b EXCEPT !.current = a.current, !.ext = a.ext]
    BY DEF NodeRow, SameRow

(* Such a step rewrites no history and replaces every path it retires.       *)
LEMMA EvolvesKeeps ==
    ASSUME NEW h, NodesOK(nodes, h), DOMAIN h \subseteq 1..lastNode, Evolves(h)
    PROVE  HistoryKept /\ HeadsKept
<1>1. \A n \in DOMAIN nodes : nodes[n] \in NodeRow
    BY DEF NodesOK
<1>2. ASSUME NEW mem, NEW new, NodesOK(mem, h), Rewrites(mem, new)
      PROVE  HistoryKept /\ HeadsKept
    <2>1. DOMAIN nodes' = DOMAIN nodes \cup DOMAIN mem \cup DOMAIN new
        BY <1>2 DEF Rewrites, Replaced, Put, Retired
    <2>2. DOMAIN nodes \subseteq 1..lastNode /\ DOMAIN mem \subseteq 1..lastNode
        BY <1>2 DEF NodesOK
    <2>3. \A m \in DOMAIN new : nodes'[m] = new[m] /\ m \notin DOMAIN nodes
        BY <1>2, <2>2 DEF Rewrites, Replaced, Put
    <2>4. ASSUME NEW n \in DOMAIN nodes
          PROVE  \/ n \notin DOMAIN mem /\ nodes'[n] = nodes[n]
                 \/ n \in DOMAIN mem /\ nodes'[n] = [mem[n] EXCEPT !.current = FALSE]
        <3>1. n \notin DOMAIN new
            BY <2>3
        <3> QED
            BY <1>2, <3>1 DEF Rewrites, Replaced, Put, Retired
    <2>5. ASSUME NEW n \in DOMAIN nodes
          PROVE  /\ nodes'[n] = [nodes[n] EXCEPT !.current = nodes'[n].current,
                                                 !.ext = nodes'[n].ext]
                 /\ nodes'[n].current => nodes[n].current
        <3>1. CASE nodes'[n] = nodes[n]
            BY <1>1, <3>1 DEF NodeRow
        <3>2. CASE n \in DOMAIN mem /\ nodes'[n] = [mem[n] EXCEPT !.current = FALSE]
            <4>1. mem[n] \in NodeRow /\ nodes[n] \in NodeRow /\ SameRow(mem[n], nodes[n])
                BY <1>2, <3>2 DEF NodesOK, SameRow
            <4>2. nodes'[n] \in NodeRow /\ SameRow(nodes'[n], nodes[n]) /\ ~nodes'[n].current
                BY <3>2, <4>1 DEF NodeRow, SameRow
            <4> QED
                BY <4>1, <4>2, SameRowUpdates
        <3> QED
            BY <2>4, <3>1, <3>2
    <2>6. ASSUME NEW n \in DOMAIN nodes, nodes[n].current, ~nodes'[n].current
          PROVE  \E m \in DOMAIN nodes' \ DOMAIN nodes :
                    nodes'[m].parent = n /\ nodes'[m].current
        <3>1. n \in DOMAIN mem
            BY <2>4, <2>6
        <3>2. PICK m \in DOMAIN new : new[m].parent = n /\ new[m].current
            BY <1>2, <3>1 DEF Rewrites
        <3> QED
            BY <2>1, <2>3, <3>2
    <2> QED
        BY <2>5, <2>6 DEF HistoryKept, HeadsKept
<1>3. ASSUME NEW T, nodes' = Without(nodes, T) PROVE HistoryKept /\ HeadsKept
    <2>1. \A n \in DOMAIN nodes \cap DOMAIN nodes' : nodes'[n] = nodes[n]
        BY <1>3 DEF Without
    <2> QED
        BY <1>1, <2>1 DEF HistoryKept, HeadsKept, NodeRow
<1>4. ASSUME NEW n \in DOMAIN nodes, NEW e \in ExtIds, nodes' = [nodes EXCEPT ![n].ext = e]
      PROVE  HistoryKept /\ HeadsKept
    <2>1. \A m \in DOMAIN nodes : \/ nodes'[m] = nodes[m]
                                  \/ nodes'[m] = [nodes[m] EXCEPT !.ext = e]
        BY <1>4
    <2>2. \A m \in DOMAIN nodes :
             /\ nodes'[m] = [nodes[m] EXCEPT !.current = nodes'[m].current,
                                             !.ext = nodes'[m].ext]
             /\ nodes'[m].current = nodes[m].current
        BY <1>1, <2>1 DEF NodeRow
    <2> QED
        BY <2>2 DEF HistoryKept, HeadsKept
<1>5. ASSUME nodes' = nodes PROVE HistoryKept /\ HeadsKept
    BY <1>1, <1>5 DEF HistoryKept, HeadsKept, NodeRow
<1> QED
    BY <1>2, <1>3, <1>4, <1>5 DEF Evolves

(* One row retired for one new row.                                          *)
LEMMA OneForOne ==
    ASSUME NEW h, NEW mem, NodesOK(mem, h), NEW n, DOMAIN mem \subseteq {n}, NEW row,
           row.parent = n, row.current, lastNode \in Nat,
           nodes' = Replaced(mem, Row(lastNode + 1, row))
    PROVE  Evolves(h)
<1> DEFINE new == Row(lastNode + 1, row)
<1>1. DOMAIN new = {lastNode + 1} /\ new[lastNode + 1] = row
    BY DEF Row
<1> HIDE DEF new
<1>2. DOMAIN new \cap 1..lastNode = {}
    BY <1>1
<1>3. Rewrites(mem, new)
    BY <1>1, <1>2 DEF Rewrites, new
<1> QED
    BY <1>3 DEF Evolves

(* Rows trashed together.                                                    *)
LEMMA TrashEvolves ==
    ASSUME NEW h, NEW mem, NodesOK(mem, h), NEW now, NodesOK(now, h),
           DOMAIN now \subseteq DOMAIN mem,
           DOMAIN h \subseteq 1..lastNode, lastNode \in Nat,
           nodes' = Replaced(now, TrashNodes(mem))
    PROVE  Evolves(h)
<1> DEFINE new == TrashNodes(mem)
<1>1. DOMAIN mem \subseteq 1..lastNode
    BY DEF NodesOK
<1>2. DOMAIN new = {NewId(mem, n) : n \in DOMAIN mem}
    BY <1>1, TrashNodesFacts
<1>3. \A n \in DOMAIN mem : NewId(mem, n) \notin 1..lastNode
    BY <1>1, NewIdFacts
<1>4. ASSUME NEW n \in DOMAIN mem
      PROVE  new[NewId(mem, n)].parent = n /\ new[NewId(mem, n)].current
    <2>1. new[NewId(mem, n)] = [mem[n] EXCEPT !.parent = n, !.deleted = TRUE,
                                              !.current = TRUE, !.ext = NoExt]
        BY <1>1, TrashNodesFacts
    <2>2. mem[n] \in NodeRow
        BY DEF NodesOK
    <2> HIDE DEF new
    <2> QED
        BY <2>1, <2>2 DEF NodeRow
<1>5. Rewrites(now, new)
    <2> HIDE DEF new
    <2>1. nodes' = Replaced(now, new)
        BY DEF new
    <2> QED
        BY <1>2, <1>3, <1>4, <2>1 DEF Rewrites
<1> QED
    BY <1>5 DEF Evolves

(* Every locked request is such a step.                                      *)
LEMMA LockedEvolves ==
    ASSUME NEW h, NodesOK(nodes, h), DOMAIN h \subseteq 1..lastNode, lastNode \in Nat,
           LockedRequest
    PROVE  Evolves(h)
<1>1. \A n \in DOMAIN nodes : nodes[n] \in NodeRow
    BY DEF NodesOK
<1>2. ASSUME NEW cp, NEW p, NEW e, NewTree(cp, p, e) PROVE Evolves(h)
    <2> DEFINE row == [doc |-> lastDoc + 1, corpus |-> cp, path |-> p, ver |-> 1,
                       parent |-> NULL, deleted |-> FALSE, current |-> TRUE, ext |-> e]
               new == Row(lastNode + 1, row)
    <2>1. DOMAIN NoRows = {} /\ NodesOK(NoRows, h)
        BY DEF NoRows, NodesOK
    <2>2. nodes' = Replaced(NoRows, new)
        BY <1>2 DEF NewTree
    <2>3. DOMAIN new = {lastNode + 1}
        BY DEF Row
    <2> HIDE DEF new
    <2>4. Rewrites(NoRows, new)
        BY <2>1, <2>2, <2>3 DEF Rewrites
    <2> QED
        BY <2>1, <2>4 DEF Evolves
<1>3. ASSUME NEW n \in Active(nodes), NEW row, "parent" \in DOMAIN row, row.current,
             Supersede(n, row)
      PROVE  Evolves(h)
    <2> DEFINE r == [row EXCEPT !.parent = n]
    <2>1. r.parent = n /\ r.current
        BY <1>3
    <2>2. NodesOK(Rows(nodes, {n}), h) /\ DOMAIN Rows(nodes, {n}) \subseteq {n}
        BY RowsOK DEF Rows
    <2>3. nodes' = Replaced(Rows(nodes, {n}), Row(lastNode + 1, r))
        BY <1>3 DEF Supersede
    <2> HIDE DEF r
    <2> QED
        BY <2>1, <2>2, <2>3, OneForOne
<1>4. \A n \in Active(nodes) : nodes[n] \in NodeRow /\ nodes[n].current
    BY <1>1 DEF Active
<1>5. ASSUME NEW n \in Active(nodes), NEW p, NEW v, NEW e, VersionUp(n, p, v, e)
      PROVE  Evolves(h)
    <2> DEFINE row == [nodes[n] EXCEPT !.doc = lastDoc + 1, !.ver = v,
                                       !.ext = IF e = NoExt THEN @ ELSE e]
    <2>1. "parent" \in DOMAIN row /\ row.current
        BY <1>4 DEF NodeRow
    <2>2. Supersede(n, row)
        BY <1>5 DEF VersionUp
    <2> HIDE DEF row
    <2> QED
        BY <1>3, <2>1, <2>2
<1>6. ASSUME NEW cp, NEW p, NEW e, RecordMetadata(cp, p, e) PROVE Evolves(h)
    <2> DEFINE row(n) == [nodes[n] EXCEPT !.ext = IF e = NoExt THEN @ ELSE e]
    <2>1. PICK n \in Active(nodes) : Supersede(n, row(n))
        BY <1>6 DEF RecordMetadata, ActiveAt
    <2>2. "parent" \in DOMAIN row(n) /\ row(n).current
        BY <1>4 DEF NodeRow
    <2> HIDE DEF row
    <2> QED
        BY <1>3, <2>1, <2>2
<1>7. ASSUME NEW n \in Active(nodes), NEW base, Relocate(n, base) PROVE Evolves(h)
    <2> DEFINE row(q) == [nodes[n] EXCEPT !.path = q, !.ext = NoExt]
    <2>1. PICK q : Supersede(n, row(q))
        BY <1>7 DEF Relocate
    <2>2. "parent" \in DOMAIN row(q) /\ row(q).current
        BY <1>4 DEF NodeRow
    <2> HIDE DEF row
    <2> QED
        BY <1>3, <2>1, <2>2
<1>8. ASSUME NEW cp, NEW p, NEW e, ImportMetadata(cp, p, e) PROVE Evolves(h)
    BY <1>8 DEF ImportMetadata, ActiveAt, Active, Evolves
<1>9. ASSUME NEW cp, EmptyCorpus(cp) PROVE Evolves(h)
    <2>0. PICK D : BulkSoftDelete(cp, D)
        BY <1>9 DEF EmptyCorpus
    <2> DEFINE mem == Rows(nodes, UNION {ActiveOf(d, cp) : d \in D})
    <2>1. nodes' = Replaced(mem, TrashNodes(mem))
        BY <2>0 DEF BulkSoftDelete
    <2>2. NodesOK(mem, h)
        BY RowsOK
    <2> HIDE DEF mem
    <2> QED
        BY <2>1, <2>2, TrashEvolves
<1>10. ASSUME NEW cp, NEW p, NEW e, ImportNew(cp, p, e) \/ AddDocument(cp, p, e)
       PROVE  Evolves(h)
    BY <1>2, <1>10 DEF ImportNew, AddDocument
<1>11. ASSUME NEW cp, NEW p, NEW e, ImportVersion(cp, p, e) PROVE Evolves(h)
    BY <1>5, <1>11 DEF ImportVersion, ActiveAt
<1>12. ASSUME NEW d, NEW cp, NEW dir, MoveToFolder(d, cp, dir) PROVE Evolves(h)
    BY <1>7, <1>12 DEF MoveToFolder, First, ActiveOf
<1>13. ASSUME NEW d, NEW cp, NEW name, Rename(d, cp, name) PROVE Evolves(h)
    BY <1>7, <1>13 DEF Rename, First, ActiveOf
<1> QED
    BY <1>6, <1>8, <1>9, <1>10, <1>11, <1>12, <1>13 DEF LockedRequest

(* A rolled-back commit changes no row; one that takes effect writes N.      *)
LEMMA FinishWrites ==
    ASSUME NEW r, NEW D, NEW N, NEW i, NEW j, Finish(r, D, N, i, j)
    PROVE  nodes' = N \/ nodes' = nodes
    BY DEF Finish

(* Every commit of an unlocked request is such a step.                       *)
LEMMA CommitEvolves ==
    ASSUME Inv, NEW h, NEW t, NEW c, Agree(h, t, c),
           NEW r \in Requests, CommitRequest(r)
    PROVE  Evolves(h)
<1> DEFINE mem == op[r].nodes
<1>1. /\ lastNode \in Nat /\ NodesOK(nodes, h) /\ NodesOK(mem, h)
      /\ DOMAIN h \subseteq 1..lastNode
    BY DEF Inv, Agree, RequestOK, LedgerOK
<1>2. CASE CommitSoftDelete(r)
    <2>1. nodes' = Replaced(mem, TrashNodes(mem)) \/ nodes' = nodes
        BY <1>2, FinishWrites DEF CommitSoftDelete
    <2> HIDE DEF mem
    <2> QED
        BY <1>1, <2>1, TrashEvolves DEF Evolves
<1>3. CASE CommitRemove(r)
    <2> DEFINE now == Rows(nodes, DOMAIN mem)
    <2>1. nodes' = Replaced(now, TrashNodes(mem)) \/ nodes' = nodes
        BY <1>3, FinishWrites DEF CommitRemove, Fail
    <2>2. NodesOK(now, h) /\ DOMAIN now \subseteq DOMAIN mem
        BY <1>1, RowsOK DEF Rows
    <2> HIDE DEF mem, now
    <2> QED
        BY <1>1, <2>1, <2>2, TrashEvolves DEF Evolves
<1>4. CASE CommitRestore(r)
    <2> DEFINE row(n, q) == [mem[n] EXCEPT !.parent = n, !.path = q, !.deleted = FALSE,
                                           !.current = TRUE, !.ext = NoExt]
    <2>1. PICK n \in DOMAIN mem :
            \E q : nodes' = Replaced(mem, Row(lastNode + 1, row(n, q))) \/ nodes' = nodes
        BY <1>4, FinishWrites DEF CommitRestore, Fail
    <2>2. DOMAIN mem \subseteq {n}
        BY <1>4 DEF CommitRestore, Agree, RequestOK
    <2>3. PICK q :
            nodes' = Replaced(mem, Row(lastNode + 1, row(n, q))) \/ nodes' = nodes
        BY <2>1
    <2>4. row(n, q).parent = n /\ row(n, q).current
        <3>1. mem[n] \in NodeRow
            BY <1>1 DEF NodesOK
        <3> HIDE DEF mem
        <3> QED
            BY <3>1 DEF NodeRow
    <2> HIDE DEF mem, row
    <2> QED
        BY <1>1, <2>2, <2>3, <2>4, OneForOne DEF Evolves
<1>5. CASE \E cp \in Corpora : ReadVersionPath(r, cp)
    BY <1>5 DEF ReadVersionPath, Fail, Evolves
<1>6. CASE CommitRestoreVersion(r)
    <2> DEFINE row(n) == [mem[n] EXCEPT !.doc = lastDoc + 1, !.ver = @ + 1,
                                        !.parent = n, !.ext = NoExt]
    <2>1. PICK n \in DOMAIN mem :
            nodes' = Replaced(mem, Row(lastNode + 1, row(n))) \/ nodes' = nodes
        BY <1>6, FinishWrites DEF CommitRestoreVersion
    <2>2. DOMAIN mem \subseteq {n} /\ mem[n].current
        BY <1>6 DEF CommitRestoreVersion, Agree, RequestOK
    <2>3. row(n).parent = n /\ row(n).current
        <3>1. mem[n] \in NodeRow
            BY <1>1 DEF NodesOK
        <3> HIDE DEF mem
        <3> QED
            BY <2>2, <3>1 DEF NodeRow
    <2> HIDE DEF mem, row
    <2> QED
        BY <1>1, <2>1, <2>2, <2>3, OneForOne DEF Evolves
<1>7. CASE CommitPurge(r)
    <2>1. PICK T : nodes' = Without(nodes, T) \/ nodes' = nodes
        BY <1>7, FinishWrites DEF CommitPurge
    <2> QED
        BY <2>1 DEF Evolves
<1>8. CASE op[r] # Idle /\ Fail(r)
    BY <1>8 DEF Fail, Evolves
<1> QED
    BY <1>2, <1>3, <1>4, <1>5, <1>6, <1>7, <1>8 DEF CommitRequest

(* Every step rewrites no history and replaces every path it retires.        *)
LEMMA NextKeeps == Inv /\ [Next]_vars => [HistoryKept /\ HeadsKept]_vars
<1> SUFFICES ASSUME Inv, Next PROVE HistoryKept /\ HeadsKept
    OBVIOUS
<1>1. PICK h, t, c : Agree(h, t, c)
    BY DEF Inv
<1>2. lastNode \in Nat /\ NodesOK(nodes, h) /\ DOMAIN h \subseteq 1..lastNode
    BY <1>1 DEF Inv, Agree, LedgerOK
<1>3. CASE LockedRequest
    BY <1>2, <1>3, LockedEvolves, EvolvesKeeps
<1>4. ASSUME NEW r \in Requests, StartRequest(r) PROVE HistoryKept /\ HeadsKept
    <2>1. nodes' = nodes
        BY <1>4 DEF StartRequest, StartRestoreVersion, StartSoftDelete, StartRemove,
                    StartRestore, StartPurge, Start
    <2>2. Evolves(h)
        BY <2>1 DEF Evolves
    <2> QED
        BY <1>2, <2>2, EvolvesKeeps
<1>5. ASSUME NEW r \in Requests, CommitRequest(r) PROVE HistoryKept /\ HeadsKept
    BY <1>1, <1>2, <1>5, CommitEvolves, EvolvesKeeps
<1> QED
    BY <1>3, <1>4, <1>5 DEF Next

(* Rule P1 for any number of overlapping requests: a stale save rewrites a   *)
(* row with what it has always been, and never makes it current again.       *)
THEOREM HistoryIsImmutable == Spec => HistoryImmutable
<1>1. Inv /\ [Next]_vars => [HistoryKept]_vars
    BY NextKeeps
<1> QED
    BY <1>1, AlwaysInv, PTL DEF Spec, HistoryImmutable

(* Rule P2 for any number of overlapping requests: a path that stops being   *)
(* current has a current child from the same step on.                        *)
THEOREM HeadsAreAlwaysReplaced == Spec => HeadsAreReplaced
<1>1. Inv /\ [Next]_vars => [HeadsKept]_vars
    BY NextKeeps
<1> QED
    BY <1>1, AlwaysInv, PTL DEF Spec, HeadsAreReplaced

-----------------------------------------------------------------------------
(* The constraints of the schema.  The commits of unlocked requests are      *)
(* checked against them; a locked request is not, and need not be.           *)

ParentsOK(D) == \A d \in DOMAIN D : D[d].parent \in DOMAIN D \cup {NULL}

OneCurrent(D) ==
    \A d, e \in DOMAIN D : D[d].current /\ D[e].current /\ D[d].tree = D[e].tree => d = e

OnePerPath(N) ==
    \A m, n \in Active(N) : N[m].corpus = N[n].corpus /\ N[m].path = N[n].path => m = n

(* What the database checks, in parts that can be proved one at a time.      *)
LEMMA SchemaParts ==
    ASSUME NEW D, NEW N
    PROVE  SchemaOK(D, N) <=>
              ParentsOK(D) /\ ForeignKeys(D, N) /\ OneCurrent(D) /\ OnePerPath(N)
    BY DEF SchemaOK, ParentsOK, ForeignKeys, OneCurrent, OnePerPath

(* What the rows of the tables are, and which ids are still free.            *)
LEMMA InvRows ==
    ASSUME Inv
    PROVE  /\ lastDoc \in Nat /\ lastNode \in Nat
           /\ ForeignKeys(docs, nodes)
           /\ \A n \in DOMAIN nodes : n \in 1..lastNode /\ nodes[n] \in NodeRow
           /\ \A d \in DOMAIN docs : d \in 1..lastDoc /\ docs[d] \in DocRow
                                     /\ docs[d].tree \in 1..lastDoc
           /\ lastDoc + 1 \notin DOMAIN docs /\ lastNode + 1 \notin DOMAIN nodes
<1>1. PICK h, t, c : Agree(h, t, c)
    BY DEF Inv
<1>2. /\ LedgerOK(h, t, c, lastDoc, lastNode) /\ DocsOK(docs, t, lastDoc)
      /\ NodesOK(nodes, h) /\ lastDoc \in Nat /\ lastNode \in Nat
      /\ ForeignKeys(docs, nodes)
    BY <1>1 DEF Agree, Inv
<1>3. \A n \in DOMAIN nodes : n \in 1..lastNode /\ nodes[n] \in NodeRow
    BY <1>2 DEF LedgerOK, NodesOK
<1>4. \A d \in DOMAIN docs : d \in 1..lastDoc /\ docs[d] \in DocRow /\ docs[d].tree \in 1..lastDoc
    BY <1>2 DEF LedgerOK, DocsOK
<1>5. lastDoc + 1 \notin 1..lastDoc /\ lastNode + 1 \notin 1..lastNode
    BY <1>2
<1> QED
    BY <1>2, <1>3, <1>4, <1>5

(* N2 is N with the rows in S retired and the rows new inserted.             *)
Retires(N, N2, S, new) ==
    /\ S \subseteq DOMAIN N
    /\ DOMAIN new \cap DOMAIN N = {}
    /\ DOMAIN N2 = DOMAIN N \cup DOMAIN new
    /\ \A m \in DOMAIN new : N2[m] = new[m]
    /\ \A n \in S : N2[n] = [N[n] EXCEPT !.current = FALSE]
    /\ \A n \in DOMAIN N \ S : N2[n] = N[n]

(* Saving and inserting rows, when the saved rows are those of the table.    *)
LEMMA ReplacedRetires ==
    ASSUME NEW mem, NEW new,
           \A n \in DOMAIN mem : n \in DOMAIN nodes /\ mem[n] = nodes[n],
           DOMAIN new \cap DOMAIN nodes = {}
    PROVE  Retires(nodes, Replaced(mem, new), DOMAIN mem, new)
<1> DEFINE N2 == Replaced(mem, new)
<1>1. DOMAIN N2 = DOMAIN nodes \cup DOMAIN new
    BY DEF Replaced, Put, Retired
<1>2. \A m \in DOMAIN new : N2[m] = new[m]
    BY DEF Replaced, Put
<1>3. ASSUME NEW n \in DOMAIN mem PROVE N2[n] = [nodes[n] EXCEPT !.current = FALSE]
    <2>1. n \in DOMAIN nodes /\ n \notin DOMAIN new /\ mem[n] = nodes[n]
        OBVIOUS
    <2> QED
        BY <2>1 DEF Replaced, Put, Retired
<1>4. ASSUME NEW n \in DOMAIN nodes \ DOMAIN mem PROVE N2[n] = nodes[n]
    <2>1. n \notin DOMAIN new
        OBVIOUS
    <2> QED
        BY <2>1 DEF Replaced, Put, Retired
<1> HIDE DEF N2
<1> QED
    BY <1>1, <1>2, <1>3, <1>4 DEF Retires, N2

(* A node that is superseded is retired, and one row comes in its place.     *)
LEMMA SupersedeRetires ==
    ASSUME Inv, NEW n \in DOMAIN nodes, NEW row, Supersede(n, row)
    PROVE  Retires(nodes, nodes', {n}, Row(lastNode + 1, [row EXCEPT !.parent = n]))
<1> DEFINE mem == Rows(nodes, {n})
           new == Row(lastNode + 1, [row EXCEPT !.parent = n])
<1>1. DOMAIN mem = {n} /\ mem[n] = nodes[n]
    BY DEF Rows
<1>2. DOMAIN new = {lastNode + 1}
    BY DEF Row
<1>3. nodes' = Replaced(mem, new)
    BY DEF Supersede
<1> HIDE DEF mem, new
<1>4. DOMAIN new \cap DOMAIN nodes = {}
    BY <1>2, InvRows
<1>5. Retires(nodes, nodes', DOMAIN mem, new)
    BY <1>1, <1>3, <1>4, ReplacedRetires
<1> QED
    BY <1>1, <1>5 DEF new

(* Retiring a row changes nothing but is_current.                            *)
LEMMA RetiredRow ==
    ASSUME NEW a \in NodeRow, NEW b, b = [a EXCEPT !.current = FALSE]
    PROVE  /\ b \in NodeRow /\ ~b.current
           /\ b.doc = a.doc /\ b.corpus = a.corpus /\ b.path = a.path
           /\ b.ver = a.ver /\ b.parent = a.parent /\ b.deleted = a.deleted
    BY DEF NodeRow

(* New rows are trashed, or one row comes in at a path that only the retired *)
(* rows may have.                                                            *)
LEMMA RetiresOnePerPath ==
    ASSUME NEW N, NEW N2, NEW S, NEW new, OnePerPath(N), Retires(N, N2, S, new),
           \A n \in DOMAIN N : N[n] \in NodeRow,
           \A m \in DOMAIN new :
              \/ new[m].deleted
              \/ /\ DOMAIN new = {m}
                 /\ \A x \in Active(N) \ S :
                       ~(N[x].corpus = new[m].corpus /\ N[x].path = new[m].path)
    PROVE  OnePerPath(N2)
<1>1. ASSUME NEW x \in Active(N2), x \notin DOMAIN new
      PROVE  x \in Active(N) \ S /\ N2[x] = N[x]
    <2>1. x \in DOMAIN N2 /\ N2[x].current /\ ~N2[x].deleted
        BY DEF Active
    <2>2. x \in DOMAIN N
        BY <1>1, <2>1 DEF Retires
    <2>3. x \notin S
        <3>1. ASSUME x \in S PROVE N2[x] = [N[x] EXCEPT !.current = FALSE]
            BY <3>1 DEF Retires
        <3> QED
            BY <2>1, <2>2, <3>1, RetiredRow
    <2>4. N2[x] = N[x]
        BY <2>2, <2>3 DEF Retires
    <2> QED
        BY <2>1, <2>2, <2>3, <2>4 DEF Active
<1>2. ASSUME NEW m \in Active(N2), NEW n \in Active(N2),
             N2[m].corpus = N2[n].corpus, N2[m].path = N2[n].path
      PROVE  m = n
    <2>1. CASE m \notin DOMAIN new /\ n \notin DOMAIN new
        BY <1>1, <1>2, <2>1 DEF OnePerPath
    <2>2. \A y \in DOMAIN new : N2[y] = new[y]
        BY DEF Retires
    <2>3. \A y \in DOMAIN new \cap Active(N2) :
            /\ DOMAIN new = {y}
            /\ \A x \in Active(N) \ S :
                  ~(N[x].corpus = N2[y].corpus /\ N[x].path = N2[y].path)
        BY <2>2 DEF Active
    <2> QED
        BY <1>1, <1>2, <2>1, <2>3
<1> QED
    BY <1>2 DEF OnePerPath

(* A locked request that supersedes one node and leaves the documents alone, *)
(* at the same path or at a path that is free but for this node.             *)
LEMMA SupersedeOnePerPath ==
    ASSUME Inv, OnePerPath(nodes), NEW n \in Active(nodes), NEW row \in NodeRow,
           Supersede(n, row), row.corpus = nodes[n].corpus,
           row.path = nodes[n].path \/ row.path \notin Occupied(nodes[n].corpus, {n})
    PROVE  OnePerPath(nodes')
<1> DEFINE r   == [row EXCEPT !.parent = n]
           new == Row(lastNode + 1, r)
<1>1. n \in DOMAIN nodes
    BY DEF Active
<1>2. r.corpus = row.corpus /\ r.path = row.path
    BY DEF NodeRow
<1>3. DOMAIN new = {lastNode + 1} /\ new[lastNode + 1] = r
    BY DEF Row
<1>4. Retires(nodes, nodes', {n}, new)
    BY <1>1, SupersedeRetires
<1> HIDE DEF new, r
<1>5. ASSUME NEW x \in Active(nodes) \ {n},
             nodes[x].corpus = row.corpus, nodes[x].path = row.path
      PROVE  FALSE
    <2>1. CASE row.path = nodes[n].path
        BY <1>5, <2>1 DEF OnePerPath
    <2>2. row.path \in Occupied(nodes[n].corpus, {n})
        BY <1>5 DEF Occupied
    <2> QED
        BY <2>1, <2>2
<1>6. ASSUME NEW m \in DOMAIN new
      PROVE  /\ DOMAIN new = {m}
             /\ \A x \in Active(nodes) \ {n} :
                   ~(nodes[x].corpus = new[m].corpus /\ nodes[x].path = new[m].path)
    <2>1. m = lastNode + 1 /\ new[m] = r
        BY <1>3
    <2> QED
        BY <1>2, <1>3, <1>5, <2>1
<1>7. \A x \in DOMAIN nodes : nodes[x] \in NodeRow
    BY InvRows
<1>8. \A m \in DOMAIN new :
         \/ new[m].deleted
         \/ /\ DOMAIN new = {m}
            /\ \A x \in Active(nodes) \ {n} :
                  ~(nodes[x].corpus = new[m].corpus /\ nodes[x].path = new[m].path)
    BY <1>6
<1> QED
    BY <1>4, <1>7, <1>8, RetiresOnePerPath

(* disambiguate_path returns a path that nobody has.                         *)
LEMMA DisambiguatedIsFree ==
    ASSUME NEW c, NEW p, NEW except, NEW q \in Disambiguated(c, p, except)
    PROVE  q \notin Occupied(c, except)
    BY DEF Disambiguated

(* import_document and add_document at a free path keep the constraints.     *)
LEMMA NewTreeSchema ==
    ASSUME Inv, SchemaOK(docs, nodes), NEW c \in Corpora, NEW p \in Path, NEW e \in Lineage,
           NewTree(c, p, e), p \notin Occupied(c, {})
    PROVE  SchemaOK(docs', nodes')
<1> DEFINE d   == lastDoc + 1
           row == [doc |-> d, corpus |-> c, path |-> p, ver |-> 1, parent |-> NULL,
                   deleted |-> FALSE, current |-> TRUE, ext |-> e]
           new == Row(lastNode + 1, row)
<1>1. Inv'
    BY NewTreeInv
<1>2. ParentsOK(docs) /\ OneCurrent(docs) /\ OnePerPath(nodes)
    BY SchemaParts
<1>3. /\ d \notin DOMAIN docs /\ lastNode + 1 \notin DOMAIN nodes /\ lastDoc \in Nat
      /\ \A x \in DOMAIN docs : docs[x].tree \in 1..lastDoc
      /\ \A n \in DOMAIN nodes : nodes[n] \in NodeRow
    BY InvRows
<1>4. /\ DOMAIN docs' = DOMAIN docs \cup {d}
      /\ docs'[d] = [tree |-> d, parent |-> NULL, current |-> TRUE]
      /\ \A x \in DOMAIN docs : docs'[x] = docs[x]
    BY <1>3 DEF NewTree, Put, Row
<1>5. ParentsOK(docs')
    BY <1>2, <1>4 DEF ParentsOK
<1>6. OneCurrent(docs')
    <2>1. \A x \in DOMAIN docs : docs[x].tree # d
        BY <1>3
    <2> HIDE DEF d
    <2> QED
        BY <1>2, <1>4, <2>1 DEF OneCurrent
<1>7. OnePerPath(nodes')
    <2>1. nodes' = Replaced(NoRows, new) /\ DOMAIN NoRows = {}
        BY DEF NewTree, NoRows
    <2>2. DOMAIN new = {lastNode + 1} /\ new[lastNode + 1] = row
        BY DEF Row
    <2>3. row.corpus = c /\ row.path = p
        OBVIOUS
    <2> HIDE DEF new, row
    <2>4. Retires(nodes, nodes', DOMAIN NoRows, new)
        BY <1>3, <2>1, <2>2, ReplacedRetires
    <2>5. \A x \in Active(nodes) : ~(nodes[x].corpus = c /\ nodes[x].path = p)
        BY DEF Occupied
    <2>6. \A m \in DOMAIN new : /\ DOMAIN new = {m}
                                /\ \A x \in Active(nodes) \ DOMAIN NoRows :
                                      ~(nodes[x].corpus = new[m].corpus /\ nodes[x].path = new[m].path)
        BY <2>2, <2>3, <2>5
    <2> QED
        BY <1>2, <1>3, <2>4, <2>6, RetiresOnePerPath
<1> QED
    BY <1>1, <1>5, <1>6, <1>7, SchemaParts, InvRows DEF Inv

(* A new version, the only current document of its tree, keeps the           *)
(* constraints.                                                              *)
LEMMA VersionUpSchema ==
    ASSUME Inv, SchemaOK(docs, nodes), NEW n \in Active(nodes), NEW e \in Lineage,
           VersionUp(n, nodes[n].doc, nodes[n].ver + 1, e)
    PROVE  SchemaOK(docs', nodes')
<1> DEFINE d    == lastDoc + 1
           tree == docs[nodes[n].doc].tree
           kin  == {x \in DOMAIN docs : docs[x].tree = tree}
           row  == [nodes[n] EXCEPT !.doc = d, !.ver = nodes[n].ver + 1,
                                    !.ext = IF e = NoExt THEN @ ELSE e]
<1>1. n \in DOMAIN nodes /\ nodes[n] \in NodeRow /\ nodes[n].doc \in DOMAIN docs
    BY InvRows DEF Active, ForeignKeys
<1>2. Inv'
    BY <1>1, VersionUpInv
<1>3. ParentsOK(docs) /\ OneCurrent(docs) /\ OnePerPath(nodes)
    BY SchemaParts
<1>4. d \notin DOMAIN docs /\ \A x \in DOMAIN docs : docs[x] \in DocRow
    BY InvRows
<1>5. docs' = Put(Put(docs, Retired(Rows(docs, kin))), Row(d,
                [tree |-> tree, parent |-> nodes[n].doc, current |-> TRUE]))
    BY DEF VersionUp
<1>6. /\ DOMAIN docs' = DOMAIN docs \cup {d}
      /\ docs'[d] = [tree |-> tree, parent |-> nodes[n].doc, current |-> TRUE]
    BY <1>5 DEF Put, Retired, Rows, Row
<1>7. ASSUME NEW x \in DOMAIN docs
      PROVE  docs'[x] = IF x \in kin THEN [docs[x] EXCEPT !.current = FALSE] ELSE docs[x]
    <2>1. x # d
        BY <1>4
    <2> HIDE DEF d
    <2> QED
        BY <1>5, <2>1 DEF Put, Retired, Rows, Row
<1>8. \A x \in DOMAIN docs : docs'[x].parent = docs[x].parent /\ docs'[x].tree = docs[x].tree
    BY <1>4, <1>7 DEF DocRow
<1>9. ParentsOK(docs')
    BY <1>1, <1>3, <1>6, <1>8 DEF ParentsOK
<1>10. OneCurrent(docs')
    <2>1. \A x \in kin : ~docs'[x].current
        BY <1>4, <1>7 DEF DocRow
    <2>2. \A x \in DOMAIN docs \ kin : docs'[x] = docs[x] /\ docs[x].tree # tree
        BY <1>7
    <2> HIDE DEF kin, d, tree
    <2> QED
        BY <1>3, <1>6, <2>1, <2>2 DEF OneCurrent
<1>11. OnePerPath(nodes')
    <2>1. Supersede(n, row)
        BY DEF VersionUp
    <2>2. d \in Nat /\ nodes[n].ver + 1 \in Nat
        BY <1>1, InvRows DEF NodeRow
    <2>3. (IF e = NoExt THEN nodes[n].ext ELSE e) \in Lineage
        BY <1>1 DEF NodeRow
    <2>4. row = [nodes[n] EXCEPT !.doc = d, !.ver = nodes[n].ver + 1,
                            !.ext = IF e = NoExt THEN nodes[n].ext ELSE e]
        BY <1>1 DEF NodeRow
    <2> HIDE DEF row, d
    <2>5. row \in NodeRow /\ row.corpus = nodes[n].corpus /\ row.path = nodes[n].path
        BY <1>1, <2>2, <2>3, <2>4 DEF NodeRow
    <2> QED
        BY <1>3, <2>1, <2>5, SupersedeOnePerPath
<1> QED
    BY <1>2, <1>9, <1>10, <1>11, SchemaParts, InvRows DEF Inv

(* A locked request that writes no document keeps the constraints when no    *)
(* other active node is at the path it writes.                               *)
LEMMA SameDocSchema ==
    ASSUME Inv, SchemaOK(docs, nodes), NEW n \in Active(nodes), NEW row \in NodeRow,
           row.doc = nodes[n].doc, row.corpus = nodes[n].corpus, row.ver = nodes[n].ver,
           Supersede(n, row), UNCHANGED <<docs, lastDoc>>,
           row.path = nodes[n].path \/ row.path \notin Occupied(nodes[n].corpus, {n})
    PROVE  SchemaOK(docs', nodes')
<1>1. n \in DOMAIN nodes
    BY DEF Active
<1>2. Inv'
    BY <1>1, SameDocInv
<1>3. ParentsOK(docs) /\ OneCurrent(docs) /\ OnePerPath(nodes)
    BY SchemaParts
<1>4. OnePerPath(nodes')
    BY <1>3, SupersedeOnePerPath
<1>5. ForeignKeys(docs', nodes')
    BY <1>2 DEF Inv
<1> QED
    BY <1>3, <1>4, <1>5, SchemaParts

(* The rows that a request records as metadata, or moves or renames.         *)
LEMMA RecordedRow ==
    ASSUME NEW a \in NodeRow, NEW e \in Lineage
    PROVE  LET row == [a EXCEPT !.ext = IF e = NoExt THEN @ ELSE e] IN
           /\ row \in NodeRow /\ row.doc = a.doc /\ row.corpus = a.corpus
           /\ row.ver = a.ver /\ row.path = a.path /\ row.deleted = a.deleted
           /\ row.current = a.current
    BY DEF NodeRow

(* A row written at another path is still a row.                             *)
LEMMA RelocatedRow ==
    ASSUME NEW a \in NodeRow, NEW q \in Path
    PROVE  LET row == [a EXCEPT !.path = q, !.ext = NoExt] IN
           /\ row \in NodeRow /\ row.doc = a.doc /\ row.corpus = a.corpus
           /\ row.ver = a.ver /\ row.path = q /\ row.deleted = a.deleted
           /\ row.current = a.current
    BY DEF NodeRow, Lineage

(* A metadata update recorded as a node of its own stays at the path it      *)
(* supersedes.                                                               *)
LEMMA RecordMetadataSchema ==
    ASSUME Inv, SchemaOK(docs, nodes), NEW c, NEW p, NEW e \in Lineage, RecordMetadata(c, p, e)
    PROVE  SchemaOK(docs', nodes')
<1> DEFINE row(n) == [nodes[n] EXCEPT !.ext = IF e = NoExt THEN @ ELSE e]
<1>1. PICK n \in Active(nodes) : Supersede(n, row(n)) /\ UNCHANGED <<docs, lastDoc>>
    BY DEF RecordMetadata, ActiveAt
<1>2. nodes[n] \in NodeRow
    BY InvRows DEF Active
<1>3. /\ row(n) \in NodeRow /\ row(n).doc = nodes[n].doc /\ row(n).corpus = nodes[n].corpus
      /\ row(n).ver = nodes[n].ver /\ row(n).path = nodes[n].path
    BY <1>2, RecordedRow
<1> HIDE DEF row
<1> QED
    BY <1>1, <1>3, SameDocSchema

(* A move or a rename writes a path that disambiguation has found free.      *)
LEMMA RelocateSchema ==
    ASSUME Inv, SchemaOK(docs, nodes), NEW n \in Active(nodes), NEW base \in Path,
           Relocate(n, base)
    PROVE  SchemaOK(docs', nodes')
<1> DEFINE row(q) == [nodes[n] EXCEPT !.path = q, !.ext = NoExt]
<1>1. PICK q \in Disambiguated(nodes[n].corpus, base, {n}) :
            Supersede(n, row(q)) /\ UNCHANGED <<docs, lastDoc>>
    BY DEF Relocate
<1>2. q \in Path /\ q \notin Occupied(nodes[n].corpus, {n})
    BY DisambiguatedIsPath, DisambiguatedIsFree
<1>3. nodes[n] \in NodeRow
    BY InvRows DEF Active
<1>4. /\ row(q) \in NodeRow /\ row(q).doc = nodes[n].doc /\ row(q).corpus = nodes[n].corpus
      /\ row(q).ver = nodes[n].ver /\ row(q).path = q
    BY <1>2, <1>3, RelocatedRow
<1> HIDE DEF row
<1> QED
    BY <1>1, <1>2, <1>4, SameDocSchema

(* Metadata written in place.                                                *)
LEMMA ImportMetadataRows ==
    ASSUME Inv, NEW c, NEW p, NEW e, ImportMetadata(c, p, e)
    PROVE  /\ DOMAIN nodes' = DOMAIN nodes /\ docs' = docs /\ op' = op
           /\ lastDoc' = lastDoc /\ lastNode' = lastNode
           /\ \A x \in DOMAIN nodes :
                 /\ SameRow(nodes'[x], nodes[x])
                 /\ nodes'[x].current = nodes[x].current
<1>1. PICK n \in ActiveAt(c, p) :
        /\ nodes' = [nodes EXCEPT ![n].ext = e]
        /\ UNCHANGED <<docs, lastDoc, lastNode, op>>
    BY DEF ImportMetadata
<1>2. ASSUME NEW x \in DOMAIN nodes
      PROVE  SameRow(nodes'[x], nodes[x]) /\ nodes'[x].current = nodes[x].current
    <2>1. nodes[x] \in NodeRow
        BY InvRows
    <2>2. nodes'[x] = nodes[x] \/ nodes'[x] = [nodes[x] EXCEPT !.ext = e]
        BY <1>1
    <2> QED
        BY <2>1, <2>2 DEF NodeRow, SameRow
<1> QED
    BY <1>1, <1>2

(* A metadata update in place changes the lineage of one row, and no path.   *)
LEMMA ImportMetadataSchema ==
    ASSUME Inv, SchemaOK(docs, nodes), NEW c, NEW p, NEW e, ImportMetadata(c, p, e)
    PROVE  SchemaOK(docs', nodes')
<1>1. Inv'
    BY ImportMetadataInv
<1>2. ParentsOK(docs) /\ OneCurrent(docs) /\ OnePerPath(nodes)
    BY SchemaParts
<1>3. Active(nodes') = Active(nodes)
    BY ImportMetadataRows DEF Active, SameRow
<1>4. \A x \in Active(nodes) : nodes'[x].corpus = nodes[x].corpus /\ nodes'[x].path = nodes[x].path
    BY ImportMetadataRows DEF Active, SameRow
<1>5. OnePerPath(nodes')
    BY <1>2, <1>3, <1>4 DEF OnePerPath
<1> QED
    BY <1>1, <1>2, <1>5, ImportMetadataRows, SchemaParts DEF Inv

(* Trash nodes: row is the trashed successor of node n of the table.         *)
TrashOf(row, n) ==
    /\ row.parent = n /\ row.deleted /\ row.current
    /\ row.doc = nodes[n].doc /\ row.corpus = nodes[n].corpus
    /\ row.path = nodes[n].path /\ row.ver = nodes[n].ver

(* Trashing retires every row of mem, and the rows that come in are deleted  *)
(* ones.                                                                     *)
LEMMA TrashRetires ==
    ASSUME Inv, NEW mem, \A n \in DOMAIN mem : n \in DOMAIN nodes /\ mem[n] = nodes[n]
    PROVE  /\ Retires(nodes, Replaced(mem, TrashNodes(mem)), DOMAIN mem, TrashNodes(mem))
           /\ DOMAIN TrashNodes(mem) = {NewId(mem, n) : n \in DOMAIN mem}
           /\ \A n \in DOMAIN mem :
                 /\ TrashOf(TrashNodes(mem)[NewId(mem, n)], n)
                 /\ NewId(mem, n) > lastNode
           /\ \A m, n \in DOMAIN mem : NewId(mem, m) = NewId(mem, n) => m = n
<1>1. /\ lastNode \in Nat /\ DOMAIN mem \subseteq 1..lastNode
      /\ \A n \in DOMAIN nodes : n \in 1..lastNode /\ nodes[n] \in NodeRow
    BY InvRows
<1>2. /\ DOMAIN TrashNodes(mem) = {NewId(mem, n) : n \in DOMAIN mem}
      /\ \A n \in DOMAIN mem :
            TrashNodes(mem)[NewId(mem, n)] =
               [mem[n] EXCEPT !.parent = n, !.deleted = TRUE, !.current = TRUE, !.ext = NoExt]
    BY <1>1, TrashNodesFacts
<1>3. /\ \A n \in DOMAIN mem :
             NewId(mem, n) \in (lastNode + 1)..(lastNode + Cardinality(DOMAIN mem))
      /\ \A m, n \in DOMAIN mem : NewId(mem, m) = NewId(mem, n) => m = n
      /\ Cardinality(DOMAIN mem) \in Nat
    BY <1>1, NewIdFacts
<1>4. ASSUME NEW n \in DOMAIN mem PROVE NewId(mem, n) > lastNode
    <2> DEFINE k == Cardinality(DOMAIN mem)
               i == NewId(mem, n)
    <2>1. i \in (lastNode + 1)..(lastNode + k) /\ k \in Nat /\ lastNode \in Nat
        BY <1>1, <1>3
    <2> HIDE DEF k, i
    <2>2. i > lastNode
        BY <2>1
    <2> QED
        BY <2>2 DEF i
<1>5. DOMAIN TrashNodes(mem) \cap DOMAIN nodes = {}
    <2> SUFFICES ASSUME NEW x \in DOMAIN TrashNodes(mem), x \in DOMAIN nodes PROVE FALSE
        OBVIOUS
    <2>1. PICK n \in DOMAIN mem : x = NewId(mem, n)
        BY <1>2
    <2>2. x > lastNode /\ x \in 1..lastNode
        BY <1>1, <1>4, <2>1
    <2> QED
        BY <1>1, <2>2
<1>6. ASSUME NEW n \in DOMAIN mem PROVE TrashOf(TrashNodes(mem)[NewId(mem, n)], n)
    <2> DEFINE row == TrashNodes(mem)[NewId(mem, n)]
    <2>1. row = [nodes[n] EXCEPT !.parent = n, !.deleted = TRUE, !.current = TRUE, !.ext = NoExt]
        BY <1>2
    <2>2. nodes[n] \in NodeRow
        BY <1>1
    <2> HIDE DEF row
    <2>3. TrashOf(row, n)
        BY <2>1, <2>2 DEF TrashOf, NodeRow
    <2> QED
        BY <2>3 DEF row
<1> QED
    BY <1>2, <1>3, <1>4, <1>5, <1>6, ReplacedRetires

(* Emptying a corpus frees paths and takes none.                             *)
LEMMA BulkSoftDeleteSchema ==
    ASSUME Inv, SchemaOK(docs, nodes), NEW c, NEW ds, BulkSoftDelete(c, ds)
    PROVE  SchemaOK(docs', nodes')
<1> DEFINE mem == Rows(nodes, UNION {ActiveOf(d, c) : d \in ds})
           new == TrashNodes(mem)
<1>1. Inv'
    BY BulkSoftDeleteInv
<1>2. ParentsOK(docs) /\ OneCurrent(docs) /\ OnePerPath(nodes)
    BY SchemaParts
<1>3. nodes' = Replaced(mem, new) /\ docs' = docs
    BY DEF BulkSoftDelete
<1>4. \A n \in DOMAIN mem : n \in DOMAIN nodes /\ mem[n] = nodes[n]
    BY DEF Rows
<1> HIDE DEF mem
<1>5. Retires(nodes, nodes', DOMAIN mem, new) /\ \A m \in DOMAIN new : new[m].deleted
    <2>1. /\ Retires(nodes, Replaced(mem, TrashNodes(mem)), DOMAIN mem, TrashNodes(mem))
          /\ DOMAIN TrashNodes(mem) = {NewId(mem, n) : n \in DOMAIN mem}
          /\ \A n \in DOMAIN mem : TrashOf(TrashNodes(mem)[NewId(mem, n)], n)
        BY <1>4, TrashRetires
    <2>2. ASSUME NEW m \in DOMAIN new PROVE new[m].deleted
        <3>1. PICK n \in DOMAIN mem : m = NewId(mem, n)
            BY <2>1
        <3> QED
            BY <2>1, <3>1 DEF TrashOf
    <2> QED
        BY <1>3, <2>1, <2>2
<1>6. \A n \in DOMAIN nodes : nodes[n] \in NodeRow
    BY InvRows
<1> HIDE DEF new
<1>7. OnePerPath(nodes')
    BY <1>2, <1>5, <1>6, RetiresOnePerPath
<1> QED
    BY <1>1, <1>2, <1>3, <1>7, SchemaParts DEF Inv

(* Every locked request keeps the constraints, although nothing checks them. *)
LEMMA LockedRequestSchema ==
    ASSUME Inv, SchemaOK(docs, nodes), LockedRequest
    PROVE  SchemaOK(docs', nodes')
<1>1. \A n \in DOMAIN nodes : nodes[n] \in NodeRow
    BY InvRows
<1>2. PICK cp \in Corpora :
        \/ \E dir \in Dirs, name \in Names, e \in Lineage :
              LET p == [dir |-> dir, name |-> name, sfx |-> <<>>]
              IN  ImportNew(cp, p, e) \/ AddDocument(cp, p, e)
        \/ \E n \in Active(nodes), e \in Lineage :
              \/ ImportVersion(cp, nodes[n].path, e)
              \/ ImportMetadata(cp, nodes[n].path, e)
              \/ RecordMetadata(cp, nodes[n].path, e)
        \/ \E d \in DOMAIN docs :
              \/ \E dir \in Dirs : MoveToFolder(d, cp, dir)
              \/ \E name \in Names : Rename(d, cp, name)
        \/ EmptyCorpus(cp)
    BY DEF LockedRequest
<1>3. ASSUME NEW p \in Path, NEW e \in Lineage, ImportNew(cp, p, e)
      PROVE  SchemaOK(docs', nodes')
    <2>1. p \notin Occupied(cp, {})
        BY <1>3 DEF ImportNew, ActiveAt, Occupied
    <2> QED
        BY <1>3, <2>1, NewTreeSchema DEF ImportNew
<1>4. ASSUME NEW p \in Path, NEW e \in Lineage, AddDocument(cp, p, e)
      PROVE  SchemaOK(docs', nodes')
    <2>1. PICK q \in Disambiguated(cp, p, {}) : NewTree(cp, q, e)
        BY <1>4 DEF AddDocument
    <2>2. q \in Path /\ q \notin Occupied(cp, {})
        BY DisambiguatedIsPath, DisambiguatedIsFree
    <2> QED
        BY <2>1, <2>2, NewTreeSchema
<1>5. ASSUME NEW p, NEW e \in Lineage, ImportVersion(cp, p, e)
      PROVE  SchemaOK(docs', nodes')
    <2>1. PICK n \in ActiveAt(cp, p) : VersionUp(n, nodes[n].doc, nodes[n].ver + 1, e)
        BY <1>5 DEF ImportVersion
    <2>2. n \in Active(nodes)
        BY DEF ActiveAt
    <2> QED
        BY <2>1, <2>2, VersionUpSchema
<1>6. ASSUME NEW p, NEW e \in Lineage, ImportMetadata(cp, p, e)
      PROVE  SchemaOK(docs', nodes')
    BY <1>6, ImportMetadataSchema
<1>7. ASSUME NEW p, NEW e \in Lineage, RecordMetadata(cp, p, e)
      PROVE  SchemaOK(docs', nodes')
    BY <1>7, RecordMetadataSchema
<1>8. ASSUME NEW d, NEW dir \in Dirs, MoveToFolder(d, cp, dir)
      PROVE  SchemaOK(docs', nodes')
    <2>1. PICK n \in ActiveOf(d, cp) : Relocate(n, [nodes[n].path EXCEPT !.dir = dir])
        BY <1>8 DEF MoveToFolder, First
    <2>2. n \in Active(nodes) /\ nodes[n].path \in Path
        BY <1>1 DEF ActiveOf, Active, NodeRow
    <2>3. [nodes[n].path EXCEPT !.dir = dir] \in Path
        BY <2>2 DEF Path
    <2> QED
        BY <2>1, <2>2, <2>3, RelocateSchema
<1>9. ASSUME NEW d, NEW name \in Names, Rename(d, cp, name)
      PROVE  SchemaOK(docs', nodes')
    <2> DEFINE base(n) == [nodes[n].path EXCEPT !.name = name, !.sfx = <<>>]
    <2>1. PICK n \in ActiveOf(d, cp) : Relocate(n, base(n))
        BY <1>9 DEF Rename, First
    <2>2. n \in Active(nodes) /\ nodes[n].path \in Path
        BY <1>1 DEF ActiveOf, Active, NodeRow
    <2>3. base(n) \in Path
        <3>1. <<>> \in Seq(Nat)
            OBVIOUS
        <3> QED
            BY <2>2, <3>1 DEF Path
    <2> HIDE DEF base
    <2> QED
        BY <2>1, <2>2, <2>3, RelocateSchema
<1>10. ASSUME EmptyCorpus(cp) PROVE SchemaOK(docs', nodes')
    BY <1>10, BulkSoftDeleteSchema DEF EmptyCorpus
<1>11. \A dir \in Dirs, name \in Names : [dir |-> dir, name |-> name, sfx |-> <<>>] \in Path
    BY DEF Path
<1> QED
    BY <1>2, <1>3, <1>4, <1>5, <1>6, <1>7, <1>8, <1>9, <1>10, <1>11

(* A commit is checked, or it is rolled back.                                *)
LEMMA FinishSchema ==
    ASSUME SchemaOK(docs, nodes), NEW r, NEW D, NEW N, NEW i, NEW j, Finish(r, D, N, i, j)
    PROVE  SchemaOK(docs', nodes')
    <1>1. CASE SchemaOK(D, N)
        BY <1>1 DEF Finish
    <1>2. CASE ~SchemaOK(D, N)
        BY <1>2 DEF Finish
    <1> QED
        BY <1>1, <1>2

(* Whatever requests overlap, no step breaks the constraints: a commit that  *)
(* would is rolled back, and a locked request cannot.                        *)
LEMMA NextSchema == Inv /\ SchemaOK(docs, nodes) /\ [Next]_vars => SchemaOK(docs', nodes')
<1> SUFFICES ASSUME Inv, SchemaOK(docs, nodes), [Next]_vars PROVE SchemaOK(docs', nodes')
    OBVIOUS
<1>1. CASE LockedRequest
    BY <1>1, LockedRequestSchema
<1>2. ASSUME docs' = docs, nodes' = nodes PROVE SchemaOK(docs', nodes')
    BY <1>2
<1>3. ASSUME NEW r \in Requests, StartRequest(r) PROVE SchemaOK(docs', nodes')
    BY <1>2, <1>3 DEF StartRequest, StartRestoreVersion, StartSoftDelete, StartRemove,
                      StartRestore, StartPurge, Start
<1>4. ASSUME NEW r \in Requests, Fail(r) PROVE SchemaOK(docs', nodes')
    BY <1>2, <1>4 DEF Fail
<1>5. ASSUME NEW r \in Requests, CommitRequest(r) PROVE SchemaOK(docs', nodes')
    <2>1. CASE CommitSoftDelete(r)
        BY <2>1, FinishSchema DEF CommitSoftDelete
    <2>2. CASE CommitRemove(r)
        BY <1>4, <2>2, FinishSchema DEF CommitRemove
    <2>3. CASE CommitRestore(r)
        BY <1>4, <2>3, FinishSchema DEF CommitRestore
    <2>4. CASE \E cp \in Corpora : ReadVersionPath(r, cp)
        BY <1>2, <1>4, <2>4 DEF ReadVersionPath
    <2>5. CASE CommitRestoreVersion(r)
        BY <2>5, FinishSchema DEF CommitRestoreVersion
    <2>6. CASE CommitPurge(r)
        BY <2>6, FinishSchema DEF CommitPurge
    <2> QED
        BY <1>4, <1>5, <2>1, <2>2, <2>3, <2>4, <2>5, <2>6 DEF CommitRequest
<1>6. CASE UNCHANGED vars
    BY <1>2, <1>6 DEF vars
<1> QED
    BY <1>1, <1>3, <1>5, <1>6 DEF Next

-----------------------------------------------------------------------------
(* Requests that keep apart.  Nothing changes between what a request reads   *)
(* and what it writes, so the version trees form a forest.                   *)

(* The version tree of path node n in the tables D and N, and the nodes that *)
(* are current.                                                              *)
TreeIn(D, N, n) == D[N[n].doc].tree
Heads(N) == {n \in DOMAIN N : N[n].current}

(* A document's parent is an older document of its version tree, and so is   *)
(* the document of a node's parent.                                          *)
DocTrees(D) ==
    \A d \in DOMAIN D : D[d].parent # NULL =>
        /\ D[d].parent \in DOMAIN D /\ D[d].parent < d
        /\ D[D[d].parent].tree = D[d].tree

NodeTrees(D, N) ==
    \A n \in DOMAIN N : N[n].parent # NULL => TreeIn(D, N, N[n].parent) = TreeIn(D, N, n)

(* OneHeadPerTree, for any tables.                                           *)
OneHead(D, N) ==
    /\ \A m, n \in Heads(N) : TreeIn(D, N, m) = TreeIn(D, N, n) => m = n
    /\ \A n \in Heads(N) : D[N[n].doc].current

(* A path has no more suffixes than its node has ancestors.                  *)
ShortPaths(N) ==
    \A n \in DOMAIN N : /\ N[n].path.sfx \in Seq(1..MaxSuffix)
                        /\ Len(N[n].path.sfx) <= n

(* f[d] counts the ancestors of document d and d itself, and the path nodes  *)
(* agree with it.                                                            *)
Depths(D, N, f) ==
    /\ \A d \in DOMAIN D : /\ f[d] \in Nat
                           /\ f[d] = IF D[d].parent = NULL THEN 1
                                                          ELSE 1 + f[D[d].parent]
    /\ \A n \in DOMAIN N : N[n].ver = f[N[n].doc]

Forest(D, N) ==
    /\ DocTrees(D) /\ NodeTrees(D, N) /\ OneHead(D, N) /\ ShortPaths(N)
    /\ \E f : Depths(D, N, f)

(* What a request in flight has read is still what the tables hold, as long  *)
(* as nobody else writes to its version tree.                                *)
Fresh(o, D, N) ==
    /\ \A d \in DOMAIN o.docs : d \in DOMAIN D /\ D[d] = o.docs[d]
    /\ \A n \in DOMAIN o.nodes : n \in DOMAIN N /\ N[n] = o.nodes[n]
    /\ o.kind \in {"soft_delete", "remove"} =>
          \A n \in DOMAIN o.nodes :
             o.nodes[n].current /\ ~o.nodes[n].deleted /\ o.nodes[n].doc = o.doc
    /\ o.kind = "restore" => \A n \in DOMAIN o.nodes : o.nodes[n].current /\ o.nodes[n].deleted
    /\ o.kind \in {"read_version", "restore_version"} =>
          DOMAIN o.docs = {o.doc} /\ o.docs[o.doc].current
    /\ o.kind = "restore_version" => \A n \in DOMAIN o.nodes : ~o.nodes[n].deleted
    /\ o.kind = "purge" =>
          /\ \A n \in DOMAIN o.nodes : o.nodes[n].doc = o.doc
          /\ \E n \in DOMAIN o.nodes : o.nodes[n].current /\ o.nodes[n].deleted

ApartInv ==
    /\ SchemaOK(docs, nodes) /\ Forest(docs, nodes)
    /\ lastDoc <= MaxDocs /\ lastNode <= MaxNodes
    /\ \A r \in Requests : Fresh(op[r], docs, nodes)

-----------------------------------------------------------------------------
(* Heads that give way to successors.                                        *)

(* In N2 the heads S of N are retired, and each has one successor in B.      *)
Succeeds(N, N2, S, B) ==
    /\ S \subseteq Heads(N) /\ B \cap DOMAIN N = {} /\ DOMAIN N2 = DOMAIN N \cup B
    /\ \A n \in DOMAIN N : /\ SameRow(N2[n], N[n])
                           /\ N2[n].current <=> N[n].current /\ n \notin S
    /\ \A m \in B : N2[m].current /\ N2[m].parent \in S /\ N2[m].parent < m
    /\ \A m, n \in B : N2[m].parent = N2[n].parent => m = n
    /\ \A n \in S : \E m \in B : N2[m].parent = n

(* The head that n was, or that n took over from.                            *)
Origin(N2, B, n) == IF n \in B THEN N2[n].parent ELSE n

(* The heads are one to one with what they come from.                        *)
LEMMA OriginFacts ==
    ASSUME NEW N, NEW N2, NEW S, NEW B, Succeeds(N, N2, S, B)
    PROVE  /\ \A n \in Heads(N2) : Origin(N2, B, n) \in Heads(N)
           /\ \A m, n \in Heads(N2) : Origin(N2, B, m) = Origin(N2, B, n) => m = n
           /\ \A n \in Heads(N) : \E m \in Heads(N2) : Origin(N2, B, m) = n
           /\ \A n \in Heads(N) \ S : n \in Heads(N2) /\ n \notin B
           /\ B \subseteq Heads(N2)
           /\ \A n \in Heads(N2) \ B : n \in Heads(N) \ S
<1>1. ASSUME NEW n \in Heads(N2), n \notin B PROVE n \in Heads(N) \ S
    BY <1>1 DEF Succeeds, Heads
<1>2. ASSUME NEW n \in Heads(N) \ S PROVE n \in Heads(N2) /\ n \notin B
    BY DEF Succeeds, Heads
<1>3. B \subseteq Heads(N2)
    BY DEF Succeeds, Heads
<1>4. \A n \in B : N2[n].parent \in S /\ N2[n].parent \in Heads(N)
    BY DEF Succeeds
<1>5. \A n \in Heads(N2) : Origin(N2, B, n) \in Heads(N)
    BY <1>1, <1>4 DEF Origin
<1>6. ASSUME NEW m \in Heads(N2), NEW n \in Heads(N2), Origin(N2, B, m) = Origin(N2, B, n)
      PROVE  m = n
    <2>1. m \in B <=> n \in B
        BY <1>1, <1>4, <1>6 DEF Origin
    <2> QED
        BY <1>6, <2>1 DEF Origin, Succeeds
<1>7. ASSUME NEW n \in Heads(N) PROVE \E m \in Heads(N2) : Origin(N2, B, m) = n
    <2>1. CASE n \in S
        <3>1. PICK m \in B : N2[m].parent = n
            BY <2>1 DEF Succeeds
        <3> QED
            BY <1>3, <3>1 DEF Origin
    <2>2. CASE n \notin S
        BY <1>2, <2>2 DEF Origin
    <2> QED
        BY <2>1, <2>2
<1> QED
    BY <1>1, <1>2, <1>3, <1>5, <1>6, <1>7

(* Rows retired and inserted, seen as heads that give way.                   *)
LEMMA RetiresSucceeds ==
    ASSUME NEW N, NEW N2, NEW S, NEW new, Retires(N, N2, S, new), S \subseteq Heads(N),
           \A n \in DOMAIN N : N[n] \in NodeRow,
           \A m \in DOMAIN new : new[m].current /\ new[m].parent \in S /\ new[m].parent < m,
           \A m, n \in DOMAIN new : new[m].parent = new[n].parent => m = n,
           \A n \in S : \E m \in DOMAIN new : new[m].parent = n
    PROVE  Succeeds(N, N2, S, DOMAIN new)
<1>1. ASSUME NEW n \in DOMAIN N
      PROVE  SameRow(N2[n], N[n]) /\ (N2[n].current <=> N[n].current /\ n \notin S)
    <2>1. CASE n \in S
        <3>1. N2[n] = [N[n] EXCEPT !.current = FALSE]
            BY <2>1 DEF Retires
        <3> QED
            BY <2>1, <3>1, RetiredRow DEF SameRow
    <2>2. CASE n \notin S
        <3>1. N2[n] = N[n]
            BY <2>2 DEF Retires
        <3> QED
            BY <2>2, <3>1 DEF SameRow
    <2> QED
        BY <2>1, <2>2
<1>2. /\ DOMAIN new \cap DOMAIN N = {} /\ DOMAIN N2 = DOMAIN N \cup DOMAIN new
      /\ \A m \in DOMAIN new : N2[m] = new[m]
    BY DEF Retires
<1> QED
    BY <1>1, <1>2 DEF Succeeds

(* The successors are in the version trees of the heads they take over from. *)
Follows(D, N, D2, N2, S, B) ==
    /\ Succeeds(N, N2, S, B)
    /\ \A n \in Heads(N2) : TreeIn(D2, N2, n) = TreeIn(D, N, Origin(N2, B, n))

FollowsOne(D, N, D2, N2, s, b) == Follows(D, N, D2, N2, {s}, {b})

(* The successors keep the trees apart.                                      *)
LEMMA SuccessorsOneHead ==
    ASSUME NEW D, NEW N, NEW D2, NEW N2, NEW S, NEW B,
           Follows(D, N, D2, N2, S, B), OneHead(D, N),
           \A n \in Heads(N2) : D2[N2[n].doc].current
    PROVE  OneHead(D2, N2)
<1>1. ASSUME NEW m \in Heads(N2), NEW n \in Heads(N2), TreeIn(D2, N2, m) = TreeIn(D2, N2, n)
      PROVE  m = n
    <2> USE DEF Follows
    <2>1. Origin(N2, B, m) \in Heads(N) /\ Origin(N2, B, n) \in Heads(N)
        BY OriginFacts
    <2>2. TreeIn(D, N, Origin(N2, B, m)) = TreeIn(D, N, Origin(N2, B, n))
        BY <1>1
    <2>3. Origin(N2, B, m) = Origin(N2, B, n)
        BY <2>1, <2>2 DEF OneHead
    <2> QED
        BY <2>3, OriginFacts
<1> QED
    BY <1>1 DEF OneHead

(* A successor's path may have one suffix more than its parent's.            *)
LEMMA SuccessorsShortPaths ==
    ASSUME NEW N, NEW N2, NEW S, NEW B, Succeeds(N, N2, S, B), ShortPaths(N),
           \A n \in DOMAIN N2 : n \in Nat,
           \A m \in B : /\ N2[m].path.sfx \in Seq(1..MaxSuffix)
                        /\ Len(N2[m].path.sfx) <= Len(N[N2[m].parent].path.sfx) + 1
    PROVE  ShortPaths(N2)
<1>1. ASSUME NEW n \in DOMAIN N
      PROVE  N2[n].path.sfx \in Seq(1..MaxSuffix) /\ Len(N2[n].path.sfx) <= n
    <2>1. N2[n].path = N[n].path
        BY DEF Succeeds, SameRow
    <2> QED
        BY <2>1 DEF ShortPaths
<1>2. ASSUME NEW m \in B
      PROVE  N2[m].path.sfx \in Seq(1..MaxSuffix) /\ Len(N2[m].path.sfx) <= m
    <2> DEFINE p == N2[m].parent
    <2>1. p \in DOMAIN N /\ p < m /\ m \in DOMAIN N2 /\ p \in DOMAIN N2
        BY DEF Succeeds, Heads
    <2>2. Len(N[p].path.sfx) <= p /\ N[p].path.sfx \in Seq(1..MaxSuffix)
        BY <2>1 DEF ShortPaths
    <2>3. Len(N2[m].path.sfx) \in Nat /\ Len(N[p].path.sfx) \in Nat
        BY <2>2
    <2> QED
        BY <2>1, <2>2, <2>3
<1> QED
    BY <1>1, <1>2 DEF Succeeds, ShortPaths

(* Rows that the foreign keys tie together.                                  *)
LEMMA RowsTied ==
    ASSUME NEW D, NEW N, ForeignKeys(D, N), NEW n \in DOMAIN N
    PROVE  N[n].doc \in DOMAIN D /\ (N[n].parent # NULL => N[n].parent \in DOMAIN N)
    BY DEF ForeignKeys

(* Successors that show the same documents: metadata, moves, trash, restore. *)
LEMMA SameDocsForest ==
    ASSUME NEW D, NEW N, NEW N2, NEW S, NEW B,
           Forest(D, N), ForeignKeys(D, N), Succeeds(N, N2, S, B), ShortPaths(N2),
           \A n \in DOMAIN N2 : n \in Nat \ {NULL},
           \A m \in B : /\ N2[m].doc = N[N2[m].parent].doc
                        /\ N2[m].ver = N[N2[m].parent].ver
    PROVE  Forest(D, N2) /\ Follows(D, N, D, N2, S, B)
<1>1. \A n \in DOMAIN N : TreeIn(D, N2, n) = TreeIn(D, N, n) /\ N2[n].doc = N[n].doc
                          /\ N2[n].parent = N[n].parent /\ N2[n].ver = N[n].ver
    BY DEF Succeeds, SameRow, TreeIn
<1>2. \A m \in B : /\ N2[m].parent \in DOMAIN N
                   /\ TreeIn(D, N2, m) = TreeIn(D, N, N2[m].parent)
    BY DEF Succeeds, Heads, TreeIn
<1>3. DOMAIN N2 = DOMAIN N \cup B
    BY DEF Succeeds
<1>4. NodeTrees(D, N2)
    <2>1. ASSUME NEW n \in DOMAIN N, N[n].parent # NULL
          PROVE  TreeIn(D, N2, N2[n].parent) = TreeIn(D, N2, n)
        BY <1>1, <2>1, RowsTied DEF Forest, NodeTrees
    <2> QED
        BY <1>1, <1>2, <1>3, <2>1 DEF NodeTrees
<1>5. \A n \in Heads(N2) : TreeIn(D, N2, n) = TreeIn(D, N, Origin(N2, B, n))
                           /\ N2[n].doc = N[Origin(N2, B, n)].doc
    BY <1>1, <1>2, OriginFacts DEF Origin, Heads
<1>6. Follows(D, N, D, N2, S, B)
    BY <1>5 DEF Follows
<1>7. OneHead(D, N2)
    <2>1. \A n \in Heads(N2) : D[N2[n].doc].current
        BY <1>5, OriginFacts DEF Forest, OneHead
    <2> QED
        BY <1>6, <2>1, SuccessorsOneHead DEF Forest
<1>8. PICK f : Depths(D, N, f)
    BY DEF Forest
<1>9. \A n \in DOMAIN N2 : N2[n].ver = f[N2[n].doc]
    BY <1>1, <1>2, <1>3, <1>8 DEF Depths
<1>10. Depths(D, N2, f)
    BY <1>8, <1>9 DEF Depths
<1> QED
    BY <1>4, <1>7, <1>10, <1>6 DEF Forest

(* D2 is D with the new document a, a child of p and the current one of its  *)
(* version tree.                                                             *)
NewVersion(D, D2, a, p) ==
    /\ p \in DOMAIN D /\ a \notin DOMAIN D /\ p < a
    /\ DOMAIN D2 = DOMAIN D \cup {a}
    /\ D2[a] = [tree |-> D[p].tree, parent |-> p, current |-> TRUE]
    /\ \A d \in DOMAIN D : /\ D2[d].tree = D[d].tree /\ D2[d].parent = D[d].parent
                           /\ D2[d].current = D[d].current \/ D[d].tree = D[p].tree

(* Node b takes over from head s, and shows document a, a new version.       *)
Supplants(D, N, D2, N2, s, b, a) ==
    /\ Succeeds(N, N2, {s}, {b}) /\ NewVersion(D, D2, a, N[s].doc)
    /\ N2[b].doc = a /\ N2[b].ver = N[s].ver + 1

(* A new version, with its node in place of the old head, keeps the forest.  *)
LEMMA NewVersionForest ==
    ASSUME NEW D, NEW N, NEW D2, NEW N2, NEW s, NEW b, NEW a,
           Forest(D, N), ForeignKeys(D, N), ShortPaths(N2),
           \A n \in DOMAIN N2 : n \in Nat \ {NULL},
           \A d \in DOMAIN D2 : d \in Nat \ {NULL},
           Supplants(D, N, D2, N2, s, b, a)
    PROVE  Forest(D2, N2) /\ FollowsOne(D, N, D2, N2, s, b)
<1> USE DEF Supplants
<1> DEFINE p == N[s].doc
<1>1. \A n \in DOMAIN N : N2[n].doc = N[n].doc /\ N2[n].parent = N[n].parent
                          /\ N2[n].ver = N[n].ver
    BY DEF Succeeds, SameRow
<1>2. \A n \in DOMAIN N : N[n].doc \in DOMAIN D /\ TreeIn(D2, N2, n) = TreeIn(D, N, n)
    BY <1>1, RowsTied DEF NewVersion, TreeIn
<1>3. /\ N2[b].parent = s /\ s \in Heads(N) /\ DOMAIN N2 = DOMAIN N \cup {b} /\ b \notin DOMAIN N
      /\ s \in DOMAIN N
    BY DEF Succeeds, Heads
<1>4. TreeIn(D2, N2, b) = TreeIn(D, N, s)
    BY DEF NewVersion, TreeIn
<1>5. NodeTrees(D2, N2)
    <2>1. ASSUME NEW n \in DOMAIN N, N[n].parent # NULL
          PROVE  TreeIn(D2, N2, N2[n].parent) = TreeIn(D2, N2, n)
        <3>1. N[n].parent \in DOMAIN N
            BY <2>1, RowsTied
        <3> QED
            BY <1>1, <1>2, <2>1, <3>1 DEF Forest, NodeTrees
    <2> QED
        BY <1>1, <1>2, <1>3, <1>4, <2>1 DEF NodeTrees
<1>6. DocTrees(D2)
    <2>1. ASSUME NEW d \in DOMAIN D, D[d].parent # NULL
          PROVE  /\ D2[d].parent \in DOMAIN D2 /\ D2[d].parent < d
                 /\ D2[D2[d].parent].tree = D2[d].tree
        BY <2>1 DEF Forest, DocTrees, NewVersion
    <2>2. /\ D2[a].parent \in DOMAIN D2 /\ D2[a].parent < a
          /\ D2[D2[a].parent].tree = D2[a].tree
        BY DEF NewVersion
    <2> QED
        BY <2>1, <2>2 DEF DocTrees, NewVersion
<1>7. \A n \in Heads(N2) : TreeIn(D2, N2, n) = TreeIn(D, N, Origin(N2, {b}, n))
    <2>1. ASSUME NEW n \in Heads(N2) PROVE TreeIn(D2, N2, n) = TreeIn(D, N, Origin(N2, {b}, n))
        <3>1. CASE n = b
            BY <1>3, <1>4, <3>1 DEF Origin
        <3>2. CASE n # b
            BY <1>2, <1>3, <3>2 DEF Origin, Heads
        <3> QED
            BY <3>1, <3>2
    <2> QED
        BY <2>1
<1>8. Follows(D, N, D2, N2, {s}, {b})
    BY <1>7 DEF Follows
<1>9. OneHead(D2, N2)
    <2>1. ASSUME NEW n \in Heads(N2) PROVE D2[N2[n].doc].current
        <3>1. CASE n = b
            BY <3>1 DEF NewVersion
        <3>2. CASE n # b
            <4>1. n \in Heads(N) /\ n # s
                BY <3>2, OriginFacts
            <4>2. TreeIn(D, N, n) # TreeIn(D, N, s) /\ D[N[n].doc].current
                BY <1>3, <4>1 DEF Forest, OneHead
            <4>3. n \in DOMAIN N
                BY <4>1 DEF Heads
            <4> QED
                BY <1>1, <1>2, <4>2, <4>3 DEF NewVersion, TreeIn
        <3> QED
            BY <3>1, <3>2
    <2> QED
        BY <1>8, <2>1, SuccessorsOneHead DEF Forest
<1>10. PICK f : Depths(D, N, f)
    BY DEF Forest
<1> DEFINE g == [d \in DOMAIN D2 |-> IF d = a THEN 1 + f[p] ELSE f[d]]
<1>11. p \in DOMAIN D /\ a \notin DOMAIN D /\ a # NULL /\ p # NULL /\ DOMAIN D2 = DOMAIN D \cup {a}
    BY DEF NewVersion
<1>12. \A d \in DOMAIN D : g[d] = f[d]
    BY <1>11
<1>13. g[a] = 1 + f[p]
    BY <1>11
<1> HIDE DEF g
<1>14. ASSUME NEW d \in DOMAIN D2
       PROVE  g[d] \in Nat /\ g[d] = IF D2[d].parent = NULL THEN 1 ELSE 1 + g[D2[d].parent]
    <2>1. CASE d = a
        BY <1>10, <1>11, <1>12, <1>13, <2>1 DEF Depths, NewVersion
    <2>2. CASE d # a
        <3>1. d \in DOMAIN D /\ D2[d].parent = D[d].parent
            BY <2>2 DEF NewVersion
        <3>2. D[d].parent # NULL => D[d].parent \in DOMAIN D
            BY <3>1 DEF Forest, DocTrees
        <3>3. f[d] \in Nat /\ f[d] = IF D[d].parent = NULL THEN 1 ELSE 1 + f[D[d].parent]
            BY <1>10, <3>1 DEF Depths
        <3> QED
            BY <1>12, <3>1, <3>2, <3>3
    <2> QED
        BY <2>1, <2>2
<1>15. ASSUME NEW n \in DOMAIN N2 PROVE N2[n].ver = g[N2[n].doc]
    <2>1. CASE n = b
        <3>1. N[s].ver = f[p]
            BY <1>3, <1>10 DEF Depths
        <3>2. f[p] \in Nat
            BY <1>10, <1>11 DEF Depths
        <3> HIDE DEF p
        <3> QED
            BY <1>13, <2>1, <3>1, <3>2
    <2>2. CASE n # b
        BY <1>1, <1>2, <1>3, <1>10, <1>12, <2>2 DEF Depths
    <2> QED
        BY <2>1, <2>2
<1>16. Depths(D2, N2, g)
    BY <1>14, <1>15 DEF Depths
<1> QED
    BY <1>5, <1>6, <1>9, <1>16, <1>8 DEF Forest, FollowsOne

(* A tree of its own for a new document.                                     *)
NewRoot(D, N, D2, N2, a, b) ==
    /\ a \notin DOMAIN D /\ b \notin DOMAIN N
    /\ DOMAIN D2 = DOMAIN D \cup {a} /\ DOMAIN N2 = DOMAIN N \cup {b}
    /\ D2[a] = [tree |-> a, parent |-> NULL, current |-> TRUE]
    /\ N2[b].doc = a /\ N2[b].ver = 1 /\ N2[b].parent = NULL /\ N2[b].current
    /\ \A d \in DOMAIN D : D2[d] = D[d] /\ D[d].tree # a
    /\ \A n \in DOMAIN N : N2[n] = N[n]

(* A new document with its first node is a tree of its own.                  *)
LEMMA NewRootForest ==
    ASSUME NEW D, NEW N, NEW D2, NEW N2, NEW a, NEW b,
           Forest(D, N), ForeignKeys(D, N), NewRoot(D, N, D2, N2, a, b), ShortPaths(N2)
    PROVE  Forest(D2, N2)
<1>1. \A n \in DOMAIN N : /\ N[n].doc \in DOMAIN D /\ TreeIn(D2, N2, n) = TreeIn(D, N, n)
                          /\ TreeIn(D, N, n) # a
    BY RowsTied DEF NewRoot, TreeIn
<1>2. TreeIn(D2, N2, b) = a
    BY DEF NewRoot, TreeIn
<1>3. NodeTrees(D2, N2)
    <2>1. ASSUME NEW n \in DOMAIN N, N[n].parent # NULL
          PROVE  TreeIn(D2, N2, N2[n].parent) = TreeIn(D2, N2, n)
        <3>1. N[n].parent \in DOMAIN N /\ N2[n] = N[n]
            BY <2>1, RowsTied DEF NewRoot
        <3> QED
            BY <1>1, <2>1, <3>1 DEF Forest, NodeTrees
    <2> QED
        BY <2>1 DEF NodeTrees, NewRoot
<1>4. DocTrees(D2)
    BY DEF Forest, DocTrees, NewRoot
<1>5. \A n \in Heads(N2) : n = b \/ n \in Heads(N)
    BY DEF Heads, NewRoot
<1>6. OneHead(D2, N2)
    <2>1. \A m, n \in Heads(N2) : TreeIn(D2, N2, m) = TreeIn(D2, N2, n) => m = n
        BY <1>1, <1>2, <1>5 DEF Forest, OneHead, Heads
    <2>2. ASSUME NEW n \in Heads(N) PROVE D2[N2[n].doc].current
        <3>1. n \in DOMAIN N /\ D[N[n].doc].current
            BY DEF Forest, OneHead, Heads
        <3> QED
            BY <1>1, <3>1 DEF NewRoot
    <2>3. D2[N2[b].doc].current
        BY DEF NewRoot
    <2> QED
        BY <1>5, <2>1, <2>2, <2>3 DEF OneHead
<1>7. PICK f : Depths(D, N, f)
    BY DEF Forest
<1> DEFINE g == [d \in DOMAIN D2 |-> IF d = a THEN 1 ELSE f[d]]
<1>8. /\ \A d \in DOMAIN D : g[d] = f[d] /\ D2[d] = D[d]
      /\ g[a] = 1 /\ D2[a].parent = NULL /\ DOMAIN D2 = DOMAIN D \cup {a}
    BY DEF NewRoot
<1> HIDE DEF g
<1>9. ASSUME NEW d \in DOMAIN D2
       PROVE  g[d] \in Nat /\ g[d] = IF D2[d].parent = NULL THEN 1 ELSE 1 + g[D2[d].parent]
    <2>1. CASE d = a
        BY <1>8, <2>1
    <2>2. CASE d # a
        <3>1. d \in DOMAIN D
            BY <1>8, <2>2
        <3>2. D[d].parent # NULL => D[d].parent \in DOMAIN D
            BY <3>1 DEF Forest, DocTrees
        <3>3. f[d] \in Nat /\ f[d] = IF D[d].parent = NULL THEN 1 ELSE 1 + f[D[d].parent]
            BY <1>7, <3>1 DEF Depths
        <3> QED
            BY <1>8, <3>1, <3>2, <3>3
    <2> QED
        BY <2>1, <2>2
<1>10. \A n \in DOMAIN N2 : N2[n].ver = g[N2[n].doc]
    BY <1>1, <1>7, <1>8 DEF Depths, NewRoot
<1>11. Depths(D2, N2, g)
    BY <1>9, <1>10 DEF Depths
<1> QED
    BY <1>3, <1>4, <1>6, <1>11 DEF Forest

(* Rows deleted from both tables, foreign keys intact.                       *)
LEMMA DeletedForest ==
    ASSUME NEW D, NEW N, NEW D2, NEW N2,
           Forest(D, N), ForeignKeys(D2, N2), ParentsOK(D2),
           DOMAIN D2 \subseteq DOMAIN D, \A d \in DOMAIN D2 : D2[d] = D[d],
           DOMAIN N2 \subseteq DOMAIN N, \A n \in DOMAIN N2 : N2[n] = N[n]
    PROVE  /\ Forest(D2, N2)
           /\ \A n \in DOMAIN N2 : TreeIn(D2, N2, n) = TreeIn(D, N, n)
<1>1. \A n \in DOMAIN N2 : N2[n].doc \in DOMAIN D2 /\ TreeIn(D2, N2, n) = TreeIn(D, N, n)
    BY RowsTied DEF TreeIn
<1>2. NodeTrees(D2, N2)
    BY <1>1, RowsTied DEF Forest, NodeTrees
<1>3. DocTrees(D2)
    BY DEF Forest, DocTrees, ParentsOK
<1>4. OneHead(D2, N2)
    BY <1>1 DEF Forest, OneHead, Heads
<1>5. ShortPaths(N2)
    BY DEF Forest, ShortPaths
<1>6. PICK f : Depths(D, N, f)
    BY DEF Forest
<1>7. Depths(D2, N2, f)
    BY <1>1, <1>6 DEF Depths
<1> QED
    BY <1>1, <1>2, <1>3, <1>4, <1>5, <1>7 DEF Forest

-----------------------------------------------------------------------------
(* The files that the trees show.                                            *)

(* What a head shows of its file, and FilesNow for any tables.               *)
View(row) == [corpus |-> row.corpus, place |-> row.path, doc |-> row.doc,
              ver |-> row.ver, trashed |-> row.deleted]

HeadTrees(D, N) == {TreeIn(D, N, n) : n \in Heads(N)}

Updated(f, t, v) == [f EXCEPT ![t] = v]

IsFunction(f) == f = [x \in DOMAIN f |-> f[x]]

FilesOf(D, N) ==
    [t \in HeadTrees(D, N) |->
        View(N[CHOOSE n \in Heads(N) : TreeIn(D, N, n) = t])]

(* The refinement mapping is FilesOf of the tables, before a step and        *)
(* after.                                                                    *)
LEMMA FilesNowIs ==
    FilesNow = FilesOf(docs, nodes) /\ FilesNow' = FilesOf(docs', nodes')
<1>1. FilesNow = FilesOf(docs, nodes)
    BY DEF FilesNow, FilesOf, HeadTrees, Current, Heads, HeadOf, TreeOf, TreeIn, View
<1>2. FilesNow' = FilesOf(docs', nodes')
    BY DEF FilesNow, FilesOf, HeadTrees, Current, Heads, HeadOf, TreeOf, TreeIn, View
<1> QED
    BY <1>1, <1>2

(* With one head to a tree, every head is what its file shows.               *)
LEMMA FilesOfIs ==
    ASSUME NEW D, NEW N, OneHead(D, N)
    PROVE  /\ DOMAIN FilesOf(D, N) = HeadTrees(D, N)
           /\ IsFunction(FilesOf(D, N))
           /\ \A n \in Heads(N) : FilesOf(D, N)[TreeIn(D, N, n)] = View(N[n])
<1>1. \A n \in Heads(N) : (CHOOSE m \in Heads(N) : TreeIn(D, N, m) = TreeIn(D, N, n)) = n
    BY DEF OneHead
<1>2. \A n \in Heads(N) : TreeIn(D, N, n) \in HeadTrees(D, N)
    BY DEF HeadTrees
<1> QED
    BY <1>1, <1>2 DEF FilesOf, IsFunction

(* Two heads that show the same show it whatever else their rows hold.       *)
LEMMA SameView ==
    ASSUME NEW a, NEW b, SameRow(a, b)
    PROVE  View(a) = View(b)
    BY DEF SameRow, View

(* Heads that give way leave every file where it was but the ones they show. *)
LEMMA SuccessorsFiles ==
    ASSUME NEW D, NEW N, NEW D2, NEW N2, NEW S, NEW B,
           Follows(D, N, D2, N2, S, B), OneHead(D, N), OneHead(D2, N2)
    PROVE  /\ DOMAIN FilesOf(D2, N2) = DOMAIN FilesOf(D, N)
           /\ \A n \in Heads(N) \ S :
                 FilesOf(D2, N2)[TreeIn(D, N, n)] = FilesOf(D, N)[TreeIn(D, N, n)]
           /\ \A m \in B : FilesOf(D2, N2)[TreeIn(D, N, N2[m].parent)] = View(N2[m])
<1> USE DEF Follows
<1> DEFINE F  == FilesOf(D, N)
           F2 == FilesOf(D2, N2)
<1>1. /\ DOMAIN F = HeadTrees(D, N)
      /\ \A n \in Heads(N) : F[TreeIn(D, N, n)] = View(N[n])
    BY FilesOfIs
<1>2. /\ DOMAIN F2 = HeadTrees(D2, N2)
      /\ \A n \in Heads(N2) : F2[TreeIn(D2, N2, n)] = View(N2[n])
    BY FilesOfIs
<1> HIDE DEF F, F2
<1>3. DOMAIN F2 = DOMAIN F
    <2>1. ASSUME NEW n \in Heads(N) PROVE TreeIn(D, N, n) \in DOMAIN F2
        <3>1. PICK m \in Heads(N2) : Origin(N2, B, m) = n
            BY OriginFacts
        <3> QED
            BY <1>2, <3>1 DEF HeadTrees
    <2>2. ASSUME NEW n \in Heads(N2) PROVE TreeIn(D2, N2, n) \in DOMAIN F
        BY <1>1, OriginFacts DEF HeadTrees
    <2> QED
        BY <1>1, <1>2, <2>1, <2>2 DEF HeadTrees
<1>4. ASSUME NEW n \in Heads(N) \ S PROVE F2[TreeIn(D, N, n)] = F[TreeIn(D, N, n)]
    <2>1. n \in Heads(N2) /\ n \notin B /\ n \in DOMAIN N
        BY OriginFacts DEF Heads
    <2>2. TreeIn(D2, N2, n) = TreeIn(D, N, n)
        BY <2>1 DEF Origin
    <2>3. View(N2[n]) = View(N[n])
        BY <2>1, SameView DEF Succeeds
    <2> QED
        BY <1>1, <1>2, <2>1, <2>2, <2>3
<1>5. ASSUME NEW m \in B PROVE F2[TreeIn(D, N, N2[m].parent)] = View(N2[m])
    <2>1. m \in Heads(N2)
        BY OriginFacts
    <2>2. TreeIn(D2, N2, m) = TreeIn(D, N, N2[m].parent)
        BY <2>1 DEF Origin
    <2> QED
        BY <1>2, <2>1, <2>2
<1> QED
    BY <1>3, <1>4, <1>5 DEF F, F2

(* One head gives way: one file changes.                                     *)
LEMMA OneFileChanges ==
    ASSUME NEW D, NEW N, NEW D2, NEW N2, NEW s, NEW b,
           FollowsOne(D, N, D2, N2, s, b), OneHead(D, N), OneHead(D2, N2)
    PROVE  /\ TreeIn(D, N, s) \in DOMAIN FilesOf(D, N)
           /\ FilesOf(D, N)[TreeIn(D, N, s)] = View(N[s])
           /\ FilesOf(D2, N2) = Updated(FilesOf(D, N), TreeIn(D, N, s), View(N2[b]))
<1> DEFINE F  == FilesOf(D, N)
           F2 == FilesOf(D2, N2)
           t  == TreeIn(D, N, s)
           S  == {s}
           B  == {b}
<1>1. /\ DOMAIN F = HeadTrees(D, N) /\ IsFunction(F)
      /\ \A n \in Heads(N) : F[TreeIn(D, N, n)] = View(N[n])
    BY FilesOfIs
<1>2. IsFunction(F2)
    BY FilesOfIs
<1> HIDE DEF F, F2
<1>3. /\ DOMAIN F2 = DOMAIN F
      /\ \A n \in Heads(N) \ {s} : F2[TreeIn(D, N, n)] = F[TreeIn(D, N, n)]
      /\ F2[TreeIn(D, N, N2[b].parent)] = View(N2[b])
    <2>1. Follows(D, N, D2, N2, S, B)
        BY DEF FollowsOne
    <2> HIDE DEF S, B
    <2>2. /\ DOMAIN F2 = DOMAIN F
          /\ \A n \in Heads(N) \ S : F2[TreeIn(D, N, n)] = F[TreeIn(D, N, n)]
          /\ \A m \in B : F2[TreeIn(D, N, N2[m].parent)] = View(N2[m])
        BY <2>1, SuccessorsFiles DEF F, F2
    <2> QED
        BY <2>2 DEF S, B
<1>4. s \in Heads(N) /\ N2[b].parent = s
    BY DEF Succeeds, Follows, FollowsOne
<1>5. t \in DOMAIN F /\ F[t] = View(N[s])
    BY <1>1, <1>4 DEF HeadTrees
<1>6. F2[t] = View(N2[b])
    BY <1>3, <1>4
<1>7. ASSUME NEW x \in DOMAIN F, x # t PROVE F2[x] = F[x]
    <2>1. PICK n \in Heads(N) : x = TreeIn(D, N, n)
        BY <1>1 DEF HeadTrees
    <2> QED
        BY <1>3, <1>7, <2>1
<1> HIDE DEF t
<1>8. F2 = Updated(F, t, View(N2[b]))
    BY <1>1, <1>2, <1>3, <1>5, <1>6, <1>7 DEF IsFunction, Updated
<1> QED
    BY <1>5, <1>8 DEF F, F2, t

(* Heads that give way to trashed copies of themselves: their files are in   *)
(* the trash.                                                                *)
LEMMA FilesTrashed ==
    ASSUME NEW D, NEW N, NEW D2, NEW N2, NEW S, NEW B,
           Follows(D, N, D2, N2, S, B), OneHead(D, N), OneHead(D2, N2),
           \A n \in DOMAIN N : N[n] \in NodeRow,
           \A m \in B : View(N2[m]) = [View(N[N2[m].parent]) EXCEPT !.trashed = TRUE]
    PROVE  FilesOf(D2, N2) =
              [t \in DOMAIN FilesOf(D, N) |->
                  [FilesOf(D, N)[t] EXCEPT !.trashed = @ \/ t \in {TreeIn(D, N, n) : n \in S}]]
<1>1. Succeeds(N, N2, S, B)
    BY DEF Follows
<1> DEFINE F  == FilesOf(D, N)
           F2 == FilesOf(D2, N2)
           T  == {TreeIn(D, N, n) : n \in S}
<1>2. /\ DOMAIN F = HeadTrees(D, N)
      /\ \A n \in Heads(N) : F[TreeIn(D, N, n)] = View(N[n])
    BY FilesOfIs
<1>3. IsFunction(F2)
    BY FilesOfIs
<1>4. /\ DOMAIN F2 = DOMAIN F
      /\ \A n \in Heads(N) \ S : F2[TreeIn(D, N, n)] = F[TreeIn(D, N, n)]
      /\ \A m \in B : F2[TreeIn(D, N, N2[m].parent)] = View(N2[m])
    BY SuccessorsFiles
<1> HIDE DEF F, F2
<1>5. ASSUME NEW n \in S
      PROVE  F2[TreeIn(D, N, n)] = [F[TreeIn(D, N, n)] EXCEPT !.trashed = TRUE]
    <2>1. PICK m \in B : N2[m].parent = n
        BY <1>1 DEF Succeeds
    <2>2. n \in Heads(N)
        BY <1>1 DEF Succeeds
    <2> QED
        BY <1>2, <1>4, <2>1, <2>2
<1>6. ASSUME NEW x \in DOMAIN F PROVE F2[x] = [F[x] EXCEPT !.trashed = @ \/ x \in T]
    <2>1. PICK n \in Heads(N) : x = TreeIn(D, N, n)
        BY <1>2 DEF HeadTrees
    <2>2. CASE n \in S
        BY <1>5, <2>1, <2>2
    <2>3. CASE n \notin S
        <3>1. F2[x] = F[x]
            BY <1>4, <2>1, <2>3
        <3>2. x \notin T
            BY <1>1, <2>1, <2>3 DEF Succeeds, OneHead
        <3>3. F[x] = View(N[n]) /\ N[n].deleted \in BOOLEAN
            BY <1>2, <2>1 DEF Heads, NodeRow
        <3> HIDE DEF T
        <3> QED
            BY <3>1, <3>2, <3>3 DEF View
    <2> QED
        BY <2>2, <2>3
<1> HIDE DEF T
<1>7. F2 = [x \in DOMAIN F |-> [F[x] EXCEPT !.trashed = @ \/ x \in T]]
    BY <1>3, <1>4, <1>6 DEF IsFunction
<1> QED
    BY <1>7 DEF F, F2, T

(* Nothing lies at a path that no active node of the corpus has.             *)
LEMMA HereIsFree ==
    ASSUME OneHead(docs, nodes), NEW s \in Heads(nodes), NEW c, NEW q,
           q \notin Occupied(c, {s})
    PROVE  Files!Here(c, q, TreeIn(docs, nodes, s)) = {}
<1> DEFINE F == FilesOf(docs, nodes)
<1>1. FilesNow = F
    BY FilesNowIs
<1>2. /\ DOMAIN F = HeadTrees(docs, nodes)
      /\ \A n \in Heads(nodes) : F[TreeIn(docs, nodes, n)] = View(nodes[n])
    BY FilesOfIs
<1> HIDE DEF F
<1>3. ASSUME NEW n \in Heads(nodes), TreeIn(docs, nodes, n) # TreeIn(docs, nodes, s),
             ~View(nodes[n]).trashed, View(nodes[n]).corpus = c, View(nodes[n]).place = q
      PROVE  FALSE
    <2>1. n \in Active(nodes) \ {s} /\ nodes[n].corpus = c /\ nodes[n].path = q
        BY <1>3 DEF View, Heads, Active
    <2> QED
        BY <2>1 DEF Occupied
<1> QED
    BY <1>1, <1>2, <1>3 DEF Files!Here, HeadTrees

-----------------------------------------------------------------------------
(* Each request keeps the forest and does to the files what it should.       *)

(* What Inv says of the rows, for any tables.                                *)
RowsIn(D, N, i, k) ==
    /\ i \in Nat /\ k \in Nat /\ ForeignKeys(D, N)
    /\ \A n \in DOMAIN N : n \in 1..k /\ N[n] \in NodeRow
    /\ \A d \in DOMAIN D : d \in 1..i /\ D[d] \in DocRow /\ D[d].tree \in 1..i

(* The ledger's invariant types the rows of the tables as they are.          *)
LEMMA InvRowsIn == Inv => RowsIn(docs, nodes, lastDoc, lastNode)
    BY InvRows DEF RowsIn

(* And of the tables after a step.                                           *)
LEMMA InvRowsInNext == Inv' => RowsIn(docs', nodes', lastDoc', lastNode')
<1>1. (Inv => RowsIn(docs, nodes, lastDoc, lastNode))'
    BY InvRowsIn, PTL
<1> QED
    BY <1>1

(* The path of every node is a place of the filesystem, and its document and *)
(* version tree are identities of it.                                        *)
LEMMA PlacesOK ==
    ASSUME NEW D, NEW N, NEW i, NEW k, RowsIn(D, N, i, k), Forest(D, N),
           i <= MaxDocs, k <= MaxNodes, NEW n \in DOMAIN N
    PROVE  /\ N[n].path \in PlacesUpTo(MaxNodes) /\ N[n].corpus \in Corpora
           /\ N[n].doc \in 1..MaxDocs /\ TreeIn(D, N, n) \in 1..MaxDocs
<1>1. N[n] \in NodeRow /\ n \in 1..k /\ N[n].doc \in DOMAIN D
    BY DEF RowsIn, ForeignKeys
<1>2. N[n].doc \in 1..MaxDocs /\ TreeIn(D, N, n) \in 1..MaxDocs
    BY <1>1, BoundsAssumption DEF RowsIn, TreeIn
<1> DEFINE s == N[n].path.sfx
<1>3. s \in Seq(1..MaxSuffix) /\ Len(s) <= n /\ n <= MaxNodes /\ n \in Nat
    BY <1>1, BoundsAssumption DEF Forest, ShortPaths, RowsIn
<1> HIDE DEF s
<1>4. Len(s) \in 0..MaxNodes /\ s \in [1..Len(s) -> 1..MaxSuffix]
    BY <1>3, BoundsAssumption
<1>5. s \in UNION {[1..j -> 1..MaxSuffix] : j \in 0..MaxNodes}
    BY <1>4
<1> DEFINE U == UNION {[1..j -> 1..MaxSuffix] : j \in 0..MaxNodes}
<1> HIDE DEF U
<1>6. N[n].path \in [dir : Dirs, name : Names, sfx : U]
    BY <1>1, <1>5 DEF NodeRow, Path, s, U
<1> QED
    BY <1>1, <1>2, <1>6 DEF NodeRow, PlacesUpTo, U

(* The bounds on the ids.                                                    *)
Bounded(i, k) == i <= MaxDocs /\ k <= MaxNodes

(* A new file at a free path.                                                *)
LEMMA NewTreeFiles ==
    ASSUME Inv, Inv', Forest(docs, nodes), Bounded(lastDoc, lastNode),
           NEW c \in Corpora, NEW p \in Path, NEW e, NewTree(c, p, e),
           p \notin Occupied(c, {}), p.sfx \in Seq(1..MaxSuffix), Len(p.sfx) <= 1
    PROVE  Forest(docs', nodes') /\ Bounded(lastDoc', lastNode') /\ Files!Next
<1> DEFINE a   == lastDoc + 1
           b   == lastNode + 1
           row == [doc |-> a, corpus |-> c, path |-> p, ver |-> 1, parent |-> NULL,
                   deleted |-> FALSE, current |-> TRUE, ext |-> e]
           new == Row(b, row)
           F   == FilesOf(docs, nodes)
           F2  == FilesOf(docs', nodes')
<1>1. RowsIn(docs, nodes, lastDoc, lastNode) /\ RowsIn(docs', nodes', lastDoc', lastNode')
    BY InvRowsIn, InvRowsInNext
<1>2. /\ a \notin DOMAIN docs /\ b \notin DOMAIN nodes /\ lastDoc \in Nat /\ lastNode \in Nat
      /\ \A x \in DOMAIN docs : docs[x].tree # a
    BY <1>1 DEF RowsIn
<1>3. /\ DOMAIN docs' = DOMAIN docs \cup {a}
      /\ docs'[a] = [tree |-> a, parent |-> NULL, current |-> TRUE]
      /\ \A x \in DOMAIN docs : docs'[x] = docs[x]
    BY <1>2 DEF NewTree, Put, Row
<1>4. /\ DOMAIN nodes' = DOMAIN nodes \cup {b} /\ nodes'[b] = row
      /\ \A n \in DOMAIN nodes : nodes'[n] = nodes[n]
    <2>1. nodes' = Replaced(NoRows, new) /\ DOMAIN NoRows = {}
        BY DEF NewTree, NoRows
    <2>2. DOMAIN new = {b} /\ new[b] = row
        BY DEF Row
    <2> HIDE DEF new, row, b
    <2>3. Retires(nodes, nodes', DOMAIN NoRows, new)
        BY <1>2, <2>1, <2>2, ReplacedRetires
    <2> QED
        BY <2>1, <2>2, <2>3 DEF Retires
<1>5. Bounded(lastDoc', lastNode')
    BY <1>2, BoundsAssumption DEF NewTree, Bounded
<1>6. NewRoot(docs, nodes, docs', nodes', a, b)
    <2>1. row.doc = a /\ row.ver = 1 /\ row.parent = NULL /\ row.current
        OBVIOUS
    <2> HIDE DEF row, a, b
    <2> QED
        BY <1>2, <1>3, <1>4, <2>1 DEF NewRoot
<1>7. ShortPaths(nodes')
    <2>1. row.path = p /\ b \in Nat /\ b >= 1
        BY <1>2
    <2>2. Len(p.sfx) <= b
        BY <1>2
    <2> HIDE DEF row, b
    <2> QED
        BY <1>4, <2>1, <2>2 DEF Forest, ShortPaths
<1>8. Forest(docs', nodes')
    BY <1>1, <1>6, <1>7, NewRootForest DEF RowsIn
<1>9. OneHead(docs, nodes) /\ OneHead(docs', nodes')
    BY <1>8 DEF Forest
<1>10. /\ DOMAIN F = HeadTrees(docs, nodes) /\ IsFunction(F)
       /\ \A n \in Heads(nodes) : F[TreeIn(docs, nodes, n)] = View(nodes[n])
    BY <1>9, FilesOfIs
<1>11. /\ DOMAIN F2 = HeadTrees(docs', nodes') /\ IsFunction(F2)
       /\ \A n \in Heads(nodes') : F2[TreeIn(docs', nodes', n)] = View(nodes'[n])
    BY <1>9, FilesOfIs
<1>12. FilesNow = F /\ FilesNow' = F2
    BY FilesNowIs
<1>13. row.current /\ row.doc = a
    OBVIOUS
<1>14. View(row) = [corpus |-> c, place |-> p, doc |-> a, ver |-> 1, trashed |-> FALSE]
    BY DEF View
<1> HIDE DEF F, F2, a, b, row
<1>15. /\ Heads(nodes') = Heads(nodes) \cup {b}
       /\ b \notin Heads(nodes)
       /\ \A n \in Heads(nodes) : /\ TreeIn(docs', nodes', n) = TreeIn(docs, nodes, n)
                                  /\ TreeIn(docs, nodes, n) # a
       /\ TreeIn(docs', nodes', b) = a
    <2>1. \A n \in DOMAIN nodes : nodes[n].doc \in DOMAIN docs
        BY <1>1 DEF RowsIn, ForeignKeys
    <2>2. /\ Heads(nodes') = Heads(nodes) \cup {b}
          /\ b \notin Heads(nodes)
        BY <1>2, <1>4, <1>13 DEF Heads
    <2> QED
        BY <1>2, <1>3, <1>4, <1>13, <2>1, <2>2 DEF Heads, TreeIn
<1>16. /\ DOMAIN F2 = DOMAIN F \cup {a} /\ a \notin DOMAIN F
       /\ F2[a] = View(row)
    BY <1>4, <1>10, <1>11, <1>15 DEF HeadTrees
<1>17. ASSUME NEW t \in DOMAIN F PROVE F2[t] = F[t]
    <2>1. PICK n \in Heads(nodes) : t = TreeIn(docs, nodes, n)
        BY <1>10 DEF HeadTrees
    <2>2. n \in DOMAIN nodes
        BY DEF Heads
    <2> QED
        BY <1>4, <1>10, <1>11, <1>15, <2>1, <2>2
<1>18. Files!Here(c, p, a) = {}
    <2>1. ASSUME NEW n \in Heads(nodes), ~View(nodes[n]).trashed, View(nodes[n]).corpus = c,
                 View(nodes[n]).place = p
          PROVE  FALSE
        <3>1. n \in Active(nodes) \ {} /\ nodes[n].corpus = c /\ nodes[n].path = p
            BY <2>1 DEF View, Heads, Active
        <3> QED
            BY <3>1 DEF Occupied
    <2> QED
        BY <1>10, <1>12, <2>1 DEF Files!Here, HeadTrees
<1>19. Files!Create(a, c, p)
    BY <1>11, <1>12, <1>14, <1>16, <1>17, <1>18 DEF Files!Create, IsFunction
<1>20. a \in 1..MaxDocs /\ p \in PlacesUpTo(MaxNodes)
    <2>1. b \in DOMAIN nodes' /\ nodes'[b].path = p /\ nodes'[b].doc = a
        BY <1>4 DEF row
    <2> QED
        BY <1>1, <1>5, <1>8, <2>1, PlacesOK DEF Bounded
<1> QED
    BY <1>5, <1>8, <1>19, <1>20 DEF Files!Next, Files!Step

(* A superseded head and its successor.                                      *)
LEMMA SupersedeSucceeds ==
    ASSUME Inv, Forest(docs, nodes), Bounded(lastDoc, lastNode),
           NEW n \in Heads(nodes), NEW row \in NodeRow, row.current, Supersede(n, row),
           row.path.sfx \in Seq(1..MaxSuffix),
           Len(row.path.sfx) <= Len(nodes[n].path.sfx) + 1
    PROVE  /\ Succeeds(nodes, nodes', {n}, {lastNode + 1}) /\ ShortPaths(nodes')
           /\ nodes'[lastNode + 1].doc = row.doc /\ nodes'[lastNode + 1].ver = row.ver
           /\ View(nodes'[lastNode + 1]) = View(row)
           /\ Bounded(lastDoc, lastNode')
<1> DEFINE r   == [row EXCEPT !.parent = n]
           b   == lastNode + 1
           new == Row(b, r)
           S   == {n}
<1>1. n \in DOMAIN nodes
    BY DEF Heads
<1>2. RowsIn(docs, nodes, lastDoc, lastNode)
    BY InvRowsIn
<1>3. n \in 1..lastNode /\ lastNode \in Nat /\ \A x \in DOMAIN nodes : nodes[x] \in NodeRow
    BY <1>1, <1>2 DEF RowsIn
<1>4. /\ r.parent = n /\ r.current /\ r.doc = row.doc /\ r.ver = row.ver
      /\ r.path = row.path /\ View(r) = View(row)
    BY DEF NodeRow, View
<1>5. DOMAIN new = {b} /\ new[b] = r
    BY DEF Row
<1>6. Retires(nodes, nodes', S, new)
    BY <1>1, SupersedeRetires
<1>7. n < b /\ b \in Nat
    BY <1>3
<1>8. Bounded(lastDoc, lastNode')
    BY <1>3, BoundsAssumption DEF Supersede, Bounded
<1> HIDE DEF new, r, b
<1>9. nodes'[b] = r
    BY <1>5, <1>6 DEF Retires
<1>10. Succeeds(nodes, nodes', S, DOMAIN new)
    <2>1. S \subseteq Heads(nodes)
        OBVIOUS
    <2>2. \A m \in DOMAIN new : new[m].current /\ new[m].parent \in S /\ new[m].parent < m
        BY <1>4, <1>5, <1>7
    <2>3. \A m, x \in DOMAIN new : new[m].parent = new[x].parent => m = x
        BY <1>5
    <2>4. \A x \in S : \E m \in DOMAIN new : new[m].parent = x
        BY <1>4, <1>5
    <2> HIDE DEF S
    <2> QED
        BY <1>3, <1>6, <2>1, <2>2, <2>3, <2>4, RetiresSucceeds
<1>11. ShortPaths(nodes')
    <2>1. \A x \in DOMAIN nodes' : x \in Nat
        BY <1>2, <1>5, <1>6, <1>7 DEF RowsIn, Retires
    <2>2. \A m \in DOMAIN new :
             /\ nodes'[m].path.sfx \in Seq(1..MaxSuffix)
             /\ Len(nodes'[m].path.sfx) <= Len(nodes[nodes'[m].parent].path.sfx) + 1
        BY <1>4, <1>5, <1>9
    <2>3. ShortPaths(nodes)
        BY DEF Forest
    <2> HIDE DEF S
    <2> QED
        BY <1>10, <2>1, <2>2, <2>3, SuccessorsShortPaths
<1> QED
    BY <1>4, <1>5, <1>8, <1>9, <1>10, <1>11 DEF b

(* One head gives way to one that shows the same document.                   *)
LEMMA SameDocFiles ==
    ASSUME Inv, Inv', Forest(docs, nodes), NEW n, NEW b,
           Succeeds(nodes, nodes', {n}, {b}), ShortPaths(nodes'), docs' = docs,
           nodes'[b].doc = nodes[n].doc, nodes'[b].ver = nodes[n].ver
    PROVE  /\ Forest(docs', nodes')
           /\ TreeIn(docs, nodes, n) \in DOMAIN FilesNow /\ IsFunction(FilesNow)
           /\ FilesNow[TreeIn(docs, nodes, n)] = View(nodes[n])
           /\ FilesNow' = Updated(FilesNow, TreeIn(docs, nodes, n), View(nodes'[b]))
<1> DEFINE S == {n}
           B == {b}
<1>1. RowsIn(docs, nodes, lastDoc, lastNode) /\ RowsIn(docs', nodes', lastDoc', lastNode')
    BY InvRowsIn, InvRowsInNext
<1>2. \A m \in DOMAIN nodes' : m \in Nat \ {NULL}
    BY <1>1 DEF RowsIn, NULL
<1>3. nodes'[b].parent = n
    BY DEF Succeeds
<1>4. \A m \in B : /\ nodes'[m].doc = nodes[nodes'[m].parent].doc
                   /\ nodes'[m].ver = nodes[nodes'[m].parent].ver
    BY <1>3
<1>5. Succeeds(nodes, nodes', S, B)
    OBVIOUS
<1>6. ForeignKeys(docs, nodes)
    BY <1>1 DEF RowsIn
<1> HIDE DEF S, B
<1>7. Forest(docs, nodes') /\ Follows(docs, nodes, docs, nodes', S, B)
    BY <1>2, <1>4, <1>5, <1>6, SameDocsForest
<1>8. OneHead(docs, nodes) /\ OneHead(docs, nodes')
    BY <1>7 DEF Forest
<1>9. FollowsOne(docs, nodes, docs, nodes', n, b)
    BY <1>7 DEF FollowsOne, S, B
<1>10. /\ TreeIn(docs, nodes, n) \in DOMAIN FilesOf(docs, nodes)
       /\ FilesOf(docs, nodes)[TreeIn(docs, nodes, n)] = View(nodes[n])
       /\ FilesOf(docs, nodes') =
             Updated(FilesOf(docs, nodes), TreeIn(docs, nodes, n), View(nodes'[b]))
    BY <1>8, <1>9, OneFileChanges
<1>11. IsFunction(FilesOf(docs, nodes))
    BY <1>8, FilesOfIs
<1> QED
    BY <1>7, <1>10, <1>11, FilesNowIs

(* What a row shows that differs in document and version alone.              *)
Newer(view, d, k) == [view EXCEPT !.doc = d, !.ver = k]

(* What a head shows after a new version differs in its document and         *)
(* version alone.                                                            *)
LEMMA NewerView ==
    ASSUME NEW x, NEW y, NEW a, NEW v, y.corpus = x.corpus, y.path = x.path,
           y.deleted = x.deleted, y.doc = a, y.ver = v
    PROVE  View(y) = Newer(View(x), a, v)
<1> DEFINE s == [View(x) EXCEPT !.doc = a]
<1>1. s = [corpus |-> x.corpus, place |-> x.path, doc |-> a, ver |-> x.ver,
           trashed |-> x.deleted]
    BY DEF View
<1> HIDE DEF s
<1>2. View(y) = [s EXCEPT !.ver = v]
    BY <1>1 DEF View
<1> QED
    BY <1>2 DEF s, Newer

(* One head gives way to one that shows a new version.                       *)
LEMMA NewVersionFiles ==
    ASSUME Inv, Inv', Forest(docs, nodes), NEW n, NEW b, NEW a, n \in Active(nodes),
           Succeeds(nodes, nodes', {n}, {b}), ShortPaths(nodes'),
           Bounded(lastDoc', lastNode'), NewVersion(docs, docs', a, nodes[n].doc),
           nodes'[b].corpus = nodes[n].corpus, nodes'[b].path = nodes[n].path,
           nodes'[b].deleted = nodes[n].deleted, nodes'[b].doc = a,
           nodes'[b].ver = nodes[n].ver + 1
    PROVE  Forest(docs', nodes') /\ Files!Next
<1> DEFINE t == TreeIn(docs, nodes, n)
<1>1. RowsIn(docs, nodes, lastDoc, lastNode) /\ RowsIn(docs', nodes', lastDoc', lastNode')
    BY InvRowsIn, InvRowsInNext
<1>2. /\ \A m \in DOMAIN nodes' : m \in Nat \ {NULL}
      /\ \A d \in DOMAIN docs' : d \in Nat \ {NULL}
      /\ ForeignKeys(docs, nodes)
    BY <1>1 DEF RowsIn, NULL
<1>3. View(nodes'[b]) = Newer(View(nodes[n]), a, nodes[n].ver + 1)
    BY NewerView
<1>4. Supplants(docs, nodes, docs', nodes', n, b, a)
    BY DEF Supplants
<1>5. Forest(docs', nodes') /\ FollowsOne(docs, nodes, docs', nodes', n, b)
    BY <1>2, <1>4, NewVersionForest
<1>6. OneHead(docs, nodes) /\ OneHead(docs', nodes')
    BY <1>5 DEF Forest
<1>7. /\ t \in DOMAIN FilesOf(docs, nodes)
      /\ FilesOf(docs, nodes)[t] = View(nodes[n])
      /\ FilesOf(docs', nodes') = Updated(FilesOf(docs, nodes), t, View(nodes'[b]))
    BY <1>5, <1>6, OneFileChanges
<1>8. /\ t \in DOMAIN FilesNow /\ FilesNow[t] = View(nodes[n])
      /\ FilesNow' = [FilesNow EXCEPT ![t] = View(nodes'[b])]
    BY <1>7, FilesNowIs DEF Updated
<1>9. b \in DOMAIN nodes' /\ n \in DOMAIN nodes' /\ TreeIn(docs', nodes', b) = t
    <2>1. b \in Heads(nodes') /\ b \in DOMAIN nodes' /\ n \in DOMAIN nodes' /\ nodes'[b].parent = n
        BY DEF Succeeds, Heads
    <2> QED
        BY <1>5, <2>1 DEF FollowsOne, Follows, Origin
<1>10. a \in 1..MaxDocs /\ t \in 1..MaxDocs
    BY <1>1, <1>5, <1>9, PlacesOK DEF Bounded
<1>11. Files!Replace(t, a)
    <2>1. ~nodes[n].deleted
        BY DEF Active
    <2>2. nodes[n].doc < a
        BY DEF NewVersion
    <2>3. nodes[n].doc \in Nat /\ a \in Nat
        BY <1>1, <1>10 DEF RowsIn, ForeignKeys, Active
    <2>4. FilesNow[t].trashed = nodes[n].deleted /\ FilesNow[t].doc = nodes[n].doc
          /\ FilesNow[t].ver = nodes[n].ver
        BY <1>8 DEF View
    <2>5. View(nodes'[b]) = [FilesNow[t] EXCEPT !.doc = a, !.ver = FilesNow[t].ver + 1]
        BY <1>3, <1>8, <2>4 DEF Newer
    <2> HIDE DEF t
    <2>6. FilesNow' = [FilesNow EXCEPT ![t] = [FilesNow[t] EXCEPT !.doc = a, !.ver = FilesNow[t].ver + 1]]
        BY <1>8, <2>5
    <2>7. FilesNow' = [FilesNow EXCEPT ![t].doc = a, ![t].ver = @ + 1]
        BY <1>8, <2>6
    <2>8. ~FilesNow[t].trashed /\ a > FilesNow[t].doc
        BY <2>1, <2>2, <2>3, <2>4
    <2> QED
        BY <2>7, <2>8 DEF Files!Replace
<1> QED
    BY <1>5, <1>8, <1>10, <1>11 DEF Files!Next, Files!Step

(* A head superseded in place, or moved: its file changes, and no other.     *)
LEMMA SameDocStep ==
    ASSUME Inv, Inv', Forest(docs, nodes), Bounded(lastDoc, lastNode),
           NEW n \in Heads(nodes), NEW row \in NodeRow, row.current,
           row.doc = nodes[n].doc, row.ver = nodes[n].ver,
           row.path.sfx \in Seq(1..MaxSuffix),
           Len(row.path.sfx) <= Len(nodes[n].path.sfx) + 1,
           Supersede(n, row), UNCHANGED <<docs, lastDoc>>
    PROVE  /\ Forest(docs', nodes') /\ Bounded(lastDoc', lastNode')
           /\ TreeIn(docs, nodes, n) \in DOMAIN FilesNow /\ IsFunction(FilesNow)
           /\ FilesNow[TreeIn(docs, nodes, n)] = View(nodes[n])
           /\ FilesNow' = Updated(FilesNow, TreeIn(docs, nodes, n), View(row))
           /\ TreeIn(docs, nodes, n) \in 1..MaxDocs /\ row.path \in PlacesUpTo(MaxNodes)
<1> DEFINE b == lastNode + 1
<1>1. /\ Succeeds(nodes, nodes', {n}, {b}) /\ ShortPaths(nodes')
      /\ nodes'[b].doc = row.doc /\ nodes'[b].ver = row.ver
      /\ View(nodes'[b]) = View(row) /\ Bounded(lastDoc, lastNode')
    BY SupersedeSucceeds
<1> HIDE DEF b
<1>2. /\ Forest(docs', nodes')
      /\ TreeIn(docs, nodes, n) \in DOMAIN FilesNow /\ IsFunction(FilesNow)
      /\ FilesNow[TreeIn(docs, nodes, n)] = View(nodes[n])
      /\ FilesNow' = Updated(FilesNow, TreeIn(docs, nodes, n), View(nodes'[b]))
    BY <1>1, SameDocFiles
<1>3. RowsIn(docs, nodes, lastDoc, lastNode) /\ RowsIn(docs', nodes', lastDoc', lastNode')
    BY InvRowsIn, InvRowsInNext
<1>4. TreeIn(docs, nodes, n) \in 1..MaxDocs
    <2>1. n \in DOMAIN nodes
        BY DEF Heads
    <2> QED
        BY <1>3, <2>1, PlacesOK DEF Bounded
<1>5. row.path \in PlacesUpTo(MaxNodes)
    <2>1. b \in DOMAIN nodes' /\ nodes'[b].path = row.path
        BY <1>1 DEF Succeeds, View
    <2>2. lastDoc' <= MaxDocs /\ lastNode' <= MaxNodes
        BY <1>1 DEF Bounded
    <2>3. nodes'[b].path \in PlacesUpTo(MaxNodes)
        BY <1>2, <1>3, <2>1, <2>2, PlacesOK
    <2> QED
        BY <2>1, <2>3
<1> QED
    BY <1>1, <1>2, <1>4, <1>5

(* The rows and paths of active nodes.                                       *)
LEMMA ActiveFacts ==
    ASSUME Inv, Forest(docs, nodes), NEW n \in Active(nodes)
    PROVE  /\ n \in Heads(nodes) /\ nodes[n] \in NodeRow /\ nodes[n].path \in Path
           /\ nodes[n].current /\ ~nodes[n].deleted
           /\ nodes[n].path.sfx \in Seq(1..MaxSuffix) /\ nodes[n].doc \in DOMAIN docs
           /\ Len(nodes[n].path.sfx) \in Nat
<1>1. n \in DOMAIN nodes /\ nodes[n].current /\ ~nodes[n].deleted
    BY DEF Active
<1>2. nodes[n] \in NodeRow /\ nodes[n].doc \in DOMAIN docs
    BY <1>1, InvRowsIn DEF RowsIn, ForeignKeys
<1>3. nodes[n].path.sfx \in Seq(1..MaxSuffix)
    BY <1>1 DEF Forest, ShortPaths
<1>4. Len(nodes[n].path.sfx) \in Nat
    BY <1>3
<1> QED
    BY <1>1, <1>2, <1>3, <1>4 DEF Heads, NodeRow

(* disambiguate_path adds at most one suffix, within the cap.                *)
LEMMA SuffixedShort ==
    ASSUME NEW p \in Path, p.sfx \in Seq(1..MaxSuffix), NEW c, NEW except,
           NEW q \in Disambiguated(c, p, except)
    PROVE  q.sfx \in Seq(1..MaxSuffix) /\ Len(q.sfx) <= Len(p.sfx) + 1
<1>1. PICK k \in 0..MaxSuffix : q = Suffixed(p, k)
    BY DEF Disambiguated
<1>2. Len(p.sfx) \in Nat
    OBVIOUS
<1>3. CASE k = 0
    BY <1>1, <1>2, <1>3 DEF Suffixed
<1>4. CASE k # 0
    <2>1. k \in 1..MaxSuffix
        BY <1>4, BoundsAssumption
    <2>2. q.sfx = Append(p.sfx, k)
        BY <1>1, <1>4 DEF Suffixed, Path
    <2>3. Append(p.sfx, k) \in Seq(1..MaxSuffix) /\ Len(Append(p.sfx, k)) = Len(p.sfx) + 1
        BY <2>1
    <2> QED
        BY <2>2, <2>3
<1> QED
    BY <1>3, <1>4

(* Metadata recorded as a node of its own: nothing to see.                   *)
LEMMA RecordMetadataFiles ==
    ASSUME Inv, Inv', Forest(docs, nodes), Bounded(lastDoc, lastNode),
           NEW c, NEW p, NEW e \in Lineage, RecordMetadata(c, p, e)
    PROVE  Forest(docs', nodes') /\ Bounded(lastDoc', lastNode') /\ FilesNow' = FilesNow
<1> DEFINE row(n) == [nodes[n] EXCEPT !.ext = IF e = NoExt THEN @ ELSE e]
<1>1. PICK n \in Active(nodes) : Supersede(n, row(n)) /\ UNCHANGED <<docs, lastDoc>>
    BY DEF RecordMetadata, ActiveAt
<1>2. /\ n \in Heads(nodes) /\ nodes[n] \in NodeRow /\ nodes[n].current
      /\ nodes[n].path.sfx \in Seq(1..MaxSuffix) /\ Len(nodes[n].path.sfx) \in Nat
    BY ActiveFacts
<1>3. /\ row(n) \in NodeRow /\ row(n).doc = nodes[n].doc /\ row(n).corpus = nodes[n].corpus
      /\ row(n).ver = nodes[n].ver /\ row(n).path = nodes[n].path
      /\ row(n).deleted = nodes[n].deleted /\ row(n).current = nodes[n].current
    BY <1>2, RecordedRow
<1>4. Len(row(n).path.sfx) <= Len(nodes[n].path.sfx) + 1
    BY <1>2, <1>3
<1> HIDE DEF row
<1>5. View(row(n)) = View(nodes[n])
    BY <1>3 DEF View
<1> DEFINE t == TreeIn(docs, nodes, n)
<1>6. /\ Forest(docs', nodes') /\ Bounded(lastDoc', lastNode')
      /\ t \in DOMAIN FilesNow /\ IsFunction(FilesNow) /\ FilesNow[t] = View(nodes[n])
      /\ FilesNow' = Updated(FilesNow, t, View(row(n)))
    BY <1>1, <1>2, <1>3, <1>4, SameDocStep
<1> HIDE DEF t
<1>7. FilesNow' = FilesNow
    BY <1>5, <1>6 DEF IsFunction, Updated
<1> QED
    BY <1>6, <1>7

(* A move or a rename takes one file to a free place.                        *)
LEMMA RelocateFiles ==
    ASSUME Inv, Inv', Forest(docs, nodes), Bounded(lastDoc, lastNode),
           NEW n \in Active(nodes), NEW base \in Path, base.sfx \in Seq(1..MaxSuffix),
           Len(base.sfx) <= Len(nodes[n].path.sfx), Relocate(n, base)
    PROVE  Forest(docs', nodes') /\ Bounded(lastDoc', lastNode') /\ Files!Next
<1> DEFINE row(q) == [nodes[n] EXCEPT !.path = q, !.ext = NoExt]
<1>1. PICK q \in Disambiguated(nodes[n].corpus, base, {n}) :
            Supersede(n, row(q)) /\ UNCHANGED <<docs, lastDoc>>
    BY DEF Relocate
<1>2. q \in Path /\ q \notin Occupied(nodes[n].corpus, {n})
    BY DisambiguatedIsPath, DisambiguatedIsFree
<1>3. q.sfx \in Seq(1..MaxSuffix) /\ Len(q.sfx) <= Len(base.sfx) + 1
    BY SuffixedShort
<1>4. /\ n \in Heads(nodes) /\ nodes[n] \in NodeRow /\ nodes[n].current /\ ~nodes[n].deleted
      /\ Len(nodes[n].path.sfx) \in Nat
    BY ActiveFacts
<1>5. Len(q.sfx) <= Len(nodes[n].path.sfx) + 1
    <2>1. Len(q.sfx) \in Nat /\ Len(base.sfx) \in Nat
        BY <1>3
    <2> QED
        BY <1>3, <1>4, <2>1
<1>6. /\ row(q) \in NodeRow /\ row(q).doc = nodes[n].doc /\ row(q).corpus = nodes[n].corpus
      /\ row(q).ver = nodes[n].ver /\ row(q).path = q
      /\ row(q).deleted = nodes[n].deleted /\ row(q).current = nodes[n].current
    BY <1>2, <1>4, RelocatedRow
<1> HIDE DEF row
<1>7. View(row(q)) = [View(nodes[n]) EXCEPT !.place = q]
    BY <1>6 DEF View
<1> DEFINE t == TreeIn(docs, nodes, n)
<1>8. /\ Forest(docs', nodes') /\ Bounded(lastDoc', lastNode')
      /\ t \in DOMAIN FilesNow /\ IsFunction(FilesNow) /\ FilesNow[t] = View(nodes[n])
      /\ FilesNow' = Updated(FilesNow, t, View(row(q)))
      /\ t \in 1..MaxDocs /\ q \in PlacesUpTo(MaxNodes)
    BY <1>1, <1>3, <1>4, <1>5, <1>6, SameDocStep
<1>9. Files!Here(nodes[n].corpus, q, t) = {}
    BY <1>2, <1>4, HereIsFree DEF Forest
<1> HIDE DEF t
<1>10. FilesNow[t].corpus = nodes[n].corpus /\ ~FilesNow[t].trashed
    BY <1>4, <1>8 DEF View
<1>11. FilesNow' = [FilesNow EXCEPT ![t].place = q]
    BY <1>7, <1>8 DEF Updated
<1>12. Files!Move(t, q)
    BY <1>9, <1>10, <1>11 DEF Files!Move
<1> QED
    BY <1>8, <1>12 DEF Files!Next, Files!Step

(* An upload at an occupied path gives the file a newer document.            *)
LEMMA VersionUpFiles ==
    ASSUME Inv, Inv', Forest(docs, nodes), Bounded(lastDoc, lastNode),
           NEW n \in Active(nodes), NEW e \in Lineage,
           VersionUp(n, nodes[n].doc, nodes[n].ver + 1, e)
    PROVE  Forest(docs', nodes') /\ Bounded(lastDoc', lastNode') /\ Files!Next
<1> DEFINE a    == lastDoc + 1
           b    == lastNode + 1
           tree == docs[nodes[n].doc].tree
           kin  == {x \in DOMAIN docs : docs[x].tree = tree}
           row  == [nodes[n] EXCEPT !.doc = a, !.ver = nodes[n].ver + 1,
                                    !.ext = IF e = NoExt THEN @ ELSE e]
<1>1. /\ n \in Heads(nodes) /\ nodes[n] \in NodeRow /\ nodes[n].current
      /\ nodes[n].path.sfx \in Seq(1..MaxSuffix) /\ Len(nodes[n].path.sfx) \in Nat
      /\ nodes[n].doc \in DOMAIN docs
    BY ActiveFacts
<1>2. RowsIn(docs, nodes, lastDoc, lastNode)
    BY InvRowsIn
<1>3. a \notin DOMAIN docs /\ a \in Nat /\ \A x \in DOMAIN docs : docs[x] \in DocRow /\ x < a
    BY <1>2 DEF RowsIn
<1>4. docs' = Put(Put(docs, Retired(Rows(docs, kin))), Row(a,
                [tree |-> tree, parent |-> nodes[n].doc, current |-> TRUE]))
    BY DEF VersionUp
<1>5. /\ DOMAIN docs' = DOMAIN docs \cup {a}
      /\ docs'[a] = [tree |-> tree, parent |-> nodes[n].doc, current |-> TRUE]
    BY <1>4 DEF Put, Retired, Rows, Row
<1>6. ASSUME NEW x \in DOMAIN docs
      PROVE  docs'[x] = IF x \in kin THEN [docs[x] EXCEPT !.current = FALSE] ELSE docs[x]
    <2>1. x # a
        BY <1>3
    <2> HIDE DEF a
    <2> QED
        BY <1>4, <2>1 DEF Put, Retired, Rows, Row
<1>7. \A x \in DOMAIN docs : /\ docs'[x].parent = docs[x].parent /\ docs'[x].tree = docs[x].tree
                             /\ docs'[x].current = docs[x].current \/ docs[x].tree = tree
    BY <1>3, <1>6 DEF DocRow
<1>8. NewVersion(docs, docs', a, nodes[n].doc)
    <2> HIDE DEF a, kin
    <2> QED
        BY <1>1, <1>3, <1>5, <1>7 DEF NewVersion
<1>9. /\ row \in NodeRow /\ row.current /\ row.path = nodes[n].path /\ row.doc = a
      /\ row.ver = nodes[n].ver + 1 /\ row.corpus = nodes[n].corpus
      /\ row.deleted = nodes[n].deleted
    <2>1. nodes[n].ver + 1 \in Nat
        BY <1>1 DEF NodeRow
    <2>2. (IF e = NoExt THEN nodes[n].ext ELSE e) \in Lineage
        BY <1>1 DEF NodeRow
    <2>3. row = [nodes[n] EXCEPT !.doc = a, !.ver = nodes[n].ver + 1,
                            !.ext = IF e = NoExt THEN nodes[n].ext ELSE e]
        BY <1>1 DEF NodeRow
    <2> HIDE DEF row, a
    <2> QED
        BY <1>1, <1>3, <2>1, <2>2, <2>3 DEF NodeRow
<1>10. Supersede(n, row)
    BY DEF VersionUp
<1>11. lastDoc' = a /\ a <= MaxDocs
    BY <1>2, BoundsAssumption DEF VersionUp, RowsIn
<1>12. Len(row.path.sfx) <= Len(nodes[n].path.sfx) + 1
    BY <1>1, <1>9
<1> HIDE DEF row, a
<1>13. /\ Succeeds(nodes, nodes', {n}, {b}) /\ ShortPaths(nodes')
       /\ View(nodes'[b]) = View(row) /\ Bounded(lastDoc, lastNode')
    BY <1>1, <1>9, <1>10, <1>12, SupersedeSucceeds
<1>14. Bounded(lastDoc', lastNode')
    BY <1>11, <1>13 DEF Bounded
<1>15. /\ nodes'[b].corpus = nodes[n].corpus /\ nodes'[b].path = nodes[n].path
       /\ nodes'[b].deleted = nodes[n].deleted /\ nodes'[b].doc = a
       /\ nodes'[b].ver = nodes[n].ver + 1
    BY <1>9, <1>13 DEF View
<1> HIDE DEF b
<1> QED
    BY <1>8, <1>13, <1>14, <1>15, NewVersionFiles

(* Metadata written in place: nothing to see.                                *)
LEMMA ImportMetadataFiles ==
    ASSUME Inv, Inv', Forest(docs, nodes), Bounded(lastDoc, lastNode),
           NEW c, NEW p, NEW e, ImportMetadata(c, p, e)
    PROVE  Forest(docs', nodes') /\ Bounded(lastDoc', lastNode') /\ FilesNow' = FilesNow
<1> DEFINE S == {}
           F  == FilesOf(docs, nodes)
           F2 == FilesOf(docs', nodes')
<1>1. /\ DOMAIN nodes' = DOMAIN nodes /\ docs' = docs
      /\ lastDoc' = lastDoc /\ lastNode' = lastNode
      /\ \A x \in DOMAIN nodes : SameRow(nodes'[x], nodes[x])
                                 /\ nodes'[x].current = nodes[x].current
    BY ImportMetadataRows
<1>2. Succeeds(nodes, nodes', S, S)
    BY <1>1 DEF Succeeds
<1>3. ShortPaths(nodes')
    BY <1>1 DEF Forest, ShortPaths, SameRow
<1>4. \A n \in DOMAIN nodes' : n \in Nat \ {NULL}
    BY <1>1, InvRowsIn DEF RowsIn, NULL
<1>5. \A m \in S : nodes'[m].doc = nodes[nodes'[m].parent].doc
                   /\ nodes'[m].ver = nodes[nodes'[m].parent].ver
    OBVIOUS
<1>6. ForeignKeys(docs, nodes)
    BY InvRowsIn DEF RowsIn
<1>7. \A n \in Heads(nodes) : n \in Heads(nodes) \ S
    OBVIOUS
<1> HIDE DEF S
<1>8. Forest(docs, nodes') /\ Follows(docs, nodes, docs, nodes', S, S)
    BY <1>2, <1>3, <1>4, <1>5, <1>6, SameDocsForest
<1>9. OneHead(docs, nodes) /\ OneHead(docs, nodes') /\ F2 = FilesOf(docs, nodes')
    BY <1>1, <1>8 DEF Forest
<1>10. /\ DOMAIN F2 = DOMAIN F
       /\ \A n \in Heads(nodes) \ S : F2[TreeIn(docs, nodes, n)] = F[TreeIn(docs, nodes, n)]
    BY <1>8, <1>9, SuccessorsFiles
<1>11. IsFunction(F) /\ IsFunction(F2) /\ DOMAIN F = HeadTrees(docs, nodes)
    BY <1>9, FilesOfIs
<1>12. FilesNow = F /\ FilesNow' = F2
    BY FilesNowIs
<1> HIDE DEF F, F2
<1>13. \A t \in DOMAIN F : F2[t] = F[t]
    BY <1>7, <1>10, <1>11 DEF HeadTrees
<1>14. F2 = F
    BY <1>10, <1>11, <1>13 DEF IsFunction
<1> QED
    BY <1>1, <1>8, <1>12, <1>14 DEF Bounded

(* Active heads of one corpus are trashed: so are their files.               *)
LEMMA TrashFiles ==
    ASSUME Inv, Inv', Forest(docs, nodes), NEW mem,
           \A n \in DOMAIN mem : n \in Active(nodes) /\ mem[n] = nodes[n],
           \A m, n \in DOMAIN mem : nodes[m].corpus = nodes[n].corpus,
           nodes' = Replaced(mem, TrashNodes(mem)), docs' = docs
    PROVE  Forest(docs', nodes') /\ Files!Next
<1> DEFINE S   == DOMAIN mem
           new == TrashNodes(mem)
           B   == DOMAIN new
           F   == FilesOf(docs, nodes)
           T   == {TreeIn(docs, nodes, n) : n \in S}
<1>1. RowsIn(docs, nodes, lastDoc, lastNode) /\ RowsIn(docs', nodes', lastDoc', lastNode')
    BY InvRowsIn, InvRowsInNext
<1>2. \A n \in S : n \in DOMAIN nodes /\ mem[n] = nodes[n] /\ n \in Heads(nodes)
    BY DEF Active, Heads
<1>3. /\ Retires(nodes, nodes', S, new)
      /\ B = {NewId(mem, n) : n \in S}
      /\ \A n \in S : TrashOf(new[NewId(mem, n)], n) /\ NewId(mem, n) > lastNode
      /\ \A m, n \in S : NewId(mem, m) = NewId(mem, n) => m = n
    BY <1>2, TrashRetires
<1>4. /\ \A n \in DOMAIN nodes : nodes[n] \in NodeRow /\ n \in 1..lastNode
      /\ lastNode \in Nat
    BY <1>1 DEF RowsIn
<1>5. ASSUME NEW m \in B
      PROVE  \E n \in S : m = NewId(mem, n) /\ TrashOf(new[m], n) /\ n < m
    <2>1. PICK n \in S : m = NewId(mem, n)
        BY <1>3
    <2>2. TrashOf(new[m], n) /\ m > lastNode
        BY <1>3, <2>1
    <2>3. m \in DOMAIN nodes'
        BY <1>3 DEF Retires
    <2>4. m \in Nat /\ n \in 1..lastNode
        BY <1>1, <1>2, <1>4, <2>3 DEF RowsIn
    <2>5. n < m
        BY <1>4, <2>2, <2>4
    <2> QED
        BY <2>1, <2>2, <2>5
<1> HIDE DEF new, B, S
<1>6. S \subseteq Heads(nodes) /\ B = DOMAIN new
    BY <1>2 DEF B
<1>7. \A m \in B : new[m].current /\ new[m].parent \in S /\ new[m].parent < m
    BY <1>5 DEF TrashOf
<1>8. \A m, n \in B : new[m].parent = new[n].parent => m = n
    BY <1>5 DEF TrashOf
<1>9. \A n \in S : \E m \in B : new[m].parent = n
    BY <1>3 DEF TrashOf
<1>10. Succeeds(nodes, nodes', S, B)
    BY <1>3, <1>4, <1>6, <1>7, <1>8, <1>9, RetiresSucceeds DEF B
<1>11. ASSUME NEW m \in B
       PROVE  /\ nodes'[m].parent \in S /\ nodes'[m].parent \in DOMAIN nodes
              /\ nodes'[m].doc = nodes[nodes'[m].parent].doc
              /\ nodes'[m].ver = nodes[nodes'[m].parent].ver
              /\ nodes'[m].path = nodes[nodes'[m].parent].path
              /\ nodes'[m].corpus = nodes[nodes'[m].parent].corpus
              /\ nodes'[m].deleted
    <2>1. nodes'[m] = new[m]
        BY <1>3, <1>6 DEF Retires
    <2> QED
        BY <1>2, <1>5, <2>1 DEF TrashOf
<1>12. ShortPaths(nodes')
    <2>1. \A n \in DOMAIN nodes' : n \in Nat
        BY <1>1 DEF RowsIn
    <2>2. ShortPaths(nodes)
        BY DEF Forest
    <2>3. ASSUME NEW m \in B
          PROVE  /\ nodes'[m].path.sfx \in Seq(1..MaxSuffix)
                 /\ Len(nodes'[m].path.sfx) <= Len(nodes[nodes'[m].parent].path.sfx) + 1
        <3> DEFINE s == nodes[nodes'[m].parent].path.sfx
        <3>1. nodes'[m].path.sfx = s /\ s \in Seq(1..MaxSuffix)
            BY <1>11, <2>2 DEF ShortPaths
        <3> HIDE DEF s
        <3>2. Len(s) \in Nat
            BY <3>1
        <3>3. nodes'[m].path.sfx \in Seq(1..MaxSuffix) /\ Len(nodes'[m].path.sfx) <= Len(s) + 1
            BY <3>1, <3>2
        <3> QED
            BY <3>3 DEF s
    <2> QED
        BY <1>10, <2>1, <2>2, <2>3, SuccessorsShortPaths
<1>13. \A n \in DOMAIN nodes' : n \in Nat \ {NULL}
    BY <1>1 DEF RowsIn, NULL
<1>14. ForeignKeys(docs, nodes)
    BY <1>1 DEF RowsIn
<1>15. Forest(docs, nodes') /\ Follows(docs, nodes, docs, nodes', S, B)
    BY <1>10, <1>11, <1>12, <1>13, <1>14, SameDocsForest
<1>16. OneHead(docs, nodes) /\ OneHead(docs, nodes')
    BY <1>15 DEF Forest
<1>17. \A m \in B : View(nodes'[m]) = [View(nodes[nodes'[m].parent]) EXCEPT !.trashed = TRUE]
    <2>1. ASSUME NEW m \in B
          PROVE  View(nodes'[m]) = [View(nodes[nodes'[m].parent]) EXCEPT !.trashed = TRUE]
        <3>1. nodes'[m] \in NodeRow
            BY <1>1, <1>10 DEF Succeeds, RowsIn
        <3> DEFINE x == nodes[nodes'[m].parent]
                   y == nodes'[m]
        <3>2. PICK yes : yes = TRUE
            OBVIOUS
        <3>3. /\ y.deleted = yes /\ y.doc = x.doc /\ y.ver = x.ver
              /\ y.path = x.path /\ y.corpus = x.corpus
            BY <1>11, <3>1, <3>2 DEF NodeRow
        <3> HIDE DEF x, y
        <3>4. View(y) = [View(x) EXCEPT !.trashed = yes]
            BY <3>3 DEF View
        <3> QED
            BY <3>4, <3>2 DEF x, y
    <2> QED
        BY <2>1
<1>18. FilesOf(docs, nodes') = [t \in DOMAIN F |-> [F[t] EXCEPT !.trashed = @ \/ t \in T]]
    BY <1>4, <1>15, <1>16, <1>17, FilesTrashed
<1>19. FilesNow = F /\ FilesNow' = FilesOf(docs, nodes')
    BY FilesNowIs
<1>20. /\ DOMAIN F = HeadTrees(docs, nodes)
       /\ \A n \in Heads(nodes) : F[TreeIn(docs, nodes, n)] = View(nodes[n])
    BY <1>16, FilesOfIs
<1> HIDE DEF F
<1>21. T \in SUBSET DOMAIN F
    BY <1>6, <1>20 DEF HeadTrees
<1>22. \A n \in S : /\ ~F[TreeIn(docs, nodes, n)].trashed
                    /\ F[TreeIn(docs, nodes, n)].corpus = nodes[n].corpus
    <2>1. ASSUME NEW n \in S
          PROVE  /\ ~F[TreeIn(docs, nodes, n)].trashed
                 /\ F[TreeIn(docs, nodes, n)].corpus = nodes[n].corpus
        <3>1. ~nodes[n].deleted
            BY DEF S, Active
        <3>2. F[TreeIn(docs, nodes, n)] = View(nodes[n])
            BY <1>6, <1>20
        <3> QED
            BY <3>1, <3>2 DEF View
    <2> QED
        BY <2>1
<1>23. \A m, n \in S : nodes[m].corpus = nodes[n].corpus
    BY DEF S
<1>24. \A f \in T : ~F[f].trashed
    BY <1>22
<1>25. \A f, g \in T : F[f].corpus = F[g].corpus
    BY <1>22, <1>23
<1> HIDE DEF T
<1>26. Files!Trash(T)
    BY <1>18, <1>19, <1>24, <1>25 DEF Files!Trash
<1> QED
    BY <1>15, <1>19, <1>21, <1>26 DEF Files!Next

(* empty_corpus trashes files of the corpus.                                 *)
LEMMA EmptyCorpusFiles ==
    ASSUME Inv, Inv', Forest(docs, nodes), Bounded(lastDoc, lastNode),
           NEW c, EmptyCorpus(c)
    PROVE  Forest(docs', nodes') /\ Bounded(lastDoc', lastNode') /\ Files!Next
<1>0. PICK D : BulkSoftDelete(c, D)
    BY DEF EmptyCorpus
<1> DEFINE H   == UNION {ActiveOf(d, c) : d \in D}
           mem == Rows(nodes, H)
<1>1. /\ nodes' = Replaced(mem, TrashNodes(mem)) /\ docs' = docs /\ lastDoc' = lastDoc
      /\ lastNode + Cardinality(H) <= MaxNodes /\ lastNode' = lastNode + Cardinality(H)
    BY <1>0 DEF BulkSoftDelete
<1>2. \A n \in DOMAIN mem : n \in Active(nodes) /\ mem[n] = nodes[n] /\ nodes[n].corpus = c
    BY DEF Rows, ActiveOf
<1>3. Bounded(lastDoc', lastNode')
    BY <1>1 DEF Bounded
<1> HIDE DEF mem
<1> QED
    BY <1>1, <1>2, <1>3, TrashFiles

(* What a step owes the filesystem, and what later steps need of it.         *)
FilesStep == Forest(docs', nodes') /\ Bounded(lastDoc', lastNode') /\ [Files!Next]_FilesNow

(* Every locked request is a step of the filesystem, or cannot be seen.      *)
LEMMA LockedRequestFiles ==
    ASSUME Inv, Inv', Forest(docs, nodes), Bounded(lastDoc, lastNode), LockedRequest
    PROVE  FilesStep
<1>1. \A n \in Active(nodes) : /\ nodes[n].path \in Path
                               /\ nodes[n].path.sfx \in Seq(1..MaxSuffix)
                               /\ Len(nodes[n].path.sfx) \in Nat
    BY ActiveFacts
<1>2. PICK cp \in Corpora :
        \/ \E dir \in Dirs, name \in Names, e \in Lineage :
              LET p == [dir |-> dir, name |-> name, sfx |-> <<>>]
              IN  ImportNew(cp, p, e) \/ AddDocument(cp, p, e)
        \/ \E n \in Active(nodes), e \in Lineage :
              \/ ImportVersion(cp, nodes[n].path, e)
              \/ ImportMetadata(cp, nodes[n].path, e)
              \/ RecordMetadata(cp, nodes[n].path, e)
        \/ \E d \in DOMAIN docs :
              \/ \E dir \in Dirs : MoveToFolder(d, cp, dir)
              \/ \E name \in Names : Rename(d, cp, name)
        \/ EmptyCorpus(cp)
    BY DEF LockedRequest
<1>3. ASSUME NEW p \in Path, p.sfx = <<>>, NEW e \in Lineage, ImportNew(cp, p, e)
      PROVE  FilesStep
    <2>1. p \notin Occupied(cp, {})
        BY <1>3 DEF ImportNew, ActiveAt, Occupied
    <2>2. p.sfx \in Seq(1..MaxSuffix) /\ Len(p.sfx) <= 1
        BY <1>3
    <2> QED
        BY <1>3, <2>1, <2>2, NewTreeFiles DEF ImportNew, FilesStep
<1>4. ASSUME NEW p \in Path, p.sfx = <<>>, NEW e \in Lineage, AddDocument(cp, p, e)
      PROVE  FilesStep
    <2>1. PICK q \in Disambiguated(cp, p, {}) : NewTree(cp, q, e)
        BY <1>4 DEF AddDocument
    <2>2. q \in Path /\ q \notin Occupied(cp, {})
        BY DisambiguatedIsPath, DisambiguatedIsFree
    <2>3. p.sfx \in Seq(1..MaxSuffix) /\ Len(p.sfx) = 0
        BY <1>4
    <2>4. q.sfx \in Seq(1..MaxSuffix) /\ Len(q.sfx) <= 1
        BY <2>3, SuffixedShort
    <2> QED
        BY <2>1, <2>2, <2>4, NewTreeFiles DEF FilesStep
<1>5. ASSUME NEW p, NEW e \in Lineage, ImportVersion(cp, p, e)
      PROVE  FilesStep
    <2>1. PICK n \in ActiveAt(cp, p) : VersionUp(n, nodes[n].doc, nodes[n].ver + 1, e)
        BY <1>5 DEF ImportVersion
    <2>2. n \in Active(nodes)
        BY DEF ActiveAt
    <2> QED
        BY <2>1, <2>2, VersionUpFiles DEF FilesStep
<1>6. ASSUME NEW p, NEW e \in Lineage, ImportMetadata(cp, p, e)
      PROVE  FilesStep
    BY <1>6, ImportMetadataFiles DEF FilesStep
<1>7. ASSUME NEW p, NEW e \in Lineage, RecordMetadata(cp, p, e)
      PROVE  FilesStep
    BY <1>7, RecordMetadataFiles DEF FilesStep
<1>8. ASSUME NEW d, NEW dir \in Dirs, MoveToFolder(d, cp, dir)
      PROVE  FilesStep
    <2> DEFINE base(n) == [nodes[n].path EXCEPT !.dir = dir]
    <2>1. PICK n \in ActiveOf(d, cp) : Relocate(n, base(n))
        BY <1>8 DEF MoveToFolder, First
    <2>2. n \in Active(nodes)
        BY DEF ActiveOf
    <2>3. base(n) \in Path /\ base(n).sfx = nodes[n].path.sfx
        BY <1>1, <2>2 DEF Path
    <2> HIDE DEF base
    <2>4. base(n).sfx \in Seq(1..MaxSuffix) /\ Len(base(n).sfx) <= Len(nodes[n].path.sfx)
        BY <1>1, <2>2, <2>3
    <2> QED
        BY <2>1, <2>2, <2>3, <2>4, RelocateFiles DEF FilesStep
<1>9. ASSUME NEW d, NEW name \in Names, Rename(d, cp, name)
      PROVE  FilesStep
    <2> DEFINE base(n) == [nodes[n].path EXCEPT !.name = name, !.sfx = <<>>]
    <2>1. PICK n \in ActiveOf(d, cp) : Relocate(n, base(n))
        BY <1>9 DEF Rename, First
    <2>2. n \in Active(nodes) /\ nodes[n].path \in Path
        BY <1>1 DEF ActiveOf
    <2>3. base(n) \in Path /\ base(n).sfx = <<>>
        <3>1. <<>> \in Seq(Nat)
            OBVIOUS
        <3> QED
            BY <2>2, <3>1 DEF Path
    <2> HIDE DEF base
    <2>4. base(n).sfx \in Seq(1..MaxSuffix) /\ Len(base(n).sfx) <= Len(nodes[n].path.sfx)
        <3>1. Len(nodes[n].path.sfx) \in Nat
            BY <1>1, <2>2
        <3>2. base(n).sfx \in Seq(1..MaxSuffix) /\ Len(base(n).sfx) = 0
            BY <2>3
        <3> QED
            BY <3>1, <3>2
    <2> QED
        BY <2>1, <2>2, <2>3, <2>4, RelocateFiles DEF FilesStep
<1>10. ASSUME EmptyCorpus(cp) PROVE FilesStep
    BY <1>10, EmptyCorpusFiles DEF FilesStep
<1>11. \A dir \in Dirs, name \in Names :
          LET p == [dir |-> dir, name |-> name, sfx |-> <<>>] IN p \in Path /\ p.sfx = <<>>
    BY DEF Path
<1> QED
    BY <1>2, <1>3, <1>4, <1>5, <1>6, <1>7, <1>8, <1>9, <1>10, <1>11

(* A commit that takes effect writes its tables; one that does not, nothing. *)
LEMMA FinishCases ==
    ASSUME NEW r, NEW D, NEW N, NEW i, NEW j, Finish(r, D, N, i, j),
           Forest(docs, nodes), Bounded(lastDoc, lastNode)
    PROVE  \/ FilesStep
           \/ /\ SchemaOK(D, N) /\ docs' = D /\ nodes' = N
              /\ lastDoc' = lastDoc + i /\ lastNode' = lastNode + j
              /\ Bounded(lastDoc', lastNode')
<1>1. CASE SchemaOK(D, N)
    BY <1>1 DEF Finish, Bounded
<1>2. CASE ~SchemaOK(D, N)
    <2>1. docs' = docs /\ nodes' = nodes /\ lastDoc' = lastDoc /\ lastNode' = lastNode
        BY <1>2 DEF Finish
    <2> QED
        BY <2>1, FilesNowIs DEF FilesStep
<1> QED
    BY <1>1, <1>2

(* A request that changes no table cannot be seen.                           *)
LEMMA NothingWritten ==
    ASSUME Forest(docs, nodes), Bounded(lastDoc, lastNode),
           UNCHANGED <<docs, nodes, lastDoc, lastNode>>
    PROVE  FilesStep
    BY FilesNowIs DEF FilesStep

(* Saved rows that are fresh.                                                *)
LEMMA TrashCommit ==
    ASSUME Inv, Inv', Forest(docs, nodes), Bounded(lastDoc', lastNode'), NEW mem, NEW d,
           \A n \in DOMAIN mem : n \in DOMAIN nodes /\ nodes[n] = mem[n],
           \A n \in DOMAIN mem : mem[n].current /\ ~mem[n].deleted /\ mem[n].doc = d,
           nodes' = Replaced(mem, TrashNodes(mem)), docs' = docs
    PROVE  FilesStep
<1>1. \A n \in DOMAIN mem : n \in Active(nodes) /\ mem[n] = nodes[n]
    BY DEF Active
<1>2. \A m, n \in DOMAIN mem : m = n
    <2>1. \A n \in DOMAIN mem : n \in Heads(nodes) /\ nodes[n].doc = d
        BY DEF Heads
    <2> QED
        BY <2>1 DEF Forest, OneHead, TreeIn
<1>3. \A m, n \in DOMAIN mem : nodes[m].corpus = nodes[n].corpus
    BY <1>2
<1> QED
    BY <1>1, <1>3, TrashFiles DEF FilesStep

(* soft_delete_document puts one file in the trash.                          *)
LEMMA CommitSoftDeleteFiles ==
    ASSUME Inv, Inv', Forest(docs, nodes), Bounded(lastDoc, lastNode),
           NEW r \in Requests, Fresh(op[r], docs, nodes), CommitSoftDelete(r)
    PROVE  FilesStep
<1> DEFINE mem == op[r].nodes
<1>1. /\ \A n \in DOMAIN mem : n \in DOMAIN nodes /\ nodes[n] = mem[n]
      /\ \A n \in DOMAIN mem : mem[n].current /\ ~mem[n].deleted /\ mem[n].doc = op[r].doc
    BY DEF CommitSoftDelete, Fresh
<1>2. Finish(r, docs, Replaced(mem, TrashNodes(mem)), 0, 1)
    BY DEF CommitSoftDelete
<1> HIDE DEF mem
<1>3. \/ FilesStep
      \/ /\ docs' = docs /\ nodes' = Replaced(mem, TrashNodes(mem))
         /\ Bounded(lastDoc', lastNode')
    BY <1>2, FinishCases
<1> QED
    BY <1>1, <1>3, TrashCommit

(* Corpus.remove_document puts one file in the trash.                        *)
LEMMA CommitRemoveFiles ==
    ASSUME Inv, Inv', Forest(docs, nodes), Bounded(lastDoc, lastNode),
           NEW r \in Requests, Fresh(op[r], docs, nodes), CommitRemove(r)
    PROVE  FilesStep
<1> DEFINE mem == op[r].nodes
           now == Rows(nodes, DOMAIN mem)
           new == TrashNodes(mem)
<1>1. /\ \A n \in DOMAIN mem : n \in DOMAIN nodes /\ nodes[n] = mem[n]
      /\ \A n \in DOMAIN mem : mem[n].current /\ ~mem[n].deleted /\ mem[n].doc = op[r].doc
    BY DEF CommitRemove, Fresh
<1>2. Finish(r, docs, Replaced(now, new), 0, Cardinality(DOMAIN mem))
    BY <1>1 DEF CommitRemove
<1>3. Replaced(now, new) = Replaced(mem, new)
    <2>1. DOMAIN now = DOMAIN mem /\ \A n \in DOMAIN mem : now[n] = mem[n]
        BY <1>1 DEF Rows
    <2> HIDE DEF now, mem, new
    <2>2. Retired(now) = Retired(mem)
        BY <2>1 DEF Retired
    <2> QED
        BY <2>2 DEF Replaced
<1> HIDE DEF mem, now
<1>4. \/ FilesStep
      \/ /\ docs' = docs /\ nodes' = Replaced(now, new)
         /\ Bounded(lastDoc', lastNode')
    BY <1>2, FinishCases
<1> QED
    BY <1>1, <1>3, <1>4, TrashCommit

(* One saved row, and one new row in its place.                              *)
LEMMA OneReplaced ==
    ASSUME Inv, Inv', Forest(docs, nodes), NEW n \in Heads(nodes), NEW mem, NEW row,
           DOMAIN mem = {n}, mem[n] = nodes[n], row.parent = n, row.current,
           row.path.sfx \in Seq(1..MaxSuffix),
           Len(row.path.sfx) <= Len(nodes[n].path.sfx) + 1,
           nodes' = Replaced(mem, Row(lastNode + 1, row))
    PROVE  /\ Succeeds(nodes, nodes', {n}, {lastNode + 1}) /\ ShortPaths(nodes')
           /\ nodes'[lastNode + 1] = row
<1> DEFINE b   == lastNode + 1
           new == Row(b, row)
           S   == {n}
<1>1. RowsIn(docs, nodes, lastDoc, lastNode) /\ RowsIn(docs', nodes', lastDoc', lastNode')
    BY InvRowsIn, InvRowsInNext
<1>2. n \in DOMAIN nodes /\ n \in 1..lastNode /\ lastNode \in Nat
    BY <1>1 DEF RowsIn, Heads
<1>3. n < b /\ b \notin DOMAIN nodes
    BY <1>1, <1>2 DEF RowsIn
<1>4. DOMAIN new = {b} /\ new[b] = row
    BY DEF Row
<1>5. nodes' = Replaced(mem, new) /\ DOMAIN mem = S
    OBVIOUS
<1> HIDE DEF new, b
<1>6. \A m \in DOMAIN mem : m \in DOMAIN nodes /\ mem[m] = nodes[m]
    BY <1>2
<1>7. DOMAIN new \cap DOMAIN nodes = {}
    BY <1>3, <1>4
<1>8. Retires(nodes, nodes', DOMAIN mem, new)
    BY <1>5, <1>6, <1>7, ReplacedRetires
<1> HIDE DEF S
<1>9. nodes'[b] = row
    BY <1>4, <1>8 DEF Retires
<1>10. /\ S \subseteq Heads(nodes)
       /\ \A m \in DOMAIN nodes : nodes[m] \in NodeRow
       /\ \A m \in DOMAIN new : new[m].current /\ new[m].parent \in S /\ new[m].parent < m
       /\ \A m, x \in DOMAIN new : new[m].parent = new[x].parent => m = x
       /\ \A x \in S : \E m \in DOMAIN new : new[m].parent = x
       /\ Retires(nodes, nodes', S, new)
    BY <1>1, <1>3, <1>4, <1>5, <1>8 DEF S, RowsIn
<1>11. Succeeds(nodes, nodes', S, DOMAIN new)
    BY <1>10, RetiresSucceeds
<1>12. ShortPaths(nodes')
    <2>1. \A m \in DOMAIN nodes' : m \in Nat
        BY <1>1 DEF RowsIn
    <2>2. ShortPaths(nodes)
        BY DEF Forest
    <2>3. \A m \in DOMAIN new :
             /\ nodes'[m].path.sfx \in Seq(1..MaxSuffix)
             /\ Len(nodes'[m].path.sfx) <= Len(nodes[nodes'[m].parent].path.sfx) + 1
        BY <1>4, <1>9
    <2> QED
        BY <1>11, <2>1, <2>2, <2>3, SuccessorsShortPaths
<1> QED
    BY <1>4, <1>9, <1>11, <1>12 DEF S, b

(* What a row shows that differs in path and comes out of the trash.         *)
Back(view, q, out) == [[view EXCEPT !.place = q] EXCEPT !.trashed = out]

(* What a head shows once its file is out of the trash.                      *)
LEMMA BackView ==
    ASSUME NEW x, NEW y, NEW q, NEW out, y.corpus = x.corpus, y.path = q,
           y.deleted = out, y.doc = x.doc, y.ver = x.ver
    PROVE  View(y) = Back(View(x), q, out)
<1> DEFINE s == [View(x) EXCEPT !.place = q]
<1>1. s = [corpus |-> x.corpus, place |-> q, doc |-> x.doc, ver |-> x.ver,
           trashed |-> x.deleted]
    BY DEF View
<1> HIDE DEF s
<1>2. View(y) = [s EXCEPT !.trashed = out]
    BY <1>1 DEF View
<1> QED
    BY <1>2 DEF s, Back

(* A restore takes one file out of the trash, to a free place.               *)
LEMMA CommitRestoreFiles ==
    ASSUME Inv, Inv', Forest(docs, nodes), Bounded(lastDoc, lastNode),
           NEW r \in Requests, Fresh(op[r], docs, nodes), CommitRestore(r)
    PROVE  FilesStep
<1> DEFINE mem == op[r].nodes
           b   == lastNode + 1
           row(n, q) == [mem[n] EXCEPT !.parent = n, !.path = q, !.deleted = FALSE,
                                       !.current = TRUE, !.ext = NoExt]
<1>1. PICK n \in DOMAIN mem :
        \/ Fail(r)
        \/ \E q \in Disambiguated(mem[n].corpus, mem[n].path, {}) :
              Finish(r, docs, Replaced(mem, Row(b, row(n, q))), 0, 1)
    BY DEF CommitRestore
<1>2. CASE Fail(r)
    BY <1>2, NothingWritten DEF Fail
<1>3. ASSUME NEW q \in Disambiguated(mem[n].corpus, mem[n].path, {}),
             Finish(r, docs, Replaced(mem, Row(b, row(n, q))), 0, 1)
      PROVE  FilesStep
    <2>1. DOMAIN mem = {n}
        <3>1. PICK h, tr, c : Agree(h, tr, c)
            BY DEF Inv
        <3>2. \E m : DOMAIN mem = {m}
            BY <3>1 DEF CommitRestore, Agree, RequestOK
        <3> QED
            BY <3>2
    <2>2. /\ n \in DOMAIN nodes /\ nodes[n] = mem[n] /\ mem[n].current /\ mem[n].deleted
        BY DEF CommitRestore, Fresh
    <2>3. \/ FilesStep
          \/ /\ docs' = docs /\ nodes' = Replaced(mem, Row(b, row(n, q)))
             /\ Bounded(lastDoc', lastNode')
        BY <1>3, FinishCases
    <2>4. n \in Heads(nodes) /\ n \in Trashed(nodes)
        BY <2>2 DEF Heads, Trashed
    <2>5. RowsIn(docs, nodes, lastDoc, lastNode) /\ RowsIn(docs', nodes', lastDoc', lastNode')
        BY InvRowsIn, InvRowsInNext
    <2>6. nodes[n] \in NodeRow /\ nodes[n].path \in Path
        BY <2>2, <2>5 DEF RowsIn, NodeRow
    <2>7. /\ row(n, q).parent = n /\ row(n, q).current /\ row(n, q).path = q
          /\ row(n, q).deleted = FALSE /\ row(n, q).doc = nodes[n].doc
          /\ row(n, q).ver = nodes[n].ver /\ row(n, q).corpus = nodes[n].corpus
        <3> HIDE DEF mem
        <3> QED
            BY <2>2, <2>6 DEF NodeRow
    <2>8. q \in Disambiguated(nodes[n].corpus, nodes[n].path, {})
        BY <2>2
    <2>9. nodes[n].path.sfx \in Seq(1..MaxSuffix)
        BY <2>2 DEF Forest, ShortPaths
    <2>10. q.sfx \in Seq(1..MaxSuffix) /\ Len(q.sfx) <= Len(nodes[n].path.sfx) + 1
        BY <2>6, <2>8, <2>9, SuffixedShort
    <2>11. q \notin Occupied(nodes[n].corpus, {n})
        <3>1. q \notin Occupied(nodes[n].corpus, {})
            BY <2>8, DisambiguatedIsFree
        <3> QED
            BY <3>1 DEF Occupied
    <2> DEFINE x == row(n, q)
               t == TreeIn(docs, nodes, n)
    <2> HIDE DEF mem, row, x, b
    <2>12. /\ x.parent = n /\ x.current /\ x.path = q /\ x.deleted = FALSE
           /\ x.doc = nodes[n].doc /\ x.ver = nodes[n].ver /\ x.corpus = nodes[n].corpus
        BY <2>7 DEF x
    <2>13. CASE /\ docs' = docs /\ nodes' = Replaced(mem, Row(b, x))
                /\ Bounded(lastDoc', lastNode')
        <3>1. /\ Succeeds(nodes, nodes', {n}, {b}) /\ ShortPaths(nodes')
              /\ nodes'[b] = x
            BY <2>1, <2>2, <2>4, <2>10, <2>12, <2>13, OneReplaced DEF b
        <3>2. /\ nodes'[b].corpus = nodes[n].corpus /\ nodes'[b].path = q
               /\ nodes'[b].deleted = FALSE /\ nodes'[b].doc = nodes[n].doc
               /\ nodes'[b].ver = nodes[n].ver
            BY <2>12, <3>1
        <3>3. /\ Forest(docs', nodes')
              /\ t \in DOMAIN FilesNow /\ IsFunction(FilesNow)
              /\ FilesNow[t] = View(nodes[n])
              /\ FilesNow' = Updated(FilesNow, t, View(nodes'[b]))
            BY <2>13, <3>1, <3>2, SameDocFiles
        <3>4. t \in 1..MaxDocs
            BY <2>2, <2>5, PlacesOK DEF Bounded
        <3>5. q \in PlacesUpTo(MaxNodes)
            <4>1. b \in DOMAIN nodes'
                BY <3>1 DEF Succeeds
            <4>2. lastDoc' <= MaxDocs /\ lastNode' <= MaxNodes
                BY <2>13 DEF Bounded
            <4>3. nodes'[b].path \in PlacesUpTo(MaxNodes)
                BY <2>5, <3>3, <4>1, <4>2, PlacesOK
            <4> QED
                BY <2>12, <3>1, <4>3
        <3>6. OneHead(docs, nodes)
            BY DEF Forest
        <3>7. Files!Here(nodes[n].corpus, q, t) = {}
            BY <2>4, <2>11, <3>6, HereIsFree
        <3>8. PICK out : out = FALSE
            OBVIOUS
        <3>9. View(nodes'[b]) = Back(FilesNow[t], q, out)
            <4>1. nodes'[b].deleted = out
                BY <3>8, <3>2
            <4>2. View(nodes'[b]) = Back(View(nodes[n]), q, out)
                BY <3>2, <4>1, BackView
            <4> QED
                BY <3>3, <4>2
        <3>10. /\ FilesNow[t].corpus = nodes[n].corpus /\ FilesNow[t].place = nodes[n].path
               /\ FilesNow[t].trashed
            BY <2>2, <3>3 DEF View
        <3> HIDE DEF t
        <3>11. FilesNow' = [FilesNow EXCEPT ![t].place = q, ![t].trashed = FALSE]
            <4>1. FilesNow' = [FilesNow EXCEPT ![t] = Back(FilesNow[t], q, FALSE)]
                BY <3>3, <3>8, <3>9 DEF Updated
            <4> QED
                BY <3>3, <4>1 DEF Back
        <3>12. Files!Restore(t, q)
            BY <3>7, <3>10, <3>11 DEF Files!Restore
        <3> QED
            BY <2>13, <3>3, <3>4, <3>5, <3>12 DEF FilesStep, Files!Next, Files!Step
    <2> QED
        BY <2>3, <2>13 DEF x
<1> QED
    BY <1>1, <1>2, <1>3

(* RestoreDocumentToVersion replaces one file's document in place.           *)
LEMMA CommitRestoreVersionFiles ==
    ASSUME Inv, Inv', SchemaOK(docs, nodes), Forest(docs, nodes), Bounded(lastDoc, lastNode),
           NEW r \in Requests, Fresh(op[r], docs, nodes), CommitRestoreVersion(r)
    PROVE  FilesStep
<1> DEFINE mem  == op[r].nodes
           dmem == op[r].docs
           cur  == op[r].doc
           a    == lastDoc + 1
           b    == lastNode + 1
           D2   == Put(Put(docs, Retired(dmem)), Row(a,
                       [tree |-> dmem[cur].tree, parent |-> cur, current |-> TRUE]))
           row(n) == [mem[n] EXCEPT !.doc = a, !.ver = @ + 1, !.parent = n, !.ext = NoExt]
<1>1. PICK n \in DOMAIN mem :
        Finish(r, D2, Replaced(mem, Row(b, row(n))), 1, 1)
    BY DEF CommitRestoreVersion
<1>2. \/ FilesStep
      \/ /\ docs' = D2 /\ nodes' = Replaced(mem, Row(b, row(n)))
         /\ Bounded(lastDoc', lastNode')
    <2> HIDE DEF D2, mem, row, b
    <2> QED
        BY <1>1, FinishCases
<1>3. RowsIn(docs, nodes, lastDoc, lastNode) /\ RowsIn(docs', nodes', lastDoc', lastNode')
    BY InvRowsIn, InvRowsInNext
<1>4. PICK h, t, c : Agree(h, t, c)
    BY DEF Inv
<1>5. /\ DOMAIN mem = {n} /\ mem[n].current
      /\ t[mem[n].doc] = dmem[cur].tree /\ DocsOK(docs, t, lastDoc)
    BY <1>4 DEF CommitRestoreVersion, Agree, RequestOK
<1>6. /\ n \in DOMAIN nodes /\ nodes[n] = mem[n] /\ ~mem[n].deleted
      /\ DOMAIN dmem = {cur} /\ cur \in DOMAIN docs /\ docs[cur] = dmem[cur] /\ dmem[cur].current
    BY DEF CommitRestoreVersion, Fresh
<1>7. n \in Heads(nodes) /\ n \in Active(nodes)
    BY <1>5, <1>6 DEF Heads, Active
<1>8. nodes[n] \in NodeRow /\ nodes[n].doc \in DOMAIN docs
    BY <1>3, <1>6 DEF RowsIn, ForeignKeys
<1>9. nodes[n].doc = cur
    <2>1. docs[nodes[n].doc].tree = docs[cur].tree
        BY <1>5, <1>6, <1>8 DEF DocsOK
    <2>2. docs[nodes[n].doc].current
        BY <1>7 DEF Forest, OneHead
    <2>3. OneCurrent(docs)
        BY SchemaParts
    <2> QED
        BY <1>6, <1>8, <2>1, <2>2, <2>3 DEF OneCurrent
<1>10. a \notin DOMAIN docs /\ a \in Nat /\ \A x \in DOMAIN docs : docs[x] \in DocRow /\ x < a
    BY <1>3 DEF RowsIn
<1>11. NewVersion(docs, D2, a, cur)
    <2>1. /\ DOMAIN D2 = DOMAIN docs \cup {a}
          /\ D2[a] = [tree |-> docs[cur].tree, parent |-> cur, current |-> TRUE]
        <3> HIDE DEF cur, dmem
        <3> QED
            BY <1>6 DEF Put, Retired, Row
    <2>2. ASSUME NEW x \in DOMAIN docs
          PROVE  D2[x] = IF x = cur THEN [docs[x] EXCEPT !.current = FALSE] ELSE docs[x]
        <3>1. x # a
            BY <1>10
        <3> HIDE DEF a, cur, dmem
        <3> QED
            BY <1>6, <3>1 DEF Put, Retired, Row
    <2> HIDE DEF D2, a, cur
    <2>3. \A x \in DOMAIN docs : /\ D2[x].parent = docs[x].parent /\ D2[x].tree = docs[x].tree
                                 /\ D2[x].current = docs[x].current \/ docs[x].tree = docs[cur].tree
        BY <1>10, <2>2 DEF DocRow
    <2> QED
        BY <1>6, <1>10, <2>1, <2>3 DEF NewVersion
<1> DEFINE x == row(n)
<1>12. /\ x.parent = n /\ x.current /\ x.path = nodes[n].path /\ x.doc = a
       /\ x.ver = nodes[n].ver + 1 /\ x.corpus = nodes[n].corpus
       /\ x.deleted = nodes[n].deleted
    <2> HIDE DEF mem, a
    <2> QED
        BY <1>5, <1>6, <1>8 DEF NodeRow
<1> HIDE DEF mem, dmem, cur, a, b, D2, row, x
<1>13. CASE /\ docs' = D2 /\ nodes' = Replaced(mem, Row(b, x))
            /\ Bounded(lastDoc', lastNode')
    <2>1. x.path.sfx \in Seq(1..MaxSuffix) /\ Len(x.path.sfx) <= Len(nodes[n].path.sfx) + 1
        <3>1. nodes[n].path.sfx \in Seq(1..MaxSuffix) /\ Len(nodes[n].path.sfx) \in Nat
            BY <1>7, ActiveFacts
        <3> QED
            BY <1>12, <3>1
    <2>2. /\ Succeeds(nodes, nodes', {n}, {b}) /\ ShortPaths(nodes')
          /\ nodes'[b] = x
        BY <1>5, <1>6, <1>7, <1>12, <1>13, <2>1, OneReplaced DEF b
    <2>3. NewVersion(docs, docs', a, nodes[n].doc)
        BY <1>9, <1>11, <1>13
    <2>4. /\ nodes'[b].corpus = nodes[n].corpus /\ nodes'[b].path = nodes[n].path
          /\ nodes'[b].deleted = nodes[n].deleted /\ nodes'[b].doc = a
          /\ nodes'[b].ver = nodes[n].ver + 1
        BY <1>12, <2>2
    <2>5. Forest(docs', nodes') /\ Files!Next
        BY <1>7, <1>13, <2>2, <2>3, <2>4, NewVersionFiles
    <2> QED
        BY <1>13, <2>5 DEF FilesStep
<1> QED
    BY <1>2, <1>13 DEF x

(* A cascade from rows of one version tree of nodes stays in the tree.       *)
LEMMA CascadeInTree ==
    ASSUME NEW D, NEW N, NodeTrees(D, N), NULL \notin DOMAIN N, NEW S, NEW t,
           \A n \in S \cap DOMAIN N : TreeIn(D, N, n) = t
    PROVE  /\ \A n \in Cascade(N, S) : n \in DOMAIN N /\ TreeIn(D, N, n) = t
           /\ S \cap DOMAIN N \subseteq Cascade(N, S)
<1> DEFINE T == {n \in DOMAIN N : TreeIn(D, N, n) = t}
<1>1. T \in SUBSET (DOMAIN N) /\ S \cap DOMAIN N \subseteq T
    OBVIOUS
<1>2. \A y \in DOMAIN N : N[y].parent \in T => y \in T
    BY DEF NodeTrees
<1>3. Cascade(N, S) \subseteq T
    BY <1>1, <1>2 DEF Cascade
<1>4. S \cap DOMAIN N \subseteq Cascade(N, S)
    BY DEF Cascade
<1> QED
    BY <1>3, <1>4

(* A permanent deletion takes one file, which was in the trash.              *)
LEMMA CommitPurgeFiles ==
    ASSUME Inv, Inv', Forest(docs, nodes), Bounded(lastDoc, lastNode),
           NEW r \in Requests, Fresh(op[r], docs, nodes), CommitPurge(r)
    PROVE  FilesStep
<1> DEFINE mem    == op[r].nodes
           d      == op[r].doc
           C      == Cascade(nodes, DOMAIN mem)
           N      == Without(nodes, C)
           shared == \E n \in DOMAIN N : /\ N[n].doc = d
                                         /\ \A m \in DOMAIN mem : N[n].corpus # mem[m].corpus
           D      == IF shared THEN docs ELSE Without(docs, Cascade(docs, {d}))
           F      == FilesOf(docs, nodes)
           F2     == FilesOf(D, N)
<1>1. Finish(r, D, N, 0, 0)
    BY DEF CommitPurge
<1>2. /\ \A n \in DOMAIN mem : n \in DOMAIN nodes /\ nodes[n] = mem[n] /\ nodes[n].doc = d
      /\ \E n \in DOMAIN mem : nodes[n].current /\ nodes[n].deleted
    BY DEF CommitPurge, Fresh
<1>3. PICK h \in DOMAIN mem : nodes[h].current /\ nodes[h].deleted
    BY <1>2
<1>4. DOMAIN D \subseteq DOMAIN docs /\ \A x \in DOMAIN D : D[x] = docs[x]
    <2> HIDE DEF shared
    <2> QED
        BY DEF Without
<1>5. DOMAIN N = DOMAIN nodes \ C /\ \A n \in DOMAIN N : N[n] = nodes[n]
    <2> HIDE DEF C
    <2> QED
        BY DEF Without
<1> HIDE DEF N, D
<1>6. \/ FilesStep
      \/ SchemaOK(D, N) /\ docs' = D /\ nodes' = N /\ Bounded(lastDoc', lastNode')
    BY <1>1, FinishCases
<1> DEFINE t == TreeIn(docs, nodes, h)
<1>7. RowsIn(docs, nodes, lastDoc, lastNode)
    BY InvRowsIn
<1>8. h \in Heads(nodes) /\ h \in DOMAIN nodes
    BY <1>2, <1>3 DEF Heads
<1>9. h \in C /\ \A n \in C : n \in DOMAIN nodes /\ TreeIn(docs, nodes, n) = t
    <2>1. NULL \notin DOMAIN nodes /\ NodeTrees(docs, nodes)
        BY <1>7 DEF RowsIn, NULL, Forest
    <2>2. \A n \in DOMAIN mem \cap DOMAIN nodes : TreeIn(docs, nodes, n) = t
        BY <1>2 DEF TreeIn
    <2> DEFINE S == DOMAIN mem
    <2>3. h \in S \cap DOMAIN nodes
        BY <1>8
    <2>4. \A n \in S \cap DOMAIN nodes : TreeIn(docs, nodes, n) = t
        BY <2>2
    <2> HIDE DEF S, t
    <2>5. /\ \A n \in Cascade(nodes, S) : n \in DOMAIN nodes /\ TreeIn(docs, nodes, n) = t
          /\ S \cap DOMAIN nodes \subseteq Cascade(nodes, S)
        BY <2>1, <2>4, CascadeInTree
    <2> QED
        BY <2>3, <2>5 DEF S
<1> HIDE DEF C, mem, d
<1>10. CASE SchemaOK(D, N) /\ docs' = D /\ nodes' = N /\ Bounded(lastDoc', lastNode')
    <2>1. ForeignKeys(D, N) /\ ParentsOK(D)
        BY <1>10, SchemaParts
    <2>2. /\ Forest(D, N)
          /\ \A n \in DOMAIN N : TreeIn(D, N, n) = TreeIn(docs, nodes, n)
        BY <1>4, <1>5, <2>1, DeletedForest
    <2>3. OneHead(docs, nodes) /\ OneHead(D, N)
        BY <2>2 DEF Forest
    <2>4. \A n \in Heads(nodes) : n # h => TreeIn(docs, nodes, n) # t
        BY <1>8, <2>3 DEF OneHead
    <2>5. Heads(N) = Heads(nodes) \ {h}
        <3>1. \A n \in Heads(nodes) : n # h => n \notin C
            BY <1>9, <2>4
        <3> QED
            BY <1>5, <1>9, <3>1 DEF Heads
    <2>6. /\ DOMAIN F = HeadTrees(docs, nodes) /\ IsFunction(F)
          /\ \A n \in Heads(nodes) : F[TreeIn(docs, nodes, n)] = View(nodes[n])
        BY <2>3, FilesOfIs
    <2>7. /\ DOMAIN F2 = HeadTrees(D, N) /\ IsFunction(F2)
          /\ \A n \in Heads(N) : F2[TreeIn(D, N, n)] = View(N[n])
        BY <2>3, FilesOfIs
    <2>8. FilesNow = F /\ FilesNow' = F2
        BY <1>10, FilesNowIs
    <2> HIDE DEF F, F2, t
    <2>9. \A n \in Heads(N) : n \in DOMAIN N /\ N[n] = nodes[n]
                              /\ TreeIn(D, N, n) = TreeIn(docs, nodes, n)
        BY <1>5, <2>2 DEF Heads
    <2>10. DOMAIN F2 = DOMAIN F \ {t}
        <3>1. ASSUME NEW n \in Heads(N) PROVE TreeIn(D, N, n) \in DOMAIN F \ {t}
            BY <2>4, <2>5, <2>6, <2>9 DEF HeadTrees
        <3>2. ASSUME NEW n \in Heads(nodes), TreeIn(docs, nodes, n) # t
              PROVE  TreeIn(docs, nodes, n) \in DOMAIN F2
            <4>1. n \in Heads(N)
                BY <2>5, <3>2 DEF t
            <4> QED
                BY <2>7, <2>9, <4>1 DEF HeadTrees
        <3> QED
            BY <2>6, <2>7, <3>1, <3>2 DEF HeadTrees
    <2>11. ASSUME NEW x \in DOMAIN F \ {t} PROVE F2[x] = F[x]
        <3>1. PICK n \in Heads(nodes) : x = TreeIn(docs, nodes, n)
            BY <2>6 DEF HeadTrees
        <3>2. n \in Heads(N)
            BY <2>5, <3>1 DEF t
        <3> QED
            BY <2>6, <2>7, <2>9, <3>1, <3>2
    <2>12. FilesNow' = [g \in DOMAIN FilesNow \ {t} |-> FilesNow[g]]
        BY <2>7, <2>8, <2>10, <2>11 DEF IsFunction
    <2>13. t \in DOMAIN FilesNow /\ FilesNow[t].trashed
        <3>1. t \in DOMAIN F /\ F[t] = View(nodes[h])
            BY <1>8, <2>6 DEF t, HeadTrees
        <3> QED
            BY <1>3, <2>8, <3>1 DEF View
    <2>14. Files!Purge(t)
        BY <2>12, <2>13 DEF Files!Purge
    <2>15. t \in 1..MaxDocs
        BY <1>7, <1>8, PlacesOK DEF t, Bounded
    <2> QED
        BY <1>10, <2>2, <2>13, <2>14, <2>15 DEF FilesStep, Files!Next, Files!Step
<1> QED
    BY <1>6, <1>10

(* Every step of every request is a step of the filesystem, or cannot be     *)
(* seen.                                                                     *)
LEMMA NextFiles ==
    ASSUME Inv, Inv', ApartInv, Next
    PROVE  FilesStep
<1>1. SchemaOK(docs, nodes) /\ Forest(docs, nodes) /\ Bounded(lastDoc, lastNode)
    BY DEF ApartInv, Bounded
<1>2. \A r \in Requests : Fresh(op[r], docs, nodes)
    BY DEF ApartInv
<1>3. CASE LockedRequest
    BY <1>1, <1>3, LockedRequestFiles
<1>4. ASSUME NEW r \in Requests, StartRequest(r) PROVE FilesStep
    <2>1. UNCHANGED <<docs, nodes, lastDoc, lastNode>>
        BY <1>4 DEF StartRequest, StartRestoreVersion, StartSoftDelete, StartRemove,
                    StartRestore, StartPurge, Start
    <2> QED
        BY <1>1, <2>1, NothingWritten
<1>5. ASSUME NEW r \in Requests, CommitRequest(r) PROVE FilesStep
    <2>1. CASE CommitSoftDelete(r)
        BY <1>1, <1>2, <2>1, CommitSoftDeleteFiles
    <2>2. CASE CommitRemove(r)
        BY <1>1, <1>2, <2>2, CommitRemoveFiles
    <2>3. CASE CommitRestore(r)
        BY <1>1, <1>2, <2>3, CommitRestoreFiles
    <2>4. CASE \E cp \in Corpora : ReadVersionPath(r, cp)
        <3>1. UNCHANGED <<docs, nodes, lastDoc, lastNode>>
            BY <2>4 DEF ReadVersionPath, Fail
        <3> QED
            BY <1>1, <3>1, NothingWritten
    <2>5. CASE CommitRestoreVersion(r)
        BY <1>1, <1>2, <2>5, CommitRestoreVersionFiles
    <2>6. CASE CommitPurge(r)
        BY <1>1, <1>2, <2>6, CommitPurgeFiles
    <2>7. CASE op[r] # Idle /\ Fail(r)
        BY <1>1, <2>7, NothingWritten DEF Fail
    <2> QED
        BY <1>5, <2>1, <2>2, <2>3, <2>4, <2>5, <2>6, <2>7 DEF CommitRequest
<1> QED
    BY <1>3, <1>4, <1>5 DEF Next

-----------------------------------------------------------------------------
(* What a request has read stays what the tables hold.                       *)

(* A request that has read nothing holds nothing that could be stale.        *)
LEMMA IdleFresh == ASSUME NEW D, NEW N PROVE Fresh(Idle, D, N)
    BY DEF Fresh, Idle, NoRows

(* The rows of a tree that a step leaves alone are where they were.          *)
LEMMA TreeRowsKept ==
    ASSUME NEW t, TreeRows(t)' = TreeRows(t)
    PROVE  /\ \A d \in DOMAIN docs :
                 docs[d].tree = t => d \in DOMAIN docs' /\ docs'[d] = docs[d]
           /\ \A n \in DOMAIN nodes :
                 docs[nodes[n].doc].tree = t => n \in DOMAIN nodes' /\ nodes'[n] = nodes[n]
<1> DEFINE D  == [d \in {x \in DOMAIN docs : docs[x].tree = t} |-> docs[d]]
           N  == [n \in {x \in DOMAIN nodes : docs[nodes[x].doc].tree = t} |-> nodes[n]]
           D2 == [d \in {x \in DOMAIN docs' : docs'[x].tree = t} |-> docs'[d]]
           N2 == [n \in {x \in DOMAIN nodes' : docs'[nodes'[x].doc].tree = t} |-> nodes'[n]]
<1>1. D2 = D /\ N2 = N
    <2>1. TreeRows(t) = <<D, N>> /\ TreeRows(t)' = <<D2, N2>>
        BY DEF TreeRows
    <2> HIDE DEF D, N, D2, N2
    <2> QED
        BY <2>1
<1>2. ASSUME NEW d \in DOMAIN docs, docs[d].tree = t
      PROVE  d \in DOMAIN docs' /\ docs'[d] = docs[d]
    <2>1. d \in DOMAIN D /\ D[d] = docs[d]
        BY <1>2
    <2>2. d \in DOMAIN D2 /\ D2[d] = docs[d]
        BY <1>1, <2>1
    <2> QED
        BY <2>2
<1>3. ASSUME NEW n \in DOMAIN nodes, docs[nodes[n].doc].tree = t
      PROVE  n \in DOMAIN nodes' /\ nodes'[n] = nodes[n]
    <2>1. n \in DOMAIN N /\ N[n] = nodes[n]
        BY <1>3
    <2>2. n \in DOMAIN N2 /\ N2[n] = nodes[n]
        BY <1>1, <2>1
    <2> QED
        BY <2>2
<1> QED
    BY <1>2, <1>3

(* So a request whose trees nobody else writes to stays fresh.               *)
LEMMA FreshKept ==
    ASSUME NEW s \in Requests, Fresh(op[s], docs, nodes), op'[s] = op[s],
           op'[s] # Idle => \A t \in TreesOf(s) : TreeRows(t)' = TreeRows(t)
    PROVE  Fresh(op'[s], docs', nodes')
<1>1. CASE op[s] = Idle
    BY <1>1, IdleFresh
<1>2. CASE op[s] # Idle
    <2>1. ASSUME NEW d \in DOMAIN op[s].docs
          PROVE  d \in DOMAIN docs' /\ docs'[d] = op[s].docs[d]
        <3>1. d \in DOMAIN docs /\ docs[d] = op[s].docs[d]
            BY DEF Fresh
        <3>2. PICK t \in TreesOf(s) : t = docs[d].tree
            BY <3>1 DEF TreesOf
        <3>3. TreeRows(t)' = TreeRows(t)
            BY <1>2
        <3> QED
            BY <3>1, <3>2, <3>3, TreeRowsKept
    <2>2. ASSUME NEW n \in DOMAIN op[s].nodes
          PROVE  n \in DOMAIN nodes' /\ nodes'[n] = op[s].nodes[n]
        <3>1. n \in DOMAIN nodes /\ nodes[n] = op[s].nodes[n]
            BY DEF Fresh
        <3>2. PICK t \in TreesOf(s) : t = docs[nodes[n].doc].tree
            BY <3>1 DEF TreesOf
        <3>3. TreeRows(t)' = TreeRows(t)
            BY <1>2
        <3> QED
            BY <3>1, <3>2, <3>3, TreeRowsKept
    <2> QED
        BY <2>1, <2>2 DEF Fresh
<1> QED
    BY <1>1, <1>2

(* A request that starts holds rows it has just read.                        *)
LEMMA StartFresh ==
    ASSUME NEW kind, NEW d, NEW r \in Requests, op = [s \in Requests |-> op[s]],
           NEW dmem, NEW nmem, Start(r, kind, d, dmem, nmem),
           Fresh([kind |-> kind, doc |-> d, docs |-> dmem, nodes |-> nmem], docs, nodes)
    PROVE  /\ Fresh(op'[r], docs', nodes')
           /\ \A s \in Requests : s # r => op'[s] = op[s]
<1> DEFINE o == [kind |-> kind, doc |-> d, docs |-> dmem, nodes |-> nmem]
<1>1. op' = [op EXCEPT ![r] = o] /\ docs' = docs /\ nodes' = nodes
    BY DEF Start
<1> HIDE DEF o
<1>2. op'[r] = o /\ \A s \in Requests : s # r => op'[s] = op[s]
    BY <1>1
<1> QED
    BY <1>1, <1>2 DEF o

(* Every request that reads without a lock starts fresh, and starts alone.   *)
LEMMA StartRequestFresh ==
    ASSUME Inv, NEW r \in Requests, StartRequest(r)
    PROVE  /\ Fresh(op'[r], docs', nodes')
           /\ \A s \in Requests : s # r => op'[s] = op[s]
<1>1. op = [s \in Requests |-> op[s]]
    BY DEF Inv
<1>2. \A S : /\ DOMAIN Rows(nodes, S) = DOMAIN nodes \cap S
             /\ \A n \in DOMAIN nodes \cap S : Rows(nodes, S)[n] = nodes[n]
    BY DEF Rows
<1>3. DOMAIN NoRows = {}
    BY DEF NoRows
<1>4. PICK d \in DOMAIN docs :
        \/ StartRestoreVersion(r, d)
        \/ \E c \in Corpora : \/ StartSoftDelete(r, d, c)
                              \/ StartRemove(r, d, c)
                              \/ StartRestore(r, d, c)
                              \/ StartPurge(r, d, c)
    BY DEF StartRequest
<1>5. CASE StartRestoreVersion(r, d)
    <2>1. PICK cur \in DOMAIN docs :
            docs[cur].current /\ Start(r, "read_version", cur, Rows(docs, {cur}), NoRows)
        BY <1>5 DEF StartRestoreVersion
    <2>2. DOMAIN Rows(docs, {cur}) = {cur} /\ Rows(docs, {cur})[cur] = docs[cur]
        BY DEF Rows
    <2>3. Fresh([kind |-> "read_version", doc |-> cur, docs |-> Rows(docs, {cur}),
                 nodes |-> NoRows], docs, nodes)
        BY <1>3, <2>1, <2>2 DEF Fresh
    <2> QED
        BY <1>1, <2>1, <2>3, StartFresh
<1>6. ASSUME NEW c \in Corpora, StartSoftDelete(r, d, c)
      PROVE  \E mem : /\ Start(r, "soft_delete", d, NoRows, mem)
                      /\ Fresh([kind |-> "soft_delete", doc |-> d, docs |-> NoRows,
                                nodes |-> mem], docs, nodes)
    <2>1. PICK n \in ActiveOf(d, c) : Start(r, "soft_delete", d, NoRows, Rows(nodes, {n}))
        BY <1>6 DEF StartSoftDelete
    <2>2. n \in DOMAIN nodes /\ nodes[n].current /\ ~nodes[n].deleted /\ nodes[n].doc = d
        BY DEF ActiveOf, Active
    <2>3. DOMAIN Rows(nodes, {n}) = {n} /\ Rows(nodes, {n})[n] = nodes[n]
        BY <2>2 DEF Rows
    <2>4. Fresh([kind |-> "soft_delete", doc |-> d, docs |-> NoRows,
                 nodes |-> Rows(nodes, {n})], docs, nodes)
        BY <1>3, <2>2, <2>3 DEF Fresh
    <2> QED
        BY <2>1, <2>4
<1>7. ASSUME NEW c \in Corpora, StartRemove(r, d, c)
      PROVE  \E mem : /\ Start(r, "remove", d, NoRows, mem)
                      /\ Fresh([kind |-> "remove", doc |-> d, docs |-> NoRows,
                                nodes |-> mem], docs, nodes)
    <2> DEFINE S   == ActiveOf(d, c)
               mem == Rows(nodes, S)
    <2>1. Start(r, "remove", d, NoRows, mem)
        BY <1>7 DEF StartRemove
    <2>2. \A n \in S : /\ n \in DOMAIN nodes /\ nodes[n].doc = d
                       /\ nodes[n].current /\ ~nodes[n].deleted
        BY DEF ActiveOf, Active
    <2> HIDE DEF S
    <2>3. \A n \in DOMAIN mem : n \in S /\ mem[n] = nodes[n]
        BY <1>2
    <2> HIDE DEF mem
    <2>4. Fresh([kind |-> "remove", doc |-> d, docs |-> NoRows, nodes |-> mem], docs, nodes)
        BY <1>3, <2>2, <2>3 DEF Fresh
    <2> QED
        BY <2>1, <2>4
<1>8. ASSUME NEW c \in Corpora, StartRestore(r, d, c)
      PROVE  \E mem : /\ Start(r, "restore", d, NoRows, mem)
                      /\ Fresh([kind |-> "restore", doc |-> d, docs |-> NoRows,
                                nodes |-> mem], docs, nodes)
    <2>1. PICK n \in TrashedOf(d, c) : Start(r, "restore", d, NoRows, Rows(nodes, {n}))
        BY <1>8 DEF StartRestore, Newest
    <2>2. n \in DOMAIN nodes /\ nodes[n].current /\ nodes[n].deleted
        BY DEF TrashedOf, Trashed
    <2>3. DOMAIN Rows(nodes, {n}) = {n} /\ Rows(nodes, {n})[n] = nodes[n]
        BY <2>2 DEF Rows
    <2>4. Fresh([kind |-> "restore", doc |-> d, docs |-> NoRows,
                 nodes |-> Rows(nodes, {n})], docs, nodes)
        BY <1>3, <2>2, <2>3 DEF Fresh
    <2> QED
        BY <2>1, <2>4
<1>9. ASSUME NEW c \in Corpora, StartPurge(r, d, c)
      PROVE  \E mem : /\ Start(r, "purge", d, NoRows, mem)
                      /\ Fresh([kind |-> "purge", doc |-> d, docs |-> NoRows,
                                nodes |-> mem], docs, nodes)
    <2> DEFINE S   == {n \in DOMAIN nodes : nodes[n].doc = d /\ nodes[n].corpus = c}
               mem == Rows(nodes, S)
    <2>1. Start(r, "purge", d, NoRows, mem) /\ TrashedOf(d, c) # {}
        BY <1>9 DEF StartPurge
    <2>2. PICK h \in S : nodes[h].current /\ nodes[h].deleted
        BY <2>1 DEF TrashedOf, Trashed
    <2>3. DOMAIN mem = S /\ \A n \in S : mem[n] = nodes[n] /\ n \in DOMAIN nodes
                                        /\ nodes[n].doc = d
        BY <1>2
    <2> HIDE DEF mem, S
    <2>4. Fresh([kind |-> "purge", doc |-> d, docs |-> NoRows, nodes |-> mem], docs, nodes)
        BY <1>3, <2>2, <2>3 DEF Fresh
    <2> QED
        BY <2>1, <2>4
<1> QED
    BY <1>1, <1>4, <1>5, <1>6, <1>7, <1>8, <1>9, StartFresh

(* RestoreDocumentToVersion stays fresh when it goes on to read a path.      *)
LEMMA ReadVersionPathFresh ==
    ASSUME Inv, NEW r \in Requests, Fresh(op[r], docs, nodes), NEW cp \in Corpora,
           ReadVersionPath(r, cp)
    PROVE  /\ Fresh(op'[r], docs', nodes')
           /\ \A s \in Requests : s # r => op'[s] = op[s]
<1>1. op = [s \in Requests |-> op[s]]
    BY DEF Inv
<1>2. CASE Fail(r)
    <2>1. op'[r] = Idle /\ \A s \in Requests : s # r => op'[s] = op[s]
        BY <1>1, <1>2 DEF Fail
    <2> QED
        BY <2>1, IdleFresh
<1>3. CASE ~Fail(r)
    <2>1. PICK n \in Active(nodes) :
            /\ op' = [op EXCEPT ![r] = [kind |-> "restore_version", doc |-> op[r].doc,
                         docs |-> op[r].docs, nodes |-> Rows(nodes, {n})]]
            /\ UNCHANGED <<docs, nodes>>
        BY <1>3 DEF ReadVersionPath, First
    <2> DEFINE o == [kind |-> "restore_version", doc |-> op[r].doc,
                     docs |-> op[r].docs, nodes |-> Rows(nodes, {n})]
    <2>2. n \in DOMAIN nodes /\ ~nodes[n].deleted
        BY DEF Active
    <2>3. DOMAIN Rows(nodes, {n}) = {n} /\ Rows(nodes, {n})[n] = nodes[n]
        BY <2>2 DEF Rows
    <2>4. op[r].kind = "read_version"
        BY DEF ReadVersionPath
    <2>5. Fresh(o, docs, nodes)
        BY <2>2, <2>3, <2>4 DEF Fresh
    <2> HIDE DEF o
    <2>6. op' = [op EXCEPT ![r] = o]
        BY <2>1 DEF o
    <2>7. op'[r] = o /\ \A s \in Requests : s # r => op'[s] = op[s]
        BY <1>1, <2>6
    <2> QED
        BY <2>1, <2>5, <2>7
<1> QED
    BY <1>2, <1>3

(* A request that goes on to its end holds nothing; one that reads on, what  *)
(* it has just read.                                                         *)
LEMMA CommitRequestFresh ==
    ASSUME Inv, NEW r \in Requests, Fresh(op[r], docs, nodes), CommitRequest(r)
    PROVE  /\ Fresh(op'[r], docs', nodes')
           /\ \A s \in Requests : s # r => op'[s] = op[s]
<1>1. op = [s \in Requests |-> op[s]]
    BY DEF Inv
<1>2. CASE \E cp \in Corpora : ReadVersionPath(r, cp)
    BY <1>2, ReadVersionPathFresh
<1>3. CASE op' = [op EXCEPT ![r] = Idle]
    <2>1. op'[r] = Idle /\ \A s \in Requests : s # r => op'[s] = op[s]
        BY <1>1, <1>3
    <2> QED
        BY <2>1, IdleFresh
<1>4. CASE CommitSoftDelete(r)
    BY <1>3, <1>4 DEF CommitSoftDelete, Finish
<1>5. CASE CommitRemove(r)
    BY <1>3, <1>5 DEF CommitRemove, Finish, Fail
<1>6. CASE CommitRestore(r)
    BY <1>3, <1>6 DEF CommitRestore, Finish, Fail
<1>7. CASE CommitRestoreVersion(r)
    BY <1>3, <1>7 DEF CommitRestoreVersion, Finish
<1>8. CASE CommitPurge(r)
    BY <1>3, <1>8 DEF CommitPurge, Finish
<1>9. CASE op[r] # Idle /\ Fail(r)
    BY <1>3, <1>9 DEF Fail
<1> QED
    BY <1>2, <1>4, <1>5, <1>6, <1>7, <1>8, <1>9 DEF CommitRequest

(* Requests that lock their rows hold none between steps.                    *)
LEMMA LockedRequestIdle == ASSUME LockedRequest PROVE op' = op
    BY DEF LockedRequest, ImportNew, AddDocument, NewTree, ImportVersion, VersionUp,
           Supersede, ImportMetadata, RecordMetadata, MoveToFolder, Rename, Relocate,
           EmptyCorpus, BulkSoftDelete

(* As long as requests keep apart, what each has read is what is there.      *)
LEMMA NextFresh ==
    ASSUME Inv, \A r \in Requests : Fresh(op[r], docs, nodes), NextApart
    PROVE  \A r \in Requests : Fresh(op'[r], docs', nodes')
<1>1. ASSUME NEW s \in Requests, op'[s] = op[s] PROVE Fresh(op'[s], docs', nodes')
    <2>1. op'[s] # Idle => \A t \in TreesOf(s) : TreeRows(t)' = TreeRows(t)
        BY DEF NextApart
    <2> QED
        BY <1>1, <2>1, FreshKept
<1>2. CASE LockedRequest
    BY <1>1, <1>2, LockedRequestIdle
<1>3. ASSUME NEW r \in Requests, StartRequest(r) \/ CommitRequest(r)
      PROVE  \A s \in Requests : Fresh(op'[s], docs', nodes')
    <2>1. /\ Fresh(op'[r], docs', nodes')
          /\ \A s \in Requests : s # r => op'[s] = op[s]
        BY <1>3, StartRequestFresh, CommitRequestFresh
    <2> QED
        BY <1>1, <2>1
<1> QED
    BY <1>2, <1>3 DEF NextApart, Next

-----------------------------------------------------------------------------
(* The invariant of requests that keep apart.                                *)

LEMMA InitApart == Init => ApartInv
<1> SUFFICES ASSUME Init PROVE ApartInv
    OBVIOUS
<1>1. DOMAIN docs = {} /\ DOMAIN nodes = {} /\ lastDoc = 0 /\ lastNode = 0
    BY DEF Init, NoRows
<1>2. SchemaOK(docs, nodes)
    BY <1>1 DEF SchemaOK, Active
<1>3. Forest(docs, nodes)
    BY <1>1 DEF Forest, DocTrees, NodeTrees, OneHead, Heads, ShortPaths, Depths
<1>4. \A r \in Requests : Fresh(op[r], docs, nodes)
    BY IdleFresh DEF Init
<1> QED
    BY <1>1, <1>2, <1>3, <1>4, BoundsAssumption DEF ApartInv

(* A step that keeps the requests apart keeps the invariant.                 *)
LEMMA NextApartInv == Inv /\ ApartInv /\ [NextApart]_vars => (Inv /\ ApartInv)'
<1> SUFFICES ASSUME Inv, ApartInv, [NextApart]_vars PROVE Inv' /\ ApartInv'
    OBVIOUS
<1>1. [Next]_vars
    BY DEF NextApart
<1>2. Inv'
    BY <1>1, NextInv
<1>3. SchemaOK(docs', nodes')
    BY <1>1, NextSchema DEF ApartInv
<1>4. CASE NextApart
    <2>1. FilesStep
        BY <1>2, <1>4, NextFiles DEF NextApart
    <2>2. \A r \in Requests : Fresh(op'[r], docs', nodes')
        BY <1>4, NextFresh DEF ApartInv
    <2> QED
        BY <1>2, <1>3, <2>1, <2>2 DEF ApartInv, FilesStep, Bounded
<1>5. CASE UNCHANGED vars
    BY <1>2, <1>5 DEF vars, ApartInv
<1> QED
    BY <1>4, <1>5

(* So the two invariants hold in every state of requests that keep apart.    *)
LEMMA AlwaysApart == SpecApart => [](Inv /\ ApartInv)
<1>1. Init => Inv /\ ApartInv
    BY InitInv, InitApart
<1> QED
    BY <1>1, NextApartInv, PTL DEF SpecApart

-----------------------------------------------------------------------------
(* What requests that keep apart can rely on.                                *)

(* OneHeadPerTree is what the invariant says of the tables as they are.      *)
LEMMA ApartOneHead == ApartInv => OneHeadPerTree
<1> SUFFICES ASSUME ApartInv PROVE OneHeadPerTree
    OBVIOUS
<1> QED
    BY DEF ApartInv, Forest, OneHead, Heads, TreeIn, OneHeadPerTree, TreeOf

(* Rule P3 over a lineage: as long as requests keep apart, a version tree is *)
(* at one place, active or in the trash, and what is there is its current    *)
(* version, for any corpora, requests, histories and numbers of rows.        *)
THEOREM OneHeadAlways == SpecApart => []OneHeadPerTree
    BY AlwaysApart, ApartOneHead, PTL

(* A store that keeps its requests apart is a filesystem: every upload, new  *)
(* version, move, rename, trash, restore and permanent deletion does to one  *)
(* file what it says, and nothing to any other.                              *)
THEOREM StoreIsAFilesystem == SpecApart => ImplementsFiles
<1>1. Init => Files!Init
    <2> SUFFICES ASSUME Init PROVE Files!Init
        OBVIOUS
    <2>1. DOMAIN nodes = {}
        BY DEF Init, NoRows
    <2>2. {TreeOf(n) : n \in Current} = {}
        BY <2>1 DEF Current
    <2>3. DOMAIN FilesNow = {}
        BY <2>2 DEF FilesNow
    <2> QED
        BY <2>2 DEF Files!Init, FilesNow
<1>2. Inv /\ ApartInv /\ (Inv /\ ApartInv)' /\ [NextApart]_vars => [Files!Next]_FilesNow
    <2> SUFFICES ASSUME Inv, ApartInv, Inv', [NextApart]_vars PROVE [Files!Next]_FilesNow
        OBVIOUS
    <2>1. CASE NextApart
        BY <2>1, NextFiles DEF NextApart, FilesStep
    <2>2. CASE UNCHANGED vars
        BY <2>2, FilesNowIs DEF vars
    <2> QED
        BY <2>1, <2>2
<1> QED
    BY <1>1, <1>2, AlwaysApart, PTL DEF SpecApart, ImplementsFiles, Files!Spec

-----------------------------------------------------------------------------
(* The version number is the depth of the document in its version tree.      *)

(* Every set of numbers that is not empty has a least one.                   *)
LEMMA LeastNumber ==
    ASSUME NEW S, S \subseteq Nat, S # {}
    PROVE  \E x \in S : \A y \in S : x <= y
<1> DEFINE R == {pair \in Nat \X Nat : pair[1] < pair[2]}
<1>1. IsWellFoundedOn(R, Nat)
    BY NatLessThanWellFounded DEF OpToRel
<1>2. PICK x \in S : \A y \in S : ~(<<y, x>> \in R)
    <2> HIDE DEF R
    <2> QED
        BY <1>1, WFMin
<1>3. \A y \in S : <<y, x>> \in Nat \X Nat
    OBVIOUS
<1>4. \A y \in S : ~(y < x)
    BY <1>2, <1>3
<1> QED
    BY <1>4

(* The body of the recursion that defines ContentVersion.                    *)
DepthStep(D, g) ==
    [d \in DOMAIN D |-> IF D[d].parent = NULL THEN 1 ELSE 1 + g[D[d].parent]]

(* ContentVersion is a solution of its equation: a count of the ancestors    *)
(* of every document is one.                                                 *)
LEMMA DepthEquation ==
    ASSUME DocTrees(docs), NEW f, Depths(docs, nodes, f)
    PROVE  ContentVersion = DepthStep(docs, ContentVersion)
<1> DEFINE g == [d \in DOMAIN docs |-> f[d]]
<1>1. g = DepthStep(docs, g)
    <2>1. ASSUME NEW d \in DOMAIN docs
          PROVE  g[d] = IF docs[d].parent = NULL THEN 1 ELSE 1 + g[docs[d].parent]
        BY DEF DocTrees, Depths
    <2> DEFINE s == DepthStep(docs, g)
    <2>2. DOMAIN s = DOMAIN docs /\ s = [d \in DOMAIN docs |-> s[d]]
        BY DEF DepthStep
    <2>3. \A d \in DOMAIN docs : g[d] = s[d]
        BY <2>1 DEF DepthStep
    <2>4. DOMAIN g = DOMAIN docs /\ g = [d \in DOMAIN docs |-> g[d]]
        OBVIOUS
    <2> HIDE DEF g, s
    <2>5. g = s
        BY <2>2, <2>3, <2>4
    <2> QED
        BY <2>5 DEF s
<1>2. ContentVersion = CHOOSE h : h = DepthStep(docs, h)
    BY DEF ContentVersion, DepthStep
<1> QED
    BY <1>1, <1>2

(* The equation has one solution, because parents are older: the oldest      *)
(* document on which two solutions differ would have a still older one.      *)
LEMMA DepthUnique ==
    ASSUME DocTrees(docs), \A d \in DOMAIN docs : d \in Nat,
           NEW f, Depths(docs, nodes, f)
    PROVE  \A d \in DOMAIN docs : ContentVersion[d] = f[d]
<1> DEFINE cv  == ContentVersion
           bad == {d \in DOMAIN docs : cv[d] # f[d]}
<1>1. \A d \in DOMAIN docs :
        cv[d] = IF docs[d].parent = NULL THEN 1 ELSE 1 + cv[docs[d].parent]
    BY DepthEquation DEF DepthStep
<1> HIDE DEF cv
<1>2. ASSUME bad # {} PROVE FALSE
    <2>1. bad \subseteq Nat
        OBVIOUS
    <2>2. PICK d \in bad : \A e \in bad : d <= e
        BY <1>2, <2>1, LeastNumber
    <2>3. docs[d].parent # NULL
        BY <1>1 DEF Depths
    <2>4. /\ docs[d].parent \in DOMAIN docs /\ docs[d].parent < d
          /\ docs[d].parent \in Nat /\ d \in Nat
        BY <2>3 DEF DocTrees
    <2>5. cv[docs[d].parent] = f[docs[d].parent]
        BY <2>2, <2>4
    <2> QED
        BY <1>1, <2>3, <2>5 DEF Depths
<1> QED
    BY <1>2 DEF cv

(* VersionIsDepth is what the invariant says of the depths.                  *)
LEMMA ApartDepths == Inv /\ ApartInv => VersionIsDepth
<1> SUFFICES ASSUME Inv, ApartInv PROVE VersionIsDepth
    OBVIOUS
<1>1. PICK f : Depths(docs, nodes, f)
    BY DEF ApartInv, Forest
<1>2. /\ \A d \in DOMAIN docs : d \in Nat
      /\ \A n \in DOMAIN nodes : nodes[n].doc \in DOMAIN docs
    BY InvRowsIn DEF RowsIn, ForeignKeys
<1>3. \A d \in DOMAIN docs : ContentVersion[d] = f[d]
    BY <1>1, <1>2, DepthUnique DEF ApartInv, Forest
<1> QED
    BY <1>1, <1>2, <1>3 DEF Depths, VersionIsDepth

(* As long as requests keep apart, calculate_content_version, which walks    *)
(* the ancestors of a document, always agrees with the version number stored *)
(* in its path nodes, along version chains of every length.                  *)
THEOREM VersionsAreDepths == SpecApart => []VersionIsDepth
    BY AlwaysApart, ApartDepths, PTL

=============================================================================
