---------------------------- MODULE DocVersioning ----------------------------
(***************************************************************************)
(* The dual-tree version store of DocLattice: the Document rows (content   *)
(* tree) and the DocumentPath rows (path tree) of the corpora, with every  *)
(* request of documents/versioning.py, corpuses/services/lifecycle.py,     *)
(* corpuses/services/folder_documents.py, corpuses/models.py and           *)
(* config/graphql/document_mutations.py that writes them.                  *)
(*                                                                         *)
(* A request that takes its rows with select_for_update is one action.  A  *)
(* request that reads them without a lock is a Start action, which copies  *)
(* the rows into op (the Python objects it holds in memory), and a Commit  *)
(* action, which runs its writes against whatever the tables hold by then. *)
(* A transaction whose result breaks the schema is rolled back.            *)
(***************************************************************************)
EXTENDS Integers, Sequences, FiniteSets

CONSTANTS
    Corpora,    \* the corpora
    Dirs,       \* directories (folders) a path can lie in
    Names,      \* file names
    ExtIds,     \* the ingestion lineage a source can stamp on a path
    NoExt,      \* "no lineage"
    Requests,   \* request slots for the operations that read without a lock
    MaxDocs,    \* bound: Document ids ever issued
    MaxNodes,   \* bound: DocumentPath ids ever issued
    MaxSuffix   \* MAX_PATH_DISAMBIGUATION_SUFFIX

ASSUME BoundsAssumption == MaxDocs \in Nat /\ MaxNodes \in Nat /\ MaxSuffix \in Nat
ASSUME NoExtAssumption == NoExt \notin ExtIds

VARIABLES
    docs,       \* Document rows, by primary key
    nodes,      \* DocumentPath rows, by primary key
    lastDoc,    \* the last Document id issued (the sequence never goes back)
    lastNode,   \* the last DocumentPath id issued; id order is creation order
    op          \* what each request in flight has read

vars == <<docs, nodes, lastDoc, lastNode, op>>

NULL == 0
Lineage == ExtIds \cup {NoExt}

(* A path: its directory, its file name and the "_k" suffixes that          *)
(* disambiguation has appended to the stem.                                  *)
Path == [dir : Dirs, name : Names, sfx : Seq(Nat)]

DocRow == [tree : Nat, parent : Nat, current : BOOLEAN]

NodeRow == [doc : Nat, corpus : Corpora, path : Path, ver : Nat, parent : Nat,
            deleted : BOOLEAN, current : BOOLEAN, ext : Lineage]

-----------------------------------------------------------------------------
(* Tables: a table is a function from the ids of its rows to the rows.       *)

NoRows == [x \in {} |-> NULL]
Row(id, r) == [x \in {id} |-> r]
Rows(f, S) == [x \in DOMAIN f \cap S |-> f[x]]
Without(f, S) == [x \in DOMAIN f \ S |-> f[x]]

(* A full Model.save(): UPDATE the row, INSERT it when it is gone.           *)
Put(f, g) == [x \in DOMAIN f \cup DOMAIN g |->
                IF x \in DOMAIN g THEN g[x] ELSE f[x]]

(* The rows f with is_current = False.                                       *)
Retired(f) == [x \in DOMAIN f |-> [f[x] EXCEPT !.current = FALSE]]

(* ON DELETE CASCADE along parent: the rows of f reached from S.             *)
Cascade(f, S) ==
    {x \in DOMAIN f : \A T \in SUBSET (DOMAIN f) :
        /\ S \cap DOMAIN f \subseteq T
        /\ \A y \in DOMAIN f : f[y].parent \in T => y \in T
        => x \in T}

Active(N) == {n \in DOMAIN N : N[n].current /\ ~N[n].deleted}
Trashed(N) == {n \in DOMAIN N : N[n].current /\ N[n].deleted}

ActiveAt(c, p) == {n \in Active(nodes) : nodes[n].corpus = c /\ nodes[n].path = p}
ActiveOf(d, c) == {n \in Active(nodes) : nodes[n].corpus = c /\ nodes[n].doc = d}
TrashedOf(d, c) == {n \in Trashed(nodes) : nodes[n].corpus = c /\ nodes[n].doc = d}

(* .first() by primary key, and by -created: the row, or none.               *)
First(S) == {n \in S : \A m \in S : n <= m}
Newest(S) == {n \in S : \A m \in S : m <= n}

(* What the database checks when a transaction commits: the foreign keys     *)
(* (document is PROTECT, so a row with a path cannot go), and the two        *)
(* partial unique constraints.                                               *)
SchemaOK(D, N) ==
    /\ \A d \in DOMAIN D : D[d].parent \in DOMAIN D \cup {NULL}
    /\ \A n \in DOMAIN N : /\ N[n].doc \in DOMAIN D
                           /\ N[n].parent \in DOMAIN N \cup {NULL}
    /\ \A d, e \in DOMAIN D :                       \* one_current_per_version_tree
          D[d].current /\ D[e].current /\ D[d].tree = D[e].tree => d = e
    /\ \A m, n \in Active(N) :                      \* unique_active_path_per_corpus
          N[m].corpus = N[n].corpus /\ N[m].path = N[n].path => m = n

-----------------------------------------------------------------------------
(* Path disambiguation.  The code reads the occupied paths without a lock    *)
(* and inserts later; the unique index turns away the loser of a race, which *)
(* rolls back and takes another candidate or gives up.  What is committed is *)
(* therefore free when it is inserted, but need not be the first that is: a  *)
(* candidate that was taken when it was read may have been given up since.   *)

Occupied(c, except) ==
    {nodes[n].path : n \in {m \in Active(nodes) \ except : nodes[m].corpus = c}}

(* Path p of corpus c may have been taken when an earlier read saw it: some  *)
(* row has had it, or rows have been deleted that could have.                *)
WasTaken(c, p) ==
    \/ \E n \in DOMAIN nodes : nodes[n].corpus = c /\ nodes[n].path = p
    \/ DOMAIN nodes # 1..lastNode

Suffixed(p, k) == IF k = 0 THEN p ELSE [p EXCEPT !.sfx = Append(@, k)]

(* The paths that disambiguate_path and the insert after it can end up with: *)
(* the base path or one of its suffixes, free by now, when every candidate   *)
(* before it was taken.  With none, or a race lost too often, the request    *)
(* fails and nothing changes.                                                *)
Disambiguated(c, p, except) ==
    {Suffixed(p, k) : k \in {j \in 0..MaxSuffix :
        /\ Suffixed(p, j) \notin Occupied(c, except)
        /\ \A i \in 0..(j - 1) : WasTaken(c, Suffixed(p, i))}}

-----------------------------------------------------------------------------
(* Requests that lock what they read (or read nothing): one action each.     *)

Idle == [kind |-> "idle", doc |-> NULL, docs |-> NoRows, nodes |-> NoRows]

Init == /\ docs = NoRows /\ nodes = NoRows
        /\ lastDoc = 0 /\ lastNode = 0
        /\ op = [r \in Requests |-> Idle]

(* The rows mem are saved as no longer current, and the rows new inserted.   *)
Replaced(mem, new) == Put(Put(nodes, Retired(mem)), new)

(* A document that starts a version tree and a path tree of its own.         *)
NewTree(c, p, e) ==
    /\ lastDoc < MaxDocs /\ lastNode < MaxNodes
    /\ docs' = Put(docs, Row(lastDoc + 1,
                 [tree |-> lastDoc + 1, parent |-> NULL, current |-> TRUE]))
    /\ nodes' = Replaced(NoRows, Row(lastNode + 1,
                 [doc |-> lastDoc + 1, corpus |-> c, path |-> p, ver |-> 1,
                  parent |-> NULL, deleted |-> FALSE, current |-> TRUE, ext |-> e]))
    /\ lastDoc' = lastDoc + 1 /\ lastNode' = lastNode + 1
    /\ UNCHANGED op

SupersedeKeepBug(n, row) ==    \* mutant: the old node stays current
    /\ lastNode < MaxNodes
    /\ nodes' = Put(nodes, Row(lastNode + 1, [row EXCEPT !.parent = n]))
    /\ lastNode' = lastNode + 1
    /\ UNCHANGED op

(* Node n is superseded by a new node that holds row.                        *)
Supersede(n, row) ==
    /\ lastNode < MaxNodes
    /\ nodes' = Replaced(Rows(nodes, {n}),
                         Row(lastNode + 1, [row EXCEPT !.parent = n]))
    /\ lastNode' = lastNode + 1
    /\ UNCHANGED op

(* import_document at a path that is free in this corpus when the row is     *)
(* inserted; the loser of a race for the path rolls back.                    *)
ImportNew(c, p, e) == ActiveAt(c, p) = {} /\ NewTree(c, p, e)

AddDocumentBug(c, p, e) ==     \* mutant: the corpus shares the document itself
    \E q \in Disambiguated(c, p, {}), d \in DOMAIN docs :
        /\ lastNode < MaxNodes
        /\ nodes' = Put(nodes, Row(lastNode + 1,
                     [doc |-> d, corpus |-> c, path |-> q, ver |-> 1, parent |-> NULL,
                      deleted |-> FALSE, current |-> TRUE, ext |-> e]))
        /\ lastNode' = lastNode + 1
        /\ UNCHANGED <<docs, lastDoc, op>>

(* add_document: a corpus-isolated copy, at a disambiguated path.            *)
AddDocument(c, p, e) ==
    \E q \in Disambiguated(c, p, {}) : NewTree(c, q, e)

(* Node n gets a new document, the current one of its tree.                  *)
VersionUp(n, parent, ver, e) ==
    LET tree == docs[nodes[n].doc].tree
        kin  == {d \in DOMAIN docs : docs[d].tree = tree}
    IN  /\ lastDoc < MaxDocs
        /\ docs' = Put(Put(docs, Retired(Rows(docs, kin))), Row(lastDoc + 1,
                     [tree |-> tree, parent |-> parent, current |-> TRUE]))
        /\ lastDoc' = lastDoc + 1
        /\ Supersede(n, [nodes[n] EXCEPT !.doc = lastDoc + 1, !.ver = ver,
                                         !.ext = IF e = NoExt THEN @ ELSE e])

ImportVersionVerBug(c, p, e) ==    \* mutant: the version number is not bumped
    \E n \in ActiveAt(c, p) : VersionUp(n, nodes[n].doc, nodes[n].ver, e)

ImportVersionRootBug(c, p, e) ==   \* mutant: the new version hangs off the root
    \E n \in ActiveAt(c, p) : VersionUp(n, docs[nodes[n].doc].tree, nodes[n].ver + 1, e)

(* import_document at an occupied path: a new version of the occupant.       *)
ImportVersion(c, p, e) ==
    \E n \in ActiveAt(c, p) : VersionUp(n, nodes[n].doc, nodes[n].ver + 1, e)

(* import_document with skip_if_unchanged, same content: metadata only,      *)
(* written in place or recorded as a node of its own.                        *)
ImportMetadata(c, p, e) ==
    \E n \in ActiveAt(c, p) :
        /\ e \in ExtIds \ {nodes[n].ext}
        /\ nodes' = [nodes EXCEPT ![n].ext = e]
        /\ UNCHANGED <<docs, lastDoc, lastNode, op>>

RecordMetadata(c, p, e) ==
    \E n \in ActiveAt(c, p) :
        /\ Supersede(n, [nodes[n] EXCEPT !.ext = IF e = NoExt THEN @ ELSE e])
        /\ UNCHANGED <<docs, lastDoc>>

RelocateBug(n, base) ==        \* mutant: the path is edited in place
    \E q \in Disambiguated(nodes[n].corpus, base, {n}) :
        /\ nodes' = [nodes EXCEPT ![n].path = q]
        /\ UNCHANGED <<docs, lastDoc, lastNode, op>>

(* _create_successor_path_with_retry: the successor carries no lineage.      *)
Relocate(n, base) ==
    \E q \in Disambiguated(nodes[n].corpus, base, {n}) :
        /\ Supersede(n, [nodes[n] EXCEPT !.path = q, !.ext = NoExt])
        /\ UNCHANGED <<docs, lastDoc>>

(* move_document_to_folder; nothing happens when it is already there.        *)
MoveToFolder(d, c, dir) ==
    \E n \in First(ActiveOf(d, c)) :
        /\ nodes[n].path.dir # dir
        /\ Relocate(n, [nodes[n].path EXCEPT !.dir = dir])

RenameBug(d, c, name) ==       \* mutant: the new name ends up as the directory
    \E n \in First(ActiveOf(d, c)) :
        LET base == [nodes[n].path EXCEPT !.dir = name, !.sfx = <<>>]
        IN  base # nodes[n].path /\ Relocate(n, base)

(* rename_document; nothing happens when the file name is the same.          *)
Rename(d, c, name) ==
    \E n \in First(ActiveOf(d, c)) :
        LET base == [nodes[n].path EXCEPT !.name = name, !.sfx = <<>>]
        IN  base # nodes[n].path /\ Relocate(n, base)

TrashNodesBug(mem) == NoRows   \* mutant: the row is retired, no history node made

(* The history nodes that trash the rows of mem: every row of mem is retired *)
(* and gets a deleted, current child.  Ids follow the order of the rows.     *)
NewId(mem, n) == lastNode + Cardinality({m \in DOMAIN mem : m <= n})

TrashNodes(mem) ==
    [i \in {NewId(mem, n) : n \in DOMAIN mem} |->
        LET n == CHOOSE m \in DOMAIN mem : NewId(mem, m) = i
        IN  [mem[n] EXCEPT !.parent = n, !.deleted = TRUE, !.current = TRUE,
                           !.ext = NoExt]]

(* bulk_soft_delete_documents: every active path of the documents in D.      *)
BulkSoftDelete(c, D) ==
    LET heads == UNION {ActiveOf(d, c) : d \in D}
        mem   == Rows(nodes, heads)
    IN  /\ heads # {}
        /\ lastNode + Cardinality(heads) <= MaxNodes
        /\ nodes' = Replaced(mem, TrashNodes(mem))
        /\ lastNode' = lastNode + Cardinality(heads)
        /\ UNCHANGED <<docs, lastDoc, op>>

(* empty_corpus, and deleteContents of a folder: the documents were listed   *)
(* before their rows are locked, so any of them may be missing from the list.*)
EmptyCorpus(c) == \E D \in SUBSET DOMAIN docs : BulkSoftDelete(c, D)

-----------------------------------------------------------------------------
(* Requests that read without a lock: Start copies the rows, Commit writes.  *)

Start(r, kind, d, dmem, nmem) ==
    /\ op[r] = Idle
    /\ op' = [op EXCEPT ![r] =
                [kind |-> kind, doc |-> d, docs |-> dmem, nodes |-> nmem]]
    /\ UNCHANGED <<docs, nodes, lastDoc, lastNode>>

(* The request ends; D and N are its tables if the database takes them, with *)
(* i new Document ids and j new DocumentPath ids.  Otherwise it rolled back. *)
Finish(r, D, N, i, j) ==
    /\ op' = [op EXCEPT ![r] = Idle]
    /\ lastDoc + i <= MaxDocs /\ lastNode + j <= MaxNodes
    /\ IF SchemaOK(D, N)
       THEN /\ docs' = D /\ nodes' = N
            /\ lastDoc' = lastDoc + i /\ lastNode' = lastNode + j
       ELSE UNCHANGED <<docs, nodes, lastDoc, lastNode>>

(* The request fails before its transaction writes anything.                 *)
Fail(r) == /\ op' = [op EXCEPT ![r] = Idle]
           /\ UNCHANGED <<docs, nodes, lastDoc, lastNode>>

(* soft_delete_document: .get() wants exactly one active path.               *)
StartSoftDelete(r, d, c) ==
    \E n \in ActiveOf(d, c) :
        /\ ActiveOf(d, c) = {n}
        /\ Start(r, "soft_delete", d, NoRows, Rows(nodes, {n}))

CommitSoftDelete(r) ==
    /\ op[r].kind = "soft_delete"
    /\ LET mem == op[r].nodes
       IN  Finish(r, docs, Replaced(mem, TrashNodes(mem)), 0, 1)

(* Corpus.remove_document: every active path of the document.  Its save      *)
(* names is_current alone, and fails when the row is gone.                   *)
StartRemove(r, d, c) ==
    /\ ActiveOf(d, c) # {}
    /\ Start(r, "remove", d, NoRows, Rows(nodes, ActiveOf(d, c)))

CommitRemove(r) ==
    /\ op[r].kind = "remove"
    /\ LET mem == op[r].nodes
       IN  IF DOMAIN mem \subseteq DOMAIN nodes
           THEN Finish(r, docs,
                       Replaced(Rows(nodes, DOMAIN mem), TrashNodes(mem)),
                       0, Cardinality(DOMAIN mem))
           ELSE Fail(r)

(* RestoreDeletedDocument and restore_document: the newest trashed path of   *)
(* the document, restored at a path that is free when the restore commits.   *)
StartRestore(r, d, c) ==
    \E n \in Newest(TrashedOf(d, c)) :
        Start(r, "restore", d, NoRows, Rows(nodes, {n}))

CommitRestore(r) ==
    /\ op[r].kind = "restore"
    /\ \E n \in DOMAIN op[r].nodes :
        LET mem   == op[r].nodes
            row   == mem[n]
            found == Disambiguated(row.corpus, row.path, {})
        IN  \/ found = {} /\ Fail(r)
            \/ \E q \in found :
                Finish(r, docs,
                       Replaced(mem, Row(lastNode + 1,
                           [row EXCEPT !.parent = n, !.path = q, !.deleted = FALSE,
                                       !.current = TRUE, !.ext = NoExt])),
                       0, 1)

(* RestoreDocumentToVersion(o): read the current version of the tree, then   *)
(* an active path of the tree, then write a copy of o as the newest version. *)
StartRestoreVersion(r, o) ==
    /\ o \in DOMAIN docs
    /\ \E cur \in DOMAIN docs :
        /\ docs[cur].tree = docs[o].tree /\ docs[cur].current /\ cur # o
        /\ Start(r, "read_version", cur, Rows(docs, {cur}), NoRows)

ReadVersionPath(r, c) ==
    /\ op[r].kind = "read_version"
    /\ LET tree  == op[r].docs[op[r].doc].tree
           heads == {n \in Active(nodes) :
                        nodes[n].corpus = c /\ docs[nodes[n].doc].tree = tree}
       IN  \/ heads = {} /\ Fail(r)
           \/ \E n \in First(heads) :
              /\ op' = [op EXCEPT ![r] = [kind |-> "restore_version", doc |-> op[r].doc,
                            docs |-> op[r].docs, nodes |-> Rows(nodes, {n})]]
              /\ UNCHANGED <<docs, nodes, lastDoc, lastNode>>

CommitRestoreVersion(r) ==
    /\ op[r].kind = "restore_version"
    /\ \E n \in DOMAIN op[r].nodes :
        LET cur  == op[r].doc
            dmem == op[r].docs
            mem  == op[r].nodes
        IN  Finish(r,
                   Put(Put(docs, Retired(dmem)), Row(lastDoc + 1,
                       [tree |-> dmem[cur].tree, parent |-> cur, current |-> TRUE])),
                   Replaced(mem, Row(lastNode + 1,
                       [mem[n] EXCEPT !.doc = lastDoc + 1, !.ver = @ + 1,
                                      !.parent = n, !.ext = NoExt])),
                   1, 1)

StartPurgeBug(r, d, c) ==      \* mutant: the document need not be in the trash
    /\ ActiveOf(d, c) \cup TrashedOf(d, c) # {}
    /\ Start(r, "purge", d, NoRows,
             Rows(nodes, {n \in DOMAIN nodes : nodes[n].doc = d /\ nodes[n].corpus = c}))

(* permanently_delete_document, and empty_trash, which runs it once for each *)
(* trashed document: check the trash and collect the path rows, then delete  *)
(* them and, when no other corpus has a path to it, the document.            *)
StartPurge(r, d, c) ==
    /\ TrashedOf(d, c) # {}
    /\ Start(r, "purge", d, NoRows,
             Rows(nodes, {n \in DOMAIN nodes : nodes[n].doc = d /\ nodes[n].corpus = c}))

CommitPurge(r) ==
    /\ op[r].kind = "purge"
    /\ LET mem    == op[r].nodes
           d      == op[r].doc
           N      == Without(nodes, Cascade(nodes, DOMAIN mem))
           shared == \E n \in DOMAIN N : /\ N[n].doc = d
                                         /\ \A m \in DOMAIN mem : N[n].corpus # mem[m].corpus
       IN  Finish(r, IF shared THEN docs ELSE Without(docs, Cascade(docs, {d})), N, 0, 0)

-----------------------------------------------------------------------------

LockedRequest ==
    \E c \in Corpora :
        \/ \E dir \in Dirs, name \in Names, e \in Lineage :
              LET p == [dir |-> dir, name |-> name, sfx |-> <<>>]
              IN  ImportNew(c, p, e) \/ AddDocument(c, p, e)
        \/ \E n \in Active(nodes), e \in Lineage :
              \/ ImportVersion(c, nodes[n].path, e)
              \/ ImportMetadata(c, nodes[n].path, e)
              \/ RecordMetadata(c, nodes[n].path, e)
        \/ \E d \in DOMAIN docs :
              \/ \E dir \in Dirs : MoveToFolder(d, c, dir)
              \/ \E name \in Names : Rename(d, c, name)
        \/ EmptyCorpus(c)

StartRequest(r) ==
    \E d \in DOMAIN docs :
        \/ StartRestoreVersion(r, d)
        \/ \E c \in Corpora : \/ StartSoftDelete(r, d, c)
                              \/ StartRemove(r, d, c)
                              \/ StartRestore(r, d, c)
                              \/ StartPurge(r, d, c)

CommitRequest(r) ==
    \/ CommitSoftDelete(r)
    \/ CommitRemove(r)
    \/ CommitRestore(r)
    \/ \E c \in Corpora : ReadVersionPath(r, c)
    \/ CommitRestoreVersion(r)
    \/ CommitPurge(r)
    \/ op[r] # Idle /\ Fail(r)     \* an error or a crash: the transaction rolls back

Next == LockedRequest \/ \E r \in Requests : StartRequest(r) \/ CommitRequest(r)

Spec == Init /\ [][Next]_vars

-----------------------------------------------------------------------------
(* What the store promises, whatever requests overlap.                       *)

OpKinds == {"idle", "soft_delete", "remove", "restore", "read_version",
            "restore_version", "purge"}

TypeOK ==
    /\ lastDoc \in Nat /\ lastNode \in Nat
    /\ DOMAIN docs \subseteq 1..lastDoc
    /\ \A d \in DOMAIN docs : docs[d] \in DocRow
    /\ DOMAIN nodes \subseteq 1..lastNode
    /\ \A n \in DOMAIN nodes : nodes[n] \in NodeRow
    /\ \A r \in Requests :
          /\ op[r].kind \in OpKinds
          /\ op[r].doc \in 0..lastDoc
          /\ DOMAIN op[r].docs \subseteq 1..lastDoc
          /\ \A d \in DOMAIN op[r].docs : op[r].docs[d] \in DocRow
          /\ DOMAIN op[r].nodes \subseteq 1..lastNode
          /\ \A n \in DOMAIN op[r].nodes : op[r].nodes[n] \in NodeRow

(* What a child row of the path tree owes its parent row (rules P2, P5).     *)
ChildOf(child, parent) ==
    /\ child.corpus = parent.corpus
    /\ child.ver = parent.ver + (IF child.doc = parent.doc THEN 0 ELSE 1)

(* Rules P2 and P5 (documents/versioning.py:16,19): along every chain of     *)
(* path nodes the history is acyclic, stays in its corpus, and the version   *)
(* number goes up by one exactly where the content document changes, even    *)
(* when requests overlap and when stale saves bring rows back.               *)
VersionsCount ==
    \A n \in DOMAIN nodes :
        IF nodes[n].parent = NULL
        THEN nodes[n].ver = 1
        ELSE /\ nodes[n].parent < n
             /\ ChildOf(nodes[n], nodes[nodes[n].parent])

(* Rule I1 (documents/versioning.py:23): no version tree spans two corpora.  *)
CorpusIsolation ==
    \A m, n \in DOMAIN nodes :
        docs[nodes[m].doc].tree = docs[nodes[n].doc].tree
            => nodes[m].corpus = nodes[n].corpus

(* Rule P1 ("immutable history node", lifecycle.py:104): whatever a request   *)
(* writes from a row it read earlier, no surviving row is moved, re-parented *)
(* or re-versioned, and a superseded row never becomes current again.        *)
HistoryKept ==
    \A n \in DOMAIN nodes \cap DOMAIN nodes' :
        /\ nodes'[n] = [nodes[n] EXCEPT !.current = nodes'[n].current,
                                        !.ext = nodes'[n].ext]
        /\ nodes'[n].current => nodes[n].current

HistoryImmutable == [][HistoryKept]_vars

(* Rule P2: a document never drops out of sight; a path that stops being     *)
(* current gets, in the same step, a current child in its corpus.            *)
HeadsKept ==
    \A n \in DOMAIN nodes \cap DOMAIN nodes' :
        nodes[n].current /\ ~nodes'[n].current =>
            \E m \in DOMAIN nodes' \ DOMAIN nodes :
                nodes'[m].parent = n /\ nodes'[m].current

HeadsAreReplaced == [][HeadsKept]_vars

-----------------------------------------------------------------------------
(* What holds as long as no request works on a version tree between another  *)
(* request's read and its commit.                                            *)

TreeOf(n) == docs[nodes[n].doc].tree

(* The version tree of the rows a request in flight has read.                *)
TreesOf(r) ==
    {op[r].docs[d].tree : d \in DOMAIN op[r].docs}
        \cup {docs[nodes[n].doc].tree : n \in DOMAIN op[r].nodes \cap DOMAIN nodes}

TreeRows(t) ==
    <<[d \in {x \in DOMAIN docs : docs[x].tree = t} |-> docs[d]],
      [n \in {x \in DOMAIN nodes : docs[nodes[x].doc].tree = t} |-> nodes[n]]>>

(* No step changes a tree that another request in flight has read, and no    *)
(* two requests in flight have read the same tree.                           *)
NextApart ==
    /\ Next
    /\ \A r \in Requests : op'[r] # Idle =>
          \A t \in TreesOf(r) : TreeRows(t)' = TreeRows(t)
    /\ \A r, s \in Requests : r # s => (TreesOf(r) \cap TreesOf(s) = {})'

SpecApart == Init /\ [][NextApart]_vars

(* Rule P3 (documents/versioning.py:17, "Only current filesystem state is    *)
(* is_current=True") over a lineage: a version tree is at one place, active  *)
(* or in the trash, and what is there is the tree's current version.         *)
OneHeadPerTree ==
    /\ \A m, n \in DOMAIN nodes :
          nodes[m].current /\ nodes[n].current /\ TreeOf(m) = TreeOf(n) => m = n
    /\ \A n \in DOMAIN nodes : nodes[n].current => docs[nodes[n].doc].current

(* calculate_content_version (documents/versioning.py:216) counts the        *)
(* ancestors of a document; the stored version number always agrees with it. *)
ContentVersion ==
    LET depth[d \in DOMAIN docs] ==
            IF docs[d].parent = NULL THEN 1 ELSE 1 + depth[docs[d].parent]
    IN  depth

VersionIsDepth == \A n \in DOMAIN nodes : nodes[n].ver = ContentVersion[nodes[n].doc]

=============================================================================
