---------------------------- MODULE CorpusFolders ----------------------------
(***************************************************************************)
(* The folder tree of a corpus and the folder-derived paths of the         *)
(* documents in it: corpuses/services/folders.py, with the path            *)
(* reconciliation of corpuses/services/paths.py.                           *)
(*                                                                         *)
(* A folder request loads its folder and validates (Start), runs the       *)
(* statements of its transaction one by one, and commits.  Until then its  *)
(* writes are its own: another request reads the committed rows, as READ   *)
(* COMMITTED has it, and waits only for the rows that are locked.          *)
(***************************************************************************)
EXTENDS Naturals, Sequences, FiniteSets, SequencesExt

CONSTANTS
    Names,       \* folder names
    Docs,        \* documents of the corpus
    Requests,    \* request slots
    Elsewhere,   \* a directory that is no folder's path
    MaxFolders   \* bound: folder ids ever issued

ASSUME NamesAssumption == Elsewhere \notin Names

VARIABLES
    folders,     \* CorpusFolder rows, by primary key
    place,       \* the current DocumentPath of each document
    lastFolder,  \* the last folder id issued
    op           \* the folder request in each slot

vars == <<folders, place, lastFolder, op>>

NULL == 0

(* A document's path row: its folder, the directory in its path string, and  *)
(* is_deleted.                                                               *)
Place == [folder : Nat, dir : Seq(Names \cup {Elsewhere}), trashed : BOOLEAN]

Put(f, g) == [x \in DOMAIN f \cup DOMAIN g |->
                IF x \in DOMAIN g THEN g[x] ELSE f[x]]
None == [x \in {} |-> NULL]
Folder(id, row) == [x \in {id} |-> row]

-----------------------------------------------------------------------------
(* The tree queries: they start at the roots, and follow parent.             *)

Children(F, S) == {g \in DOMAIN F : F[g].parent \in S}

(* The folders at or below f, which may be gone.                             *)
Subtree(F, f) ==
    {g \in DOMAIN F : f \in DOMAIN F /\ \A S \in SUBSET DOMAIN F :
        f \in S /\ Children(F, S) \subseteq S => g \in S}

(* The folders that hang off a root: what the tree queries can see.          *)
Reachable(F) == UNION {Subtree(F, f) : f \in Children(F, {NULL})}

(* get_path of every reachable folder: the names from its root down.         *)
PathIn(F) ==
    LET path[f \in Reachable(F)] ==
            IF F[f].parent = NULL THEN <<F[f].name>>
            ELSE Append(path[F[f].parent], F[f].name)
    IN  path

Siblings(F, parent, name) ==
    {g \in DOMAIN F : F[g].parent = parent /\ F[g].name = name}

ActiveIn(S) == {d \in DOMAIN place : place[d].folder \in S /\ ~place[d].trashed}

Anywhere == DOMAIN folders \cup {NULL}

(* What the database checks when a transaction commits: foreign keys, and    *)
(* unique_folder_name_per_parent, in which a NULL parent equals no other.    *)
SchemaOK(F, P) ==
    /\ \A f \in DOMAIN F : F[f].parent \in DOMAIN F \cup {NULL}
    /\ \A d \in DOMAIN P : P[d].folder \in DOMAIN F \cup {NULL}
    /\ \A f, g \in DOMAIN F :
          F[f].parent # NULL /\ F[f].parent = F[g].parent /\ F[f].name = F[g].name
              => f = g

-----------------------------------------------------------------------------
(* The requests: what each holds in memory, and what its transaction has     *)
(* written and not committed.                                                *)

Idle == [phase |-> "idle", kind |-> "none", id |-> NULL, row |-> None,
         path |-> <<>>, docs |-> {}, writes |-> None, gone |-> {}, places |-> None]

Init == /\ folders = None /\ place = None /\ lastFolder = 0
        /\ op = [r \in Requests |-> Idle]

(* An error, a constraint or a crash: the transaction rolls back.            *)
Fail(r) == /\ op[r] # Idle
           /\ op' = [op EXCEPT ![r] = Idle]
           /\ UNCHANGED <<folders, place, lastFolder>>

(* The folder is loaded and the request is valid: it holds what it will save *)
(* of the folder, and the path to look for below it.                         *)
Start(r, kind, f, row, path) ==
    /\ op[r] = Idle
    /\ op' = [op EXCEPT ![r] = [Idle EXCEPT !.phase = "read", !.kind = kind,
                                            !.id = f, !.row = row, !.path = path]]
    /\ UNCHANGED <<folders, place, lastFolder>>

Parents(F) == {F[f].parent : f \in DOMAIN F}

(* Statements of the transaction: rows saved, rows deleted, documents         *)
(* rewritten.  They wait for rows that another transaction has written or is *)
(* deleting.                                                                 *)
Run(r, phase, kind, writes, gone, places) ==
    /\ \A s \in Requests \ {r} :
          /\ (DOMAIN writes \cup gone) \cap (DOMAIN op[s].writes \cup op[s].gone) = {}
          /\ DOMAIN places \cap DOMAIN op[s].places = {}
    /\ op' = [op EXCEPT ![r] = [@ EXCEPT !.phase = phase, !.kind = kind, !.docs = {},
                     !.writes = writes, !.gone = gone, !.places = places]]
    /\ UNCHANGED <<folders, place>>

(* create_folder, and get_or_create when an import finds no such folder.     *)
Create(r, name, parent) ==
    /\ op[r] = Idle /\ lastFolder < MaxFolders
    /\ Siblings(folders, parent, name) = {}
    /\ lastFolder' = lastFolder + 1
    /\ Run(r, "written", "create",
           Folder(lastFolder + 1, [name |-> name, parent |-> parent]), {}, None)

(* update_folder with a new name.                                            *)
StartRename(r, f, name) ==
    /\ name # folders[f].name
    /\ Siblings(folders, folders[f].parent, name) = {}
    /\ Start(r, "relocate", f, [folders[f] EXCEPT !.name = name], PathIn(folders)[f])

(* update_folder that changes only the description, color, icon or tags: it   *)
(* still saves the whole row, its name and parent as they were loaded.       *)
StartUpdate(r, f) == Start(r, "update", f, folders[f], <<>>)

SaveUpdate(r) ==
    /\ op[r].phase = "read" /\ op[r].kind = "update"
    /\ Run(r, "written", "update", Folder(op[r].id, op[r].row), {}, None)
    /\ UNCHANGED lastFolder

(* Mutant: the new parent is written into the name column.                    *)
StartMoveSwapBug(r, f, parent) ==
    /\ parent \notin Subtree(folders, f)
    /\ Siblings(folders, parent, folders[f].name) \subseteq {f}
    /\ Start(r, "relocate", f, [folders[f] EXCEPT !.name = parent], PathIn(folders)[f])

(* move_folder. *)
StartMove(r, f, parent) ==
    /\ parent \notin Subtree(folders, f)
    /\ Siblings(folders, parent, folders[f].name) \subseteq {f}
    /\ Start(r, "relocate", f, [folders[f] EXCEPT !.parent = parent], PathIn(folders)[f])

(* Mutant: only the documents directly in the folder are reconciled.          *)
ReconciledDirectBug(F, f, old) ==
    IF old = PathIn(F)[f] THEN None
    ELSE [d \in {x \in ActiveIn({f}) : IsPrefix(old, place[x].dir)} |->
             [place[d] EXCEPT !.dir = PathIn(F)[f]]]

(* Mutant: the documents in the trash are reconciled with the others.         *)
ReconciledTrashBug(F, f, old) ==
    LET path     == PathIn(F)
        under(g) == SubSeq(path[g], Len(path[f]) + 1, Len(path[g]))
        follows(d) == IsPrefix(old \o under(place[d].folder), place[d].dir)
        below(d) == place[d].folder \in Subtree(F, f)
    IN  IF old = path[f] THEN None
        ELSE [d \in {x \in DOMAIN place : below(x) /\ follows(x)} |->
                 [place[d] EXCEPT !.dir = path[place[d].folder]]]

(* reconcile_paths_after_folder_change: the documents at or below f whose    *)
(* path starts with the old path of their folder, and their new places.      *)
Reconciled(F, f, old) ==
    LET path     == PathIn(F)
        under(g) == SubSeq(path[g], Len(path[f]) + 1, Len(path[g]))
        follows(d) == IsPrefix(old \o under(place[d].folder), place[d].dir)
    IN  IF old = path[f] THEN None
        ELSE [d \in {x \in ActiveIn(Subtree(F, f)) : follows(x)} |->
                 [place[d] EXCEPT !.dir = path[place[d].folder]]]

(* The folder is saved in full, as it was loaded and then changed, and the   *)
(* paths below it are reconciled; get_path must find the folder.             *)
SaveRelocate(r) ==
    /\ op[r].phase = "read" /\ op[r].kind = "relocate"
    /\ LET f == op[r].id
           F == Put(folders, Folder(f, op[r].row))
       IN  /\ f \in Reachable(F)
           /\ Run(r, "written", "relocate", Folder(f, op[r].row), {},
                  Reconciled(F, f, op[r].path))
    /\ UNCHANGED lastFolder

(* delete_folder, with or without its contents.                              *)
StartDelete(r, f, kind) ==
    Start(r, kind, f, IF kind = "delete_keep" THEN folders[f] ELSE None, <<>>)

(* move_children_to_parent: the child folders go up, the documents go to the *)
(* root.                                                                     *)
EmptyOut(r) ==
    /\ op[r].phase = "read" /\ op[r].kind = "delete_keep"
    /\ LET children == Children(folders, {op[r].id})
       IN  Run(r, "emptied", "delete_keep",
               [g \in children |-> [folders[g] EXCEPT !.parent = op[r].row.parent]], {},
               [d \in ActiveIn({op[r].id}) |->
                    [place[d] EXCEPT !.folder = NULL, !.dir = <<>>]])
    /\ UNCHANGED lastFolder

(* Mutant: only the documents directly in the folder are trashed.             *)
ListContentsDirectBug(r) ==
    /\ op[r].phase = "read" /\ op[r].kind = "delete_all"
    /\ op' = [op EXCEPT ![r] = [@ EXCEPT !.phase = "listed", !.docs = ActiveIn({op[r].id})]]
    /\ UNCHANGED <<folders, place, lastFolder>>

(* deleteContents: list the active documents at or below f, where the tree   *)
(* queries find f.  Nothing is locked yet.                                   *)
ListContents(r) ==
    /\ op[r].phase = "read" /\ op[r].kind = "delete_all"
    /\ op' = [op EXCEPT ![r] = [@ EXCEPT !.phase = "listed",
                !.docs = ActiveIn(Subtree(folders, op[r].id) \cap Reachable(folders))]]
    /\ UNCHANGED <<folders, place, lastFolder>>

(* empty_corpus: list the active documents of the corpus.                    *)
StartEmpty(r) ==
    /\ op[r] = Idle
    /\ op' = [op EXCEPT ![r] = [Idle EXCEPT !.phase = "listed", !.kind = "empty",
                                            !.docs = ActiveIn(Anywhere)]]
    /\ UNCHANGED <<folders, place, lastFolder>>

(* bulk_soft_delete_documents: the listed documents go to the trash, unless  *)
(* they are there by now, and wherever they have been moved since.           *)
TrashListed(r) ==
    /\ op[r].phase = "listed"
    /\ Run(r, "emptied", op[r].kind, None, {},
           [d \in op[r].docs \cap ActiveIn(Anywhere) |-> [place[d] EXCEPT !.trashed = TRUE]])
    /\ UNCHANGED lastFolder

(* The rows that go in a request of this kind: every folder the tree manager *)
(* finds, or the folders below f by now.                                     *)
Doomed(kind, F, f) == IF kind = "empty" THEN Reachable(F) ELSE Subtree(F, f)

(* The delete cascades to the child folders, and the path rows found in the  *)
(* deleted folders lose their folder (SET NULL).                             *)
DeleteRows(r) ==
    /\ op[r].phase = "emptied"
    /\ LET F    == Put(folders, op[r].writes)
           P    == Put(place, op[r].places)
           gone == Doomed(op[r].kind, F, op[r].id)
       IN  Run(r, "written", op[r].kind, op[r].writes, gone,
               [d \in {x \in DOMAIN P : P[x].folder \in gone} \cup DOMAIN op[r].places |->
                    IF P[d].folder \in gone THEN [P[d] EXCEPT !.folder = NULL] ELSE P[d]])
    /\ UNCHANGED lastFolder

(* A new or moved folder waits for a parent that is being deleted.           *)
Commit(r) ==
    /\ op[r].phase = "written"
    /\ \A s \in Requests \ {r} : op[s].gone \cap Parents(op[r].writes) = {}
    /\ LET F == [f \in (DOMAIN folders \cup DOMAIN op[r].writes) \ op[r].gone |->
                    Put(folders, op[r].writes)[f]]
           P == Put(place, op[r].places)
       IN  /\ SchemaOK(F, P)
           /\ folders' = F /\ place' = P
    /\ op' = [op EXCEPT ![r] = Idle]
    /\ UNCHANGED lastFolder

-----------------------------------------------------------------------------
(* The documents: one action each, waiting for a path row or a folder that a  *)
(* folder request has locked.                                                *)

(* Mutant: the path row is not locked, neither here nor by the reconciliation. *)
WriteUnlockedBug(d, p) ==
    /\ \A r \in Requests : p.folder \notin op[r].gone
    /\ place' = Put(place, [x \in {d} |-> p])
    /\ UNCHANGED <<folders, lastFolder, op>>

Write(d, p) ==
    /\ \A r \in Requests : d \notin DOMAIN op[r].places /\ p.folder \notin op[r].gone
    /\ place' = Put(place, [x \in {d} |-> p])
    /\ UNCHANGED <<folders, lastFolder, op>>

(* add_document, or an upload, in folder f with its default path under        *)
(* /documents; or a file of a zip import into a target folder, whose path    *)
(* string starts with get_path() and so has no leading slash.                *)
Upload(d, f) ==
    /\ d \notin DOMAIN place
    /\ Write(d, [folder |-> f, dir |-> <<Elsewhere>>, trashed |-> FALSE])

(* A file of a zip import lands in the folder of its entry, at its path.     *)
ZipImport(d, f) ==
    /\ d \notin DOMAIN place
    /\ Write(d, [folder |-> f, dir |-> PathIn(folders)[f], trashed |-> FALSE])

(* move_document_to_folder. *)
MoveDocument(d, f) ==
    /\ d \in ActiveIn(Anywhere) /\ place[d].folder # f
    /\ Write(d, [place[d] EXCEPT !.folder = f,
                    !.dir = IF f = NULL THEN <<>> ELSE PathIn(folders)[f]])

(* soft_delete_document and restore_document keep the folder and the path.   *)
TrashOrRestore(d) ==
    /\ d \in DOMAIN place
    /\ Write(d, [place[d] EXCEPT !.trashed = ~@])

-----------------------------------------------------------------------------

DocumentRequest ==
    \E d \in Docs :
        \/ \E f \in Reachable(folders) \cup {NULL} : Upload(d, f) \/ MoveDocument(d, f)
        \/ \E f \in Reachable(folders) : ZipImport(d, f)
        \/ TrashOrRestore(d)

FolderRequest(r) ==
    \/ \E parent \in Reachable(folders) \cup {NULL} :
          \/ \E name \in Names : Create(r, name, parent)
          \/ \E f \in Reachable(folders) : StartMove(r, f, parent)
    \/ \E f \in Reachable(folders) :
          \/ \E name \in Names : StartRename(r, f, name)
          \/ \E kind \in {"delete_keep", "delete_all"} : StartDelete(r, f, kind)
          \/ StartUpdate(r, f)
    \/ StartEmpty(r)
    \/ SaveRelocate(r)
    \/ SaveUpdate(r)
    \/ EmptyOut(r)
    \/ ListContents(r)
    \/ TrashListed(r)
    \/ DeleteRows(r)
    \/ Commit(r)
    \/ Fail(r)

Next == DocumentRequest \/ \E r \in Requests : FolderRequest(r)

Spec == Init /\ [][Next]_vars

(* The same requests one after the other: while a folder request is under    *)
(* way, no other request takes a step.                                       *)
Alone(r) == \A s \in Requests \ {r} : op[s] = Idle

NextApart ==
    \/ DocumentRequest /\ \A r \in Requests : op[r] = Idle
    \/ \E r \in Requests : Alone(r) /\ FolderRequest(r)

SpecApart == Init /\ [][NextApart]_vars

-----------------------------------------------------------------------------
(* What holds whatever requests overlap.                                     *)

FolderRow == [name : Names, parent : Nat]

TypeOK ==
    /\ lastFolder \in Nat
    /\ DOMAIN folders \subseteq 1..lastFolder
    /\ \A f \in DOMAIN folders : folders[f] \in FolderRow
    /\ DOMAIN place \subseteq Docs
    /\ \A d \in DOMAIN place : place[d] \in Place
    /\ \A r \in Requests :
          /\ DOMAIN op[r].writes \cup op[r].gone \subseteq 1..lastFolder
          /\ \A f \in DOMAIN op[r].writes : op[r].writes[f] \in FolderRow
          /\ \A d \in DOMAIN op[r].places : op[r].places[d] \in Place

(* Rewriting path strings, trashing and deleting around a document never      *)
(* undo where a concurrent request put it: a folder request leaves every     *)
(* document whose folder survives in that folder.                            *)
DocumentsKeepTheirFolder ==
    [][folders' # folders =>
          \A d \in DOMAIN place : place[d].folder \in DOMAIN folders' =>
              place'[d].folder = place[d].folder]_vars

(* What a user finds in the trash is what went there ("recoverable until the *)
(* trash is emptied", folders.py:747): however a rename, a move or a deletion *)
(* overlaps with a soft delete, no folder request brings a document back, or *)
(* changes the path that it is to be restored to.                            *)
TrashKeepsItsPaths ==
    [][op' # op =>
          \A d \in DOMAIN place : place[d].trashed =>
              place'[d].trashed /\ place'[d].dir = place[d].dir]_vars

-----------------------------------------------------------------------------
(* What holds as long as folder requests run alone.                          *)

(* A deletion handles a folder's contents "atomically" (folders.py:734):     *)
(* each document that was active in it is now at the root, under a path of   *)
(* the root, or in the trash.                                                *)
NoDocumentStranded ==
    [][\A d \in ActiveIn(DOMAIN folders \ DOMAIN folders') :
          place'[d].folder = NULL /\ (place'[d].trashed \/ place'[d].dir = <<>>)]_vars

(* The path string of document d says where its folder is.                   *)
Follows(d) ==
    /\ d \in ActiveIn(Reachable(folders))
    /\ place[d].dir = PathIn(folders)[place[d].folder]

StaysPut(d) == place'[d].folder = place[d].folder /\ ~place'[d].trashed

(* Renaming or moving a folder, at any height, keeps the path strings of the *)
(* documents below it "consistent with the new folder name" (folders.py:569).*)
RelocationKeepsPaths ==
    [][DOMAIN folders \subseteq DOMAIN folders' =>
          \A d \in DOMAIN place : Follows(d) /\ StaysPut(d) => Follows(d)']_vars

-----------------------------------------------------------------------------
(* What the code says of itself and does not keep.                           *)

(* "Cannot move folder into its descendants" (folders.py:635): every folder   *)
(* hangs off a root, where the tree queries find it.                         *)
AllReachable == DOMAIN folders = Reachable(folders)

=============================================================================
