---------------------------- MODULE DocFilesystem ----------------------------
(***************************************************************************)
(* The two trees of DocVersioning implement the plain filesystem of        *)
(* CorpusFiles: a file is a version tree that has a current path node, and *)
(* that node says where the file is, which document it shows and whether   *)
(* it is in the trash.                                                     *)
(***************************************************************************)
EXTENDS DocVersioning

Current == {n \in DOMAIN nodes : nodes[n].current}

HeadOf(t) == CHOOSE n \in Current : TreeOf(n) = t

FilesNow ==
    [t \in {TreeOf(n) : n \in Current} |->
        LET head == nodes[HeadOf(t)]
        IN  [corpus |-> head.corpus, place |-> head.path, doc |-> head.doc,
             ver |-> head.ver, trashed |-> head.deleted]]

(* The base paths and every path MaxNodes disambiguations can make of them.  *)
PlacesUpTo(k) ==
    [dir : Dirs, name : Names, sfx : UNION {[1..j -> 1..MaxSuffix] : j \in 0..k}]

Files == INSTANCE CorpusFiles WITH
            files <- FilesNow, Places <- PlacesUpTo(MaxNodes), Ids <- 1..MaxDocs

(* Requests that keep apart on each version tree, however they overlap on    *)
(* different ones, make the store a filesystem: uploads, new versions,       *)
(* moves, trash, restore and permanent deletion each do to one file what     *)
(* they say, and nothing to any other.                                       *)
ImplementsFiles == Files!Spec

=============================================================================
