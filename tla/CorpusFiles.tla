----------------------------- MODULE CorpusFiles -----------------------------
(***************************************************************************)
(* What the version store promises its users: a corpus is a filesystem of  *)
(* files.  A file (one version tree) shows one document, at one place; it  *)
(* is there or in the trash.  There is no history here: the two trees of   *)
(* DocVersioning are how the code keeps it.                                *)
(***************************************************************************)
EXTENDS Integers

CONSTANTS Corpora,      \* the corpora
          Places,       \* the paths a file can be at
          Ids           \* the identities of files and documents: numbers, later is greater

VARIABLE files          \* the files, by the identity of their version tree

File == [corpus : Corpora, place : Places, doc : Ids, ver : Nat, trashed : BOOLEAN]

Here(c, p, except) == {f \in DOMAIN files \ {except} :
    ~files[f].trashed /\ files[f].corpus = c /\ files[f].place = p}

Init == files = [f \in {} |-> 0]

(* A new file at a free place. *)
Create(f, c, p) ==
    /\ f \notin DOMAIN files /\ Here(c, p, f) = {}
    /\ files' = [g \in DOMAIN files \cup {f} |->
                   IF g = f THEN [corpus |-> c, place |-> p, doc |-> f, ver |-> 1,
                                  trashed |-> FALSE]
                            ELSE files[g]]

(* A file gets a newer document, in place. *)
Replace(f, d) ==
    /\ ~files[f].trashed /\ d > files[f].doc
    /\ files' = [files EXCEPT ![f].doc = d, ![f].ver = @ + 1]

(* A file moves to a free place. *)
Move(f, p) ==
    /\ ~files[f].trashed /\ Here(files[f].corpus, p, f) = {}
    /\ files' = [files EXCEPT ![f].place = p]

(* Files of one corpus go to the trash, where they keep their place. *)
Trash(S) ==
    /\ \A f \in S : ~files[f].trashed
    /\ \A f, g \in S : files[f].corpus = files[g].corpus
    /\ files' = [f \in DOMAIN files |->
                   [files[f] EXCEPT !.trashed = @ \/ f \in S]]

(* A file comes back, to a free place. *)
Restore(f, p) ==
    /\ files[f].trashed /\ Here(files[f].corpus, p, f) = {}
    /\ files' = [files EXCEPT ![f].place = p, ![f].trashed = FALSE]

(* A file in the trash is deleted for good. *)
Purge(f) ==
    /\ files[f].trashed
    /\ files' = [g \in DOMAIN files \ {f} |-> files[g]]

Step(f, g) ==
    \/ \E c \in Corpora, p \in Places : Create(g, c, p)
    \/ /\ f \in DOMAIN files
       /\ \/ \E d \in Ids : Replace(f, d)
          \/ \E p \in Places : Move(f, p) \/ Restore(f, p)
          \/ Purge(f)

Next == \/ \E f, g \in Ids : Step(f, g)
        \/ \E S \in SUBSET DOMAIN files : Trash(S)

Spec == Init /\ [][Next]_files

=============================================================================
