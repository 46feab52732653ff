--------------------------- MODULE MCDocVersioning ---------------------------
(* DocVersioning on small instances. *)
EXTENDS DocFilesystem, TLC

OverlapSymmetry == Permutations(Requests) \cup Permutations(Corpora)

ApartSymmetry ==
    Permutations(Requests) \cup Permutations(Dirs) \cup Permutations(Names)
=============================================================================
