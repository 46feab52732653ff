-------------------------- MODULE MCCorpusFolders --------------------------
(* CorpusFolders on small instances; names and slots are interchangeable.   *)
EXTENDS CorpusFolders, TLC

Symmetry == Permutations(Names) \cup Permutations(Requests)
NameSymmetry == Permutations(Names)

=============================================================================
