-------------------------- MODULE MCAuthorityFrontier --------------------------
(* AuthorityFrontier on small instances.                                     *)
EXTENDS AuthorityFrontier, TLC

CONSTANTS us

OneJurisdiction == [k \in Keys |-> us]

(* Workers, and responses that need approval, are interchangeable.           *)
Symmetric == Permutations(Workers) \cup Permutations(NeedsApproval)

=============================================================================
