-------------------------- MODULE MCResearchReports --------------------------
(* ResearchReports on small instances.                                       *)
EXTENDS ResearchReports

=============================================================================
