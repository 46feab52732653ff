----------------------------- MODULE MCIngestion -----------------------------
(* Ingestion on small instances.                                             *)
EXTENDS Ingestion

=============================================================================
