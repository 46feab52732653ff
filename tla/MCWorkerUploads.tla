--------------------------- MODULE MCWorkerUploads ---------------------------
(* WorkerUploads on small instances.                                        *)
EXTENDS WorkerUploads

=============================================================================
