-------------------------- MODULE MCChunkedUploads --------------------------
(* ChunkedUploads on small instances.                                       *)
EXTENDS ChunkedUploads

=============================================================================
