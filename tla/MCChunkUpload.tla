---------------------------- MODULE MCChunkUpload ----------------------------
(* TLC instances of ChunkUpload. *)
EXTENDS ChunkUpload
=============================================================================
