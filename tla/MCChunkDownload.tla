--------------------------- MODULE MCChunkDownload ---------------------------
(* TLC instances of ChunkDownload. *)
EXTENDS ChunkDownload
=============================================================================
