---------------------------- MODULE MCBufferUse -----------------------------
(* Chunks of one to three bytes: with the five bytes of the buffer both    *)
(* regions fill up, wrap and are refused bytes.                            *)
EXTENDS BufferUse

MCChunk == UNION {[1 .. n -> Byte] : n \in 1 .. 3}
=============================================================================
