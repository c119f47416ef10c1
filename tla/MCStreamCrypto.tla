--------------------------- MODULE MCStreamCrypto ---------------------------
(* StreamCrypto on small lengths, for TLC.                                 *)
EXTENDS StreamCrypto

ASSUME ThreeChunks == MaxLength > 2 * ChunkSize
=============================================================================
