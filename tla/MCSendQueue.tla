---------------------------- MODULE MCSendQueue ----------------------------
(***************************************************************************)
(* SendQueue on a ring of five chunks of four bytes, asked for a size that *)
(* is not a multiple of the chunk.                                         *)
(***************************************************************************)
EXTENDS SendQueue

(* What allocateClient() is asked for: five chunks and a bit.              *)
MCSendqArg == 5 * Chunk + 3

=============================================================================
