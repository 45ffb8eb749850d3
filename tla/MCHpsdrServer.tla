---------------------------- MODULE MCHpsdrServer ----------------------------
(* HpsdrServer with the sizes of the code and samples that come in large   *)
(* lots, so that the level takes few values.                               *)
EXTENDS HpsdrServer
=============================================================================
