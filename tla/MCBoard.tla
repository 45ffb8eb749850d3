------------------------------- MODULE MCBoard -------------------------------
(***************************************************************************)
(* Board with two applications, one of either byte order, whose bit        *)
(* streams are three words after a header of three bytes.                  *)
(***************************************************************************)
EXTENDS Board

MCBlock == [p \in Procs |-> IF p \in Swapped THEN 13 ELSE 8]
=============================================================================
