--------------------------- MODULE MCHfdlServer ---------------------------
(***************************************************************************)
(* HfdlServer on one channel, hence two ports.                             *)
(***************************************************************************)
EXTENDS HfdlServer

(* chrony sets the clock back by a tick, or forward by two.                *)
StepsBack == {-1}
StepsBoth == {-1, 2}
=============================================================================
