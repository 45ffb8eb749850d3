---------------------------- MODULE MCAttenuator ----------------------------
(* Attenuator with a register of three bits; chrony steps the clock back.  *)
EXTENDS Attenuator

StepsBack == {-1}
=============================================================================
