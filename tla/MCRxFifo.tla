------------------------------ MODULE MCRxFifo ------------------------------
(***************************************************************************)
(* RxFifo with a FIFO of two chunks of two samples, which is the smallest  *)
(* the servers' check of the sizes allows.                                 *)
(***************************************************************************)
EXTENDS RxFifo
=============================================================================
