---------------------------- MODULE MCWideServer ----------------------------
(* Two clients that connect, speak, leave and come again, in any order.    *)
EXTENDS WideServer
=============================================================================
