----------------------------- MODULE MCInterrupt -----------------------------
(* Small instances of Interrupt for TLC.                                   *)
EXTENDS Interrupt
=============================================================================
