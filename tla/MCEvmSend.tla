------------------------------ MODULE MCEvmSend ------------------------------
(* Instances of EvmSend for TLC: the bounds are in the configurations. *)
EXTENDS EvmSend
=============================================================================
