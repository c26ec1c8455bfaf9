----------------------------- MODULE MCBlockScan -----------------------------
(* Instances of BlockScan for TLC: the bounds are in the configurations. *)
EXTENDS BlockScan
=============================================================================
