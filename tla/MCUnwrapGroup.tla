--------------------------- MODULE MCUnwrapGroup ---------------------------
(* Instances of UnwrapGroup for TLC. *)
EXTENDS UnwrapGroup, TLC

CONSTANTS a, b,         \* two validators
          a1, b1        \* a goroutine of each

OneEach == (a1 :> a) @@ (b1 :> b)
OneOfTwo == a1 :> a
=============================================================================
