---------------------------- MODULE MCSmpcUnwrap ----------------------------
(* Instances of SmpcUnwrap for TLC. *)
EXTENDS SmpcUnwrap, TLC

CONSTANTS a, b,         \* two validators
          a1, a2, b1    \* goroutines: two of a's process, one of b's

\* Two goroutines of one process and one of another: a race inside a process,
\* where dealedOrders helps, and across processes, where only the table does.
TwoProcs == (a1 :> a) @@ (a2 :> a) @@ (b1 :> b)

OneProc == (a1 :> a)

Symmetry == Permutations(Orders) \cup Permutations(Keys)
=============================================================================
