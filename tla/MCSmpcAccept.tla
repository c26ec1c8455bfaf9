---------------------------- MODULE MCSmpcAccept ----------------------------
(* Instances of SmpcAccept for TLC. *)
EXTENDS SmpcAccept, TLC

CONSTANTS g, b, x

\* One request of each kind.
MCKind == g :> "good" @@ b :> "bad" @@ x :> "other"

\* A request in order, and one that is not.
MCKindTwo == g :> "good" @@ b :> "bad"

=============================================================================
