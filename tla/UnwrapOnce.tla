----------------------------- MODULE UnwrapOnce -----------------------------
(***************************************************************************)
(* What the bridge promises the owner of an unwrap order, with no process, *)
(* database or network in sight: an order is claimed by somebody, and a    *)
(* claim ends either in one payment, for good, or in a recorded failure,   *)
(* after which the order may be claimed again.  A failed order is never    *)
(* paid before it is claimed again, and a paid one never changes.          *)
(***************************************************************************)

CONSTANT Orders     \* unwrap orders, one per burn transaction

VARIABLE status     \* status[o]: how far the order has got

Status == {"open", "claimed", "failed", "paid"}

Init == status = [o \in Orders |-> "open"]

\* An order nobody holds is claimed, for the first time or after a failure.
Claim(o) == /\ status[o] \in {"open", "failed"}
            /\ status' = [status EXCEPT ![o] = "claimed"]

\* The ledger includes the one payment of a claimed order.
Pay(o) == /\ status[o] = "claimed"
          /\ status' = [status EXCEPT ![o] = "paid"]

\* The holder of the claim learns that its payment can never be included.
Fail(o) == /\ status[o] = "claimed"
           /\ status' = [status EXCEPT ![o] = "failed"]

Next == \E o \in Orders : Claim(o) \/ Pay(o) \/ Fail(o)

Spec == Init /\ [][Next]_status
=============================================================================
