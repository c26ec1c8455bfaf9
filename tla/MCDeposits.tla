----------------------------- MODULE MCDeposits -----------------------------
(* Instances of Deposits for TLC. *)
EXTENDS Deposits

Log(to, amount, coin, way) == [to |-> to, addr |-> to, amount |-> amount, coin |-> coin, way |-> way]
Big(to) == Log(to, 2, "T", "in")
Small(to) == Log(to, 1, "T", "in")

\* A deposit alone; two; a small one, one for another token, or the other event
\* before a deposit; a recipient that is no address; the zero address; and a deposit
\* of somebody else ahead in the block.
MCLogs == { <<Big("a")>>, <<Big("a"), Big("b")>>, <<Small("a"), Big("b")>>,
            <<Log("a", 2, "U", "in"), Big("b")>>, <<Log("a", 2, "T", "odd"), Big("b")>>,
            <<Log("a", 2, "T", "elsewhere"), Big("b")>>,
            <<[Big("long") EXCEPT !.addr = "g"]>>, <<Big("nobody"), Big("b")>> }

MCContents == [kind : {"evm", "iota", "shimmer"}, before : {<<Big("c")>>}, logs : MCLogs]
=============================================================================
