---------------------------- MODULE MCUtxoSelect ----------------------------
(* Instances of UtxoSelect for TLC. *)
EXTENDS UtxoSelect

Coins(n)      == [token |-> "none", amount |-> 0, coins |-> n]
Ours(n, c)    == [token |-> "ours", amount |-> n, coins |-> c]
Other         == [token |-> "other", amount |-> 5, coins |-> 2]

\* Coins, our token and another one.
MCWallet == <<Ours(2, 1), Coins(1), Ours(1, 2), Coins(2), Ours(1, 1), Coins(3), Other>>
=============================================================================
