------------------------------ MODULE Deposits ------------------------------
(***************************************************************************)
(* The two ways in which a deposit reaches dealWrapOrder of an EVM token   *)
(* with a multi-signature contract: the listener of its chain, one message *)
(* per log or output, and a failure record, which names a transaction that *)
(* CheckUserTx then reads back from the chain.  A transaction may hold     *)
(* several deposits, and its id is all the tables know it by.              *)
(*                                                                         *)
(* dealWrapOrder is one step here: what other goroutines do meanwhile, and *)
(* the transactions that carry the votes, is the subject of EvmSend.       *)
(***************************************************************************)
EXTENDS Naturals, Sequences

CONSTANTS Validators,
          Txs,          \* transactions, or blocks of the Stardust ledger
          Contents,     \* what a transaction may hold, see ContentsAssumption
          Coin,         \* the symbol of the destination token of the pair
          Amounts,
          MinAmount,
          NoOne         \* no recipient, or the zero address, which SendWrap refuses

\* A log of the contract, or an output: its recipient, as it stands there and as the
\* 20 bytes of an address, amount and target token, and whether it is a deposit,
\* something else of the contract's or the wallet's (the other event; an output
\* without metadata), or none of their business.
Logs == [to : STRING, addr : STRING, amount : Amounts, coin : STRING,
         way : {"in", "odd", "elsewhere"}]

\* "before" are the logs of other transactions ahead of it in its block.
ASSUME ContentsAssumption ==
    Contents \subseteq [kind : {"evm", "iota", "shimmer"}, before : Seq(Logs), logs : Seq(Logs)]
ASSUME AmountAssumption == Amounts \subseteq Nat /\ MinAmount \in Nat

VARIABLES content,          \* content[x]: what x holds, fixed from the start
          ledger,           \* ledger[x]: not there yet, attached, included or in conflict
          next,             \* next[v][x]: the log of x the listener of v gets next
          dealedOrders,     \* dealedOrders[v]: ids dealt with since the last expiry
          sentEvmUserTxes,  \* sentEvmUserTxes[v]: ids whose vote has been sent
          votes,            \* votes in the destination contract
          torn,             \* history: who did not get the logs of which x in one piece
          tried,            \* history: who has dealt with a deposit of which x
          hasty             \* history: x was read back before the ledger decided on it

tableVars == <<dealedOrders, sentEvmUserTxes>>
histVars == <<torn, hasty>>
vars == <<content, ledger, next, tableVars, votes, tried, histVars>>

LogsOf(x) == content[x].logs

Init == /\ content \in [Txs -> Contents]
        /\ ledger = [x \in Txs |-> "none"]
        /\ next = [v \in Validators |-> [x \in Txs |-> 1]]
        /\ dealedOrders = [v \in Validators |-> {}]
        /\ sentEvmUserTxes = [v \in Validators |-> {}]
        /\ votes = {} /\ torn = {} /\ tried = {} /\ hasty = {}
-----------------------------------------------------------------------------
(* dealWrapOrder.                                                          *)

\* Faulty variant: an order counts as sent although nothing was.
SendAlwaysMarks(v, x, d) ==
    /\ sentEvmUserTxes' = [sentEvmUserTxes EXCEPT ![v] = @ \cup {x}]
    /\ \/ /\ d.addr # NoOne
          /\ votes' = votes \cup {[by |-> v, tx |-> x, to |-> d.to, amount |-> d.amount]}
       \/ UNCHANGED votes

\* SendWrap: the vote is in and sentEvmUserTxes notes it, or it is in and the answer
\* was lost, or there is no vote, as always when there is no recipient.
Send(v, x, d) ==
    \/ /\ d.addr # NoOne
       /\ votes' = votes \cup {[by |-> v, tx |-> x, to |-> d.to, amount |-> d.amount]}
       /\ sentEvmUserTxes' = [sentEvmUserTxes EXCEPT ![v] = @ \cup {x}]
          \/ UNCHANGED sentEvmUserTxes
    \/ UNCHANGED <<votes, sentEvmUserTxes>>

\* dealedOrders.Check lets the first order with the id of x pass; any other with the
\* same id is dropped, whatever it deposits.
DealOrder(v, x, d) ==
    IF x \in dealedOrders[v] THEN UNCHANGED <<tableVars, votes, tried>>
    ELSE /\ dealedOrders' = [dealedOrders EXCEPT ![v] = @ \cup {x}]
         /\ Send(v, x, d)
         /\ tried' = IF d.addr = NoOne THEN tried ELSE tried \cup {<<v, x>>}
-----------------------------------------------------------------------------
(* The listener.                                                           *)

Advance(v, x) == next' = [next EXCEPT ![v][x] = @ + 1]
Pushed(v, x) == ledger[x] = "included" /\ next[v][x] <= Len(LogsOf(x))
Midway(v, x) == next[v][x] \in 2..Len(LogsOf(x))

\* listenWrap and dealWrapOrder turn away what is no order, too small, or for the
\* token of another pair.
Passes(d) == d.way = "in" /\ d.amount >= MinAmount /\ d.coin = Coin

\* What the listener makes of a log: dealWrapEvent cuts the recipient to an address.
Heard(x, l) == IF content[x].kind = "evm" THEN [l EXCEPT !.to = l.addr] ELSE l

\* A log is pushed to the listener and dealt with, or turned away.
Push(v, x) ==
    /\ Pushed(v, x)
    /\ Advance(v, x)
    /\ LET l == LogsOf(x)[next[v][x]]
       IN  IF Passes(l) THEN DealOrder(v, x, Heard(x, l)) ELSE UNCHANGED <<tableVars, votes, tried>>
    /\ UNCHANGED <<content, ledger, histVars>>

\* A log falls into a gap of the subscription.
Miss(v, x) ==
    /\ Pushed(v, x)
    /\ Advance(v, x)
    /\ torn' = torn \cup {<<v, x>>}
    /\ UNCHANGED <<content, ledger, tableVars, votes, tried, hasty>>

\* A reorganisation removes the logs of x and includes them again: all are pushed.
Again(v, x) ==
    /\ content[x].kind = "evm" /\ next[v][x] > Len(LogsOf(x))
    /\ next' = [next EXCEPT ![v][x] = 1]
    /\ UNCHANGED <<content, ledger, tableVars, votes, tried, histVars>>
-----------------------------------------------------------------------------
(* The failure record.                                                     *)

Own(s) == {i \in DOMAIN s : s[i].way # "elsewhere"}
FirstOwn(s) == {i \in Own(s) : \A h \in Own(s) : i <= h}
DepositsAt(s, indices) == {s[i] : i \in {j \in indices : s[j].way = "in"}}

\* Faulty variant: any deposit of the transaction will do.
FirstLogAny(c) == DepositsAt(c.logs, Own(c.logs))

\* Faulty variant: the logs of the block are not compared with the hash.
FirstLogOfBlock(c) == DepositsAt(c.before \o c.logs, FirstOwn(c.before \o c.logs))

\* EvmToken.CheckUserTx: the first log of the transaction among the contract's in
\* its block; an error if it is of the other event.
FirstLog(c) == DepositsAt(c.logs, FirstOwn(c.logs))

\* IotaSmrToken.CheckUserTx: some output of the block that goes to the wallet, in
\* the order of a Go map; an error if it holds no order.
SomeOutput(c) == DepositsAt(c.logs, Own(c.logs))

\* ShimmerToken.CheckUserTx: nothing, and no error.
NoAnswer == {[to |-> NoOne, addr |-> NoOne, amount |-> 0, coin |-> Coin, way |-> "in"]}

\* What CheckUserTx may return.  A receipt exists for what is included; metadata
\* without a conflict also for a block no milestone has referenced yet.
CheckUserTx(x) ==
    LET c == content[x]
    IN  CASE c.kind = "evm"  -> IF ledger[x] = "included" THEN FirstLog(c) ELSE {}
          [] c.kind = "iota" -> IF ledger[x] \in {"attached", "included"} THEN SomeOutput(c) ELSE {}
          [] OTHER           -> NoAnswer

\* Faulty variant: the id is put into dealedOrders before it is verified.
RecordMarksFirst(v, x) ==
    /\ x \notin sentEvmUserTxes[v] /\ x \notin dealedOrders[v]
    /\ \/ \E d \in CheckUserTx(x) : DealOrder(v, x, d)
       \/ /\ dealedOrders' = [dealedOrders EXCEPT ![v] = @ \cup {x}]
          /\ UNCHANGED <<sentEvmUserTxes, votes, tried>>
    /\ hasty' = IF ledger[x] = "attached" THEN hasty \cup {x} ELSE hasty
    /\ UNCHANGED <<content, ledger, next, torn>>

\* dealTxErrorRecord, for a record that names this pair: the transaction is read
\* back, is not among the sent ones, and its deposit, of whatever size, is dealt
\* with as an order for the token the record names.
Record(v, x) ==
    /\ \E d \in CheckUserTx(x) : DealOrder(v, x, d)
    /\ x \notin sentEvmUserTxes[v]
    /\ hasty' = IF ledger[x] = "attached" THEN hasty \cup {x} ELSE hasty
    /\ UNCHANGED <<content, ledger, next, torn>>
-----------------------------------------------------------------------------
(* What is forgotten, and the ledger.                                      *)

\* Whatever v has only seen a part of it may now take for new.
TornBy(v) == torn' = torn \cup {<<v, x>> : x \in {y \in Txs : Midway(v, y)}}

\* dealedOrders is emptied once a day.
Expired(v) ==
    /\ dealedOrders' = [dealedOrders EXCEPT ![v] = {}]
    /\ TornBy(v)
    /\ UNCHANGED <<content, ledger, next, sentEvmUserTxes, votes, tried, hasty>>

\* SentEvmTxMap drops what is old enough.
ExpiredSent(v, x) ==
    /\ x \in sentEvmUserTxes[v]
    /\ sentEvmUserTxes' = [sentEvmUserTxes EXCEPT ![v] = @ \ {x}]
    /\ UNCHANGED <<content, ledger, next, dealedOrders, votes, tried, histVars>>

\* The process of v is started again, be it because a record named a token without
\* an entry in destTokens, on whose nil interface dealWrapOrder panics.
Restart(v) ==
    /\ dealedOrders' = [dealedOrders EXCEPT ![v] = {}]
    /\ sentEvmUserTxes' = [sentEvmUserTxes EXCEPT ![v] = {}]
    /\ TornBy(v)
    /\ UNCHANGED <<content, ledger, next, votes, tried, hasty>>

\* A transaction is included in the chain; one of the Stardust ledger is attached
\* first and may turn out to be in conflict.
Settle(x) ==
    /\ \/ /\ ledger[x] = "none"
          /\ ledger' = [ledger EXCEPT ![x] = IF content[x].kind = "evm" THEN "included"
                                                                       ELSE "attached"]
       \/ /\ ledger[x] = "attached"
          /\ \E state \in {"included", "conflict"} : ledger' = [ledger EXCEPT ![x] = state]
    /\ UNCHANGED <<content, next, tableVars, votes, tried, histVars>>
-----------------------------------------------------------------------------
Next == \/ \E v \in Validators, x \in Txs :
              Push(v, x) \/ Miss(v, x) \/ Again(v, x) \/ Record(v, x) \/ ExpiredSent(v, x)
        \/ \E v \in Validators : Expired(v) \/ Restart(v)
        \/ \E x \in Txs : Settle(x)

Spec == Init /\ [][Next]_vars
-----------------------------------------------------------------------------
(* Properties.                                                             *)

VotesOn(x) == {b \in votes : b.tx = x}

\* The types of the variables; what is noted as sent has been voted on.
TypeOK ==
    /\ content \in [Txs -> Contents]
    /\ ledger \in [Txs -> {"none", "attached", "included", "conflict"}]
    /\ \A v \in Validators, x \in Txs : next[v][x] \in 1..(Len(LogsOf(x)) + 1)
    /\ dealedOrders \in [Validators -> SUBSET Txs]
    /\ sentEvmUserTxes \in [Validators -> SUBSET Txs]
    /\ torn \cup tried \subseteq Validators \X Txs /\ hasty \subseteq Txs
    /\ \A v \in Validators : \A x \in sentEvmUserTxes[v] : \E b \in VotesOn(x) : b.by = v

\* Whichever way an order came, what is voted on is one deposit of that transaction:
\* its recipient, as it stands or cut to an address, with its own amount; and the
\* transaction is in the ledger, unless a record made the validator read it back
\* before the ledger had decided.
VoteIsDeposit ==
    \A b \in votes :
        /\ \E i \in DOMAIN LogsOf(b.tx) :
              LET d == LogsOf(b.tx)[i]
              IN  d.way = "in" /\ b.to \in {d.to, d.addr} /\ b.amount = d.amount
        /\ ledger[b.tx] = "included" \/ b.tx \in hasty

\* The listener and a record make the same order of x: its first log is one the
\* listener deals with, and the recipient in it an address, or it makes CheckUserTx
\* fail; on the Stardust ledger the wallet gets one output.
SameBothWays(x) ==
    LET logs == LogsOf(x)
    IN  CASE content[x].kind = "evm"  ->
                \A i \in FirstOwn(logs) :
                    \/ Passes(logs[i]) /\ logs[i].to = logs[i].addr
                    \/ logs[i].way = "odd"
          [] content[x].kind = "iota" -> \A i, j \in Own(logs) : i = j
          [] OTHER                    -> TRUE

\* All votes on a transaction name the same recipient and amount, those of any
\* validator, by any path, after any number of records, expiries and restarts, when
\* all validators got its logs in one piece: although only the first deposit of a
\* transaction is dealt with, everybody takes the same one for the first.
VotesAgree ==
    \A x \in Txs : (SameBothWays(x) /\ \A v \in Validators : <<v, x>> \notin torn) =>
        \A b, c \in VotesOn(x) : b.to = c.to /\ b.amount = c.amount

\* Whatever CheckUserTx or the listener makes of x has a recipient.
Addressed(x) == /\ content[x].kind # "shimmer"
                /\ \A i \in DOMAIN LogsOf(x) : LogsOf(x)[i].addr # NoOne

\* A transaction whose deposits have all been pushed to a validator has been dealt
\* with there: a record that came first may have taken the place of the listener's
\* order, never for nothing, except one for a Shimmer deposit, which CheckUserTx
\* lets pass without a recipient.  (A deposit to the zero address is dealt with for
\* nothing, and takes the place of others.)
PushedIsTried ==
    \A v \in Validators, x \in Txs :
        (/\ next[v][x] > Len(LogsOf(x)) /\ <<v, x>> \notin torn
         /\ \E i \in DOMAIN LogsOf(x) : Passes(LogsOf(x)[i])
         /\ Addressed(x)) => <<v, x>> \in tried
=============================================================================
