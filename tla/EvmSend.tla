------------------------------- MODULE EvmSend -------------------------------
(***************************************************************************)
(* A validator's votes on an EVM chain with a multi-signature contract     *)
(* (MultiSignType EvmMultiSign): dealWrapOrder and the contract branch of  *)
(* dealUnWrapOrder, which send a transaction with SendWrap or SendUnWrap,  *)
(* and recheckEvmTx, which speeds it up while it is pending.  All of them  *)
(* use one account and one SentEvmTxQueue.                                 *)
(*                                                                         *)
(* A transaction is its nonce, its order and its gas price, as its hash    *)
(* is: sent again with the same three it is the same transaction.  Gas     *)
(* prices are levels; one level is the 20 percent a speed-up adds.  The    *)
(* row that dealWrapOrder inserts plays no role here: for EvmMultiSign     *)
(* the order goes on whether the insert fails or not.                      *)
(***************************************************************************)
EXTENDS Naturals, Sequences, FiniteSets

CONSTANTS Listeners,    \* goroutines that range over an event channel
          Recorders,    \* goroutines that serve failure records
          Orders,       \* txids of deposits or burns on the other chain
          PendingTime,  \* configured time; the code counts seconds
          MaxNonce,     \* BOUND on the transactions of the account
          MaxPrice,     \* BOUND on the level of SuggestGasPrice
          MaxForgets,   \* BOUND on expiries of dealedOrders and restarts
          NoOrder, NoTx

Threads == Listeners \cup Recorders
Nonces == 0..(MaxNonce - 1)
Txs == [nonce : Nonces, ord : Orders, price : 0..(MaxPrice + 1)]

ASSUME BoundsAssumption == /\ PendingTime \in Nat \ {0}
                           /\ MaxNonce \in Nat /\ MaxPrice \in Nat /\ MaxForgets \in Nat
ASSUME NoneAssumption == NoOrder \notin Orders /\ NoTx \notin Txs

VARIABLES pc,               \* pc[t]: the next call goroutine t makes
          ord,              \* ord[t]: the order it deals with
          nonce,            \* nonce[t]: what PendingNonceAt has told it
          sentTx,           \* sentTx[t]: the transaction it has sent
          dealedOrders,     \* txids dealt with since the last expiry
          sentEvmUserTxes,  \* txids whose vote has been sent
          queue,            \* SentEvmTxQueue: transactions, and seconds since they were sent
          exam,             \* the transaction recheckEvmTx has read with Top
          verdict,          \* what recheckEvmTx is about to do with it
          newTx,            \* the transaction that replaces it
          pool,             \* pool[n]: the transaction with nonce n, pending or mined
          mined,            \* the nonces below this one are mined
          forgets           \* how often dealedOrders was lost

threadVars == <<pc, ord, nonce, sentTx>>
checkVars  == <<exam, verdict, newTx>>
chainVars  == <<pool, mined>>
vars == <<pc, ord, nonce, sentTx, dealedOrders, sentEvmUserTxes, queue,
          exam, verdict, newTx, pool, mined, forgets>>

MaxAge == 3 * PendingTime + 1    \* older is all the same to recheckEvmTx
Entry(tx) == [tx |-> tx, age |-> 0]

Init == /\ pc = [t \in Threads |-> "idle"]
        /\ ord = [t \in Threads |-> NoOrder]
        /\ nonce = [t \in Threads |-> 0]
        /\ sentTx = [t \in Threads |-> NoTx]
        /\ dealedOrders = {} /\ sentEvmUserTxes = {}
        /\ queue = << >>
        /\ exam = NoTx /\ verdict = "none" /\ newTx = NoTx
        /\ pool = [n \in Nonces |-> NoTx] /\ mined = 0
        /\ forgets = 0
-----------------------------------------------------------------------------
(* The node.                                                               *)

Pending(tx) == tx.nonce >= mined /\ pool[tx.nonce] = tx

\* PendingNonceAt: the first nonce without a transaction.
Free(n) == /\ n \in Nonces /\ pool[n] = NoTx
           /\ \A m \in Nonces : m < n => pool[m] # NoTx

\* SendTransaction takes a transaction with a free nonce, or with a higher price
\* than the pending one it replaces.
Accepts(tx) == /\ tx.nonce >= mined
               /\ pool[tx.nonce] # NoTx => tx.price > pool[tx.nonce].price

\* The next pending transaction is mined.
Mine ==
    /\ mined \in Nonces /\ pool[mined] # NoTx
    /\ mined' = mined + 1
    /\ UNCHANGED <<threadVars, dealedOrders, sentEvmUserTxes, queue, checkVars, pool, forgets>>

\* The node drops a pending transaction.
Evict(n) ==
    /\ n >= mined /\ pool[n] # NoTx
    /\ pool' = [pool EXCEPT ![n] = NoTx]
    /\ UNCHANGED <<threadVars, dealedOrders, sentEvmUserTxes, queue, checkVars, mined, forgets>>
-----------------------------------------------------------------------------
(* dealWrapOrder, dealUnWrapOrder.                                         *)

Return(t) == /\ pc' = [pc EXCEPT ![t] = "idle"]
             /\ ord' = [ord EXCEPT ![t] = NoOrder]
             /\ nonce' = [nonce EXCEPT ![t] = 0]
             /\ sentTx' = [sentTx EXCEPT ![t] = NoTx]

\* DealedOrdersCheck.Check lets the first one pass.
Check(t, o) ==
    /\ o \notin dealedOrders
    /\ dealedOrders' = dealedOrders \cup {o}
    /\ ord' = [ord EXCEPT ![t] = o]
    /\ pc' = [pc EXCEPT ![t] = "nonce"]

\* A listener gets an order, perhaps again, that passes Check.
Deal(t, o) ==
    /\ t \in Listeners
    /\ pc[t] = "idle"
    /\ Check(t, o)
    /\ UNCHANGED <<nonce, sentTx, sentEvmUserTxes, queue, checkVars, chainVars, forgets>>

\* dealTxErrorRecord has verified the txid and does not find it among the sent ones.
DealRecord(t, o) ==
    /\ t \in Recorders
    /\ pc[t] = "idle"
    /\ o \notin sentEvmUserTxes
    /\ ord' = [ord EXCEPT ![t] = o]
    /\ pc' = [pc EXCEPT ![t] = "check"]
    /\ UNCHANGED <<nonce, sentTx, dealedOrders, sentEvmUserTxes, queue, checkVars, chainVars, forgets>>

\* It then goes through the same Check as any order.
CheckRecord(t) ==
    /\ pc[t] = "check"
    /\ \/ Check(t, ord[t]) /\ UNCHANGED <<nonce, sentTx>>
       \/ ord[t] \in dealedOrders /\ Return(t) /\ UNCHANGED dealedOrders
    /\ UNCHANGED <<sentEvmUserTxes, queue, checkVars, chainVars, forgets>>

\* GetPrivateKey and PendingNonceAt: each may fail.
Nonce(t) ==
    /\ pc[t] = "nonce"
    /\ \/ \E n \in Nonces : /\ Free(n)
                            /\ nonce' = [nonce EXCEPT ![t] = n]
                            /\ pc' = [pc EXCEPT ![t] = "send"]
                            /\ UNCHANGED <<ord, sentTx>>
       \/ Return(t)
    /\ UNCHANGED <<dealedOrders, sentEvmUserTxes, queue, checkVars, chainVars, forgets>>

\* SuggestGasPrice and SendTransaction: the node takes the transaction, or takes
\* it and the answer is lost, or does not take it.
Send(t) ==
    /\ pc[t] = "send"
    /\ \E price \in 0..MaxPrice :
          LET tx == [nonce |-> nonce[t], ord |-> ord[t], price |-> price]
          IN  \/ /\ Accepts(tx)
                 /\ pool' = [pool EXCEPT ![tx.nonce] = tx]
                 /\ \/ /\ pc' = [pc EXCEPT ![t] = "push"]
                       /\ sentTx' = [sentTx EXCEPT ![t] = tx]
                       /\ UNCHANGED <<ord, nonce>>
                    \/ Return(t)
              \/ Return(t) /\ UNCHANGED pool
    /\ UNCHANGED <<dealedOrders, sentEvmUserTxes, queue, checkVars, mined, forgets>>

\* Faulty variant: the newest transaction is the next to be examined.
PushInFront(t) ==
    /\ pc[t] = "push"
    /\ queue' = <<Entry(sentTx[t])>> \o queue
    /\ pc' = [pc EXCEPT ![t] = "mark"]
    /\ UNCHANGED <<ord, nonce, sentTx, dealedOrders, sentEvmUserTxes, checkVars, chainVars, forgets>>

\* SentEvmTxQueue.Push.
Push(t) ==
    /\ pc[t] = "push"
    /\ queue' = Append(queue, Entry(sentTx[t]))
    /\ pc' = [pc EXCEPT ![t] = "mark"]
    /\ UNCHANGED <<ord, nonce, sentTx, dealedOrders, sentEvmUserTxes, checkVars, chainVars, forgets>>

\* SentEvmTxMap.Push, and the order is done.
Mark(t) ==
    /\ pc[t] = "mark"
    /\ sentEvmUserTxes' = sentEvmUserTxes \cup {ord[t]}
    /\ Return(t)
    /\ UNCHANGED <<dealedOrders, queue, checkVars, chainVars, forgets>>
-----------------------------------------------------------------------------
(* recheckEvmTx.  Top, Pop and UpdateTop each take the lock on their own;  *)
(* the calls to the node lie between them.  A pass may begin at any time   *)
(* here, in the code every PendingTime seconds.                            *)

Decide(v) == verdict' = v

\* Faulty variant: no transaction is ever too old.
TopKeepsOld ==
    /\ exam = NoTx
    /\ queue # << >>
    /\ Head(queue).age >= PendingTime
    /\ exam' = Head(queue).tx
    /\ Decide("ask")
    /\ UNCHANGED <<threadVars, dealedOrders, sentEvmUserTxes, queue, newTx, chainVars, forgets>>

\* Top: too young an entry ends the pass, too old a one is given up.
Top ==
    /\ exam = NoTx
    /\ queue # << >>
    /\ Head(queue).age >= PendingTime
    /\ exam' = Head(queue).tx
    /\ Decide(IF Head(queue).age > 3 * PendingTime THEN "old" ELSE "ask")
    /\ UNCHANGED <<threadVars, dealedOrders, sentEvmUserTxes, queue, newTx, chainVars, forgets>>

\* Faulty variant: a transaction the node does not answer about is given up.
AskGivesUp ==
    /\ verdict = "ask"
    /\ \/ Pending(exam) /\ Decide("speedup")
       \/ Decide("done")
    /\ UNCHANGED <<threadVars, dealedOrders, sentEvmUserTxes, queue, exam, newTx, chainVars, forgets>>

\* CheckPendingAndSpeedUp asks the node for the transaction: it is pending, it is
\* mined, or there is an error (also when the node does not know it).
Ask ==
    /\ verdict = "ask"
    /\ \/ Pending(exam) /\ Decide("speedup")
       \/ exam.nonce < mined /\ pool[exam.nonce] = exam /\ Decide("done")
       \/ Decide("wait")
    /\ UNCHANGED <<threadVars, dealedOrders, sentEvmUserTxes, queue, exam, newTx, chainVars, forgets>>

\* Faulty variant: the speed-up takes a fresh nonce.
SpeedUpNonceFresh(n) == Free(n)

\* The nonce of the replacement is that of the old transaction.
SpeedUpNonce(n) == n = exam.nonce

\* Then it sends the same call with the gas price suggested now and 20 percent.
\* Less than before is not sent.  The same price makes the same transaction, which
\* the node refuses as already known, unless it has dropped it in the meantime.
\* A dearer one is taken, or refused, or taken with the answer lost.
SpeedUp ==
    /\ verdict = "speedup"
    /\ \E price \in 1..(MaxPrice + 1), n \in Nonces :
          LET tx == [exam EXCEPT !.price = price, !.nonce = n]
              Taken == Accepts(tx) /\ pool' = [pool EXCEPT ![n] = tx]
          IN  /\ SpeedUpNonce(n)
              /\ \/ price <= exam.price /\ Decide("wait") /\ UNCHANGED <<newTx, pool>>
                 \/ tx = exam /\ Taken /\ Decide("resent") /\ UNCHANGED newTx
                 \/ price > exam.price /\ Taken /\ Decide("update") /\ newTx' = tx
                 \/ price > exam.price /\ Taken /\ Decide("refused") /\ UNCHANGED newTx
                 \/ price > exam.price /\ Decide("refused") /\ UNCHANGED <<newTx, pool>>
    /\ UNCHANGED <<threadVars, dealedOrders, sentEvmUserTxes, queue, exam, mined, forgets>>

\* Faulty variant: the hash of the last replacement stays.
ExaminedKeepsNew == exam' = NoTx /\ UNCHANGED newTx /\ verdict' = "none"

\* A round of the loop is over, and its locals are gone.
Examined == exam' = NoTx /\ newTx' = NoTx /\ verdict' = "none"

\* Pop: the transaction is too old, CheckPendingAndSpeedUp returned its hash and no
\* error, or its replacement was refused.
Pop ==
    /\ verdict \in {"old", "done", "resent", "refused"}
    /\ queue' = IF queue = << >> THEN queue ELSE Tail(queue)
    /\ Examined
    /\ UNCHANGED <<threadVars, dealedOrders, sentEvmUserTxes, chainVars, forgets>>

\* UpdateTop: the replacement takes the place and starts a new age.
UpdateTop ==
    /\ verdict = "update"
    /\ queue' = IF queue = << >> THEN queue ELSE [queue EXCEPT ![1] = Entry(newTx)]
    /\ Examined
    /\ UNCHANGED <<threadVars, dealedOrders, sentEvmUserTxes, chainVars, forgets>>

\* "don't do anything, try again later".
TryLater ==
    /\ verdict = "wait"
    /\ Examined
    /\ UNCHANGED <<threadVars, dealedOrders, sentEvmUserTxes, queue, chainVars, forgets>>

recheckEvmTx == Top \/ Ask \/ SpeedUp \/ Pop \/ UpdateTop \/ TryLater
-----------------------------------------------------------------------------
(* Time, expiries and restarts.                                            *)

\* A second passes.
Tick ==
    /\ \E i \in 1..Len(queue) : queue[i].age < MaxAge
    /\ queue' = [i \in 1..Len(queue) |->
                    [queue[i] EXCEPT !.age = IF @ < MaxAge THEN @ + 1 ELSE @]]
    /\ UNCHANGED <<threadVars, dealedOrders, sentEvmUserTxes, checkVars, chainVars, forgets>>

\* DealedOrdersCheck.expired, every 24 hours.
Expired ==
    /\ forgets < MaxForgets /\ dealedOrders # {}
    /\ dealedOrders' = {}
    /\ forgets' = forgets + 1
    /\ UNCHANGED <<threadVars, sentEvmUserTxes, queue, checkVars, chainVars>>

\* SentEvmTxMap.expired: what was sent a day ago or earlier is forgotten.
ExpiredSent ==
    /\ \E old \in SUBSET sentEvmUserTxes :
          /\ old # {}
          /\ sentEvmUserTxes' = sentEvmUserTxes \ old
    /\ UNCHANGED <<threadVars, dealedOrders, queue, checkVars, chainVars, forgets>>

\* The process is started again: everything but the chain is lost.
Crash ==
    /\ forgets < MaxForgets
    /\ pc' = [t \in Threads |-> "idle"] /\ ord' = [t \in Threads |-> NoOrder]
    /\ sentTx' = [t \in Threads |-> NoTx] /\ nonce' = [t \in Threads |-> 0]
    /\ dealedOrders' = {} /\ sentEvmUserTxes' = {}
    /\ queue' = << >>
    /\ Examined
    /\ forgets' = forgets + 1
    /\ UNCHANGED chainVars
-----------------------------------------------------------------------------
ThreadStep(t) == \/ CheckRecord(t) \/ Nonce(t) \/ Send(t) \/ Push(t) \/ Mark(t)
                 \/ \E o \in Orders : Deal(t, o) \/ DealRecord(t, o)

Next == \/ \E t \in Threads : ThreadStep(t)
        \/ recheckEvmTx
        \/ Tick \/ Expired \/ ExpiredSent \/ Crash
        \/ Mine \/ (\E n \in Nonces : Evict(n))

Spec == Init /\ [][Next]_vars

\* Time passes, and recheckEvmTx is driven by a ticker that never stops.
FairSpec == Spec /\ WF_vars(Tick) /\ WF_vars(recheckEvmTx)
-----------------------------------------------------------------------------
(* Properties.                                                             *)

\* The types of the variables, and which locals are set where.
TypeOK ==
    /\ pc \in [Threads -> {"idle", "check", "nonce", "send", "push", "mark"}]
    /\ ord \in [Threads -> Orders \cup {NoOrder}]
    /\ nonce \in [Threads -> Nonces \cup {0}]
    /\ sentTx \in [Threads -> Txs \cup {NoTx}]
    /\ dealedOrders \in SUBSET Orders /\ sentEvmUserTxes \in SUBSET Orders
    /\ queue \in Seq([tx : Txs, age : 0..MaxAge])
    /\ exam \in Txs \cup {NoTx} /\ newTx \in Txs \cup {NoTx}
    /\ verdict \in {"none", "ask", "speedup", "wait", "old", "done", "resent", "refused", "update"}
    /\ pool \in [Nonces -> Txs \cup {NoTx}] /\ mined \in 0..MaxNonce
    /\ forgets \in 0..MaxForgets
    /\ \A t \in Threads : /\ (ord[t] = NoOrder) <=> (pc[t] = "idle")
                          /\ (sentTx[t] = NoTx) <=> pc[t] \notin {"push", "mark"}
                          /\ pc[t] = "send" => nonce[t] \in Nonces
    /\ (exam = NoTx) <=> (verdict = "none")
    /\ (newTx = NoTx) <=> (verdict # "update")
    /\ \A n \in Nonces : /\ pool[n] # NoTx => pool[n].nonce = n
                         /\ n < mined => pool[n] # NoTx

\* Pop and UpdateTop hit the transaction that was examined, although the queue is
\* unlocked while the node is asked and other goroutines push to it.
ExaminedIsHead == exam # NoTx => queue # << >> /\ Head(queue).tx = exam

\* A validator votes on an order once for every time its process forgot what it
\* had dealt with, and once more: not twice because of two goroutines, a speed-up,
\* a lost answer or a failure record.
VotesBounded ==
    \A o \in Orders :
        Cardinality({n \in Nonces : n < mined /\ pool[n].ord = o}) <= 1 + forgets

Entries == {queue[i] : i \in 1..Len(queue)}

\* A transaction the node still holds as pending leaves the queue only when it is
\* older than three times PendingTime, when a replacement was taken or refused,
\* when it was dropped and has just been sent again as it was, or in a restart.
LeavesForAReasonStep ==
    \A e \in Entries :
        (Pending(e.tx) /\ e.tx \notin {f.tx : f \in Entries'}) =>
            \/ e.age > 3 * PendingTime
            \/ verdict \in {"refused", "resent", "update"}
            \/ forgets' > forgets

\* LeavesForAReasonStep, of every step.
LeavesForAReason == [][LeavesForAReasonStep]_vars

\* Every vote leaves the queue in the end: none is sped up for ever, and none waits
\* for ever behind one that stays pending or that the node does not answer about.
QueueDrains ==
    \A n \in Nonces, o \in Orders :
        LET Waits == \E i \in 1..Len(queue) : queue[i].tx.nonce = n /\ queue[i].tx.ord = o
        IN  Waits ~> ~Waits

\* "tx is not pending ever, pop it and continue" (server/recheck.go): when
\* CheckPendingAndSpeedUp returns the old hash and no error, the transaction is
\* not pending.
NotPendingEver == verdict \in {"done", "resent"} => ~Pending(exam)
=============================================================================
