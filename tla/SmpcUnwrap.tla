----------------------------- MODULE SmpcUnwrap -----------------------------
(***************************************************************************)
(* The unwrap path for a source token whose wallet is signed by the SMPC   *)
(* group (MultiSignType SmpcSign, the iotasmr token): dealUnWrapOrder,     *)
(* detectSignStatus and RecheckIota of package server, with the tables     *)
(* swap_order and error_order of package model, the SMPC service and the   *)
(* ledger's view of the submitted blocks.                                  *)
(*                                                                         *)
(* Every validator runs one process.  Two goroutines of a process may be   *)
(* inside dealUnWrapOrder: the one that ranges over the unwrap event       *)
(* channel (listenUnWrap) and the one that serves failure records          *)
(* (dealTxErrorRecord).  All processes share one MySQL server, where the   *)
(* unique key on swap_order.txid is the only thing that keeps two of them  *)
(* from paying the same order; dealedOrders, sentIotaTxes and the          *)
(* goroutines' locals live in memory and are lost in a crash.              *)
(*                                                                         *)
(* Each call over the network may fail, and may also take effect and then  *)
(* report a failure (a lost reply).                                        *)
(***************************************************************************)
EXTENDS Naturals, Sequences

CONSTANTS Validators,   \* processes, one per validator
          Threads,      \* goroutines that call dealUnWrapOrder
          Proc,         \* Proc[t]: the process goroutine t belongs to
          Orders,       \* txids of burn transactions on the EVM side
          Keys,         \* keyIDs of SMPC sign requests: BOUND on how many are made
          NoOrder, NoKey

ASSUME ProcAssumption == Proc \in [Threads -> Validators]
ASSUME NoOrderAssumption == NoOrder \notin Orders
ASSUME NoKeyAssumption == NoKey \notin Keys

VARIABLES
    pc,             \* pc[t]: the next call goroutine t makes
    ord,            \* ord[t]: the order it is dealing with
    key,            \* key[t]: the sign request whose status it polls
    dealedOrders,   \* dealedOrders[v]: txids already dealt with since the last expiry
    sentIotaTxes,   \* sentIotaTxes[v]: FIFO of sent, not yet confirmed payments
    popped,         \* popped[v]: the payment RecheckIota has taken off the queue
    verdict,        \* verdict[v]: what CheckSentTx said about popped[v]
    swapOrder,      \* swapOrder[o]: no row, row with state 0, row with state 1
    errorOrder,     \* orders with a row in error_order
    reqOrder,       \* reqOrder[k]: the order the sign request k was made for
    rsv,            \* rsv[k]: what the SMPC group has done about request k
    block           \* block[k]: the ledger's view of the block with k's payment

threadVars == <<pc, ord, key>>
dbVars     == <<swapOrder, errorOrder>>
smpcVars   == <<reqOrder, rsv>>
queueVars  == <<sentIotaTxes, popped, verdict>>
vars == <<pc, ord, key, dealedOrders, sentIotaTxes, popped, verdict,
          swapOrder, errorOrder, reqOrder, rsv, block>>

PCs         == {"idle", "store", "create", "sign", "detect", "push"}
RowStates   == {"absent", "open", "done"}
SignStates  == {"none", "waiting", "signed", "failed"}
Verdicts    == {"none", "again", "done", "error"}
BlockStates == {"none", "sent", "solid", "included", "conflict"}

Init == /\ pc = [t \in Threads |-> "idle"]
        /\ ord = [t \in Threads |-> NoOrder]
        /\ key = [t \in Threads |-> NoKey]
        /\ dealedOrders = [v \in Validators |-> {}]
        /\ sentIotaTxes = [v \in Validators |-> << >>]
        /\ popped = [v \in Validators |-> NoKey]
        /\ verdict = [v \in Validators |-> "none"]
        /\ swapOrder = [o \in Orders |-> "absent"]
        /\ errorOrder = {}
        /\ reqOrder = [k \in Keys |-> NoOrder]
        /\ rsv = [k \in Keys |-> "none"]
        /\ block = [k \in Keys |-> "none"]
-----------------------------------------------------------------------------
(* Goroutine locals.                                                       *)

Goto(t, label) == pc' = [pc EXCEPT ![t] = label]

\* Faulty variant: the sign request outlives the call that made it.
ReturnKeepsKey(t) == /\ Goto(t, "idle")
                     /\ ord' = [ord EXCEPT ![t] = NoOrder]
                     /\ UNCHANGED key

\* dealUnWrapOrder returns: its locals are gone.
Return(t) == /\ Goto(t, "idle")
             /\ ord' = [ord EXCEPT ![t] = NoOrder]
             /\ key' = [key EXCEPT ![t] = NoKey]
-----------------------------------------------------------------------------
(* dealUnWrapOrder.                                                        *)

\* The goroutine receives an order, from the event listener or from a failure
\* record, as often as the chain redelivers it, and passes the test-and-set of
\* dealedOrders.  An order that fails it, or that comes while CheckAccountsState
\* reports a validator offline, is dropped without a trace: no step here.
Deal(t, o) ==
    /\ pc[t] = "idle"
    /\ o \notin dealedOrders[Proc[t]]
    /\ dealedOrders' = [dealedOrders EXCEPT ![Proc[t]] = @ \cup {o}]
    /\ ord' = [ord EXCEPT ![t] = o]
    /\ Goto(t, "store")
    /\ UNCHANGED <<key, queueVars, dbVars, smpcVars, block>>

\* Faulty variant: txid is no unique key of swap_order.
StoreOkNoUniqueKey(t) ==
    /\ pc[t] = "store"
    /\ swapOrder' = [swapOrder EXCEPT ![ord[t]] = "open"]
    /\ Goto(t, "create")
    /\ UNCHANGED <<ord, key, dealedOrders, queueVars, errorOrder, smpcVars, block>>

\* StoreSwapOrder inserts the row and reports it.
StoreOk(t) ==
    /\ pc[t] = "store"
    /\ swapOrder[ord[t]] = "absent"
    /\ swapOrder' = [swapOrder EXCEPT ![ord[t]] = "open"]
    /\ Goto(t, "create")
    /\ UNCHANGED <<ord, key, dealedOrders, queueVars, errorOrder, smpcVars, block>>

\* StoreSwapOrder inserts the row, but its reply is lost: the order is given up.
StoreLost(t) ==
    /\ pc[t] = "store"
    /\ swapOrder[ord[t]] = "absent"
    /\ swapOrder' = [swapOrder EXCEPT ![ord[t]] = "open"]
    /\ Return(t)
    /\ UNCHANGED <<dealedOrders, queueVars, errorOrder, smpcVars, block>>

\* Faulty variant: a duplicate row does not stop the order, as for EvmMultiSign.
StoreFailGoesOn(t) ==
    /\ pc[t] = "store"
    /\ Goto(t, "create")
    /\ UNCHANGED <<ord, key, dealedOrders, queueVars, dbVars, smpcVars, block>>

\* StoreSwapOrder fails, on the duplicate txid (error 1062) or before it got
\* to the database.
StoreFail(t) ==
    /\ pc[t] = "store"
    /\ Return(t)
    /\ UNCHANGED <<dealedOrders, queueVars, dbVars, smpcVars, block>>

\* CreateUnWrapTxData builds the essence of the payment from the wallet's
\* outputs, or fails and leaves the row behind.
Create(t) ==
    /\ pc[t] = "create"
    /\ \/ /\ Goto(t, "sign")
          /\ UNCHANGED <<ord, key>>
       \/ Return(t)
    /\ UNCHANGED <<dealedOrders, queueVars, dbVars, smpcVars, block>>

\* GetPrivateKey and smpc.Sign: a new request with a key id of its own ...
SignOk(t, k) ==
    /\ pc[t] = "sign"
    /\ rsv[k] = "none"
    /\ rsv' = [rsv EXCEPT ![k] = "waiting"]
    /\ reqOrder' = [reqOrder EXCEPT ![k] = ord[t]]
    /\ key' = [key EXCEPT ![t] = k]
    /\ Goto(t, "detect")
    /\ UNCHANGED <<ord, dealedOrders, queueVars, dbVars, block>>

\* ... or an error.  The group may still work on a request whose reply was
\* lost, but nobody knows the key id to ask for the signature.
SignFail(t) ==
    /\ pc[t] = "sign"
    /\ Return(t)
    /\ UNCHANGED <<dealedOrders, queueVars, dbVars, smpcVars, block>>

\* Faulty variant: a failed submission moves the order to error_order at once.
SubmitFailDeletesRow(t) ==
    /\ pc[t] = "detect"
    /\ rsv[key[t]] = "signed"
    /\ block' = [block EXCEPT ![key[t]] = "sent"]
    /\ \/ /\ Goto(t, "push")
          /\ UNCHANGED <<ord, key, dbVars>>
       \/ /\ Return(t)
          /\ swapOrder' = [swapOrder EXCEPT ![ord[t]] = "absent"]
          /\ errorOrder' = errorOrder \cup {ord[t]}
    /\ UNCHANGED <<dealedOrders, queueVars, smpcVars>>

\* A poll of detectSignStatus finds the signature, and SendSignedTxData
\* submits the block: it succeeds, or the block is accepted and the reply lost,
\* or nothing is submitted.
Submit(t) ==
    /\ pc[t] = "detect"
    /\ rsv[key[t]] = "signed"
    /\ \/ /\ block' = [block EXCEPT ![key[t]] = "sent"]
          /\ Goto(t, "push")
          /\ UNCHANGED <<ord, key>>
       \/ /\ block' = [block EXCEPT ![key[t]] = "sent"]
          /\ Return(t)
       \/ /\ Return(t)
          /\ UNCHANGED block
    /\ UNCHANGED <<dealedOrders, queueVars, dbVars, smpcVars>>

\* Faulty variant: the poll loop gives up only once the group has answered.
DetectTimeoutOnAnswer(t) ==
    /\ pc[t] = "detect"
    /\ rsv[key[t]] # "waiting"
    /\ Return(t)
    /\ UNCHANGED <<dealedOrders, queueVars, dbVars, smpcVars, block>>

\* DetectCount polls found no signature, whatever the group does later.
DetectTimeout(t) ==
    /\ pc[t] = "detect"
    /\ Return(t)
    /\ UNCHANGED <<dealedOrders, queueVars, dbVars, smpcVars, block>>

\* sentIotaTxes.push, then dealUnWrapOrder sleeps and returns.
Push(t) ==
    /\ pc[t] = "push"
    /\ sentIotaTxes' = [sentIotaTxes EXCEPT ![Proc[t]] = Append(@, key[t])]
    /\ Return(t)
    /\ UNCHANGED <<dealedOrders, popped, verdict, dbVars, smpcVars, block>>
-----------------------------------------------------------------------------
(* RecheckIota, the housekeeping of dealedOrders, and crashes.             *)

\* Faulty variant: a block that is not solid yet counts as a failed payment.
CheckSentTxHasty(k) == IF block[k] \in {"solid", "included"} THEN {"again", "done"}
                                                            ELSE {"again", "error"}

\* What CheckSentTx may answer about a block: an RPC error is possible in any
\* state, a block that is not solid is to be asked about again, and a solid one
\* is in order unless its metadata names a conflict - also while no milestone
\* has referenced it yet.
CheckSentTx(k) == {"again"} \cup (IF block[k] \in {"solid", "included"} THEN {"done"} ELSE {})
                            \cup (IF block[k] = "conflict" THEN {"error"} ELSE {})

\* A tick of RecheckIota takes the oldest payment and asks the node about it.
RecheckPop(v) ==
    /\ popped[v] = NoKey
    /\ sentIotaTxes[v] # << >>
    /\ popped' = [popped EXCEPT ![v] = Head(sentIotaTxes[v])]
    /\ \E answer \in CheckSentTx(Head(sentIotaTxes[v])) :
          verdict' = [verdict EXCEPT ![v] = answer]
    /\ sentIotaTxes' = [sentIotaTxes EXCEPT ![v] = Tail(@)]
    /\ UNCHANGED <<threadVars, dealedOrders, dbVars, smpcVars, block>>

Settled(v) == /\ popped' = [popped EXCEPT ![v] = NoKey]
              /\ verdict' = [verdict EXCEPT ![v] = "none"]

\* Faulty variant: a payment without a verdict goes back to the head of the queue.
RecheckAgainAtHead(v) ==
    /\ verdict[v] = "again"
    /\ sentIotaTxes' = [sentIotaTxes EXCEPT ![v] = <<popped[v]>> \o @]
    /\ Settled(v)
    /\ UNCHANGED <<threadVars, dealedOrders, dbVars, smpcVars, block>>

\* No verdict yet: the payment goes to the tail of the queue.
RecheckAgain(v) ==
    /\ verdict[v] = "again"
    /\ sentIotaTxes' = [sentIotaTxes EXCEPT ![v] = Append(@, popped[v])]
    /\ Settled(v)
    /\ UNCHANGED <<threadVars, dealedOrders, dbVars, smpcVars, block>>

\* UpdateChainRecord sets the row's state to 1; a failure is ignored.
RecheckDone(v) ==
    /\ verdict[v] = "done"
    /\ LET o == reqOrder[popped[v]]
       IN  \/ swapOrder' = [swapOrder EXCEPT ![o] = IF @ = "absent" THEN @ ELSE "done"]
           \/ UNCHANGED swapOrder
    /\ Settled(v)
    /\ UNCHANGED <<threadVars, dealedOrders, sentIotaTxes, errorOrder, smpcVars, block>>

\* Faulty variant: delete and insert are not one transaction, the insert fails.
RecheckErrorNoTransaction(v) ==
    /\ verdict[v] = "error"
    /\ swapOrder' = [swapOrder EXCEPT ![reqOrder[popped[v]]] = "absent"]
    /\ Settled(v)
    /\ UNCHANGED <<threadVars, dealedOrders, sentIotaTxes, errorOrder, smpcVars, block>>

\* MoveOrderToError: one transaction deletes the row and records the failure.
\* When it fails it is rolled back, and the payment is dropped all the same.
RecheckError(v) ==
    /\ verdict[v] = "error"
    /\ LET o == reqOrder[popped[v]]
       IN  \/ /\ swapOrder' = [swapOrder EXCEPT ![o] = "absent"]
              /\ errorOrder' = errorOrder \cup {o}
           \/ UNCHANGED dbVars
    /\ Settled(v)
    /\ UNCHANGED <<threadVars, dealedOrders, sentIotaTxes, smpcVars, block>>

RecheckIota(v) == RecheckPop(v) \/ RecheckAgain(v) \/ RecheckDone(v) \/ RecheckError(v)

\* DealedOrdersCheck.expired: every 24 hours the process forgets what it dealt with.
Expired(v) ==
    /\ dealedOrders[v] # {}
    /\ dealedOrders' = [dealedOrders EXCEPT ![v] = {}]
    /\ UNCHANGED <<threadVars, queueVars, dbVars, smpcVars, block>>

\* The process of v dies and is started again: only the tables survive.
Crash(v) ==
    /\ pc' = [t \in Threads |-> IF Proc[t] = v THEN "idle" ELSE pc[t]]
    /\ ord' = [t \in Threads |-> IF Proc[t] = v THEN NoOrder ELSE ord[t]]
    /\ key' = [t \in Threads |-> IF Proc[t] = v THEN NoKey ELSE key[t]]
    /\ dealedOrders' = [dealedOrders EXCEPT ![v] = {}]
    /\ sentIotaTxes' = [sentIotaTxes EXCEPT ![v] = << >>]
    /\ Settled(v)
    /\ UNCHANGED <<dbVars, smpcVars, block>>
-----------------------------------------------------------------------------
(* The SMPC service and the ledger.                                        *)

\* The group signs the request (enough validators accepted it), or it fails or
\* times out.  It may do so long after the requester stopped polling.
SmpcSettle(k) ==
    /\ rsv[k] = "waiting"
    /\ \E answer \in {"signed", "failed"} : rsv' = [rsv EXCEPT ![k] = answer]
    /\ UNCHANGED <<threadVars, dealedOrders, queueVars, dbVars, reqOrder, block>>

\* A submitted block becomes solid, and a milestone then includes its payment
\* or finds it in conflict with the ledger (an input spent by another payment).
LedgerStep(k) ==
    /\ \/ /\ block[k] = "sent"
          /\ block' = [block EXCEPT ![k] = "solid"]
       \/ /\ block[k] = "solid"
          /\ \E state \in {"included", "conflict"} :
                block' = [block EXCEPT ![k] = state]
    /\ UNCHANGED <<threadVars, dealedOrders, queueVars, dbVars, smpcVars>>
-----------------------------------------------------------------------------
ThreadStep(t) == \/ StoreOk(t) \/ StoreLost(t) \/ StoreFail(t)
                 \/ Create(t)
                 \/ SignFail(t) \/ (\E k \in Keys : SignOk(t, k))
                 \/ Submit(t) \/ DetectTimeout(t)
                 \/ Push(t)

ProcessStep(v) == RecheckIota(v) \/ Expired(v) \/ Crash(v)

Next == \/ \E t \in Threads : ThreadStep(t) \/ (\E o \in Orders : Deal(t, o))
        \/ \E v \in Validators : ProcessStep(v)
        \/ \E k \in Keys : SmpcSettle(k) \/ LedgerStep(k)

Spec == Init /\ [][Next]_vars

\* Fairness the code justifies: a goroutine inside dealUnWrapOrder goes on, since
\* every call it makes returns; RecheckIota is driven by a ticker that never
\* stops; and a node that is asked for ever about a block whose fate is decided
\* does not answer with an error for ever.
Fairness ==
    /\ \A t \in Threads : WF_vars(ThreadStep(t))
    /\ \A v \in Validators :
          /\ WF_vars(RecheckIota(v))
          /\ \A k \in Keys : SF_vars(RecheckPop(v) /\ popped'[v] = k /\ verdict'[v] # "again")

FairSpec == Spec /\ Fairness
-----------------------------------------------------------------------------
(* Properties.                                                             *)

Works(t)   == pc[t] \in {"create", "sign", "detect", "push"}
Carries(t) == pc[t] \in {"detect", "push"}

\* The types of the variables, and which of a goroutine's locals are set where:
\* an order from Deal to the return, a key id from the sign request on, a popped
\* payment while RecheckIota holds a verdict on it.
TypeOK ==
    /\ pc \in [Threads -> PCs]
    /\ ord \in [Threads -> Orders \cup {NoOrder}]
    /\ key \in [Threads -> Keys \cup {NoKey}]
    /\ dealedOrders \in [Validators -> SUBSET Orders]
    /\ sentIotaTxes \in [Validators -> Seq(Keys)]
    /\ popped \in [Validators -> Keys \cup {NoKey}]
    /\ verdict \in [Validators -> Verdicts]
    /\ swapOrder \in [Orders -> RowStates]
    /\ errorOrder \in SUBSET Orders
    /\ reqOrder \in [Keys -> Orders \cup {NoOrder}]
    /\ rsv \in [Keys -> SignStates]
    /\ block \in [Keys -> BlockStates]
    /\ \A t \in Threads : /\ (ord[t] = NoOrder) <=> (pc[t] = "idle")
                          /\ (key[t] = NoKey) <=> ~Carries(t)
    /\ \A v \in Validators : (popped[v] = NoKey) <=> (verdict[v] = "none")
    /\ \A k \in Keys : (reqOrder[k] = NoOrder) <=> (rsv[k] = "none")

\* Whatever validators, goroutines, redeliveries, retries, lost replies and
\* crashes do, the ledger never includes two payments for one burn transaction
\* (dealUnWrapOrder, server/detect.go).
PaidAtMostOnce ==
    \A k1, k2 \in Keys :
        (block[k1] = "included" /\ block[k2] = "included" /\ reqOrder[k1] = reqOrder[k2])
            => k1 = k2

\* A paid order keeps its row in swap_order, also when RecheckIota never learns
\* that it was paid: the row is what refuses the next attempt (error 1062).
PaidIsOnRecord ==
    \A k \in Keys : block[k] = "included" => swapOrder[reqOrder[k]] # "absent"

\* The insert into swap_order works as a lock across processes: past it, no two
\* goroutines of any two validators deal with the same order.
OneWorker ==
    \A t, u \in Threads : (Works(t) /\ Works(u) /\ ord[t] = ord[u]) => t = u

\* An order that got as far as a sign request never vanishes from the books: it
\* is in swap_order or, moved there by MoveOrderToError, in error_order.
RequestLeavesTrace ==
    \A k \in Keys : rsv[k] # "none" =>
        \/ swapOrder[reqOrder[k]] # "absent"
        \/ reqOrder[k] \in errorOrder

\* "sure error, delete from db" (server/recheck.go): when a row is deleted, no
\* block with a payment for that order can ever be included and no goroutine
\* still holds a request for it.
SureErrorStep ==
    \A o \in Orders : (swapOrder[o] # "absent" /\ swapOrder'[o] = "absent") =>
        /\ \A k \in Keys : reqOrder[k] = o => block[k] \in {"none", "conflict"}
        /\ \A t \in Threads : Works(t) => ord[t] # o

\* SureErrorStep, of every step.
SureError == [][SureErrorStep]_vars

Queued(v, k) == \E i \in 1..Len(sentIotaTxes[v]) : sentIotaTxes[v][i] = k

\* A payment whose fate the ledger has decided leaves the recheck queue of its
\* validator, even behind payments that stay undecided for ever (RecheckIota
\* rotates its queue).
DecidedLeavesQueue ==
    \A v \in Validators, k \in Keys :
        (Queued(v, k) /\ block[k] \in {"included", "conflict"}) ~> ~Queued(v, k)

\* A goroutine that took an order returns to its channel: no answer of the
\* database, the SMPC group or the node keeps it in dealUnWrapOrder for ever.
GoroutineReturns == \A t \in Threads : (pc[t] # "idle") ~> (pc[t] = "idle")

(* The inductive invariant behind the safety properties.                   *)

\* A goroutine that owns the row of its order but has no sign request yet.
Holds(t) == pc[t] \in {"create", "sign"}

\* A sign request that can still change something: a goroutine polls it or is
\* about to queue it, RecheckIota will decide on it, or its block may be, or
\* is, included.
Live(k) == \/ \E t \in Threads : Carries(t) /\ key[t] = k
           \/ \E v \in Validators : popped[v] = k \/ Queued(v, k)
           \/ block[k] \in {"sent", "solid", "included"}

\* A request is carried by one goroutine, or popped by one process, or sits at
\* one place of one queue.
CarriersApart == \A t, u \in Threads : (Carries(t) /\ Carries(u) /\ key[t] = key[u]) => t = u
PoppedApart   == \A v, w \in Validators : (popped[v] # NoKey /\ popped[v] = popped[w]) => v = w
QueuesApart   == \A v, w \in Validators :
                    \A i \in 1..Len(sentIotaTxes[v]), j \in 1..Len(sentIotaTxes[w]) :
                        sentIotaTxes[v][i] = sentIotaTxes[w][j] => (v = w /\ i = j)
CarriedAlone  == \A t \in Threads, v \in Validators :
                    Carries(t) => (popped[v] # key[t] /\ ~Queued(v, key[t]))
PoppedAlone   == \A v, w \in Validators : popped[v] # NoKey => ~Queued(w, popped[v])

\* Who holds an order has its row, and nobody else holds it.
RowOfHolder   == \A t \in Threads : Holds(t) => swapOrder[ord[t]] # "absent"
RowOfLive     == \A k \in Keys : Live(k) =>
                    (reqOrder[k] # NoOrder /\ swapOrder[reqOrder[k]] # "absent")
OneHolder     == \A t, u \in Threads : (Holds(t) /\ Holds(u) /\ ord[t] = ord[u]) => t = u
HolderOrLive  == \A t \in Threads, k \in Keys : (Holds(t) /\ Live(k)) => ord[t] # reqOrder[k]
OneLive       == \A k, l \in Keys : (Live(k) /\ Live(l) /\ reqOrder[k] = reqOrder[l]) => k = l
CarrierOwns   == \A t \in Threads : Carries(t) => reqOrder[key[t]] = ord[t]

\* RecheckIota condemns only what the ledger has refused.
ErrorIsSure   == \A v \in Validators : verdict[v] = "error" => block[popped[v]] = "conflict"

\* The row of an order is held by at most one goroutine or live request of all
\* validators together, and it exists as long as it is held: what the insert
\* into swap_order and the early returns of dealUnWrapOrder establish.
ClaimInv == /\ RowOfHolder /\ RowOfLive
            /\ OneHolder /\ HolderOrLive /\ OneLive /\ CarrierOwns /\ ErrorIsSure
            /\ CarriersApart /\ PoppedApart /\ QueuesApart /\ CarriedAlone /\ PoppedAlone
-----------------------------------------------------------------------------
(* The abstract specification.                                             *)

\* How far an order has got, for the abstract specification.
StatusOf(o) ==
    IF \E k \in Keys : reqOrder[k] = o /\ block[k] = "included" THEN "paid"
    ELSE IF swapOrder[o] # "absent" THEN "claimed"
    ELSE IF o \in errorOrder THEN "failed"
    ELSE "open"

Once == INSTANCE UnwrapOnce WITH status <- [o \in Orders |-> StatusOf(o)]

\* The unwrap path implements UnwrapOnce: with the tables and the ledger read as
\* a status, an order is claimed, then paid for good or failed, and never paid
\* from a failure without a new claim.
ImplementsOnce == Once!Spec
=============================================================================
