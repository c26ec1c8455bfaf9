---------------------------- MODULE UnwrapGroup ----------------------------
(***************************************************************************)
(* The unwrap path and the loops of Accept together, as main starts them   *)
(* in every validator: a goroutine of SmpcUnwrap makes the sign requests   *)
(* that the loops of SmpcAccept, the requester's own included, look up on  *)
(* the chain and agree to, and the SMPC group signs what enough of them    *)
(* agreed to.  A process that dies takes its goroutines and its loop with  *)
(* it.  SmpcUnwrap takes the SMPC service as given, SmpcAccept takes the   *)
(* requester as given: here each is the other's environment.               *)
(***************************************************************************)
EXTENDS SmpcUnwrap, FiniteSets

CONSTANTS Threshold,        \* agreements the SMPC group needs
          OverTime,         \* age at which a heartbeat counts as missing
          AcceptOverTime,   \* age above which a request is not looked at
          None              \* no heartbeat row, no request yet

ASSUME GroupAssumption == /\ IsFiniteSet(Validators)
                          /\ Threshold \in Nat \ {0}
                          /\ OverTime \in Nat /\ AcceptOverTime \in Nat
                          /\ None \notin Nat

VARIABLES loop, todo, cur, acceptedTxes,    \* the loops of Accept, see SmpcAccept
          service,                          \* the heartbeats
          reqAge, agreed,                   \* the requests in the group
          onChain,                          \* orders whose burn is on the chain now
          witnessed                         \* history, who has found the burn of a request

acceptVars == <<loop, todo, cur, acceptedTxes, service, reqAge, agreed>>
groupVars == <<vars, acceptVars, onChain, witnessed>>

\* What Accept and the group see of the unwrap path: all requests pay burns, some
\* goroutine of v is on its way to a request, and what the group made of it.
GoodKind == [k \in Keys |-> "good"]
Dealing == [v \in Validators |->
               \E t \in Threads : Proc[t] = v /\ pc[t] \in {"store", "create", "sign"}]
SettledAs == [k \in Keys |-> CASE rsv[k] = "signed" -> "signed"
                               [] rsv[k] = "failed" -> "timeout"
                               [] OTHER -> "no"]
BurnedKeys == {k \in Keys : reqOrder[k] \in onChain \cup {NoOrder}}

A == INSTANCE SmpcAccept WITH Kind <- GoodKind, dealing <- Dealing,
                              settled <- SettledAs, burned <- BurnedKeys

GroupInit == /\ Init
             /\ loop = [v \in Validators |-> "down"]
             /\ todo = [v \in Validators |-> {}]
             /\ cur = [v \in Validators |-> NoKey]
             /\ acceptedTxes = [v \in Validators |-> {}]
             /\ service = [v \in Validators |-> None]
             /\ reqAge = [k \in Keys |-> None]
             /\ agreed = [k \in Keys |-> {}]
             /\ onChain = Orders
             /\ witnessed = [k \in Keys |-> {}]
-----------------------------------------------------------------------------
Up(v) == loop[v] # "down"

\* Faulty variant: the online check is left out.
DealOnlineUnchecked(t, o) ==
    /\ Up(Proc[t])
    /\ Deal(t, o)
    /\ UNCHANGED <<acceptVars, onChain, witnessed>>

\* Faulty variant: dealedOrders is written and not read.
DealOnlineAgain(t, o) ==
    /\ Up(Proc[t])
    /\ A!CheckAccountsState
    /\ pc[t] = "idle"
    /\ dealedOrders' = [dealedOrders EXCEPT ![Proc[t]] = @ \cup {o}]
    /\ ord' = [ord EXCEPT ![t] = o]
    /\ Goto(t, "store")
    /\ UNCHANGED <<key, queueVars, dbVars, smpcVars, block>>
    /\ UNCHANGED <<acceptVars, onChain, witnessed>>

\* dealUnWrapOrder begins, past the online check; the burn was on the chain once,
\* and its log may come again when it is removed.
DealOnline(t, o) ==
    /\ Up(Proc[t])
    /\ A!CheckAccountsState
    /\ Deal(t, o)
    /\ UNCHANGED <<acceptVars, onChain, witnessed>>

\* A new request, which the group lists to all validators.
SignRequest(t, k) ==
    /\ Up(Proc[t])
    /\ SignOk(t, k)
    /\ reqAge' = [reqAge EXCEPT ![k] = 0]
    /\ UNCHANGED <<loop, todo, cur, acceptedTxes, service, agreed, onChain, witnessed>>

\* Every other step of a goroutine inside dealUnWrapOrder.
OtherThreadStep(t) ==
    /\ Up(Proc[t])
    /\ \/ StoreOk(t) \/ StoreLost(t) \/ StoreFail(t) \/ Create(t) \/ SignFail(t)
       \/ Submit(t) \/ DetectTimeout(t) \/ Push(t)
    /\ UNCHANGED <<acceptVars, onChain, witnessed>>

\* RecheckIota, and the expiry of dealedOrders.
Housekeeping(v) ==
    /\ Up(v)
    /\ RecheckIota(v) \/ Expired(v)
    /\ UNCHANGED <<acceptVars, onChain, witnessed>>

\* The loop of Accept, which may end for want of a private key.
AcceptStep(v) ==
    /\ UNCHANGED <<vars, onChain>>
    /\ A!LoopStep(v) \/ A!NoPrivateKey(v) \/ A!StartUp(v)

\* The process dies.
Die(v) ==
    /\ Crash(v)
    /\ UNCHANGED onChain
    /\ A!Stop(v)

\* The group signs with enough agreements, or the request fails.
GroupSettle(k) ==
    /\ SmpcSettle(k)
    /\ UNCHANGED onChain
    /\ A!Settle(k)

\* The ledger goes on.
Ledger(k) ==
    /\ LedgerStep(k)
    /\ UNCHANGED <<acceptVars, onChain, witnessed>>

\* The EVM chain is reorganised, and time passes.
Reorganise(o) ==
    /\ onChain' = IF o \in onChain THEN onChain \ {o} ELSE onChain \cup {o}
    /\ UNCHANGED <<vars, acceptVars, witnessed>>

Tick == UNCHANGED <<vars, onChain>> /\ A!Tick

GroupNext ==
    \/ \E t \in Threads : \/ OtherThreadStep(t)
                          \/ \E o \in Orders : DealOnline(t, o)
                          \/ \E k \in Keys : SignRequest(t, k)
    \/ \E v \in Validators : Housekeeping(v) \/ AcceptStep(v) \/ Die(v)
    \/ \E k \in Keys : GroupSettle(k) \/ Ledger(k)
    \/ \E o \in Orders : Reorganise(o)
    \/ Tick

GroupSpec == GroupInit /\ [][GroupNext]_groupVars
-----------------------------------------------------------------------------
(* Properties.                                                             *)

\* No block with a payment is submitted whose burn fewer than Threshold validators
\* have found on the chain themselves: from the requester over the acceptors and the
\* group to the ledger, over restarts and reorganisations.
PaidWasSeen ==
    \A k \in Keys : block[k] # "none" => Cardinality(witnessed[k]) >= Threshold

\* The group is the SMPC service SmpcUnwrap takes as given: what is shown of the
\* unwrap path holds with the validators' loops as the ones that agree.
ImplementsUnwrap == Spec

\* The unwrap path is the requester SmpcAccept takes as given.
ImplementsAccept == A!Spec
=============================================================================
