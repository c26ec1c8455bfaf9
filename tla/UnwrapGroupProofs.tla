------------------------- MODULE UnwrapGroupProofs -------------------------
(***************************************************************************)
(* The unwrap path and the loops of Accept together: every step is one of  *)
(* the unwrap path, whose theorems therefore hold of the group, and one of *)
(* SmpcAccept; and what is paid has been seen by enough validators.        *)
(***************************************************************************)
EXTENDS UnwrapGroup, SmpcUnwrapProofs, FiniteSetTheorems

\* Every step of the group is one of the unwrap path, or none of it.
LEMMA GroupStepIsUnwrapStep == [GroupNext]_groupVars => [Next]_vars
<1> SUFFICES ASSUME [GroupNext]_groupVars
             PROVE  [Next]_vars
  OBVIOUS
<1>1. ASSUME NEW t \in Threads, OtherThreadStep(t)
      PROVE  Next
  BY <1>1 DEF OtherThreadStep, Next, ThreadStep
<1>2. ASSUME NEW t \in Threads, NEW o \in Orders, DealOnline(t, o)
      PROVE  Next
  BY <1>2 DEF DealOnline, Next
<1>3. ASSUME NEW t \in Threads, NEW k \in Keys, SignRequest(t, k)
      PROVE  Next
  BY <1>3 DEF SignRequest, Next, ThreadStep
<1>4. ASSUME NEW v \in Validators, Housekeeping(v) \/ Die(v)
      PROVE  Next
  BY <1>4 DEF Housekeeping, Die, Next, ProcessStep
<1>5. ASSUME NEW k \in Keys, GroupSettle(k) \/ Ledger(k)
      PROVE  Next
  BY <1>5 DEF GroupSettle, Ledger, Next
<1>6. ASSUME \/ \E v \in Validators : AcceptStep(v)
             \/ \E o \in Orders : Reorganise(o)
             \/ Tick
             \/ UNCHANGED groupVars
      PROVE  UNCHANGED vars
  BY <1>6 DEF AcceptStep, Reorganise, Tick, groupVars
<1> QED BY <1>1, <1>2, <1>3, <1>4, <1>5, <1>6 DEF GroupNext

\* dealUnWrapOrder and RecheckIota behave in the group as SmpcUnwrap describes them:
\* the validators' loops are the SMPC service it takes as given.
THEOREM GroupImplementsUnwrap == GroupSpec => ImplementsUnwrap
<1>1. GroupInit => Init
  BY DEF GroupInit
<1> QED BY <1>1, GroupStepIsUnwrapStep, PTL DEF GroupSpec, ImplementsUnwrap, Spec

\* No burn is paid twice, with the real loops of Accept in place of a given service.
THEOREM GroupPaysAtMostOnce == GroupSpec => []PaidAtMostOnce
  BY GroupImplementsUnwrap, NeverPaidTwice DEF ImplementsUnwrap

-----------------------------------------------------------------------------
(* What is paid has been seen.                                             *)

LoopTypes == /\ loop \in [Validators -> A!Loops]
             /\ cur \in [Validators -> Keys \cup {NoKey}]
             /\ agreed \in [Keys -> SUBSET Validators]
             /\ witnessed \in [Keys -> SUBSET Validators]
             /\ \A v \in Validators : loop[v] \in {"check", "accept"} => cur[v] \in Keys

\* A validator that agrees to a request, or is about to, has found its burn.
AgreedWasSeen ==
    \A v \in Validators, k \in Keys :
        (v \in agreed[k] \/ (loop[v] = "accept" /\ cur[v] = k)) => v \in witnessed[k]

SignedWasSeen == \A k \in Keys : rsv[k] = "signed" => Cardinality(witnessed[k]) >= Threshold

\* Only what is signed is submitted.
SubmittedIsSigned == \A k \in Keys : block[k] # "none" => rsv[k] = "signed"

SeenInv == LoopTypes /\ AgreedWasSeen /\ SignedWasSeen /\ SubmittedIsSigned

\* Witnesses stay witnesses, so that what is signed stays seen.
LEMMA WitnessesOnlyGrow ==
  ASSUME LoopTypes, LoopTypes', SignedWasSeen, UNCHANGED rsv,
         \A k \in Keys : witnessed[k] \subseteq witnessed'[k]
  PROVE  SignedWasSeen'
<1> SUFFICES ASSUME NEW k \in Keys, rsv[k] = "signed"
             PROVE  Cardinality(witnessed'[k]) >= Threshold
  BY DEF SignedWasSeen
<1>1. witnessed[k] \subseteq witnessed'[k] /\ witnessed'[k] \subseteq Validators
  BY DEF LoopTypes
<1>2. IsFiniteSet(witnessed'[k]) /\ IsFiniteSet(witnessed[k])
  BY <1>1, FS_Subset, GroupAssumption
<1>3. Cardinality(witnessed[k]) <= Cardinality(witnessed'[k])
  BY <1>1, <1>2, FS_Subset
<1>4. Cardinality(witnessed[k]) \in Nat /\ Cardinality(witnessed'[k]) \in Nat
  BY <1>2, FS_CardinalityType
<1>5. Cardinality(witnessed[k]) >= Threshold
  BY DEF SignedWasSeen
<1> QED BY <1>3, <1>4, <1>5, GroupAssumption

\* The loop of a validator, also when it starts or dies, keeps what was seen.
LEMMA LoopKeepsSeen ==
  ASSUME SeenInv, NEW v \in Validators, UNCHANGED <<rsv, block>>,
         A!LoopStep(v) \/ A!NoPrivateKey(v) \/ A!StartUp(v) \/ A!Stop(v)
  PROVE  SeenInv'
<1> USE DEF SeenInv, LoopTypes, AgreedWasSeen, A!Loops, A!Goto, A!NextInfo,
            A!smpcVars, A!chainVars
<1>1. CASE A!Beat(v) \/ A!ListOk(v) \/ A!ListFail(v) \/ A!EndPass(v) \/ A!NoPrivateKey(v)
           \/ A!StartUp(v)
  <2>1. /\ \E label \in A!Loops \ {"check", "accept"} : loop' = [loop EXCEPT ![v] = label]
        /\ UNCHANGED <<cur, agreed, witnessed>>
    BY <1>1 DEF A!Beat, A!ListOk, A!ListFail, A!EndPass, A!NoPrivateKey, A!StartUp
  <2> QED BY <2>1 DEF SignedWasSeen, SubmittedIsSigned
<1>2. CASE A!Stop(v)
  BY <1>2 DEF A!Stop, SignedWasSeen, SubmittedIsSigned
<1>3. CASE A!Refuse(v)
  BY <1>3 DEF A!Refuse, SignedWasSeen, SubmittedIsSigned
<1>4. CASE A!Admit(v)
  <2>1. cur[v] \in Keys /\ cur[v] \in BurnedKeys
    BY <1>4 DEF A!Admit, A!Burned
  <2>2. witnessed' = [witnessed EXCEPT ![cur[v]] = @ \cup {v}] /\ UNCHANGED agreed
    BY <1>4, <2>1 DEF A!Admit
  <2>3. LoopTypes' /\ AgreedWasSeen'
    <3>1. CASE cur[v] \in acceptedTxes[v]
      BY <1>4, <2>1, <2>2, <3>1 DEF A!Admit
    <3>2. CASE cur[v] \notin acceptedTxes[v]
      BY <1>4, <2>1, <2>2, <3>2 DEF A!Admit
    <3> QED BY <3>1, <3>2
  <2>4. SignedWasSeen'
    BY <2>2, <2>3, WitnessesOnlyGrow
  <2> QED BY <2>3, <2>4 DEF SubmittedIsSigned
<1>5. CASE A!AcceptSign(v)
  <2>1. cur[v] \in Keys /\ v \in witnessed[cur[v]]
    BY <1>5 DEF A!AcceptSign
  <2>2. LoopTypes' /\ AgreedWasSeen'
    BY <1>5, <2>1 DEF A!AcceptSign
  <2>3. UNCHANGED witnessed
    BY <1>5 DEF A!AcceptSign
  <2> QED BY <2>2, <2>3 DEF SignedWasSeen, SubmittedIsSigned
<1>6. ASSUME NEW k \in Keys, A!SkipInfo(v, k) \/ A!TakeInfo(v, k)
      PROVE  SeenInv'
  BY <1>6 DEF A!SkipInfo, A!TakeInfo, SignedWasSeen, SubmittedIsSigned
<1> QED BY <1>1, <1>2, <1>3, <1>4, <1>5, <1>6 DEF A!LoopStep

\* The number of agreements is the same in both modules.
LEMMA SameCardinality == \A S : A!Cardinality(S) = Cardinality(S)
  BY DEF A!Cardinality, Cardinality

\* The group signs with Threshold agreements, each of them by a witness.
LEMMA SettleKeepsSeen ==
  ASSUME SeenInv, TypeOK, NEW k \in Keys, GroupSettle(k)
  PROVE  SeenInv'
<1> USE DEF SeenInv
<1>1. UNCHANGED <<loop, cur, agreed, witnessed, block>>
  BY DEF GroupSettle, SmpcSettle, A!Settle, A!loopVars, A!chainVars
<1>2. PICK answer \in {"signed", "failed"} : rsv' = [rsv EXCEPT ![k] = answer]
  BY DEF GroupSettle, SmpcSettle
<1>3. answer = "signed" => Cardinality(agreed[k]) >= Threshold
  <2> SUFFICES ASSUME answer = "signed" PROVE Cardinality(agreed[k]) >= Threshold
    OBVIOUS
  <2>0. A!Settle(k)
    BY DEF GroupSettle
  <2>1. PICK given \in {"signed", "timeout"} :
            /\ given = "signed" => Cardinality(agreed[k]) >= Threshold
            /\ SettledAs' = [SettledAs EXCEPT ![k] = given]
    BY <2>0, SameCardinality DEF A!Settle
  <2>2. SettledAs'[k] = "signed"
    BY <1>2 DEF SettledAs, TypeOK
  <2>3. given = "signed"
    BY <2>1, <2>2 DEF SettledAs
  <2> QED BY <2>1, <2>3
<1>4. agreed[k] \subseteq witnessed[k] /\ witnessed[k] \subseteq Validators
  BY DEF LoopTypes, AgreedWasSeen
<1>5. /\ IsFiniteSet(witnessed[k]) /\ IsFiniteSet(agreed[k])
      /\ Cardinality(agreed[k]) <= Cardinality(witnessed[k])
  BY <1>4, FS_Subset, GroupAssumption
<1>6. Cardinality(witnessed[k]) \in Nat /\ Cardinality(agreed[k]) \in Nat
  BY <1>5, FS_CardinalityType
<1>7. answer = "signed" => Cardinality(witnessed[k]) >= Threshold
  BY <1>3, <1>5, <1>6, GroupAssumption
<1>8. rsv[k] = "waiting"
  BY DEF GroupSettle, SmpcSettle
<1>9. SignedWasSeen' /\ SubmittedIsSigned'
  BY <1>1, <1>2, <1>7, <1>8 DEF SignedWasSeen, SubmittedIsSigned, TypeOK
<1> QED BY <1>1, <1>9 DEF LoopTypes, AgreedWasSeen

\* The goroutines submit only what is signed, and make requests nobody signed yet.
LEMMA ThreadsKeepSeen ==
  ASSUME SeenInv, TypeOK, NEW t \in Threads,
         \/ OtherThreadStep(t)
         \/ \E o \in Orders : DealOnline(t, o)
         \/ \E k \in Keys : SignRequest(t, k)
  PROVE  SeenInv'
<1>1. UNCHANGED <<loop, cur, agreed, witnessed>>
  BY DEF OtherThreadStep, DealOnline, SignRequest, acceptVars
<1>2. SignedWasSeen' /\ SubmittedIsSigned'
  <2> USE DEF SeenInv, SignedWasSeen, SubmittedIsSigned
  <2>1. CASE Submit(t)
    <3>1. key[t] \in Keys /\ rsv[key[t]] = "signed" /\ UNCHANGED rsv
      BY <2>1 DEF Submit, TypeOK, Carries, smpcVars
    <3>2. UNCHANGED block \/ block' = [block EXCEPT ![key[t]] = "sent"]
      BY <2>1 DEF Submit
    <3> QED BY <1>1, <3>1, <3>2 DEF TypeOK
  <2>2. ASSUME NEW k \in Keys, SignOk(t, k)
        PROVE  SignedWasSeen' /\ SubmittedIsSigned'
    BY <1>1, <2>2 DEF SignOk, TypeOK
  <2>3. CASE UNCHANGED <<rsv, block>>
    BY <1>1, <2>3
  <2> QED BY <2>1, <2>2, <2>3 DEF OtherThreadStep, DealOnline, SignRequest, Deal, StoreOk,
            StoreLost, StoreFail, Create, SignFail, DetectTimeout, Push, smpcVars
<1> QED BY <1>1, <1>2 DEF SeenInv, LoopTypes, AgreedWasSeen

\* Every step of the group keeps what was seen.
LEMMA SeenInvStep == SeenInv /\ TypeOK /\ [GroupNext]_groupVars => SeenInv'
<1> SUFFICES ASSUME SeenInv, TypeOK, [GroupNext]_groupVars
             PROVE  SeenInv'
  OBVIOUS
<1>1. ASSUME NEW t \in Threads,
             \/ OtherThreadStep(t)
             \/ \E o \in Orders : DealOnline(t, o)
             \/ \E k \in Keys : SignRequest(t, k)
      PROVE  SeenInv'
  BY <1>1, ThreadsKeepSeen
<1>2. ASSUME NEW v \in Validators, AcceptStep(v) \/ Die(v)
      PROVE  SeenInv'
  <2>1. UNCHANGED <<rsv, block>>
    BY <1>2 DEF AcceptStep, Die, Crash, smpcVars, vars
  <2> QED BY <1>2, <2>1, LoopKeepsSeen DEF AcceptStep, Die
<1>3. ASSUME NEW k \in Keys, GroupSettle(k)
      PROVE  SeenInv'
  BY <1>3, SettleKeepsSeen
<1>4. ASSUME NEW k \in Keys, Ledger(k)
      PROVE  SeenInv'
  <2>1. UNCHANGED <<loop, cur, agreed, witnessed, rsv>>
    BY <1>4 DEF Ledger, LedgerStep, acceptVars, smpcVars
  <2>2. \A l \in Keys : block'[l] # "none" => block[l] # "none"
    BY <1>4 DEF Ledger, LedgerStep, TypeOK
  <2> QED BY <2>1, <2>2 DEF SeenInv, LoopTypes, AgreedWasSeen, SignedWasSeen, SubmittedIsSigned
<1>5. ASSUME \/ \E v \in Validators : Housekeeping(v)
             \/ \E o \in Orders : Reorganise(o)
             \/ Tick
             \/ UNCHANGED groupVars
      PROVE  SeenInv'
  <2>1. UNCHANGED <<loop, cur, agreed, witnessed, rsv, block>>
    BY <1>5 DEF Housekeeping, RecheckIota, RecheckPop, RecheckAgain, RecheckDone, RecheckError,
           Expired, Reorganise, Tick, A!Tick, A!loopVars, A!chainVars, acceptVars, smpcVars,
           vars, groupVars
  <2> QED BY <2>1 DEF SeenInv, LoopTypes, AgreedWasSeen, SignedWasSeen, SubmittedIsSigned
<1> QED BY <1>1, <1>2, <1>3, <1>4, <1>5 DEF GroupNext

\* dealUnWrapOrder, Accept and the group together (server/detect.go,
\* server/accept.go): a payment that is submitted has been found due by at least
\* Threshold validators.
THEOREM PaidWasSeenByEnough == GroupSpec => []PaidWasSeen
<1>1. GroupInit => SeenInv
  BY DEF GroupInit, Init, SeenInv, LoopTypes, A!Loops, AgreedWasSeen, SignedWasSeen,
         SubmittedIsSigned
<1>2. SeenInv => PaidWasSeen
  BY DEF SeenInv, SignedWasSeen, SubmittedIsSigned, PaidWasSeen
<1>3. GroupSpec => []TypeOK
  BY GroupImplementsUnwrap, ClaimsAreExclusive, PTL DEF ImplementsUnwrap
<1> QED BY <1>1, <1>2, <1>3, SeenInvStep, PTL DEF GroupSpec

-----------------------------------------------------------------------------
(* The unwrap path is the requester SmpcAccept takes as given.             *)

\* The group has the requests the goroutines have made, and no others.
RequestsMade == /\ DOMAIN reqAge = Keys
                /\ \A k \in Keys : reqAge[k] = None <=> rsv[k] = "none"

\* A request is made once and keeps an age.
LEMMA RequestsMadeStep == RequestsMade /\ TypeOK /\ [GroupNext]_groupVars => RequestsMade'
<1> SUFFICES ASSUME RequestsMade, TypeOK, [GroupNext]_groupVars
             PROVE  RequestsMade'
  OBVIOUS
<1> USE DEF RequestsMade, TypeOK
<1>1. ASSUME NEW t \in Threads, NEW k \in Keys, SignRequest(t, k)
      PROVE  RequestsMade'
  <2>1. /\ reqAge' = [reqAge EXCEPT ![k] = 0]
        /\ rsv' = [rsv EXCEPT ![k] = "waiting"]
    BY <1>1 DEF SignRequest, SignOk
  <2>2. 0 # None
    BY GroupAssumption
  <2> QED BY <2>1, <2>2
<1>2. ASSUME NEW k \in Keys, GroupSettle(k)
      PROVE  RequestsMade'
  BY <1>2 DEF GroupSettle, SmpcSettle, A!Settle
<1>3. CASE Tick
  <2>1. UNCHANGED rsv
    BY <1>3 DEF Tick, vars
  <2>2. reqAge' = [k \in Keys |->
                      IF reqAge[k] \in 0..AcceptOverTime THEN reqAge[k] + 1 ELSE reqAge[k]]
    BY <1>3 DEF Tick, A!Tick
  <2>3. \A n \in 0..AcceptOverTime : n # None /\ n + 1 # None
    BY GroupAssumption
  <2> QED BY <2>1, <2>2, <2>3
<1>4. ASSUME NEW v \in Validators, AcceptStep(v) \/ Die(v)
      PROVE  RequestsMade'
  <2>1. UNCHANGED rsv
    BY <1>4 DEF AcceptStep, Die, Crash, smpcVars, vars
  <2>2. UNCHANGED reqAge
    BY <1>4 DEF AcceptStep, Die, A!LoopStep, A!Beat, A!ListOk, A!ListFail, A!EndPass, A!Refuse,
                A!Admit, A!AcceptSign, A!SkipInfo, A!TakeInfo, A!NoPrivateKey, A!StartUp,
                A!Stop, A!smpcVars
  <2> QED BY <2>1, <2>2
<1>5. ASSUME \/ \E t \in Threads : \/ OtherThreadStep(t)
                                   \/ \E o \in Orders : DealOnline(t, o)
             \/ \E v \in Validators : Housekeeping(v)
             \/ \E k \in Keys : Ledger(k)
             \/ \E o \in Orders : Reorganise(o)
             \/ UNCHANGED groupVars
      PROVE  RequestsMade'
  <2>1. UNCHANGED <<rsv, reqAge>>
    BY <1>5 DEF OtherThreadStep, DealOnline, Deal, StoreOk, StoreLost, StoreFail, Create,
           SignFail, Submit, DetectTimeout, Push, Housekeeping, RecheckIota, RecheckPop,
           RecheckAgain, RecheckDone, RecheckError, Expired, Ledger, LedgerStep, Reorganise,
           acceptVars, smpcVars, vars, groupVars
  <2> QED BY <2>1
<1> QED BY <1>1, <1>2, <1>3, <1>4, <1>5 DEF GroupNext

\* Where goroutines stand and what the group made of their requests decides what the
\* loops of Accept see of them.
LEMMA SeenAlike ==
  ASSUME UNCHANGED <<pc, reqOrder, rsv, onChain>>
  PROVE  UNCHANGED <<Dealing, SettledAs, BurnedKeys>>
  BY DEF Dealing, SettledAs, BurnedKeys

\* A goroutine that goes from one place to another changes what its own validator
\* deals with, and nothing else.
LEMMA OneThreadMoves ==
  ASSUME TypeOK, NEW t \in Threads, NEW label \in PCs, pc' = [pc EXCEPT ![t] = label]
  PROVE  /\ Dealing' = [Dealing EXCEPT ![Proc[t]] = Dealing'[Proc[t]]]
         /\ Dealing'[Proc[t]] \in BOOLEAN
         /\ pc[t] \in {"store", "create", "sign"} => Dealing[Proc[t]]
         /\ label \in {"store", "create", "sign"} => Dealing'[Proc[t]]
         /\ pc[t] \notin {"store", "create", "sign"} /\ label \notin {"store", "create", "sign"}
              => UNCHANGED Dealing
<1>1. Proc[t] \in Validators
  BY ProcAssumption
<1>2. \A v \in Validators : v # Proc[t] => Dealing'[v] = Dealing[v]
  BY DEF Dealing, TypeOK
<1>3. Dealing'[Proc[t]] \in BOOLEAN
  BY <1>1 DEF Dealing
<1>4. Dealing' = [Dealing EXCEPT ![Proc[t]] = Dealing'[Proc[t]]]
  <2>1. /\ Dealing = [v \in Validators |-> Dealing[v]]
        /\ Dealing' = [v \in Validators |-> Dealing'[v]]
    BY DEF Dealing
  <2> QED BY <1>1, <1>2, <2>1
<1>5. pc[t] \in {"store", "create", "sign"} => Dealing[Proc[t]]
  BY <1>1 DEF Dealing
<1>6. label \in {"store", "create", "sign"} => Dealing'[Proc[t]]
  BY <1>1 DEF Dealing, TypeOK
<1>7. ASSUME pc[t] \notin {"store", "create", "sign"}, label \notin {"store", "create", "sign"}
      PROVE  UNCHANGED Dealing
  BY <1>7 DEF Dealing, TypeOK
<1> QED BY <1>3, <1>4, <1>5, <1>6, <1>7

\* What the requester does is what SmpcAccept allows one to do.
LEMMA ThreadsAreRequesters ==
  ASSUME TypeOK, RequestsMade, NEW t \in Threads,
         \/ OtherThreadStep(t)
         \/ \E o \in Orders : DealOnline(t, o)
         \/ \E k \in Keys : SignRequest(t, k)
  PROVE  \/ A!PassOnlineCheck(Proc[t]) \/ A!Request(Proc[t])
         \/ UNCHANGED A!vars
<1> USE DEF A!vars, A!loopVars, A!smpcVars, A!chainVars, acceptVars, PCs
<1>1. Proc[t] \in Validators
  BY ProcAssumption
<1>2. ASSUME NEW o \in Orders, DealOnline(t, o)
      PROVE  A!PassOnlineCheck(Proc[t]) \/ UNCHANGED A!vars
  <2>1. pc' = [pc EXCEPT ![t] = "store"] /\ UNCHANGED <<reqOrder, rsv, onChain>>
    BY <1>2 DEF DealOnline, Deal, Goto, smpcVars
  <2>2. Dealing' = [Dealing EXCEPT ![Proc[t]] = TRUE]
    BY <2>1, OneThreadMoves
  <2>3. UNCHANGED <<SettledAs, BurnedKeys>>
    BY <2>1 DEF SettledAs, BurnedKeys
  <2>4. /\ UNCHANGED <<loop, todo, cur, acceptedTxes, service, reqAge, agreed, witnessed>>
        /\ loop[Proc[t]] # "down" /\ A!CheckAccountsState
    BY <1>2 DEF DealOnline, Up
  <2>5. CASE Dealing[Proc[t]]
    <3>1. UNCHANGED Dealing
      BY <1>1, <2>2, <2>5 DEF Dealing
    <3> QED BY <2>3, <2>4, <3>1
  <2>6. CASE ~Dealing[Proc[t]]
    BY <2>2, <2>3, <2>4, <2>6 DEF A!PassOnlineCheck
  <2> QED BY <2>5, <2>6
<1>3. ASSUME NEW k \in Keys, SignRequest(t, k)
      PROVE  A!Request(Proc[t])
  <2>1. /\ pc[t] = "sign" /\ pc' = [pc EXCEPT ![t] = "detect"]
        /\ rsv[k] = "none" /\ rsv' = [rsv EXCEPT ![k] = "waiting"]
        /\ reqOrder' = [reqOrder EXCEPT ![k] = ord[t]]
        /\ reqAge' = [reqAge EXCEPT ![k] = 0]
        /\ UNCHANGED <<loop, todo, cur, acceptedTxes, service, agreed, onChain, witnessed>>
    BY <1>3 DEF SignRequest, SignOk, Goto
  <2>2. Dealing[Proc[t]] /\ Dealing' \in {Dealing, [Dealing EXCEPT ![Proc[t]] = FALSE]}
    <3>1. /\ Dealing[Proc[t]]
          /\ Dealing' = [Dealing EXCEPT ![Proc[t]] = Dealing'[Proc[t]]]
          /\ Dealing'[Proc[t]] \in BOOLEAN
      BY <2>1, OneThreadMoves
    <3>2. CASE Dealing'[Proc[t]] = TRUE
      <4>1. Dealing[Proc[t]] = TRUE
        BY <1>1, <3>1 DEF Dealing
      <4>2. Dealing' = Dealing
        BY <1>1, <3>1, <3>2, <4>1 DEF Dealing
      <4> QED BY <3>1, <4>2
    <3>3. CASE Dealing'[Proc[t]] = FALSE
      BY <3>1, <3>3
    <3> QED BY <3>1, <3>2, <3>3
  <2>3. UNCHANGED SettledAs
    BY <2>1 DEF SettledAs, TypeOK
  <2>4. reqOrder[k] = NoOrder
    BY <2>1 DEF TypeOK
  <2>5. BurnedKeys' \in {BurnedKeys, BurnedKeys \ {k}}
    <3>1. \A l \in Keys : l # k => reqOrder'[l] = reqOrder[l]
      BY <2>1 DEF TypeOK
    <3>2. k \in BurnedKeys
      BY <2>4 DEF BurnedKeys
    <3>3. \A l \in Keys \ {k} : l \in BurnedKeys' <=> l \in BurnedKeys
      BY <2>1, <3>1 DEF BurnedKeys
    <3>4. BurnedKeys \subseteq Keys /\ BurnedKeys' \subseteq Keys
      BY DEF BurnedKeys
    <3>5. CASE k \in BurnedKeys'
      <4>1. BurnedKeys' = BurnedKeys
        BY <3>2, <3>3, <3>4, <3>5
      <4> QED BY <4>1
    <3>6. CASE k \notin BurnedKeys'
      <4>1. BurnedKeys' = BurnedKeys \ {k}
        BY <3>3, <3>4, <3>6
      <4> QED BY <4>1
    <3> QED BY <3>5, <3>6
  <2>6. GoodKind[k] = "good" /\ ~A!Requested(k)
    BY <2>1 DEF GoodKind, A!Requested, RequestsMade
  <2> QED BY <2>1, <2>2, <2>3, <2>5, <2>6 DEF A!Request
<1>4. ASSUME OtherThreadStep(t)
      PROVE  A!Request(Proc[t]) \/ UNCHANGED A!vars
  <2>1. /\ UNCHANGED <<loop, todo, cur, acceptedTxes, service, reqAge, agreed, witnessed>>
        /\ UNCHANGED <<reqOrder, rsv, onChain>>
    BY <1>4 DEF OtherThreadStep, StoreOk, StoreLost, StoreFail, Create, SignFail, Submit,
                DetectTimeout, Push, smpcVars
  <2>2. UNCHANGED <<SettledAs, BurnedKeys>>
    BY <2>1 DEF SettledAs, BurnedKeys
  <2>3. PICK label \in PCs :
            /\ pc' = [pc EXCEPT ![t] = label]
            /\ label \in {"create", "sign"} => pc[t] \in {"store", "create", "sign"}
            /\ label # "store"
    BY <1>4 DEF OtherThreadStep, StoreOk, StoreLost, StoreFail, Create, SignFail, Submit,
                DetectTimeout, Push, Return, Goto
  <2>4. CASE UNCHANGED Dealing
    BY <2>1, <2>2, <2>4
  <2>5. CASE Dealing' # Dealing
    <3>1. Dealing[Proc[t]]
      BY <2>3, <2>5, OneThreadMoves
    <3>2. /\ Dealing' = [Dealing EXCEPT ![Proc[t]] = Dealing'[Proc[t]]]
          /\ Dealing'[Proc[t]] \in BOOLEAN
      BY <2>3, OneThreadMoves
    <3>3. Dealing[Proc[t]] = TRUE
      BY <1>1, <3>1 DEF Dealing
    <3>4. Dealing'[Proc[t]] # TRUE
      BY <1>1, <2>5, <3>2, <3>3 DEF Dealing
    <3>5. Dealing' = [Dealing EXCEPT ![Proc[t]] = FALSE]
      BY <3>2, <3>4
    <3> QED BY <2>1, <2>2, <3>1, <3>5 DEF A!Request
  <2> QED BY <2>4, <2>5
<1> QED BY <1>2, <1>3, <1>4

\* Every step of the group is one of SmpcAccept, or none of it.
LEMMA GroupStepIsAcceptStep ==
  TypeOK /\ RequestsMade /\ [GroupNext]_groupVars => [A!Next]_(A!vars)
<1> SUFFICES ASSUME TypeOK, RequestsMade, [GroupNext]_groupVars
             PROVE  A!Next \/ UNCHANGED A!vars
  OBVIOUS
<1>1. ASSUME NEW t \in Threads,
             \/ OtherThreadStep(t)
             \/ \E o \in Orders : DealOnline(t, o)
             \/ \E k \in Keys : SignRequest(t, k)
      PROVE  A!Next \/ UNCHANGED A!vars
  <2>1. Proc[t] \in Validators
    BY ProcAssumption
  <2>2. A!PassOnlineCheck(Proc[t]) \/ A!Request(Proc[t]) \/ UNCHANGED A!vars
    BY <1>1, ThreadsAreRequesters
  <2> QED BY <2>1, <2>2 DEF A!Next
<1>2. ASSUME NEW v \in Validators, AcceptStep(v) \/ Die(v)
      PROVE  A!Next
  BY <1>2 DEF AcceptStep, Die, A!Next
<1>3. ASSUME NEW k \in Keys, GroupSettle(k)
      PROVE  A!Next
  BY <1>3 DEF GroupSettle, A!Next
<1>4. ASSUME NEW o \in Orders, Reorganise(o)
      PROVE  A!Next
  <2>1. UNCHANGED <<pc, reqOrder, rsv, acceptVars, witnessed>>
    BY <1>4 DEF Reorganise, vars
  <2>2. UNCHANGED <<Dealing, SettledAs>>
    BY <2>1 DEF Dealing, SettledAs
  <2>3. BurnedKeys' \in SUBSET {k \in Keys : GoodKind[k] = "good"}
    BY DEF BurnedKeys, GoodKind
  <2>4. A!Reorganise
    BY <2>1, <2>2, <2>3 DEF A!Reorganise, A!loopVars, A!smpcVars, acceptVars
  <2> QED BY <2>4 DEF A!Next
<1>5. CASE Tick
  BY <1>5 DEF Tick, A!Next
<1>6. ASSUME \/ \E v \in Validators : Housekeeping(v)
             \/ \E k \in Keys : Ledger(k)
             \/ UNCHANGED groupVars
      PROVE  UNCHANGED A!vars
  <2>1. UNCHANGED <<pc, reqOrder, rsv, onChain, acceptVars, witnessed>>
    BY <1>6 DEF Housekeeping, RecheckIota, RecheckPop, RecheckAgain, RecheckDone,
           RecheckError, Expired, Ledger, LedgerStep, threadVars, smpcVars, vars, groupVars
  <2>2. UNCHANGED <<Dealing, SettledAs, BurnedKeys>>
    BY <2>1, SeenAlike
  <2> QED BY <2>1, <2>2 DEF acceptVars, A!vars, A!loopVars, A!smpcVars, A!chainVars
<1> QED BY <1>1, <1>2, <1>3, <1>4, <1>5, <1>6 DEF GroupNext

\* Accept, the heartbeats and the online check behave in the group as SmpcAccept
\* describes them (server/accept.go, server/detect.go): the goroutines of
\* dealUnWrapOrder are the requester it takes as given.
THEOREM GroupImplementsAccept == GroupSpec => ImplementsAccept
<1>1. GroupInit => A!Init /\ RequestsMade
  <2> SUFFICES ASSUME GroupInit PROVE A!Init /\ RequestsMade
    OBVIOUS
  <2> USE DEF GroupInit, Init
  <2>1. Dealing = [v \in Validators |-> FALSE]
    BY DEF Dealing
  <2>2. SettledAs = [k \in Keys |-> "no"]
    BY DEF SettledAs
  <2>3. BurnedKeys = {k \in Keys : GoodKind[k] = "good"}
    BY DEF BurnedKeys, GoodKind
  <2> QED BY <2>1, <2>2, <2>3 DEF A!Init, RequestsMade
<1>2. GroupSpec => []TypeOK
  BY GroupImplementsUnwrap, ClaimsAreExclusive, PTL DEF ImplementsUnwrap
<1>3. A!Spec <=> (A!Init /\ [][A!Next]_(A!vars))
  BY DEF A!Spec
<1> QED BY <1>1, <1>2, <1>3, RequestsMadeStep, GroupStepIsAcceptStep, PTL
        DEF GroupSpec, ImplementsAccept
=============================================================================
