-------------------------- MODULE SmpcAcceptProofs --------------------------
(***************************************************************************)
(* The group signs only what enough validators have found on the chain,    *)
(* for every group, every threshold and every set of requests, whatever    *)
(* reorganisations the chain goes through.                                 *)
(***************************************************************************)
EXTENDS SmpcAccept, FiniteSetTheorems, TLAPS

\* A validator that agrees to a request, or is about to, has found its burn.
AgreedWasSeen ==
    \A v \in Validators, k \in Keys :
        (v \in agreed[k] \/ (loop[v] = "accept" /\ cur[v] = k)) => v \in witnessed[k]

GroupInv == TypeOK /\ AgreedWasSeen /\ SignedWasSeen

\* Nobody is at work and nothing is agreed to.
LEMMA InitGroupInv == Init => GroupInv
<1> SUFFICES ASSUME Init PROVE GroupInv
  OBVIOUS
<1>1. TypeOK
  BY DEF Init, TypeOK, Loops, BeatAges, ReqAges
<1>2. AgreedWasSeen /\ SignedWasSeen
  BY DEF Init, AgreedWasSeen, SignedWasSeen
<1> QED BY <1>1, <1>2 DEF GroupInv

\* A validator witnesses for good, so that what is signed stays witnessed by as many.
LEMMA WitnessesOnlyGrow ==
  ASSUME TypeOK, TypeOK', SignedWasSeen, UNCHANGED settled,
         \A k \in Keys : witnessed[k] \subseteq witnessed'[k]
  PROVE  SignedWasSeen'
<1> SUFFICES ASSUME NEW k \in Keys, settled[k] = "signed"
             PROVE  Cardinality(witnessed'[k]) >= Threshold
  BY DEF SignedWasSeen
<1>1. witnessed[k] \subseteq witnessed'[k] /\ witnessed'[k] \subseteq Validators
  BY DEF TypeOK
<1>2. IsFiniteSet(witnessed'[k]) /\ IsFiniteSet(witnessed[k])
  BY <1>1, FS_Subset, FiniteAssumption
<1>3. Cardinality(witnessed[k]) <= Cardinality(witnessed'[k])
  BY <1>1, <1>2, FS_Subset
<1>4. Cardinality(witnessed[k]) \in Nat /\ Cardinality(witnessed'[k]) \in Nat
  BY <1>2, FS_CardinalityType
<1>5. Cardinality(witnessed[k]) >= Threshold
  BY DEF SignedWasSeen
<1> QED BY <1>3, <1>4, <1>5, AcceptBoundsAssumption

\* The loop of one validator keeps the types.
LEMMA LoopKeepsTypes ==
  ASSUME TypeOK, NEW v \in Validators,
         LoopStep(v) \/ NoPrivateKey(v) \/ StartUp(v) \/ Stop(v)
  PROVE  TypeOK'
<1> USE NoKeyAssumption DEF TypeOK, Loops, Goto, NextInfo, smpcVars, chainVars, BeatAges, ReqAges
<1>1. CASE Beat(v)
  <2>1. 0 \in 0..(OverTime + 1)
    BY AcceptBoundsAssumption
  <2> QED BY <1>1, <2>1 DEF Beat
<1>2. CASE ListOk(v)
  <2>1. todo' \in [Validators -> SUBSET Keys]
    BY <1>2 DEF ListOk
  <2> QED BY <1>2, <2>1 DEF ListOk
<1>3. CASE ListFail(v) \/ EndPass(v) \/ NoPrivateKey(v) \/ StartUp(v)
  BY <1>3 DEF ListFail, EndPass, NoPrivateKey, StartUp
<1>4. CASE Stop(v)
  BY <1>4 DEF Stop
<1>5. CASE Refuse(v)
  BY <1>5 DEF Refuse
<1>6. CASE Admit(v)
  <2>1. witnessed' \in [Keys -> SUBSET Validators] /\ acceptedTxes' \in [Validators -> SUBSET Keys]
    BY <1>6 DEF Admit
  <2> QED BY <1>6, <2>1 DEF Admit
<1>7. CASE AcceptSign(v)
  BY <1>7 DEF AcceptSign
<1>8. ASSUME NEW k \in Keys, SkipInfo(v, k) \/ TakeInfo(v, k)
      PROVE  TypeOK'
  BY <1>8 DEF SkipInfo, TakeInfo
<1> QED BY <1>1, <1>2, <1>3, <1>4, <1>5, <1>6, <1>7, <1>8 DEF LoopStep

\* The loop of one validator keeps the invariant: what it agrees to it has found.
LEMMA LoopKeepsGroupInv ==
  ASSUME GroupInv, NEW v \in Validators,
         LoopStep(v) \/ NoPrivateKey(v) \/ StartUp(v) \/ Stop(v)
  PROVE  GroupInv'
<1> USE DEF GroupInv
<1>1. TypeOK'
  BY LoopKeepsTypes
<1>2. UNCHANGED settled /\ (\A k \in Keys : witnessed[k] \subseteq witnessed'[k])
  <2> USE DEF smpcVars, chainVars, TypeOK
  <2>1. CASE Admit(v)
    BY <2>1 DEF Admit
  <2>2. CASE ~Admit(v)
    BY <2>2 DEF LoopStep, Beat, ListOk, ListFail, EndPass, Refuse, AcceptSign, SkipInfo,
                TakeInfo, NoPrivateKey, StartUp, Stop
  <2> QED BY <2>1, <2>2
<1>3. SignedWasSeen'
  BY <1>1, <1>2, WitnessesOnlyGrow
<1>4. AgreedWasSeen'
  <2> USE DEF TypeOK, Loops, Goto, smpcVars, chainVars, AgreedWasSeen
  <2>1. CASE Beat(v) \/ ListOk(v) \/ ListFail(v) \/ EndPass(v) \/ NoPrivateKey(v) \/ StartUp(v)
    <3>1. /\ \E label \in Loops \ {"accept"} : loop' = [loop EXCEPT ![v] = label]
          /\ UNCHANGED <<cur, agreed, witnessed>>
      BY <2>1 DEF Beat, ListOk, ListFail, EndPass, NoPrivateKey, StartUp
    <3> QED BY <3>1
  <2>2. CASE Stop(v)
    BY <2>2 DEF Stop
  <2>3. CASE Refuse(v)
    BY <2>3 DEF Refuse, NextInfo
  <2>4. CASE Admit(v)
    <3>1. cur[v] \in Keys /\ cur[v] \in burned
      BY <2>4 DEF Admit, Burned
    <3>2. witnessed' = [witnessed EXCEPT ![cur[v]] = @ \cup {v}] /\ UNCHANGED agreed
      BY <2>4, <3>1 DEF Admit
    <3>3. CASE cur[v] \in acceptedTxes[v]
      BY <2>4, <3>1, <3>2, <3>3 DEF Admit, NextInfo
    <3>4. CASE cur[v] \notin acceptedTxes[v]
      BY <2>4, <3>1, <3>2, <3>4 DEF Admit
    <3> QED BY <3>3, <3>4
  <2>5. CASE AcceptSign(v)
    <3>1. cur[v] \in Keys /\ v \in witnessed[cur[v]]
      BY <2>5 DEF AcceptSign
    <3> QED BY <2>5, <3>1 DEF AcceptSign, NextInfo
  <2>6. ASSUME NEW k \in Keys, SkipInfo(v, k) \/ TakeInfo(v, k)
        PROVE  AgreedWasSeen'
    BY <2>6 DEF SkipInfo, TakeInfo
  <2> QED BY <2>1, <2>2, <2>3, <2>4, <2>5, <2>6 DEF LoopStep
<1> QED BY <1>1, <1>3, <1>4

\* The group signs with Threshold agreements, each of them by a witness.
LEMMA SettleKeepsGroupInv ==
  ASSUME GroupInv, NEW k \in Keys, Settle(k)
  PROVE  GroupInv'
<1> USE DEF GroupInv
<1>1. PICK answer \in {"signed", "timeout"} :
          /\ answer = "signed" => Cardinality(agreed[k]) >= Threshold
          /\ settled' = [settled EXCEPT ![k] = answer]
  BY DEF Settle
<1>2. UNCHANGED <<loopVars, dealing, service, reqAge, agreed, chainVars>>
  BY DEF Settle
<1>3. TypeOK' /\ AgreedWasSeen'
  BY <1>1, <1>2 DEF TypeOK, AgreedWasSeen, loopVars, chainVars
<1>4. agreed[k] \subseteq witnessed[k] /\ witnessed[k] \subseteq Validators
  BY DEF TypeOK, AgreedWasSeen
<1>5. /\ IsFiniteSet(witnessed[k]) /\ IsFiniteSet(agreed[k])
      /\ Cardinality(agreed[k]) <= Cardinality(witnessed[k])
  BY <1>4, FS_Subset, FiniteAssumption
<1>6. Cardinality(witnessed[k]) \in Nat /\ Cardinality(agreed[k]) \in Nat
  BY <1>5, FS_CardinalityType
<1>7. answer = "signed" => Cardinality(witnessed[k]) >= Threshold
  BY <1>1, <1>5, <1>6, AcceptBoundsAssumption
<1>8. SignedWasSeen'
  BY <1>1, <1>2, <1>7 DEF TypeOK, SignedWasSeen, chainVars
<1> QED BY <1>3, <1>8

\* The requester, other clients, the chain and time do not touch what is agreed to.
LEMMA OthersKeepGroupInv ==
  ASSUME GroupInv,
         \/ \E v \in Validators : Request(v) \/ PassOnlineCheck(v)
         \/ \E k \in Keys : RequestOther(k)
         \/ Reorganise \/ Tick
         \/ UNCHANGED vars
  PROVE  GroupInv'
<1> USE DEF GroupInv, loopVars, smpcVars, chainVars
<1>1. UNCHANGED <<loop, cur, agreed, settled, witnessed, todo, acceptedTxes>>
  BY DEF Request, PassOnlineCheck, RequestOther, Reorganise, Tick, vars
<1>2. AgreedWasSeen' /\ SignedWasSeen'
  BY <1>1 DEF AgreedWasSeen, SignedWasSeen
<1>3. /\ dealing' \in [Validators -> BOOLEAN]
      /\ burned' \in SUBSET {k \in Keys : Kind[k] = "good"}
  BY DEF TypeOK, Request, PassOnlineCheck, RequestOther, Reorganise, Tick, vars
<1>4. /\ service' \in [Validators -> BeatAges \cup {None}]
      /\ reqAge' \in [Keys -> ReqAges \cup {None}]
  <2> USE AcceptBoundsAssumption, NoneAssumption DEF TypeOK, BeatAges, ReqAges
  <2>1. CASE Tick
    BY <2>1 DEF Tick
  <2>2. CASE ~Tick
    <3>1. 0 \in 0..(AcceptOverTime + 1)
      OBVIOUS
    <3>2. UNCHANGED service
      BY <2>2 DEF Request, PassOnlineCheck, RequestOther, Reorganise, vars
    <3>3. UNCHANGED reqAge \/ \E k \in Keys \cup {NoKey} : reqAge' = [reqAge EXCEPT ![k] = 0]
      BY <2>2 DEF Request, PassOnlineCheck, RequestOther, Reorganise, vars
    <3> QED BY <3>1, <3>2, <3>3
  <2> QED BY <2>1, <2>2
<1> QED BY <1>1, <1>2, <1>3, <1>4 DEF TypeOK

\* Every step keeps the invariant of the group.
LEMMA GroupInvStep == GroupInv /\ [Next]_vars => GroupInv'
<1> SUFFICES ASSUME GroupInv, [Next]_vars
             PROVE  GroupInv'
  OBVIOUS
<1>1. ASSUME NEW v \in Validators, LoopStep(v) \/ NoPrivateKey(v) \/ StartUp(v) \/ Stop(v)
      PROVE  GroupInv'
  BY <1>1, LoopKeepsGroupInv
<1>2. ASSUME NEW k \in Keys, Settle(k)
      PROVE  GroupInv'
  BY <1>2, SettleKeepsGroupInv
<1> QED BY <1>1, <1>2, OthersKeepGroupInv DEF Next

\* Accept and dealUnWrapOrder keep the types of their state (server/accept.go,
\* server/detect.go).
THEOREM GroupIsWellTyped == Spec => []TypeOK
<1>1. GroupInv => TypeOK
  BY DEF GroupInv
<1> QED BY <1>1, InitGroupInv, GroupInvStep, PTL DEF Spec

\* Accept (server/accept.go): what the group signs at least Threshold validators
\* have found on the chain, each by itself.
THEOREM SignedWasSeenByEnough == Spec => []SignedWasSeen
<1>1. GroupInv => SignedWasSeen
  BY DEF GroupInv
<1> QED BY <1>1, InitGroupInv, GroupInvStep, PTL DEF Spec
=============================================================================
