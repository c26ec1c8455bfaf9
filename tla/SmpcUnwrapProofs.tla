-------------------------- MODULE SmpcUnwrapProofs --------------------------
(***************************************************************************)
(* For any set of validators, goroutines, orders and sign requests, the    *)
(* unwrap path of SmpcUnwrap pays an order at most once.  TypeOK and        *)
(* ClaimInv together are inductive; the safety properties follow.          *)
(***************************************************************************)
EXTENDS SmpcUnwrap, TLAPS

IInv == TypeOK /\ ClaimInv
-----------------------------------------------------------------------------
(* The recheck queue.                                                      *)

\* Appending to a queue keeps every entry at its place.
LEMMA AppendFacts ==
    ASSUME NEW q \in Seq(Keys), NEW k \in Keys
    PROVE  /\ Append(q, k) \in Seq(Keys)
           /\ Len(Append(q, k)) = Len(q) + 1
           /\ \A i \in 1..Len(q) : Append(q, k)[i] = q[i]
           /\ Append(q, k)[Len(q) + 1] = k
OBVIOUS

\* Taking the oldest entry moves every other one a place forward.
LEMMA TailFacts ==
    ASSUME NEW q \in Seq(Keys), q # << >>
    PROVE  /\ Tail(q) \in Seq(Keys)
           /\ Len(Tail(q)) = Len(q) - 1
           /\ \A i \in 1..(Len(q) - 1) : Tail(q)[i] = q[i + 1]
           /\ Head(q) = q[1]
           /\ Head(q) \in Keys
           /\ Len(q) \in Nat \ {0}
OBVIOUS
-----------------------------------------------------------------------------
(* The constants and the initial state.                                    *)

LEMMA InitIInv == Init => IInv
<1> SUFFICES ASSUME Init PROVE IInv
  OBVIOUS
<1>1. TypeOK
  BY ProcAssumption DEF Init, TypeOK, PCs, Verdicts, RowStates, SignStates, BlockStates, Carries
<1>2. \A k \in Keys : ~Live(k)
  BY NoKeyAssumption DEF Init, Live, Carries, Queued
<1>3. \A t \in Threads : ~Holds(t) /\ ~Carries(t)
  BY DEF Init, Holds, Carries
<1>4. /\ RowOfHolder /\ RowOfLive /\ OneHolder /\ HolderOrLive /\ OneLive /\ CarrierOwns
      /\ CarriersApart /\ CarriedAlone
  BY <1>2, <1>3 DEF RowOfHolder, RowOfLive, OneHolder, HolderOrLive, OneLive, CarrierOwns,
                    CarriersApart, CarriedAlone
<1>5. ErrorIsSure /\ PoppedApart /\ QueuesApart /\ PoppedAlone
  BY DEF Init, ErrorIsSure, PoppedApart, QueuesApart, PoppedAlone
<1> QED
  BY <1>1, <1>4, <1>5 DEF IInv, ClaimInv
-----------------------------------------------------------------------------
(* Types.                                                                  *)

\* What RecheckIota has popped is a request for a known order.
LEMMA PoppedHasOrder ==
    ASSUME IInv, NEW v \in Validators, verdict[v] # "none"
    PROVE  popped[v] \in Keys /\ Live(popped[v]) /\ reqOrder[popped[v]] \in Orders
BY DEF IInv, TypeOK, ClaimInv, RowOfLive, Live

LEMMA TypeStep == IInv /\ [Next]_vars => TypeOK'
<1> SUFFICES ASSUME IInv, [Next]_vars PROVE TypeOK'
  OBVIOUS
<1> USE ProcAssumption, NoOrderAssumption, NoKeyAssumption
        DEF PCs, Verdicts, RowStates, SignStates, BlockStates, Carries,
            Goto, Return, Settled, threadVars, queueVars, dbVars, smpcVars
<1>0. TypeOK
  BY DEF IInv
<1>1. ASSUME NEW t \in Threads, NEW o \in Orders, Deal(t, o) PROVE TypeOK'
  BY <1>0, <1>1 DEF TypeOK, Deal
<1>2. ASSUME NEW t \in Threads, StoreOk(t) PROVE TypeOK'
  BY <1>0, <1>2 DEF TypeOK, StoreOk
<1>3. ASSUME NEW t \in Threads, StoreLost(t) PROVE TypeOK'
  BY <1>0, <1>3 DEF TypeOK, StoreLost
<1>4. ASSUME NEW t \in Threads, StoreFail(t) PROVE TypeOK'
  BY <1>0, <1>4 DEF TypeOK, StoreFail
<1>5. ASSUME NEW t \in Threads, Create(t) PROVE TypeOK'
  <2>1. CASE Return(t)
    BY <1>0, <1>5, <2>1 DEF TypeOK, Create
  <2>2. CASE Goto(t, "sign") /\ UNCHANGED <<ord, key>>
    BY <1>0, <1>5, <2>2 DEF TypeOK, Create
  <2> QED
    BY <1>5, <2>1, <2>2 DEF Create
<1>6. ASSUME NEW t \in Threads, SignFail(t) PROVE TypeOK'
  BY <1>0, <1>6 DEF TypeOK, SignFail
<1>7. ASSUME NEW t \in Threads, NEW k \in Keys, SignOk(t, k) PROVE TypeOK'
  BY <1>0, <1>7 DEF TypeOK, SignOk
<1>8. ASSUME NEW t \in Threads, Submit(t) PROVE TypeOK'
  <2>1. block' \in [Keys -> BlockStates]
    BY <1>0, <1>8 DEF TypeOK, Submit
  <2>2. CASE Return(t)
    BY <1>0, <1>8, <2>1, <2>2 DEF TypeOK, Submit
  <2>3. CASE Goto(t, "push") /\ UNCHANGED <<ord, key>>
    BY <1>0, <1>8, <2>1, <2>3 DEF TypeOK, Submit
  <2> QED
    BY <1>8, <2>2, <2>3 DEF Submit
<1>9. ASSUME NEW t \in Threads, DetectTimeout(t) PROVE TypeOK'
  BY <1>0, <1>9 DEF TypeOK, DetectTimeout
<1>10. ASSUME NEW t \in Threads, Push(t) PROVE TypeOK'
  <2>1. sentIotaTxes' \in [Validators -> Seq(Keys)]
    BY <1>0, <1>10, AppendFacts DEF TypeOK, Push
  <2> QED
    BY <1>0, <1>10, <2>1 DEF TypeOK, Push
<1>11. ASSUME NEW v \in Validators, RecheckPop(v) PROVE TypeOK'
  <2>1. sentIotaTxes' \in [Validators -> Seq(Keys)] /\ Head(sentIotaTxes[v]) \in Keys
    BY <1>0, <1>11, TailFacts DEF TypeOK, RecheckPop
  <2>2. PICK answer \in {"again", "done", "error"} : verdict' = [verdict EXCEPT ![v] = answer]
    BY <1>11 DEF RecheckPop, CheckSentTx
  <2> QED
    BY <1>0, <1>11, <2>1, <2>2 DEF TypeOK, RecheckPop
<1>12. ASSUME NEW v \in Validators, RecheckAgain(v) PROVE TypeOK'
  <2>1. sentIotaTxes' \in [Validators -> Seq(Keys)]
    BY <1>0, <1>12, AppendFacts, PoppedHasOrder DEF TypeOK, RecheckAgain
  <2> QED
    BY <1>0, <1>12, <2>1 DEF TypeOK, RecheckAgain
<1>13. ASSUME NEW v \in Validators, RecheckDone(v) PROVE TypeOK'
  <2>1. verdict[v] # "none" /\ reqOrder[popped[v]] \in Orders
    BY <1>13, PoppedHasOrder DEF RecheckDone
  <2>2. swapOrder' \in [Orders -> RowStates]
    BY <1>0, <1>13, <2>1 DEF TypeOK, RecheckDone
  <2>3. /\ popped' \in [Validators -> Keys \cup {NoKey}]
        /\ verdict' \in [Validators -> Verdicts]
        /\ \A w \in Validators : (popped'[w] = NoKey) <=> (verdict'[w] = "none")
    <3>1. /\ popped' = [popped EXCEPT ![v] = NoKey]
          /\ verdict' = [verdict EXCEPT ![v] = "none"]
      BY <1>13 DEF RecheckDone
    <3> QED
      BY <1>0, <3>1 DEF TypeOK
  <2>4. UNCHANGED <<pc, ord, key, dealedOrders, sentIotaTxes, errorOrder, reqOrder, rsv, block>>
    BY <1>13 DEF RecheckDone
  <2> QED
    BY <1>0, <2>2, <2>3, <2>4 DEF TypeOK
<1>14. ASSUME NEW v \in Validators, RecheckError(v) PROVE TypeOK'
  <2>1. verdict[v] # "none" /\ reqOrder[popped[v]] \in Orders
    BY <1>14, PoppedHasOrder DEF RecheckError
  <2>2. errorOrder' \in SUBSET Orders
    BY <1>0, <1>14, <2>1 DEF TypeOK, RecheckError
  <2>3. swapOrder' \in [Orders -> RowStates]
    BY <1>0, <1>14, <2>1 DEF TypeOK, RecheckError
  <2> QED
    BY <1>0, <1>14, <2>2, <2>3 DEF TypeOK, RecheckError
<1>15. ASSUME NEW v \in Validators, Expired(v) PROVE TypeOK'
  BY <1>0, <1>15 DEF TypeOK, Expired
<1>16. ASSUME NEW v \in Validators, Crash(v) PROVE TypeOK'
  BY <1>0, <1>16 DEF TypeOK, Crash
<1>17. ASSUME NEW k \in Keys, SmpcSettle(k) PROVE TypeOK'
  BY <1>0, <1>17 DEF TypeOK, SmpcSettle
<1>18. ASSUME NEW k \in Keys, LedgerStep(k) PROVE TypeOK'
  <2>1. PICK state \in BlockStates : block' = [block EXCEPT ![k] = state]
    BY <1>18 DEF LedgerStep
  <2>2. block' \in [Keys -> BlockStates]
    BY <1>0, <2>1 DEF TypeOK
  <2> QED
    BY <1>0, <1>18, <2>2 DEF TypeOK, LedgerStep
<1>19. CASE UNCHANGED vars
  BY <1>0, <1>19 DEF TypeOK, vars
<1> QED
  BY <1>1, <1>2, <1>3, <1>4, <1>5, <1>6, <1>7, <1>8, <1>9, <1>10, <1>11, <1>12, <1>13,
     <1>14, <1>15, <1>16, <1>17, <1>18, <1>19
     DEF Next, ThreadStep, ProcessStep, RecheckIota
-----------------------------------------------------------------------------
(* Most steps give up claims or pass them on, and create none.             *)

ApartInv == CarriersApart /\ PoppedApart /\ QueuesApart /\ CarriedAlone /\ PoppedAlone

\* A step after which every holder held and every live request lived before, and
\* which deletes no row, keeps ClaimInv but for what it says of the queues.
LEMMA NoNewClaim ==
    ASSUME IInv, TypeOK', ApartInv', ErrorIsSure',
           reqOrder' = reqOrder,
           \A t \in Threads : Holds(t)' => (Holds(t) /\ ord'[t] = ord[t]),
           \A t \in Threads : Carries(t)' => (Carries(t) /\ ord'[t] = ord[t] /\ key'[t] = key[t]),
           \A k \in Keys : Live(k)' => Live(k),
           \A o \in Orders : swapOrder'[o] = "absent" => swapOrder[o] = "absent"
    PROVE  ClaimInv'
<1>1. TypeOK /\ ClaimInv
  BY DEF IInv
<1>2. RowOfHolder'
  <2>1. \A t \in Threads : Holds(t) => ord[t] \in Orders
    BY <1>1 DEF TypeOK, Holds
  <2> QED
    BY <1>1, <2>1 DEF ClaimInv, RowOfHolder
<1>3. RowOfLive'
  BY <1>1 DEF TypeOK, ClaimInv, RowOfLive
<1>4. OneHolder'
  BY <1>1 DEF ClaimInv, OneHolder
<1>5. HolderOrLive'
  BY <1>1 DEF ClaimInv, HolderOrLive
<1>6. OneLive'
  BY <1>1 DEF ClaimInv, OneLive
<1>7. CarrierOwns'
  BY <1>1 DEF ClaimInv, CarrierOwns
<1> QED
  BY <1>2, <1>3, <1>4, <1>5, <1>6, <1>7 DEF ClaimInv, ApartInv

\* A step that leaves the queues, what is popped and who carries what alone, or
\* only gives it up, keeps the places of the requests apart.
LEMMA PlacesKept ==
    ASSUME IInv, UNCHANGED <<sentIotaTxes, popped>>,
           \A t \in Threads : Carries(t)' => (Carries(t) /\ key'[t] = key[t])
    PROVE  ApartInv'
<1>1. ClaimInv
  BY DEF IInv
<1>2. CarriersApart'
  BY <1>1 DEF ClaimInv, CarriersApart
<1>3. PoppedApart' /\ PoppedAlone' /\ QueuesApart'
  BY <1>1 DEF ClaimInv, PoppedApart, PoppedAlone, QueuesApart, Queued
<1>4. CarriedAlone'
  BY <1>1 DEF ClaimInv, CarriedAlone, Queued
<1> QED
  BY <1>2, <1>3, <1>4 DEF ApartInv
-----------------------------------------------------------------------------
(* One lemma per action: it keeps ClaimInv.                                *)

\* A goroutine that takes an order does not hold its row yet.
LEMMA DealClaims ==
    ASSUME IInv, TypeOK', NEW t \in Threads, NEW o \in Orders, Deal(t, o)
    PROVE  ClaimInv'
<1> USE DEF Deal, Goto, Return, threadVars, queueVars, dbVars, smpcVars
<1>1. \A u \in Threads : Holds(u)' => (Holds(u) /\ ord'[u] = ord[u])
  BY DEF IInv, TypeOK, Holds, Carries
<1>2. \A u \in Threads : Carries(u)' => (Carries(u) /\ ord'[u] = ord[u] /\ key'[u] = key[u])
  BY DEF IInv, TypeOK, Holds, Carries
<1>3. ApartInv'
  BY <1>2, PlacesKept
<1>4. \A k \in Keys : Live(k)' => Live(k)
  BY <1>2 DEF IInv, TypeOK, Live, Queued
<1>5. ErrorIsSure'
  BY DEF IInv, TypeOK, ClaimInv, ErrorIsSure
<1>6. \A p \in Orders : swapOrder'[p] = "absent" => swapOrder[p] = "absent"
  BY DEF IInv, TypeOK
<1> QED
  BY <1>1, <1>2, <1>3, <1>4, <1>5, <1>6, NoNewClaim

\* A row inserted for nobody stays for ever, but is no claim.
LEMMA StoreLostClaims ==
    ASSUME IInv, TypeOK', NEW t \in Threads, StoreLost(t)
    PROVE  ClaimInv'
<1> USE DEF StoreLost, Goto, Return, threadVars, queueVars, dbVars, smpcVars
<1>1. \A u \in Threads : Holds(u)' => (Holds(u) /\ ord'[u] = ord[u])
  BY DEF IInv, TypeOK, Holds, Carries
<1>2. \A u \in Threads : Carries(u)' => (Carries(u) /\ ord'[u] = ord[u] /\ key'[u] = key[u])
  BY DEF IInv, TypeOK, Holds, Carries
<1>3. ApartInv'
  BY <1>2, PlacesKept
<1>4. \A k \in Keys : Live(k)' => Live(k)
  BY <1>2 DEF IInv, TypeOK, Live, Queued
<1>5. ErrorIsSure'
  BY DEF IInv, TypeOK, ClaimInv, ErrorIsSure
<1>6. \A o \in Orders : swapOrder'[o] = "absent" => swapOrder[o] = "absent"
  BY DEF IInv, TypeOK
<1> QED
  BY <1>1, <1>2, <1>3, <1>4, <1>5, <1>6, NoNewClaim

\* Without a row of its own the goroutine returns.
LEMMA StoreFailClaims ==
    ASSUME IInv, TypeOK', NEW t \in Threads, StoreFail(t)
    PROVE  ClaimInv'
<1> USE DEF StoreFail, Goto, Return, threadVars, queueVars, dbVars, smpcVars
<1>1. \A u \in Threads : Holds(u)' => (Holds(u) /\ ord'[u] = ord[u])
  BY DEF IInv, TypeOK, Holds, Carries
<1>2. \A u \in Threads : Carries(u)' => (Carries(u) /\ ord'[u] = ord[u] /\ key'[u] = key[u])
  BY DEF IInv, TypeOK, Holds, Carries
<1>3. ApartInv'
  BY <1>2, PlacesKept
<1>4. \A k \in Keys : Live(k)' => Live(k)
  BY <1>2 DEF IInv, TypeOK, Live, Queued
<1>5. ErrorIsSure'
  BY DEF IInv, TypeOK, ClaimInv, ErrorIsSure
<1>6. \A o \in Orders : swapOrder'[o] = "absent" => swapOrder[o] = "absent"
  BY DEF IInv, TypeOK
<1> QED
  BY <1>1, <1>2, <1>3, <1>4, <1>5, <1>6, NoNewClaim

\* The claim goes on or is given up.
LEMMA CreateClaims ==
    ASSUME IInv, TypeOK', NEW t \in Threads, Create(t)
    PROVE  ClaimInv'
<1> USE DEF Create, Goto, Return, threadVars, queueVars, dbVars, smpcVars
<1>1. \A u \in Threads : Holds(u)' => (Holds(u) /\ ord'[u] = ord[u])
  BY DEF IInv, TypeOK, Holds, Carries
<1>2. \A u \in Threads : Carries(u)' => (Carries(u) /\ ord'[u] = ord[u] /\ key'[u] = key[u])
  BY DEF IInv, TypeOK, Holds, Carries
<1>3. ApartInv'
  BY <1>2, PlacesKept
<1>4. \A k \in Keys : Live(k)' => Live(k)
  BY <1>2 DEF IInv, TypeOK, Live, Queued
<1>5. ErrorIsSure'
  BY DEF IInv, TypeOK, ClaimInv, ErrorIsSure
<1>6. \A o \in Orders : swapOrder'[o] = "absent" => swapOrder[o] = "absent"
  BY DEF IInv, TypeOK
<1> QED
  BY <1>1, <1>2, <1>3, <1>4, <1>5, <1>6, NoNewClaim

\* The claim is given up.
LEMMA SignFailClaims ==
    ASSUME IInv, TypeOK', NEW t \in Threads, SignFail(t)
    PROVE  ClaimInv'
<1> USE DEF SignFail, Goto, Return, threadVars, queueVars, dbVars, smpcVars
<1>1. \A u \in Threads : Holds(u)' => (Holds(u) /\ ord'[u] = ord[u])
  BY DEF IInv, TypeOK, Holds, Carries
<1>2. \A u \in Threads : Carries(u)' => (Carries(u) /\ ord'[u] = ord[u] /\ key'[u] = key[u])
  BY DEF IInv, TypeOK, Holds, Carries
<1>3. ApartInv'
  BY <1>2, PlacesKept
<1>4. \A k \in Keys : Live(k)' => Live(k)
  BY <1>2 DEF IInv, TypeOK, Live, Queued
<1>5. ErrorIsSure'
  BY DEF IInv, TypeOK, ClaimInv, ErrorIsSure
<1>6. \A o \in Orders : swapOrder'[o] = "absent" => swapOrder[o] = "absent"
  BY DEF IInv, TypeOK
<1> QED
  BY <1>1, <1>2, <1>3, <1>4, <1>5, <1>6, NoNewClaim

\* The request is given up: nobody will submit its block.
LEMMA DetectTimeoutClaims ==
    ASSUME IInv, TypeOK', NEW t \in Threads, DetectTimeout(t)
    PROVE  ClaimInv'
<1> USE DEF DetectTimeout, Goto, Return, threadVars, queueVars, dbVars, smpcVars
<1>1. \A u \in Threads : Holds(u)' => (Holds(u) /\ ord'[u] = ord[u])
  BY DEF IInv, TypeOK, Holds, Carries
<1>2. \A u \in Threads : Carries(u)' => (Carries(u) /\ ord'[u] = ord[u] /\ key'[u] = key[u])
  BY DEF IInv, TypeOK, Holds, Carries
<1>3. ApartInv'
  BY <1>2, PlacesKept
<1>4. \A k \in Keys : Live(k)' => Live(k)
  BY <1>2 DEF IInv, TypeOK, Live, Queued
<1>5. ErrorIsSure'
  BY DEF IInv, TypeOK, ClaimInv, ErrorIsSure
<1>6. \A o \in Orders : swapOrder'[o] = "absent" => swapOrder[o] = "absent"
  BY DEF IInv, TypeOK
<1> QED
  BY <1>1, <1>2, <1>3, <1>4, <1>5, <1>6, NoNewClaim

\* The request was live in the hands of the goroutine, and is in the ledger now.
LEMMA SubmitClaims ==
    ASSUME IInv, TypeOK', NEW t \in Threads, Submit(t)
    PROVE  ClaimInv'
<1> USE DEF Submit, Goto, Return, threadVars, queueVars, dbVars, smpcVars
<1>1. \A u \in Threads : Holds(u)' => (Holds(u) /\ ord'[u] = ord[u])
  BY DEF IInv, TypeOK, Holds, Carries
<1>2. \A u \in Threads : Carries(u)' => (Carries(u) /\ ord'[u] = ord[u] /\ key'[u] = key[u])
  BY DEF IInv, TypeOK, Holds, Carries
<1>3. ApartInv'
  BY <1>2, PlacesKept
<1>4. \A k \in Keys : Live(k)' => Live(k)
  <2>1. Carries(t) /\ key[t] \in Keys
    BY DEF IInv, TypeOK, Carries
  <2>2. \A k \in Keys : k # key[t] => block'[k] = block[k]
    BY DEF IInv, TypeOK
  <2>3. Live(key[t])
    BY <2>1 DEF Live
  <2> QED
    BY <1>2, <2>2, <2>3 DEF Live, Queued
<1>5. ErrorIsSure'
  <2>1. Carries(t) /\ \A v \in Validators : popped[v] # key[t]
    BY DEF IInv, ClaimInv, CarriedAlone, Carries
  <2>2. \A v \in Validators : verdict[v] = "error" => block'[popped[v]] = block[popped[v]]
    BY <2>1 DEF IInv, TypeOK
  <2> QED
    BY <2>2 DEF IInv, ClaimInv, ErrorIsSure
<1>6. \A o \in Orders : swapOrder'[o] = "absent" => swapOrder[o] = "absent"
  BY DEF IInv, TypeOK
<1> QED
  BY <1>1, <1>2, <1>3, <1>4, <1>5, <1>6, NoNewClaim

\* No claim rests on dealedOrders.
LEMMA ExpiredClaims ==
    ASSUME IInv, TypeOK', NEW v \in Validators, Expired(v)
    PROVE  ClaimInv'
<1> USE DEF Expired, Goto, Return, threadVars, queueVars, dbVars, smpcVars
<1>1. \A u \in Threads : Holds(u)' => (Holds(u) /\ ord'[u] = ord[u])
  BY DEF IInv, TypeOK, Holds, Carries
<1>2. \A u \in Threads : Carries(u)' => (Carries(u) /\ ord'[u] = ord[u] /\ key'[u] = key[u])
  BY DEF IInv, TypeOK, Holds, Carries
<1>3. ApartInv'
  BY <1>2, PlacesKept
<1>4. \A k \in Keys : Live(k)' => Live(k)
  BY <1>2 DEF IInv, TypeOK, Live, Queued
<1>5. ErrorIsSure'
  BY DEF IInv, TypeOK, ClaimInv, ErrorIsSure
<1>6. \A o \in Orders : swapOrder'[o] = "absent" => swapOrder[o] = "absent"
  BY DEF IInv, TypeOK
<1> QED
  BY <1>1, <1>2, <1>3, <1>4, <1>5, <1>6, NoNewClaim

\* No claim rests on the group having answered.
LEMMA SmpcSettleClaims ==
    ASSUME IInv, TypeOK', NEW r \in Keys, SmpcSettle(r)
    PROVE  ClaimInv'
<1> USE DEF SmpcSettle, Goto, Return, threadVars, queueVars, dbVars, smpcVars
<1>1. \A u \in Threads : Holds(u)' => (Holds(u) /\ ord'[u] = ord[u])
  BY DEF IInv, TypeOK, Holds, Carries
<1>2. \A u \in Threads : Carries(u)' => (Carries(u) /\ ord'[u] = ord[u] /\ key'[u] = key[u])
  BY DEF IInv, TypeOK, Holds, Carries
<1>3. ApartInv'
  BY <1>2, PlacesKept
<1>4. \A k \in Keys : Live(k)' => Live(k)
  BY <1>2 DEF IInv, TypeOK, Live, Queued
<1>5. ErrorIsSure'
  BY DEF IInv, TypeOK, ClaimInv, ErrorIsSure
<1>6. \A o \in Orders : swapOrder'[o] = "absent" => swapOrder[o] = "absent"
  BY DEF IInv, TypeOK
<1> QED
  BY <1>1, <1>2, <1>3, <1>4, <1>5, <1>6, NoNewClaim

\* A block only moves on while it may be included, and a conflict is final.
LEMMA LedgerStepClaims ==
    ASSUME IInv, TypeOK', NEW r \in Keys, LedgerStep(r)
    PROVE  ClaimInv'
<1> USE DEF LedgerStep, Goto, Return, threadVars, queueVars, dbVars, smpcVars
<1>1. \A u \in Threads : Holds(u)' => (Holds(u) /\ ord'[u] = ord[u])
  BY DEF IInv, TypeOK, Holds, Carries
<1>2. \A u \in Threads : Carries(u)' => (Carries(u) /\ ord'[u] = ord[u] /\ key'[u] = key[u])
  BY DEF IInv, TypeOK, Holds, Carries
<1>3. ApartInv'
  BY <1>2, PlacesKept
<1>4. \A k \in Keys : Live(k)' => Live(k)
  BY <1>2 DEF IInv, TypeOK, Live, Queued
<1>5. ErrorIsSure'
  BY DEF IInv, TypeOK, ClaimInv, ErrorIsSure
<1>6. \A o \in Orders : swapOrder'[o] = "absent" => swapOrder[o] = "absent"
  BY DEF IInv, TypeOK
<1> QED
  BY <1>1, <1>2, <1>3, <1>4, <1>5, <1>6, NoNewClaim

-----------------------------------------------------------------------------
(* The steps that change a queue.                                          *)

\* Pushing a request queues it and nothing else.
LEMMA PushQueued ==
    ASSUME TypeOK, NEW v \in Validators, NEW k \in Keys,
           sentIotaTxes' = [sentIotaTxes EXCEPT ![v] = Append(@, k)]
    PROVE  \A w \in Validators, x \in Keys :
               Queued(w, x)' <=> (Queued(w, x) \/ (w = v /\ x = k))
<1>1. sentIotaTxes[v] \in Seq(Keys) /\ sentIotaTxes'[v] = Append(sentIotaTxes[v], k)
  BY DEF TypeOK
<1>2. \A w \in Validators : w # v => sentIotaTxes'[w] = sentIotaTxes[w]
  BY DEF TypeOK
<1>3. ASSUME NEW x \in Keys PROVE Queued(v, x)' <=> (Queued(v, x) \/ x = k)
  <2>1. /\ Len(sentIotaTxes'[v]) = Len(sentIotaTxes[v]) + 1
        /\ \A i \in 1..Len(sentIotaTxes[v]) : sentIotaTxes'[v][i] = sentIotaTxes[v][i]
        /\ sentIotaTxes'[v][Len(sentIotaTxes[v]) + 1] = k
        /\ Len(sentIotaTxes[v]) \in Nat
    BY <1>1, AppendFacts
  <2>2. ASSUME Queued(v, x)' PROVE Queued(v, x) \/ x = k
    BY <2>1, <2>2 DEF Queued
  <2>3. ASSUME Queued(v, x) PROVE Queued(v, x)'
    BY <2>1, <2>3 DEF Queued
  <2>4. ASSUME x = k PROVE Queued(v, x)'
    <3>1. Len(sentIotaTxes[v]) + 1 \in 1..Len(sentIotaTxes'[v])
      BY <2>1
    <3> QED
      BY <2>1, <2>4, <3>1 DEF Queued
  <2> QED
    BY <2>2, <2>3, <2>4
<1>4. ASSUME NEW w \in Validators, w # v, NEW x \in Keys PROVE Queued(w, x)' <=> Queued(w, x)
  BY <1>2, <1>4 DEF Queued
<1> QED
  BY <1>3, <1>4

\* Pushing a request that is nowhere queued keeps the queues apart.
LEMMA PushApart ==
    ASSUME TypeOK, QueuesApart, NEW v \in Validators, NEW k \in Keys,
           \A w \in Validators : ~Queued(w, k),
           sentIotaTxes' = [sentIotaTxes EXCEPT ![v] = Append(@, k)]
    PROVE  QueuesApart'
<1>1. sentIotaTxes[v] \in Seq(Keys) /\ sentIotaTxes'[v] = Append(sentIotaTxes[v], k)
  BY DEF TypeOK
<1>2. \A w \in Validators : w # v => sentIotaTxes'[w] = sentIotaTxes[w]
  BY DEF TypeOK
<1>3. /\ Len(sentIotaTxes'[v]) = Len(sentIotaTxes[v]) + 1
      /\ \A i \in 1..Len(sentIotaTxes[v]) : sentIotaTxes'[v][i] = sentIotaTxes[v][i]
      /\ sentIotaTxes'[v][Len(sentIotaTxes[v]) + 1] = k
      /\ Len(sentIotaTxes[v]) \in Nat
  BY <1>1, AppendFacts
<1>4. \A w \in Validators : \A i \in 1..Len(sentIotaTxes[w]) : sentIotaTxes[w][i] # k
  BY DEF Queued
<1>5. ASSUME NEW w \in Validators, NEW x \in Validators,
             NEW i \in 1..Len(sentIotaTxes'[w]), NEW j \in 1..Len(sentIotaTxes'[x]),
             sentIotaTxes'[w][i] = sentIotaTxes'[x][j]
      PROVE  w = x /\ i = j
  <2>1. CASE w = v /\ x = v
    BY <1>3, <1>4, <1>5, <2>1 DEF QueuesApart
  <2>2. CASE w = v /\ x # v
    BY <1>2, <1>3, <1>4, <1>5, <2>2 DEF QueuesApart
  <2>3. CASE w # v /\ x = v
    BY <1>2, <1>3, <1>4, <1>5, <2>3 DEF QueuesApart
  <2>4. CASE w # v /\ x # v
    BY <1>2, <1>5, <2>4 DEF QueuesApart
  <2> QED
    BY <2>1, <2>2, <2>3, <2>4
<1> QED
  BY <1>5 DEF QueuesApart

\* Popping takes the only entry of the oldest request off the queues.
LEMMA PopQueued ==
    ASSUME TypeOK, QueuesApart, NEW v \in Validators, sentIotaTxes[v] # << >>,
           sentIotaTxes' = [sentIotaTxes EXCEPT ![v] = Tail(@)]
    PROVE  /\ Head(sentIotaTxes[v]) \in Keys
           /\ Queued(v, Head(sentIotaTxes[v]))
           /\ QueuesApart'
           /\ \A w \in Validators, x \in Keys :
                 Queued(w, x)' <=> (Queued(w, x) /\ x # Head(sentIotaTxes[v]))
<1> DEFINE h == Head(sentIotaTxes[v])
           n == Len(sentIotaTxes[v])
<1>1. sentIotaTxes[v] \in Seq(Keys) /\ sentIotaTxes'[v] = Tail(sentIotaTxes[v])
  BY DEF TypeOK
<1>2. \A w \in Validators : w # v => sentIotaTxes'[w] = sentIotaTxes[w]
  BY DEF TypeOK
<1>3. /\ n \in Nat \ {0} /\ h \in Keys /\ h = sentIotaTxes[v][1]
      /\ Len(sentIotaTxes'[v]) = n - 1
      /\ \A i \in 1..(n - 1) : sentIotaTxes'[v][i] = sentIotaTxes[v][i + 1]
  BY <1>1, TailFacts
<1> HIDE DEF h
<1>4. Queued(v, h)
  BY <1>3 DEF Queued
<1>5. \A w \in Validators : \A i \in 1..Len(sentIotaTxes[w]) :
          sentIotaTxes[w][i] = h => (w = v /\ i = 1)
  BY <1>3 DEF QueuesApart
<1>6. ASSUME NEW w \in Validators, NEW x \in Keys
      PROVE  Queued(w, x)' <=> (Queued(w, x) /\ x # h)
  <2>1. CASE w # v
    BY <1>2, <1>5, <2>1 DEF Queued
  <2>2. CASE w = v
    <3>1. ASSUME Queued(v, x)' PROVE Queued(v, x) /\ x # h
      <4>1. PICK i \in 1..(n - 1) : sentIotaTxes[v][i + 1] = x
        BY <1>3, <3>1 DEF Queued
      <4>2. i + 1 \in 1..n /\ i + 1 # 1
        BY <1>3, <4>1
      <4> QED
        BY <1>5, <4>1, <4>2 DEF Queued
    <3>2. ASSUME Queued(v, x), x # h PROVE Queued(v, x)'
      <4>1. PICK i \in 1..n : sentIotaTxes[v][i] = x
        BY <3>2 DEF Queued
      <4>2. i # 1 /\ i - 1 \in 1..(n - 1) /\ (i - 1) + 1 = i
        BY <1>3, <3>2, <4>1
      <4> QED
        BY <1>3, <4>1, <4>2 DEF Queued
    <3> QED
      BY <2>2, <3>1, <3>2
  <2> QED
    BY <2>1, <2>2
<1>7. ASSUME NEW w \in Validators, NEW x \in Validators,
             NEW i \in 1..Len(sentIotaTxes'[w]), NEW j \in 1..Len(sentIotaTxes'[x]),
             sentIotaTxes'[w][i] = sentIotaTxes'[x][j]
      PROVE  w = x /\ i = j
  <2>1. CASE w = v /\ x = v
    BY <1>3, <1>7, <2>1 DEF QueuesApart
  <2>2. CASE w = v /\ x # v
    BY <1>2, <1>3, <1>7, <2>2 DEF QueuesApart
  <2>3. CASE w # v /\ x = v
    BY <1>2, <1>3, <1>7, <2>3 DEF QueuesApart
  <2>4. CASE w # v /\ x # v
    BY <1>2, <1>7, <2>4 DEF QueuesApart
  <2> QED
    BY <2>1, <2>2, <2>3, <2>4
<1>8. QueuesApart'
  BY <1>7 DEF QueuesApart
<1> QED
  BY <1>3, <1>4, <1>6, <1>8 DEF h

\* The request moves from the goroutine's hands to the queue.
LEMMA PushClaims ==
    ASSUME IInv, TypeOK', NEW t \in Threads, Push(t)
    PROVE  ClaimInv'
<1> USE DEF Push, Goto, Return, dbVars, smpcVars
<1>0. /\ TypeOK /\ ClaimInv /\ Carries(t) /\ key[t] \in Keys /\ Proc[t] \in Validators
      /\ \A v \in Validators : popped[v] # key[t] /\ ~Queued(v, key[t])
  BY ProcAssumption DEF IInv, TypeOK, Carries, ClaimInv, CarriedAlone
<1>1. \A u \in Threads : Holds(u)' => (Holds(u) /\ ord'[u] = ord[u])
  BY <1>0 DEF TypeOK, Holds
<1>2. \A u \in Threads : Carries(u)' => (Carries(u) /\ ord'[u] = ord[u] /\ key'[u] = key[u] /\ u # t)
  BY <1>0 DEF TypeOK, Carries
<1>3. \A w \in Validators, x \in Keys :
          Queued(w, x)' <=> (Queued(w, x) \/ (w = Proc[t] /\ x = key[t]))
  BY <1>0, PushQueued
<1>4. \A u \in Threads : Carries(u) => (key[u] \in Keys /\ (u # t => key[u] # key[t]))
  BY <1>0 DEF TypeOK, ClaimInv, CarriersApart
<1>5. \A v \in Validators : popped[v] \in Keys \cup {NoKey}
  BY <1>0 DEF TypeOK
<1>6. ApartInv'
  <2>1. CarriersApart' /\ PoppedApart'
    BY <1>0, <1>2 DEF ClaimInv, CarriersApart, PoppedApart
  <2>2. CarriedAlone'
    BY <1>0, <1>2, <1>3, <1>4 DEF ClaimInv, CarriedAlone
  <2>3. PoppedAlone'
    BY <1>0, <1>3, <1>5 DEF ClaimInv, PoppedAlone
  <2>4. QueuesApart'
    BY <1>0, PushApart DEF ClaimInv
  <2> QED
    BY <2>1, <2>2, <2>3, <2>4 DEF ApartInv
<1>7. \A k \in Keys : Live(k)' => Live(k)
  BY <1>0, <1>2, <1>3 DEF Live
<1>8. ErrorIsSure'
  BY <1>0 DEF ClaimInv, ErrorIsSure
<1> QED
  BY <1>1, <1>2, <1>6, <1>7, <1>8, NoNewClaim

\* The request moves from the head of the queue into the hands of RecheckIota.
LEMMA RecheckPopClaims ==
    ASSUME IInv, TypeOK', NEW v \in Validators, RecheckPop(v)
    PROVE  ClaimInv'
<1> USE DEF RecheckPop, threadVars, dbVars, smpcVars
<1> DEFINE h == Head(sentIotaTxes[v])
<1>0. TypeOK /\ ClaimInv
  BY DEF IInv
<1>1. \A u \in Threads : Holds(u)' => (Holds(u) /\ ord'[u] = ord[u])
  BY DEF Holds
<1>2. \A u \in Threads : Carries(u)' => (Carries(u) /\ ord'[u] = ord[u] /\ key'[u] = key[u])
  BY DEF Carries
<1>3. /\ h \in Keys /\ Queued(v, h) /\ QueuesApart'
      /\ \A w \in Validators, x \in Keys : Queued(w, x)' <=> (Queued(w, x) /\ x # h)
  BY <1>0, PopQueued DEF ClaimInv
<1>4. /\ popped'[v] = h /\ popped[v] = NoKey
      /\ \A w \in Validators : w # v => popped'[w] = popped[w] /\ verdict'[w] = verdict[w]
  BY <1>0 DEF TypeOK
<1>5. verdict'[v] \in CheckSentTx(h)
  BY <1>0 DEF TypeOK
<1> HIDE DEF h
<1>6. \A u \in Threads : Carries(u) => key[u] \in Keys
  BY <1>0 DEF TypeOK
<1>7. \A w \in Validators : popped[w] \in Keys \cup {NoKey}
  BY <1>0 DEF TypeOK
<1>8. ApartInv'
  <2>1. CarriersApart'
    BY <1>0, <1>2 DEF ClaimInv, CarriersApart
  <2>2. PoppedApart'
    BY <1>0, <1>3, <1>4, <1>7 DEF ClaimInv, PoppedApart, PoppedAlone
  <2>3. CarriedAlone'
    BY <1>0, <1>2, <1>3, <1>4, <1>6 DEF ClaimInv, CarriedAlone
  <2>4. PoppedAlone'
    BY <1>0, <1>3, <1>4, <1>7 DEF ClaimInv, PoppedAlone
  <2> QED
    BY <1>3, <2>1, <2>2, <2>3, <2>4 DEF ApartInv
<1>9. \A k \in Keys : Live(k)' => Live(k)
  <2>1. Live(h)
    BY <1>3 DEF Live
  <2>2. ASSUME NEW k \in Keys, k # h, Live(k)' PROVE Live(k)
    <3>1. CASE \E t \in Threads : Carries(t)' /\ key'[t] = k
      BY <1>2, <3>1 DEF Live
    <3>2. CASE \E w \in Validators : popped'[w] = k \/ Queued(w, k)'
      BY <1>3, <1>4, <2>2, <3>2 DEF Live
    <3>3. CASE block'[k] \in {"sent", "solid", "included"}
      BY <3>3 DEF Live
    <3> QED
      BY <2>2, <3>1, <3>2, <3>3 DEF Live
  <2> QED
    BY <2>1, <2>2
<1>10. ErrorIsSure'
  BY <1>0, <1>4, <1>5 DEF ClaimInv, ErrorIsSure, CheckSentTx
<1> QED
  BY <1>1, <1>2, <1>8, <1>9, <1>10, NoNewClaim

\* The request goes back to the tail of the queue.
LEMMA RecheckAgainClaims ==
    ASSUME IInv, TypeOK', NEW v \in Validators, RecheckAgain(v)
    PROVE  ClaimInv'
<1> USE DEF RecheckAgain, Settled, threadVars, dbVars, smpcVars
<1> DEFINE h == popped[v]
<1>0. TypeOK /\ ClaimInv /\ h \in Keys /\ h # NoKey
  BY PoppedHasOrder, NoKeyAssumption DEF IInv
<1>1. \A u \in Threads : Holds(u)' => (Holds(u) /\ ord'[u] = ord[u])
  BY DEF Holds
<1>2. \A u \in Threads : Carries(u)' => (Carries(u) /\ ord'[u] = ord[u] /\ key'[u] = key[u])
  BY DEF Carries
<1>3. \A w \in Validators, x \in Keys : Queued(w, x)' <=> (Queued(w, x) \/ (w = v /\ x = h))
  BY <1>0, PushQueued
<1>4. /\ popped'[v] = NoKey /\ verdict'[v] = "none"
      /\ \A w \in Validators : w # v => popped'[w] = popped[w] /\ verdict'[w] = verdict[w]
  BY <1>0 DEF TypeOK
<1>5. \A w \in Validators : ~Queued(w, h)
  BY <1>0 DEF ClaimInv, PoppedAlone
<1>6. \A u \in Threads : Carries(u) => key[u] \in Keys
  BY <1>0 DEF TypeOK
<1>7. \A w \in Validators : popped[w] \in Keys \cup {NoKey}
  BY <1>0 DEF TypeOK
<1>8. QueuesApart'
  BY <1>0, <1>5, PushApart DEF ClaimInv
<1>9. ApartInv'
  <2>1. CarriersApart'
    BY <1>0, <1>2 DEF ClaimInv, CarriersApart
  <2>2. PoppedApart'
    BY <1>0, <1>4 DEF ClaimInv, PoppedApart
  <2>3. CarriedAlone'
    BY <1>0, <1>2, <1>3, <1>4, <1>6, NoKeyAssumption DEF ClaimInv, CarriedAlone
  <2>4. PoppedAlone'
    BY <1>0, <1>3, <1>4, <1>7 DEF ClaimInv, PoppedAlone, PoppedApart
  <2> QED
    BY <1>8, <2>1, <2>2, <2>3, <2>4 DEF ApartInv
<1>10. \A k \in Keys : Live(k)' => Live(k)
  <2>1. ASSUME NEW k \in Keys, Live(k)' PROVE Live(k)
    <3>1. CASE \E t \in Threads : Carries(t)' /\ key'[t] = k
      BY <1>2, <3>1 DEF Live
    <3>2. CASE \E w \in Validators : popped'[w] = k \/ Queued(w, k)'
      BY <1>3, <1>4, <3>2, NoKeyAssumption DEF Live
    <3>3. CASE block'[k] \in {"sent", "solid", "included"}
      BY <3>3 DEF Live
    <3> QED
      BY <2>1, <3>1, <3>2, <3>3 DEF Live
  <2> QED
    BY <2>1
<1>11. ErrorIsSure'
  BY <1>0, <1>4 DEF ClaimInv, ErrorIsSure
<1> QED
  BY <1>1, <1>2, <1>9, <1>10, <1>11, NoNewClaim

\* RecheckIota lets go of the request, whatever it tells the database.
LEMMA SettledPlaces ==
    ASSUME IInv, NEW v \in Validators, NEW h \in Keys, popped[v] = h, Settled(v),
           UNCHANGED <<pc, key, sentIotaTxes, block>>
    PROVE  /\ ApartInv'
           /\ ErrorIsSure'
           /\ \A k \in Keys : Live(k)' => Live(k)
           /\ ~(\E t \in Threads : Carries(t) /\ key[t] = h)
           /\ ~(\E w \in Validators : popped'[w] = h \/ Queued(w, h)')
<1> USE DEF Settled
<1>0. TypeOK /\ ClaimInv /\ h # NoKey
  BY NoKeyAssumption DEF IInv
<1>1. /\ popped'[v] = NoKey /\ verdict'[v] = "none"
      /\ \A w \in Validators : w # v => popped'[w] = popped[w] /\ verdict'[w] = verdict[w]
  BY <1>0 DEF TypeOK
<1>2. \A w \in Validators, x \in Keys : Queued(w, x)' <=> Queued(w, x)
  BY DEF Queued
<1>3. \A u \in Threads : Carries(u)' <=> Carries(u)
  BY DEF Carries
<1>4. \A u \in Threads : Carries(u) => key[u] \in Keys
  BY <1>0 DEF TypeOK
<1>5. \A w \in Validators : popped[w] \in Keys \cup {NoKey}
  BY <1>0 DEF TypeOK
<1>6. ApartInv'
  <2>1. CarriersApart'
    BY <1>0, <1>3 DEF ClaimInv, CarriersApart
  <2>2. PoppedApart'
    BY <1>0, <1>1 DEF ClaimInv, PoppedApart
  <2>3. CarriedAlone'
    BY <1>0, <1>1, <1>2, <1>3, <1>4, NoKeyAssumption DEF ClaimInv, CarriedAlone
  <2>4. PoppedAlone'
    BY <1>0, <1>1, <1>2, <1>5 DEF ClaimInv, PoppedAlone
  <2>5. QueuesApart'
    BY <1>0 DEF ClaimInv, QueuesApart
  <2> QED
    BY <2>1, <2>2, <2>3, <2>4, <2>5 DEF ApartInv
<1>7. ErrorIsSure'
  BY <1>0, <1>1 DEF ClaimInv, ErrorIsSure
<1>8. \A k \in Keys : Live(k)' => Live(k)
  BY <1>1, <1>2, <1>3, NoKeyAssumption DEF Live
<1>9. ~(\E t \in Threads : Carries(t) /\ key[t] = h)
  BY <1>0 DEF ClaimInv, CarriedAlone
<1>10. ~(\E w \in Validators : popped'[w] = h \/ Queued(w, h)')
  BY <1>0, <1>1, <1>2 DEF ClaimInv, PoppedAlone, PoppedApart
<1> QED
  BY <1>6, <1>7, <1>8, <1>9, <1>10

\* An update deletes no row.
LEMMA RecheckDoneClaims ==
    ASSUME IInv, TypeOK', NEW v \in Validators, RecheckDone(v)
    PROVE  ClaimInv'
<1> USE DEF RecheckDone, threadVars, smpcVars
<1>1. /\ ApartInv' /\ ErrorIsSure'
      /\ \A k \in Keys : Live(k)' => Live(k)
  BY PoppedHasOrder, SettledPlaces
<1>2. \A u \in Threads : Holds(u)' => (Holds(u) /\ ord'[u] = ord[u])
  BY DEF Holds
<1>3. \A u \in Threads : Carries(u)' => (Carries(u) /\ ord'[u] = ord[u] /\ key'[u] = key[u])
  BY DEF Carries
<1>4. \A o \in Orders : swapOrder'[o] = "absent" => swapOrder[o] = "absent"
  BY DEF IInv, TypeOK
<1> QED
  BY <1>1, <1>2, <1>3, <1>4, NoNewClaim

\* When RecheckIota condemns a request nobody holds its order any more: no
\* goroutine, and no live request but the condemned one.
LEMMA CondemnedIsFree ==
    ASSUME IInv, NEW v \in Validators, verdict[v] = "error"
    PROVE  /\ block[popped[v]] = "conflict"
           /\ \A t \in Threads : Holds(t) => ord[t] # reqOrder[popped[v]]
           /\ \A k \in Keys : (Live(k) /\ reqOrder[k] = reqOrder[popped[v]]) => k = popped[v]
BY PoppedHasOrder DEF IInv, ClaimInv, ErrorIsSure, HolderOrLive, OneLive

\* The row goes only when nobody holds the order.
LEMMA RecheckErrorClaims ==
    ASSUME IInv, TypeOK', NEW v \in Validators, RecheckError(v)
    PROVE  ClaimInv'
<1> USE DEF RecheckError, threadVars, dbVars, smpcVars
<1>. PICK h \in Keys : h = popped[v]
  BY PoppedHasOrder
<1>0. TypeOK /\ ClaimInv /\ reqOrder[h] \in Orders
  BY PoppedHasOrder DEF IInv
<1>1. /\ ApartInv' /\ ErrorIsSure'
      /\ \A k \in Keys : Live(k)' => Live(k)
      /\ ~(\E t \in Threads : Carries(t) /\ key[t] = h)
      /\ ~(\E w \in Validators : popped'[w] = h \/ Queued(w, h)')
  BY SettledPlaces
<1>2. \A u \in Threads : (Holds(u)' <=> Holds(u)) /\ (Carries(u)' <=> Carries(u))
  BY DEF Holds, Carries
<1>3. /\ block[h] = "conflict"
      /\ \A t \in Threads : Holds(t) => ord[t] # reqOrder[h]
      /\ \A k \in Keys : (Live(k) /\ reqOrder[k] = reqOrder[h]) => k = h
  BY CondemnedIsFree
<1>4. ~Live(h)'
  <2>1. ~(\E t \in Threads : Carries(t)' /\ key'[t] = h)
    BY <1>1, <1>2
  <2>2. block'[h] \notin {"sent", "solid", "included"}
    BY <1>3
  <2> QED
    BY <1>1, <2>1, <2>2 DEF Live
<1>5. \A o \in Orders : o # reqOrder[h] => swapOrder'[o] = swapOrder[o]
  BY <1>0 DEF TypeOK
<1>6. RowOfHolder'
  <2>1. \A t \in Threads : Holds(t) => ord[t] \in Orders
    BY <1>0 DEF TypeOK, Holds
  <2> QED
    BY <1>0, <1>2, <1>3, <1>5, <2>1 DEF ClaimInv, RowOfHolder
<1>7. RowOfLive'
  BY <1>0, <1>1, <1>3, <1>4, <1>5 DEF TypeOK, ClaimInv, RowOfLive
<1>8. OneHolder' /\ HolderOrLive' /\ OneLive' /\ CarrierOwns'
  BY <1>0, <1>1, <1>2 DEF ClaimInv, OneHolder, HolderOrLive, OneLive, CarrierOwns
<1> QED
  BY <1>1, <1>6, <1>7, <1>8 DEF ClaimInv, ApartInv

\* A crash gives up every claim of the process and touches no row.
LEMMA CrashClaims ==
    ASSUME IInv, TypeOK', NEW v \in Validators, Crash(v)
    PROVE  ClaimInv'
<1> USE DEF Crash, Settled, dbVars, smpcVars
<1>0. TypeOK /\ ClaimInv
  BY DEF IInv
<1>1. \A u \in Threads : Holds(u)' => (Holds(u) /\ ord'[u] = ord[u])
  BY DEF Holds
<1>2. \A u \in Threads : Carries(u)' => (Carries(u) /\ ord'[u] = ord[u] /\ key'[u] = key[u])
  BY DEF Carries
<1>3. /\ popped'[v] = NoKey /\ verdict'[v] = "none" /\ sentIotaTxes'[v] = << >>
      /\ \A w \in Validators : w # v => /\ popped'[w] = popped[w] /\ verdict'[w] = verdict[w]
                                         /\ sentIotaTxes'[w] = sentIotaTxes[w]
  BY <1>0 DEF TypeOK
<1>4. \A w \in Validators : \A x : Queued(w, x)' => (Queued(w, x) /\ w # v)
  BY <1>3 DEF Queued
<1>5. ApartInv'
  <2>1. CarriersApart' /\ PoppedApart'
    BY <1>0, <1>2, <1>3 DEF ClaimInv, CarriersApart, PoppedApart
  <2>2. \A u \in Threads : Carries(u)' => key'[u] # NoKey
    BY DEF TypeOK
  <2>3. CarriedAlone' /\ PoppedAlone'
    BY <1>0, <1>2, <1>3, <1>4, <2>2 DEF ClaimInv, CarriedAlone, PoppedAlone
  <2>4. QueuesApart'
    BY <1>0, <1>3 DEF ClaimInv, QueuesApart
  <2> QED
    BY <2>1, <2>3, <2>4 DEF ApartInv
<1>6. \A k \in Keys : Live(k)' => Live(k)
  BY <1>2, <1>3, <1>4, NoKeyAssumption DEF Live
<1>7. ErrorIsSure'
  BY <1>0, <1>3 DEF ClaimInv, ErrorIsSure
<1> QED
  BY <1>1, <1>2, <1>5, <1>6, <1>7, NoNewClaim
-----------------------------------------------------------------------------
(* The two steps that create a claim.                                      *)

\* The insert succeeds only where there was no row, hence no holder.
LEMMA StoreOkClaims ==
    ASSUME IInv, TypeOK', NEW t \in Threads, StoreOk(t)
    PROVE  ClaimInv'
<1> USE DEF StoreOk, Goto, queueVars, smpcVars
<1>0. TypeOK /\ ClaimInv /\ ord[t] \in Orders
  BY DEF IInv, TypeOK
<1>1. \A u \in Threads : Holds(u)' => (Holds(u) \/ u = t)
  BY <1>0 DEF TypeOK, Holds
<1>2. \A u \in Threads : Carries(u)' => (Carries(u) /\ key'[u] = key[u])
  BY <1>0 DEF TypeOK, Carries
<1>3. \A k \in Keys : Live(k)' => Live(k)
  BY <1>2 DEF Live, Queued
<1>4. /\ swapOrder'[ord[t]] # "absent"
      /\ \A o \in Orders : swapOrder'[o] = "absent" => swapOrder[o] = "absent"
  BY <1>0 DEF TypeOK
<1>5. /\ \A u \in Threads : Holds(u) => ord[u] # ord[t]
      /\ \A k \in Keys : Live(k) => reqOrder[k] # ord[t]
  BY <1>0 DEF ClaimInv, RowOfHolder, RowOfLive
<1>6. RowOfHolder'
  <2>1. \A u \in Threads : Holds(u) => ord[u] \in Orders
    BY <1>0 DEF TypeOK, Holds
  <2> QED
    BY <1>0, <1>1, <1>4, <2>1 DEF ClaimInv, RowOfHolder
<1>7. RowOfLive'
  BY <1>0, <1>3, <1>4 DEF TypeOK, ClaimInv, RowOfLive
<1>8. OneHolder' /\ HolderOrLive'
  BY <1>0, <1>1, <1>3, <1>5 DEF ClaimInv, OneHolder, HolderOrLive
<1>9. OneLive' /\ CarrierOwns'
  BY <1>0, <1>2, <1>3 DEF ClaimInv, OneLive, CarrierOwns
<1>10. ApartInv' /\ ErrorIsSure'
  BY <1>0, <1>2, PlacesKept DEF ClaimInv, ErrorIsSure
<1> QED
  BY <1>6, <1>7, <1>8, <1>9, <1>10 DEF ClaimInv, ApartInv

\* The claim passes from the goroutine to the request it makes.
LEMMA SignOkClaims ==
    ASSUME IInv, TypeOK', NEW t \in Threads, NEW k \in Keys, SignOk(t, k)
    PROVE  ClaimInv'
<1> USE DEF SignOk, Goto, queueVars, dbVars
<1>0. TypeOK /\ ClaimInv /\ ord[t] \in Orders /\ Holds(t) /\ reqOrder[k] = NoOrder
  BY DEF IInv, TypeOK, Holds
<1>1. ~Live(k)
  BY <1>0 DEF ClaimInv, RowOfLive
<1>2. \A u \in Threads : Holds(u)' => (Holds(u) /\ u # t)
  BY <1>0 DEF TypeOK, Holds
<1>3. \A u \in Threads : Carries(u)' => ((Carries(u) /\ key'[u] = key[u]) \/ (u = t /\ key'[u] = k))
  BY <1>0 DEF TypeOK, Carries
<1>4. \A x \in Keys : Live(x)' => (Live(x) \/ x = k)
  BY <1>3 DEF Live, Queued
<1>5. reqOrder'[k] = ord[t] /\ \A x \in Keys : x # k => reqOrder'[x] = reqOrder[x]
  BY <1>0 DEF TypeOK
<1>6. \A x \in Keys : Live(x) => x # k /\ reqOrder[x] # ord[t]
  BY <1>0, <1>1 DEF ClaimInv, HolderOrLive
<1>7. \A u \in Threads : Holds(u) /\ u # t => ord[u] # ord[t]
  BY <1>0 DEF ClaimInv, OneHolder
<1>8. RowOfHolder' /\ OneHolder'
  BY <1>0, <1>2 DEF ClaimInv, RowOfHolder, OneHolder
<1>9. RowOfLive'
  <2>1. swapOrder[ord[t]] # "absent" /\ ord[t] # NoOrder
    BY <1>0, NoOrderAssumption DEF ClaimInv, RowOfHolder
  <2> QED
    BY <1>0, <1>4, <1>5, <1>6, <2>1 DEF ClaimInv, RowOfLive
<1>10. HolderOrLive' /\ OneLive'
  BY <1>0, <1>2, <1>4, <1>5, <1>6, <1>7 DEF ClaimInv, HolderOrLive, OneLive
<1>11. \A u \in Threads : Carries(u) => (key[u] \in Keys /\ Live(key[u]) /\ key[u] # k)
  <2>1. \A u \in Threads : Carries(u) => key[u] \in Keys
    BY <1>0 DEF TypeOK
  <2>2. \A u \in Threads : Carries(u) => Live(key[u])
    BY DEF Live
  <2> QED
    BY <1>1, <2>1, <2>2
<1>12. CarrierOwns' /\ CarriersApart'
  BY <1>0, <1>3, <1>5, <1>11 DEF ClaimInv, CarrierOwns, CarriersApart
<1>13. \A v \in Validators : popped[v] # k /\ ~Queued(v, k)
  BY <1>1 DEF Live
<1>14. CarriedAlone'
  BY <1>0, <1>3, <1>13 DEF ClaimInv, CarriedAlone, Queued
<1>15. PoppedApart' /\ QueuesApart' /\ PoppedAlone' /\ ErrorIsSure'
  BY <1>0 DEF ClaimInv, PoppedApart, QueuesApart, PoppedAlone, ErrorIsSure, Queued
<1> QED
  BY <1>8, <1>9, <1>10, <1>12, <1>14, <1>15 DEF ClaimInv
-----------------------------------------------------------------------------
(* The theorems.                                                           *)

LEMMA IInvStep == IInv /\ [Next]_vars => IInv'
<1> SUFFICES ASSUME IInv, [Next]_vars PROVE IInv'
  OBVIOUS
<1>1. TypeOK'
  BY TypeStep
<1>2. CASE UNCHANGED vars
  BY <1>2 DEF vars, IInv, TypeOK, ClaimInv, RowOfHolder, RowOfLive, OneHolder, HolderOrLive,
              OneLive, CarrierOwns, ErrorIsSure, CarriersApart, PoppedApart, QueuesApart,
              CarriedAlone, PoppedAlone, Carries, Holds, Live, Queued
<1>3. CASE Next
  <2>1. ASSUME NEW t \in Threads, ThreadStep(t) PROVE ClaimInv'
    BY <1>1, <2>1, StoreOkClaims, StoreLostClaims, StoreFailClaims, CreateClaims, SignFailClaims,
       SignOkClaims, SubmitClaims, DetectTimeoutClaims, PushClaims DEF ThreadStep
  <2>2. ASSUME NEW v \in Validators, ProcessStep(v) PROVE ClaimInv'
    BY <1>1, <2>2, RecheckPopClaims, RecheckAgainClaims, RecheckDoneClaims, RecheckErrorClaims,
       ExpiredClaims, CrashClaims DEF ProcessStep, RecheckIota
  <2>3. ASSUME NEW k \in Keys, SmpcSettle(k) \/ LedgerStep(k) PROVE ClaimInv'
    BY <1>1, <2>3, SmpcSettleClaims, LedgerStepClaims
  <2> QED
    BY <1>1, <1>3, <2>1, <2>2, <2>3, DealClaims DEF Next, IInv
<1> QED
  BY <1>2, <1>3

\* The variables of SmpcUnwrap keep their types, and at any time at most one
\* goroutine or live sign request of all validators holds an order, whose row
\* exists (dealUnWrapOrder and RecheckIota, for any number of each).
THEOREM ClaimsAreExclusive == Spec => [](TypeOK /\ ClaimInv)
<1>1. IInv => TypeOK /\ ClaimInv
  BY DEF IInv
<1> QED
  BY <1>1, InitIInv, IInvStep, PTL DEF Spec

\* The types of the goroutines, the queue, the tables and the ledger.
THEOREM UnwrapIsWellTyped == Spec => []TypeOK
<1>1. IInv => TypeOK
  BY DEF IInv
<1> QED
  BY <1>1, InitIInv, IInvStep, PTL DEF Spec

\* The ledger never includes two payments for one burn transaction, however many
\* validators, goroutines, retries, lost replies and crashes there are.
THEOREM NeverPaidTwice == Spec => []PaidAtMostOnce
<1>1. IInv => PaidAtMostOnce
  BY DEF IInv, ClaimInv, OneLive, Live, PaidAtMostOnce
<1> QED
  BY <1>1, InitIInv, IInvStep, PTL DEF Spec

\* A paid order keeps its row in swap_order, which refuses every further attempt.
THEOREM PaidStaysOnRecord == Spec => []PaidIsOnRecord
<1>1. IInv => PaidIsOnRecord
  BY DEF IInv, ClaimInv, RowOfLive, Live, PaidIsOnRecord
<1> QED
  BY <1>1, InitIInv, IInvStep, PTL DEF Spec

\* The insert into swap_order excludes all other goroutines of all validators
\* from the order until its goroutine returns.
THEOREM InsertIsALock == Spec => []OneWorker
<1>1. ASSUME IInv PROVE OneWorker
  <2>1. \A t \in Threads : Carries(t) => (key[t] \in Keys /\ Live(key[t]) /\ reqOrder[key[t]] = ord[t])
    BY <1>1 DEF IInv, TypeOK, ClaimInv, CarrierOwns, Live
  <2>2. \A t, u \in Threads : (Carries(t) /\ Carries(u) /\ ord[t] = ord[u]) => t = u
    BY <1>1, <2>1 DEF IInv, ClaimInv, OneLive, CarriersApart
  <2>3. \A t, u \in Threads : (Holds(t) /\ Carries(u)) => ord[t] # ord[u]
    BY <1>1, <2>1 DEF IInv, ClaimInv, HolderOrLive
  <2>4. \A t \in Threads : Works(t) => (Holds(t) \/ Carries(t))
    BY DEF Works, Holds, Carries
  <2> QED
    BY <1>1, <2>2, <2>3, <2>4 DEF IInv, ClaimInv, OneHolder, OneWorker
<1> QED
  BY <1>1, InitIInv, IInvStep, PTL DEF Spec

\* RecheckIota deletes a row only when the failure is sure: no payment for the
\* order can be included any more and nobody is at work on one.
THEOREM DeletedRowsAreSureErrors == Spec => SureError
<1>1. ASSUME IInv, [Next]_vars PROVE [SureErrorStep]_vars
  <2>1. SUFFICES ASSUME NEW o \in Orders, swapOrder[o] # "absent", swapOrder'[o] = "absent"
                 PROVE  /\ \A k \in Keys : reqOrder[k] = o => block[k] \in {"none", "conflict"}
                        /\ \A t \in Threads : Works(t) => ord[t] # o
    BY DEF SureErrorStep
  <2>2. PICK v \in Validators : RecheckError(v) /\ o = reqOrder[popped[v]]
    <3>1. TypeOK
      BY <1>1 DEF IInv
    <3>2. PICK v \in Validators : RecheckError(v)
      BY <1>1, <2>1, <3>1 DEF TypeOK, Next, ThreadStep, ProcessStep, RecheckIota, Deal, StoreOk,
         StoreLost, StoreFail, Create, SignFail, SignOk, Submit, DetectTimeout, Push, RecheckPop,
         RecheckAgain, RecheckDone, Expired, Crash, SmpcSettle, LedgerStep, dbVars, vars
    <3>3. o = reqOrder[popped[v]]
      BY <2>1, <3>1, <3>2 DEF TypeOK, RecheckError, dbVars
    <3> QED
      BY <3>2, <3>3
  <2>3. /\ block[popped[v]] = "conflict" /\ popped[v] \in Keys
        /\ \A t \in Threads : Holds(t) => ord[t] # o
        /\ \A k \in Keys : (Live(k) /\ reqOrder[k] = o) => k = popped[v]
    BY <1>1, <2>2, CondemnedIsFree, PoppedHasOrder DEF RecheckError
  <2>4. \A k \in Keys : reqOrder[k] = o => block[k] \in {"none", "conflict"}
    BY <1>1, <2>3 DEF IInv, TypeOK, BlockStates, Live
  <2>5. \A t \in Threads : Carries(t) => ord[t] # o
    BY <1>1, <2>3 DEF IInv, TypeOK, ClaimInv, CarrierOwns, CarriedAlone, Live
  <2> QED
    BY <2>3, <2>4, <2>5 DEF Works, Holds, Carries
<1> QED
  BY <1>1, InitIInv, IInvStep, PTL DEF Spec, SureError

\* An order with a sign request is in swap_order or in error_order for good.
THEOREM RequestsLeaveATrace == Spec => []RequestLeavesTrace
<1>1. Init => RequestLeavesTrace
  BY DEF Init, RequestLeavesTrace
<1>2. ASSUME IInv, RequestLeavesTrace, [Next]_vars PROVE RequestLeavesTrace'
  <2> USE DEF RequestLeavesTrace, dbVars, smpcVars
  <2>0. TypeOK
    BY <1>2 DEF IInv
  <2>1. ASSUME NEW v \in Validators, RecheckError(v) PROVE RequestLeavesTrace'
    <3>1. \A o \in Orders : \/ swapOrder'[o] = swapOrder[o]
                            \/ o \in errorOrder'
      BY <2>0, <2>1 DEF TypeOK, RecheckError
    <3>2. errorOrder \subseteq errorOrder' /\ reqOrder' = reqOrder /\ rsv' = rsv
      BY <2>1 DEF RecheckError
    <3> QED
      BY <1>2, <2>0, <3>1, <3>2 DEF TypeOK
  <2>2. ASSUME NEW t \in Threads, NEW k \in Keys, SignOk(t, k) PROVE RequestLeavesTrace'
    <3>1. swapOrder[ord[t]] # "absent"
      BY <1>2, <2>2 DEF IInv, ClaimInv, RowOfHolder, Holds, SignOk
    <3> QED
      BY <1>2, <2>0, <2>2, <3>1 DEF TypeOK, SignOk
  <2>3. CASE /\ UNCHANGED <<errorOrder, reqOrder>>
             /\ \A o \in Orders : swapOrder'[o] = "absent" => swapOrder[o] = "absent"
             /\ \A k \in Keys : rsv'[k] # "none" => rsv[k] # "none"
    BY <1>2, <2>0, <2>3 DEF TypeOK
  <2>4. ASSUME NEW t \in Threads, NEW o \in Orders, Deal(t, o) PROVE RequestLeavesTrace'
    BY <2>3, <2>4 DEF Deal
  <2>5. ASSUME NEW t \in Threads, ThreadStep(t) PROVE RequestLeavesTrace'
    <3>1. CASE StoreOk(t) \/ StoreLost(t)
      BY <2>0, <2>3, <3>1 DEF TypeOK, StoreOk, StoreLost
    <3>2. CASE StoreFail(t) \/ Create(t) \/ SignFail(t) \/ Submit(t) \/ DetectTimeout(t) \/ Push(t)
      BY <2>3, <3>2 DEF StoreFail, Create, SignFail, Submit, DetectTimeout, Push
    <3> QED
      BY <2>2, <2>5, <3>1, <3>2 DEF ThreadStep
  <2>6. ASSUME NEW v \in Validators, ProcessStep(v) PROVE RequestLeavesTrace'
    <3>1. CASE RecheckDone(v)
      BY <2>0, <2>3, <3>1 DEF TypeOK, RecheckDone
    <3>2. CASE RecheckPop(v) \/ RecheckAgain(v) \/ Expired(v) \/ Crash(v)
      BY <2>3, <3>2 DEF RecheckPop, RecheckAgain, Expired, Crash
    <3> QED
      BY <2>1, <2>6, <3>1, <3>2 DEF ProcessStep, RecheckIota
  <2>7. ASSUME NEW k \in Keys, SmpcSettle(k) \/ LedgerStep(k) PROVE RequestLeavesTrace'
    BY <2>0, <2>3, <2>7 DEF TypeOK, SmpcSettle, LedgerStep
  <2>8. CASE UNCHANGED vars
    BY <2>3, <2>8 DEF vars
  <2> QED
    BY <1>2, <2>4, <2>5, <2>6, <2>7, <2>8 DEF Next
<1> QED
  BY <1>1, <1>2, InitIInv, IInvStep, PTL DEF Spec
-----------------------------------------------------------------------------
(* The refinement.                                                         *)

\* A request that is still polled, or not made, has no block: a block once in
\* the ledger is never submitted again.
Unsent == /\ \A t \in Threads : pc[t] = "detect" => block[key[t]] = "none"
          /\ \A k \in Keys : rsv[k] = "none" => block[k] = "none"

LEMMA UnsentStep == IInv /\ Unsent /\ [Next]_vars => Unsent'
<1> SUFFICES ASSUME IInv, Unsent, [Next]_vars PROVE Unsent'
  OBVIOUS
<1> USE DEF Goto, Return, threadVars, queueVars, dbVars, smpcVars
<1>0. TypeOK /\ CarriersApart
  BY DEF IInv, ClaimInv
<1>1. ASSUME NEW t \in Threads, NEW k \in Keys, SignOk(t, k) PROVE Unsent'
  BY <1>0, <1>1 DEF TypeOK, SignOk, Unsent
<1>2. ASSUME NEW t \in Threads, Submit(t) PROVE Unsent'
  <2>1. \A u \in Threads : pc'[u] = "detect" => (u # t /\ pc[u] = "detect" /\ key'[u] = key[u])
    BY <1>0, <1>2 DEF TypeOK, Submit
  <2>2. \A u \in Threads : (u # t /\ pc[u] = "detect") => (key[u] # key[t] /\ key[u] \in Keys)
    BY <1>0, <1>2 DEF TypeOK, CarriersApart, Carries, Submit
  <2>3. /\ \A k \in Keys : k # key[t] => block'[k] = block[k]
        /\ rsv' = rsv /\ rsv[key[t]] # "none"
    BY <1>0, <1>2 DEF TypeOK, Submit
  <2> QED
    BY <2>1, <2>2, <2>3 DEF Unsent
<1>3. ASSUME NEW k \in Keys, LedgerStep(k) PROVE Unsent'
  <2>1. /\ block[k] # "none"
        /\ \A x \in Keys : x # k => block'[x] = block[x]
    BY <1>0, <1>3 DEF TypeOK, LedgerStep
  <2> QED
    BY <1>0, <1>3, <2>1 DEF TypeOK, Carries, LedgerStep, Unsent
<1>4. ASSUME UNCHANGED block,
             \A t \in Threads : pc'[t] = "detect" => (pc[t] = "detect" /\ key'[t] = key[t]),
             \A k \in Keys : rsv'[k] = "none" => rsv[k] = "none"
      PROVE  Unsent'
  BY <1>4 DEF Unsent
<1>5. ASSUME NEW t \in Threads, NEW o \in Orders, Deal(t, o) PROVE Unsent'
  BY <1>0, <1>4, <1>5 DEF TypeOK, Deal
<1>6. ASSUME NEW t \in Threads, StoreOk(t) \/ StoreLost(t) \/ StoreFail(t) PROVE Unsent'
  BY <1>0, <1>4, <1>6 DEF TypeOK, StoreOk, StoreLost, StoreFail
<1>7. ASSUME NEW t \in Threads, Create(t) \/ SignFail(t) PROVE Unsent'
  BY <1>0, <1>4, <1>7 DEF TypeOK, Create, SignFail
<1>8. ASSUME NEW t \in Threads, DetectTimeout(t) \/ Push(t) PROVE Unsent'
  BY <1>0, <1>4, <1>8 DEF TypeOK, DetectTimeout, Push
<1>9. ASSUME NEW v \in Validators, RecheckIota(v) \/ Expired(v) PROVE Unsent'
  BY <1>4, <1>9 DEF RecheckIota, RecheckPop, RecheckAgain, RecheckDone, RecheckError, Expired
<1>10. ASSUME NEW v \in Validators, Crash(v) PROVE Unsent'
  BY <1>4, <1>10 DEF Crash
<1>11. ASSUME NEW k \in Keys, SmpcSettle(k) PROVE Unsent'
  BY <1>0, <1>4, <1>11 DEF TypeOK, SmpcSettle
<1>12. CASE UNCHANGED vars
  BY <1>4, <1>12 DEF vars
<1> QED
  BY <1>1, <1>2, <1>3, <1>5, <1>6, <1>7, <1>8, <1>9, <1>10, <1>11, <1>12
     DEF Next, ThreadStep, ProcessStep

statusBar == [o \in Orders |-> StatusOf(o)]
Paid(o) == \E k \in Keys : reqOrder[k] = o /\ block[k] = "included"

\* A step after which every order is as paid, claimed and failed as before is a
\* stutter of the abstract specification.
LEMMA SameStatus ==
    ASSUME \A o \in Orders : Paid(o)' <=> Paid(o),
           \A o \in Orders : swapOrder'[o] = "absent" <=> swapOrder[o] = "absent",
           errorOrder' = errorOrder
    PROVE  statusBar' = statusBar
<1>1. ASSUME NEW o \in Orders PROVE StatusOf(o)' = StatusOf(o)
  BY DEF StatusOf, Paid
<1> QED
  BY <1>1 DEF statusBar

\* A step that changes the status of one order is a step of the abstract
\* specification if it claims, pays or fails it.
LEMMA OneChange ==
    ASSUME NEW o \in Orders,
           \A p \in Orders : p # o => StatusOf(p)' = StatusOf(p),
           \/ StatusOf(o) \in {"open", "failed"} /\ StatusOf(o)' = "claimed"
           \/ StatusOf(o) = "claimed" /\ StatusOf(o)' \in {"paid", "failed"}
    PROVE  Once!Next
<1>1. statusBar[o] = StatusOf(o) /\ statusBar' = [statusBar EXCEPT ![o] = StatusOf(o)']
  BY DEF statusBar
<1> QED
  BY <1>1 DEF Once!Next, Once!Claim, Once!Pay, Once!Fail, statusBar

LEMMA RefineStep == IInv /\ Unsent /\ [Next]_vars => Once!Next \/ statusBar' = statusBar
<1> SUFFICES ASSUME IInv, Unsent, [Next]_vars PROVE Once!Next \/ statusBar' = statusBar
  OBVIOUS
<1> USE DEF Goto, Return, threadVars, queueVars, dbVars, smpcVars
<1>0. TypeOK /\ ClaimInv
  BY DEF IInv
<1>1. ASSUME NEW t \in Threads, StoreOk(t) \/ StoreLost(t) PROVE Once!Next
  <2>1. /\ ord[t] \in Orders /\ swapOrder[ord[t]] = "absent" /\ swapOrder'[ord[t]] = "open"
        /\ \A p \in Orders : p # ord[t] => swapOrder'[p] = swapOrder[p]
        /\ UNCHANGED <<reqOrder, block, errorOrder>>
    BY <1>0, <1>1 DEF TypeOK, StoreOk, StoreLost
  <2>. PICK o \in Orders : o = ord[t]
    BY <2>1
  <2>2. ~Paid(o)
    BY <1>0, <2>1 DEF ClaimInv, RowOfLive, Live, Paid
  <2>3. StatusOf(o) \in {"open", "failed"} /\ StatusOf(o)' = "claimed"
    BY <2>1, <2>2 DEF StatusOf, Paid
  <2>4. \A p \in Orders : p # o => StatusOf(p)' = StatusOf(p)
    BY <2>1 DEF StatusOf
  <2> QED
    BY <2>3, <2>4, OneChange
<1>2. ASSUME NEW v \in Validators, RecheckError(v) PROVE Once!Next \/ statusBar' = statusBar
  <2>1. CASE UNCHANGED dbVars
    BY <1>2, <2>1, SameStatus DEF RecheckError, Paid
  <2>2. CASE /\ swapOrder' = [swapOrder EXCEPT ![reqOrder[popped[v]]] = "absent"]
             /\ errorOrder' = errorOrder \cup {reqOrder[popped[v]]}
    <3>. PICK o \in Orders : o = reqOrder[popped[v]]
      BY <1>2, PoppedHasOrder DEF RecheckError
    <3>1. /\ block[popped[v]] = "conflict"
          /\ \A k \in Keys : (Live(k) /\ reqOrder[k] = o) => k = popped[v]
      BY <1>2, CondemnedIsFree DEF RecheckError
    <3>2. ~Paid(o)
      BY <3>1 DEF Live, Paid
    <3>3. swapOrder[o] # "absent"
      BY <1>0, <1>2, PoppedHasOrder DEF ClaimInv, RowOfLive, RecheckError
    <3>4. UNCHANGED <<reqOrder, block>>
      BY <1>2 DEF RecheckError
    <3>5. /\ swapOrder'[o] = "absent" /\ o \in errorOrder'
          /\ \A p \in Orders : p # o => /\ swapOrder'[p] = swapOrder[p]
                                        /\ p \in errorOrder' <=> p \in errorOrder
      BY <1>0, <2>2 DEF TypeOK
    <3>6. StatusOf(o) = "claimed" /\ StatusOf(o)' = "failed"
      BY <3>2, <3>3, <3>4, <3>5 DEF StatusOf, Paid
    <3>7. \A p \in Orders : p # o => StatusOf(p)' = StatusOf(p)
      BY <3>4, <3>5 DEF StatusOf
    <3> QED
      BY <3>6, <3>7, OneChange
  <2> QED
    BY <1>2, <2>1, <2>2 DEF RecheckError
<1>3. ASSUME NEW k \in Keys, LedgerStep(k) PROVE Once!Next \/ statusBar' = statusBar
  <2>0. /\ UNCHANGED <<reqOrder, swapOrder, errorOrder>>
        /\ \A x \in Keys : x # k => block'[x] = block[x]
        /\ block[k] \in {"sent", "solid"} /\ block'[k] \in {"solid", "included", "conflict"}
    BY <1>0, <1>3 DEF TypeOK, LedgerStep
  <2>1. CASE block'[k] # "included"
    <3>1. \A o \in Orders : Paid(o)' <=> Paid(o)
      BY <2>0, <2>1 DEF Paid
    <3> QED
      BY <2>0, <3>1, SameStatus
  <2>2. CASE block'[k] = "included"
    <3>1. Live(k) /\ reqOrder[k] \in Orders /\ swapOrder[reqOrder[k]] # "absent"
      BY <1>0, <2>0 DEF TypeOK, ClaimInv, RowOfLive, Live
    <3>. PICK o \in Orders : o = reqOrder[k]
      BY <3>1
    <3>2. ~Paid(o)
      BY <1>0, <2>0, <3>1 DEF ClaimInv, OneLive, Live, Paid
    <3>3. StatusOf(o) = "claimed" /\ StatusOf(o)' = "paid"
      BY <2>0, <2>2, <3>1, <3>2 DEF StatusOf, Paid
    <3>4. \A p \in Orders : p # o => (Paid(p)' <=> Paid(p))
      BY <2>0 DEF Paid
    <3>5. \A p \in Orders : p # o => StatusOf(p)' = StatusOf(p)
      BY <2>0, <3>4 DEF StatusOf, Paid
    <3> QED
      BY <3>3, <3>5, OneChange
  <2> QED
    BY <2>1, <2>2
<1>4. ASSUME NEW t \in Threads, NEW k \in Keys, SignOk(t, k) PROVE statusBar' = statusBar
  <2>1. /\ UNCHANGED <<swapOrder, errorOrder, block>> /\ block[k] = "none"
        /\ \A x \in Keys : x # k => reqOrder'[x] = reqOrder[x]
    BY <1>0, <1>4 DEF TypeOK, SignOk, Unsent
  <2> QED
    BY <2>1, SameStatus DEF Paid
<1>5. ASSUME NEW t \in Threads, Submit(t) PROVE statusBar' = statusBar
  <2>1. /\ UNCHANGED <<swapOrder, errorOrder, reqOrder>>
        /\ block[key[t]] = "none" /\ block'[key[t]] # "included"
        /\ \A x \in Keys : x # key[t] => block'[x] = block[x]
    BY <1>0, <1>5 DEF TypeOK, Carries, Submit, Unsent
  <2> QED
    BY <2>1, SameStatus DEF Paid
<1>6. ASSUME NEW v \in Validators, RecheckDone(v) PROVE statusBar' = statusBar
  <2>1. \A o \in Orders : swapOrder'[o] = "absent" <=> swapOrder[o] = "absent"
    BY <1>0, <1>6 DEF TypeOK, RecheckDone
  <2> QED
    BY <1>6, <2>1, SameStatus DEF RecheckDone, Paid
<1>7. ASSUME UNCHANGED <<swapOrder, errorOrder, reqOrder, block>> PROVE statusBar' = statusBar
  BY <1>7, SameStatus DEF Paid
<1>8. ASSUME NEW t \in Threads, NEW o \in Orders, Deal(t, o) PROVE statusBar' = statusBar
  BY <1>7, <1>8 DEF Deal
<1>9. ASSUME NEW t \in Threads,
             StoreFail(t) \/ Create(t) \/ SignFail(t) \/ DetectTimeout(t) \/ Push(t)
      PROVE  statusBar' = statusBar
  BY <1>7, <1>9 DEF StoreFail, Create, SignFail, DetectTimeout, Push
<1>10. ASSUME NEW v \in Validators, RecheckPop(v) \/ RecheckAgain(v) \/ Expired(v) \/ Crash(v)
       PROVE  statusBar' = statusBar
  BY <1>7, <1>10 DEF RecheckPop, RecheckAgain, Expired, Crash
<1>11. ASSUME NEW k \in Keys, SmpcSettle(k) PROVE statusBar' = statusBar
  BY <1>7, <1>11 DEF SmpcSettle
<1>12. CASE UNCHANGED vars
  BY <1>7, <1>12 DEF vars
<1> QED
  BY <1>1, <1>2, <1>3, <1>4, <1>5, <1>6, <1>8, <1>9, <1>10, <1>11, <1>12
     DEF Next, ThreadStep, ProcessStep, RecheckIota

\* The unwrap path, with all its processes, retries, lost replies and crashes,
\* implements the abstract specification UnwrapOnce.
THEOREM UnwrapIsOnce == Spec => ImplementsOnce
<1>1. Init => Once!Init /\ Unsent
  BY NoOrderAssumption DEF Init, Once!Init, Unsent, StatusOf
<1>2. Once!Spec <=> (Once!Init /\ [][Once!Next]_statusBar)
  BY DEF Once!Spec, statusBar
<1>3. IInv /\ Unsent /\ [Next]_vars => [Once!Next]_statusBar
  BY RefineStep
<1> QED
  BY <1>1, <1>2, <1>3, InitIInv, IInvStep, UnsentStep, PTL DEF Spec, ImplementsOnce
=============================================================================
