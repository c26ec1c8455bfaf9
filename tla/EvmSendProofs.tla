--------------------------- MODULE EvmSendProofs ---------------------------
(***************************************************************************)
(* Pop and UpdateTop of recheckEvmTx act on the transaction that Top read, *)
(* for any number of goroutines that push in between; a vote that is still *)
(* pending leaves the queue only for a reason the code has; and the votes  *)
(* on an order are bounded by what the process forgot.                     *)
(***************************************************************************)
EXTENDS EvmSend, FiniteSetTheorems, TLAPS

QEntries == [tx : Txs, age : 0..MaxAge]

\* The types the argument needs: of the queue, of what is pushed to it and of
\* what recheckEvmTx keeps.
QueueTypes == /\ queue \in Seq(QEntries)
              /\ pc \in [Threads -> {"idle", "check", "nonce", "send", "push", "mark"}]
              /\ sentTx \in [Threads -> Txs \cup {NoTx}]
              /\ nonce \in [Threads -> Nonces \cup {0}]
              /\ ord \in [Threads -> Orders \cup {NoOrder}]
              /\ exam \in Txs \cup {NoTx} /\ newTx \in Txs \cup {NoTx}

\* Which locals are set where.
LocalsSet == /\ \A t \in Threads : /\ pc[t] = "push" => sentTx[t] \in Txs
                                   /\ pc[t] = "send" => nonce[t] \in Nonces
                                   /\ pc[t] # "idle" => ord[t] \in Orders
             /\ exam = NoTx <=> verdict = "none"
             /\ verdict = "update" => newTx \in Txs

QueueInv == QueueTypes /\ LocalsSet /\ ExaminedIsHead

\* The queue is empty and nobody is at work.
LEMMA InitQueueInv == Init => QueueInv
  BY NoneAssumption DEF Init, QueueInv, QueueTypes, LocalsSet, ExaminedIsHead, Nonces

\* A new entry of the queue.
LEMMA EntryType == ASSUME NEW tx \in Txs PROVE Entry(tx) \in QEntries
  BY BoundsAssumption DEF Entry, QEntries, MaxAge

\* dealWrapOrder and dealUnWrapOrder keep the head of the queue where it is.
LEMMA ThreadKeepsHead ==
  ASSUME QueueInv, NEW t \in Threads, ThreadStep(t)
  PROVE  QueueInv'
<1> USE DEF QueueInv
<1>1. CASE CheckRecord(t)
  <2>1. CASE Check(t, ord[t]) /\ UNCHANGED <<nonce, sentTx>>
    BY <1>1, <2>1 DEF CheckRecord, Check, checkVars, chainVars, QueueTypes, LocalsSet, ExaminedIsHead
  <2>2. CASE ord[t] \in dealedOrders /\ Return(t) /\ UNCHANGED dealedOrders
    BY <1>1, <2>2 DEF CheckRecord, Return, checkVars, chainVars, QueueTypes, LocalsSet, ExaminedIsHead
  <2> QED BY <1>1, <2>1, <2>2 DEF CheckRecord
<1>2. CASE Nonce(t)
  <2>1. CASE Return(t)
    BY <1>2, <2>1 DEF Nonce, Return, checkVars, chainVars, QueueTypes, LocalsSet, ExaminedIsHead
  <2>2. ASSUME NEW n \in Nonces, nonce' = [nonce EXCEPT ![t] = n],
               pc' = [pc EXCEPT ![t] = "send"], UNCHANGED <<ord, sentTx>>
        PROVE  QueueInv'
    BY <1>2, <2>2 DEF Nonce, checkVars, chainVars, QueueTypes, LocalsSet, ExaminedIsHead
  <2> QED BY <1>2, <2>1, <2>2 DEF Nonce
<1>3. CASE Send(t)
  <2>1. CASE Return(t)
    BY <1>3, <2>1 DEF Send, Return, checkVars, QueueTypes, LocalsSet, ExaminedIsHead
  <2>2. ASSUME NEW price \in 0..MaxPrice,
               pc' = [pc EXCEPT ![t] = "push"],
               sentTx' = [sentTx EXCEPT ![t] = [nonce |-> nonce[t], ord |-> ord[t], price |-> price]],
               UNCHANGED <<ord, nonce>>
        PROVE  QueueInv'
    <3>1. [nonce |-> nonce[t], ord |-> ord[t], price |-> price] \in Txs
      BY <1>3, BoundsAssumption DEF Send, LocalsSet, Txs
    <3> QED BY <1>3, <2>2, <3>1 DEF Send, checkVars, QueueTypes, LocalsSet, ExaminedIsHead
  <2> QED BY <1>3, <2>1, <2>2 DEF Send
<1>4. CASE Push(t)
  <2>1. Entry(sentTx[t]) \in QEntries
    BY <1>4, EntryType DEF Push, LocalsSet
  <2>2. queue' \in Seq(QEntries)
    BY <1>4, <2>1 DEF Push, QueueTypes
  <2>3. queue # << >> => queue' # << >> /\ Head(queue') = Head(queue)
    BY <1>4, <2>1 DEF Push, QueueTypes
  <2> QED BY <1>4, <2>2, <2>3 DEF Push, checkVars, chainVars, QueueTypes, LocalsSet, ExaminedIsHead
<1>5. CASE Mark(t)
  BY <1>5 DEF Mark, Return, checkVars, chainVars, QueueTypes, LocalsSet, ExaminedIsHead
<1>6. ASSUME NEW o \in Orders, Deal(t, o)
      PROVE  QueueInv'
  BY <1>6 DEF Deal, Check, checkVars, chainVars, QueueTypes, LocalsSet, ExaminedIsHead
<1>7. ASSUME NEW o \in Orders, DealRecord(t, o)
      PROVE  QueueInv'
  BY <1>7 DEF DealRecord, checkVars, chainVars, QueueTypes, LocalsSet, ExaminedIsHead
<1> QED BY <1>1, <1>2, <1>3, <1>4, <1>5, <1>6, <1>7 DEF ThreadStep

\* recheckEvmTx itself: it reads the head, and lets go of it when it changes the
\* queue.
LEMMA RecheckKeepsHead ==
  ASSUME QueueInv, recheckEvmTx
  PROVE  QueueInv'
<1> USE DEF QueueInv, Decide
<1>1. CASE Top
  <2>1. Head(queue) \in QEntries
    BY <1>1 DEF Top, QueueTypes
  <2>2. Head(queue).tx \in Txs
    BY <2>1 DEF QEntries
  <2> QED BY <1>1, <2>2, NoneAssumption
          DEF Top, threadVars, chainVars, QueueTypes, LocalsSet, ExaminedIsHead
<1>2. CASE Ask
  BY <1>2 DEF Ask, threadVars, chainVars, QueueTypes, LocalsSet, ExaminedIsHead
<1>3. CASE SpeedUp
  <2> DEFINE Replacement(price, n) == [exam EXCEPT !.price = price, !.nonce = n]
  <2>1. PICK price \in 1..(MaxPrice + 1), n \in Nonces :
            \/ verdict' = "wait" /\ UNCHANGED newTx
            \/ verdict' = "resent" /\ UNCHANGED newTx
            \/ verdict' = "update" /\ newTx' = Replacement(price, n)
            \/ verdict' = "refused" /\ UNCHANGED newTx
    BY <1>3, Zenon DEF SpeedUp
  <2>2. exam \in Txs
    BY <1>3 DEF SpeedUp, QueueTypes, LocalsSet
  <2>3. Replacement(price, n) \in Txs
    <3>1. price \in 0..(MaxPrice + 1)
      BY BoundsAssumption
    <3>2. [exam EXCEPT !.price = price] \in Txs
      BY <2>2, <3>1 DEF Txs
    <3>3. \A tx \in Txs : [tx EXCEPT !.nonce = n] \in Txs
      BY DEF Txs
    <3> QED BY <3>2, <3>3, Zenon
  <2>4. UNCHANGED <<pc, ord, nonce, sentTx, queue, exam>>
    BY <1>3 DEF SpeedUp, threadVars
  <2> HIDE DEF Replacement
  <2>5. newTx' \in Txs \cup {NoTx} /\ (verdict' = "update" => newTx' \in Txs) /\ verdict' # "none"
    BY <2>1, <2>3 DEF QueueTypes
  <2> QED BY <1>3, <2>2, <2>4, <2>5, NoneAssumption DEF SpeedUp, QueueTypes, LocalsSet, ExaminedIsHead
<1>4. CASE Pop
  BY <1>4 DEF Pop, Examined, threadVars, chainVars, QueueTypes, LocalsSet, ExaminedIsHead
<1>5. CASE UpdateTop
  <2>1. Entry(newTx) \in QEntries
    BY <1>5, EntryType DEF UpdateTop, LocalsSet
  <2>2. queue' \in Seq(QEntries)
    BY <1>5, <2>1 DEF UpdateTop, QueueTypes
  <2> QED BY <1>5, <2>2
          DEF UpdateTop, Examined, threadVars, chainVars, QueueTypes, LocalsSet, ExaminedIsHead
<1>6. CASE TryLater
  BY <1>6 DEF TryLater, Examined, threadVars, chainVars, QueueTypes, LocalsSet, ExaminedIsHead
<1> QED BY <1>1, <1>2, <1>3, <1>4, <1>5, <1>6 DEF recheckEvmTx

\* Time changes the ages of the entries and nothing else.
LEMMA TickKeepsHead ==
  ASSUME QueueInv, Tick
  PROVE  QueueInv'
<1> USE DEF QueueInv
<1> DEFINE Older(e) == [e EXCEPT !.age = IF @ < MaxAge THEN @ + 1 ELSE @]
<1>1. queue' = [i \in 1..Len(queue) |-> Older(queue[i])]
  BY DEF Tick
<1>2. ASSUME NEW e \in QEntries
      PROVE  Older(e) \in QEntries /\ Older(e).tx = e.tx
  BY BoundsAssumption DEF QEntries, MaxAge
<1>3. \A i \in 1..Len(queue) : queue[i] \in QEntries
  BY DEF QueueTypes
<1> HIDE DEF Older
<1>4. Len(queue) \in Nat
  BY DEF QueueTypes
<1>5. queue' \in Seq(QEntries) /\ Len(queue') = Len(queue)
  BY <1>1, <1>2, <1>3, <1>4
<1>6. queue # << >> => 1 \in 1..Len(queue) /\ Head(queue) = queue[1]
  BY DEF QueueTypes
<1>7. queue # << >> => queue' # << >> /\ Head(queue') = queue'[1]
  BY <1>4, <1>5, <1>6
<1>8. queue # << >> => Head(queue').tx = Head(queue).tx
  BY <1>1, <1>2, <1>3, <1>6, <1>7
<1>9. UNCHANGED <<pc, ord, nonce, sentTx, exam, verdict, newTx>>
  BY DEF Tick, threadVars, checkVars
<1> QED BY <1>5, <1>7, <1>8, <1>9 DEF QueueTypes, LocalsSet, ExaminedIsHead

\* Every step keeps the invariant of the queue.
LEMMA QueueInvStep == QueueInv /\ [Next]_vars => QueueInv'
<1> SUFFICES ASSUME QueueInv, [Next]_vars
             PROVE  QueueInv'
  OBVIOUS
<1>1. ASSUME NEW t \in Threads, ThreadStep(t) PROVE QueueInv'
  BY <1>1, ThreadKeepsHead
<1>2. CASE recheckEvmTx
  BY <1>2, RecheckKeepsHead
<1>3. CASE Tick
  BY <1>3, TickKeepsHead
<1>4. CASE Crash
  BY <1>4, NoneAssumption
     DEF Crash, Examined, QueueInv, QueueTypes, LocalsSet, ExaminedIsHead
<1>5. CASE UNCHANGED <<pc, ord, nonce, sentTx, queue, exam, verdict, newTx>>
  BY <1>5 DEF QueueInv, QueueTypes, LocalsSet, ExaminedIsHead
<1> QED BY <1>1, <1>2, <1>3, <1>4, <1>5
        DEF Next, Expired, ExpiredSent, Mine, Evict, vars, threadVars, checkVars

\* recheckEvmTx (server/recheck.go): what Pop removes and UpdateTop overwrites is
\* the transaction that was examined.
THEOREM ActsOnWhatItExamined == Spec => []ExaminedIsHead
<1>1. Init => QueueInv
  BY InitQueueInv
<1>2. QueueInv /\ [Next]_vars => QueueInv'
  BY QueueInvStep
<1>3. QueueInv => ExaminedIsHead
  BY DEF QueueInv
<1> QED BY <1>1, <1>2, <1>3, PTL DEF Spec
-----------------------------------------------------------------------------
(* Why a vote leaves the queue.                                            *)

\* What recheckEvmTx has found stays true until it acts on it: an entry does not
\* get younger, and what is mined stays mined.
VerdictInv == /\ verdict = "old" => Head(queue).age > 3 * PendingTime
              /\ verdict = "done" => exam.nonce < mined
              /\ mined \in Nat /\ forgets \in Nat

\* A push leaves the entries that are there.
LEMMA PushKeepsEntries ==
  ASSUME QueueInv, NEW t \in Threads, Push(t)
  PROVE  /\ Entries \subseteq Entries'
         /\ queue # << >> => Head(queue') = Head(queue)
<1>1. queue \in Seq(QEntries) /\ Entry(sentTx[t]) \in QEntries
  BY EntryType DEF Push, QueueInv, LocalsSet, QueueTypes
<1>2. queue' = Append(queue, Entry(sentTx[t]))
  BY DEF Push
<1>3. /\ 1..Len(queue) \subseteq 1..Len(queue')
      /\ \A i \in 1..Len(queue) : queue'[i] = queue[i]
  BY <1>1, <1>2
<1>4. queue # << >> => Head(queue') = Head(queue)
  BY <1>1, <1>2
<1> QED BY <1>3, <1>4 DEF Entries

\* A second makes every entry at most older.
LEMMA TickKeepsEntries ==
  ASSUME QueueInv, Tick
  PROVE  /\ \A e \in Entries : \E f \in Entries' : f.tx = e.tx
         /\ queue # << >> => Head(queue').age >= Head(queue).age
<1> DEFINE Older(e) == [e EXCEPT !.age = IF @ < MaxAge THEN @ + 1 ELSE @]
<1>1. queue' = [i \in 1..Len(queue) |-> Older(queue[i])]
  BY DEF Tick
<1>2. ASSUME NEW e \in QEntries
      PROVE  Older(e) \in QEntries /\ Older(e).tx = e.tx /\ Older(e).age >= e.age
  BY BoundsAssumption DEF QEntries, MaxAge
<1>3. queue \in Seq(QEntries) /\ Len(queue) \in Nat
      /\ \A i \in 1..Len(queue) : queue[i] \in QEntries
  BY DEF QueueInv, QueueTypes
<1> HIDE DEF Older
<1>4. queue' \in Seq(QEntries) /\ Len(queue') = Len(queue)
  BY <1>1, <1>2, <1>3
<1>5. \A i \in 1..Len(queue) : queue'[i].tx = queue[i].tx /\ queue'[i].age >= queue[i].age
  BY <1>1, <1>2, <1>3
<1>6. queue # << >> => 1 \in 1..Len(queue) /\ Head(queue) = queue[1] /\ Head(queue') = queue'[1]
  BY <1>3, <1>4
<1> QED BY <1>4, <1>5, <1>6 DEF Entries

\* Every step of recheckEvmTx, of time, of the chain keeps what it has found.
LEMMA VerdictStep ==
  ASSUME QueueInv, VerdictInv, [Next]_vars
  PROVE  VerdictInv'
<1> USE BoundsAssumption DEF VerdictInv
<1>1. verdict \in {"old", "done"} => exam # NoTx /\ queue # << >>
  BY DEF QueueInv, LocalsSet, ExaminedIsHead
<1>2. ASSUME NEW t \in Threads, ThreadStep(t)
      PROVE  VerdictInv'
  <2>1. CASE Push(t)
    BY <1>1, <2>1, PushKeepsEntries DEF Push, checkVars, chainVars
  <2>2. CASE UNCHANGED <<queue, exam, verdict, newTx, mined, forgets>>
    BY <2>2
  <2> QED BY <1>2, <2>1, <2>2
          DEF ThreadStep, CheckRecord, Nonce, Send, Mark, Deal, DealRecord, checkVars, chainVars
<1>3. CASE recheckEvmTx
  <2> USE DEF Decide
  <2>1. CASE Top
    BY <2>1 DEF Top, chainVars
  <2>2. CASE Ask
    BY <2>2 DEF Ask, chainVars
  <2>3. CASE SpeedUp
    <3>1. verdict' \in {"wait", "resent", "update", "refused"} /\ UNCHANGED <<mined, forgets>>
      BY <2>3 DEF SpeedUp
    <3> QED BY <3>1
  <2>4. CASE Pop \/ UpdateTop \/ TryLater
    BY <2>4 DEF Pop, UpdateTop, TryLater, Examined, chainVars
  <2> QED BY <1>3, <2>1, <2>2, <2>3, <2>4 DEF recheckEvmTx
<1>4. CASE Tick
  <2>1. /\ queue # << >> => /\ Head(queue') \in QEntries /\ Head(queue) \in QEntries
                            /\ Head(queue').age >= Head(queue).age
    <3>1. QueueInv'
      BY <1>4, QueueInvStep DEF Next
    <3>2. queue # << >> => queue' # << >>
      BY <1>4 DEF Tick, QueueInv, QueueTypes
    <3> QED BY <1>4, <3>1, <3>2, TickKeepsEntries DEF QueueInv, QueueTypes
  <2> QED BY <1>1, <1>4, <2>1 DEF Tick, checkVars, chainVars, QEntries, MaxAge
<1>5. CASE Crash
  BY <1>5 DEF Crash, Examined, chainVars
<1>6. CASE Mine
  <2>1. exam # NoTx => exam.nonce \in Nat
    BY DEF QueueInv, QueueTypes, Txs, Nonces
  <2> QED BY <1>1, <1>6, <2>1 DEF Mine, checkVars
<1>7. CASE UNCHANGED <<queue, exam, verdict, newTx, mined, forgets>>
  BY <1>7
<1>8. CASE Expired
  BY <1>8 DEF Expired, checkVars, chainVars
<1> QED BY <1>2, <1>3, <1>4, <1>5, <1>6, <1>7, <1>8
        DEF Next, ExpiredSent, Evict, vars, checkVars, chainVars

\* The rest of a queue has all entries but the first.
LEMMA TailKeepsEntries ==
  ASSUME QueueInv, queue # << >>, queue' = Tail(queue)
  PROVE  \A e \in Entries : e = Head(queue) \/ e \in Entries'
<1>1. queue \in Seq(QEntries) /\ Len(queue) \in Nat /\ Head(queue) = queue[1]
      /\ Len(queue') = Len(queue) - 1 /\ \A i \in 1..Len(queue') : queue'[i] = queue[i + 1]
  BY DEF QueueInv, QueueTypes
<1> SUFFICES ASSUME NEW i \in 1..Len(queue), i # 1
             PROVE  queue[i] \in Entries'
  BY <1>1 DEF Entries
<1>2. i - 1 \in 1..Len(queue') /\ (i - 1) + 1 = i
  BY <1>1
<1> QED BY <1>1, <1>2 DEF Entries

\* recheckEvmTx (server/recheck.go): no vote the node still holds as pending is
\* dropped without one of the reasons the code has.
THEOREM VotesLeaveForAReason == Spec => LeavesForAReason
<1>1. Init => QueueInv /\ VerdictInv
  BY InitQueueInv DEF Init, VerdictInv
<1>2. QueueInv /\ VerdictInv /\ [Next]_vars => (QueueInv /\ VerdictInv)'
  BY QueueInvStep, VerdictStep
<1>3. QueueInv /\ VerdictInv /\ [Next]_vars => [LeavesForAReasonStep]_vars
  <2> SUFFICES ASSUME QueueInv, VerdictInv, Next,
                      NEW e \in Entries, Pending(e.tx), e.tx \notin {f.tx : f \in Entries'}
               PROVE  \/ e.age > 3 * PendingTime
                      \/ verdict \in {"refused", "resent", "update"}
                      \/ forgets' > forgets
    BY DEF LeavesForAReasonStep
  <2>1. ~(UNCHANGED queue)
    BY DEF Entries
  <2>2. ~(\E t \in Threads : Push(t))
    BY PushKeepsEntries
  <2>3. ~Tick
    BY TickKeepsEntries
  <2>4. CASE Pop
    <3>1. verdict \in {"old", "done", "resent", "refused"} /\ queue # << >> /\ Head(queue).tx = exam
      BY <2>4 DEF Pop, QueueInv, LocalsSet, ExaminedIsHead
    <3>2. e = Head(queue)
      BY <2>4, <3>1, TailKeepsEntries DEF Pop
    <3>3. CASE verdict = "done"
      <4>1. exam.nonce < mined /\ exam.nonce >= mined
        BY <3>1, <3>2, <3>3 DEF VerdictInv, Pending
      <4>2. exam.nonce \in Nat /\ mined \in Nat
        BY <3>1, <3>3 DEF QueueInv, QueueTypes, LocalsSet, VerdictInv, Txs, Nonces
      <4> QED BY <4>1, <4>2
    <3>4. CASE verdict = "old"
      BY <3>2, <3>4 DEF VerdictInv
    <3> QED BY <3>1, <3>3, <3>4
  <2>5. CASE UpdateTop
    BY <2>5 DEF UpdateTop
  <2>6. CASE Crash
    BY <2>6 DEF Crash, VerdictInv
  <2> QED BY <2>1, <2>2, <2>3, <2>4, <2>5, <2>6
          DEF Next, ThreadStep, recheckEvmTx, CheckRecord, Nonce, Send, Mark, Deal, DealRecord,
              Top, Ask, SpeedUp, TryLater, Expired, ExpiredSent, Mine, Evict
<1> QED BY <1>1, <1>2, <1>3, PTL DEF Spec, LeavesForAReason
-----------------------------------------------------------------------------
(* Types of the rest.                                                      *)

\* The node's side, and the bound on what the process forgets.
ChainTypes == /\ pool \in [Nonces -> Txs \cup {NoTx}] /\ mined \in 0..MaxNonce
              /\ forgets \in 0..MaxForgets
              /\ \A n \in Nonces : /\ pool[n] # NoTx => pool[n].nonce = n
                                   /\ n < mined => pool[n] # NoTx

\* The validator's side.
LocalTypes == /\ dealedOrders \in SUBSET Orders /\ sentEvmUserTxes \in SUBSET Orders
              /\ verdict \in {"none", "ask", "speedup", "wait", "old", "done", "resent",
                              "refused", "update"}
              /\ \A t \in Threads : /\ (ord[t] = NoOrder) <=> (pc[t] = "idle")
                                    /\ (sentTx[t] = NoTx) <=> pc[t] \notin {"push", "mark"}
              /\ (newTx = NoTx) <=> (verdict # "update")

\* A transaction the node takes is filed under its nonce, above the mined ones.
LEMMA TakenKeepsChain ==
  ASSUME ChainTypes, NEW tx \in Txs, Accepts(tx), pool' = [pool EXCEPT ![tx.nonce] = tx],
         UNCHANGED <<mined, forgets>>
  PROVE  ChainTypes'
  BY NoneAssumption DEF ChainTypes, Txs

\* Every step keeps the types of the node's side.
LEMMA ChainTypeStep ==
  ASSUME QueueInv, ChainTypes, [Next]_vars
  PROVE  ChainTypes'
<1> USE BoundsAssumption, NoneAssumption
<1>1. ASSUME NEW t \in Threads, Send(t)
      PROVE  ChainTypes'
  <2>1. ASSUME NEW price \in 0..MaxPrice
        PROVE  [nonce |-> nonce[t], ord |-> ord[t], price |-> price] \in Txs
    BY <1>1 DEF Send, Txs, QueueInv, LocalsSet
  <2>2. CASE UNCHANGED pool
    BY <1>1, <2>2 DEF Send, ChainTypes
  <2>3. ASSUME NEW tx \in Txs, Accepts(tx), pool' = [pool EXCEPT ![tx.nonce] = tx]
        PROVE  ChainTypes'
    BY <1>1, <2>3, TakenKeepsChain DEF Send
  <2>4. \/ UNCHANGED pool
        \/ \E tx \in Txs : Accepts(tx) /\ pool' = [pool EXCEPT ![tx.nonce] = tx]
    BY <1>1, <2>1 DEF Send
  <2> QED BY <2>2, <2>3, <2>4
<1>2. CASE SpeedUp
  <2>1. exam \in Txs /\ UNCHANGED <<mined, forgets>>
    BY <1>2 DEF SpeedUp, QueueInv, QueueTypes, LocalsSet
  <2>2. ASSUME NEW price \in 1..(MaxPrice + 1), NEW n \in Nonces
        PROVE  [exam EXCEPT !.price = price, !.nonce = n] \in Txs
    <3>1. price \in 0..(MaxPrice + 1)
      OBVIOUS
    <3>2. [exam EXCEPT !.price = price] \in Txs
      BY <2>1, <3>1 DEF Txs
    <3>3. \A tx \in Txs : [tx EXCEPT !.nonce = n] \in Txs
      BY DEF Txs
    <3> QED BY <3>2, <3>3, Zenon
  <2>3. \/ UNCHANGED pool
        \/ \E price \in 1..(MaxPrice + 1), n \in Nonces :
              LET tx == [exam EXCEPT !.price = price, !.nonce = n]
              IN  Accepts(tx) /\ pool' = [pool EXCEPT ![n] = tx]
    BY <1>2 DEF SpeedUp
  <2>4. ASSUME NEW price \in 1..(MaxPrice + 1), NEW n \in Nonces
        PROVE  [exam EXCEPT !.price = price, !.nonce = n].nonce = n
    BY <2>1, <2>4 DEF Txs
  <2>5. CASE UNCHANGED pool
    BY <2>1, <2>5 DEF ChainTypes
  <2> QED BY <2>1, <2>2, <2>3, <2>4, <2>5, TakenKeepsChain
<1>3. CASE Mine
  BY <1>3 DEF Mine, ChainTypes, Nonces
<1>4. ASSUME NEW n \in Nonces, Evict(n)
      PROVE  ChainTypes'
  BY <1>4 DEF Evict, ChainTypes, Nonces
<1>5. CASE Crash \/ Expired
  BY <1>5 DEF Crash, Expired, ChainTypes, chainVars
<1>6. CASE UNCHANGED <<pool, mined, forgets>>
  BY <1>6 DEF ChainTypes
<1> QED BY <1>1, <1>2, <1>3, <1>4, <1>5, <1>6
        DEF Next, ThreadStep, recheckEvmTx, CheckRecord, Nonce, Push, Mark, Deal, DealRecord,
            Top, Ask, Pop, UpdateTop, TryLater, Tick, ExpiredSent, vars, chainVars

\* Every step keeps the types of the validator's side.
LEMMA LocalTypeStep ==
  ASSUME QueueInv, LocalTypes, [Next]_vars
  PROVE  LocalTypes'
<1> USE NoneAssumption DEF LocalTypes
<1>0. /\ pc \in [Threads -> {"idle", "check", "nonce", "send", "push", "mark"}]
      /\ ord \in [Threads -> Orders \cup {NoOrder}]
      /\ sentTx \in [Threads -> Txs \cup {NoTx}]
  BY DEF QueueInv, QueueTypes
<1>1. ASSUME NEW t \in Threads, ThreadStep(t)
      PROVE  LocalTypes'
  <2>0. UNCHANGED <<verdict, newTx>>
    BY <1>1 DEF ThreadStep, CheckRecord, Nonce, Send, Push, Mark, Deal, DealRecord, checkVars
  <2>1. CASE CheckRecord(t)
    <3>1. CASE Check(t, ord[t]) /\ UNCHANGED <<nonce, sentTx>>
      BY <1>0, <2>0, <2>1, <3>1 DEF CheckRecord, Check, QueueInv, LocalsSet
    <3>2. CASE Return(t) /\ UNCHANGED dealedOrders
      BY <1>0, <2>0, <2>1, <3>2 DEF CheckRecord, Return
    <3> QED BY <2>1, <3>1, <3>2 DEF CheckRecord
  <2>2. CASE Nonce(t)
    <3>1. CASE Return(t)
      BY <1>0, <2>0, <2>2, <3>1 DEF Nonce, Return
    <3>2. CASE pc' = [pc EXCEPT ![t] = "send"] /\ UNCHANGED <<ord, sentTx>>
      BY <1>0, <2>0, <2>2, <3>2 DEF Nonce
    <3> QED BY <2>2, <3>1, <3>2 DEF Nonce
  <2>3. CASE Send(t)
    <3>1. CASE Return(t)
      BY <1>0, <2>0, <2>3, <3>1 DEF Send, Return
    <3>2. ASSUME NEW price \in 0..MaxPrice,
                 pc' = [pc EXCEPT ![t] = "push"],
                 sentTx' = [sentTx EXCEPT ![t] = [nonce |-> nonce[t], ord |-> ord[t], price |-> price]],
                 UNCHANGED <<ord, nonce>>
          PROVE  LocalTypes'
      <4>1. [nonce |-> nonce[t], ord |-> ord[t], price |-> price] \in Txs
        BY <2>3, BoundsAssumption DEF Send, QueueInv, LocalsSet, Txs
      <4> QED BY <1>0, <2>0, <2>3, <3>2, <4>1 DEF Send
    <3> QED BY <2>3, <3>1, <3>2 DEF Send
  <2>4. CASE Push(t)
    BY <1>0, <2>0, <2>4 DEF Push
  <2>5. CASE Mark(t)
    <3>1. ord[t] \in Orders
      BY <2>5 DEF Mark, QueueInv, LocalsSet
    <3> QED BY <1>0, <2>0, <2>5, <3>1 DEF Mark, Return
  <2>6. ASSUME NEW o \in Orders, Deal(t, o)
        PROVE  LocalTypes'
    BY <1>0, <2>0, <2>6 DEF Deal, Check
  <2>7. ASSUME NEW o \in Orders, DealRecord(t, o)
        PROVE  LocalTypes'
    BY <1>0, <2>0, <2>7 DEF DealRecord
  <2> QED BY <1>1, <2>1, <2>2, <2>3, <2>4, <2>5, <2>6, <2>7 DEF ThreadStep
<1>2. CASE recheckEvmTx
  <2>0. UNCHANGED <<threadVars, dealedOrders, sentEvmUserTxes>>
    BY <1>2 DEF recheckEvmTx, Top, Ask, SpeedUp, Pop, UpdateTop, TryLater
  <2>1. /\ verdict' \in {"none", "ask", "speedup", "wait", "old", "done", "resent",
                         "refused", "update"}
        /\ (newTx' = NoTx) <=> (verdict' # "update")
    <3> USE DEF Decide
    <3>1. CASE Top
      <4>1. verdict = "none"
        BY <3>1 DEF Top, QueueInv, LocalsSet
      <4> QED BY <3>1, <4>1 DEF Top
    <3>2. CASE Ask
      BY <3>2 DEF Ask
    <3>3. CASE SpeedUp
      <4>1. QueueInv'
        BY <3>3, QueueInvStep DEF Next, recheckEvmTx
      <4>2. \/ verdict' \in {"wait", "resent", "refused"} /\ UNCHANGED newTx
            \/ verdict' = "update"
        BY <3>3 DEF SpeedUp
      <4>3. verdict = "speedup"
        BY <3>3 DEF SpeedUp
      <4> QED BY <4>1, <4>2, <4>3 DEF QueueInv, LocalsSet
    <3>4. CASE Pop \/ UpdateTop \/ TryLater
      BY <3>4 DEF Pop, UpdateTop, TryLater, Examined
    <3> QED BY <1>2, <3>1, <3>2, <3>3, <3>4 DEF recheckEvmTx
  <2> QED BY <2>0, <2>1 DEF threadVars
<1>3. CASE Expired \/ ExpiredSent
  BY <1>3 DEF Expired, ExpiredSent, threadVars, checkVars
<1>4. CASE Crash
  BY <1>4 DEF Crash, Examined
<1>5. CASE UNCHANGED <<pc, ord, sentTx, dealedOrders, sentEvmUserTxes, verdict, newTx>>
  BY <1>5
<1> QED BY <1>1, <1>2, <1>3, <1>4, <1>5
        DEF Next, Tick, Mine, Evict, vars, threadVars, checkVars

\* The types of the goroutines, the queue, recheckEvmTx and the node.
THEOREM EvmSendIsWellTyped == Spec => []TypeOK
<1>1. Init => QueueInv /\ ChainTypes /\ LocalTypes
  BY InitQueueInv, BoundsAssumption, NoneAssumption DEF Init, ChainTypes, LocalTypes, Nonces
<1>2. QueueInv /\ ChainTypes /\ LocalTypes /\ [Next]_vars
         => (QueueInv /\ ChainTypes /\ LocalTypes)'
  BY QueueInvStep, ChainTypeStep, LocalTypeStep
<1>3. QueueInv /\ ChainTypes /\ LocalTypes => TypeOK
  BY DEF QueueInv, QueueTypes, LocalsSet, ChainTypes, LocalTypes, TypeOK, QEntries
<1> QED BY <1>1, <1>2, <1>3, PTL DEF Spec
-----------------------------------------------------------------------------
(* How often a validator votes.                                            *)

Watched == {queue[i].tx : i \in 1..Len(queue)}

\* The transactions that are sent, or could still be sent again by a speed-up.
InPlay == ({pool[n] : n \in Nonces} \cup {exam, newTx} \cup Watched
              \cup {sentTx[t] : t \in {u \in Threads : pc[u] = "push"}}) \ {NoTx}

\* The nonces an order has used up, and the goroutines that will use one more.
Used(o) == {tx.nonce : tx \in {x \in InPlay : x.ord = o}}
Trying(o) == {t \in Threads : pc[t] \in {"nonce", "send"} /\ ord[t] = o}

\* An order that may still pass Check counts as one more.
Spare(o) == IF o \in dealedOrders THEN 0 ELSE 1

Quota(o) == /\ IsFiniteSet(Trying(o))
            /\ Cardinality(Used(o)) + Cardinality(Trying(o)) + Spare(o) <= 1 + forgets

VotesInv == \A o \in Orders : Quota(o)

TypesInv == QueueInv /\ ChainTypes /\ LocalTypes

\* What is in play are transactions of the account.
LEMMA InPlayTypes ==
  ASSUME TypesInv
  PROVE  /\ InPlay \subseteq Txs
         /\ \A o \in Orders : Used(o) \subseteq Nonces /\ IsFiniteSet(Used(o))
<1>1. Watched \subseteq Txs
  <2>1. \A i \in 1..Len(queue) : queue[i] \in QEntries
    BY DEF TypesInv, QueueInv, QueueTypes
  <2> QED BY <2>1 DEF Watched, QEntries
<1>2. InPlay \subseteq Txs
  BY <1>1 DEF InPlay, TypesInv, QueueInv, QueueTypes, ChainTypes
<1>3. \A o \in Orders : Used(o) \subseteq Nonces
  BY <1>2 DEF Used, Txs
<1>4. IsFiniteSet(Nonces)
  BY BoundsAssumption, FS_Interval DEF Nonces
<1> QED BY <1>2, <1>3, <1>4, FS_Subset

\* A step that uses up no nonce and lets no order pass Check keeps the bound.
LEMMA QuotaKept ==
  ASSUME TypesInv, TypesInv', NEW o \in Orders, Quota(o),
         Used(o)' \subseteq Used(o), Trying(o)' \subseteq Trying(o),
         Spare(o)' + forgets <= Spare(o) + forgets'
  PROVE  Quota(o)'
<1>1. IsFiniteSet(Used(o)) /\ IsFiniteSet(Trying(o))
  BY InPlayTypes DEF Quota
<1>2. /\ Cardinality(Used(o)') <= Cardinality(Used(o))
      /\ IsFiniteSet(Trying(o)') /\ Cardinality(Trying(o)') <= Cardinality(Trying(o))
      /\ IsFiniteSet(Used(o)')
  BY <1>1, FS_Subset
<1>3. /\ Cardinality(Used(o)) \in Nat /\ Cardinality(Trying(o)) \in Nat
      /\ Cardinality(Used(o)') \in Nat /\ Cardinality(Trying(o)') \in Nat
  BY <1>1, <1>2, FS_CardinalityType
<1>4. forgets \in Nat /\ forgets' \in Nat /\ Spare(o) \in Nat /\ Spare(o)' \in Nat
  BY BoundsAssumption DEF TypesInv, ChainTypes, Spare
<1>5. Cardinality(Used(o)) + Cardinality(Trying(o)) + Spare(o) <= 1 + forgets
  BY DEF Quota
<1>6. Cardinality(Used(o)') + Cardinality(Trying(o)') + Spare(o)' <= 1 + forgets'
  BY <1>2, <1>3, <1>4, <1>5
<1> QED BY <1>2, <1>6 DEF Quota

\* The goroutine that passes Check takes the place of the order that could.
LEMMA CheckKeepsQuota ==
  ASSUME TypesInv, TypesInv', VotesInv, NEW t \in Threads, NEW p \in Orders, Check(t, p),
         UNCHANGED <<nonce, sentTx, sentEvmUserTxes, queue, checkVars, chainVars, forgets>>,
         pc[t] \in {"idle", "check"}
  PROVE  VotesInv'
<1> SUFFICES ASSUME NEW o \in Orders
             PROVE  Quota(o)'
  BY DEF VotesInv
<1>1. /\ pc' = [pc EXCEPT ![t] = "nonce"] /\ ord' = [ord EXCEPT ![t] = p]
      /\ dealedOrders' = dealedOrders \cup {p} /\ p \notin dealedOrders
  BY DEF Check
<1>2. pc \in [Threads -> {"idle", "check", "nonce", "send", "push", "mark"}]
      /\ ord \in [Threads -> Orders \cup {NoOrder}]
  BY DEF TypesInv, QueueInv, QueueTypes
<1>3. Used(o)' \subseteq Used(o)
  BY <1>1, <1>2 DEF Used, InPlay, Watched, checkVars, chainVars
<1>4. CASE o # p
  <2>1. Trying(o)' \subseteq Trying(o)
    BY <1>1, <1>2, <1>4 DEF Trying
  <2>2. Spare(o)' = Spare(o) /\ Spare(o) \in Nat /\ forgets' = forgets /\ forgets \in Nat
    BY <1>1, <1>4, BoundsAssumption DEF Spare, TypesInv, ChainTypes
  <2>3. Spare(o)' + forgets <= Spare(o) + forgets'
    BY <2>2
  <2> QED BY <1>3, <2>1, <2>3, QuotaKept DEF VotesInv
<1>5. CASE o = p
  <2>1. Trying(o)' = Trying(o) \cup {t} /\ t \notin Trying(o)
    BY <1>1, <1>2, <1>5 DEF Trying
  <2>2. IsFiniteSet(Trying(o)) /\ IsFiniteSet(Used(o)) /\ IsFiniteSet(Used(o)')
    BY InPlayTypes, <1>3, FS_Subset DEF VotesInv, Quota
  <2>3. IsFiniteSet(Trying(o)') /\ Cardinality(Trying(o)') = Cardinality(Trying(o)) + 1
    BY <2>1, <2>2, FS_AddElement
  <2>4. Cardinality(Used(o)') <= Cardinality(Used(o))
    BY <1>3, <2>2, FS_Subset
  <2>5. /\ Cardinality(Used(o)) \in Nat /\ Cardinality(Used(o)') \in Nat
        /\ Cardinality(Trying(o)) \in Nat
    BY <2>2, FS_CardinalityType
  <2>6. Spare(o) = 1 /\ Spare(o)' = 0 /\ forgets' = forgets /\ forgets \in Nat
    BY <1>1, <1>5, BoundsAssumption DEF Spare, TypesInv, ChainTypes
  <2>7. Cardinality(Used(o)) + Cardinality(Trying(o)) + Spare(o) <= 1 + forgets
    BY DEF VotesInv, Quota
  <2>8. Cardinality(Used(o)') + Cardinality(Trying(o)') + Spare(o)' <= 1 + forgets'
    BY <2>3, <2>4, <2>5, <2>6, <2>7
  <2> QED BY <2>3, <2>8 DEF Quota
<1> QED BY <1>4, <1>5

\* A goroutine that sends its transaction uses up the nonce it was counted for.
LEMMA SendKeepsQuota ==
  ASSUME TypesInv, TypesInv', VotesInv, NEW t \in Threads, Send(t)
  PROVE  VotesInv'
<1> SUFFICES ASSUME NEW o \in Orders
             PROVE  Quota(o)'
  BY DEF VotesInv
<1>1. pc \in [Threads -> {"idle", "check", "nonce", "send", "push", "mark"}]
      /\ ord \in [Threads -> Orders \cup {NoOrder}] /\ sentTx \in [Threads -> Txs \cup {NoTx}]
      /\ pool \in [Nonces -> Txs \cup {NoTx}]
  BY DEF TypesInv, QueueInv, QueueTypes, ChainTypes
<1>2. PICK price \in 0..MaxPrice :
         LET tx == [nonce |-> nonce[t], ord |-> ord[t], price |-> price]
         IN  \/ /\ pool' = [pool EXCEPT ![tx.nonce] = tx]
                /\ \/ /\ pc' = [pc EXCEPT ![t] = "push"]
                      /\ sentTx' = [sentTx EXCEPT ![t] = tx]
                      /\ UNCHANGED <<ord, nonce>>
                   \/ Return(t)
             \/ Return(t) /\ UNCHANGED pool
  BY DEF Send
<1> DEFINE tx == [nonce |-> nonce[t], ord |-> ord[t], price |-> price]
<1>3. /\ pc[t] = "send" /\ forgets' = forgets /\ Spare(o)' = Spare(o)
      /\ UNCHANGED <<queue, exam, newTx>>
  BY DEF Send, checkVars, Spare
<1>4. InPlay' \subseteq InPlay \cup {tx}
  <2>1. Watched' = Watched
    BY <1>3 DEF Watched
  <2>2. {pool'[n] : n \in Nonces} \subseteq {pool[n] : n \in Nonces} \cup {tx}
    BY <1>1, <1>2
  <2>3. {sentTx'[u] : u \in {v \in Threads : pc'[v] = "push"}}
           \subseteq {sentTx[u] : u \in {v \in Threads : pc[v] = "push"}} \cup {tx}
    BY <1>1, <1>2 DEF Return
  <2> HIDE DEF tx
  <2> QED BY <1>3, <2>1, <2>2, <2>3 DEF InPlay
<1>5. Trying(o)' \subseteq Trying(o) \ {t}
  BY <1>1, <1>2 DEF Trying, Return
<1>6. tx.nonce = nonce[t] /\ tx.ord = ord[t]
  OBVIOUS
<1> HIDE DEF tx
<1>7. CASE o # ord[t]
  <2>1. Used(o)' \subseteq Used(o)
    BY <1>4, <1>6, <1>7 DEF Used
  <2>2. Spare(o) \in Nat /\ forgets \in Nat
    BY BoundsAssumption DEF Spare, TypesInv, ChainTypes
  <2>3. Spare(o)' + forgets <= Spare(o) + forgets'
    BY <1>3, <2>2
  <2> QED BY <1>5, <2>1, <2>3, QuotaKept DEF VotesInv
<1>8. CASE o = ord[t]
  <2>1. Used(o)' \subseteq Used(o) \cup {nonce[t]}
    BY <1>4, <1>6 DEF Used
  <2>2. t \in Trying(o)
    BY <1>3, <1>8 DEF Trying
  <2>3. IsFiniteSet(Trying(o)) /\ IsFiniteSet(Used(o)) /\ Cardinality(Used(o)) \in Nat
    BY InPlayTypes, FS_CardinalityType DEF VotesInv, Quota
  <2>4. /\ IsFiniteSet(Trying(o) \ {t})
        /\ Cardinality(Trying(o) \ {t}) = Cardinality(Trying(o)) - 1
    BY <2>2, <2>3, FS_RemoveElement
  <2>5. IsFiniteSet(Trying(o)') /\ Cardinality(Trying(o)') <= Cardinality(Trying(o) \ {t})
    BY <1>5, <2>4, FS_Subset
  <2>6. /\ IsFiniteSet(Used(o) \cup {nonce[t]})
        /\ Cardinality(Used(o) \cup {nonce[t]}) <= Cardinality(Used(o)) + 1
    <3>1. /\ IsFiniteSet(Used(o) \cup {nonce[t]})
          /\ Cardinality(Used(o) \cup {nonce[t]})
                = IF nonce[t] \in Used(o) THEN Cardinality(Used(o)) ELSE Cardinality(Used(o)) + 1
      BY <2>3, FS_AddElement
    <3> QED BY <2>3, <3>1
  <2>7. /\ IsFiniteSet(Used(o)')
        /\ Cardinality(Used(o)') <= Cardinality(Used(o) \cup {nonce[t]})
    BY <2>1, <2>6, FS_Subset
  <2>8. /\ Cardinality(Used(o)) \in Nat /\ Cardinality(Used(o)') \in Nat
        /\ Cardinality(Trying(o)) \in Nat /\ Cardinality(Trying(o)') \in Nat
        /\ Cardinality(Used(o) \cup {nonce[t]}) \in Nat
        /\ Spare(o) \in Nat /\ forgets \in Nat
    BY <2>3, <2>5, <2>6, <2>7, FS_CardinalityType, BoundsAssumption DEF Spare, TypesInv, ChainTypes
  <2>9. Cardinality(Used(o)) + Cardinality(Trying(o)) + Spare(o) <= 1 + forgets
    BY DEF VotesInv, Quota
  <2>10. Cardinality(Used(o)') + Cardinality(Trying(o)') + Spare(o)' <= 1 + forgets'
    BY <1>3, <2>4, <2>5, <2>6, <2>7, <2>8, <2>9
  <2> QED BY <2>5, <2>10 DEF Quota
<1> QED BY <1>7, <1>8

\* recheckEvmTx sends nothing for an order or with a nonce that is not in play.
LEMMA RecheckKeepsPlay ==
  ASSUME TypesInv, recheckEvmTx
  PROVE  \A x \in InPlay' : \E y \in InPlay : x.nonce = y.nonce /\ x.ord = y.ord
<1> USE DEF Decide
<1>0. queue \in Seq(QEntries)
  BY DEF TypesInv, QueueInv, QueueTypes
<1>1. CASE Top
  <2>1. Head(queue) = queue[1] /\ 1 \in 1..Len(queue)
    BY <1>0, <1>1 DEF Top
  <2>2. exam' \in Watched
    BY <1>1, <2>1 DEF Top, Watched
  <2> QED BY <1>1, <2>2 DEF Top, InPlay, Watched, threadVars, chainVars
<1>2. CASE Ask \/ TryLater
  BY <1>2 DEF Ask, TryLater, Examined, InPlay, Watched, threadVars, chainVars
<1>3. CASE SpeedUp
  <2> DEFINE tx(price, n) == [exam EXCEPT !.price = price, !.nonce = n]
  <2>1. exam \in Txs /\ exam \in InPlay
    BY <1>3, NoneAssumption DEF SpeedUp, TypesInv, QueueInv, QueueTypes, LocalsSet, InPlay
  <2>2. PICK price \in 1..(MaxPrice + 1), n \in Nonces :
           /\ n = exam.nonce
           /\ UNCHANGED pool \/ pool' = [pool EXCEPT ![n] = tx(price, n)]
           /\ UNCHANGED newTx \/ newTx' = tx(price, n)
    BY <1>3 DEF SpeedUp, SpeedUpNonce
  <2>3. tx(price, n).nonce = exam.nonce /\ tx(price, n).ord = exam.ord
    BY <2>1, <2>2 DEF Txs
  <2> HIDE DEF tx
  <2>4. {pool'[m] : m \in Nonces} \subseteq {pool[m] : m \in Nonces} \cup {tx(price, n)}
    BY <2>2 DEF TypesInv, ChainTypes
  <2>5. InPlay' \subseteq InPlay \cup {tx(price, n)}
    BY <1>3, <2>2, <2>4 DEF SpeedUp, InPlay, Watched, threadVars
  <2> QED BY <2>1, <2>3, <2>5
<1>4. CASE Pop
  <2>1. Watched' \subseteq Watched
    <3>1. CASE queue' = queue
      BY <3>1 DEF Watched
    <3>2. CASE queue # << >> /\ queue' = Tail(queue)
      <4>1. \A i \in 1..Len(queue') : i + 1 \in 1..Len(queue) /\ queue'[i] = queue[i + 1]
        BY <1>0, <3>2
      <4> QED BY <4>1 DEF Watched
    <3> QED BY <1>4, <3>1, <3>2 DEF Pop
  <2> QED BY <1>4, <2>1 DEF Pop, Examined, InPlay, threadVars, chainVars
<1>5. CASE UpdateTop
  <2>1. Watched' \subseteq Watched \cup {newTx}
    <3>1. CASE queue' = queue
      BY <3>1 DEF Watched
    <3>2. CASE queue' = [queue EXCEPT ![1] = Entry(newTx)]
      <4>1. \A i \in 1..Len(queue) : queue'[i] = queue[i] \/ queue'[i] = Entry(newTx)
        BY <1>0, <3>2
      <4>2. Len(queue') = Len(queue)
        BY <1>0, <3>2
      <4>3. Entry(newTx).tx = newTx
        BY DEF Entry
      <4> QED BY <4>1, <4>2, <4>3 DEF Watched
    <3> QED BY <1>5, <3>1, <3>2 DEF UpdateTop
  <2> QED BY <1>5, <2>1 DEF UpdateTop, Examined, InPlay, threadVars, chainVars
<1> QED BY <1>1, <1>2, <1>3, <1>4, <1>5 DEF recheckEvmTx

\* Every step keeps the bound on what is sent for each order.
LEMMA VotesInvStep ==
  ASSUME TypesInv, TypesInv', VotesInv, [Next]_vars
  PROVE  VotesInv'
<1>0. /\ pc \in [Threads -> {"idle", "check", "nonce", "send", "push", "mark"}]
      /\ ord \in [Threads -> Orders \cup {NoOrder}] /\ sentTx \in [Threads -> Txs \cup {NoTx}]
      /\ queue \in Seq(QEntries) /\ forgets \in Nat /\ forgets' \in Nat
      /\ \A o \in Orders : Spare(o) \in Nat
  BY BoundsAssumption DEF TypesInv, QueueInv, QueueTypes, ChainTypes, Spare
<1>a. ASSUME \A x \in InPlay' : \E y \in InPlay : x.nonce = y.nonce /\ x.ord = y.ord,
             \A o \in Orders : Trying(o)' \subseteq Trying(o),
             \/ dealedOrders' = dealedOrders /\ forgets' = forgets
             \/ forgets' = forgets + 1
      PROVE  VotesInv'
  <2> SUFFICES ASSUME NEW o \in Orders
               PROVE  Quota(o)'
    BY DEF VotesInv
  <2>1. Used(o)' \subseteq Used(o)
    BY <1>a DEF Used
  <2>2. Spare(o)' + forgets <= Spare(o) + forgets'
    BY <1>0, <1>a DEF Spare
  <2> QED BY <1>a, <2>1, <2>2, QuotaKept DEF VotesInv
<1>b. ASSUME \A u \in Threads :
                pc'[u] = "push" => pc[u] = "push" /\ sentTx'[u] = sentTx[u],
             \A o \in Orders : Trying(o)' \subseteq Trying(o),
             UNCHANGED <<dealedOrders, queue, checkVars, chainVars, forgets>>
      PROVE  VotesInv'
  <2>1. {sentTx'[u] : u \in {w \in Threads : pc'[w] = "push"}}
           \subseteq {sentTx[u] : u \in {w \in Threads : pc[w] = "push"}}
    BY <1>b
  <2>2. InPlay' \subseteq InPlay
    BY <1>b, <2>1 DEF InPlay, Watched, checkVars, chainVars
  <2> QED BY <1>a, <1>b, <2>2
<1>c. ASSUME NEW t \in Threads, Return(t),
             UNCHANGED <<dealedOrders, queue, checkVars, chainVars, forgets>>
      PROVE  VotesInv'
  <2>1. \A o \in Orders : Trying(o)' \subseteq Trying(o)
    BY <1>0, <1>c DEF Return, Trying
  <2>2. \A u \in Threads : pc'[u] = "push" => pc[u] = "push" /\ sentTx'[u] = sentTx[u]
    BY <1>0, <1>c DEF Return
  <2> QED BY <1>b, <1>c, <2>1, <2>2
<1>1. ASSUME NEW t \in Threads, ThreadStep(t)
      PROVE  VotesInv'
  <2>1. CASE CheckRecord(t)
    <3>1. CASE Check(t, ord[t]) /\ UNCHANGED <<nonce, sentTx>>
      <4>1. ord[t] \in Orders
        BY <2>1 DEF CheckRecord, TypesInv, QueueInv, LocalsSet
      <4> QED BY <2>1, <3>1, <4>1, CheckKeepsQuota DEF CheckRecord
    <3>2. CASE Return(t) /\ UNCHANGED dealedOrders
      BY <1>c, <2>1, <3>2 DEF CheckRecord
    <3> QED BY <2>1, <3>1, <3>2 DEF CheckRecord
  <2>2. CASE Nonce(t)
    <3>1. CASE Return(t)
      BY <1>c, <2>2, <3>1 DEF Nonce
    <3>2. CASE pc' = [pc EXCEPT ![t] = "send"] /\ UNCHANGED <<ord, sentTx>>
      <4>1. \A o \in Orders : Trying(o)' \subseteq Trying(o)
        BY <1>0, <2>2, <3>2 DEF Nonce, Trying
      <4>2. \A u \in Threads : pc'[u] = "push" => pc[u] = "push" /\ sentTx'[u] = sentTx[u]
        BY <1>0, <3>2
      <4> QED BY <1>b, <2>2, <4>1, <4>2 DEF Nonce
    <3> QED BY <2>2, <3>1, <3>2 DEF Nonce
  <2>3. CASE Send(t)
    BY <2>3, SendKeepsQuota
  <2>4. CASE Push(t)
    <3>1. Watched' \subseteq Watched \cup {sentTx[t]}
      <4>1. Entry(sentTx[t]) \in QEntries /\ Entry(sentTx[t]).tx = sentTx[t]
        BY <2>4, EntryType DEF Push, TypesInv, QueueInv, LocalsSet, Entry
      <4>2. \A i \in 1..Len(queue') :
               \/ i \in 1..Len(queue) /\ queue'[i] = queue[i]
               \/ queue'[i] = Entry(sentTx[t])
        BY <1>0, <2>4, <4>1 DEF Push
      <4> QED BY <4>1, <4>2 DEF Watched
    <3>2. InPlay' \subseteq InPlay
      BY <1>0, <2>4, <3>1 DEF Push, InPlay, checkVars, chainVars
    <3>3. \A o \in Orders : Trying(o)' \subseteq Trying(o)
      BY <1>0, <2>4 DEF Push, Trying
    <3> QED BY <1>a, <2>4, <3>2, <3>3 DEF Push
  <2>5. CASE Mark(t)
    BY <1>0, <1>a, <2>5 DEF Mark, Return, InPlay, Watched, Trying, checkVars, chainVars
  <2>6. ASSUME NEW o \in Orders, Deal(t, o)
        PROVE  VotesInv'
    BY <2>6, CheckKeepsQuota DEF Deal
  <2>7. ASSUME NEW o \in Orders, DealRecord(t, o)
        PROVE  VotesInv'
    BY <1>0, <1>a, <2>7 DEF DealRecord, InPlay, Watched, Trying, checkVars, chainVars
  <2> QED BY <1>1, <2>1, <2>2, <2>3, <2>4, <2>5, <2>6, <2>7 DEF ThreadStep
<1>2. CASE recheckEvmTx
  <2>1. UNCHANGED <<threadVars, dealedOrders, forgets>>
    BY <1>2 DEF recheckEvmTx, Top, Ask, SpeedUp, Pop, UpdateTop, TryLater
  <2> QED BY <1>2, <1>a, <2>1, RecheckKeepsPlay DEF Trying, threadVars
<1>3. CASE Tick
  <2>1. Watched' \subseteq Watched
    <3> DEFINE Older(e) == [e EXCEPT !.age = IF @ < MaxAge THEN @ + 1 ELSE @]
    <3>1. queue' = [i \in 1..Len(queue) |-> Older(queue[i])]
      BY <1>3 DEF Tick
    <3>2. \A e \in QEntries : Older(e).tx = e.tx
      BY DEF QEntries
    <3>3. \A i \in 1..Len(queue) : queue[i] \in QEntries
      BY <1>0
    <3> HIDE DEF Older
    <3>4. Len(queue') = Len(queue)
      BY <1>0, <3>1
    <3>5. \A i \in 1..Len(queue) : queue'[i].tx = queue[i].tx
      BY <3>1, <3>2, <3>3
    <3> QED BY <3>4, <3>5 DEF Watched
  <2> QED BY <1>3, <1>a, <2>1 DEF Tick, InPlay, Trying, threadVars, checkVars, chainVars
<1>4. CASE Expired
  BY <1>4, <1>a DEF Expired, InPlay, Watched, Trying, threadVars, checkVars, chainVars
<1>5. CASE Crash
  <2>1. InPlay' \subseteq InPlay
    <3>1. Watched' = {}
      BY <1>5 DEF Crash, Watched
    <3> QED BY <1>5, <3>1 DEF Crash, Examined, InPlay, chainVars
  <2> QED BY <1>5, <1>a, <2>1 DEF Crash, Trying
<1>6. CASE ExpiredSent
  BY <1>6, <1>a DEF ExpiredSent, InPlay, Watched, Trying, threadVars, checkVars, chainVars
<1>7. CASE Mine
  BY <1>7, <1>a DEF Mine, InPlay, Watched, Trying, threadVars, checkVars
<1>8. ASSUME NEW n \in Nonces, Evict(n)
      PROVE  VotesInv'
  <2>1. {pool'[m] : m \in Nonces} \subseteq {pool[m] : m \in Nonces} \cup {NoTx}
    BY <1>8 DEF Evict, TypesInv, ChainTypes
  <2> QED BY <1>8, <1>a, <2>1 DEF Evict, InPlay, Watched, Trying, threadVars, checkVars
<1>9. CASE UNCHANGED vars
  BY <1>9, <1>a DEF vars, InPlay, Watched, Trying
<1> QED BY <1>1, <1>2, <1>3, <1>4, <1>5, <1>6, <1>7, <1>8, <1>9 DEF Next

\* dealWrapOrder, dealUnWrapOrder, dealTxErrorRecord and CheckPendingAndSpeedUp
\* together: an order gets one vote for each time the process forgot what it had
\* dealt with, and one more, however many goroutines, nonces and speed-ups there are.
THEOREM VotesAreBounded == Spec => []VotesBounded
<1>1. Init => TypesInv
  BY InitQueueInv, BoundsAssumption, NoneAssumption
     DEF Init, TypesInv, ChainTypes, LocalTypes, Nonces
<1>2. Init => VotesInv
  <2> SUFFICES ASSUME Init, NEW o \in Orders
               PROVE  Quota(o)
    BY DEF VotesInv
  <2>1. Used(o) = {} /\ Trying(o) = {}
    BY DEF Init, Used, InPlay, Watched, Trying
  <2> QED BY <2>1, FS_EmptySet DEF Quota, Spare, Init
<1>3. TypesInv /\ [Next]_vars => TypesInv'
  BY QueueInvStep, ChainTypeStep, LocalTypeStep DEF TypesInv
<1>4. TypesInv /\ VotesInv /\ [Next]_vars => (TypesInv /\ VotesInv)'
  BY <1>3, VotesInvStep
<1>5. TypesInv /\ VotesInv => VotesBounded
  <2> SUFFICES ASSUME TypesInv, VotesInv, NEW o \in Orders
               PROVE  Cardinality({n \in Nonces : n < mined /\ pool[n].ord = o}) <= 1 + forgets
    BY DEF VotesBounded
  <2> DEFINE Votes == {n \in Nonces : n < mined /\ pool[n].ord = o}
  <2>1. Votes \subseteq Used(o)
    BY DEF Used, InPlay, TypesInv, ChainTypes
  <2>2. IsFiniteSet(Used(o)) /\ IsFiniteSet(Trying(o))
    BY InPlayTypes DEF VotesInv, Quota
  <2>3. IsFiniteSet(Votes) /\ Cardinality(Votes) <= Cardinality(Used(o))
    BY <2>1, <2>2, FS_Subset
  <2>4. /\ Cardinality(Votes) \in Nat /\ Cardinality(Used(o)) \in Nat
        /\ Cardinality(Trying(o)) \in Nat /\ Spare(o) \in Nat /\ forgets \in Nat
    BY <2>2, <2>3, FS_CardinalityType, BoundsAssumption DEF Spare, TypesInv, ChainTypes
  <2>5. Cardinality(Used(o)) + Cardinality(Trying(o)) + Spare(o) <= 1 + forgets
    BY DEF VotesInv, Quota
  <2> HIDE DEF Votes
  <2>6. Cardinality(Votes) <= 1 + forgets
    BY <2>3, <2>4, <2>5
  <2> QED BY <2>6 DEF Votes
<1> QED BY <1>1, <1>2, <1>4, <1>5, PTL DEF Spec
=============================================================================
