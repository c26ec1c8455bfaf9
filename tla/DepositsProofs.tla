--------------------------- MODULE DepositsProofs ---------------------------
(***************************************************************************)
(* Every vote is one deposit of its transaction, and the votes on a        *)
(* transaction agree, for every set of validators and transactions and for *)
(* every content of them.                                                  *)
(***************************************************************************)
EXTENDS Deposits, TLAPS

\* The types the argument needs.
Types == /\ content \in [Txs -> Contents]
         /\ ledger \in [Txs -> {"none", "attached", "included", "conflict"}]
         /\ next \in [Validators -> [Txs -> Nat \ {0}]]
         /\ dealedOrders \in [Validators -> SUBSET Txs]
         /\ votes \subseteq [by : Validators, tx : Txs, to : STRING, amount : Nat]

\* The logs of a transaction are a sequence of logs.
LEMMA LogsAreLogs == ASSUME Types, NEW x \in Txs
                     PROVE  /\ LogsOf(x) \in Seq(Logs)
                            /\ content[x].kind \in {"evm", "iota", "shimmer"}
  BY ContentsAssumption DEF Types, LogsOf

\* Somebody was told of a deposit of x: d is one, and x is in the ledger or was read
\* back in haste.
Genuine(x, d) == \E i \in DOMAIN LogsOf(x) :
                    /\ LogsOf(x)[i].way = "in"
                    /\ d = LogsOf(x)[i] \/ d = Heard(x, LogsOf(x)[i])

\* What a validator knows x by: its first log that passes the listener's checks or,
\* on the Stardust ledger, the one output the wallet gets.
Leader(x, i) == /\ i \in DOMAIN LogsOf(x)
                /\ IF content[x].kind = "iota" THEN i \in Own(LogsOf(x))
                   ELSE /\ Passes(LogsOf(x)[i])
                        /\ \A h \in 1..(i - 1) : ~Passes(LogsOf(x)[h])

\* d is the order the listener makes of the leader.
Led(x, d) == \E i \in DOMAIN LogsOf(x) : Leader(x, i) /\ Heard(x, LogsOf(x)[i]) = d

\* All who can disagree have been excused.
Clear(x) == SameBothWays(x) /\ \A v \in Validators : <<v, x>> \notin torn

\* In the middle of the logs of x, a validator that has had one that passes has put
\* x into dealedOrders.
MidwayIsDealt ==
    \A v \in Validators, x \in Txs :
        (/\ <<v, x>> \notin torn /\ Midway(v, x)
         /\ \E h \in 1..(next[v][x] - 1) : Passes(LogsOf(x)[h])) => x \in dealedOrders[v]

\* Where nobody is excused, all votes are for the leader.
VotesFollow ==
    \A b \in votes : Clear(b.tx) =>
        \E i \in DOMAIN LogsOf(b.tx) :
            LET d == Heard(b.tx, LogsOf(b.tx)[i])
            IN  Leader(b.tx, i) /\ d.to = b.to /\ d.amount = b.amount

DepInv == Types /\ VoteIsDeposit /\ MidwayIsDealt /\ VotesFollow

\* Only one log can lead.
LEMMA OneLeader ==
  ASSUME Types, NEW x \in Txs, SameBothWays(x), NEW i, NEW j, Leader(x, i), Leader(x, j)
  PROVE  i = j
<1>1. LogsOf(x) \in Seq(Logs)
  BY LogsAreLogs
<1>2. i \in Nat \ {0} /\ j \in Nat \ {0}
  BY <1>1 DEF Leader
<1>3. CASE content[x].kind = "iota"
  BY <1>3 DEF Leader, SameBothWays
<1>4. CASE content[x].kind # "iota"
  BY <1>2, <1>4 DEF Leader
<1> QED BY <1>3, <1>4

\* Where all votes are for the leader, they agree.
LEMMA FollowersAgree == Types /\ VotesFollow => VotesAgree
<1> SUFFICES ASSUME Types, VotesFollow, NEW x \in Txs, Clear(x),
                    NEW b \in VotesOn(x), NEW c \in VotesOn(x)
             PROVE  b.to = c.to /\ b.amount = c.amount
  BY DEF VotesAgree, Clear
<1>1. PICK i \in DOMAIN LogsOf(x) :
          LET d == Heard(x, LogsOf(x)[i])
          IN  Leader(x, i) /\ d.to = b.to /\ d.amount = b.amount
  BY DEF VotesFollow, VotesOn
<1>2. PICK j \in DOMAIN LogsOf(x) :
          LET d == Heard(x, LogsOf(x)[j])
          IN  Leader(x, j) /\ d.to = c.to /\ d.amount = c.amount
  BY DEF VotesFollow, VotesOn
<1>3. i = j
  BY <1>1, <1>2, OneLeader DEF Clear
<1> QED BY <1>1, <1>2, <1>3

\* What CheckUserTx returns has no recipient, or is a deposit, and the leader where
\* nobody is excused.
LEMMA CheckIsGenuine ==
  ASSUME Types, NEW x \in Txs, NEW d \in CheckUserTx(x), d.addr # NoOne
  PROVE  /\ Genuine(x, d)
         /\ ledger[x] \in {"included", "attached"}
         /\ SameBothWays(x) => Led(x, d)
<1>1. LogsOf(x) \in Seq(Logs) /\ content[x].kind \in {"evm", "iota", "shimmer"}
  BY LogsAreLogs
<1>2. CASE content[x].kind = "evm"
  <2>1. d \in FirstLog(content[x]) /\ ledger[x] = "included"
    BY <1>2 DEF CheckUserTx
  <2>2. PICK i \in FirstOwn(LogsOf(x)) : LogsOf(x)[i] = d /\ d.way = "in"
    BY <2>1 DEF FirstLog, DepositsAt, LogsOf
  <2>3. i \in DOMAIN LogsOf(x) /\ i \in Nat \ {0}
    BY <1>1, <2>2 DEF FirstOwn, Own
  <2>4. ASSUME SameBothWays(x)
        PROVE  Led(x, d)
    <3>1. Passes(LogsOf(x)[i]) /\ LogsOf(x)[i].to = LogsOf(x)[i].addr
      BY <1>2, <2>2, <2>4 DEF SameBothWays
    <3>2. ASSUME NEW h \in 1..(i - 1), Passes(LogsOf(x)[h])
          PROVE  FALSE
      <4>1. h \in DOMAIN LogsOf(x)
        BY <1>1, <2>3
      <4>2. h \in Own(LogsOf(x))
        BY <3>2, <4>1 DEF Own, Passes
      <4> QED BY <2>2, <2>3, <4>2 DEF FirstOwn
    <3>3. Leader(x, i)
      BY <1>2, <2>3, <3>1, <3>2 DEF Leader
    <3>4. LogsOf(x)[i] \in Logs
      BY <1>1, <2>3
    <3>5. Heard(x, LogsOf(x)[i]) = LogsOf(x)[i]
      BY <1>2, <3>1, <3>4 DEF Heard, Logs
    <3> QED BY <2>2, <2>3, <3>3, <3>5 DEF Led
  <2> QED BY <2>1, <2>2, <2>3, <2>4 DEF Genuine
<1>3. CASE content[x].kind = "iota"
  <2>1. d \in SomeOutput(content[x]) /\ ledger[x] \in {"attached", "included"}
    BY <1>3 DEF CheckUserTx
  <2>2. PICK i \in Own(LogsOf(x)) : LogsOf(x)[i] = d /\ d.way = "in"
    BY <2>1 DEF SomeOutput, DepositsAt, LogsOf
  <2>3. i \in DOMAIN LogsOf(x) /\ Leader(x, i)
    BY <1>3, <2>2 DEF Own, Leader
  <2>4. Led(x, d)
    BY <1>3, <2>2, <2>3 DEF Led, Heard
  <2> QED BY <2>1, <2>2, <2>3, <2>4 DEF Genuine
<1>4. CASE content[x].kind = "shimmer"
  BY <1>4 DEF CheckUserTx, NoAnswer
<1> QED BY <1>1, <1>2, <1>3, <1>4

\* Dealing with a genuine order keeps the votes genuine, and those on a transaction
\* whose leader it is with the leader.
LEMMA DealKeepsVotes ==
  ASSUME Types, VoteIsDeposit, VotesFollow, NEW v \in Validators, NEW x \in Txs, NEW d,
         d.addr = NoOne \/ Genuine(x, d),
         UNCHANGED <<content, ledger>>, torn \subseteq torn', hasty \subseteq hasty',
         d.addr # NoOne => (ledger[x] = "included" \/ x \in hasty'),
         d.addr # NoOne /\ Clear(x)' /\ x \notin dealedOrders[v] =>
             Led(x, d),
         DealOrder(v, x, d)
  PROVE  /\ dealedOrders' \in [Validators -> SUBSET Txs]
         /\ votes' \subseteq [by : Validators, tx : Txs, to : STRING, amount : Nat]
         /\ VoteIsDeposit' /\ VotesFollow'
<1>1. dealedOrders' \in [Validators -> SUBSET Txs]
  BY DEF DealOrder, Types, tableVars
<1>2. \A y : /\ LogsOf(y)' = LogsOf(y) /\ SameBothWays(y)' = SameBothWays(y)
             /\ Clear(y)' => Clear(y)
             /\ \A i : Leader(y, i)' = Leader(y, i)
             /\ \A l : Heard(y, l)' = Heard(y, l)
  <2>1. content' = content
    OBVIOUS
  <2>2. \A y : LogsOf(y)' = LogsOf(y)
    BY <2>1 DEF LogsOf
  <2>3. \A y : SameBothWays(y)' = SameBothWays(y)
    BY <2>1, <2>2 DEF SameBothWays
  <2>4. \A y : Clear(y)' => Clear(y)
    BY <2>3 DEF Clear
  <2>5. \A y, i : Leader(y, i)' = Leader(y, i)
    BY <2>1, <2>2 DEF Leader
  <2>6. \A y, l : Heard(y, l)' = Heard(y, l)
    BY <2>1 DEF Heard
  <2> QED BY <2>2, <2>3, <2>4, <2>5, <2>6
<1>3. CASE votes' = votes
  <2>1. VoteIsDeposit'
    BY <1>2, <1>3 DEF VoteIsDeposit
  <2>2. VotesFollow'
    BY <1>2, <1>3 DEF VotesFollow
  <2> QED BY <1>1, <1>3, <2>1, <2>2 DEF Types
<1>4. CASE votes' # votes
  <2> DEFINE b0 == [by |-> v, tx |-> x, to |-> d.to, amount |-> d.amount]
  <2>1. /\ x \notin dealedOrders[v] /\ d.addr # NoOne
        /\ votes' = votes \cup {b0}
    BY <1>4 DEF DealOrder, Send, tableVars
  <2>2. PICK i \in DOMAIN LogsOf(x) : /\ LogsOf(x)[i].way = "in"
                                      /\ d = LogsOf(x)[i] \/ d = Heard(x, LogsOf(x)[i])
    BY <2>1 DEF Genuine
  <2>3. /\ LogsOf(x)[i] \in Logs /\ d \in Logs
        /\ d.to \in {LogsOf(x)[i].to, LogsOf(x)[i].addr} /\ d.amount = LogsOf(x)[i].amount
    <3>1. LogsOf(x)[i] \in Logs
      BY LogsAreLogs
    <3> QED BY <2>2, <3>1 DEF Heard, Logs
  <2>4. b0 \in [by : Validators, tx : Txs, to : STRING, amount : Nat]
    BY <2>3, AmountAssumption DEF Logs
  <2>5. VoteIsDeposit'
    <3> SUFFICES ASSUME NEW b \in votes'
                 PROVE  /\ \E h \in DOMAIN LogsOf(b.tx) :
                              LET e == LogsOf(b.tx)[h]
                              IN  e.way = "in" /\ b.to \in {e.to, e.addr} /\ b.amount = e.amount
                        /\ ledger[b.tx] = "included" \/ b.tx \in hasty'
      BY <1>2 DEF VoteIsDeposit
    <3>1. CASE b \in votes
      BY <3>1 DEF VoteIsDeposit
    <3>2. CASE b = b0
      BY <2>1, <2>2, <2>3, <3>2
    <3> QED BY <2>1, <3>1, <3>2
  <2>6. VotesFollow'
    <3> SUFFICES ASSUME NEW b \in votes', Clear(b.tx)'
                 PROVE  \E h \in DOMAIN LogsOf(b.tx) :
                           LET e == Heard(b.tx, LogsOf(b.tx)[h])
                           IN  Leader(b.tx, h) /\ e.to = b.to /\ e.amount = b.amount
      BY <1>2 DEF VotesFollow
    <3>1. CASE b \in votes
      BY <1>2, <3>1 DEF VotesFollow
    <3>2. CASE b = b0
      BY <2>1, <3>2 DEF Led
    <3> QED BY <2>1, <3>1, <3>2
  <2> QED BY <1>1, <2>1, <2>4, <2>5, <2>6 DEF Types
<1> QED BY <1>3, <1>4

\* An order that was dealt with is in dealedOrders, and nothing leaves it.
LEMMA DealGrows ==
  ASSUME Types, NEW v \in Validators, NEW x \in Txs, NEW d, DealOrder(v, x, d)
  PROVE  /\ x \in dealedOrders'[v]
         /\ \A w \in Validators : dealedOrders[w] \subseteq dealedOrders'[w]
  BY DEF DealOrder, Types, tableVars

\* The next log of a validator after a step with the next one of x.
LEMMA AdvanceNext ==
  ASSUME Types, NEW v \in Validators, NEW x \in Txs, Advance(v, x)
  PROVE  /\ next' \in [Validators -> [Txs -> Nat \ {0}]]
         /\ next'[v][x] = next[v][x] + 1
         /\ \A w \in Validators, y \in Txs : (w # v \/ y # x) => next'[w][y] = next[w][y]
<1>1. next' = [next EXCEPT ![v][x] = @ + 1] /\ next \in [Validators -> [Txs -> Nat \ {0}]]
  BY DEF Advance, Types
<1> QED BY <1>1

\* Initially nobody has voted and nobody is in the middle of a transaction.
LEMMA InitDepInv == Init => DepInv
<1> SUFFICES ASSUME Init
             PROVE  DepInv
  OBVIOUS
<1>1. Types
  BY DEF Init, Types
<1>2. MidwayIsDealt
  BY DEF Init, MidwayIsDealt, Midway
<1>3. VoteIsDeposit /\ VotesFollow
  BY DEF Init, VoteIsDeposit, VotesFollow
<1> QED BY <1>1, <1>2, <1>3 DEF DepInv

\* A step that leaves the votes and the ledger alone keeps what is said of votes.
LEMMA QuietKeepsVotes ==
  ASSUME VoteIsDeposit, VotesFollow, UNCHANGED <<content, ledger, votes>>,
         torn \subseteq torn', hasty \subseteq hasty'
  PROVE  VoteIsDeposit' /\ VotesFollow'
<1>1. content' = content /\ ledger' = ledger /\ votes' = votes
  OBVIOUS
<1>2. \A y : LogsOf(y)' = LogsOf(y)
  BY <1>1 DEF LogsOf
<1>3. \A y : Clear(y)' => Clear(y)
  BY <1>1, <1>2 DEF Clear, SameBothWays
<1>4. \A y, i : Leader(y, i)' = Leader(y, i)
  BY <1>1, <1>2 DEF Leader
<1>5. VoteIsDeposit'
  BY <1>1, <1>2 DEF VoteIsDeposit
<1>6. \A y, l : Heard(y, l)' = Heard(y, l)
  BY <1>1 DEF Heard
<1>7. VotesFollow'
  BY <1>1, <1>2, <1>3, <1>4, <1>6 DEF VotesFollow
<1> QED BY <1>5, <1>7

\* A log that is pushed and passes is the leader, unless its transaction is known.
LEMMA PushIsGenuine ==
  ASSUME Types, MidwayIsDealt, NEW v \in Validators, NEW x \in Txs, Pushed(v, x),
         Passes(LogsOf(x)[next[v][x]])
  PROVE  /\ Genuine(x, Heard(x, LogsOf(x)[next[v][x]]))
         /\ Clear(x) /\ x \notin dealedOrders[v] => Leader(x, next[v][x])
<1>1. LogsOf(x) \in Seq(Logs) /\ next[v][x] \in Nat \ {0}
  BY LogsAreLogs DEF Types
<1>2. next[v][x] \in DOMAIN LogsOf(x)
  BY <1>1 DEF Pushed
<1>3. Genuine(x, Heard(x, LogsOf(x)[next[v][x]]))
  BY <1>2 DEF Genuine, Passes
<1>4. ASSUME Clear(x), x \notin dealedOrders[v]
      PROVE  Leader(x, next[v][x])
  <2>1. CASE content[x].kind = "iota"
    BY <1>2, <2>1 DEF Leader, Own, Passes
  <2>2. CASE content[x].kind # "iota"
    <3>1. ASSUME NEW h \in 1..(next[v][x] - 1), Passes(LogsOf(x)[h])
          PROVE  FALSE
      <4>1. Midway(v, x)
        BY <1>1 DEF Midway, Pushed
      <4>2. <<v, x>> \notin torn
        BY <1>4 DEF Clear
      <4> QED BY <1>4, <3>1, <4>1, <4>2 DEF MidwayIsDealt
    <3> QED BY <1>2, <2>2, <3>1 DEF Leader
  <2> QED BY <2>1, <2>2
<1> QED BY <1>3, <1>4

\* A step that forgets dealedOrders of v, and notes what this tears.
LEMMA ForgetKeepsMidway ==
  ASSUME Types, MidwayIsDealt, NEW v \in Validators, UNCHANGED <<content, next>>,
         dealedOrders' = [dealedOrders EXCEPT ![v] = {}], TornBy(v)
  PROVE  MidwayIsDealt' /\ dealedOrders' \in [Validators -> SUBSET Txs] /\ torn \subseteq torn'
<1>1. content' = content /\ next' = next
  OBVIOUS
<1>2. \A y : LogsOf(y)' = LogsOf(y)
  BY <1>1 DEF LogsOf
<1>3. \A w, y : Midway(w, y)' = Midway(w, y)
  BY <1>1, <1>2 DEF Midway
<1>4. dealedOrders' \in [Validators -> SUBSET Txs] /\ torn \subseteq torn'
  BY DEF Types, TornBy
<1>5. MidwayIsDealt'
  <2> SUFFICES ASSUME NEW w \in Validators, NEW y \in Txs, <<w, y>> \notin torn', Midway(w, y),
                      NEW h \in 1..(next[w][y] - 1), Passes(LogsOf(y)[h])
               PROVE  y \in dealedOrders'[w]
    BY <1>1, <1>2, <1>3 DEF MidwayIsDealt
  <2>1. CASE w = v
    BY <2>1 DEF TornBy
  <2>2. CASE w # v
    BY <1>4, <2>2 DEF MidwayIsDealt, Types
  <2> QED BY <2>1, <2>2
<1> QED BY <1>4, <1>5

\* Every step of the validators and of the ledger keeps the invariant.
LEMMA DepInvStep == DepInv /\ [Next]_vars => DepInv'
<1> SUFFICES ASSUME DepInv, [Next]_vars
             PROVE  DepInv'
  OBVIOUS
<1> USE DEF DepInv
<1>1. ASSUME NEW v \in Validators, NEW x \in Txs, Push(v, x)
      PROVE  DepInv'
  <2> DEFINE l == LogsOf(x)[next[v][x]]
             d == Heard(x, l)
  <2>1. content' = content /\ ledger' = ledger /\ torn' = torn /\ hasty' = hasty
    BY <1>1 DEF Push, histVars
  <2>2. Pushed(v, x) /\ Advance(v, x)
    BY <1>1 DEF Push
  <2>3. /\ next' \in [Validators -> [Txs -> Nat \ {0}]]
        /\ next'[v][x] = next[v][x] + 1
        /\ \A w \in Validators, y \in Txs : (w # v \/ y # x) => next'[w][y] = next[w][y]
    BY <2>2, AdvanceNext
  <2>4. \A y : LogsOf(y)' = LogsOf(y)
    BY <2>1 DEF LogsOf
  <2>5. CASE Passes(l)
    <3>1. DealOrder(v, x, d)
      BY <1>1, <2>5 DEF Push
    <3>2. /\ Genuine(x, d)
          /\ Clear(x) /\ x \notin dealedOrders[v] => Leader(x, next[v][x])
      BY <2>2, <2>5, PushIsGenuine
    <3>3. Clear(x)' => Clear(x)
      BY <2>1, <2>4 DEF Clear, SameBothWays
    <3>4. Clear(x)' /\ x \notin dealedOrders[v] =>
             Led(x, d)
      BY <3>2, <3>3 DEF Leader, Led
    <3>5. ledger[x] = "included"
      BY <2>2 DEF Pushed
    <3>6. /\ dealedOrders' \in [Validators -> SUBSET Txs]
          /\ votes' \subseteq [by : Validators, tx : Txs, to : STRING, amount : Nat]
          /\ VoteIsDeposit' /\ VotesFollow'
      <4> HIDE DEF d
      <4> QED BY <2>1, <3>1, <3>2, <3>4, <3>5, DealKeepsVotes
    <3>7. x \in dealedOrders'[v] /\ \A w \in Validators : dealedOrders[w] \subseteq dealedOrders'[w]
      BY <3>1, DealGrows
    <3>8. MidwayIsDealt'
      <4> SUFFICES ASSUME NEW w \in Validators, NEW y \in Txs, <<w, y>> \notin torn,
                          Midway(w, y)', NEW h \in 1..(next'[w][y] - 1), Passes(LogsOf(y)[h])
                   PROVE  y \in dealedOrders'[w]
        BY <2>1, <2>4 DEF MidwayIsDealt
      <4>1. CASE w = v /\ y = x
        BY <3>7, <4>1
      <4>2. CASE w # v \/ y # x
        <5>1. next'[w][y] = next[w][y]
          BY <2>3, <4>2
        <5>2. Midway(w, y)
          BY <2>4, <5>1 DEF Midway
        <5> QED BY <3>7, <5>1, <5>2 DEF MidwayIsDealt
      <4> QED BY <4>1, <4>2
    <3> QED BY <2>1, <2>3, <3>6, <3>8 DEF Types
  <2>6. CASE ~Passes(l)
    <3>1. dealedOrders' = dealedOrders /\ votes' = votes
      BY <1>1, <2>6 DEF Push, tableVars
    <3>2. VoteIsDeposit' /\ VotesFollow'
      BY <2>1, <3>1, QuietKeepsVotes
    <3>3. MidwayIsDealt'
      <4> SUFFICES ASSUME NEW w \in Validators, NEW y \in Txs, <<w, y>> \notin torn,
                          Midway(w, y)', NEW h \in 1..(next'[w][y] - 1), Passes(LogsOf(y)[h])
                   PROVE  y \in dealedOrders[w]
        BY <2>1, <2>4, <3>1 DEF MidwayIsDealt
      <4>1. CASE w = v /\ y = x
        <5>1. h # next[v][x]
          BY <2>6, <4>1
        <5>2. next[v][x] \in Nat \ {0} /\ h \in 1..(next[v][x] - 1)
          <6>1. next[v][x] \in Nat \ {0}
            BY DEF Types
          <6>2. h \in 1..next[v][x]
            BY <2>3, <4>1, <6>1
          <6> QED BY <5>1, <6>1, <6>2
        <5>3. Midway(v, x)
          BY <2>2, <5>2 DEF Midway, Pushed
        <5> QED BY <4>1, <5>2, <5>3 DEF MidwayIsDealt
      <4>2. CASE w # v \/ y # x
        <5>1. next'[w][y] = next[w][y]
          BY <2>3, <4>2
        <5>2. Midway(w, y)
          BY <2>4, <5>1 DEF Midway
        <5> QED BY <5>1, <5>2 DEF MidwayIsDealt
      <4> QED BY <4>1, <4>2
    <3> QED BY <2>1, <2>3, <3>1, <3>2, <3>3 DEF Types
  <2> QED BY <2>5, <2>6
<1>2. ASSUME NEW v \in Validators, NEW x \in Txs, Miss(v, x)
      PROVE  DepInv'
  <2>1. /\ content' = content /\ ledger' = ledger /\ torn' = torn \cup {<<v, x>>}
        /\ hasty' = hasty /\ dealedOrders' = dealedOrders /\ votes' = votes
    BY <1>2 DEF Miss, tableVars
  <2>2. /\ next' \in [Validators -> [Txs -> Nat \ {0}]]
        /\ \A w \in Validators, y \in Txs : (w # v \/ y # x) => next'[w][y] = next[w][y]
    BY <1>2, AdvanceNext DEF Miss
  <2>3. VoteIsDeposit' /\ VotesFollow'
    BY <2>1, QuietKeepsVotes
  <2>4. \A y : LogsOf(y)' = LogsOf(y)
    BY <2>1 DEF LogsOf
  <2>5. MidwayIsDealt'
    <3> SUFFICES ASSUME NEW w \in Validators, NEW y \in Txs, <<w, y>> \notin torn',
                        Midway(w, y)', NEW h \in 1..(next'[w][y] - 1), Passes(LogsOf(y)[h])
                 PROVE  y \in dealedOrders[w]
      BY <2>1, <2>4 DEF MidwayIsDealt
    <3>1. next'[w][y] = next[w][y]
      BY <2>1, <2>2
    <3>2. Midway(w, y)
      BY <2>4, <3>1 DEF Midway
    <3> QED BY <2>1, <3>1, <3>2 DEF MidwayIsDealt
  <2> QED BY <2>1, <2>2, <2>3, <2>5 DEF Types
<1>3. ASSUME NEW v \in Validators, NEW x \in Txs, Again(v, x)
      PROVE  DepInv'
  <2>1. /\ content' = content /\ ledger' = ledger /\ torn' = torn /\ hasty' = hasty
        /\ dealedOrders' = dealedOrders /\ votes' = votes
    BY <1>3 DEF Again, tableVars, histVars
  <2>2. /\ next' \in [Validators -> [Txs -> Nat \ {0}]] /\ next'[v][x] = 1
        /\ \A w \in Validators, y \in Txs : (w # v \/ y # x) => next'[w][y] = next[w][y]
    <3>1. next' = [next EXCEPT ![v][x] = 1] /\ next \in [Validators -> [Txs -> Nat \ {0}]]
      BY <1>3 DEF Again, Types
    <3> QED BY <3>1
  <2>3. VoteIsDeposit' /\ VotesFollow'
    BY <2>1, QuietKeepsVotes
  <2>4. \A y : LogsOf(y)' = LogsOf(y)
    BY <2>1 DEF LogsOf
  <2>5. MidwayIsDealt'
    <3> SUFFICES ASSUME NEW w \in Validators, NEW y \in Txs, <<w, y>> \notin torn,
                        Midway(w, y)', NEW h \in 1..(next'[w][y] - 1), Passes(LogsOf(y)[h])
                 PROVE  y \in dealedOrders[w]
      BY <2>1, <2>4 DEF MidwayIsDealt
    <3>1. next'[w][y] = next[w][y]
      BY <2>2
    <3>2. Midway(w, y)
      BY <2>4, <3>1 DEF Midway
    <3> QED BY <3>1, <3>2 DEF MidwayIsDealt
  <2> QED BY <2>1, <2>2, <2>3, <2>5 DEF Types
<1>4. ASSUME NEW v \in Validators, NEW x \in Txs, Record(v, x)
      PROVE  DepInv'
  <2>1. /\ content' = content /\ ledger' = ledger /\ torn' = torn /\ next' = next
        /\ hasty' = IF ledger[x] = "attached" THEN hasty \cup {x} ELSE hasty
    BY <1>4 DEF Record
  <2>2. PICK d \in CheckUserTx(x) : DealOrder(v, x, d)
    BY <1>4 DEF Record
  <2>3. d.addr # NoOne => /\ Genuine(x, d)
                          /\ ledger[x] = "included" \/ x \in hasty'
                          /\ SameBothWays(x) => Led(x, d)
    BY <2>1, CheckIsGenuine
  <2>4. \A y : LogsOf(y)' = LogsOf(y)
    BY <2>1 DEF LogsOf
  <2>5. Clear(x)' => SameBothWays(x)
    BY <2>1, <2>4 DEF Clear, SameBothWays
  <2>6. /\ dealedOrders' \in [Validators -> SUBSET Txs]
        /\ votes' \subseteq [by : Validators, tx : Txs, to : STRING, amount : Nat]
        /\ VoteIsDeposit' /\ VotesFollow'
    <3>1. torn \subseteq torn' /\ hasty \subseteq hasty'
      BY <2>1
    <3>2. d.addr = NoOne \/ Genuine(x, d)
      BY <2>3
    <3>3. d.addr # NoOne => (ledger[x] = "included" \/ x \in hasty')
      BY <2>3
    <3>4. d.addr # NoOne /\ Clear(x)' /\ x \notin dealedOrders[v] => Led(x, d)
      BY <2>3, <2>5
    <3> QED BY <2>1, <2>2, <3>1, <3>2, <3>3, <3>4, DealKeepsVotes
  <2>7. \A w \in Validators : dealedOrders[w] \subseteq dealedOrders'[w]
    BY <2>2, DealGrows
  <2>8. MidwayIsDealt'
    BY <2>1, <2>4, <2>7 DEF MidwayIsDealt, Midway
  <2> QED BY <2>1, <2>6, <2>8 DEF Types
<1>5. ASSUME NEW v \in Validators, NEW x \in Txs, ExpiredSent(v, x)
      PROVE  DepInv'
  <2>1. /\ content' = content /\ ledger' = ledger /\ torn' = torn /\ hasty' = hasty
        /\ next' = next /\ dealedOrders' = dealedOrders /\ votes' = votes
    BY <1>5 DEF ExpiredSent, histVars
  <2>2. VoteIsDeposit' /\ VotesFollow'
    BY <2>1, QuietKeepsVotes
  <2>3. MidwayIsDealt'
    BY <2>1 DEF MidwayIsDealt, Midway, LogsOf
  <2> QED BY <2>1, <2>2, <2>3 DEF Types
<1>6. ASSUME NEW v \in Validators, Expired(v) \/ Restart(v)
      PROVE  DepInv'
  <2>1. /\ content' = content /\ ledger' = ledger /\ hasty' = hasty /\ next' = next
        /\ votes' = votes /\ dealedOrders' = [dealedOrders EXCEPT ![v] = {}] /\ TornBy(v)
    BY <1>6 DEF Expired, Restart
  <2>2. MidwayIsDealt' /\ dealedOrders' \in [Validators -> SUBSET Txs] /\ torn \subseteq torn'
    BY <2>1, ForgetKeepsMidway
  <2>3. VoteIsDeposit' /\ VotesFollow'
    BY <2>1, <2>2, QuietKeepsVotes
  <2> QED BY <2>1, <2>2, <2>3 DEF Types
<1>7. ASSUME NEW x \in Txs, Settle(x)
      PROVE  DepInv'
  <2>1. /\ content' = content /\ torn' = torn /\ hasty' = hasty
        /\ next' = next /\ dealedOrders' = dealedOrders /\ votes' = votes
    BY <1>7 DEF Settle, histVars, tableVars
  <2>2. /\ ledger' \in [Txs -> {"none", "attached", "included", "conflict"}]
        /\ \A y \in Txs : ledger[y] = "included" => ledger'[y] = "included"
    BY <1>7 DEF Settle, Types
  <2>3. \A y : LogsOf(y)' = LogsOf(y)
    BY <2>1 DEF LogsOf
  <2>4. VoteIsDeposit'
    BY <2>1, <2>2, <2>3 DEF VoteIsDeposit, Types
  <2>5. VotesFollow'
    <3>1. \A y : Clear(y)' => Clear(y)
      BY <2>1, <2>3 DEF Clear, SameBothWays
    <3>2. \A y, i : Leader(y, i)' = Leader(y, i)
      BY <2>1, <2>3 DEF Leader
    <3>3. \A y, l : Heard(y, l)' = Heard(y, l)
      BY <2>1 DEF Heard
    <3> QED BY <2>1, <2>3, <3>1, <3>2, <3>3 DEF VotesFollow
  <2>6. MidwayIsDealt'
    BY <2>1 DEF MidwayIsDealt, Midway, LogsOf
  <2> QED BY <2>1, <2>2, <2>4, <2>5, <2>6 DEF Types
<1>8. ASSUME UNCHANGED vars
      PROVE  DepInv'
  <2>1. /\ content' = content /\ ledger' = ledger /\ torn' = torn /\ hasty' = hasty
        /\ next' = next /\ dealedOrders' = dealedOrders /\ votes' = votes
    BY <1>8 DEF vars, histVars, tableVars
  <2>2. VoteIsDeposit' /\ VotesFollow'
    BY <2>1, QuietKeepsVotes
  <2>3. MidwayIsDealt'
    BY <2>1 DEF MidwayIsDealt, Midway, LogsOf
  <2> QED BY <2>1, <2>2, <2>3 DEF Types
<1> QED BY <1>1, <1>2, <1>3, <1>4, <1>5, <1>6, <1>7, <1>8 DEF Next

\* The invariant that both theorems rest on.
LEMMA DepInvHolds == Spec => []DepInv
  BY InitDepInv, DepInvStep, PTL DEF Spec

\* dealWrapOrder votes for a deposit that is in the transaction, whichever way the
\* order came, and for one that is in the ledger unless a record made it read early.
THEOREM VotesAreDeposits == Spec => []VoteIsDeposit
<1>1. DepInv => VoteIsDeposit
  BY DEF DepInv
<1> QED BY <1>1, DepInvHolds, PTL

\* All votes on a transaction name the same recipient and amount, where listener and
\* record make the same order of it and nobody saw it in pieces.
THEOREM VotesOnATxAgree == Spec => []VotesAgree
<1>1. DepInv => VotesAgree
  BY FollowersAgree DEF DepInv
<1> QED BY <1>1, DepInvHolds, PTL

\* Dealing with an order notes it as sent only with its vote.
LEMMA DealKeepsSent ==
  ASSUME TypeOK, NEW v \in Validators, NEW x \in Txs, NEW d, DealOrder(v, x, d)
  PROVE  /\ dealedOrders' \in [Validators -> SUBSET Txs]
         /\ sentEvmUserTxes' \in [Validators -> SUBSET Txs]
         /\ tried' \subseteq Validators \X Txs
         /\ \A w \in Validators : \A y \in sentEvmUserTxes'[w] :
               \E b \in votes' : b.tx = y /\ b.by = w
<1>1. /\ dealedOrders' \in [Validators -> SUBSET Txs]
      /\ tried' \subseteq Validators \X Txs
  BY DEF DealOrder, TypeOK, tableVars
<1>2. votes \subseteq votes'
  BY DEF DealOrder, Send, tableVars
<1>3. \A w \in Validators : \A y \in sentEvmUserTxes[w] : \E b \in votes : b.tx = y /\ b.by = w
  BY DEF TypeOK, VotesOn
<1>4. CASE sentEvmUserTxes' = sentEvmUserTxes
  BY <1>1, <1>2, <1>3, <1>4 DEF TypeOK
<1>5. CASE sentEvmUserTxes' # sentEvmUserTxes
  <2> DEFINE b0 == [by |-> v, tx |-> x, to |-> d.to, amount |-> d.amount]
  <2>1. b0 \in votes' /\ sentEvmUserTxes' = [sentEvmUserTxes EXCEPT ![v] = @ \cup {x}]
    BY <1>5 DEF DealOrder, Send, tableVars
  <2>2. b0.tx = x /\ b0.by = v
    OBVIOUS
  <2>3. sentEvmUserTxes' \in [Validators -> SUBSET Txs]
    BY <2>1 DEF TypeOK
  <2>4. ASSUME NEW w \in Validators, NEW y \in sentEvmUserTxes'[w]
        PROVE  \E b \in votes' : b.tx = y /\ b.by = w
    <3>1. CASE y \in sentEvmUserTxes[w]
      BY <1>2, <1>3, <3>1
    <3>2. CASE y \notin sentEvmUserTxes[w]
      <4>1. w = v /\ y = x
        BY <2>1, <2>4, <3>2 DEF TypeOK
      <4> QED BY <2>1, <2>2, <4>1
    <3> QED BY <3>1, <3>2
  <2> QED BY <1>1, <2>3, <2>4
<1> QED BY <1>4, <1>5

\* The types hold initially ...
LEMMA InitTyped == Init => Types /\ TypeOK
<1> SUFFICES ASSUME Init
             PROVE  Types /\ TypeOK
  OBVIOUS
<1>1. Types
  BY DEF Init, Types
<1>2. \A x \in Txs : LogsOf(x) \in Seq(Logs)
  BY <1>1, LogsAreLogs
<1>3. \A v \in Validators, x \in Txs : next[v][x] \in 1..(Len(LogsOf(x)) + 1)
  BY <1>2 DEF Init
<1> QED BY <1>1, <1>3 DEF Init, TypeOK

\* ... and are kept by every step.
LEMMA TypedStep == Types /\ TypeOK /\ [Next]_vars => TypeOK'
<1> SUFFICES ASSUME Types, TypeOK, [Next]_vars
             PROVE  TypeOK'
  OBVIOUS
<1> DEFINE Sent == \A w \in Validators : \A y \in sentEvmUserTxes[w] :
                      \E b \in votes : b.tx = y /\ b.by = w
           Fits == \A v \in Validators, x \in Txs : next[v][x] \in 1..(Len(LogsOf(x)) + 1)
<1>1. Sent /\ Fits
  BY DEF TypeOK, VotesOn
<1>2. content' = content /\ content' \in [Txs -> Contents]
  BY DEF Types, Next, Push, Miss, Again, Record, ExpiredSent, Expired, Restart, Settle, vars
<1>3. \A y : LogsOf(y)' = LogsOf(y)
  BY <1>2 DEF LogsOf
<1>4. \A y \in Txs : LogsOf(y) \in Seq(Logs)
  BY LogsAreLogs
<1>5. SUFFICES ASSUME NEW v \in Validators, NEW x \in Txs,
                      \/ Push(v, x) \/ Miss(v, x) \/ Again(v, x) \/ Record(v, x)
                      \/ ExpiredSent(v, x)
               PROVE  TypeOK'
  <2>1. ASSUME NEW v \in Validators, Expired(v) \/ Restart(v)
        PROVE  TypeOK'
    <3>1. /\ ledger' = ledger /\ next' = next /\ votes' = votes /\ tried' = tried
          /\ hasty' = hasty /\ dealedOrders' = [dealedOrders EXCEPT ![v] = {}]
          /\ torn' = torn \cup {<<v, x>> : x \in {y \in Txs : Midway(v, y)}}
          /\ \/ sentEvmUserTxes' = sentEvmUserTxes
             \/ sentEvmUserTxes' = [sentEvmUserTxes EXCEPT ![v] = {}]
      BY <2>1 DEF Expired, Restart, TornBy
    <3>2. /\ dealedOrders' \in [Validators -> SUBSET Txs]
          /\ sentEvmUserTxes' \in [Validators -> SUBSET Txs]
          /\ \A w \in Validators : sentEvmUserTxes'[w] \subseteq sentEvmUserTxes[w]
      BY <3>1 DEF TypeOK
    <3>3. torn' \subseteq Validators \X Txs
      BY <3>1 DEF TypeOK
    <3>4. Sent'
      BY <1>1, <3>1, <3>2
    <3>5. Fits'
      BY <1>1, <1>3, <3>1
    <3> QED BY <1>2, <3>1, <3>2, <3>3, <3>4, <3>5 DEF TypeOK, VotesOn
  <2>2. ASSUME NEW x \in Txs, Settle(x)
        PROVE  TypeOK'
    <3>1. /\ next' = next /\ votes' = votes /\ tried' = tried /\ torn' = torn /\ hasty' = hasty
          /\ dealedOrders' = dealedOrders /\ sentEvmUserTxes' = sentEvmUserTxes
          /\ ledger' \in [Txs -> {"none", "attached", "included", "conflict"}]
      BY <2>2 DEF Settle, histVars, tableVars, TypeOK
    <3>2. Fits'
      BY <1>1, <1>3, <3>1
    <3> QED BY <1>1, <1>2, <3>1, <3>2 DEF TypeOK, VotesOn
  <2>3. ASSUME UNCHANGED vars
        PROVE  TypeOK'
    <3>1. /\ next' = next /\ votes' = votes /\ tried' = tried /\ torn' = torn /\ hasty' = hasty
          /\ dealedOrders' = dealedOrders /\ sentEvmUserTxes' = sentEvmUserTxes
          /\ ledger' = ledger
      BY <2>3 DEF vars, histVars, tableVars
    <3>2. Fits'
      BY <1>1, <1>3, <3>1
    <3> QED BY <1>1, <1>2, <3>1, <3>2 DEF TypeOK, VotesOn
  <2> QED BY <2>1, <2>2, <2>3 DEF Next
<1>6. ledger' = ledger
  BY <1>5 DEF Push, Miss, Again, Record, ExpiredSent
<1>7. torn' \subseteq Validators \X Txs /\ hasty' \subseteq Txs
  BY <1>5 DEF Push, Miss, Again, Record, ExpiredSent, histVars, TypeOK
<1>8. Fits'
  <2>1. next[v][x] \in Nat \ {0} /\ Len(LogsOf(x)) \in Nat
    BY <1>4 DEF Types
  <2>2. CASE next' = next
    BY <1>1, <1>3, <2>2
  <2>3. CASE Pushed(v, x) /\ Advance(v, x)
    <3>1. /\ next'[v][x] = next[v][x] + 1
          /\ \A w \in Validators, y \in Txs : (w # v \/ y # x) => next'[w][y] = next[w][y]
      BY <2>3, AdvanceNext
    <3>2. next'[v][x] \in 1..(Len(LogsOf(x)) + 1)
      BY <2>1, <2>3, <3>1 DEF Pushed
    <3> QED BY <1>1, <1>3, <3>1, <3>2
  <2>4. CASE next' = [next EXCEPT ![v][x] = 1]
    <3>1. /\ next'[v][x] = 1
          /\ \A w \in Validators, y \in Txs : (w # v \/ y # x) => next'[w][y] = next[w][y]
      BY <2>4 DEF Types
    <3>2. next'[v][x] \in 1..(Len(LogsOf(x)) + 1)
      BY <2>1, <3>1
    <3> QED BY <1>1, <1>3, <3>1, <3>2
  <2> QED BY <1>5, <2>2, <2>3, <2>4 DEF Push, Miss, Again, Record, ExpiredSent
<1>9. /\ dealedOrders' \in [Validators -> SUBSET Txs]
      /\ sentEvmUserTxes' \in [Validators -> SUBSET Txs]
      /\ tried' \subseteq Validators \X Txs
      /\ Sent'
  <2>1. CASE \E d : DealOrder(v, x, d)
    BY <2>1, DealKeepsSent
  <2>2. CASE UNCHANGED <<tableVars, votes, tried>>
    BY <1>1, <2>2 DEF tableVars, TypeOK
  <2>3. CASE ExpiredSent(v, x)
    <3>1. /\ dealedOrders' = dealedOrders /\ tried' = tried /\ votes' = votes
          /\ sentEvmUserTxes' = [sentEvmUserTxes EXCEPT ![v] = @ \ {x}]
      BY <2>3 DEF ExpiredSent
    <3>2. /\ sentEvmUserTxes' \in [Validators -> SUBSET Txs]
          /\ \A w \in Validators : sentEvmUserTxes'[w] \subseteq sentEvmUserTxes[w]
      BY <3>1 DEF TypeOK
    <3> QED BY <1>1, <3>1, <3>2 DEF TypeOK
  <2> QED BY <1>5, <2>1, <2>2, <2>3 DEF Push, Miss, Again, Record
<1> QED BY <1>2, <1>6, <1>7, <1>8, <1>9 DEF TypeOK, VotesOn

\* The types of the two ways, and: what a validator notes as sent it has voted on.
THEOREM DepositsAreWellTyped == Spec => []TypeOK
<1>1. DepInv => Types
  BY DEF DepInv
<1> QED BY <1>1, DepInvHolds, InitTyped, TypedStep, PTL DEF Spec

-----------------------------------------------------------------------------
(* What has been pushed has been tried.                                    *)

\* An id in dealedOrders stands for a deposit that was dealt with, but for the empty
\* orders of tokens/smr and those to the zero address.
DealtIsTried ==
    \A v \in Validators, x \in Txs :
        (Addressed(x) /\ x \in dealedOrders[v]) => <<v, x>> \in tried

\* So has every deposit that was pushed to somebody who got all logs before it.
HeardIsTried ==
    \A v \in Validators, x \in Txs :
        (Addressed(x) /\ <<v, x>> \notin torn) =>
            \A h \in 1..(next[v][x] - 1) : Passes(LogsOf(x)[h]) => <<v, x>> \in tried

TriedInv == Types /\ DealtIsTried /\ HeardIsTried

\* Dealing with an order that has a recipient is a try.
LEMMA DealTries ==
  ASSUME TriedInv, NEW v \in Validators, NEW x \in Txs, NEW d, DealOrder(v, x, d),
         Addressed(x) => d.addr # NoOne, \A y \in Txs : Addressed(y)' <=> Addressed(y)
  PROVE  /\ tried \subseteq tried' /\ DealtIsTried'
         /\ Addressed(x) => <<v, x>> \in tried'
<1> USE DEF TriedInv, Types, DealtIsTried
<1>1. CASE x \in dealedOrders[v]
  BY <1>1 DEF DealOrder, tableVars
<1>2. CASE x \notin dealedOrders[v]
  <2>1. /\ dealedOrders' = [dealedOrders EXCEPT ![v] = @ \cup {x}]
        /\ tried \subseteq tried'
        /\ Addressed(x) => <<v, x>> \in tried'
    BY <1>2 DEF DealOrder
  <2>2. ASSUME NEW w \in Validators, NEW y \in Txs, Addressed(y),
               y \in dealedOrders'[w]
        PROVE  <<w, y>> \in tried'
    <3>1. CASE y \in dealedOrders[w]
      BY <2>1, <2>2, <3>1
    <3>2. CASE y \notin dealedOrders[w]
      <4>1. w = v /\ y = x
        BY <2>1, <2>2, <3>2
      <4> QED BY <2>1, <2>2, <4>1
    <3> QED BY <3>1, <3>2
  <2> QED BY <2>1, <2>2
<1> QED BY <1>1, <1>2

\* What CheckUserTx reads from an EVM or a Stardust transaction has a recipient.
LEMMA CheckHasRecipient ==
  ASSUME Types, NEW x \in Txs, NEW d \in CheckUserTx(x), Addressed(x)
  PROVE  d.addr # NoOne
<1>0. content[x].kind # "shimmer"
  BY DEF Addressed
<1>1. content[x] \in Contents /\ content[x].kind \in {"evm", "iota", "shimmer"}
  BY LogsAreLogs DEF Types
<1>2. PICK i \in DOMAIN LogsOf(x) : d = LogsOf(x)[i]
  <2>1. CASE content[x].kind = "evm"
    BY <2>1 DEF CheckUserTx, FirstLog, DepositsAt, FirstOwn, Own, LogsOf
  <2>2. CASE content[x].kind = "iota"
    BY <2>2 DEF CheckUserTx, SomeOutput, DepositsAt, Own, LogsOf
  <2> QED BY <1>0, <1>1, <2>1, <2>2
<1> QED BY <1>2 DEF Addressed

\* Everything that was tried stays so, and every step keeps account of it.
LEMMA TriedInvStep == TriedInv /\ Types' /\ [Next]_vars => TriedInv'
<1> SUFFICES ASSUME TriedInv, Types', [Next]_vars
             PROVE  DealtIsTried' /\ HeardIsTried'
  BY DEF TriedInv
<1>1. /\ content' = content
      /\ \A y : LogsOf(y)' = LogsOf(y)
      /\ \A y \in Txs : Addressed(y)' <=> Addressed(y)
  BY DEF Next, Push, Miss, Again, Record, ExpiredSent, Expired, Restart, Settle, vars, LogsOf,
         Addressed
<1>2. ASSUME NEW v \in Validators, NEW x \in Txs, Push(v, x)
      PROVE  DealtIsTried' /\ HeardIsTried'
  <2> DEFINE l == LogsOf(x)[next[v][x]]
  <2>1. /\ torn' = torn
        /\ next'[v][x] = next[v][x] + 1 /\ next[v][x] \in Nat \ {0}
        /\ \A w \in Validators, y \in Txs : (w # v \/ y # x) => next'[w][y] = next[w][y]
    BY <1>2, AdvanceNext DEF Push, histVars, TriedInv, Types
  <2>2. /\ tried \subseteq tried' /\ DealtIsTried'
        /\ (Passes(l) /\ Addressed(x)) => <<v, x>> \in tried'
    <3>1. CASE Passes(l)
      <4>1. next[v][x] \in DOMAIN LogsOf(x) /\ content[x] \in Contents /\ l \in Logs
        <5>1. LogsOf(x) \in Seq(Logs)
          BY LogsAreLogs DEF TriedInv
        <5> QED BY <1>2, <2>1, <5>1 DEF Push, Pushed, TriedInv, Types
      <4>2. Addressed(x) => l.addr # NoOne
        BY <4>1 DEF Addressed
      <4>3. Heard(x, l).addr = l.addr
        BY <4>1 DEF Heard, Logs
      <4>4. DealOrder(v, x, Heard(x, l))
        BY <1>2, <3>1 DEF Push
      <4> QED BY <1>1, <4>2, <4>3, <4>4, DealTries
    <3>2. CASE ~Passes(l)
      <4>1. UNCHANGED <<tableVars, tried>>
        BY <1>2, <3>2 DEF Push
      <4> QED BY <1>1, <3>2, <4>1 DEF tableVars, TriedInv, DealtIsTried
    <3> QED BY <3>1, <3>2
  <2>3. ASSUME NEW w \in Validators, NEW y \in Txs,
               Addressed(y), <<w, y>> \notin torn,
               NEW h \in 1..(next'[w][y] - 1), Passes(LogsOf(y)[h])
        PROVE  <<w, y>> \in tried'
    <3>1. CASE h \in 1..(next[w][y] - 1)
      BY <2>2, <2>3, <3>1 DEF TriedInv, HeardIsTried
    <3>2. CASE h \notin 1..(next[w][y] - 1)
      <4>1. w = v /\ y = x
        BY <2>1, <2>3, <3>2
      <4>2. h = next[v][x]
        BY <2>1, <2>3, <3>2, <4>1
      <4> QED BY <2>2, <2>3, <4>1, <4>2
    <3> QED BY <3>1, <3>2
  <2> QED BY <1>1, <2>1, <2>2, <2>3 DEF HeardIsTried, Passes
<1>3. ASSUME NEW v \in Validators, NEW x \in Txs, Miss(v, x)
      PROVE  DealtIsTried' /\ HeardIsTried'
  <2>1. /\ UNCHANGED <<dealedOrders, tried>> /\ torn' = torn \cup {<<v, x>>}
        /\ \A w \in Validators, y \in Txs : (w # v \/ y # x) => next'[w][y] = next[w][y]
    BY <1>3, AdvanceNext DEF Miss, tableVars, TriedInv, Types
  <2> QED BY <1>1, <2>1 DEF TriedInv, DealtIsTried, HeardIsTried, Passes
<1>4. ASSUME NEW v \in Validators, NEW x \in Txs, Again(v, x)
      PROVE  DealtIsTried' /\ HeardIsTried'
  <2>1. /\ UNCHANGED <<dealedOrders, tried, torn>> /\ next'[v][x] = 1
        /\ \A w \in Validators, y \in Txs : (w # v \/ y # x) => next'[w][y] = next[w][y]
    BY <1>4 DEF Again, tableVars, histVars, TriedInv, Types
  <2>2. 1..(1 - 1) = {}
    OBVIOUS
  <2> QED BY <1>1, <2>1, <2>2 DEF TriedInv, DealtIsTried, HeardIsTried, Passes
<1>5. ASSUME NEW v \in Validators, NEW x \in Txs, Record(v, x)
      PROVE  DealtIsTried' /\ HeardIsTried'
  <2>1. PICK d \in CheckUserTx(x) : DealOrder(v, x, d)
    BY <1>5 DEF Record
  <2>2. tried \subseteq tried' /\ DealtIsTried'
    BY <1>1, <2>1, DealTries, CheckHasRecipient DEF TriedInv
  <2>3. UNCHANGED <<next, torn>>
    BY <1>5 DEF Record
  <2> QED BY <1>1, <2>2, <2>3 DEF TriedInv, HeardIsTried, Passes
<1>6. ASSUME NEW v \in Validators, Expired(v) \/ Restart(v)
      PROVE  DealtIsTried' /\ HeardIsTried'
  <2>1. /\ UNCHANGED <<next, tried>> /\ torn \subseteq torn'
        /\ dealedOrders' = [dealedOrders EXCEPT ![v] = {}]
    BY <1>6 DEF Expired, Restart, TornBy
  <2>2. \A w \in Validators : dealedOrders'[w] \subseteq dealedOrders[w]
    BY <2>1 DEF TriedInv, Types
  <2> QED BY <1>1, <2>1, <2>2 DEF TriedInv, DealtIsTried, HeardIsTried, Passes
<1>7. ASSUME \/ \E v \in Validators, x \in Txs : ExpiredSent(v, x)
             \/ \E x \in Txs : Settle(x)
             \/ UNCHANGED vars
      PROVE  DealtIsTried' /\ HeardIsTried'
  <2>1. UNCHANGED <<next, tried, torn, dealedOrders>>
    BY <1>7 DEF ExpiredSent, Settle, vars, tableVars, histVars
  <2> QED BY <1>1, <2>1 DEF TriedInv, DealtIsTried, HeardIsTried, Passes
<1> QED BY <1>2, <1>3, <1>4, <1>5, <1>6, <1>7 DEF Next

\* listenWrap, dealWrapOrder and dealTxErrorRecord (server/detect.go,
\* server/txerrdeal.go): a record that comes before the listener's order takes its
\* place in dealedOrders only together with a try, so that no deposit is dropped
\* for a record that came to nothing.
THEOREM PushedDepositsAreTried == Spec => []PushedIsTried
<1>1. Init => TriedInv
  BY InitTyped DEF Init, TriedInv, DealtIsTried, HeardIsTried
<1>2. TriedInv => PushedIsTried
  <2> SUFFICES ASSUME TriedInv, NEW v \in Validators, NEW x \in Txs,
                      next[v][x] > Len(LogsOf(x)), <<v, x>> \notin torn,
                      Addressed(x),
                      NEW i \in DOMAIN LogsOf(x), Passes(LogsOf(x)[i])
               PROVE  <<v, x>> \in tried
    BY DEF PushedIsTried
  <2>1. LogsOf(x) \in Seq(Logs) /\ next[v][x] \in Nat
    BY LogsAreLogs DEF TriedInv, Types
  <2>2. i \in 1..(next[v][x] - 1)
    BY <2>1
  <2> QED BY <2>2 DEF TriedInv, HeardIsTried
<1>3. DepInv => Types
  BY DEF DepInv
<1> QED BY <1>1, <1>2, <1>3, DepInvHolds, TriedInvStep, PTL DEF Spec
=============================================================================
