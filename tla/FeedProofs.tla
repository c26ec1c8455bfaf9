----------------------------- MODULE FeedProofs -----------------------------
(***************************************************************************)
(* For every sequence of events and every capacity of the channel: orders  *)
(* are dealt with in the order of the chain; and where bad data is         *)
(* reported as a type 1 error, a consumer that reconnects leaves no event  *)
(* and no listener behind, and every order is accounted for.               *)
(***************************************************************************)
EXTENDS Feed, SequenceTheorems, TLAPS

\* The parts of the type invariant the argument needs.
FeedTypes == /\ prod \in {"connect", "listen", "close", "ended"}
             /\ cons \in {"range", "deal", "sleep"}
             /\ out \in Seq(Messages) /\ ch \in Seq(Messages) /\ inbox \in Seq(Events)
             /\ emitted \in 0..Len(EventKind) /\ leaked \in Nat

FeedInv == FeedTypes /\ LastWord /\ NothingAbandoned

\* The messages for an event are well typed and no type 0 error is among them
\* (dealWrapEvent, dealUnWrapEvent, dealNewOutput).
LEMMA MessagesOfType ==
  ASSUME MalformedType = 1, NEW e \in Events
  PROVE  /\ MessagesOf(e) \in Seq(Messages)
         /\ \A i \in 1..Len(MessagesOf(e)) : MessagesOf(e)[i] # Err0
<1>1. EventKind[e] \in {"order", "small", "payload", "malformed", "foreign"}
  BY EventKindAssumption DEF Events
<1>2. Order(e) \in Messages /\ Err1 \in Messages
  BY DEF Messages, Order, Err0, Err1
<1>3. Order(e) # Err0 /\ Err1 # Err0
  BY DEF Order, Err0, Err1
<1>4. CASE EventKind[e] \in {"order", "small"}
  <2>1. MessagesOf(e) = <<Order(e)>>
    BY <1>4 DEF MessagesOf
  <2> QED BY <2>1, <1>2, <1>3
<1>5. CASE EventKind[e] = "payload"
  <2>1. MessagesOf(e) = <<Order(e), Err1>>
    BY <1>5 DEF MessagesOf
  <2> QED BY <2>1, <1>2, <1>3
<1>6. CASE EventKind[e] = "malformed"
  <2>1. MessagesOf(e) = <<Err1>>
    BY <1>6 DEF MessagesOf
  <2> QED BY <2>1, <1>2, <1>3
<1>7. CASE EventKind[e] = "foreign"
  <2>1. MessagesOf(e) = << >>
    BY <1>7 DEF MessagesOf
  <2> QED BY <2>1
<1> QED BY <1>1, <1>4, <1>5, <1>6, <1>7

\* Nothing has happened yet.
LEMMA InitFeedInv == Init => FeedInv
  BY EventKindAssumption DEF Init, FeedInv, FeedTypes, LastWord, NothingAbandoned

\* Every step keeps the invariant of the feed.
LEMMA FeedInvStep ==
  ASSUME MalformedType = 1, FeedInv, [Next]_vars
  PROVE  FeedInv'
<1> USE DEF FeedInv
<1>0. Err0 \in Messages
  BY DEF Messages
<1>1. CASE ConnectOk
  BY <1>1 DEF ConnectOk, FeedTypes, LastWord, NothingAbandoned
<1>2. CASE ConnectFail
  <2>1. <<Err0>> \in Seq(Messages)
    BY <1>0
  <2> QED BY <1>2, <2>1 DEF ConnectFail, FeedTypes, LastWord, NothingAbandoned
<1>3. CASE SubFail
  <2>1. <<Err0>> \in Seq(Messages)
    BY <1>0
  <2> QED BY <1>3, <2>1 DEF SubFail, FeedTypes, LastWord, NothingAbandoned
<1>4. CASE Take
  <2>1. Head(inbox) \in Events /\ Tail(inbox) \in Seq(Events)
    BY <1>4 DEF Take, FeedTypes
  <2>2. /\ out' \in Seq(Messages)
        /\ \A i \in 1..Len(out') : out'[i] # Err0
    BY <1>4, <2>1, MessagesOfType DEF Take
  <2> QED BY <1>4, <2>1, <2>2 DEF Take, FeedTypes, LastWord, NothingAbandoned
<1>5. CASE Put
  <2>1. Head(out) = out[1] /\ Head(out) \in Messages /\ Tail(out) \in Seq(Messages)
    BY <1>5 DEF Put, FeedTypes
  <2>2. /\ ch' \in Seq(Messages) /\ Len(ch') = Len(ch) + 1
        /\ ch'[Len(ch) + 1] = out[1]
        /\ \A i \in 1..Len(ch) : ch'[i] = ch[i]
    BY <1>5, <2>1 DEF Put, FeedTypes
  <2>3. Len(Tail(out)) = Len(out) - 1 /\ \A i \in 1..Len(Tail(out)) : Tail(out)[i] = out[i + 1]
    BY <1>5 DEF Put, FeedTypes
  <2>4. FeedTypes'
    BY <1>5, <2>1, <2>2 DEF Put, FeedTypes
  <2>5. NothingAbandoned'
    BY <1>5 DEF Put, NothingAbandoned
  <2>6. cons # "sleep"
    BY <1>5 DEF Put, LastWord
  <2>7. CASE prod = "close"
    <3>1. out' = << >>
      BY <1>5, <2>7 DEF Put, LastWord
    <3>2. prod' = "ended" /\ inbox' = << >>
      BY <1>5, <2>7 DEF Put, LastWord
    <3>3. \A i \in 1..Len(ch) : ch[i] # Err0
      BY <2>7 DEF LastWord
    <3> QED BY <1>5, <2>2, <2>4, <2>5, <2>6, <3>1, <3>2, <3>3 DEF Put, LastWord, FeedTypes
  <2>8. CASE prod = "listen"
    <3>1. \A i \in 1..Len(out) : out[i] # Err0
      BY <2>8 DEF LastWord
    <3>2. \A i \in 1..Len(ch) : ch[i] # Err0
      BY <2>8 DEF LastWord
    <3>3. \A i \in 1..Len(ch') : ch'[i] # Err0
      BY <1>5, <2>2, <3>1, <3>2 DEF Put, FeedTypes
    <3>4. \A i \in 1..Len(out') : out'[i] # Err0
      BY <1>5, <2>3, <3>1 DEF Put, FeedTypes
    <3> QED BY <1>5, <2>4, <2>5, <2>6, <2>8, <3>3, <3>4 DEF Put, LastWord
  <2> QED BY <1>5, <2>7, <2>8 DEF Put, FeedTypes, LastWord
<1>6. CASE Receive
  <2>1. /\ Head(ch) = ch[1] /\ Head(ch) \in Messages
        /\ Tail(ch) \in Seq(Messages) /\ Len(Tail(ch)) = Len(ch) - 1
        /\ \A i \in 1..Len(Tail(ch)) : Tail(ch)[i] = ch[i + 1]
    BY <1>6 DEF Receive, FeedTypes
  <2>2. AfterError(Head(ch)) = IF Head(ch) = Err0 THEN "sleep" ELSE "range"
    BY DEF AfterError
  <2>3. cons' \in {"range", "deal", "sleep"} /\ (cons' = "sleep" => Head(ch) = Err0)
    BY <1>6, <2>2 DEF Receive
  <2>4. FeedTypes' /\ NothingAbandoned'
    BY <1>6, <2>1, <2>3 DEF Receive, FeedTypes, NothingAbandoned
  <2>5. cons' = "sleep" => ch[1] = Err0
    BY <2>1, <2>3
  <2>6. ch # << >> /\ ch \in Seq(Messages) /\ ch' = Tail(ch) /\ prod' = prod
    BY <1>6 DEF Receive, FeedTypes
  <2>7. Len(ch) \in Nat /\ Len(ch) >= 1
    BY <2>6
  <2>8. \A i \in 1..Len(ch) : ch[i] = Err0 => i = Len(ch) /\ prod = "ended"
    BY DEF LastWord
  <2>9. ch[1] = Err0 => Len(ch) = 1 /\ prod = "ended"
    BY <2>7, <2>8
  <2>10. cons' = "sleep" => prod' = "ended" /\ ch' = << >>
    BY <1>6, <2>1, <2>5, <2>9 DEF Receive, FeedTypes
  <2>11. \A i \in 1..Len(ch') : ch'[i] = Err0 => i = Len(ch') /\ prod' = "ended"
    <3> SUFFICES ASSUME NEW i \in 1..Len(ch'), ch'[i] = Err0
                 PROVE  i = Len(ch') /\ prod' = "ended"
      OBVIOUS
    <3>1. i \in 1..(Len(ch) - 1) /\ Len(ch') = Len(ch) - 1 /\ ch[i + 1] = Err0
      BY <2>1, <2>6
    <3>2. i + 1 \in 1..Len(ch)
      BY <3>1, <2>7
    <3>3. i + 1 = Len(ch) /\ prod = "ended"
      BY <3>1, <3>2, <2>8
    <3> QED BY <3>1, <3>3, <2>6, <2>7
  <2> QED BY <1>6, <2>4, <2>10, <2>11 DEF Receive, LastWord
<1>7. CASE Dealt
  BY <1>7 DEF Dealt, FeedTypes, LastWord, NothingAbandoned
<1>8. CASE Reconnect
  <2>1. prod = "ended" /\ ch = << >> /\ out = << >> /\ inbox = << >>
    BY <1>8 DEF Reconnect, LastWord
  <2>2. EventsIn(ch) = {} /\ EventsIn(out) = {} /\ Ran(inbox) = {}
    BY <2>1 DEF EventsIn, Ran
  <2> QED BY <1>8, <2>1, <2>2 DEF Reconnect, FeedTypes, LastWord, NothingAbandoned
<1>9. CASE Emit
  <2>1. emitted + 1 \in Events
    BY <1>9, EventKindAssumption DEF Emit, FeedTypes, Events
  <2>2. FeedTypes'
    BY <1>9, <2>1, EventKindAssumption DEF Emit, FeedTypes
  <2> QED BY <1>9, <2>2 DEF Emit, LastWord, NothingAbandoned
<1>10. CASE UNCHANGED vars
  BY <1>10 DEF vars, FeedTypes, LastWord, NothingAbandoned
<1> QED BY <1>1, <1>2, <1>3, <1>4, <1>5, <1>6, <1>7, <1>8, <1>9, <1>10
        DEF Next, Listener, Consumer

\* listenWrap and listenUnWrap (server/detect.go), whose listeners report bad data
\* as a type 1 error: a channel is left only empty and after its listener ended.
THEOREM NothingIsAbandoned ==
  ASSUME MalformedType = 1
  PROVE  Spec => []NothingAbandoned
<1>1. Init => FeedInv
  BY InitFeedInv
<1>2. FeedInv /\ [Next]_vars => FeedInv'
  BY FeedInvStep
<1>3. FeedInv => NothingAbandoned
  BY DEF FeedInv
<1> QED BY <1>1, <1>2, <1>3, PTL DEF Spec

\* A type 0 error is the last message of its channel, and its listener has ended.
THEOREM ErrorIsTheLastWord ==
  ASSUME MalformedType = 1
  PROVE  Spec => []LastWord
<1>1. Init => FeedInv
  BY InitFeedInv
<1>2. FeedInv /\ [Next]_vars => FeedInv'
  BY FeedInvStep
<1>3. FeedInv => LastWord
  BY DEF FeedInv
<1> QED BY <1>1, <1>2, <1>3, PTL DEF Spec
-----------------------------------------------------------------------------
(* Types.                                                                  *)

\* What is sent for an event, whatever type bad data is reported as.
LEMMA MessagesTyped ==
  ASSUME NEW e \in Events
  PROVE  /\ MessagesOf(e) \in Seq(Messages)
         /\ Len(MessagesOf(e)) \in 0..2
         /\ \A i \in 1..Len(MessagesOf(e)) :
               MessagesOf(e)[i].type = "order" => i = 1 /\ MessagesOf(e)[i].ev = e
         /\ EventKind[e] \in {"order", "payload"} =>
               1 \in 1..Len(MessagesOf(e)) /\ MessagesOf(e)[1] = Order(e)
<1>1. EventKind[e] \in {"order", "small", "payload", "malformed", "foreign"}
  BY EventKindAssumption DEF Events
<1>2. Order(e) \in Messages /\ Err1 \in Messages /\ Err0 \in Messages
  BY DEF Messages, Order
<1>3. Order(e).type = "order" /\ Order(e).ev = e /\ Err0.type # "order" /\ Err1.type # "order"
  BY DEF Order, Err0, Err1
<1>4. CASE EventKind[e] \in {"order", "small"}
  <2>1. MessagesOf(e) = <<Order(e)>>
    BY <1>4 DEF MessagesOf
  <2> QED BY <2>1, <1>2, <1>3
<1>5. CASE EventKind[e] = "payload"
  <2>1. MessagesOf(e) = <<Order(e), Err1>>
    BY <1>5 DEF MessagesOf
  <2> QED BY <2>1, <1>2, <1>3
<1>6. CASE EventKind[e] = "malformed"
  <2>1. PICK m \in {Err0, Err1} : MessagesOf(e) = <<m>>
    BY <1>6 DEF MessagesOf
  <2>2. m \in Messages /\ m.type # "order"
    BY <1>2, <1>3
  <2>3. EventKind[e] \notin {"order", "payload"}
    BY <1>6
  <2> QED BY <2>1, <2>2, <2>3
<1>7. CASE EventKind[e] = "foreign"
  <2>1. MessagesOf(e) = << >>
    BY <1>7 DEF MessagesOf
  <2> QED BY <2>1, <1>7
<1> QED BY <1>1, <1>4, <1>5, <1>6, <1>7

\* An order among the messages names an event.
LEMMA OrderNamesEvent ==
  ASSUME NEW m \in Messages
  PROVE  /\ m.type = "order" => m.ev \in Events /\ m.ev \in Nat \ {0}
         /\ m.type # "order" => m.ev = 0
  BY EventKindAssumption DEF Messages, Err0, Err1, Events

\* Every step keeps the types and the bound on the channel.
LEMMA FeedTypeStep ==
  ASSUME TypeOK, [Next]_vars
  PROVE  TypeOK'
<1> USE CapAssumption, EventKindAssumption
<1>0. Err0 \in Messages /\ <<Err0>> \in Seq(Messages)
  BY DEF Messages
<1>1. CASE ConnectOk
  BY <1>1 DEF ConnectOk, TypeOK
<1>2. CASE ConnectFail
  BY <1>0, <1>2 DEF ConnectFail, TypeOK
<1>3. CASE SubFail
  <2>1. Ran(inbox) \subseteq Events
    BY DEF Ran, TypeOK
  <2> QED BY <1>0, <1>3, <2>1 DEF SubFail, TypeOK
<1>4. CASE Take
  <2>1. Head(inbox) \in Events /\ Tail(inbox) \in Seq(Events)
    BY <1>4 DEF Take, TypeOK
  <2>2. out' \in Seq(Messages)
    BY <1>4, <2>1, MessagesTyped DEF Take
  <2> QED BY <1>4, <2>1, <2>2 DEF Take, TypeOK
<1>5. CASE Put
  <2>1. Head(out) \in Messages /\ Tail(out) \in Seq(Messages)
    BY <1>5 DEF Put, TypeOK
  <2>2. ch' \in Seq(Messages) /\ Len(ch') = Len(ch) + 1
    BY <1>5, <2>1 DEF Put, TypeOK
  <2>3. Len(ch') <= Cap \/ (Len(ch') = 1 /\ cons = "range")
    BY <1>5, <2>2 DEF Put, HasRoom, TypeOK
  <2> QED BY <1>5, <2>1, <2>2, <2>3 DEF Put, TypeOK
<1>6. CASE Receive
  <2>1. Head(ch) \in Messages /\ Tail(ch) \in Seq(Messages) /\ Len(Tail(ch)) = Len(ch) - 1
    BY <1>6 DEF Receive, TypeOK
  <2>2. cons' \in {"range", "deal", "sleep"}
    BY <1>6 DEF Receive, AfterError
  <2>3. dealt' \in Seq(Events)
    <3>1. dealt' = dealt \/ (Head(ch).type = "order" /\ dealt' = Append(dealt, Head(ch).ev))
      BY <1>6 DEF Receive
    <3>2. Head(ch).type = "order" => Head(ch).ev \in Events
      BY <2>1, OrderNamesEvent
    <3>3. dealt \in Seq(Events)
      BY DEF TypeOK
    <3>4. CASE Head(ch).type = "order" /\ dealt' = Append(dealt, Head(ch).ev)
      <4>1. PICK e \in Events : dealt' = Append(dealt, e)
        BY <3>2, <3>4
      <4> QED BY <3>3, <4>1
    <3> QED BY <3>1, <3>3, <3>4
  <2>4. Len(ch') <= Cap
    <3>1. ch' = Tail(ch) /\ Len(ch) \in Nat
      BY <1>6 DEF Receive, TypeOK
    <3>2. Len(ch') = Len(ch) - 1
      BY <2>1, <3>1
    <3>3. Len(ch) <= Cap \/ Len(ch) = 1
      BY DEF TypeOK
    <3>4. Len(ch') \in Nat
      BY <2>1, <3>1
    <3> QED BY <3>1, <3>2, <3>3, <3>4
  <2> QED BY <1>6, <2>1, <2>2, <2>3, <2>4 DEF Receive, TypeOK
<1>7. CASE Dealt
  BY <1>7 DEF Dealt, TypeOK
<1>8. CASE Reconnect
  <2>1. /\ \A m \in Ran(ch) \cup Ran(out) : m \in Messages
        /\ Ran(inbox) \subseteq Events
    BY DEF Ran, TypeOK
  <2>2. EventsIn(ch) \subseteq Events /\ EventsIn(out) \subseteq Events
    BY <2>1, OrderNamesEvent DEF EventsIn
  <2>3. abandoned' \subseteq Events /\ leaked' \in Nat
    BY <1>8, <2>1, <2>2 DEF Reconnect, TypeOK
  <2> QED BY <1>8, <2>3 DEF Reconnect, TypeOK
<1>9. CASE Emit
  <2>1. emitted + 1 \in Events /\ emitted' \in 0..Len(EventKind)
    BY <1>9 DEF Emit, TypeOK, Events
  <2>2. inbox' \in Seq(Events) /\ gap' \in SUBSET Events
    <3>1. inbox \in Seq(Events) /\ gap \in SUBSET Events
      BY DEF TypeOK
    <3>2. \/ inbox' = Append(inbox, emitted + 1) /\ gap' = gap
          \/ inbox' = inbox /\ gap' = gap \cup {emitted + 1}
      BY <1>9 DEF Emit
    <3>3. PICK e \in Events : e = emitted + 1
      BY <2>1
    <3>4. Append(inbox, e) \in Seq(Events) /\ gap \cup {e} \in SUBSET Events
      BY <3>1
    <3> QED BY <3>1, <3>2, <3>3, <3>4
  <2>3. UNCHANGED <<prod, out, ch, cons, dealt, abandoned, leaked>>
    BY <1>9 DEF Emit
  <2> QED BY <2>1, <2>2, <2>3 DEF TypeOK
<1>10. CASE UNCHANGED vars
  BY <1>10 DEF vars, TypeOK
<1> QED BY <1>1, <1>2, <1>3, <1>4, <1>5, <1>6, <1>7, <1>8, <1>9, <1>10
        DEF Next, Listener, Consumer

\* Nothing has happened yet.
LEMMA InitFeedTypes == Init => TypeOK
  BY CapAssumption, EventKindAssumption DEF Init, TypeOK

\* The types of a feed, and the bound that Go gives its channel.
THEOREM FeedIsWellTyped == Spec => []TypeOK
  BY InitFeedTypes, FeedTypeStep, PTL DEF Spec
-----------------------------------------------------------------------------
(* Order.  Every order is in one of four places, and the places are ahead  *)
(* of each other on the chain: dealt with, in the channel, in the hands of *)
(* the listener, pushed by the node.                                       *)

Increasing(s) == \A i, j \in 1..Len(s) : i < j => s[i] < s[j]
EventsIncrease(s) ==
    \A i, j \in 1..Len(s) : i < j /\ s[i].ev # 0 /\ s[j].ev # 0 => s[i].ev < s[j].ev
Before(S, T) == \A a \in S, b \in T : a < b

Queued == /\ EventsIncrease(ch) /\ EventsIncrease(out) /\ Increasing(inbox)
          /\ Before(Ran(dealt), EventsIn(ch)) /\ Before(Ran(dealt), EventsIn(out))
          /\ Before(Ran(dealt), Ran(inbox))   /\ Before(EventsIn(ch), EventsIn(out))
          /\ Before(EventsIn(ch), Ran(inbox)) /\ Before(EventsIn(out), Ran(inbox))
          /\ Ran(dealt) \cup EventsIn(ch) \cup EventsIn(out) \cup Ran(inbox) \subseteq 1..emitted

\* A sequence of events is a sequence of numbers.
LEMMA EventsAreNumbers ==
  ASSUME NEW s \in Seq(Events)
  PROVE  s \in Seq(Nat)
<1>1. Events \subseteq Nat
  BY EventKindAssumption DEF Events
<1>2. Len(s) \in Nat /\ s \in [1..Len(s) -> Events]
  OBVIOUS
<1>3. s \in [1..Len(s) -> Nat]
  BY <1>1, <1>2
<1> QED BY <1>2, <1>3, SeqDef

\* An appended element is one more element, at the end.
LEMMA AppendAddsOne ==
  ASSUME NEW S, NEW s \in Seq(S), NEW x \in S
  PROVE  Ran(Append(s, x)) = Ran(s) \cup {x}
<1>1. /\ Len(Append(s, x)) = Len(s) + 1 /\ Append(s, x)[Len(s) + 1] = x
      /\ \A i \in 1..Len(s) : Append(s, x)[i] = s[i]
  OBVIOUS
<1>2. 1..Len(s) + 1 = (1..Len(s)) \cup {Len(s) + 1}
  OBVIOUS
<1> QED BY <1>1, <1>2 DEF Ran

\* The head and the rest are all there is.
LEMMA HeadAndTail ==
  ASSUME NEW S, NEW s \in Seq(S), s # << >>
  PROVE  /\ Ran(s) = {Head(s)} \cup Ran(Tail(s))
         /\ Tail(s) \in Seq(S) /\ Head(s) \in S
         /\ Len(Tail(s)) = Len(s) - 1 /\ Len(s) \in Nat \ {0}
         /\ Head(s) = s[1]
         /\ \A i \in 1..Len(Tail(s)) : Tail(s)[i] = s[i + 1]
<1>1. /\ Tail(s) \in Seq(S) /\ Head(s) \in S /\ Len(Tail(s)) = Len(s) - 1
      /\ Len(s) \in Nat \ {0} /\ Head(s) = s[1]
      /\ \A i \in 1..Len(Tail(s)) : Tail(s)[i] = s[i + 1]
  OBVIOUS
<1>2. Ran(s) \subseteq {Head(s)} \cup Ran(Tail(s))
  <2> SUFFICES ASSUME NEW i \in 1..Len(s), i # 1
               PROVE  s[i] \in Ran(Tail(s))
    BY <1>1 DEF Ran
  <2>1. i - 1 \in 1..Len(Tail(s)) /\ (i - 1) + 1 = i
    BY <1>1
  <2>2. Tail(s)[i - 1] = s[i]
    BY <1>1, <2>1
  <2> QED BY <2>1, <2>2 DEF Ran
<1>3. Ran(Tail(s)) \subseteq Ran(s)
  <2> SUFFICES ASSUME NEW i \in 1..Len(Tail(s))
               PROVE  Tail(s)[i] \in Ran(s)
    BY DEF Ran
  <2>1. i + 1 \in 1..Len(s)
    BY <1>1
  <2> QED BY <1>1, <2>1 DEF Ran
<1>4. Head(s) \in Ran(s)
  <2>1. 1 \in 1..Len(s)
    BY <1>1
  <2> QED BY <1>1, <2>1 DEF Ran
<1> QED BY <1>1, <1>2, <1>3, <1>4

\* Elements above all others may be appended to an increasing sequence.
LEMMA AppendIncreases ==
  ASSUME NEW s \in Seq(Nat), NEW x \in Nat, Increasing(s), \A a \in Ran(s) : a < x
  PROVE  Increasing(Append(s, x))
<1>1. /\ Len(Append(s, x)) = Len(s) + 1 /\ Append(s, x)[Len(s) + 1] = x
      /\ \A i \in 1..Len(s) : Append(s, x)[i] = s[i] /\ s[i] \in Ran(s)
  BY DEF Ran
<1> SUFFICES ASSUME NEW i \in 1..Len(s) + 1, NEW j \in 1..Len(s) + 1, i < j
             PROVE  Append(s, x)[i] < Append(s, x)[j]
  BY <1>1 DEF Increasing
<1>2. i \in 1..Len(s) /\ (j \in 1..Len(s) \/ j = Len(s) + 1)
  OBVIOUS
<1> QED BY <1>1, <1>2 DEF Increasing

\* The head of an increasing sequence is below the rest, which increases.
LEMMA TailIncreases ==
  ASSUME NEW s \in Seq(Nat), s # << >>, Increasing(s)
  PROVE  Increasing(Tail(s)) /\ \A b \in Ran(Tail(s)) : Head(s) < b
<1>1. /\ Len(Tail(s)) = Len(s) - 1 /\ Len(s) \in Nat \ {0} /\ Head(s) = s[1]
      /\ \A i \in 1..Len(Tail(s)) : Tail(s)[i] = s[i + 1]
  BY HeadAndTail
<1>2. \A i \in 1..Len(Tail(s)) : i + 1 \in 1..Len(s) /\ 1 < i + 1 /\ 1 \in 1..Len(s)
  BY <1>1
<1>3. ASSUME NEW i \in 1..Len(Tail(s)), NEW j \in 1..Len(Tail(s)), i < j
      PROVE  Tail(s)[i] < Tail(s)[j]
  <2>1. i + 1 < j + 1
    BY <1>3
  <2> QED BY <1>1, <1>2, <2>1 DEF Increasing
<1>4. ASSUME NEW i \in 1..Len(Tail(s))
      PROVE  Head(s) < Tail(s)[i]
  BY <1>1, <1>2 DEF Increasing
<1> QED BY <1>3, <1>4 DEF Increasing, Ran

\* The same for messages, where an error carries no event.
LEMMA AppendAddsItsEvent ==
  ASSUME NEW s \in Seq(Messages), NEW m \in Messages
  PROVE  EventsIn(Append(s, m)) = EventsIn(s) \cup ({m.ev} \ {0})
<1>1. Ran(Append(s, m)) = Ran(s) \cup {m}
  BY AppendAddsOne
<1> QED BY <1>1 DEF EventsIn

\* The events of a sequence are that of its head and those of the rest.
LEMMA HeadAndTailEvents ==
  ASSUME NEW s \in Seq(Messages), s # << >>
  PROVE  EventsIn(s) = ({Head(s).ev} \ {0}) \cup EventsIn(Tail(s))
<1>1. Ran(s) = {Head(s)} \cup Ran(Tail(s))
  BY HeadAndTail
<1> QED BY <1>1 DEF EventsIn

\* Appending an error, or an order above all others, keeps the order.
LEMMA AppendKeepsOrder ==
  ASSUME NEW s \in Seq(Messages), NEW m \in Messages, EventsIncrease(s),
         Before(EventsIn(s), {m.ev} \ {0})
  PROVE  EventsIncrease(Append(s, m))
<1>1. /\ Len(Append(s, m)) = Len(s) + 1 /\ Append(s, m)[Len(s) + 1] = m
      /\ \A i \in 1..Len(s) : Append(s, m)[i] = s[i]
  OBVIOUS
<1>2. \A i \in 1..Len(s) : s[i].ev # 0 => s[i].ev \in EventsIn(s)
  BY DEF Ran, EventsIn
<1> SUFFICES ASSUME NEW i \in 1..Len(s) + 1, NEW j \in 1..Len(s) + 1, i < j,
                    Append(s, m)[i].ev # 0, Append(s, m)[j].ev # 0
             PROVE  Append(s, m)[i].ev < Append(s, m)[j].ev
  BY <1>1 DEF EventsIncrease
<1>3. i \in 1..Len(s) /\ (j \in 1..Len(s) \/ j = Len(s) + 1)
  OBVIOUS
<1>4. CASE j \in 1..Len(s)
  BY <1>1, <1>3, <1>4 DEF EventsIncrease
<1>5. CASE j = Len(s) + 1
  BY <1>1, <1>2, <1>3, <1>5 DEF Before
<1> QED BY <1>3, <1>4, <1>5

\* Taking the head keeps the order of the rest, which comes after it.
LEMMA TailKeepsOrder ==
  ASSUME NEW s \in Seq(Messages), s # << >>, EventsIncrease(s)
  PROVE  EventsIncrease(Tail(s)) /\ Before({Head(s).ev} \ {0}, EventsIn(Tail(s)))
<1>1. /\ Len(Tail(s)) = Len(s) - 1 /\ Len(s) \in Nat \ {0} /\ Head(s) = s[1]
      /\ \A i \in 1..Len(Tail(s)) : Tail(s)[i] = s[i + 1]
  BY HeadAndTail
<1>2. \A i \in 1..Len(Tail(s)) : i + 1 \in 1..Len(s) /\ 1 < i + 1 /\ 1 \in 1..Len(s)
  BY <1>1
<1>3. ASSUME NEW i \in 1..Len(Tail(s)), NEW j \in 1..Len(Tail(s)), i < j,
             Tail(s)[i].ev # 0, Tail(s)[j].ev # 0
      PROVE  Tail(s)[i].ev < Tail(s)[j].ev
  <2>1. i + 1 < j + 1
    BY <1>3
  <2> QED BY <1>1, <1>2, <1>3, <2>1 DEF EventsIncrease
<1>4. ASSUME NEW i \in 1..Len(Tail(s)), Head(s).ev # 0, Tail(s)[i].ev # 0
      PROVE  Head(s).ev < Tail(s)[i].ev
  BY <1>1, <1>2, <1>4 DEF EventsIncrease
<1> QED BY <1>3, <1>4 DEF EventsIncrease, EventsIn, Ran, Before

\* Every step keeps the places in order.
LEMMA QueuedStep ==
  ASSUME TypeOK, Increasing(dealt), Queued, [Next]_vars
  PROVE  Increasing(dealt)' /\ Queued'
<1> USE EventKindAssumption
<1>0. /\ Ran(<< >>) = {} /\ EventsIn(<< >>) = {} /\ Increasing(<< >>) /\ EventsIncrease(<< >>)
      /\ EventsIn(<<Err0>>) = {} /\ EventsIncrease(<<Err0>>)
  BY DEF Ran, EventsIn, Increasing, EventsIncrease, Err0
<1>1. CASE ConnectOk
  BY <1>1 DEF ConnectOk, Queued
<1>2. CASE ConnectFail
  BY <1>0, <1>2 DEF ConnectFail, Queued, Before
<1>3. CASE SubFail
  BY <1>0, <1>3 DEF SubFail, Queued, Before
<1>4. CASE Take
  <2> DEFINE e == Head(inbox)
  <2>1. /\ inbox \in Seq(Events) /\ Events \subseteq Nat \ {0} /\ inbox # << >>
    BY <1>4 DEF Take, TypeOK, Events
  <2>2. /\ Ran(inbox) = {e} \cup Ran(Tail(inbox)) /\ e \in Events
    BY <2>1, HeadAndTail
  <2>3. inbox \in Seq(Nat)
    BY <2>1, EventsAreNumbers
  <2>4. Increasing(Tail(inbox)) /\ \A b \in Ran(Tail(inbox)) : e < b
    BY <2>1, <2>3, TailIncreases DEF Queued
  <2>5. EventsIn(out') \subseteq {e} /\ EventsIncrease(out')
    <3>1. \A i \in 1..Len(MessagesOf(e)) :
             MessagesOf(e)[i].ev # 0 => i = 1 /\ MessagesOf(e)[i].ev = e
      BY <2>2, MessagesTyped, OrderNamesEvent
    <3>2. out' = MessagesOf(e)
      BY <1>4 DEF Take
    <3> HIDE DEF e
    <3> QED BY <3>1, <3>2 DEF EventsIn, Ran, EventsIncrease
  <2>6. inbox' = Tail(inbox) /\ UNCHANGED <<ch, dealt, emitted>>
    BY <1>4 DEF Take
  <2>7. Queued'
    BY <2>2, <2>4, <2>5, <2>6 DEF Queued, Before
  <2> QED BY <2>6, <2>7
<1>5. CASE Put
  <2>1. /\ out # << >> /\ out \in Seq(Messages) /\ ch \in Seq(Messages)
        /\ Head(out) \in Messages
        /\ ch' = Append(ch, Head(out)) /\ out' = Tail(out)
        /\ UNCHANGED <<inbox, dealt, emitted>>
    BY <1>5 DEF Put, TypeOK
  <2>2. EventsIn(ch') = EventsIn(ch) \cup ({Head(out).ev} \ {0})
    BY <2>1, AppendAddsItsEvent
  <2>3. EventsIn(out) = ({Head(out).ev} \ {0}) \cup EventsIn(out')
    BY <2>1, HeadAndTailEvents
  <2>4. EventsIncrease(out') /\ Before({Head(out).ev} \ {0}, EventsIn(out'))
    BY <2>1, TailKeepsOrder DEF Queued
  <2>5. EventsIncrease(ch')
    BY <2>1, <2>3, AppendKeepsOrder DEF Queued, Before
  <2>6. Queued'
    BY <2>1, <2>2, <2>3, <2>4, <2>5 DEF Queued, Before
  <2> QED BY <2>1, <2>6
<1>6. CASE Receive
  <2>1. /\ ch # << >> /\ ch \in Seq(Messages) /\ Head(ch) \in Messages
        /\ ch' = Tail(ch) /\ UNCHANGED <<out, inbox, emitted>>
        /\ dealt \in Seq(Events) /\ Events \subseteq Nat
    BY <1>6 DEF Receive, TypeOK, Events
  <2>2. EventsIn(ch) = ({Head(ch).ev} \ {0}) \cup EventsIn(ch')
    BY <2>1, HeadAndTailEvents
  <2>3. EventsIncrease(ch') /\ Before({Head(ch).ev} \ {0}, EventsIn(ch'))
    BY <2>1, TailKeepsOrder DEF Queued
  <2>4. CASE dealt' = dealt
    BY <2>1, <2>2, <2>3, <2>4 DEF Queued, Before
  <2>5. CASE Head(ch).type = "order" /\ dealt' = Append(dealt, Head(ch).ev)
    <3>1. Head(ch).ev \in Events /\ Head(ch).ev # 0
      BY <2>1, <2>5, OrderNamesEvent
    <3>2. Ran(dealt') = Ran(dealt) \cup {Head(ch).ev}
      BY <2>1, <2>5, <3>1, AppendAddsOne
    <3>3. dealt \in Seq(Nat) /\ \A a \in Ran(dealt) : a < Head(ch).ev
      BY <2>1, <2>2, <3>1, EventsAreNumbers DEF Queued, Before
    <3>4. Increasing(dealt')
      BY <2>1, <2>5, <3>1, <3>3, AppendIncreases
    <3>5. /\ EventsIn(ch) = {Head(ch).ev} \cup EventsIn(ch')
          /\ Before({Head(ch).ev}, EventsIn(ch'))
      BY <2>2, <2>3, <3>1
    <3>6. /\ Before({Head(ch).ev}, EventsIn(out)) /\ Before({Head(ch).ev}, Ran(inbox))
          /\ Before(EventsIn(ch'), EventsIn(out)) /\ Before(EventsIn(ch'), Ran(inbox))
      BY <3>5 DEF Queued, Before
    <3>7. Before(Ran(dealt), EventsIn(ch')) /\ Before(Ran(dealt), EventsIn(out))
          /\ Before(Ran(dealt), Ran(inbox))
      BY <3>5 DEF Queued, Before
    <3>8. Before(Ran(dealt'), EventsIn(ch')) /\ Before(Ran(dealt'), EventsIn(out))
          /\ Before(Ran(dealt'), Ran(inbox))
      BY <3>2, <3>5, <3>6, <3>7 DEF Before
    <3>9. Ran(dealt') \cup EventsIn(ch') \subseteq Ran(dealt) \cup EventsIn(ch)
      BY <3>2, <3>5
    <3> QED BY <2>1, <2>3, <3>4, <3>6, <3>8, <3>9 DEF Queued
  <2>6. dealt' = dealt \/ (Head(ch).type = "order" /\ dealt' = Append(dealt, Head(ch).ev))
    BY <1>6 DEF Receive
  <2> QED BY <2>4, <2>5, <2>6
<1>7. CASE Dealt
  BY <1>7 DEF Dealt, Queued
<1>8. CASE Reconnect
  BY <1>0, <1>8 DEF Reconnect, Queued, Before
<1>9. CASE Emit
  <2>1. /\ inbox \in Seq(Events) /\ Events \subseteq Nat
        /\ emitted \in Nat /\ emitted + 1 \in Events /\ emitted' = emitted + 1
        /\ UNCHANGED <<out, ch, dealt>>
    BY <1>9 DEF Emit, TypeOK, Events
  <2>2. 1..emitted \subseteq 1..emitted' /\ \A a \in 1..emitted : a < emitted'
    BY <2>1
  <2>3. CASE inbox' = inbox
    BY <2>1, <2>2, <2>3 DEF Queued
  <2>4. CASE inbox' = Append(inbox, emitted + 1)
    <3>1. Ran(inbox') = Ran(inbox) \cup {emitted'}
      BY <2>1, <2>4, AppendAddsOne
    <3>2. inbox \in Seq(Nat) /\ emitted' \in Nat /\ \A a \in Ran(inbox) : a < emitted'
      BY <2>1, <2>2, EventsAreNumbers DEF Queued
    <3>3. Increasing(inbox')
      BY <2>1, <2>4, <3>2, AppendIncreases DEF Queued
    <3>4. emitted' \in 1..emitted'
      BY <2>1
    <3> QED BY <2>1, <2>2, <3>1, <3>3, <3>4 DEF Queued, Before
  <2> QED BY <1>9, <2>3, <2>4 DEF Emit
<1>10. CASE UNCHANGED vars
  BY <1>10 DEF vars, Queued
<1> QED BY <1>1, <1>2, <1>3, <1>4, <1>5, <1>6, <1>7, <1>8, <1>9, <1>10
        DEF Next, Listener, Consumer

\* Orders are dealt with in the order of the chain and none twice, for every
\* sequence of events, every capacity and every type of error.
THEOREM OrdersAreInOrder == Spec => []InOrder
<1>1. Init => TypeOK /\ Increasing(dealt) /\ Queued
  BY InitFeedTypes DEF Init, Increasing, EventsIncrease, Queued, Before, Ran, EventsIn
<1>2. TypeOK /\ Increasing(dealt) /\ Queued /\ [Next]_vars
         => (TypeOK /\ Increasing(dealt) /\ Queued)'
  BY FeedTypeStep, QueuedStep
<1>3. Increasing(dealt) => InOrder
  BY DEF Increasing, InOrder
<1> QED BY <1>1, <1>2, <1>3, PTL DEF Spec
-----------------------------------------------------------------------------
(* Accounts: where an order can be.                                        *)

\* What a listener, a channel and a consumer have of an order, or why it is lost.
Places == Ran(dealt) \cup EventsIn(ch) \cup EventsIn(out) \cup Ran(inbox) \cup gap

\* No step takes an order out of all its places, except by skipping a small one.
LEMMA AccountStep ==
  ASSUME MalformedType = 1, TypeOK, LastWord, OrderAccounted, [Next]_vars
  PROVE  OrderAccounted'
<1> USE EventKindAssumption
<1> DEFINE Due(e) == EventKind[e] \in {"order", "payload"}
<1>0. Ran(<< >>) = {} /\ EventsIn(<< >>) = {}
  BY DEF Ran, EventsIn
<1>a. /\ OrderAccounted = \A e \in 1..emitted : Due(e) => e \in Places
      /\ OrderAccounted' = \A e \in 1..emitted' : Due(e) => e \in Places'
  BY DEF OrderAccounted, Places
<1>b. ASSUME emitted' = emitted,
             \A e \in Events : Due(e) /\ e \in Places => e \in Places'
      PROVE  OrderAccounted'
  <2>1. 1..emitted \subseteq Events
    BY DEF TypeOK, Events
  <2> QED BY <1>a, <1>b, <2>1
<1> HIDE DEF Due
<1>1. CASE ConnectOk
  BY <1>1, <1>b DEF ConnectOk, Places
<1>2. CASE ConnectFail
  <2>1. out = << >>
    BY <1>2 DEF ConnectFail, LastWord
  <2> QED BY <1>0, <1>2, <1>b, <2>1 DEF ConnectFail, Places
<1>3. CASE SubFail
  BY <1>0, <1>3, <1>b DEF SubFail, Places
<1>4. CASE Take
  <2>1. /\ inbox \in Seq(Events) /\ inbox # << >> /\ out = << >>
        /\ inbox' = Tail(inbox) /\ out' = MessagesOf(Head(inbox))
        /\ UNCHANGED <<ch, dealt, gap, emitted>>
    BY <1>4 DEF Take, TypeOK
  <2>2. Ran(inbox) = {Head(inbox)} \cup Ran(inbox') /\ Head(inbox) \in Events
    BY <2>1, HeadAndTail
  <2>3. Due(Head(inbox)) => Head(inbox) \in EventsIn(out')
    <3> SUFFICES ASSUME Due(Head(inbox))
                 PROVE  Head(inbox) \in EventsIn(out')
      OBVIOUS
    <3>1. 1 \in 1..Len(out') /\ out'[1] = Order(Head(inbox))
      BY <2>1, <2>2, MessagesTyped DEF Due
    <3>2. Order(Head(inbox)).ev = Head(inbox) /\ Head(inbox) # 0
      BY <2>2 DEF Order, Events
    <3>3. Order(Head(inbox)) \in Ran(out')
      BY <3>1 DEF Ran
    <3> QED BY <3>2, <3>3 DEF EventsIn
  <2> QED BY <1>0, <1>b, <2>1, <2>2, <2>3 DEF Places
<1>5. CASE Put
  <2>1. /\ out # << >> /\ out \in Seq(Messages) /\ ch \in Seq(Messages)
        /\ Head(out) \in Messages
        /\ ch' = Append(ch, Head(out)) /\ out' = Tail(out)
        /\ UNCHANGED <<inbox, dealt, gap, emitted>>
    BY <1>5 DEF Put, TypeOK
  <2>2. EventsIn(ch') = EventsIn(ch) \cup ({Head(out).ev} \ {0})
    BY <2>1, AppendAddsItsEvent
  <2>3. EventsIn(out) = ({Head(out).ev} \ {0}) \cup EventsIn(out')
    BY <2>1, HeadAndTailEvents
  <2> QED BY <1>b, <2>1, <2>2, <2>3 DEF Places
<1>6. CASE Receive
  <2>1. /\ ch # << >> /\ ch \in Seq(Messages) /\ Head(ch) \in Messages
        /\ ch' = Tail(ch) /\ UNCHANGED <<out, inbox, gap, emitted>>
        /\ dealt \in Seq(Events)
    BY <1>6 DEF Receive, TypeOK
  <2>2. EventsIn(ch) = ({Head(ch).ev} \ {0}) \cup EventsIn(ch')
    BY <2>1, HeadAndTailEvents
  <2>3. ASSUME NEW e \in Events, Due(e), e = Head(ch).ev
        PROVE  e \in Ran(dealt')
    <3>1. Head(ch).type = "order" /\ EventKind[Head(ch).ev] # "small"
      BY <2>1, <2>3, OrderNamesEvent DEF Due, Events
    <3>2. dealt' = Append(dealt, e)
      BY <1>6, <2>3, <3>1 DEF Receive
    <3> QED BY <2>1, <3>2, AppendAddsOne
  <2>4. Ran(dealt) \subseteq Ran(dealt')
    <3>1. CASE dealt' = dealt
      BY <3>1 DEF Ran
    <3>2. CASE Head(ch).type = "order" /\ dealt' = Append(dealt, Head(ch).ev)
      <4>1. Head(ch).ev \in Events
        BY <2>1, <3>2, OrderNamesEvent
      <4> QED BY <2>1, <3>2, <4>1, AppendAddsOne
    <3> QED BY <1>6, <3>1, <3>2 DEF Receive
  <2>5. ASSUME NEW e \in Events, Due(e), e \in Places
        PROVE  e \in Places'
    BY <2>1, <2>2, <2>3, <2>4, <2>5 DEF Places
  <2> QED BY <1>b, <2>1, <2>5
<1>7. CASE Dealt
  BY <1>7, <1>b DEF Dealt, Places
<1>8. CASE Reconnect
  <2>1. ch = << >> /\ out = << >> /\ inbox = << >>
    BY <1>8 DEF Reconnect, LastWord
  <2> QED BY <1>8, <1>b, <2>1 DEF Reconnect, Places
<1>9. CASE Emit
  <2>1. /\ inbox \in Seq(Events) /\ emitted \in Nat
        /\ emitted + 1 \in Events /\ emitted' = emitted + 1
        /\ UNCHANGED <<out, ch, dealt>>
    BY <1>9 DEF Emit, TypeOK, Events
  <2>2. emitted + 1 \in Places' /\ Places \subseteq Places'
    <3>1. CASE prod = "listen"
      <4>1. inbox' = Append(inbox, emitted + 1) /\ gap' = gap
        BY <1>9, <3>1 DEF Emit
      <4>2. Ran(inbox') = Ran(inbox) \cup {emitted + 1}
        BY <2>1, <4>1, AppendAddsOne
      <4> QED BY <2>1, <4>1, <4>2 DEF Places
    <3>2. CASE prod # "listen"
      BY <1>9, <2>1, <3>2 DEF Emit, Places
    <3> QED BY <3>1, <3>2
  <2>3. \A e \in 1..emitted' : e \in 1..emitted \/ e = emitted + 1
    BY <2>1
  <2> QED BY <1>a, <2>2, <2>3
<1>10. CASE UNCHANGED vars
  BY <1>10, <1>b DEF vars, Places
<1> QED BY <1>1, <1>2, <1>3, <1>4, <1>5, <1>6, <1>7, <1>8, <1>9, <1>10
        DEF Next, Listener, Consumer

\* An order is lost only by a gap in the subscription.
THEOREM OrdersAreAccountedFor ==
  ASSUME MalformedType = 1
  PROVE  Spec => []OrderAccounted
<1>1. Init => TypeOK /\ FeedInv /\ OrderAccounted
  BY InitFeedTypes, InitFeedInv, EventKindAssumption DEF Init, OrderAccounted
<1>2. TypeOK /\ FeedInv /\ OrderAccounted /\ [Next]_vars
         => (TypeOK /\ FeedInv /\ OrderAccounted)'
  BY FeedTypeStep, FeedInvStep, AccountStep DEF FeedInv
<1> QED BY <1>1, <1>2, PTL DEF Spec
=============================================================================
