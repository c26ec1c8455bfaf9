-------------------------------- MODULE Feed --------------------------------
(***************************************************************************)
(* A subscription and its consumer: listenWrap, listenUnWrap and           *)
(* ListenTxErrorRecord of package server make a channel, start the token's *)
(* listener as a goroutine on it and range over it; the listener           *)
(* (StartWrapListen, listenEvent) connects to a node, turns what the node  *)
(* pushes into messages, and ends after a type 0 error.  On a type 0 error *)
(* the consumer leaves the channel and starts over with a new one.         *)
(*                                                                         *)
(* Events are numbered in the order of the chain.  Every connect error is  *)
(* one case, whichever of Dial, Info, Connect or Subscribe reports it.     *)
(***************************************************************************)
EXTENDS Naturals, Sequences

CONSTANTS EventKind,        \* EventKind[e]: what event e, one of 1..Len(EventKind), is
          Cap,              \* capacity of the channel (10, 10000 or 0 in the code)
          MalformedType     \* Type of the error sent for an event with bad data

ASSUME EventKindAssumption ==
    EventKind \in Seq({"order", "small", "payload", "malformed", "foreign"})
ASSUME CapAssumption == Cap \in Nat
ASSUME MalformedTypeAssumption == MalformedType \in {0, 1}

VARIABLES prod,         \* the listener: connecting, listening, sending its last error, ended
          out,          \* messages the listener still has to send for the event it took
          inbox,        \* events the node has pushed and the listener has not taken
          ch,           \* the channel
          cons,         \* the consumer: ranging, dealing with an order, or sleeping
          emitted,      \* events that have happened
          dealt,        \* the orders dealt with, in this order
          gap,          \* events nobody was subscribed to, or whose subscription broke
          abandoned,    \* events in a channel or a listener the consumer has left
          leaked        \* listeners the consumer has left that have not ended

vars == <<prod, out, inbox, ch, cons, emitted, dealt, gap, abandoned, leaked>>

Events == 1..Len(EventKind)

Order(e) == [type |-> "order", ev |-> e]
Err0 == [type |-> "err0", ev |-> 0]
Err1 == [type |-> "err1", ev |-> 0]
Messages == [type : {"order"}, ev : Events] \cup {Err0, Err1}

Ran(s) == {s[i] : i \in 1..Len(s)}
EventsIn(s) == {m.ev : m \in Ran(s)} \ {0}

Init == /\ prod = "connect" /\ out = << >> /\ inbox = << >> /\ ch = << >>
        /\ cons = "range"
        /\ emitted = 0 /\ dealt = << >>
        /\ gap = {} /\ abandoned = {} /\ leaked = 0
-----------------------------------------------------------------------------
(* The listener.                                                           *)

\* Dial and Subscribe, or Info, EventAPI, Connect and the output subscription.
ConnectOk ==
    /\ prod = "connect"
    /\ prod' = "listen"
    /\ UNCHANGED <<out, inbox, ch, cons, emitted, dealt, gap, abandoned, leaked>>

\* One of them fails: a type 0 error, then the listener ends.
ConnectFail ==
    /\ prod = "connect"
    /\ prod' = "close"
    /\ out' = <<Err0>>
    /\ UNCHANGED <<inbox, ch, cons, emitted, dealt, gap, abandoned, leaked>>

\* Faulty variant: the listener ends without a word.
SubFailSilent ==
    /\ prod = "listen" /\ out = << >>
    /\ prod' = "ended"
    /\ gap' = gap \cup Ran(inbox) /\ inbox' = << >>
    /\ UNCHANGED <<out, ch, cons, emitted, dealt, abandoned, leaked>>

\* The subscription breaks and select picks it: what the node had pushed before
\* is lost with it.
SubFail ==
    /\ prod = "listen" /\ out = << >>
    /\ prod' = "close"
    /\ out' = <<Err0>>
    /\ gap' = gap \cup Ran(inbox) /\ inbox' = << >>
    /\ UNCHANGED <<ch, cons, emitted, dealt, abandoned, leaked>>

\* What dealWrapEvent, dealUnWrapEvent, dealNewOutput or dealFailedEvent send
\* for an event: an order; an order and then an error (the wrap order was found
\* in the block's payload); an error; nothing (the event is removed, or not for
\* the wallet).
MessagesOf(e) ==
    CASE EventKind[e] \in {"order", "small"} -> <<Order(e)>>
      [] EventKind[e] = "payload"            -> <<Order(e), Err1>>
      [] EventKind[e] = "malformed"          -> <<IF MalformedType = 0 THEN Err0 ELSE Err1>>
      [] EventKind[e] = "foreign"            -> << >>

\* Faulty variant: events are dealt with by goroutines that may overtake.
TakeAny ==
    /\ prod = "listen" /\ out = << >>
    /\ \E i \in 1..Len(inbox) :
          /\ out' = MessagesOf(inbox[i])
          /\ inbox' = SubSeq(inbox, 1, i - 1) \o SubSeq(inbox, i + 1, Len(inbox))
    /\ UNCHANGED <<prod, ch, cons, emitted, dealt, gap, abandoned, leaked>>

\* The listener takes the next event.
Take ==
    /\ prod = "listen" /\ out = << >>
    /\ inbox # << >>
    /\ out' = MessagesOf(Head(inbox))
    /\ inbox' = Tail(inbox)
    /\ UNCHANGED <<prod, ch, cons, emitted, dealt, gap, abandoned, leaked>>

\* Faulty variant: the channel is not bounded.
HasRoomAlways == TRUE

\* A send on the channel goes through when there is room or a waiting receiver.
HasRoom == \/ Len(ch) < Cap
           \/ ch = << >> /\ cons = "range"

\* Faulty variant: a message for a full channel is thrown away.
PutOrDrop ==
    /\ out # << >>
    /\ ch' = IF HasRoom THEN Append(ch, Head(out)) ELSE ch
    /\ out' = Tail(out)
    /\ prod' = IF prod = "close" THEN "ended" ELSE prod
    /\ UNCHANGED <<inbox, cons, emitted, dealt, gap, abandoned, leaked>>

\* The listener sends its next message, and ends after the last one of a
\* connection that failed.
Put ==
    /\ out # << >>
    /\ HasRoom
    /\ ch' = Append(ch, Head(out))
    /\ out' = Tail(out)
    /\ prod' = IF prod = "close" THEN "ended" ELSE prod
    /\ UNCHANGED <<inbox, cons, emitted, dealt, gap, abandoned, leaked>>
-----------------------------------------------------------------------------
(* The consumer.                                                           *)

\* Faulty variant: the consumer leaves the channel for a type 1 error, too.
AfterErrorLeaves(m) == "sleep"

\* A type 0 error breaks the loop over the channel, a type 1 error is logged.
AfterError(m) == IF m = Err0 THEN "sleep" ELSE "range"

\* The consumer takes a message.  An order below MinAmount is logged and skipped,
\* any other one is dealt with.
Receive ==
    /\ cons = "range"
    /\ ch # << >>
    /\ LET m == Head(ch)
       IN  IF m.type # "order" THEN cons' = AfterError(m) /\ dealt' = dealt
           ELSE IF EventKind[m.ev] = "small" THEN cons' = "range" /\ dealt' = dealt
           ELSE cons' = "deal" /\ dealt' = Append(dealt, m.ev)
    /\ ch' = Tail(ch)
    /\ UNCHANGED <<prod, out, inbox, emitted, gap, abandoned, leaked>>

\* dealWrapOrder, dealUnWrapOrder or dealTxErrorRecord returns.
Dealt ==
    /\ cons = "deal"
    /\ cons' = "range"
    /\ UNCHANGED <<prod, out, inbox, ch, emitted, dealt, gap, abandoned, leaked>>

\* After a pause the consumer makes a new channel and starts a new listener on
\* it.  Nobody ever reads the old channel again.
Reconnect ==
    /\ cons = "sleep"
    /\ cons' = "range"
    /\ prod' = "connect"
    /\ abandoned' = abandoned \cup EventsIn(ch) \cup EventsIn(out) \cup Ran(inbox)
    /\ leaked' = IF prod = "ended" THEN leaked ELSE leaked + 1
    /\ ch' = << >> /\ out' = << >> /\ inbox' = << >>
    /\ UNCHANGED <<emitted, dealt, gap>>
-----------------------------------------------------------------------------
\* The chain: the next event happens.  The node pushes it to the subscription,
\* and does not repeat it for a later one.
Emit ==
    /\ emitted < Len(EventKind)
    /\ emitted' = emitted + 1
    /\ IF prod = "listen"
       THEN inbox' = Append(inbox, emitted + 1) /\ gap' = gap
       ELSE inbox' = inbox /\ gap' = gap \cup {emitted + 1}
    /\ UNCHANGED <<prod, out, ch, cons, dealt, abandoned, leaked>>

Listener == ConnectOk \/ ConnectFail \/ SubFail \/ Take \/ Put
Consumer == Receive \/ Dealt \/ Reconnect

Next == Listener \/ Consumer \/ Emit

Spec == Init /\ [][Next]_vars

\* Both goroutines go on; a connection that is tried for ever succeeds in the end.
FairSpec == /\ Spec
            /\ WF_vars(Take) /\ WF_vars(Put)
            /\ WF_vars(ConnectOk \/ ConnectFail) /\ SF_vars(ConnectOk)
            /\ WF_vars(Consumer)
-----------------------------------------------------------------------------
(* Properties.                                                             *)

\* The types of the variables; the channel holds at most Cap messages, or the
\* one its receiver is waiting for.
TypeOK == /\ prod \in {"connect", "listen", "close", "ended"}
          /\ out \in Seq(Messages) /\ ch \in Seq(Messages)
          /\ inbox \in Seq(Events) /\ dealt \in Seq(Events)
          /\ cons \in {"range", "deal", "sleep"}
          /\ emitted \in 0..Len(EventKind)
          /\ gap \in SUBSET Events /\ abandoned \in SUBSET Events
          /\ leaked \in Nat
          /\ Len(ch) <= Cap \/ (Len(ch) = 1 /\ cons = "range")

\* Orders are dealt with in the order of the chain and none twice, through full
\* channels, errors and reconnections.
InOrder == \A i, j \in 1..Len(dealt) : i < j => dealt[i] < dealt[j]

\* The consumer never leaves anything behind: when it gives up a channel the
\* channel is empty and its listener has ended, with no event in its hands.
NothingAbandoned == abandoned = {} /\ leaked = 0

\* "0 need to reconnect and 1 only need to record" (tokens/token.go): when the
\* consumer has read a type 0 error, the connection it read it from is gone.
ReconnectIsNeeded == cons = "sleep" => prod = "ended"

\* An order that has happened was dealt with, is on its way, or was lost because
\* no subscription was up at that moment or the subscription broke; there is no
\* other way to lose one.
OrderAccounted ==
    \A e \in 1..emitted : EventKind[e] \in {"order", "payload"} =>
        e \in Ran(dealt) \cup EventsIn(ch) \cup EventsIn(out) \cup Ran(inbox) \cup gap

\* However often the connection breaks, the listener listens again.
ListensAgain == []<>(prod = "listen")

\* An order that the node has pushed is dealt with, unless its subscription breaks
\* before the listener takes it.
PushedIsDealt ==
    \A e \in Events : (EventKind[e] \in {"order", "payload"} /\ e \in Ran(inbox))
                          ~> (e \in Ran(dealt) \/ e \in gap)

(* The inductive invariant behind NothingAbandoned.                        *)

\* A type 0 error is the last message of its channel, sent by a listener that has
\* then ended; it is sent once; and a consumer that leaves has read it.
LastWord ==
    /\ \A i \in 1..Len(ch) : ch[i] = Err0 => i = Len(ch) /\ prod = "ended"
    /\ prod = "close" => out = <<Err0>>
    /\ prod \in {"connect", "ended"} => out = << >>
    /\ prod # "listen" => inbox = << >>
    /\ prod = "listen" => \A i \in 1..Len(out) : out[i] # Err0
    /\ cons = "sleep" => prod = "ended" /\ ch = << >>
=============================================================================
