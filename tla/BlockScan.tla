------------------------------ MODULE BlockScan ------------------------------
(***************************************************************************)
(* scanBlock: the listener of a token (tokens/evm) or of the failure       *)
(* records (tokens/txerr.go) that polls a node for the logs of new blocks  *)
(* and sends each of them to its channel.  It keeps one number, the height *)
(* to scan from; the node it asks may answer with errors, and its head may *)
(* fall behind what an earlier answer said (a provider with many nodes).   *)
(*                                                                         *)
(* Every block carries one log, so a block is sent when its log is.  The   *)
(* failure record scanner has no limit on the range of a query: that is    *)
(* ScanMaxHeight at or above MaxHeight.                                    *)
(***************************************************************************)
EXTENDS Integers

CONSTANTS MaxHeight,        \* BOUND: the chain grows up to this height
          ScanMaxHeight     \* the configured limit on the range of a query

ASSUME MaxHeightAssumption == MaxHeight \in Nat
ASSUME ScanMaxHeightAssumption == ScanMaxHeight \in Nat \ {0}

VARIABLES pc,           \* what scanBlock does next
          fromHeight,   \* the first height not scanned yet
          toHeight,     \* the last height of the current query
          upTo,         \* the last height the node had when it answered the query
          cursor,       \* the next height of the current query to be sent
          head,         \* the head the node reports
          start,        \* the height the scan started at
          sent,         \* sent[h]: how often the log of block h went into the channel
          missed        \* history: blocks passed over because the node was behind

vars == <<pc, fromHeight, toHeight, upTo, cursor, head, start, sent, missed>>

Heights == 0..MaxHeight

Init == /\ pc = "start"
        /\ fromHeight = 0 /\ toHeight = 0 /\ upTo = 0 /\ cursor = 0 /\ start = 0
        /\ head \in Heights
        /\ sent = [h \in Heights |-> 0]
        /\ missed = {}
-----------------------------------------------------------------------------
\* The first BlockNumber fixes where the scan begins: nothing below is looked
\* at.  On an error scanBlock sends a type 0 error and ends, and its listener
\* starts it again.
Start ==
    /\ pc = "start"
    /\ pc' = "poll"
    /\ fromHeight' = head /\ cursor' = head /\ start' = head
    /\ UNCHANGED <<toHeight, upTo, head, sent, missed>>

\* Faulty variant: the end of the range is taken to be exclusive.
LastHeightPast(to) == IF to - fromHeight > ScanMaxHeight
                      THEN fromHeight + ScanMaxHeight
                      ELSE to + 1

\* The last height of a query when the node is at height to.
LastHeight(to) == IF to - fromHeight > ScanMaxHeight
                  THEN fromHeight + ScanMaxHeight - 1
                  ELSE to

\* BlockNumber is answered, with a head that is not behind the scan.  On an
\* error, or with a head behind it, scanBlock sleeps and asks again.
Poll ==
    /\ pc = "poll"
    /\ head >= fromHeight
    /\ toHeight' = LastHeight(head)
    /\ pc' = "filter"
    /\ UNCHANGED <<fromHeight, upTo, cursor, head, start, sent, missed>>

\* FilterLogs is answered with the logs of the range, as far as the node that
\* answers has its blocks: one that is behind leaves the others out, without an
\* error.
FilterOk ==
    /\ pc = "filter"
    /\ upTo' = IF head < toHeight THEN head ELSE toHeight
    /\ pc' = "send"
    /\ UNCHANGED <<fromHeight, toHeight, cursor, head, start, sent, missed>>

\* Faulty variant: the range counts as scanned although the query failed.
FilterFailAdvances ==
    /\ pc = "filter"
    /\ fromHeight' = toHeight + 1 /\ cursor' = toHeight + 1
    /\ pc' = "poll"
    /\ UNCHANGED <<toHeight, upTo, head, start, sent, missed>>

\* FilterLogs fails: the range is asked for again at the next poll.
FilterFail ==
    /\ pc = "filter"
    /\ pc' = "poll"
    /\ UNCHANGED <<fromHeight, toHeight, upTo, cursor, head, start, sent, missed>>

\* The next log of the answer goes into the channel.
Send ==
    /\ pc = "send"
    /\ cursor <= upTo
    /\ sent' = [sent EXCEPT ![cursor] = @ + 1]
    /\ cursor' = cursor + 1
    /\ UNCHANGED <<pc, fromHeight, toHeight, upTo, head, start, missed>>

\* Faulty variant: the next query begins with the last block of this one.
AdvanceOverlaps ==
    /\ pc = "send"
    /\ cursor > upTo
    /\ fromHeight' = toHeight /\ cursor' = toHeight
    /\ missed' = missed \cup (cursor..toHeight)
    /\ pc' = "poll"
    /\ UNCHANGED <<toHeight, upTo, head, start, sent>>

\* Faulty variant: the next query repeats this one.
AdvanceForgotten ==
    /\ pc = "send"
    /\ cursor > upTo
    /\ cursor' = fromHeight
    /\ pc' = "poll"
    /\ UNCHANGED <<fromHeight, toHeight, upTo, head, start, sent, missed>>

\* The answer is dealt with: fromHeight moves behind the whole range, also
\* behind blocks the answer did not cover.
Advance ==
    /\ pc = "send"
    /\ cursor > upTo
    /\ fromHeight' = toHeight + 1 /\ cursor' = toHeight + 1
    /\ missed' = missed \cup (cursor..toHeight)
    /\ pc' = "poll"
    /\ UNCHANGED <<toHeight, upTo, head, start, sent>>

\* The process is started again and knows nothing of an earlier scan.
Restart ==
    /\ pc # "start"
    /\ pc' = "start"
    /\ sent' = [h \in Heights |-> 0]
    /\ missed' = {}
    /\ UNCHANGED <<fromHeight, toHeight, upTo, cursor, head, start>>
-----------------------------------------------------------------------------
\* The node, or the one of the provider's nodes that answers next: its head
\* grows, or is behind what another one said before.
HeadMoves == /\ \E h \in Heights : h # head /\ head' = h
             /\ UNCHANGED <<pc, fromHeight, toHeight, upTo, cursor, start, sent, missed>>

CatchesUp == HeadMoves /\ head' = MaxHeight

ScanStep == Start \/ Poll \/ FilterOk \/ FilterFail \/ Send \/ Advance

Next == ScanStep \/ Restart \/ HeadMoves

Spec == Init /\ [][Next]_vars

\* The scan loop never stops; the node reports the full height of the chain again
\* and again, and neither BlockNumber nor FilterLogs fails for ever.
FairSpec == /\ Spec
            /\ WF_vars(Start \/ FilterOk \/ FilterFail \/ Send \/ Advance)
            /\ SF_vars(Poll) /\ SF_vars(FilterOk)
            /\ WF_vars(CatchesUp)
-----------------------------------------------------------------------------
(* Properties.                                                             *)

\* The types of the variables: no height asked for or sent lies beyond the chain.
TypeOK == /\ pc \in {"start", "poll", "filter", "send"}
          /\ fromHeight \in 0..(MaxHeight + 1) /\ cursor \in 0..(MaxHeight + 1)
          /\ toHeight \in Heights /\ upTo \in Heights
          /\ head \in Heights /\ start \in Heights
          /\ sent \in [Heights -> Nat] /\ missed \in SUBSET Heights

\* Since it started, scanBlock has sent the log of every block from its start to
\* its cursor exactly once and of no other block, through errors, ranges cut at
\* ScanMaxHeight and heads that fall behind; the only blocks left out are those
\* that the node answering FilterLogs did not have yet.
SentExactlyOnce ==
    pc # "start" =>
        \A h \in Heights :
            sent[h] = IF start <= h /\ h < cursor /\ h \notin missed THEN 1 ELSE 0

\* No query asks for more than ScanMaxHeight + 1 blocks: at a distance of exactly
\* ScanMaxHeight the range is not cut.
RangeBounded ==
    pc \in {"filter", "send"} => /\ fromHeight <= toHeight
                                 /\ toHeight - fromHeight <= ScanMaxHeight

\* The cursor lies where pc says it is: at fromHeight between ranges, within the
\* answered part of the range while its logs are sent; missed blocks lie behind it.
\* A scan starts with nothing sent.
CursorInv ==
    /\ pc = "start" => missed = {} /\ \A h \in Heights : sent[h] = 0
    /\ pc # "start" =>
        /\ start <= fromHeight
        /\ pc \in {"poll", "filter"} => cursor = fromHeight
        /\ pc = "send" => /\ fromHeight <= cursor
                          /\ upTo <= toHeight
                          /\ cursor > fromHeight => cursor <= upTo + 1
        /\ \A h \in missed : start <= h /\ h < cursor

\* A log is never sent before the log of an earlier block: the order of the
\* orders in the channel is the order of the chain.
InChainOrderStep ==
    \A h \in Heights : (sent'[h] > sent[h]) => (\A g \in Heights : g > h => sent[g] = 0)

\* InChainOrderStep, of every step.
InChainOrder == [][InChainOrderStep]_vars

\* Every block from the start of the scan on is sent once the chain has it, unless
\* a node that was behind answered for its range or the process is restarted.
EveryBlockSent ==
    \A h \in Heights :
        (pc # "start" /\ start <= h) ~> (sent[h] > 0 \/ h \in missed \/ pc = "start")
=============================================================================
