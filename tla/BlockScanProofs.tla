--------------------------- MODULE BlockScanProofs ---------------------------
(***************************************************************************)
(* scanBlock sends every block it passes exactly once and in order, for    *)
(* every length of the chain and every ScanMaxHeight above zero.           *)
(***************************************************************************)
EXTENDS BlockScan, TLAPS

\* SentExactlyOnce is inductive together with the place of the cursor.
ScanInv == TypeOK /\ CursorInv /\ RangeBounded /\ SentExactlyOnce

USE MaxHeightAssumption, ScanMaxHeightAssumption

\* The scan starts with nothing sent.
LEMMA InitScanInv == Init => ScanInv
  BY DEF Init, ScanInv, TypeOK, CursorInv, RangeBounded, SentExactlyOnce, Heights

\* The last height of a query lies between its first one and the head, and not
\* further than ScanMaxHeight from the first (LastHeight, scanBlock).
LEMMA LastHeightBounds ==
  ASSUME fromHeight \in Nat, NEW to \in Nat, fromHeight <= to
  PROVE  /\ LastHeight(to) \in Nat
         /\ fromHeight <= LastHeight(to) /\ LastHeight(to) <= to
         /\ LastHeight(to) - fromHeight <= ScanMaxHeight
  BY DEF LastHeight

\* Every step keeps the invariant of the scan.
LEMMA ScanInvStep == ScanInv /\ [Next]_vars => ScanInv'
<1> SUFFICES ASSUME ScanInv, [Next]_vars
             PROVE  ScanInv'
  OBVIOUS
<1> USE DEF ScanInv, Heights
<1>1. CASE Start
  BY <1>1 DEF Start, TypeOK, CursorInv, RangeBounded, SentExactlyOnce
<1>2. CASE Poll
  <2>1. /\ fromHeight <= toHeight' /\ toHeight' <= head
        /\ toHeight' - fromHeight <= ScanMaxHeight /\ toHeight' \in Nat
    BY <1>2, LastHeightBounds DEF Poll, TypeOK
  <2>2. TypeOK'
    BY <1>2, <2>1 DEF Poll, TypeOK
  <2>3. CursorInv' /\ RangeBounded' /\ SentExactlyOnce'
    BY <1>2, <2>1 DEF Poll, TypeOK, CursorInv, RangeBounded, SentExactlyOnce
  <2> QED BY <2>2, <2>3
<1>3. CASE FilterOk
  BY <1>3 DEF FilterOk, TypeOK, CursorInv, RangeBounded, SentExactlyOnce
<1>4. CASE FilterFail
  BY <1>4 DEF FilterFail, TypeOK, CursorInv, RangeBounded, SentExactlyOnce
<1>5. CASE Send
  <2>1. /\ cursor \in Heights /\ start <= cursor /\ cursor \notin missed
        /\ sent[cursor] = 0
    BY <1>5 DEF Send, TypeOK, CursorInv, SentExactlyOnce
  <2>2. TypeOK'
    BY <1>5, <2>1 DEF Send, TypeOK
  <2>3. CursorInv' /\ RangeBounded'
    BY <1>5 DEF Send, TypeOK, CursorInv, RangeBounded
  <2>4. SentExactlyOnce'
    BY <1>5, <2>1 DEF Send, TypeOK, SentExactlyOnce
  <2> QED BY <2>2, <2>3, <2>4
<1>6. CASE Advance
  <2>1. cursor \in Nat /\ start <= cursor /\ cursor <= toHeight + 1
    BY <1>6 DEF Advance, TypeOK, CursorInv, RangeBounded
  <2>2. TypeOK' /\ RangeBounded'
    BY <1>6, <2>1 DEF Advance, TypeOK, RangeBounded
  <2>3. CursorInv'
    BY <1>6, <2>1 DEF Advance, TypeOK, CursorInv
  <2>4. SentExactlyOnce'
    BY <1>6, <2>1 DEF Advance, TypeOK, SentExactlyOnce, CursorInv
  <2> QED BY <2>2, <2>3, <2>4
<1>7. CASE Restart
  BY <1>7 DEF Restart, TypeOK, CursorInv, RangeBounded, SentExactlyOnce
<1>8. CASE HeadMoves
  BY <1>8 DEF HeadMoves, TypeOK, CursorInv, RangeBounded, SentExactlyOnce
<1>9. CASE UNCHANGED vars
  BY <1>9 DEF vars, TypeOK, CursorInv, RangeBounded, SentExactlyOnce
<1> QED BY <1>1, <1>2, <1>3, <1>4, <1>5, <1>6, <1>7, <1>8, <1>9 DEF Next, ScanStep

\* scanBlock (tokens/evm/detect.go, tokens/txerr.go): types, the place of the
\* cursor and the bound on queries hold throughout, and every block between the
\* start and the cursor has been sent exactly once.
THEOREM ScanIsExact == Spec => [](TypeOK /\ CursorInv /\ RangeBounded /\ SentExactlyOnce)
<1>1. Init => ScanInv
  BY InitScanInv
<1>2. ScanInv /\ [Next]_vars => ScanInv'
  BY ScanInvStep
<1>3. ScanInv => TypeOK /\ CursorInv /\ RangeBounded /\ SentExactlyOnce
  BY DEF ScanInv
<1> QED BY <1>1, <1>2, <1>3, PTL DEF Spec

\* No step sends the log of a block after the log of a later one.
THEOREM ScanKeepsChainOrder == Spec => InChainOrder
<1>1. ScanInv /\ [Next]_vars => [InChainOrderStep]_vars
  <2> SUFFICES ASSUME ScanInv, Next, NEW h \in Heights, sent'[h] > sent[h],
                      NEW g \in Heights, g > h
               PROVE  sent[g] = 0
    BY DEF InChainOrderStep
  <2> USE DEF ScanInv, Heights
  <2>1. CASE Send
    <3>1. h = cursor
      BY <2>1 DEF Send, TypeOK
    <3> QED BY <3>1, <2>1 DEF Send, TypeOK, SentExactlyOnce
  <2>2. CASE Restart
    BY <2>2 DEF Restart, TypeOK
  <2>3. CASE UNCHANGED sent
    BY <2>3 DEF TypeOK
  <2> QED BY <2>1, <2>2, <2>3
          DEF Next, ScanStep, Start, Poll, FilterOk, FilterFail, Advance, HeadMoves
<1>2. Init => ScanInv
  BY InitScanInv
<1>3. ScanInv /\ [Next]_vars => ScanInv'
  BY ScanInvStep
<1> QED BY <1>1, <1>2, <1>3, PTL DEF Spec, InChainOrder

\* The types of a scan.
THEOREM ScanIsWellTyped == Spec => []TypeOK
<1>1. ScanInv => TypeOK
  BY DEF ScanInv
<1> QED BY <1>1, InitScanInv, ScanInvStep, PTL DEF Spec

\* No query asks for more than ScanMaxHeight + 1 blocks, and each for one at least
\* (scanBlock).
THEOREM RangeIsBounded == Spec => []RangeBounded
<1>1. ScanInv => RangeBounded
  BY DEF ScanInv
<1> QED BY <1>1, InitScanInv, ScanInvStep, PTL DEF Spec

\* The cursor is where the place in the loop says (fromHeight, toHeight, scanBlock).
THEOREM CursorIsInPlace == Spec => []CursorInv
<1>1. ScanInv => CursorInv
  BY DEF ScanInv
<1> QED BY <1>1, InitScanInv, ScanInvStep, PTL DEF Spec
=============================================================================
