--------------------------- MODULE UsartRingProofs ---------------------------
(***************************************************************************)
(* Proofs about the receive ring, of any length, for any interleaving of   *)
(* interrupts, and however far the sender gets ahead: it is a queue until  *)
(* one interrupt, the one `overwritten' records, comes.                    *)
(*                                                                         *)
(* The invariant says which bytes lie where.  While PopQueue starts over   *)
(* at the front, ovr and rIdx disagree for a moment, and the ring is the   *)
(* one they describe after both were written: Start and Wrapped.           *)
(***************************************************************************)
EXTENDS UsartRing, TLAPS

(* The index the oldest byte is at, and whether the ring's bytes go round  *)
(* its end, once a wrap under way is complete.                             *)
Start   == IF pc = "wrapRIdx" THEN 0 ELSE rIdx
Wrapped == ovr = 1 /\ pc # "wrapOvr"

Straight ==
    /\ Start + accepted = wIdx + Left
    /\ \A i \in Indices :
         Start <= i /\ i < wIdx => buf[i] + Start = Left + 1 + i

Round ==
    /\ wIdx <= rIdx /\ rIdx + accepted = RLen + wIdx + Left
    /\ \A i \in Indices : rIdx <= i => buf[i] + rIdx = Left + 1 + i
    /\ \A i \in Indices : i < wIdx => buf[i] + rIdx = Left + 1 + RLen + i

RingInv == (Wrapped => Round) /\ (~Wrapped => Straight)

(* What PopQueue has found out is still so, whatever was pushed since. *)
PopInv ==
    /\ pc = "overrun" => ovr = 1
    /\ pc = "wrap" => ovr = 1 /\ rIdx = RLen /\ 0 < wIdx
    /\ pc = "wrapRIdx" => ovr = 0 /\ rIdx = RLen /\ 0 < wIdx
    /\ pc = "wrapOvr" => ovr = 1 /\ rIdx = 0 /\ 0 < wIdx
    /\ pc \in {"take", "advance"} /\ ovr = 0 => rIdx < wIdx
    /\ pc = "advance" => popped > 0

QInv == TypeOK /\ RingInv /\ PopInv /\ last = popped

(* What QueueMessagesWaiting has computed, with the index still to be read *)
(* as it is now, is a number of bytes that the ring had since the call.    *)
AskInv ==
    /\ qpc = "indices" => sum = IF ovr = 1 THEN RLen ELSE 0
    /\ qpc \in {"indices", "wIdx", "rIdx"} =>
          /\ pc \notin {"wrapRIdx", "wrapOvr"}
          /\ acceptedThen <= accepted /\ leftThen <= Left
    /\ qpc = "wIdx" => /\ leftThen <= accepted - (sum + wIdx)
                       /\ accepted - (sum + wIdx) <= Left
    /\ qpc = "rIdx" => /\ acceptedThen <= (sum - rIdx) + Left
                       /\ (sum - rIdx) + Left <= accepted
    /\ qpc = "answer" => sum \in acceptedThen - Left .. accepted - leftThen

(* The indices stay in the ring whatever is overwritten. *)
Bounds == TypeOK /\ (pc = "wrapOvr" => rIdx = 0)

IInv ==
    /\ Bounds
    /\ ~overwritten => QInv
    /\ ~overwritten /\ ~turned => AskInv

LEMMA InitIInv == Init => IInv
<1> USE RingAssumption
<1> SUFFICES ASSUME Init PROVE IInv
  OBVIOUS
<1>1. Bounds
  <2>1. overwritten \in BOOLEAN /\ turned \in BOOLEAN
    BY DEF Init
  <2>2. buf \in [Indices -> Nat]
    BY DEF Init
  <2> QED BY <2>1, <2>2 DEF Init, Bounds, TypeOK
<1>2. QInv
  BY <1>1 DEF Init, Bounds, QInv, RingInv, PopInv, Straight, Round, Start,
              Wrapped, Left, Indices
<1>3. AskInv
  BY DEF Init, AskInv
<1> QED BY <1>1, <1>2, <1>3 DEF IInv

-----------------------------------------------------------------------------
(* No step leaves the bounds, be the ring a queue or not. *)
LEMMA PushInBounds ==
    ASSUME Bounds, USART6_IRQHandler
    PROVE  Bounds'
<1> USE RingAssumption
<1>1. /\ UNCHANGED <<rIdx, popped, last, rxPipeState, pc>>
      /\ UNCHANGED <<qpc, sum, acceptedThen, leftThen>>
      /\ accepted' = accepted + 1
      /\ overwritten' \in BOOLEAN /\ turned' \in BOOLEAN
  BY DEF USART6_IRQHandler, PushQueue, ask, Bounds, TypeOK
<1>2. PICK at \in Indices :
        /\ buf' = [buf EXCEPT ![at] = accepted + 1] /\ wIdx' = at + 1
        /\ ovr' \in {0, 1}
  <2>1. CASE MayWrap
    <3>1. /\ buf' = [buf EXCEPT ![0] = accepted + 1] /\ wIdx' = 0 + 1 /\ ovr' = 1
      BY <2>1 DEF USART6_IRQHandler, PushQueue
    <3>2. 0 \in Indices
      BY DEF Indices
    <3> QED BY <3>1, <3>2
  <2>2. CASE ~MayWrap
    <3>1. /\ buf' = [buf EXCEPT ![wIdx] = accepted + 1] /\ wIdx' = wIdx + 1
          /\ ovr' = ovr /\ (RoomToEnd \/ RoomToReader)
      BY <2>2 DEF USART6_IRQHandler, PushQueue, MayPush
    <3>2. wIdx \in Indices /\ ovr \in {0, 1}
      BY <3>1 DEF RoomToEnd, RoomToReader, Indices, Bounds, TypeOK
    <3> QED BY <3>1, <3>2
  <2> QED BY <2>1, <2>2
<1>3. buf' \in [Indices -> Nat] /\ wIdx' \in 0..RLen
  BY <1>2 DEF Bounds, TypeOK, Indices
<1> QED BY <1>1, <1>2, <1>3 DEF Bounds, TypeOK

LEMMA PopInBounds ==
    ASSUME Bounds, PopQueue
    PROVE  Bounds'
<1> USE RingAssumption
<1>1. /\ UNCHANGED <<rxPipeState, wIdx, buf, accepted, overwritten>>
      /\ UNCHANGED <<qpc, sum, acceptedThen, leftThen>> /\ turned' \in BOOLEAN
  BY DEF PopQueue, TestNoOverrun, Compare, TestOverrun, Overrun, Wrap, WrapRIdx,
         WrapOvr, Take, Advance, Step, ask, Bounds, TypeOK
<1>2. CASE TestNoOverrun \/ Compare \/ TestOverrun \/ Overrun
  BY <1>1, <1>2 DEF TestNoOverrun, Compare, TestOverrun, Overrun, Step, Bounds,
                    TypeOK
<1>3. CASE Wrap \/ WrapRIdx \/ WrapOvr
  BY <1>1, <1>3 DEF Wrap, WrapRIdx, WrapOvr, Step, Bounds, TypeOK
<1>4. CASE Take \/ Advance
  <2>1. buf[rIdx] \in Nat
    BY <1>4 DEF Take, Advance, Step, Bounds, TypeOK, Indices
  <2>2. CASE Take
    BY <1>1, <2>1, <2>2 DEF Take, Step, Bounds, TypeOK
  <2>3. CASE Advance
    BY <1>1, <2>3 DEF Advance, Step, Bounds, TypeOK
  <2> QED BY <1>4, <2>2, <2>3
<1> QED BY <1>2, <1>3, <1>4 DEF PopQueue

LEMMA AskInBounds ==
    ASSUME Bounds, QueueMessagesWaiting
    PROVE  Bounds'
<1> USE RingAssumption
<1>1. /\ UNCHANGED <<wIdx, rIdx, ovr, buf, rxPipeState, pc, overwritten>>
      /\ UNCHANGED <<accepted, popped, last>>
  BY DEF QueueMessagesWaiting, ReadOvr, ReadRIdx, ReadWIdx, Answer, Ask, queue,
         count
<1>2. sum' \in Int /\ qpc' \in {"idle", "indices", "rIdx", "wIdx", "answer"}
  BY DEF QueueMessagesWaiting, ReadOvr, ReadRIdx, ReadWIdx, Answer, Ask, Bounds,
         TypeOK
<1>3. acceptedThen' \in Nat /\ leftThen' \in Int
  <2>1. Left \in Int
    BY DEF Left, Bounds, TypeOK
  <2> QED BY <2>1 DEF QueueMessagesWaiting, ReadOvr, ReadRIdx, ReadWIdx, Answer,
                      Bounds, TypeOK
<1>4. turned' \in BOOLEAN
  <2>1. CASE ReadOvr
    <3>1. turned' = (pc \in {"wrapRIdx", "wrapOvr"})
      BY <2>1 DEF ReadOvr
    <3> QED BY <3>1
  <2>2. CASE ReadRIdx \/ ReadWIdx
    BY <2>2 DEF ReadRIdx, ReadWIdx, Bounds, TypeOK
  <2>3. CASE Answer
    BY <2>3 DEF Answer
  <2> QED BY <2>1, <2>2, <2>3 DEF QueueMessagesWaiting
<1> QED BY <1>1, <1>2, <1>3, <1>4 DEF Bounds, TypeOK

LEMMA StepInBounds ==
    ASSUME Bounds, [Next]_vars
    PROVE  Bounds'
<1>1. CASE EnableRxPipe \/ UNCHANGED vars
  <2>1. /\ UNCHANGED <<wIdx, rIdx, ovr, buf, pc, accepted, popped, last>>
        /\ UNCHANGED <<qpc, sum, acceptedThen, leftThen, overwritten, turned>>
        /\ rxPipeState' \in {0, 1}
    BY <1>1 DEF EnableRxPipe, vars, queue, count, ask, Bounds, TypeOK
  <2> QED BY <2>1 DEF Bounds, TypeOK
<1> QED BY <1>1, PushInBounds, PopInBounds, AskInBounds DEF Next

-----------------------------------------------------------------------------

(* A byte that is pushed goes behind the youngest one ... *)
PushBehind ==
    /\ (ovr = 0 /\ wIdx < RLen) \/ (ovr = 1 /\ wIdx < rIdx)
    /\ ovr' = ovr /\ wIdx' = wIdx + 1
    /\ buf' = [buf EXCEPT ![wIdx] = accepted + 1]

(* ... or to the front, which the reader has left. *)
PushFront ==
    /\ ovr = 0 /\ wIdx = RLen /\ 0 < rIdx
    /\ ovr' = 1 /\ wIdx' = 1
    /\ buf' = [buf EXCEPT ![0] = accepted + 1]

(* Neither overwrites a byte that is still to be read. *)
LEMMA PushKeeps ==
    ASSUME QInv, TypeOK', USART6_IRQHandler, ~overwritten'
    PROVE  QInv'
<1> USE RingAssumption
<1>1. /\ accepted' = accepted + 1 /\ rIdx' = rIdx /\ popped' = popped
      /\ last' = last /\ rxPipeState' = rxPipeState /\ pc' = pc
  BY DEF USART6_IRQHandler, PushQueue
<1>2. ~(MayWrap /\ pc = "wrapRIdx")
  BY DEF USART6_IRQHandler, PushQueue
<1>3. PushBehind \/ PushFront
  <2>1. CASE MayWrap
    <3>1. PushFront
      BY <2>1 DEF USART6_IRQHandler, PushQueue, MayWrap, PushFront, QInv, TypeOK
    <3> QED BY <3>1
  <2>2. CASE ~MayWrap
    <3>1. /\ ovr' = ovr /\ wIdx' = wIdx + 1
          /\ buf' = [buf EXCEPT ![wIdx] = accepted + 1]
      BY <2>2 DEF USART6_IRQHandler, PushQueue, MayWrap
    <3>2. RoomToEnd \/ RoomToReader
      BY <2>2 DEF USART6_IRQHandler, PushQueue, MayPush
    <3> QED BY <3>1, <3>2 DEF RoomToEnd, RoomToReader, PushBehind
  <2> QED BY <2>1, <2>2
<1>4. pc # "wrapOvr"
  BY <1>3 DEF PushBehind, PushFront, QInv, TypeOK, PopInv
<1>5. Left' = Left /\ Left \in Int /\ accepted - Left <= accepted - popped + 1
  BY <1>1 DEF Left, QInv, TypeOK
<1>6. CASE PushFront
  <2>1. Straight /\ ~Wrapped /\ Wrapped'
    BY <1>6, <1>1, <1>4 DEF PushFront, QInv, RingInv, Wrapped
  <2>2. pc # "wrapRIdx"
    BY <1>6, <1>2 DEF PushFront, MayWrap
  <2>3. Start = rIdx
    BY <2>2 DEF Start
  <2>4. rIdx + accepted = RLen + Left
    BY <2>1, <2>3, <1>6 DEF Straight, PushFront
  <2>5. \A i \in Indices : buf'[i] = IF i = 0 THEN accepted + 1 ELSE buf[i]
    BY <1>6 DEF PushFront, QInv, TypeOK
  <2>6. Round'
    <3>1. wIdx' <= rIdx' /\ rIdx' + accepted' = RLen + wIdx' + Left'
      BY <2>4, <1>1, <1>5, <1>6 DEF PushFront, QInv, TypeOK
    <3>2. ASSUME NEW i \in Indices, rIdx' <= i
          PROVE  buf'[i] + rIdx' = Left' + 1 + i
      BY <3>2, <2>1, <2>3, <2>5, <1>1, <1>5, <1>6
      DEF Straight, PushFront, QInv, TypeOK, Indices
    <3>3. ASSUME NEW i \in Indices, i < wIdx'
          PROVE  buf'[i] + rIdx' = Left' + 1 + RLen + i
      BY <3>3, <2>4, <2>5, <1>1, <1>5, <1>6 DEF PushFront, QInv, TypeOK, Indices
    <3> QED BY <3>1, <3>2, <3>3 DEF Round
  <2>8. PopInv'
    BY <2>2, <1>1, <1>4, <1>6 DEF PushFront, QInv, PopInv, TypeOK
  <2> QED BY <2>1, <2>6, <2>8, <1>1 DEF QInv, RingInv
<1>7. CASE PushBehind
  <2>1. Start' = Start /\ Start \in 0..RLen /\ wIdx \in Indices
    BY <1>1, <1>7 DEF Start, PushBehind, QInv, TypeOK, Indices
  <2>2. Wrapped' <=> Wrapped
    BY <1>1, <1>7 DEF Wrapped, PushBehind
  <2>3. \A i \in Indices : buf'[i] = IF i = wIdx THEN accepted + 1 ELSE buf[i]
    BY <1>7 DEF PushBehind, QInv, TypeOK
  <2>5. PopInv'
    BY <1>1, <1>7 DEF PushBehind, QInv, PopInv, TypeOK
  <2>6. ASSUME Wrapped PROVE Round'
    <3>1. Round /\ wIdx < rIdx
      BY <2>6, <1>7 DEF QInv, RingInv, Wrapped, PushBehind
    <3>2. wIdx' <= rIdx' /\ rIdx' + accepted' = RLen + wIdx' + Left'
      BY <3>1, <1>1, <1>5, <1>7 DEF Round, PushBehind, QInv, TypeOK
    <3>3. ASSUME NEW i \in Indices, rIdx' <= i
          PROVE  buf'[i] + rIdx' = Left' + 1 + i
      BY <3>3, <3>1, <2>3, <1>1, <1>5 DEF Round, QInv, TypeOK, Indices
    <3>4. ASSUME NEW i \in Indices, i < wIdx'
          PROVE  buf'[i] + rIdx' = Left' + 1 + RLen + i
      <4>1. i < wIdx \/ i = wIdx
        BY <3>4, <1>7 DEF PushBehind, QInv, TypeOK, Indices
      <4>2. CASE i < wIdx
        <5>1. buf[i] + rIdx = Left + 1 + RLen + i
          BY <4>2, <3>1 DEF Round
        <5>2. buf'[i] = buf[i]
          BY <4>2, <2>3 DEF QInv, TypeOK, Indices
        <5> QED BY <5>1, <5>2, <1>1, <1>5
      <4>3. CASE i = wIdx
        <5>1. buf'[i] = accepted + 1
          BY <4>3, <2>3
        <5>2. accepted + 1 + rIdx = Left + 1 + RLen + i
          BY <4>3, <3>1, <1>5 DEF Round, QInv, TypeOK
        <5> QED BY <5>1, <5>2, <1>1, <1>5
      <4> QED BY <4>1, <4>2, <4>3
    <3> QED BY <3>2, <3>3, <3>4 DEF Round
  <2>7. ASSUME ~Wrapped PROVE Straight'
    <3>1. Straight
      BY <2>7 DEF QInv, RingInv
    <3>2. /\ wIdx' = wIdx + 1 /\ accepted' = accepted + 1 /\ Left' = Left
          /\ accepted \in Nat /\ wIdx \in Nat
          /\ \A i \in Indices : buf[i] \in Nat
      BY <1>1, <1>5, <1>7 DEF PushBehind, QInv, TypeOK
    <3>3. Start' + accepted' = wIdx' + Left'
      BY <3>1, <3>2, <2>1, <1>5 DEF Straight
    <3>4. ASSUME NEW i \in Indices, Start' <= i, i < wIdx'
          PROVE  buf'[i] + Start' = Left' + 1 + i
      <4>1. CASE i = wIdx
        BY <4>1, <3>1, <3>2, <2>1, <2>3, <1>5 DEF Straight
      <4>2. CASE i # wIdx
        <5>1. i < wIdx /\ Start <= i
          BY <4>2, <3>2, <3>4, <2>1 DEF Indices
        <5>2. buf[i] + Start = Left + 1 + i /\ buf'[i] = buf[i]
          BY <4>2, <5>1, <3>1, <2>3 DEF Straight
        <5> QED BY <5>2, <3>2, <2>1
      <4> QED BY <4>1, <4>2
    <3> QED BY <3>3, <3>4 DEF Straight
  <2> QED BY <2>2, <2>5, <2>6, <2>7, <1>1 DEF QInv, RingInv
<1> QED BY <1>3, <1>6, <1>7

-----------------------------------------------------------------------------
(* The tests of PopQueue write nothing. *)
LEMMA TestsKeep ==
    ASSUME QInv, TypeOK', TestNoOverrun \/ Compare \/ TestOverrun \/ Overrun
    PROVE  QInv'
<1> USE RingAssumption
<1>1. /\ UNCHANGED <<queue, rxPipeState, count>>
      /\ pc \in {"idle", "compare", "retest", "overrun"}
      /\ pc' \in {"idle", "compare", "retest", "overrun", "wrap", "take"}
  BY DEF TestNoOverrun, Compare, TestOverrun, Overrun, Step, queue, count
<1>2. PopInv'
  <2>1. CASE TestNoOverrun
    BY <2>1, <1>1 DEF TestNoOverrun, Step, QInv, TypeOK, PopInv, queue, count
  <2>2. CASE Compare
    BY <2>2, <1>1 DEF Compare, Step, QInv, TypeOK, PopInv, queue, count
  <2>3. CASE TestOverrun
    BY <2>3, <1>1 DEF TestOverrun, Step, QInv, TypeOK, PopInv, queue, count
  <2>4. CASE Overrun
    BY <2>4, <1>1 DEF Overrun, Step, QInv, TypeOK, PopInv, queue, count
  <2> QED BY <2>1, <2>2, <2>3, <2>4
<1>3. Start' = Start /\ Left' = Left /\ (Wrapped' <=> Wrapped)
  BY <1>1 DEF Start, Left, Wrapped, queue, count
<1>4. RingInv'
  BY <1>1, <1>3 DEF QInv, RingInv, Straight, Round, queue, count
<1> QED BY <1>1, <1>2, <1>4 DEF QInv, count

(* The two writes of the wrap: the ring they describe together is the one  *)
(* before, seen from its front.                                            *)
LEMMA WrapKeeps ==
    ASSUME QInv, TypeOK', Wrap \/ WrapRIdx \/ WrapOvr
    PROVE  QInv'
<1> USE RingAssumption
<1>1. /\ UNCHANGED <<wIdx, buf, rxPipeState, count>>
      /\ Left' = Left /\ Left = popped
  BY DEF Wrap, WrapRIdx, WrapOvr, Step, Left, count
<1>2. CASE Wrap
  <2>1. /\ Round /\ ovr = 1 /\ rIdx = RLen /\ 0 < wIdx /\ pc = "wrap"
    BY <1>2 DEF Wrap, Step, QInv, RingInv, PopInv, Wrapped
  <2>2. Start' = 0 /\ ~Wrapped'
    BY <1>2, <2>1 DEF Wrap, Step, Start, Wrapped
  <2>3. Straight'
    <3>1. /\ UNCHANGED <<wIdx, buf, accepted>> /\ Left \in Nat
          /\ wIdx \in Nat /\ accepted \in Nat
          /\ \A i \in Indices : buf[i] \in Nat
      BY <1>1 DEF QInv, TypeOK, count
    <3>2. Start' + accepted' = wIdx' + Left'
      BY <3>1, <2>1, <2>2, <1>1 DEF Round
    <3>3. ASSUME NEW i \in Indices, i < wIdx'
          PROVE  buf'[i] + Start' = Left' + 1 + i
      <4>1. buf[i] + RLen = Left + 1 + RLen + i
        BY <3>1, <3>3, <2>1 DEF Round
      <4> QED BY <4>1, <3>1, <2>2, <1>1 DEF Indices
    <3> QED BY <3>2, <3>3 DEF Straight
  <2>4. PopInv'
    BY <1>2, <2>1, <1>1 DEF Wrap, Step, QInv, TypeOK, PopInv, count
  <2> QED BY <2>2, <2>3, <2>4, <1>1 DEF QInv, RingInv, count
<1>3. CASE WrapRIdx \/ WrapOvr
  <2>1. /\ ~Wrapped /\ ~Wrapped' /\ Start = 0 /\ Start' = 0 /\ 0 < wIdx
        /\ pc' = "take" /\ rIdx' = 0 /\ ovr' = 0
    BY <1>3 DEF WrapRIdx, WrapOvr, Step, QInv, TypeOK, PopInv, Start, Wrapped
  <2>2. Straight'
    BY <2>1, <1>1 DEF Straight, QInv, RingInv, count
  <2>3. PopInv'
    BY <2>1, <1>1 DEF QInv, TypeOK, PopInv, count
  <2> QED BY <2>1, <2>2, <2>3, <1>1 DEF QInv, RingInv, count
<1> QED BY <1>2, <1>3

(* The byte that is taken is the oldest in the ring. *)
LEMMA TakeKeeps ==
    ASSUME QInv, TypeOK', Take
    PROVE  QInv'
<1> USE RingAssumption
<1>1. /\ pc = "take" /\ pc' = "advance" /\ UNCHANGED <<queue, rxPipeState, accepted>>
      /\ last' = buf[rIdx] /\ popped' = popped + 1
  BY DEF Take, Step, queue
<1>2. /\ Start = rIdx /\ Start' = rIdx /\ Left = popped /\ Left' = popped
      /\ (Wrapped' <=> Wrapped) /\ rIdx \in Indices
  BY <1>1 DEF Start, Left, Wrapped, QInv, TypeOK, queue, Indices
<1>3. buf[rIdx] = popped + 1
  <2>1. CASE Wrapped
    BY <2>1, <1>2 DEF QInv, RingInv, Round, TypeOK
  <2>2. CASE ~Wrapped
    BY <2>2, <1>1, <1>2 DEF QInv, RingInv, Straight, PopInv, Wrapped, TypeOK
  <2> QED BY <2>1, <2>2
<1>4. RingInv'
  BY <1>1, <1>2 DEF QInv, RingInv, Straight, Round, queue
<1>5. PopInv'
  BY <1>1, <1>3 DEF QInv, TypeOK, PopInv, queue
<1> QED BY <1>1, <1>3, <1>4, <1>5 DEF QInv

LEMMA AdvanceKeeps ==
    ASSUME QInv, TypeOK', Advance
    PROVE  QInv'
<1> USE RingAssumption
<1>1. /\ pc = "advance" /\ pc' = "idle" /\ rIdx' = rIdx + 1
      /\ UNCHANGED <<wIdx, ovr, buf, rxPipeState, count>>
  BY DEF Advance, Step, count
<1>2. Start = rIdx /\ Start' = rIdx + 1 /\ Left' = Left + 1 /\ Left \in Int
  BY <1>1 DEF Start, Left, QInv, TypeOK, count
<1>3. PopInv'
  BY <1>1 DEF QInv, TypeOK, PopInv, count
<1>4. Wrapped' <=> Wrapped
  BY <1>1 DEF Wrapped
<1>5. CASE Wrapped
  <2>1. Round
    BY <1>5 DEF QInv, RingInv
  <2>2. Round'
    <3>1. /\ wIdx' = wIdx /\ rIdx' = rIdx + 1 /\ accepted' = accepted
          /\ buf' = buf /\ Left' = Left + 1
      BY <1>1, <1>2 DEF count
    <3>2. wIdx' <= rIdx' /\ rIdx' + accepted' = RLen + wIdx' + Left'
      BY <3>1, <2>1, <1>2 DEF Round, QInv, TypeOK
    <3>3. ASSUME NEW i \in Indices, rIdx' <= i
          PROVE  buf'[i] + rIdx' = Left' + 1 + i
      <4>1. rIdx <= i
        BY <3>3, <3>1 DEF QInv, TypeOK, Indices
      <4>2. buf[i] + rIdx = Left + 1 + i
        BY <4>1, <2>1 DEF Round
      <4>3. rIdx \in Int /\ buf[i] \in Int /\ i \in Int
        BY DEF QInv, TypeOK, Indices
      <4> QED BY <4>2, <4>3, <3>1, <1>2
    <3>4. ASSUME NEW i \in Indices, i < wIdx'
          PROVE  buf'[i] + rIdx' = Left' + 1 + RLen + i
      <4>1. buf[i] + rIdx = Left + 1 + RLen + i
        BY <3>4, <3>1, <2>1 DEF Round
      <4>2. rIdx \in Int /\ buf[i] \in Int /\ i \in Int
        BY DEF QInv, TypeOK, Indices
      <4> QED BY <4>1, <4>2, <3>1, <1>2
    <3> QED BY <3>2, <3>3, <3>4 DEF Round
  <2> QED BY <2>2, <1>1, <1>3, <1>4, <1>5 DEF QInv, RingInv, count
<1>6. CASE ~Wrapped
  <2>1. Straight
    BY <1>6 DEF QInv, RingInv
  <2>2. Straight'
    <3>1. /\ wIdx' = wIdx /\ Start' = Start + 1 /\ accepted' = accepted
          /\ buf' = buf /\ Left' = Left + 1 /\ Start \in Nat
      BY <1>1, <1>2 DEF count, QInv, TypeOK
    <3>2. Start' + accepted' = wIdx' + Left'
      BY <3>1, <2>1, <1>2 DEF Straight, QInv, TypeOK
    <3>3. ASSUME NEW i \in Indices, Start' <= i, i < wIdx'
          PROVE  buf'[i] + Start' = Left' + 1 + i
      <4>1. Start <= i /\ i < wIdx
        BY <3>3, <3>1 DEF Indices
      <4>2. buf[i] + Start = Left + 1 + i
        BY <4>1, <2>1 DEF Straight
      <4>3. buf[i] \in Int /\ i \in Int
        BY DEF QInv, TypeOK, Indices
      <4> QED BY <4>2, <4>3, <3>1, <1>2
    <3> QED BY <3>2, <3>3 DEF Straight
  <2> QED BY <2>2, <1>1, <1>3, <1>4, <1>6 DEF QInv, RingInv, count
<1> QED BY <1>5, <1>6

(* The other steps leave the ring alone. *)
LEMMA OthersKeep ==
    ASSUME QInv, TypeOK', EnableRxPipe \/ QueueMessagesWaiting \/ UNCHANGED vars
    PROVE  QInv'
<1>1. UNCHANGED <<wIdx, rIdx, ovr, buf, pc, accepted, popped, last>>
  BY DEF EnableRxPipe, QueueMessagesWaiting, ReadOvr, ReadRIdx, ReadWIdx, Answer,
         Ask, vars, queue, count
<1> QED BY <1>1 DEF QInv, RingInv, PopInv, Straight, Round, Start, Wrapped, Left

-----------------------------------------------------------------------------
(* A byte that is pushed, or popped, moves what was read with what is left *)
(* to read, unless the ring starts over.                                   *)
LEMMA PushKeepsAsk ==
    ASSUME Bounds, USART6_IRQHandler, ~turned', ~turned => AskInv
    PROVE  AskInv'
<1>1. /\ UNCHANGED <<rIdx, popped, pc, qpc, sum, acceptedThen, leftThen>>
      /\ Left' = Left
      /\ accepted' = accepted + 1 /\ ~turned
      /\ qpc # "idle" => ovr' = ovr /\ wIdx' = wIdx + 1
  BY DEF USART6_IRQHandler, PushQueue, ask, Left
<1>2. acceptedThen \in Int /\ leftThen \in Int /\ Left \in Int
  BY DEF Bounds, TypeOK, Left
<1> QED BY <1>1, <1>2 DEF AskInv, Bounds, TypeOK

LEMMA PopKeepsAsk ==
    ASSUME Bounds, PopQueue, ~turned', ~turned => AskInv
    PROVE  AskInv'
<1>1. CASE qpc = "idle"
  <2>1. qpc' = "idle"
    BY <1>1 DEF PopQueue, TestNoOverrun, Compare, TestOverrun, Overrun, Wrap,
                WrapRIdx, WrapOvr, Take, Advance, Step, ask
  <2> QED BY <2>1 DEF AskInv
<1>2. CASE qpc # "idle"
  <2>1. ~Wrap
    BY <1>2 DEF Wrap
  <2>2. UNCHANGED <<wIdx, accepted, qpc, sum, acceptedThen, leftThen>> /\ ~turned
    BY <2>1 DEF PopQueue, TestNoOverrun, Compare, TestOverrun, Overrun,
                WrapRIdx, WrapOvr, Take, Advance, Step, ask
  <2>3. acceptedThen \in Int /\ leftThen \in Int /\ Left \in Int
    BY DEF Bounds, TypeOK, Left
  <2>4. CASE WrapRIdx \/ WrapOvr
    <3>1. Left' = Left /\ pc \in {"wrapRIdx", "wrapOvr"}
      BY <2>4 DEF WrapRIdx, WrapOvr, Step, Left
    <3>2. qpc = "answer"
      BY <1>2, <2>2, <3>1 DEF AskInv, Bounds, TypeOK
    <3> QED BY <2>2, <2>3, <3>1, <3>2 DEF AskInv
  <2>5. CASE TestNoOverrun \/ Compare \/ TestOverrun \/ Overrun \/ Take \/ Advance
    <3>1. /\ ovr' = ovr /\ pc' \notin {"wrapRIdx", "wrapOvr"}
          /\ \/ rIdx' = rIdx /\ Left' = Left
             \/ rIdx' = rIdx + 1 /\ Left' = Left + 1
      <4>1. CASE TestNoOverrun \/ Compare \/ TestOverrun \/ Overrun
        BY <4>1 DEF TestNoOverrun, Compare, TestOverrun, Overrun, Step, Left
      <4>2. CASE Take
        BY <4>2 DEF Take, Step, Left, Bounds, TypeOK
      <4>3. CASE Advance
        BY <4>3 DEF Advance, Step, Left, Bounds, TypeOK
      <4> QED BY <2>5, <4>1, <4>2, <4>3
    <3> QED BY <2>2, <2>3, <3>1 DEF AskInv, Bounds, TypeOK
  <2> QED BY <2>1, <2>4, <2>5 DEF PopQueue
<1> QED BY <1>1, <1>2

(* The two indices, read now, are as far apart as there are bytes. *)
LEMMA IndicesApart ==
    ASSUME QInv, pc \notin {"wrapRIdx", "wrapOvr"}
    PROVE  rIdx + accepted = wIdx + Left + (IF ovr = 1 THEN RLen ELSE 0)
BY RingAssumption DEF QInv, TypeOK, RingInv, Straight, Round, Start, Wrapped, Left

LEMMA AskKeepsAsk ==
    ASSUME Bounds, QInv, QueueMessagesWaiting, ~turned', ~turned => AskInv
    PROVE  AskInv'
<1> USE RingAssumption
<1>1. /\ UNCHANGED <<wIdx, rIdx, ovr, pc, accepted, popped>> /\ Left' = Left
  BY DEF QueueMessagesWaiting, ReadOvr, ReadRIdx, ReadWIdx, Answer, Ask, queue,
         count, Left
<1>2. acceptedThen \in Int /\ leftThen \in Int /\ Left \in Int
  BY DEF Bounds, TypeOK, Left
<1>3. CASE ReadOvr
  <2>1. /\ qpc' = "indices" /\ sum' = (IF ovr = 1 THEN RLen ELSE 0)
        /\ acceptedThen' = accepted /\ leftThen' = Left
    BY <1>3 DEF ReadOvr, Ask
  <2>2. pc \notin {"wrapRIdx", "wrapOvr"}
    BY <1>3 DEF ReadOvr
  <2>3. accepted \in Int /\ acceptedThen' <= accepted' /\ leftThen' <= Left'
    BY <1>1, <1>2, <2>1 DEF Bounds, TypeOK
  <2> QED BY <1>1, <2>1, <2>2, <2>3 DEF AskInv
<1>4. CASE Answer
  BY <1>4 DEF Answer, Ask, AskInv
<1>5. CASE ReadRIdx \/ ReadWIdx
  <2>1. AskInv /\ UNCHANGED <<acceptedThen, leftThen>>
    BY <1>5 DEF ReadRIdx, ReadWIdx
  <2>2. CASE qpc = "indices"
    <3>1. rIdx + accepted = wIdx + Left + sum
      BY <2>1, <2>2, IndicesApart DEF AskInv
    <3>2. \/ qpc' = "wIdx" /\ sum' = sum - rIdx
          \/ qpc' = "rIdx" /\ sum' = sum + wIdx
      BY <1>5, <2>2 DEF ReadRIdx, ReadWIdx, Ask
    <3> QED BY <1>1, <1>2, <2>1, <2>2, <3>1, <3>2 DEF AskInv, Bounds, TypeOK
  <2>3. CASE qpc = "rIdx"
    <3>1. qpc' = "answer" /\ sum' = sum - rIdx
      BY <1>5, <2>3 DEF ReadRIdx, ReadWIdx, Ask
    <3> QED BY <1>1, <1>2, <2>1, <2>3, <3>1 DEF AskInv, Bounds, TypeOK
  <2>4. CASE qpc = "wIdx"
    <3>1. qpc' = "answer" /\ sum' = sum + wIdx
      BY <1>5, <2>4 DEF ReadRIdx, ReadWIdx, Ask
    <3> QED BY <1>1, <1>2, <2>1, <2>4, <3>1 DEF AskInv, Bounds, TypeOK
  <2> QED BY <1>5, <2>2, <2>3, <2>4 DEF ReadRIdx, ReadWIdx, Ask
<1> QED BY <1>3, <1>4, <1>5 DEF QueueMessagesWaiting

LEMMA OthersKeepAsk ==
    ASSUME AskInv, EnableRxPipe \/ UNCHANGED vars
    PROVE  AskInv'
<1>1. /\ UNCHANGED <<wIdx, rIdx, ovr, pc, accepted, popped>>
      /\ UNCHANGED <<qpc, sum, acceptedThen, leftThen>>
  BY DEF EnableRxPipe, vars, queue, count, ask
<1> QED BY <1>1 DEF AskInv, Left

-----------------------------------------------------------------------------
THEOREM Invariance == Spec => []IInv
<1>1. IInv /\ [Next]_vars => IInv'
  <2> SUFFICES ASSUME IInv, [Next]_vars PROVE IInv'
    OBVIOUS
  <2>1. Bounds /\ Bounds' /\ TypeOK'
    BY StepInBounds DEF IInv, Bounds
  <2>2. ASSUME ~overwritten' PROVE QInv /\ QInv'
    <3>1. QInv
      BY <2>2 DEF IInv, Next, USART6_IRQHandler, PushQueue, EnableRxPipe,
                  PopQueue, TestNoOverrun, Compare, TestOverrun, Overrun, Wrap,
                  WrapRIdx, WrapOvr, Take, Advance, Step, QueueMessagesWaiting,
                  ReadOvr, ReadRIdx, ReadWIdx, Answer, Ask, vars
    <3>2. CASE USART6_IRQHandler
      BY <2>1, <2>2, <3>1, <3>2, PushKeeps
    <3>3. CASE PopQueue
      BY <2>1, <3>1, <3>3, TestsKeep, WrapKeeps, TakeKeeps, AdvanceKeeps
      DEF PopQueue
    <3>4. CASE EnableRxPipe \/ QueueMessagesWaiting \/ UNCHANGED vars
      BY <2>1, <3>1, <3>4, OthersKeep
    <3> QED BY <3>1, <3>2, <3>3, <3>4 DEF Next
  <2>3. ASSUME ~overwritten', ~turned' PROVE AskInv'
    <3>1. QInv /\ (~turned => AskInv)
      <4>1. ~overwritten
        BY <2>3 DEF Next, USART6_IRQHandler, PushQueue, EnableRxPipe,
                  PopQueue, TestNoOverrun, Compare, TestOverrun, Overrun, Wrap,
                  WrapRIdx, WrapOvr, Take, Advance, Step, QueueMessagesWaiting,
                  ReadOvr, ReadRIdx, ReadWIdx, Answer, Ask, vars
      <4> QED BY <4>1 DEF IInv
    <3>2. CASE USART6_IRQHandler
      BY <2>1, <2>3, <3>1, <3>2, PushKeepsAsk
    <3>3. CASE PopQueue
      BY <2>1, <2>3, <3>1, <3>3, PopKeepsAsk
    <3>4. CASE QueueMessagesWaiting
      BY <2>1, <2>3, <3>1, <3>4, AskKeepsAsk
    <3>5. CASE EnableRxPipe \/ UNCHANGED vars
      <4>1. turned' = turned
        BY <3>5 DEF EnableRxPipe, vars
      <4> QED BY <2>3, <3>1, <3>5, <4>1, OthersKeepAsk
    <3> QED BY <3>2, <3>3, <3>4, <3>5 DEF Next
  <2> QED BY <2>1, <2>2, <2>3 DEF IInv
<1> QED BY <1>1, InitIInv, PTL DEF Spec

(* No access of the ring is outside of its buffer (usart.c:72, 105),       *)
(* whatever has been overwritten.                                          *)
THEOREM TypeCorrect == Spec => []TypeOK
<1>1. IInv => TypeOK
  BY DEF IInv, Bounds
<1> QED BY <1>1, Invariance, PTL

(* The ring delivers the bytes it accepted in their order (usart.c:80),    *)
(* until one interrupt comes to a full ring in the middle of a wrap.       *)
THEOREM InOrderCorrect == Spec => []InOrder
<1>1. IInv => InOrder
  BY DEF IInv, QInv, InOrder
<1> QED BY <1>1, Invariance, PTL

(* USART_Readable returns a number of bytes that the ring had while it was *)
(* asked (usart.c:113-119), if no index started over meanwhile.            *)
THEOREM WaitingCorrect == Spec => []WaitingWasUnread
<1>1. IInv => WaitingWasUnread
  BY DEF IInv, AskInv, WaitingWasUnread
<1> QED BY <1>1, Invariance, PTL

(* A byte is refused only by a full ring, or in a wrap (usart.c:57-67).    *)
THEOREM RefusedCorrect == Spec => []RefusedOnlyWhenFull
<1>1. IInv => RefusedOnlyWhenFull
  BY RingAssumption DEF IInv, QInv, TypeOK, RingInv, PopInv, Straight, Round,
      Start, Wrapped, Left, RefusedOnlyWhenFull, MayPush, MayWrap, RoomToEnd,
      RoomToReader
<1> QED BY <1>1, Invariance, PTL

=============================================================================
