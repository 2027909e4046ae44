---------------------------- MODULE UsartProofs ----------------------------
(***************************************************************************)
(* The driver with its transmit streams keeps the promises of the receive  *)
(* ring, for any number of slots and any length of the ring; and until an  *)
(* interrupt moves the streams USART_Send is looking at, no stream is      *)
(* stranded, although the search of the interrupt handler leaves out       *)
(* slots: the pending streams lie next to each other.                      *)
(***************************************************************************)
EXTENDS Usart, UsartRingProofs

(* Every step of the driver is a step of the ring, or leaves it alone. *)
LEMMA RingStep == [DriverNext]_allVars => [Next]_vars
<1>1. ReceiveInterrupt => [Next]_vars
  BY DEF ReceiveInterrupt, Next
<1>2. TransmitInterrupt \/ Shift => UNCHANGED vars
  BY DEF TransmitInterrupt, Shift
<1>3. USART_Send => UNCHANGED vars
  BY DEF USART_Send, SendNonBlocking, SendBlocking, Call, Find, Test, SetBuf,
         SetLen, Enable, Poll, Write, StepSend
<1>4. UNCHANGED allVars => UNCHANGED vars
  BY DEF allVars
<1>5. EnableRxPipe \/ PopQueue \/ QueueMessagesWaiting => Next
  BY DEF Next
<1>6. QED
  BY <1>1, <1>2, <1>3, <1>4, <1>5 DEF DriverNext

(* What is proved of the ring alone holds of the ring in the driver, whose *)
(* interrupt handler serves both directions.                               *)
THEOREM DriverImplementsRing == DriverSpec => Spec
<1>1. DriverInit => Init
  BY DEF DriverInit
<1>2. QED
  BY <1>1, RingStep, PTL DEF DriverSpec, Spec

(* Bytes are popped in the order they came (usart.c:80), until one         *)
(* interrupt comes to a full ring in the middle of a wrap.                 *)
THEOREM DriverInOrder == DriverSpec => []InOrder
BY DriverImplementsRing, InOrderCorrect, PTL

(* A byte is refused only by a full ring, or in a wrap (usart.c:57-67). *)
THEOREM DriverRefusesOnlyWhenFull == DriverSpec => []RefusedOnlyWhenFull
BY DriverImplementsRing, RefusedCorrect, PTL

-----------------------------------------------------------------------------
(* How far behind the handler's index a slot is, going round. *)
Off(s) == IF usart_stream_idx <= s THEN s - usart_stream_idx
                                   ELSE s - usart_stream_idx + MaxStream

Pending(s) == pBuf[s] # NULL

(* A stream's bytes are bytes; one whose length is set has them, but for   *)
(* the slot that is being filled.                                          *)
StreamsInv ==
    \A s \in Slots :
        /\ Pending(s) => pBuf[s] \in Nat
        /\ BufLen[s] > 0 => Pending(s) \/ (spc = "setBuf" /\ s = idx)

(* The pending streams lie next to each other, from the handler's index on. *)
NoGaps ==
    \A s, t \in Slots : Off(s) <= Off(t) /\ Pending(t) => Pending(s)

(* The slots that USART_Send has passed over are in use. *)
SendInv ==
    /\ spc \in {"find", "test"} =>
          i < MaxStream /\ \A s \in Slots : Off(s) < i => Pending(s)
    /\ spc = "test" => Off(idx) = i
    /\ spc \in {"store", "setBuf"} =>
          /\ ~Pending(idx)
          /\ \A s \in Slots : Off(s) < Off(idx) => Pending(s)
    /\ spc \in {"store", "setBuf", "setLen"} =>
          \A s \in Slots : Pending(s) /\ s # idx => Off(s) < Off(idx)
    /\ spc = "setLen" => Pending(idx)
    /\ spc \in {"poll", "write"} => l > 0

(* The interrupt is enabled, but for the time USART_Send takes to do so. *)
Enabled ==
    spc \notin {"setLen", "enable"} /\ (\E s \in Slots : Pending(s)) => txeie

TxInv == TxTypeOK /\ StreamsInv /\ NoGaps /\ SendInv /\ Enabled

(* What an interrupt inside of USART_Send may do to the streams. *)
Still == Looking => ~Moved

LEMMA Wrapping ==
    ASSUME NEW a \in Nat, a < 2 * MaxStream
    PROVE  a % MaxStream = IF a < MaxStream THEN a ELSE a - MaxStream
<1>1. CASE a < MaxStream
  BY <1>1, StreamAssumption
<1>2. CASE MaxStream <= a
  BY <1>2, StreamAssumption
<1>3. QED
  BY <1>1, <1>2, StreamAssumption

LEMMA Modulus == ASSUME NEW a \in Int PROVE a % MaxStream \in Slots
BY StreamAssumption DEF Slots

LEMMA NullIsNoByte == NULL \in Int /\ NULL < 0
BY StreamAssumption DEF NULL

LEMMA MovesNothing ==
    ASSUME TxTypeOK, Still, Looking
    PROVE  /\ usart_stream_idx' = usart_stream_idx
           /\ \A s \in Slots : Pending(s)' <=> Pending(s)
BY DEF Still, Moved, Pending

LEMMA InitTx == DriverInit => TxInv
<1> SUFFICES ASSUME DriverInit PROVE TxInv
  OBVIOUS
<1>1. \A s \in Slots : pBuf[s] = NULL /\ BufLen[s] = 0
  BY DEF DriverInit
<1>2. TxTypeOK
  <2>1. 0 \in Slots /\ NULL \in Int
    BY StreamAssumption, NullIsNoByte DEF Slots
  <2>2. pBuf \in [Slots -> Int] /\ BufLen \in [Slots -> Nat]
    BY <2>1 DEF DriverInit
  <2>3. txeie \in BOOLEAN /\ answered \in BOOLEAN /\ disturbed \in BOOLEAN
    BY DEF DriverInit
  <2>4. /\ usart_stream_idx \in Slots /\ idx \in Slots
        /\ i \in Nat /\ base \in Nat /\ l \in Nat /\ dr \in Int
        /\ asked \in Nat /\ out \in Nat /\ lastOut \in Int /\ spc = "idle"
    BY <2>1 DEF DriverInit, Empty
  <2>5. QED
    BY <2>2, <2>3, <2>4 DEF TxTypeOK
<1>3. StreamsInv /\ NoGaps /\ Enabled
  BY <1>1 DEF StreamsInv, NoGaps, Enabled, Pending
<1>4. SendInv
  BY DEF DriverInit, SendInv
<1>5. QED
  BY <1>2, <1>3, <1>4 DEF TxInv

-----------------------------------------------------------------------------
(* The types, which no interrupt breaks. *)
TxBounds == TxTypeOK /\ (spc \in {"poll", "write"} => l > 0)

LEMMA InterruptInBounds ==
    ASSUME TxBounds, Interrupt, answered' \in BOOLEAN
    PROVE  TxBounds'
<1>0. usart_stream_idx \in Slots
  BY DEF TxBounds, TxTypeOK
<1>1. /\ UNCHANGED <<spc, i, idx, base, l, asked, out, lastOut>>
      /\ disturbed' \in BOOLEAN
  <2>1. disturbed' = (disturbed \/ (Looking /\ Moved))
    BY DEF Interrupt
  <2>2. QED
    BY <2>1 DEF Interrupt, sender, wire
<1>2. /\ pBuf' \in [Slots -> Int] /\ BufLen' \in [Slots -> Nat]
      /\ usart_stream_idx' \in Slots /\ txeie' \in BOOLEAN /\ dr' \in Int
  <2>1. CASE SendNext
    BY <1>0, <2>1 DEF SendNext, TxBounds, TxTypeOK
  <2>2. CASE EndStream
    <3>1. UNCHANGED <<BufLen, dr>> /\ pBuf' \in [Slots -> Int]
      BY <1>0, <2>2, NullIsNoByte DEF EndStream, TxBounds, TxTypeOK
    <3>2. \A k \in Slots : Tried(k) \in Slots
      <4>1. ASSUME NEW k \in Slots PROVE Tried(k) \in Slots
        <5>1. k * (k + 1) \in Int
          BY DEF Slots
        <5>2. usart_stream_idx + 1 + (k * (k + 1)) \div 2 \in Int
          BY <1>0, <5>1 DEF Slots
        <5>3. QED
          BY <5>2, Modulus DEF Tried
      <4>2. QED
        BY <4>1
    <3>3. MaxStream - 1 \in Slots
      BY StreamAssumption DEF Slots
    <3>4. usart_stream_idx' \in Slots /\ txeie' \in BOOLEAN
      BY <2>2, <3>2, <3>3 DEF EndStream, TxBounds, TxTypeOK
    <3>5. QED
      BY <3>1, <3>4 DEF TxBounds, TxTypeOK
  <2>3. CASE UNCHANGED <<streams, dr>>
    BY <2>3 DEF streams, TxBounds, TxTypeOK
  <2>4. QED
    BY <2>1, <2>2, <2>3 DEF Interrupt, TransmitPart
<1>3. QED
  BY <1>1, <1>2 DEF TxBounds, TxTypeOK

LEMMA SendInBounds ==
    ASSUME TxBounds, USART_Send
    PROVE  TxBounds'
<1>1. UNCHANGED <<usart_stream_idx, out, lastOut, disturbed>>
  BY DEF USART_Send, SendNonBlocking, SendBlocking, Call, Find, Test, SetBuf,
         SetLen, Enable, Poll, Write, StepSend, streams, wire
<1>2. CASE SendNonBlocking \/ SendBlocking
  <2>1. PICK n \in 1..MaxLen :
           /\ spc' \in {"find", "poll"} /\ base' = asked + 1 /\ l' = n /\ i' = 0
           /\ UNCHANGED <<pBuf, BufLen, txeie, dr, idx, asked>>
           /\ answered' = FALSE
    BY <1>2 DEF SendNonBlocking, SendBlocking, Call, streams
  <2>2. n \in Nat /\ n > 0
    BY StreamAssumption
  <2>3. l' > 0 /\ l' \in Nat /\ base' \in Nat /\ i' \in Nat
    BY <2>1, <2>2 DEF TxBounds, TxTypeOK
  <2>4. answered' \in BOOLEAN
    BY <2>1
  <2>5. QED
    BY <1>1, <2>1, <2>3, <2>4 DEF TxBounds, TxTypeOK
<1>3. CASE Find \/ Test
  <2>1. /\ UNCHANGED <<pBuf, BufLen, txeie, dr, base, l, asked, answered>>
        /\ spc' \in {"find", "test", "store", "idle"}
    BY <1>3 DEF Find, Test, StepSend, streams
  <2>2. i' \in Nat /\ idx' \in Slots
    <3>1. CASE Find
      <4>1. i + usart_stream_idx \in Int
        BY DEF TxBounds, TxTypeOK, Slots
      <4>2. QED
        BY <3>1, <4>1, Modulus DEF Find, StepSend, TxBounds, TxTypeOK
    <3>2. CASE Test
      BY <3>2 DEF Test, StepSend, TxBounds, TxTypeOK
    <3>3. QED
      BY <1>3, <3>1, <3>2
  <2>3. QED
    BY <1>1, <2>1, <2>2 DEF TxBounds, TxTypeOK
<1>4. CASE SetBuf \/ SetLen \/ Enable
  <2>1. /\ UNCHANGED <<dr, base, l, i, idx, answered>>
        /\ spc' \in {"setBuf", "setLen", "enable", "idle"}
    BY <1>4 DEF SetBuf, SetLen, Enable, StepSend
  <2>2. pBuf' \in [Slots -> Int] /\ BufLen' \in [Slots -> Nat]
    BY <1>4 DEF SetBuf, SetLen, Enable, StepSend, TxBounds, TxTypeOK
  <2>3. txeie' = txeie \/ txeie' = TRUE
    BY <1>4 DEF SetBuf, SetLen, Enable, StepSend
  <2>4. asked' = asked \/ asked' = asked + l
    BY <1>4 DEF SetBuf, SetLen, Enable, StepSend
  <2>5. asked' \in Nat
    BY <2>4 DEF TxBounds, TxTypeOK
  <2>6. QED
    BY <1>1, <2>1, <2>2, <2>3, <2>5 DEF TxBounds, TxTypeOK
<1>5. CASE Poll
  BY <1>1, <1>5 DEF Poll, streams, TxBounds, TxTypeOK
<1>6. CASE Write
  BY <1>1, <1>6 DEF Write, streams, TxBounds, TxTypeOK
<1>7. QED
  BY <1>2, <1>3, <1>4, <1>5, <1>6 DEF USART_Send

LEMMA StepInTxBounds ==
    ASSUME TxBounds, [DriverNext]_allVars
    PROVE  TxBounds'
<1>1. CASE ReceiveInterrupt
  <2>1. answered' = (out = asked /\ spc = "idle")
    BY <1>1 DEF ReceiveInterrupt
  <2>2. QED
    BY <1>1, <2>1, InterruptInBounds DEF ReceiveInterrupt
<1>2. CASE TransmitInterrupt
  BY <1>2, InterruptInBounds DEF TransmitInterrupt, TxBounds, TxTypeOK
<1>3. CASE Shift
  BY <1>3 DEF Shift, streams, sender, Empty, TxBounds, TxTypeOK
<1>4. CASE UNCHANGED tx
  BY <1>4 DEF tx, streams, sender, wire, TxBounds, TxTypeOK
<1>5. QED
  BY <1>1, <1>2, <1>3, <1>4, SendInBounds DEF DriverNext, allVars

(* The transmit side keeps its types: no slot is outside of the array, and *)
(* no length goes below zero (usart.c:287-290, 328-349), whatever the      *)
(* interrupts have done to the streams.                                    *)
THEOREM TxTypeCorrect == DriverSpec => []TxTypeOK
<1>1. DriverInit => TxBounds
  BY InitTx DEF TxInv, TxBounds, DriverInit
<1>2. TxBounds => TxTypeOK
  BY DEF TxBounds
<1>3. QED
  BY <1>1, <1>2, StepInTxBounds, PTL DEF DriverSpec

-----------------------------------------------------------------------------
(* A byte is not taken from the slot that is being filled. *)
LEMMA OfAnother ==
    ASSUME TxTypeOK, SendNext, Still, spc = "setBuf", usart_stream_idx = idx
    PROVE  Pending(idx)
<1>1. /\ idx \in Slots /\ pBuf \in [Slots -> Int]
      /\ pBuf' = [pBuf EXCEPT ![idx] = pBuf[idx] + 1]
  BY DEF SendNext, TxTypeOK
<1>2. pBuf'[idx] = pBuf[idx] + 1 /\ pBuf[idx] \in Int
  BY <1>1
<1>3. Looking
  BY DEF Looking
<1>4. (pBuf'[idx] = NULL) <=> (pBuf[idx] = NULL)
  BY <1>1, <1>3 DEF Still, Moved
<1>5. pBuf[idx] # NULL
  BY <1>2, <1>4, NullIsNoByte
<1>6. QED
  BY <1>5 DEF Pending

(* A byte of a stream is put into the data register: the stream stays.     *)
LEMMA SendNextKeeps ==
    ASSUME TxInv, TxTypeOK', SendNext, Still, UNCHANGED <<sender, out, lastOut>>
    PROVE  TxInv'
<1> DEFINE u == usart_stream_idx
<1>1. /\ u \in Slots /\ usart_stream_idx' = u /\ txeie' = txeie
      /\ UNCHANGED <<spc, i, idx, base, l, asked, out, lastOut>>
  BY DEF TxInv, TxTypeOK, SendNext, sender
<1>2. pBuf[u] \in Nat /\ Pending(u)
  BY <1>1, OfAnother DEF TxInv, StreamsInv, SendNext
<1>3. /\ pBuf' = [pBuf EXCEPT ![u] = pBuf[u] + 1]
      /\ BufLen' = [BufLen EXCEPT ![u] = BufLen[u] - 1] /\ BufLen[u] > 0
      /\ dr' = pBuf[u]
  BY DEF SendNext
<1>4. \A s \in Slots : /\ pBuf'[s] = IF s = u THEN pBuf[s] + 1 ELSE pBuf[s]
                       /\ BufLen'[s] = IF s = u THEN BufLen[s] - 1 ELSE BufLen[s]
  BY <1>3 DEF TxInv, TxTypeOK
<1>5. \A s \in Slots : Pending(s)' <=> Pending(s)
  BY <1>2, <1>4, NullIsNoByte DEF Pending
<1>6. \A s \in Slots : Off(s)' = Off(s)
  BY <1>1 DEF Off
<1>8. StreamsInv'
  BY <1>1, <1>2, <1>4, <1>5 DEF TxInv, TxTypeOK, StreamsInv
<1>9. NoGaps' /\ Enabled'
  BY <1>1, <1>5, <1>6 DEF TxInv, NoGaps, Enabled
<1>10. idx \in Slots /\ SendInv
  BY DEF TxInv, TxTypeOK
<1>11. (Pending(idx)' <=> Pending(idx)) /\ Off(idx)' = Off(idx)
  BY <1>1, <1>5, <1>6, <1>10
<1>12. SendInv'
  BY <1>1, <1>5, <1>6, <1>10, <1>11 DEF SendInv
<1>13. QED
  BY <1>8, <1>9, <1>12 DEF TxInv

(* A stream has ended: the next slot's is taken up, or there is none.      *)
LEMMA EndStreamKeeps ==
    ASSUME TxInv, TxTypeOK', EndStream, Still, UNCHANGED <<sender, out, lastOut>>
    PROVE  TxInv'
<1> DEFINE found == {k \in Slots : pBuf'[Tried(k)] # NULL}
<1>0. PICK u \in Slots : u = usart_stream_idx
  BY DEF TxInv, TxTypeOK
<1>n. PICK next \in Slots : next = IF u + 1 < MaxStream THEN u + 1 ELSE 0
  BY StreamAssumption DEF Slots
<1>1. /\ u = usart_stream_idx /\ UNCHANGED <<BufLen, dr>>
      /\ UNCHANGED <<spc, i, idx, base, l, asked, out, lastOut>>
  BY <1>0 DEF EndStream, sender
<1>2. /\ BufLen[u] = 0 /\ pBuf' = [pBuf EXCEPT ![u] = NULL]
      /\ \/ \E k \in found : /\ \A j \in found : k <= j
                             /\ usart_stream_idx' = Tried(k) /\ txeie' = txeie
         \/ /\ found = {} /\ usart_stream_idx' = Tried(MaxStream - 1)
            /\ txeie' = FALSE
  BY <1>0 DEF EndStream
<1>3. \A s \in Slots : pBuf'[s] = IF s = u THEN NULL ELSE pBuf[s]
  BY <1>2 DEF TxInv, TxTypeOK
<1>4. \A s \in Slots : Pending(s)' <=> Pending(s) /\ s # u
  BY <1>3 DEF Pending
<1>5. \A k \in Slots : Tried(k) \in Slots
  <2>1. ASSUME NEW k \in Slots PROVE Tried(k) \in Slots
    <3>1. k * (k + 1) \in Int
      BY DEF Slots
    <3>2. u + 1 + (k * (k + 1)) \div 2 \in Int
      BY <1>1, <3>1 DEF Slots
    <3>3. QED
      BY <1>0, <3>2, Modulus DEF Tried
  <2>2. QED
    BY <2>1
<1>6. Tried(0) = next /\ 0 \in Slots
  <2>1. Tried(0) = (u + 1) % MaxStream
    <3>1. (0 * (0 + 1)) \div 2 = 0
      OBVIOUS
    <3>2. u + 1 + 0 = u + 1
      BY <1>1 DEF Slots
    <3>3. QED
      BY <1>0, <3>1, <3>2 DEF Tried
  <2>2. PICK a \in Nat : a = u + 1
    BY <1>0 DEF Slots
  <2>3. a < 2 * MaxStream /\ 0 \in Slots
    BY <1>0, <2>2, StreamAssumption DEF Slots
  <2>4. a % MaxStream = IF a < MaxStream THEN a ELSE a - MaxStream
    BY <2>3, Wrapping
  <2>5. Tried(0) = IF a < MaxStream THEN a ELSE a - MaxStream
    BY <2>1, <2>2, <2>4, Zenon
  <2>6. next = IF a < MaxStream THEN a ELSE a - MaxStream
    BY <1>0, <1>n, <2>2, StreamAssumption DEF Slots
  <2>7. QED
    BY <2>3, <2>5, <2>6
<1>7. ASSUME Pending(next)' PROVE NoGaps' /\ Enabled'
  <2>1. 0 \in found
    BY <1>6, <1>7 DEF Pending
  <2>2. usart_stream_idx' = next /\ txeie' = txeie
    BY <1>2, <1>6, <2>1 DEF Slots
  <2>3. next # u /\ \A s \in Slots : s # u => Off(s)' = Off(s) - 1
    BY <1>1, <1>n, <1>4, <1>7, <2>2, StreamAssumption DEF Off, Slots
  <2>4. NoGaps'
    <3>1. ASSUME NEW s \in Slots, NEW t \in Slots, Off(s)' <= Off(t)', Pending(t)'
          PROVE  Pending(s)'
      <4>1. t # u /\ Pending(t) /\ Off(t) \in 1..MaxStream-1
        BY <1>1, <1>4, <3>1, StreamAssumption DEF Off, Slots
      <4>2. s # u
        <5>1. Off(u)' = MaxStream - 1
          BY <1>1, <1>n, <2>2, <2>3, StreamAssumption DEF Off, Slots
        <5>2. QED
          BY <2>3, <3>1, <4>1, <5>1, StreamAssumption
      <4>3. Off(s) <= Off(t)
        BY <1>1, <2>3, <3>1, <4>1, <4>2, StreamAssumption DEF Off, Slots
      <4>4. QED
        BY <1>4, <4>1, <4>2, <4>3 DEF TxInv, NoGaps
    <3>2. QED
      BY <3>1 DEF NoGaps
  <2>5. Enabled'
    BY <1>1, <1>4, <2>2 DEF TxInv, Enabled
  <2>6. QED
    BY <2>4, <2>5
<1>8. ASSUME ~Pending(next)' PROVE NoGaps' /\ Enabled'
  <2>1. ASSUME NEW s \in Slots PROVE ~Pending(s)'
    <3>1. CASE s = u
      BY <1>4, <3>1
    <3>2. CASE s # u
      <4>1. next # u /\ Off(next) <= Off(s)
        BY <1>1, <1>n, <3>2, StreamAssumption DEF Off, Slots
      <4>2. ~Pending(next)
        BY <1>4, <1>6, <1>8, <4>1
      <4>3. QED
        BY <1>4, <1>6, <4>1, <4>2 DEF TxInv, NoGaps
    <3>3. QED
      BY <3>1, <3>2
  <2>2. NoGaps' /\ Enabled'
    BY <2>1 DEF NoGaps, Enabled
  <2>3. QED
    BY <2>2
<1>10. StreamsInv'
  BY <1>1, <1>2, <1>3, <1>4 DEF TxInv, StreamsInv, TxTypeOK, Pending
<1>11. SendInv'
  <2>1. CASE Looking
    <3>1. usart_stream_idx' = usart_stream_idx /\ idx \in Slots
      BY <2>1, MovesNothing DEF TxInv, TxTypeOK
    <3>2. \A s \in Slots : (Pending(s)' <=> Pending(s)) /\ Off(s)' = Off(s)
      BY <2>1, <3>1, MovesNothing DEF TxInv, Off
    <3>3. QED
      BY <1>1, <3>1, <3>2 DEF TxInv, SendInv
  <2>2. CASE ~Looking
    <3>1. PICK v \in Slots : v = usart_stream_idx'
      BY DEF TxTypeOK
    <3>2. \A s \in Slots : Off(s)' = IF v <= s THEN s - v ELSE s - v + MaxStream
      BY <3>1 DEF Off
    <3>3. \A s \in Slots : ~(Off(s)' < 0)
      BY <3>2, StreamAssumption DEF Slots
    <3>4. spc = "find" => i = 0
      <4>1. i \in Nat
        BY DEF TxInv, TxTypeOK
      <4>2. QED
        BY <2>2, <4>1 DEF Looking
    <3>5. spc \notin {"test", "store", "setBuf", "setLen"} /\ spc' = spc /\ i' = i
      BY <1>1, <2>2 DEF Looking
    <3>6. spc = "find" => i < MaxStream /\ \A s \in Slots : ~(Off(s)' < i)
      BY <3>3, <3>4 DEF TxInv, SendInv
    <3>7. spc \in {"poll", "write"} => l' > 0
      BY <1>1 DEF TxInv, SendInv
    <3>8. QED
      BY <3>5, <3>6, <3>7 DEF SendInv
  <2>3. QED
    BY <2>1, <2>2
<1>12. NoGaps' /\ Enabled'
  BY <1>7, <1>8
<1>13. QED
  BY <1>10, <1>11, <1>12 DEF TxInv

LEMMA TransmitKeeps ==
    ASSUME TxInv, TxTypeOK', TransmitPart, Still,
           UNCHANGED <<sender, out, lastOut>>
    PROVE  TxInv'
<1>1. CASE SendNext
  BY <1>1, SendNextKeeps
<1>2. CASE EndStream
  BY <1>2, EndStreamKeeps
<1>3. CASE UNCHANGED <<streams, dr>>
  <2>1. /\ UNCHANGED <<pBuf, BufLen, usart_stream_idx, txeie, dr, out, lastOut>>
        /\ UNCHANGED <<spc, i, idx, base, l, asked>>
    BY <1>3 DEF streams, sender
  <2>2. QED
    BY <2>1 DEF TxInv, TxTypeOK, StreamsInv, NoGaps, SendInv, Enabled, Pending,
                Off
<1>4. QED
  BY <1>1, <1>2, <1>3 DEF TransmitPart

-----------------------------------------------------------------------------
(* A call, the wait for the transmitter and the search for a slot leave    *)
(* the streams alone.                                                      *)
LEMMA StreamsAlone ==
    ASSUME TxInv, UNCHANGED <<pBuf, BufLen, usart_stream_idx, txeie>>,
           spc \notin {"setBuf", "setLen", "enable"}, TxTypeOK', SendInv'
    PROVE  TxInv'
<1>1. StreamsInv' /\ NoGaps' /\ Enabled'
  BY DEF TxInv, StreamsInv, NoGaps, Enabled, Pending, Off
<1>2. QED
  BY <1>1 DEF TxInv

LEMMA SearchKeeps ==
    ASSUME TxInv, TxTypeOK', Find \/ Test
    PROVE  TxInv'
<1>1. /\ UNCHANGED <<pBuf, BufLen, usart_stream_idx, txeie, dr, base, l, asked>>
      /\ UNCHANGED <<out, lastOut, answered>>
      /\ spc \in {"find", "test"} /\ i < MaxStream /\ i \in Nat
      /\ \A s \in Slots : Off(s) < i => Pending(s)
  BY DEF Find, Test, StepSend, streams, wire, TxInv, TxTypeOK, SendInv
<1>2. \A s \in Slots : Off(s)' = Off(s) /\ (Pending(s)' <=> Pending(s))
  BY <1>1 DEF Off, Pending
<1>3. CASE Find
  <2>1. spc' = "test" /\ i' = i /\ idx' = (i + usart_stream_idx) % MaxStream
    BY <1>3 DEF Find, StepSend
  <2>2. /\ usart_stream_idx \in Slots /\ i + usart_stream_idx \in Nat
        /\ i + usart_stream_idx < 2 * MaxStream
    BY <1>1, StreamAssumption DEF TxInv, TxTypeOK, Slots
  <2>3. idx' = IF i + usart_stream_idx < MaxStream
               THEN i + usart_stream_idx ELSE i + usart_stream_idx - MaxStream
    <3>1. PICK a \in Nat : a = i + usart_stream_idx
      BY <2>2
    <3>2. a % MaxStream = IF a < MaxStream THEN a ELSE a - MaxStream
      BY <2>2, <3>1, Wrapping
    <3>3. idx' = a % MaxStream
      BY <2>1, <3>1, Zenon
    <3>4. idx' = IF a < MaxStream THEN a ELSE a - MaxStream
      BY <3>2, <3>3, Zenon
    <3>5. i \in Nat /\ usart_stream_idx \in Nat /\ MaxStream \in Nat
      BY <1>1, <2>2, StreamAssumption DEF Slots
    <3>6. QED
      BY <3>1, <3>4, <3>5
  <2>4. idx' \in Slots /\ Off(idx)' = i
    BY <1>1, <2>2, <2>3, StreamAssumption DEF Off, Slots
  <2>6. SendInv'
    BY <1>1, <1>2, <2>1, <2>4 DEF SendInv
  <2>7. QED
    BY <1>1, <2>6, StreamsAlone
<1>4. CASE Test
  <2>1. idx' = idx /\ idx \in Slots /\ Off(idx) = i /\ Off(idx)' = Off(idx)
    BY <1>1, <1>4 DEF Test, StepSend, TxInv, TxTypeOK, SendInv, Off
  <2>2. CASE pBuf[idx] = NULL
    <3>1. spc' = "store" /\ i' = i
      BY <1>4, <2>2 DEF Test
    <3>3. ~Pending(idx)' /\ idx' = idx
      BY <1>1, <2>1, <2>2 DEF Pending
    <3>4. ASSUME NEW s \in Slots, Pending(s) PROVE Off(s) < Off(idx)
      <4>1. ~(Off(idx) <= Off(s))
        BY <2>1, <2>2, <3>4 DEF TxInv, NoGaps, Pending
      <4>2. QED
        BY <2>1, <4>1, StreamAssumption DEF Off, Slots, TxInv, TxTypeOK
    <3>5. SendInv'
      BY <1>1, <1>2, <2>1, <3>1, <3>3, <3>4 DEF SendInv
    <3>6. QED
      BY <1>1, <3>5, StreamsAlone
  <2>3. CASE pBuf[idx] # NULL
    <3>1. i' = i + 1 /\ spc' = IF i + 1 < MaxStream THEN "find" ELSE "idle"
      BY <1>4, <2>3 DEF Test
    <3>3. \A s \in Slots : Off(s) < i + 1 => Pending(s)
      <4>a. usart_stream_idx \in Slots
        BY DEF TxInv, TxTypeOK
      <4>1. \A s \in Slots : Off(s) = i => s = idx
        BY <2>1, <4>a, StreamAssumption DEF Off, Slots
      <4>2. \A s \in Slots : Off(s) \in Int
        BY <4>a, StreamAssumption DEF Off, Slots
      <4>3. QED
        BY <1>1, <2>3, <4>1, <4>2 DEF Pending
    <3>4. SendInv'
      BY <1>1, <1>2, <3>1, <3>3 DEF SendInv
    <3>5. QED
      BY <1>1, <3>4, StreamsAlone
  <2>4. QED
    BY <2>2, <2>3
<1>5. QED
  BY <1>3, <1>4

LEMMA CallsKeep ==
    ASSUME TxInv, TxTypeOK', SendNonBlocking \/ SendBlocking \/ Poll \/ Write
    PROVE  TxInv'
<1>1. /\ UNCHANGED <<pBuf, BufLen, usart_stream_idx, txeie, out, lastOut, idx>>
      /\ spc \in {"idle", "poll", "write"}
  BY DEF SendNonBlocking, SendBlocking, Call, Poll, Write, streams, wire
<1>2. CASE SendNonBlocking \/ SendBlocking
  <2>1. PICK n \in 1..MaxLen :
           /\ spc' \in {"find", "poll"} /\ base' = asked + 1 /\ l' = n /\ i' = 0
           /\ asked' = asked /\ dr' = dr /\ answered' = FALSE
    BY <1>2 DEF SendNonBlocking, SendBlocking, Call
  <2>4. \A s \in Slots : ~(Off(s)' < i')
    BY <1>1, <2>1, StreamAssumption DEF TxInv, TxTypeOK, Off, Slots
  <2>5. SendInv'
    <3>1. l' > 0 /\ 0 < MaxStream
      BY <2>1, StreamAssumption
    <3>2. QED
      BY <2>1, <2>4, <3>1 DEF SendInv
  <2>6. QED
    BY <1>1, <2>5, StreamsAlone
<1>3. CASE Poll
  <2>2. SendInv'
    BY <1>3 DEF Poll, TxInv, SendInv
  <2>3. QED
    BY <1>1, <2>2, StreamsAlone
<1>4. CASE Write
  <2>1. SendInv'
    BY <1>1, <1>4 DEF Write, TxInv, TxTypeOK, SendInv
  <2>2. QED
    BY <1>1, <2>1, StreamsAlone
<1>5. QED
  BY <1>2, <1>3, <1>4

(* The slot that is filled is the first free one from the handler's index. *)
LEMMA FillKeeps ==
    ASSUME TxInv, TxTypeOK', SetBuf \/ SetLen \/ Enable
    PROVE  TxInv'
<1>1. /\ UNCHANGED <<usart_stream_idx, dr, out, lastOut, idx, i, base, l, answered>>
      /\ idx \in Slots
  BY DEF SetBuf, SetLen, Enable, StepSend, wire, TxInv, TxTypeOK
<1>2. \A s \in Slots : Off(s)' = Off(s)
  BY <1>1 DEF Off
<1>3. CASE SetBuf
  <2>1. /\ UNCHANGED <<BufLen, txeie>> /\ asked' = asked + l
        /\ pBuf' = [pBuf EXCEPT ![idx] = base]
        /\ \/ spc = "store" /\ spc' = "setLen"
           \/ spc = "setBuf" /\ spc' = "enable"
    BY <1>3 DEF SetBuf, StepSend
  <2>2. \A s \in Slots : pBuf'[s] = IF s = idx THEN base ELSE pBuf[s]
    BY <2>1 DEF TxInv, TxTypeOK
  <2>3. \A s \in Slots : Pending(s)' <=> Pending(s) \/ s = idx
    BY <2>2, NullIsNoByte DEF Pending, TxInv, TxTypeOK
  <2>5. StreamsInv'
    BY <2>1, <2>2, <2>3 DEF TxInv, TxTypeOK, StreamsInv
  <2>6. NoGaps'
    <3>1. ASSUME NEW s \in Slots, NEW t \in Slots, Off(s)' <= Off(t)', Pending(t)'
          PROVE  Pending(s)'
      <4>1. Off(s) <= Off(t) /\ (Pending(t) \/ t = idx)
        BY <1>2, <2>3, <3>1
      <4>2. s = idx \/ Off(s) # Off(idx)
        BY <1>1, StreamAssumption DEF Off, Slots, TxInv, TxTypeOK
      <4>3. Off(s) \in Int /\ Off(t) \in Int /\ Off(idx) \in Int
        BY <1>1, StreamAssumption DEF Off, Slots, TxInv, TxTypeOK
      <4>4. Pending(t) => Pending(s)
        BY <4>1 DEF TxInv, NoGaps
      <4>5. t = idx => s = idx \/ Pending(s)
        BY <2>1, <4>1, <4>2, <4>3 DEF TxInv, SendInv
      <4>6. QED
        BY <2>3, <4>1, <4>4, <4>5
    <3>2. QED
      BY <3>1 DEF NoGaps
  <2>7. Enabled'
    BY <2>1 DEF Enabled
  <2>8. SendInv'
    <3>1. Pending(idx)' /\ Off(idx)' = Off(idx)
      BY <1>1, <2>2, NullIsNoByte DEF Pending, Off, TxInv, TxTypeOK
    <3>2. ASSUME spc' = "setLen", NEW s \in Slots, Pending(s)', s # idx
          PROVE  Off(s)' < Off(idx)'
      BY <1>2, <2>1, <2>3, <3>1, <3>2 DEF TxInv, SendInv
    <3>3. QED
      BY <1>1, <2>1, <3>1, <3>2 DEF SendInv
  <2>9. QED
    BY <2>5, <2>6, <2>7, <2>8 DEF TxInv
<1>4. CASE SetLen
  <2>1. /\ UNCHANGED <<pBuf, txeie, asked>> /\ BufLen' = [BufLen EXCEPT ![idx] = l]
        /\ \/ spc = "store" /\ spc' = "setBuf"
           \/ spc = "setLen" /\ spc' = "enable"
    BY <1>4 DEF SetLen, StepSend
  <2>2. \A s \in Slots : /\ Pending(s)' <=> Pending(s)
                         /\ BufLen'[s] = IF s = idx THEN l ELSE BufLen[s]
    BY <2>1 DEF Pending, TxInv, TxTypeOK
  <2>4. NoGaps' /\ Enabled' /\ SendInv'
    BY <1>1, <1>2, <2>1, <2>2 DEF TxInv, NoGaps, Enabled, SendInv
  <2>5. StreamsInv'
    BY <1>1, <2>1, <2>2 DEF TxInv, StreamsInv, SendInv
  <2>6. QED
    BY <2>4, <2>5 DEF TxInv
<1>5. CASE Enable
  <2>1. /\ UNCHANGED <<pBuf, BufLen, asked>> /\ txeie' = TRUE
        /\ spc = "enable" /\ spc' = "idle"
    BY <1>5 DEF Enable, StepSend
  <2>4. StreamsInv' /\ NoGaps' /\ SendInv'
    BY <1>2, <2>1 DEF TxInv, StreamsInv, NoGaps, SendInv, Pending
  <2>5. Enabled'
    BY <2>1 DEF Enabled
  <2>6. QED
    BY <2>4, <2>5 DEF TxInv
<1>6. QED
  BY <1>3, <1>4, <1>5

-----------------------------------------------------------------------------
(* An interrupt leaves what USART_Send is looking at, or disturbs it. *)
LEMMA Interrupted ==
    ASSUME Interrupt, ~disturbed'
    PROVE  /\ Still /\ ~disturbed /\ TransmitPart
           /\ UNCHANGED <<sender, out, lastOut>>
BY DEF Interrupt, Still, wire

LEMMA DisturbedStays ==
    ASSUME [DriverNext]_allVars, ~disturbed'
    PROVE  ~disturbed
<1>1. USART_Send => disturbed' = disturbed
  BY DEF USART_Send, SendNonBlocking, SendBlocking, Call, Find, Test, SetBuf,
         SetLen, Enable, Poll, Write, StepSend
<1>2. Shift \/ UNCHANGED tx => disturbed' = disturbed
  BY DEF Shift, tx
<1>3. ReceiveInterrupt \/ TransmitInterrupt => ~disturbed
  BY Interrupted DEF ReceiveInterrupt, TransmitInterrupt
<1>4. QED
  BY <1>1, <1>2, <1>3 DEF DriverNext, allVars

LEMMA StepTx ==
    ASSUME TxInv, TxTypeOK', [DriverNext]_allVars, ~disturbed'
    PROVE  TxInv'
<1>1. CASE ReceiveInterrupt \/ TransmitInterrupt
  BY <1>1, Interrupted, TransmitKeeps DEF ReceiveInterrupt, TransmitInterrupt
<1>3. CASE Shift
  <2>1. /\ UNCHANGED <<pBuf, BufLen, usart_stream_idx, txeie>>
        /\ UNCHANGED <<spc, i, idx, base, l, asked>>
    BY <1>3 DEF Shift, streams, sender
  <2>2. QED
    BY <2>1 DEF TxInv, StreamsInv, NoGaps, SendInv, Enabled, Pending, Off
<1>4. CASE USART_Send
  BY <1>4, SearchKeeps, CallsKeep, FillKeeps DEF USART_Send
<1>5. CASE UNCHANGED tx
  <2>1. /\ UNCHANGED <<pBuf, BufLen, usart_stream_idx, txeie>>
        /\ UNCHANGED <<spc, i, idx, base, l, asked>>
    BY <1>5 DEF tx, streams, sender
  <2>2. QED
    BY <2>1 DEF TxInv, StreamsInv, NoGaps, SendInv, Enabled, Pending, Off
<1>6. QED
  BY <1>1, <1>3, <1>4, <1>5 DEF DriverNext, allVars

UndisturbedTx == TxTypeOK /\ (~disturbed => TxInv)

LEMMA TxInvariance == DriverSpec => []UndisturbedTx
<1>1. DriverInit => UndisturbedTx
  BY InitTx DEF UndisturbedTx, TxInv
<1>2. UndisturbedTx /\ TxTypeOK' /\ [DriverNext]_allVars => UndisturbedTx'
  BY StepTx, DisturbedStays DEF UndisturbedTx
<1>3. QED
  BY <1>1, <1>2, TxTypeCorrect, PTL DEF DriverSpec

(* The interrupt stays enabled while a stream waits: the slots the search  *)
(* leaves out are never the ones that wait (usart.c:341-347), until an     *)
(* interrupt moves what USART_Send is looking at.                          *)
THEOREM NoStreamStrandedCorrect == DriverSpec => []NoStreamStranded
<1>1. UndisturbedTx => NoStreamStranded
  BY DEF UndisturbedTx, TxInv, Enabled, NoStreamStranded, Pending
<1>2. QED
  BY <1>1, TxInvariance, PTL

-----------------------------------------------------------------------------
(* What is on its way: the bytes after the last one that was put into the  *)
(* data register, up to the last one given to a stream.  A slot that is    *)
(* being filled does not count yet.                                        *)
Sent       == IF dr = Empty THEN out ELSE out + 1
Given      == IF spc = "setLen" THEN asked - l ELSE asked
Carries(s) == BufLen[s] > 0 /\ ~(spc \in {"setLen", "setBuf"} /\ s = idx)

(* They lie in the streams in the order of the slots from the handler's    *)
(* index on, none missing and none twice.                                  *)
Within == \A s \in Slots :
    Carries(s) => Sent < pBuf[s] /\ pBuf[s] + BufLen[s] <= Given + 1

Ordered == \A s, t \in Slots :
    Carries(s) /\ Carries(t) /\ Off(s) < Off(t) => pBuf[s] + BufLen[s] <= pBuf[t]

Complete == \A n \in Nat : Sent < n /\ n <= Given =>
    \E s \in Slots : Carries(s) /\ pBuf[s] <= n /\ n < pBuf[s] + BufLen[s]

ShiftInv ==
    /\ dr = Empty \/ dr = out + 1
    /\ lastOut = out /\ Sent <= Given

CallInv ==
    /\ answered => out = asked /\ spc = "idle"
    /\ spc \in {"find", "test", "store", "setBuf", "poll", "write"} =>
          base = asked + 1
    /\ spc = "setBuf" => BufLen[idx] = l
    /\ spc = "setLen" =>
          base + l = asked + 1 /\ pBuf[idx] = base /\ BufLen[idx] = 0
    /\ spc \in {"poll", "write"} => Sent = asked
    /\ spc = "write" => dr = Empty

WireInv == Within /\ Ordered /\ Complete /\ ShiftInv /\ CallInv

LEMMA InitWire == DriverInit => WireInv
<1> SUFFICES ASSUME DriverInit PROVE WireInv
  OBVIOUS
<1>1. /\ \A s \in Slots : ~Carries(s)
      /\ Sent = 0 /\ Given = 0 /\ out = 0 /\ lastOut = 0 /\ asked = 0
      /\ spc = "idle" /\ dr = Empty
  BY DEF DriverInit, Carries, Sent, Given
<1>2. Within /\ Ordered /\ Complete
  BY <1>1 DEF Within, Ordered, Complete
<1>3. ShiftInv /\ CallInv
  BY <1>1 DEF ShiftInv, CallInv
<1>4. QED
  BY <1>2, <1>3 DEF WireInv

(* The first byte on its way is that of the handler's slot, if it has any. *)
LEMMA HeadIsNext ==
    ASSUME TxInv, WireInv, NEW u \in Slots, u = usart_stream_idx, Carries(u)
    PROVE  pBuf[u] = Sent + 1
<1>1. /\ Sent \in Nat /\ Given \in Int /\ \A s \in Slots : pBuf[s] \in Int /\ BufLen[s] \in Nat
  BY DEF TxInv, TxTypeOK, Sent, Given
<1>2. Sent < pBuf[u] /\ pBuf[u] + BufLen[u] <= Given + 1 /\ BufLen[u] > 0
  BY DEF WireInv, Within, Carries
<1>3. PICK s \in Slots :
         Carries(s) /\ pBuf[s] <= Sent + 1 /\ Sent + 1 < pBuf[s] + BufLen[s]
  <2>1. Sent + 1 \in Nat /\ Sent < Sent + 1 /\ Sent + 1 <= Given
    BY <1>1, <1>2
  <2>2. QED
    BY <2>1 DEF WireInv, Complete
<1>4. ASSUME s # u PROVE FALSE
  <2>1. Off(u) < Off(s)
    BY <1>4, StreamAssumption DEF Off, Slots
  <2>2. pBuf[u] + BufLen[u] <= pBuf[s]
    BY <1>3, <2>1 DEF WireInv, Ordered
  <2>3. QED
    BY <1>1, <1>2, <1>3, <2>2
<1>5. QED
  BY <1>1, <1>2, <1>3, <1>4

LEMMA SendNextOnWire ==
    ASSUME TxInv, WireInv, SendNext, Still, dr = Empty,
           UNCHANGED <<sender, out, lastOut>>,
           answered' => out = asked /\ spc = "idle"
    PROVE  WireInv'
<1>0. PICK u \in Slots : u = usart_stream_idx
  BY DEF TxInv, TxTypeOK
<1>1. /\ usart_stream_idx' = u
      /\ UNCHANGED <<spc, i, idx, base, l, asked, out, lastOut>>
  BY <1>0 DEF SendNext, sender
<1>2. /\ BufLen[u] > 0 /\ dr' = pBuf[u]
      /\ \A s \in Slots : /\ pBuf'[s] = IF s = u THEN pBuf[s] + 1 ELSE pBuf[s]
                          /\ BufLen'[s] = IF s = u THEN BufLen[s] - 1 ELSE BufLen[s]
  BY <1>0 DEF SendNext, TxInv, TxTypeOK
<1>3. /\ out \in Nat /\ asked \in Nat /\ l \in Nat /\ Given \in Int
      /\ \A s \in Slots : pBuf[s] \in Int /\ BufLen[s] \in Nat
  BY DEF TxInv, TxTypeOK, Given
<1>a. spc \in {"setLen", "setBuf"} => u # idx
  <2>1. CASE spc = "setBuf"
    BY <1>0, <2>1, OfAnother DEF TxInv, SendInv
  <2>2. CASE spc = "setLen"
    BY <1>2, <2>2 DEF WireInv, CallInv
  <2>3. QED
    BY <2>1, <2>2
<1>4. Carries(u) /\ Sent = out /\ Given' = Given
  BY <1>1, <1>2, <1>a DEF Carries, Sent, Given
<1>5. pBuf[u] = out + 1
  BY <1>0, <1>4, HeadIsNext
<1>6. Sent' = out + 1
  BY <1>1, <1>2, <1>3, <1>5 DEF Sent, Empty
<1>7. \A s \in Slots : /\ Carries(s)' => Carries(s)
                       /\ s # u => (Carries(s)' <=> Carries(s))
                       /\ Carries(u)' <=> BufLen[u] > 1
                       /\ Off(s)' = Off(s)
  BY <1>0, <1>1, <1>2, <1>3, <1>a DEF Carries, Off
<1>8. Within'
  <2>1. ASSUME NEW s \in Slots, Carries(s)'
        PROVE  Sent' < pBuf'[s] /\ pBuf'[s] + BufLen'[s] <= Given' + 1
    <3>1. out < pBuf[s] /\ pBuf[s] + BufLen[s] <= Given + 1
      BY <1>4, <1>7, <2>1 DEF WireInv, Within
    <3>2. s # u => pBuf[u] + BufLen[u] <= pBuf[s]
      <4>1. s # u => Off(u) < Off(s)
        BY <1>0, StreamAssumption DEF Off, Slots
      <4>2. QED
        BY <1>4, <1>7, <2>1, <4>1 DEF WireInv, Ordered
    <3>3. QED
      BY <1>2, <1>3, <1>4, <1>5, <1>6, <3>1, <3>2
  <2>2. QED
    BY <2>1 DEF Within
<1>9. Ordered'
  <2>1. ASSUME NEW s \in Slots, NEW t \in Slots,
               Carries(s)', Carries(t)', Off(s)' < Off(t)'
        PROVE  pBuf'[s] + BufLen'[s] <= pBuf'[t]
    <3>1. pBuf[s] + BufLen[s] <= pBuf[t]
      BY <1>7, <2>1 DEF WireInv, Ordered
    <3>2. QED
      BY <1>2, <1>3, <3>1
  <2>2. QED
    BY <2>1 DEF Ordered
<1>10. Complete'
  <2>1. ASSUME NEW n \in Nat, Sent' < n, n <= Given'
        PROVE  \E s \in Slots : /\ Carries(s)'
                                /\ pBuf'[s] <= n /\ n < pBuf'[s] + BufLen'[s]
    <3>1. PICK s \in Slots : Carries(s) /\ pBuf[s] <= n /\ n < pBuf[s] + BufLen[s]
      BY <1>3, <1>4, <1>6, <2>1 DEF WireInv, Complete
    <3>2. pBuf'[s] <= n /\ n < pBuf'[s] + BufLen'[s] /\ (s = u => BufLen[u] > 1)
      BY <1>2, <1>3, <1>5, <1>6, <2>1, <3>1
    <3>3. QED
      BY <1>7, <3>1, <3>2
  <2>2. QED
    BY <2>1 DEF Complete
<1>11. ShiftInv'
  <2>1. out + 1 <= Given
    BY <1>2, <1>3, <1>4, <1>5 DEF WireInv, Within
  <2>2. QED
    BY <1>1, <1>2, <1>4, <1>5, <1>6, <2>1 DEF WireInv, ShiftInv
<1>12. CallInv'
  <2>1. spc \notin {"poll", "write"}
    <3>1. out < pBuf[u] /\ pBuf[u] + BufLen[u] <= Given + 1
      BY <1>4 DEF WireInv, Within
    <3>2. spc \in {"poll", "write"} => Given = asked /\ out = asked
      BY <1>4 DEF WireInv, CallInv, Given
    <3>3. QED
      BY <1>2, <1>3, <3>1, <3>2
  <2>2. idx \in Slots
    BY DEF TxInv, TxTypeOK
  <2>3. QED
    BY <1>1, <1>2, <1>a, <2>1, <2>2 DEF WireInv, CallInv
<1>13. QED
  BY <1>8, <1>9, <1>10, <1>11, <1>12 DEF WireInv

(* When the index moves on, a stream that still has bytes comes one slot   *)
(* nearer; the one that has none is behind the others.                     *)
LEMMA IndexMoves ==
    ASSUME TxInv, EndStream,
           NEW s \in Slots, NEW t \in Slots, Carries(s), Carries(t),
           UNCHANGED <<spc, idx>>, Off(s)' < Off(t)'
    PROVE  Off(s) < Off(t)
<1> DEFINE found == {k \in Slots : pBuf'[Tried(k)] # NULL}
<1>0. PICK u \in Slots : u = usart_stream_idx
  BY DEF TxInv, TxTypeOK
<1>n. PICK next \in Slots : next = IF u + 1 < MaxStream THEN u + 1 ELSE 0
  BY StreamAssumption DEF Slots
<1>1. /\ BufLen[u] = 0 /\ \A v \in Slots : v # u => pBuf'[v] = pBuf[v]
      /\ \/ \E k \in found : /\ \A j \in found : k <= j
                             /\ usart_stream_idx' = Tried(k)
         \/ found = {}
  BY <1>0 DEF EndStream, TxInv, TxTypeOK
<1>2. s # u /\ t # u /\ Pending(s) /\ Pending(t)
  BY <1>1 DEF Carries, TxInv, StreamsInv
<1>3. /\ Off(next) = 1 /\ next # u
      /\ Off(s) \in 1..MaxStream-1 /\ Off(t) \in 1..MaxStream-1
  BY <1>0, <1>n, <1>2, StreamAssumption DEF Off, Slots
<1>4. pBuf'[next] # NULL
  BY <1>1, <1>2, <1>3 DEF TxInv, NoGaps, Pending
<1>5. Tried(0) = next /\ 0 \in Slots
  <2>1. (0 * (0 + 1)) \div 2 = 0
    OBVIOUS
  <2>2. u + 1 + 0 = u + 1 /\ u + 1 \in Nat /\ u + 1 < 2 * MaxStream
    BY StreamAssumption DEF Slots
  <2>3. Tried(0) = (u + 1) % MaxStream
    BY <1>0, <2>1, <2>2 DEF Tried
  <2>4. QED
    BY <1>n, <2>2, <2>3, Wrapping, StreamAssumption DEF Slots
<1>6. usart_stream_idx' = next
  BY <1>1, <1>4, <1>5 DEF Slots
<1>7. Off(s)' = Off(s) - 1 /\ Off(t)' = Off(t) - 1
  BY <1>0, <1>n, <1>2, <1>6, StreamAssumption DEF Off, Slots
<1>8. QED
  BY <1>3, <1>7

LEMMA EndStreamOnWire ==
    ASSUME TxInv, WireInv, EndStream, Still, UNCHANGED <<sender, out, lastOut>>,
           answered' => out = asked /\ spc = "idle"
    PROVE  WireInv'
<1>0. PICK u \in Slots : u = usart_stream_idx
  BY DEF TxInv, TxTypeOK
<1>1. /\ UNCHANGED <<BufLen, dr, spc, i, idx, base, l, asked, out, lastOut>>
      /\ BufLen[u] = 0 /\ \A s \in Slots : s # u => pBuf'[s] = pBuf[s]
  BY <1>0 DEF EndStream, sender, TxInv, TxTypeOK
<1>2. Sent' = Sent /\ Given' = Given
  BY <1>1 DEF Sent, Given
<1>3. \A s \in Slots : /\ Carries(s)' <=> Carries(s)
                       /\ Carries(s) => pBuf'[s] = pBuf[s] /\ BufLen'[s] = BufLen[s]
  BY <1>1 DEF Carries
<1>4. Within' /\ Complete'
  BY <1>2, <1>3 DEF WireInv, Within, Complete
<1>5. Ordered'
  <2>1. ASSUME NEW s \in Slots, NEW t \in Slots,
               Carries(s)', Carries(t)', Off(s)' < Off(t)'
        PROVE  pBuf'[s] + BufLen'[s] <= pBuf'[t]
    <3>1. Off(s) < Off(t)
      BY <1>1, <1>3, <2>1, IndexMoves
    <3>2. QED
      BY <1>3, <2>1, <3>1 DEF WireInv, Ordered
  <2>2. QED
    BY <2>1 DEF Ordered
<1>6. ShiftInv' /\ CallInv'
  <2>1. spc = "setLen" => pBuf'[idx] = pBuf[idx]
    <3>1. SUFFICES ASSUME spc = "setLen" PROVE pBuf'[idx] = pBuf[idx]
      OBVIOUS
    <3>2. idx \in Slots /\ Pending(idx) /\ TxTypeOK
      BY <3>1 DEF TxInv, TxTypeOK, SendInv
    <3>3. Looking
      BY <3>1 DEF Looking
    <3>4. (pBuf'[idx] = NULL) <=> (pBuf[idx] = NULL)
      BY <3>2, <3>3 DEF Still, Moved
    <3>5. pBuf' = [pBuf EXCEPT ![u] = NULL]
      BY <1>0 DEF EndStream
    <3>6. idx # u
      BY <3>2, <3>4, <3>5 DEF Pending, TxTypeOK
    <3>7. QED
      BY <1>1, <3>2, <3>6
  <2>2. ShiftInv'
    BY <1>1, <1>2 DEF WireInv, ShiftInv
  <2>3. CallInv'
    BY <1>1, <1>2, <2>1 DEF WireInv, CallInv
  <2>4. QED
    BY <2>2, <2>3
<1>7. QED
  BY <1>4, <1>5, <1>6 DEF WireInv

(* Steps that leave the streams and what is on its way as they are. *)
LEMMA WireAlone ==
    ASSUME TxInv, WireInv, UNCHANGED <<pBuf, BufLen, usart_stream_idx>>,
           Sent' = Sent, Given' = Given,
           \A s \in Slots : Carries(s)' <=> Carries(s)
    PROVE  Within' /\ Ordered' /\ Complete'
BY DEF WireInv, Within, Ordered, Complete, Off

LEMMA ShiftOnWire ==
    ASSUME TxInv, WireInv, Shift
    PROVE  WireInv'
<1>1. /\ UNCHANGED <<pBuf, BufLen, usart_stream_idx, txeie, answered>>
      /\ UNCHANGED <<spc, i, idx, base, l, asked>>
      /\ dr # Empty /\ dr' = Empty /\ lastOut' = dr /\ out' = out + 1
  BY DEF Shift, streams, sender
<1>2. Sent' = Sent /\ Given' = Given /\ \A s \in Slots : Carries(s)' <=> Carries(s)
  BY <1>1 DEF Sent, Given, Carries
<1>3. answered => FALSE
  <2>1. ASSUME answered PROVE FALSE
    <3>1. out = asked /\ spc = "idle" /\ out + 1 <= asked /\ out \in Nat
      BY <1>1, <2>1 DEF WireInv, ShiftInv, CallInv, Sent, Given, TxInv, TxTypeOK
    <3>2. QED
      BY <3>1
  <2>2. QED
    BY <2>1
<1>4. ShiftInv' /\ CallInv'
  <2>1. ShiftInv'
    BY <1>1, <1>2 DEF WireInv, ShiftInv
  <2>2. CallInv'
    BY <1>1, <1>2, <1>3 DEF WireInv, CallInv
  <2>3. QED
    BY <2>1, <2>2
<1>5. QED
  BY <1>1, <1>2, <1>4, WireAlone DEF WireInv

LEMMA SearchOnWire ==
    ASSUME TxInv, WireInv, Find \/ Test
    PROVE  WireInv'
<1>1. /\ UNCHANGED <<pBuf, BufLen, usart_stream_idx, dr, base, l, asked>>
      /\ UNCHANGED <<out, lastOut, answered>>
      /\ spc \in {"find", "test"} /\ spc' \in {"find", "test", "store", "idle"}
  BY DEF Find, Test, StepSend, streams, wire
<1>2. Sent' = Sent /\ Given' = Given /\ \A s \in Slots : Carries(s)' <=> Carries(s)
  BY <1>1 DEF Sent, Given, Carries
<1>3. ShiftInv' /\ CallInv'
  BY <1>1, <1>2 DEF WireInv, ShiftInv, CallInv
<1>4. QED
  BY <1>1, <1>2, <1>3, WireAlone DEF WireInv

LEMMA CallsOnWire ==
    ASSUME TxInv, WireInv, SendNonBlocking \/ SendBlocking \/ Poll \/ Write
    PROVE  WireInv'
<1>1. /\ UNCHANGED <<pBuf, BufLen, usart_stream_idx, out, lastOut, idx>>
      /\ spc \in {"idle", "poll", "write"}
      /\ spc' \in {"idle", "find", "poll", "write"}
  BY DEF SendNonBlocking, SendBlocking, Call, Poll, Write, streams, wire
<1>2. \A s \in Slots : Carries(s)' <=> Carries(s)
  BY <1>1 DEF Carries
<1>3. CASE SendNonBlocking \/ SendBlocking
  <2>1. /\ UNCHANGED <<dr, asked>> /\ base' = asked + 1 /\ answered' = FALSE
        /\ \/ spc = "idle" /\ spc' = "find"
           \/ spc = "idle" /\ spc' = "poll" /\ answered
    BY <1>3 DEF SendNonBlocking, SendBlocking, Call
  <2>2. Sent' = Sent /\ Given' = Given /\ Given = asked
    BY <1>1, <2>1 DEF Sent, Given
  <2>3. spc' = "poll" => Sent = asked
    <3>1. ASSUME spc' = "poll" PROVE Sent = asked
      <4>1. out = asked
        BY <2>1, <3>1 DEF WireInv, CallInv
      <4>2. QED
        BY <2>2, <4>1 DEF WireInv, ShiftInv, Sent, TxInv, TxTypeOK
    <3>2. QED
      BY <3>1
  <2>4. ShiftInv' /\ CallInv'
    <3>1. ShiftInv'
      BY <1>1, <2>1, <2>2 DEF WireInv, ShiftInv
    <3>2. CallInv'
      BY <2>1, <2>2, <2>3 DEF CallInv
    <3>3. QED
      BY <3>1, <3>2
  <2>5. QED
    BY <1>1, <1>2, <2>2, <2>4, WireAlone DEF WireInv
<1>4. CASE Poll
  <2>1. /\ UNCHANGED <<dr, base, l, asked, answered>>
        /\ spc = "poll" /\ spc' = "write" /\ dr = Empty
    BY <1>4 DEF Poll
  <2>2. Sent' = Sent /\ Given' = Given
    BY <1>1, <2>1 DEF Sent, Given
  <2>3. ShiftInv' /\ CallInv'
    BY <1>1, <2>1, <2>2 DEF WireInv, ShiftInv, CallInv
  <2>4. QED
    BY <1>1, <1>2, <2>2, <2>3, WireAlone DEF WireInv
<1>5. CASE Write
  <2>1. /\ spc = "write" /\ spc' \in {"idle", "poll"} /\ answered' = answered
        /\ dr' = base /\ base' = base + 1 /\ asked' = asked + 1
    BY <1>5 DEF Write
  <2>2. dr = Empty /\ base = asked + 1 /\ out = asked /\ asked \in Nat /\ ~answered
    BY <2>1 DEF WireInv, CallInv, Sent, TxInv, TxTypeOK
  <2>3. Sent = asked /\ Given = asked /\ Sent' = asked + 1 /\ Given' = asked + 1
    BY <1>1, <2>1, <2>2 DEF Sent, Given, Empty
  <2>4. \A s \in Slots : ~Carries(s)
    <3>1. ASSUME NEW s \in Slots, Carries(s) PROVE FALSE
      <4>1. asked < pBuf[s] /\ pBuf[s] + BufLen[s] <= asked + 1 /\ BufLen[s] > 0
        BY <2>3, <3>1 DEF WireInv, Within, Carries
      <4>2. pBuf[s] \in Int /\ BufLen[s] \in Nat
        BY DEF TxInv, TxTypeOK
      <4>3. QED
        BY <2>2, <4>1, <4>2
    <3>2. QED
      BY <3>1
  <2>5. Within' /\ Ordered'
    BY <1>2, <2>4 DEF Within, Ordered
  <2>6. Complete'
    <3>1. ASSUME NEW n \in Nat, Sent' < n, n <= Given' PROVE FALSE
      BY <2>2, <2>3, <3>1
    <3>2. QED
      BY <3>1 DEF Complete
  <2>7. ShiftInv' /\ CallInv'
    <3>1. ShiftInv'
      BY <1>1, <2>1, <2>2, <2>3 DEF WireInv, ShiftInv
    <3>2. CallInv'
      BY <1>1, <2>1, <2>2, <2>3 DEF CallInv
    <3>3. QED
      BY <3>1, <3>2
  <2>8. QED
    BY <2>5, <2>6, <2>7 DEF WireInv
<1>6. QED
  BY <1>3, <1>4, <1>5

LEMMA FillOnWire ==
    ASSUME TxInv, WireInv, SetBuf \/ SetLen \/ Enable
    PROVE  WireInv'
<1>1. /\ UNCHANGED <<usart_stream_idx, dr, out, lastOut, idx, i, base, l, answered>>
      /\ idx \in Slots
  BY DEF SetBuf, SetLen, Enable, StepSend, wire, TxInv, TxTypeOK
<1>2. Sent' = Sent /\ Sent \in Nat /\ \A s \in Slots : Off(s)' = Off(s)
  BY <1>1 DEF Sent, Off, TxInv, TxTypeOK
<1>3. /\ asked \in Nat /\ l \in Nat
      /\ \A s \in Slots : pBuf[s] \in Int /\ BufLen[s] \in Nat
  BY DEF TxInv, TxTypeOK
<1>4. CASE spc = "store"
  <2>1. /\ \/ /\ spc' = "setLen" /\ asked' = asked + l /\ BufLen' = BufLen
              /\ pBuf' = [pBuf EXCEPT ![idx] = base]
           \/ /\ spc' = "setBuf" /\ asked' = asked /\ pBuf' = pBuf
              /\ BufLen' = [BufLen EXCEPT ![idx] = l]
    BY <1>4 DEF SetBuf, SetLen, Enable, StepSend
  <2>2. Given' = Given /\ Given = asked
    BY <1>1, <1>3, <1>4, <2>1 DEF Given
  <2>3. BufLen[idx] = 0
    BY <1>1, <1>3, <1>4 DEF TxInv, StreamsInv, SendInv
  <2>4. \A s \in Slots : /\ Carries(s)' <=> Carries(s)
                         /\ Carries(s) => pBuf'[s] = pBuf[s] /\ BufLen'[s] = BufLen[s]
    BY <1>1, <1>4, <2>1, <2>3 DEF Carries, TxInv, TxTypeOK
  <2>5. Within' /\ Ordered' /\ Complete'
    BY <1>2, <2>2, <2>4 DEF WireInv, Within, Ordered, Complete
  <2>6. ShiftInv'
    BY <1>1, <1>2, <2>2 DEF WireInv, ShiftInv
  <2>7. CallInv'
    <3>1. ~answered /\ base = asked + 1
      BY <1>4 DEF WireInv, CallInv
    <3>2. CASE spc' = "setLen"
      <4>1. /\ pBuf'[idx] = base /\ base + l = asked' + 1
            /\ BufLen'[idx] = 0
        BY <1>1, <1>3, <2>1, <2>3, <3>1, <3>2 DEF TxInv, TxTypeOK
      <4>2. QED
        BY <1>1, <3>1, <3>2, <4>1 DEF CallInv
    <3>3. CASE spc' = "setBuf"
      <4>1. BufLen'[idx] = l /\ asked' = asked
        BY <1>1, <2>1, <3>3 DEF TxInv, TxTypeOK
      <4>2. QED
        BY <1>1, <3>1, <3>3, <4>1 DEF CallInv
    <3>4. QED
      BY <2>1, <3>2, <3>3
  <2>8. QED
    BY <2>5, <2>6, <2>7 DEF WireInv
<1>5. CASE spc \in {"setLen", "setBuf"}
  <2>1. /\ spc' = "enable" /\ ~answered
        /\ \A s \in Slots : s # idx => pBuf'[s] = pBuf[s] /\ BufLen'[s] = BufLen[s]
        /\ pBuf'[idx] = Given + 1 /\ BufLen'[idx] = l /\ Given' = Given + l
        /\ Given \in Int
    <3>1. CASE spc = "setLen"
      <4>1. /\ spc' = "enable" /\ UNCHANGED <<pBuf, asked>>
            /\ BufLen' = [BufLen EXCEPT ![idx] = l]
        BY <3>1 DEF SetBuf, SetLen, Enable, StepSend
      <4>2. /\ ~answered /\ base + l = asked + 1 /\ pBuf[idx] = base
            /\ Given = asked - l
        BY <3>1 DEF WireInv, CallInv, Given
      <4>3. Given' = asked /\ pBuf[idx] = Given + 1
        BY <1>1, <1>3, <4>1, <4>2 DEF Given
      <4>4. QED
        BY <1>1, <1>3, <4>1, <4>2, <4>3 DEF TxInv, TxTypeOK
    <3>2. CASE spc = "setBuf"
      <4>1. /\ spc' = "enable" /\ BufLen' = BufLen /\ asked' = asked + l
            /\ pBuf' = [pBuf EXCEPT ![idx] = base]
        BY <3>2 DEF SetBuf, SetLen, Enable, StepSend
      <4>2. ~answered /\ base = asked + 1 /\ BufLen[idx] = l /\ Given = asked
        BY <3>2 DEF WireInv, CallInv, Given
      <4>3. Given' = asked + l
        BY <4>1 DEF Given
      <4>4. QED
        BY <1>1, <1>3, <4>1, <4>2, <4>3 DEF TxInv, TxTypeOK
    <3>3. QED
      BY <1>5, <3>1, <3>2
  <2>2. \A s \in Slots : /\ Carries(s) => s # idx /\ Carries(s)'
                         /\ Carries(s)' => Carries(s) \/ s = idx
                         /\ Carries(idx)' <=> l > 0
    BY <1>1, <1>5, <2>1 DEF Carries
  <2>3. Sent <= Given
    BY DEF WireInv, ShiftInv
  <2>4. Within'
    <3>1. ASSUME NEW s \in Slots, Carries(s)'
          PROVE  Sent' < pBuf'[s] /\ pBuf'[s] + BufLen'[s] <= Given' + 1
      <4>1. CASE s = idx
        BY <1>2, <1>3, <2>1, <2>3, <4>1
      <4>2. CASE s # idx
        <5>1. Sent < pBuf[s] /\ pBuf[s] + BufLen[s] <= Given + 1
          BY <2>2, <3>1, <4>2 DEF WireInv, Within
        <5>2. QED
          BY <1>2, <1>3, <2>1, <4>2, <5>1
      <4>3. QED
        BY <4>1, <4>2
    <3>2. QED
      BY <3>1 DEF Within
  <2>5. Ordered'
    <3>1. ASSUME NEW s \in Slots, NEW t \in Slots,
                 Carries(s)', Carries(t)', Off(s)' < Off(t)'
          PROVE  pBuf'[s] + BufLen'[s] <= pBuf'[t]
      <4>1. Off(s) < Off(t)
        BY <1>2, <3>1
      <4>2. s # idx
        <5>1. ASSUME s = idx PROVE FALSE
          <6>1. t # idx /\ Carries(t)
            BY <2>2, <3>1, <4>1, <5>1, StreamAssumption
            DEF Off, Slots, TxInv, TxTypeOK
          <6>2. Pending(t)
            BY <1>1, <6>1 DEF Carries, TxInv, StreamsInv
          <6>3. Off(t) < Off(idx)
            BY <1>5, <6>1, <6>2 DEF TxInv, SendInv
          <6>4. QED
            BY <1>1, <4>1, <5>1, <6>3, StreamAssumption
            DEF Off, Slots, TxInv, TxTypeOK
        <5>2. QED
          BY <5>1
      <4>3. Carries(s)
        BY <2>2, <3>1, <4>2
      <4>4. CASE t = idx
        BY <1>3, <2>1, <4>2, <4>3, <4>4 DEF WireInv, Within
      <4>5. CASE t # idx
        BY <2>1, <2>2, <3>1, <4>1, <4>2, <4>3, <4>5 DEF WireInv, Ordered
      <4>6. QED
        BY <4>4, <4>5
    <3>2. QED
      BY <3>1 DEF Ordered
  <2>6. Complete'
    <3>1. ASSUME NEW n \in Nat, Sent' < n, n <= Given'
          PROVE  \E s \in Slots : /\ Carries(s)'
                                  /\ pBuf'[s] <= n /\ n < pBuf'[s] + BufLen'[s]
      <4>1. CASE n <= Given
        <5>1. PICK s \in Slots : Carries(s) /\ pBuf[s] <= n /\ n < pBuf[s] + BufLen[s]
          BY <1>2, <3>1, <4>1 DEF WireInv, Complete
        <5>2. QED
          BY <2>1, <2>2, <5>1
      <4>2. CASE Given < n
        <5>1. pBuf'[idx] <= n /\ n < pBuf'[idx] + BufLen'[idx] /\ l > 0
          BY <1>3, <2>1, <3>1, <4>2
        <5>2. QED
          BY <1>1, <2>2, <5>1
      <4>3. QED
        BY <2>1, <4>1, <4>2
    <3>2. QED
      BY <3>1 DEF Complete
  <2>7. ShiftInv' /\ CallInv'
    <3>1. ShiftInv'
      BY <1>1, <1>2, <1>3, <2>1, <2>3 DEF WireInv, ShiftInv
    <3>2. CallInv'
      BY <1>1, <2>1 DEF CallInv
    <3>3. QED
      BY <3>1, <3>2
  <2>8. QED
    BY <2>4, <2>5, <2>6, <2>7 DEF WireInv
<1>6. CASE Enable
  <2>1. /\ UNCHANGED <<pBuf, BufLen, asked>> /\ spc = "enable" /\ spc' = "idle"
    BY <1>6 DEF Enable, StepSend
  <2>2. Given' = Given /\ \A s \in Slots : Carries(s)' <=> Carries(s)
    BY <1>1, <2>1 DEF Given, Carries
  <2>3. ShiftInv' /\ CallInv'
    BY <1>1, <1>2, <2>1, <2>2 DEF WireInv, ShiftInv, CallInv
  <2>4. QED
    BY <1>1, <1>2, <2>1, <2>2, <2>3, WireAlone DEF WireInv
<1>7. QED
  BY <1>4, <1>5, <1>6 DEF SetBuf, SetLen, StepSend

LEMMA StepWire ==
    ASSUME TxInv, WireInv, [DriverNext]_allVars, ~disturbed'
    PROVE  WireInv'
<1>1. CASE ReceiveInterrupt \/ TransmitInterrupt
  <2>1. Still /\ TransmitPart /\ UNCHANGED <<sender, out, lastOut>>
    BY <1>1, Interrupted DEF ReceiveInterrupt, TransmitInterrupt
  <2>2. answered' => out = asked /\ spc = "idle"
    BY <1>1 DEF ReceiveInterrupt, TransmitInterrupt, WireInv, CallInv
  <2>3. CASE dr # Empty
    <3>1. /\ UNCHANGED <<pBuf, BufLen, usart_stream_idx, dr, out, lastOut>>
          /\ UNCHANGED <<spc, i, idx, base, l, asked>>
      BY <2>1, <2>3 DEF TransmitPart, streams, sender
    <3>2. /\ Sent' = Sent /\ Given' = Given
          /\ \A s \in Slots : Carries(s)' <=> Carries(s)
      BY <3>1 DEF Sent, Given, Carries
    <3>3. ShiftInv' /\ CallInv'
      BY <2>2, <3>1, <3>2 DEF WireInv, ShiftInv, CallInv
    <3>4. QED
      BY <3>1, <3>2, <3>3, WireAlone DEF WireInv
  <2>4. CASE dr = Empty
    BY <2>1, <2>2, <2>4, SendNextOnWire, EndStreamOnWire DEF TransmitPart
  <2>5. QED
    BY <2>3, <2>4
<1>2. CASE Shift
  BY <1>2, ShiftOnWire
<1>3. CASE USART_Send
  BY <1>3, SearchOnWire, CallsOnWire, FillOnWire DEF USART_Send
<1>4. CASE UNCHANGED tx
  <2>1. /\ UNCHANGED <<pBuf, BufLen, usart_stream_idx, dr, out, lastOut, answered>>
        /\ UNCHANGED <<spc, i, idx, base, l, asked>>
    BY <1>4 DEF tx, streams, sender, wire
  <2>2. /\ Sent' = Sent /\ Given' = Given
        /\ \A s \in Slots : Carries(s)' <=> Carries(s)
    BY <2>1 DEF Sent, Given, Carries
  <2>3. ShiftInv' /\ CallInv'
    BY <2>1, <2>2 DEF WireInv, ShiftInv, CallInv
  <2>4. QED
    BY <2>1, <2>2, <2>3, WireAlone DEF WireInv
<1>5. QED
  BY <1>1, <1>2, <1>3, <1>4 DEF DriverNext, allVars

UndisturbedWire == ~disturbed => WireInv

(* What goes on the wire is what USART_Send was given, in order, through   *)
(* any number of slots (usart.c:269, 328-349), until an interrupt moves    *)
(* what USART_Send is looking at.                                          *)
THEOREM TxInOrderCorrect == DriverSpec => []TxInOrder
<1>1. DriverInit => UndisturbedWire
  BY InitWire DEF UndisturbedWire
<1>2. UndisturbedTx /\ UndisturbedWire /\ [DriverNext]_allVars => UndisturbedWire'
  BY StepWire, DisturbedStays DEF UndisturbedTx, UndisturbedWire
<1>3. UndisturbedWire => TxInOrder
  BY DEF UndisturbedWire, WireInv, ShiftInv, TxInOrder
<1>4. QED
  BY <1>1, <1>2, <1>3, TxInvariance, PTL DEF DriverSpec

=============================================================================
