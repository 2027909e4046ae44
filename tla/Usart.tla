------------------------------- MODULE Usart -------------------------------
(***************************************************************************)
(* FreeRTOS/src/usart.c as a whole: the receive ring of UsartRing, and the *)
(* transmit streams that USART_Send fills and the same interrupt handler   *)
(* empties.  The handler looks at the transmit register on every           *)
(* interrupt, so that a byte that is received moves the transmit side on,  *)
(* between any two accesses of USART_Send; disturbed remembers that it has *)
(* moved the streams while USART_Send was looking at them.                 *)
(*                                                                         *)
(* A byte to be sent is its number among those given to USART_Send; a      *)
(* stream's pBuf is the number of its next byte.                           *)
(***************************************************************************)
EXTENDS UsartRing

CONSTANTS
    MaxStream,   \* MAX_USART_STREAM: slots of usart_stream
    MaxLen,      \* bound: bytes of one USART_Send
    MaxSend,     \* bound: bytes that are sent altogether
    SendBeside,  \* bound: those sent beside calls of USART_Readable, and
                 \* those sent once USART_Send was disturbed
    MaxTraffic,  \* bound: bytes that are sent and accepted altogether
    Patient      \* whether USART_Send is called with no stream pending only

ASSUME StreamAssumption ==
    /\ MaxStream \in Nat \ {0} /\ Patient \in BOOLEAN
    /\ {MaxLen, MaxSend, SendBeside, MaxTraffic} \subseteq Nat

VARIABLES
    pBuf, BufLen,        \* the fields of usart_stream[]
    usart_stream_idx,
    txeie,               \* whether the transmit interrupt is enabled
    dr,                  \* the byte in the transmit data register, or Empty
    spc,                 \* where the sending task is in USART_Send
    i, idx,              \* locals of USART_Send
    base, l,             \* its arguments: the next byte, and how many
    asked,               \* bytes that USART_Send has taken so far
    answered,            \* whether the chip has begun to answer all of them
    out, lastOut,        \* bytes on the wire, and the last of them
    disturbed            \* history: USART_Send has seen the streams change

streams == <<pBuf, BufLen, usart_stream_idx, txeie>>
wire    == <<out, lastOut>>
sender  == <<spc, i, idx, base, l, asked>>
tx      == <<streams, dr, wire, sender, answered, disturbed>>

Slots == 0 .. MaxStream - 1
Empty == 0
NULL  == -1 - MaxSend   \* no byte, nor one of the few behind it

DriverInit ==
    /\ Init
    /\ pBuf = [s \in Slots |-> NULL] /\ BufLen = [s \in Slots |-> 0]
    /\ usart_stream_idx = 0 /\ txeie = FALSE /\ dr = Empty
    /\ spc = "idle" /\ i = 0 /\ idx = 0 /\ base = 0 /\ l = 0
    /\ asked = 0 /\ out = 0 /\ lastOut = 0 /\ answered = TRUE
    /\ disturbed = FALSE

-----------------------------------------------------------------------------
(* The transmitting part of USART6_IRQHandler, when the data register is   *)
(* empty (TXE), whatever raised the interrupt.                             *)
SendNextStays ==
    /\ BufLen[usart_stream_idx] > 0
    /\ dr' = pBuf[usart_stream_idx] /\ UNCHANGED pBuf
    /\ BufLen' = [BufLen EXCEPT ![usart_stream_idx] = @ - 1]
    /\ UNCHANGED <<usart_stream_idx, txeie>>
SendNext ==
    /\ BufLen[usart_stream_idx] > 0
    /\ dr' = pBuf[usart_stream_idx]
    /\ pBuf' = [pBuf EXCEPT ![usart_stream_idx] = @ + 1]
    /\ BufLen' = [BufLen EXCEPT ![usart_stream_idx] = @ - 1]
    /\ UNCHANGED <<usart_stream_idx, txeie>>

(* The index is incremented, then i is added to it for i = 0, 1, ..., until *)
(* it is that of a stream: Tried(k) is where it is looked for at i = k.    *)
Tried(k) == (usart_stream_idx + 1 + (k * (k + 1)) \div 2) % MaxStream

EndStreamWithoutLooking ==
    /\ BufLen[usart_stream_idx] = 0
    /\ pBuf' = [pBuf EXCEPT ![usart_stream_idx] = NULL]
    /\ usart_stream_idx' = Tried(0) /\ txeie' = FALSE
    /\ UNCHANGED <<BufLen, dr>>
EndStream ==
    LET cleared == [pBuf EXCEPT ![usart_stream_idx] = NULL]
        found   == {k \in Slots : cleared[Tried(k)] # NULL}
    IN  /\ BufLen[usart_stream_idx] = 0
        /\ pBuf' = cleared /\ UNCHANGED <<BufLen, dr>>
        /\ \/ \E k \in found :
                /\ \A j \in found : k <= j
                /\ usart_stream_idx' = Tried(k) /\ UNCHANGED txeie
           \/ /\ found = {}
              /\ usart_stream_idx' = Tried(MaxStream - 1) /\ txeie' = FALSE

TransmitPart ==
    \/ dr = Empty /\ (SendNext \/ EndStream)
    \/ dr # Empty /\ UNCHANGED <<streams, dr>>

(* USART_Send has looked at the index or at a slot, and not yet filled one. *)
Looking ==
    spc \in {"test", "store", "setBuf", "setLen"} \/ (spc = "find" /\ i > 0)

(* The index moves, or a slot comes into use or goes out of it. *)
Moved ==
    \/ usart_stream_idx' # usart_stream_idx
    \/ \E s \in Slots : (pBuf'[s] = NULL) # (pBuf[s] = NULL)

Interrupt ==
    /\ TransmitPart /\ UNCHANGED <<wire, sender>>
    /\ disturbed' = (disturbed \/ (Looking /\ Moved))

(* A byte is received: it is pushed, or lost while the pipe is disabled or *)
(* the ring full; then comes the transmitting part.                        *)
ReceiveInterrupt ==
    /\ Interrupt
    /\ \/ USART6_IRQHandler /\ accepted + asked < MaxTraffic
       \/ (rxPipeState = 0 \/ ~MayPush) /\ UNCHANGED vars
    /\ answered' = (out = asked /\ spc = "idle")

TransmitInterrupt ==
    /\ txeie /\ dr = Empty
    /\ Interrupt /\ UNCHANGED <<vars, answered>>

(* The byte in the data register goes on the wire. *)
Shift ==
    /\ dr # Empty
    /\ dr' = Empty /\ lastOut' = dr /\ out' = out + 1
    /\ UNCHANGED <<vars, streams, sender, answered, disturbed>>

-----------------------------------------------------------------------------
(* The tasks that call USART_Send hold the UART mutex, and read the chip's *)
(* answer to what was sent before they send more; non-blocking, it would   *)
(* take more before that.                                                  *)
Call(n, pcSend) ==
    /\ spc = "idle" /\ answered' = FALSE
    /\ asked + n <= IF qpc = "idle" /\ ~disturbed THEN MaxSend ELSE SendBeside
    /\ accepted + asked + n <= MaxTraffic
    /\ spc' = pcSend /\ base' = asked + 1 /\ l' = n /\ i' = 0
    /\ UNCHANGED <<vars, streams, dr, wire, idx, asked, disturbed>>

SendNonBlocking ==
    (Patient => answered) /\ \E n \in 1..MaxLen : Call(n, "find")
SendBlocking    == answered /\ \E n \in 1..MaxLen : Call(n, "poll")

StepSend(from) ==
    spc = from /\ UNCHANGED <<vars, dr, wire, base, answered, disturbed>>

FindNoWrap ==
    /\ StepSend("find") /\ spc' = "test"
    /\ idx' = i + usart_stream_idx
    /\ UNCHANGED <<streams, i, l, asked>>
Find ==
    /\ StepSend("find") /\ spc' = "test"
    /\ idx' = (i + usart_stream_idx) % MaxStream
    /\ UNCHANGED <<streams, i, l, asked>>

(* A slot in use is passed over; with all in use, -1 is returned. *)
Test ==
    /\ StepSend("test")
    /\ IF pBuf[idx] = NULL THEN spc' = "store" /\ UNCHANGED i
       ELSE /\ i' = i + 1
            /\ spc' = IF i + 1 < MaxStream THEN "find" ELSE "idle"
    /\ UNCHANGED <<streams, idx, l, asked>>

SetBuf ==
    /\ \/ StepSend("store") /\ spc' = "setLen"
       \/ StepSend("setBuf") /\ spc' = "enable"
    /\ pBuf' = [pBuf EXCEPT ![idx] = base] /\ asked' = asked + l
    /\ UNCHANGED <<BufLen, usart_stream_idx, txeie, i, idx, l>>

(* Nothing tells the compiler to write pBuf first. *)
SetLen ==
    /\ \/ StepSend("store") /\ spc' = "setBuf"
       \/ StepSend("setLen") /\ spc' = "enable"
    /\ BufLen' = [BufLen EXCEPT ![idx] = l]
    /\ UNCHANGED <<pBuf, usart_stream_idx, txeie, i, idx, l, asked>>

EnableBusyOnly ==
    /\ StepSend("enable") /\ spc' = "idle"
    /\ txeie' = (i > 0)
    /\ UNCHANGED <<pBuf, BufLen, usart_stream_idx, i, idx, l, asked>>
Enable ==
    /\ StepSend("enable") /\ spc' = "idle" /\ txeie' = TRUE
    /\ UNCHANGED <<pBuf, BufLen, usart_stream_idx, i, idx, l, asked>>

(* BLOCKING: wait for the transmitter, write the byte past the streams.    *)
Poll ==
    /\ spc = "poll" /\ dr = Empty /\ spc' = "write"
    /\ UNCHANGED <<vars, streams, dr, wire, i, idx, base, l, asked, answered,
                   disturbed>>

Write ==
    /\ spc = "write" /\ spc' = IF l = 1 THEN "idle" ELSE "poll"
    /\ dr' = base /\ base' = base + 1 /\ l' = l - 1 /\ asked' = asked + 1
    /\ UNCHANGED <<vars, streams, wire, i, idx, answered, disturbed>>

USART_Send ==
    \/ SendNonBlocking \/ SendBlocking
    \/ Find \/ Test \/ SetBuf \/ SetLen \/ Enable \/ Poll \/ Write

DriverNext ==
    \/ (EnableRxPipe \/ PopQueue) /\ UNCHANGED tx
    \/ QueueMessagesWaiting /\ base <= SendBeside /\ UNCHANGED tx
    \/ ReceiveInterrupt \/ TransmitInterrupt \/ Shift \/ USART_Send

allVars == <<vars, tx>>
DriverSpec == DriverInit /\ [][DriverNext]_allVars

(* An interrupt that is enabled and pending is served, though not always   *)
(* at once, a task that can run does, and the shift register empties.      *)
FairDriver ==
    /\ DriverSpec
    /\ SF_allVars(TransmitInterrupt) /\ WF_allVars(Shift)
    /\ WF_allVars(Find \/ Test \/ SetBuf \/ SetLen \/ Enable \/ Poll \/ Write)

-----------------------------------------------------------------------------
(* Type correctness of the transmit side. *)
TxTypeOK ==
    /\ pBuf \in [Slots -> Int] /\ BufLen \in [Slots -> Nat]
    /\ usart_stream_idx \in Slots /\ txeie \in BOOLEAN /\ dr \in Int
    /\ spc \in {"idle", "find", "test", "store", "setBuf", "setLen",
                "enable", "poll", "write"}
    /\ i \in Nat /\ idx \in Slots /\ base \in Nat /\ l \in Nat
    /\ asked \in Nat /\ out \in Nat /\ lastOut \in Int
    /\ answered \in BOOLEAN /\ disturbed \in BOOLEAN

(* What goes on the wire is what USART_Send was given, byte for byte, by   *)
(* whatever slots it went and however the index wandered with the bytes    *)
(* received ("Send bytes array with designated length through USART",      *)
(* usart.c:269): until an interrupt ends a stream, or begins a half-filled *)
(* one, between USART_Send's first read of the index (usart.c:287) and its *)
(* last write to a slot (usart.c:290).                                     *)
TxInOrder == ~disturbed => lastOut = out

(* A stream that waits for the handler is one the handler will come to:    *)
(* the transmit interrupt is disabled only "after all streams are          *)
(* finished" (usart.c:345-347); again until USART_Send is disturbed.       *)
NoStreamStranded ==
    ~disturbed /\ spc = "idle" /\ (\E s \in Slots : pBuf[s] # NULL) => txeie

(* Everything that was given to USART_Send is sent in the end, though the  *)
(* interrupt is disabled and enabled again around each stream.             *)
EverythingSent == []<>(out = asked)

(* It is so as long as USART_Send is not disturbed (usart.c:286-291,       *)
(* 336-348), by however many interrupts come inside of it.                 *)
UndisturbedIsSent == []~disturbed => EverythingSent

=============================================================================
