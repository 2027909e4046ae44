------------------------------ MODULE UsartRing ------------------------------
(***************************************************************************)
(* The receive ring of FreeRTOS/src/usart.c: the interrupt handler pushes  *)
(* the bytes the WiFi chip sends, the one task that holds the UART mutex   *)
(* pops them.  Nothing is masked and nothing is volatile: the handler runs *)
(* whole, between any two accesses PopQueue makes to the ring.             *)
(*                                                                         *)
(* A byte is its number among those the ring accepted, so that the order   *)
(* of the bytes popped says whether the ring is a queue.                   *)
(*                                                                         *)
(* Nothing keeps the chip from sending on when the ring is full, and the   *)
(* handler then overwrites a byte in one place: overwritten remembers it.  *)
(***************************************************************************)
EXTENDS Integers

CONSTANTS
    RLen,        \* rLen, RX_QUEUELEN: elements of the ring
    MaxBytes     \* bound: bytes that are accepted altogether

ASSUME RingAssumption ==
    RLen \in Nat \ {0} /\ MaxBytes \in Nat

VARIABLES
    wIdx, rIdx, ovr, buf,    \* struct _rx_Queue
    rxPipeState,             \* whether received bytes are kept
    pc,                      \* where the popping task is in PopQueue
    accepted, popped,        \* bytes pushed and popped so far
    last,                    \* the byte popped last
    qpc,                     \* where QueueMessagesWaiting is
    sum,                     \* what it has computed so far
    overwritten,             \* history: a byte was pushed onto an unread one
    acceptedThen, leftThen,  \* history: accepted and Left at its call
    turned                   \* history: the ring has wrapped since, or was to

queue == <<wIdx, rIdx, ovr, buf>>
count == <<accepted, popped, last>>
ask   == <<qpc, sum, acceptedThen, leftThen>>
vars  == <<queue, rxPipeState, pc, count, ask, overwritten, turned>>

Indices == 0 .. RLen - 1

(* Bytes that left the ring: the one just taken leaves when rIdx moves on. *)
Left == IF pc = "advance" THEN popped - 1 ELSE popped

(* setup_usart: CreateQueue, and the pipe is disabled. *)
Init ==
    /\ wIdx = 0 /\ rIdx = 0 /\ ovr = 0 /\ buf = [i \in Indices |-> 0]
    /\ rxPipeState = 0 /\ pc = "idle"
    /\ accepted = 0 /\ popped = 0 /\ last = 0
    /\ qpc = "idle" /\ sum = 0 /\ acceptedThen = 0 /\ leftThen = 0
    /\ overwritten = FALSE /\ turned = FALSE

(* USART_SetRxPipe, when the parse task starts. *)
EnableRxPipe ==
    /\ rxPipeState = 0 /\ rxPipeState' = 1
    /\ UNCHANGED <<queue, pc, count, ask, overwritten, turned>>

-----------------------------------------------------------------------------
(* PushQueue: there is room behind wIdx; the writer starts over at the     *)
(* front, which the reader has left; or it follows the reader.             *)
RoomToEndInclusive == ovr = 0 /\ wIdx <= RLen
RoomToEnd          == ovr = 0 /\ wIdx < RLen
MayWrapLate        == ovr = 0 /\ RLen <= wIdx /\ 1 < rIdx
MayWrap            == ovr = 0 /\ RLen <= wIdx /\ 0 < rIdx
RoomToReader       == ovr = 1 /\ wIdx < rIdx

MayPush == RoomToEnd \/ MayWrap \/ RoomToReader

PushQueue ==
    LET at == IF MayWrap THEN 0 ELSE wIdx
    IN  /\ MayPush
        /\ ovr' = IF MayWrap THEN 1 ELSE ovr
        /\ buf' = [buf EXCEPT ![at] = accepted + 1]
        /\ wIdx' = at + 1
        /\ accepted' = accepted + 1
        /\ overwritten' = (overwritten \/ (MayWrap /\ pc = "wrapRIdx"))
        /\ turned' = (turned \/ (MayWrap /\ qpc # "idle"))
        /\ UNCHANGED <<rIdx, popped, last>>

(* USART6_IRQHandler, its receiving part.  A byte that is not pushed is    *)
(* lost and changes nothing.                                               *)
USART6_IRQHandler ==
    /\ rxPipeState > 0 /\ accepted < MaxBytes
    /\ PushQueue
    /\ UNCHANGED <<rxPipeState, pc, ask>>

-----------------------------------------------------------------------------
(* PopQueue, called by USART_Read until it returns 0 or enough was read.   *)
(* A pc names the access that comes next; the first is to ovr.             *)
Step(from, to) ==
    /\ pc = from /\ pc' = to
    /\ UNCHANGED <<rxPipeState, wIdx, buf, accepted, ask, overwritten>>

TestNothing ==
    /\ Step("idle", "overrun")
    /\ UNCHANGED <<rIdx, ovr, popped, last, turned>>
TestNoOverrun ==
    /\ Step("idle", IF ovr = 0 THEN "compare" ELSE "overrun")
    /\ UNCHANGED <<rIdx, ovr, popped, last, turned>>

(* ovr was 0. *)
Compare ==
    /\ Step("compare", IF rIdx < wIdx THEN "take" ELSE "retest")
    /\ UNCHANGED <<rIdx, ovr, popped, last, turned>>

(* ovr is tested again, or the compiler has kept the value it had: then    *)
(* the ring is taken for empty.                                            *)
TestOverrun ==
    /\ \/ ovr = 1 /\ Step("retest", "overrun")
       \/ Step("retest", "idle")
    /\ UNCHANGED <<rIdx, ovr, popped, last, turned>>

(* ovr was 1: the reader starts over at the front, has bytes before it, or *)
(* (a case the indices exclude) finds nothing.                             *)
Overrun ==
    /\ Step("overrun", IF rIdx < RLen THEN "take"
                       ELSE IF 0 < wIdx THEN "wrap" ELSE "idle")
    /\ UNCHANGED <<rIdx, ovr, popped, last, turned>>

(* ovr = 0; rIdx = 0; in this order or, as nothing tells the compiler to   *)
(* keep it, in the other.                                                  *)
Wrap ==
    /\ \/ Step("wrap", "wrapRIdx") /\ ovr' = 0 /\ UNCHANGED rIdx
       \/ Step("wrap", "wrapOvr") /\ rIdx' = 0 /\ UNCHANGED ovr
    /\ turned' = (turned \/ qpc # "idle") /\ UNCHANGED <<popped, last>>

WrapRIdx ==
    /\ Step("wrapRIdx", "take")
    /\ rIdx' = 0 /\ UNCHANGED <<ovr, popped, last, turned>>

WrapOvr ==
    /\ Step("wrapOvr", "take")
    /\ ovr' = 0 /\ UNCHANGED <<rIdx, popped, last, turned>>

Take ==
    /\ Step("take", "advance")
    /\ last' = buf[rIdx] /\ popped' = popped + 1
    /\ UNCHANGED <<rIdx, ovr, turned>>

Advance ==
    /\ Step("advance", "idle")
    /\ rIdx' = rIdx + 1 /\ UNCHANGED <<ovr, popped, last, turned>>

PopQueue ==
    \/ TestNoOverrun \/ Compare \/ TestOverrun \/ Overrun
    \/ Wrap \/ WrapRIdx \/ WrapOvr \/ Take \/ Advance

-----------------------------------------------------------------------------
(* QueueMessagesWaiting, which USART_Readable returns, is called by tasks  *)
(* that hold the mutex and, at start-up, by one that does not.  The first  *)
(* access is to ovr, the next two to the indices in either order; the ring *)
(* goes on between them.                                                   *)
Ask(from, to) ==
    /\ qpc = from /\ qpc' = to
    /\ UNCHANGED <<queue, rxPipeState, pc, count, overwritten>>

ReadOvrNoWrap ==
    /\ Ask("idle", "indices") /\ sum' = 0
    /\ acceptedThen' = accepted /\ leftThen' = Left
    /\ turned' = (pc \in {"wrapRIdx", "wrapOvr"})
ReadOvr ==
    /\ Ask("idle", "indices") /\ sum' = IF ovr = 1 THEN RLen ELSE 0
    /\ acceptedThen' = accepted /\ leftThen' = Left
    /\ turned' = (pc \in {"wrapRIdx", "wrapOvr"})

ReadRIdx ==
    /\ Ask("indices", "wIdx") \/ Ask("rIdx", "answer")
    /\ sum' = sum - rIdx /\ UNCHANGED <<acceptedThen, leftThen, turned>>

ReadWIdx ==
    /\ Ask("indices", "rIdx") \/ Ask("wIdx", "answer")
    /\ sum' = sum + wIdx /\ UNCHANGED <<acceptedThen, leftThen, turned>>

Answer ==
    /\ Ask("answer", "idle") /\ sum' = 0
    /\ acceptedThen' = 0 /\ leftThen' = 0 /\ turned' = FALSE

QueueMessagesWaiting == ReadOvr \/ ReadRIdx \/ ReadWIdx \/ Answer

Next == EnableRxPipe \/ USART6_IRQHandler \/ PopQueue \/ QueueMessagesWaiting

Spec == Init /\ [][Next]_vars

-----------------------------------------------------------------------------
(* Type correctness; no access is outside of the ring's buffer, not even   *)
(* after a byte was overwritten.                                           *)
TypeOK ==
    /\ wIdx \in 0..RLen /\ rIdx \in 0..RLen /\ ovr \in {0, 1}
    /\ buf \in [Indices -> Nat] /\ rxPipeState \in {0, 1}
    /\ pc \in {"idle", "compare", "retest", "overrun", "wrap", "wrapRIdx",
               "wrapOvr", "take", "advance"}
    /\ accepted \in Nat /\ popped \in Nat /\ last \in Nat
    /\ qpc \in {"idle", "indices", "rIdx", "wIdx", "answer"} /\ sum \in Int
    /\ acceptedThen \in Nat /\ leftThen \in Int
    /\ overwritten \in BOOLEAN /\ turned \in BOOLEAN
    /\ pc \in {"take", "advance"} => rIdx < RLen

(* The bytes popped are the bytes pushed, in their order, none missing and *)
(* none twice ("Pop and receive an element from the queue", usart.c:80),   *)
(* until a byte is accepted by a full ring between the ovr = 0 and the     *)
(* rIdx = 0 of PopQueue (usart.c:94-95).  No other interrupt, at any other *)
(* access and at any fill, breaks the order.                               *)
InOrder == ~overwritten => last = popped

(* What USART_Readable returns (usart.c:113-119, 262-267) is a number of   *)
(* bytes that the ring had between the call and the return, though the     *)
(* three accesses are apart: if it did not start over at the front, at     *)
(* either index, in the meantime.                                          *)
WaitingWasUnread ==
    qpc = "answer" /\ ~turned /\ ~overwritten =>
        sum \in acceptedThen - Left .. accepted - leftThen

(* The handler refuses a byte only when the ring is full, counting the     *)
(* byte the reader has not moved past, or when it comes in the middle of   *)
(* the reader's wrap (usart.c:57-67); again until one is overwritten.      *)
RefusedOnlyWhenFull ==
    ~overwritten => MayPush \/ accepted - Left >= RLen \/ pc = "wrapOvr"

=============================================================================
