----------------------------- MODULE HttpServer -----------------------------
(***************************************************************************)
(* The event loop of c-version/lib/server.c: one thread calls HTTPServerRun *)
(* for ever.  A round is                                                   *)
(*                                                                         *)
(*   select() -> accept at most one connection -> visit the slots in order *)
(*                                                                         *)
(* and a visit is the three parts of the loop body in the order of the     *)
(* code: read, write, end (reap and close).  Peers, the kernel and the     *)
(* clock move between any two of these steps.                              *)
(*                                                                         *)
(* What a request says and what a response holds is the subject of other   *)
(* modules: here ProcessClientData and WriteSock are known by the work     *)
(* states they can return, and recv, accept and send by their outcomes.    *)
(***************************************************************************)
EXTENDS Integers, FiniteSets

CONSTANTS
    MaxClient,    \* MAX_HTTP_CLIENT: slots in http_req
    Sock,         \* the file descriptor of the listening socket
    Fds,          \* the descriptors accept() may return
    IdleTimeout,  \* HTTP_CONN_IDLE_TIMEOUT, in ticks of the clock
    ClockMod,     \* the clock is an unsigned integer modulo this (2^32)
    RoundTime,    \* bound: ticks that pass while a round handles its slots
    MaxIntr       \* bound: consecutive select() calls a signal interrupts

ASSUME SlotAssumption == MaxClient \in Nat \ {0}
ASSUME FdAssumption == Sock \in Nat /\ Fds \subseteq Nat /\ Sock \notin Fds
ASSUME TimeAssumption ==
    /\ IdleTimeout \in Nat \ {0} /\ RoundTime \in Nat /\ MaxIntr \in Nat
    /\ ClockMod \in Nat /\ ClockMod > 0
\* A connection is silent for less than half the range of the clock.
ASSUME ClockAssumption ==
    2 * (RoundTime + (MaxIntr + 2) * IdleTimeout) <= ClockMod

VARIABLES
    \* struct HTTPServer
    maxSock, readPool, writePool, available,
    \* http_req[]: the fields of struct HTTPReq this module is about
    clisock, workState, lastActive,
    \* where HTTPServerRun is, and its locals
    pc, cur, readable, writeable, now, active,
    \* the kernel's table of open sockets
    openFds,
    \* time: the clock _now_ms reads; ticks since the current select() call or
    \* since it returned; interrupted calls in a row; and, per slot, the real
    \* time since last_active_ms was stamped (no variable of the code)
    clock, elapsed, intr, age

server == <<maxSock, readPool, writePool, available>>
slots  == <<clisock, workState, lastActive>>
locals == <<readable, writeable, now>>
timing == <<clock, elapsed, intr>>
vars   == <<server, slots, pc, cur, locals, active, openFds, timing, age>>

Slots == 1..MaxClient
NoSock == -1

(* READEND_SOCKET is never assigned by the code. *)
WorkStates == {"NOTWORK", "READING", "WRITING", "WRITEEND", "CLOSE"}

FreeSlots == {s \in Slots : clisock[s] = NoSock}
LiveSlots == Slots \ FreeSlots
LiveFds   == {clisock[s] : s \in LiveSlots}

(* (int32_t)(a - b): the difference of two clock readings as a signed      *)
(* integer of the clock's width.                                           *)
SignedDiffUnsigned(a, b) == (a - b) % ClockMod
SignedDiff(a, b) ==
    LET d == (a - b) % ClockMod
    IN  IF 2 * d < ClockMod THEN d ELSE d - ClockMod

-----------------------------------------------------------------------------
(* HTTPServerInit, when socket() and bind() succeed. *)
Init ==
    /\ maxSock = Sock /\ readPool = {Sock} /\ writePool = {}
    /\ available = MaxClient
    /\ clisock = [s \in Slots |-> NoSock]
    /\ workState = [s \in Slots |-> "NOTWORK"]
    /\ lastActive = [s \in Slots |-> 0]
    /\ pc = "select" /\ cur = 1 /\ active = FALSE
    /\ readable = {} /\ writeable = {} /\ now = 0
    /\ openFds = {Sock}
    /\ clock = 0 /\ elapsed = 0 /\ intr = 0 /\ age = [s \in Slots |-> 0]

(* select(_max_sock + 1, ...) looks at no descriptor above _max_sock. *)
Watched(pool) == {f \in pool : f <= maxSock}

(* select() reports some ready sockets, or none once its timeout is over;  *)
(* a closed descriptor in a set would make the call fail.                  *)
Select ==
    /\ pc = "select"
    /\ Watched(readPool \cup writePool) \subseteq openFds
    /\ readable' \in SUBSET Watched(readPool)
    /\ writeable' \in SUBSET Watched(writePool)
    /\ readable' \cup writeable' = {} => elapsed = IdleTimeout
    /\ now' = clock
    /\ pc' = "accept" /\ elapsed' = 0 /\ intr' = 0
    /\ UNCHANGED <<server, slots, cur, active, openFds, clock, age>>

(* select() < 0: the round ends at once and no slot is visited. *)
SelectInterrupted ==
    /\ pc = "select" /\ intr < MaxIntr
    /\ intr' = intr + 1 /\ elapsed' = 0
    /\ UNCHANGED <<server, slots, pc, cur, locals, active, openFds, clock, age>>

-----------------------------------------------------------------------------
StampAccept(s) == lastActive' = [lastActive EXCEPT ![s] = clock]

(* The pool after the last free slot was given away: the listening socket  *)
(* is no longer watched.                                                   *)
PoolKeepsListener(pool, left) == pool
PoolAfterAccept(pool, left) == IF left = 0 THEN pool \ {Sock} ELSE pool

RaiseMaxSock(f) == IF f > maxSock THEN f ELSE maxSock

(* _HTTPServerAccept: the first free slot takes the connection; were there *)
(* none, the descriptor would stay open and watched with no slot.          *)
_HTTPServerAccept(f) ==
    /\ openFds' = openFds \cup {f}
    /\ maxSock' = RaiseMaxSock(f)
    /\ IF FreeSlots # {}
         THEN \E s \in FreeSlots :
                /\ \A t \in FreeSlots : s <= t
                /\ available' = available - 1
                /\ readPool' =
                     PoolAfterAccept(readPool \cup {f}, available - 1)
                /\ clisock' = [clisock EXCEPT ![s] = f]
                /\ workState' = [workState EXCEPT ![s] = "READING"]
                /\ StampAccept(s)
                /\ age' = [age EXCEPT ![s] = 0]
         ELSE /\ readPool' = readPool \cup {f}
              /\ UNCHANGED <<available, slots, age>>

MayAccept == Sock \in readable /\ available > 0

EnterSlots == pc' = "read" /\ cur' = 1

Accept ==
    /\ pc = "accept" /\ MayAccept
    /\ \E f \in Fds \ openFds : _HTTPServerAccept(f)
    /\ EnterSlots
    /\ UNCHANGED <<writePool, locals, active, timing>>

(* accept() fails, or there is nothing to accept. *)
NoAccept ==
    /\ pc = "accept"
    /\ EnterSlots
    /\ UNCHANGED <<server, slots, locals, active, openFds, timing, age>>

-----------------------------------------------------------------------------
(* A loop that may accept once more before it selects again. *)
NextSlotOrAccept ==
    /\ active' = FALSE
    /\ IF cur < MaxClient
         THEN pc' = "read" /\ cur' = cur + 1 /\ elapsed' = elapsed
              /\ UNCHANGED locals
         ELSE /\ cur' = 1
              /\ \/ pc' = "accept" /\ UNCHANGED <<elapsed, locals>>
                 \/ /\ pc' = "select" /\ elapsed' = 0
                    /\ readable' = {} /\ writeable' = {} /\ now' = 0

(* for (i = 0; ...): on to the next slot, or back to select(), where the   *)
(* locals of the round are gone.                                           *)
NextSlot ==
    /\ active' = FALSE
    /\ IF cur < MaxClient
         THEN pc' = "read" /\ cur' = cur + 1 /\ elapsed' = elapsed
              /\ UNCHANGED locals
         ELSE /\ pc' = "select" /\ cur' = 1 /\ elapsed' = 0
              /\ readable' = {} /\ writeable' = {} /\ now' = 0

SkipFreeSlot ==
    /\ pc = "read" /\ clisock[cur] = NoSock
    /\ NextSlot
    /\ UNCHANGED <<server, slots, openFds, clock, intr, age>>

(* last_active_ms = now; active = 1.  Real time has moved on since `now`.  *)
MarkActive(s) ==
    /\ active' = TRUE
    /\ lastActive' = [lastActive EXCEPT ![s] = now]
    /\ age' = [age EXCEPT ![s] = elapsed]

(* A socket that has become WRITING moves from the read to the write pool. *)
MoveIfWriting(f, st) ==
    IF st = "WRITING"
      THEN writePool' = writePool \cup {f} /\ readPool' = readPool \ {f}
      ELSE UNCHANGED <<readPool, writePool>>

(* The readable part of a visit.  ReadSock > 0 hands the bytes to          *)
(* ProcessClientData, which asks for more (READING), has a response to     *)
(* write (WRITING), or gives up (CLOSE); ReadSock <= 0 closes.             *)
ReadSlot ==
    /\ pc = "read" /\ clisock[cur] \in readable
    /\ \E st \in {"READING", "WRITING", "CLOSE"} :
         /\ workState' = [workState EXCEPT ![cur] = st]
         /\ MoveIfWriting(clisock[cur], st)
    /\ MarkActive(cur)
    /\ pc' = "write"
    /\ UNCHANGED <<maxSock, available, clisock, cur, locals, openFds, timing>>

(* A stamp that is renewed by every visit. *)
ReadNothingStamps ==
    /\ pc = "read" /\ clisock[cur] # NoSock /\ clisock[cur] \notin readable
    /\ lastActive' = [lastActive EXCEPT ![cur] = now]
    /\ age' = [age EXCEPT ![cur] = elapsed]
    /\ pc' = "write"
    /\ UNCHANGED <<server, clisock, workState, cur, locals, active, openFds, timing>>

ReadNothing ==
    /\ pc = "read" /\ clisock[cur] # NoSock /\ clisock[cur] \notin readable
    /\ pc' = "write"
    /\ UNCHANGED <<server, slots, cur, locals, active, openFds, timing, age>>

MayWrite == workState[cur] = "WRITING" /\ clisock[cur] \in writeable

(* WriteSock: more to send (WRITING, also on EAGAIN), all sent (WRITEEND), *)
(* or an error (CLOSE).                                                    *)
WriteSlot ==
    /\ pc = "write" /\ MayWrite
    /\ \E st \in {"WRITING", "WRITEEND", "CLOSE"} :
         workState' = [workState EXCEPT ![cur] = st]
    /\ MarkActive(cur)
    /\ pc' = "end"
    /\ UNCHANGED <<server, clisock, cur, locals, openFds, timing>>

WriteNothing ==
    /\ pc = "write" /\ ~MayWrite
    /\ pc' = "end"
    /\ UNCHANGED <<server, slots, cur, locals, active, openFds, timing, age>>

-----------------------------------------------------------------------------
(* The idle reaper: no activity in this visit, and none for IdleTimeout. *)
IdleLate(s) == ~active /\ SignedDiff(now, lastActive[s]) > IdleTimeout
Idle(s) == ~active /\ SignedDiff(now, lastActive[s]) >= IdleTimeout

MustClose(s) == workState[s] \in {"WRITEEND", "CLOSE"} \/ Idle(s)

LowerMaxSock(f) == IF f >= maxSock THEN maxSock - 1 ELSE maxSock

(* The pools after a close: the descriptor leaves both, and the listening  *)
(* socket is watched again.                                                *)
LeavePoolsWriteOnly(f) ==
    writePool' = writePool \ {f} /\ readPool' = readPool \cup {Sock}
LeavePoolsNoListener(f) ==
    writePool' = writePool \ {f} /\ readPool' = readPool \ {f}
LeavePools(f) ==
    writePool' = writePool \ {f} /\ readPool' = (readPool \ {f}) \cup {Sock}

FreeSlotKeepsSocket(s) ==
    /\ clisock' = clisock
    /\ workState' = [workState EXCEPT ![s] = "NOTWORK"]
FreeSlotKeepsState(s) ==
    /\ clisock' = [clisock EXCEPT ![s] = NoSock]
    /\ workState' = workState
FreeSlot(s) ==
    /\ clisock' = [clisock EXCEPT ![s] = NoSock]
    /\ workState' = [workState EXCEPT ![s] = "NOTWORK"]

CloseSlot ==
    /\ pc = "end" /\ MustClose(cur)
    /\ openFds' = openFds \ {clisock[cur]}
    /\ LeavePools(clisock[cur])
    /\ maxSock' = LowerMaxSock(clisock[cur])
    /\ FreeSlot(cur)
    /\ available' = available + 1
    /\ age' = [age EXCEPT ![cur] = 0]
    /\ NextSlot
    /\ UNCHANGED <<lastActive, clock, intr>>

KeepSlot ==
    /\ pc = "end" /\ ~MustClose(cur)
    /\ NextSlot
    /\ UNCHANGED <<server, slots, openFds, clock, intr, age>>

-----------------------------------------------------------------------------
(* Time passes: in select() up to its timeout, in the rest of the round up *)
(* to RoundTime.                                                           *)
Tick ==
    /\ elapsed < IF pc = "select" THEN IdleTimeout ELSE RoundTime
    /\ clock' = (clock + 1) % ClockMod
    /\ elapsed' = elapsed + 1
    /\ age' = [s \in Slots |-> IF clisock[s] = NoSock THEN 0 ELSE age[s] + 1]
    /\ UNCHANGED <<server, slots, pc, cur, locals, active, openFds, intr>>

HTTPServerRun ==
    \/ Select
    \/ Accept \/ NoAccept
    \/ SkipFreeSlot
    \/ ReadSlot \/ ReadNothing
    \/ WriteSlot \/ WriteNothing
    \/ CloseSlot \/ KeepSlot

Next == HTTPServerRun \/ SelectInterrupted \/ Tick

Spec == Init /\ [][Next]_vars

(* The thread that runs the loop keeps running, and time keeps passing. *)
FairSpec == Spec /\ WF_vars(HTTPServerRun) /\ WF_vars(Tick)

-----------------------------------------------------------------------------
Types ==
    /\ maxSock \in Int /\ available \in 0..MaxClient
    /\ readPool \subseteq Fds \cup {Sock} /\ writePool \subseteq Fds
    /\ clisock \in [Slots -> Fds \cup {NoSock}]
    /\ workState \in [Slots -> WorkStates]
    /\ lastActive \in [Slots -> Nat]
    /\ pc \in {"select", "accept", "read", "write", "end"} /\ cur \in Slots
    /\ readable \subseteq Fds \cup {Sock} /\ writeable \subseteq Fds
    /\ now \in Nat /\ active \in BOOLEAN
    /\ openFds \subseteq Fds \cup {Sock}
    /\ clock \in Nat /\ elapsed \in Nat /\ intr \in 0..MaxIntr
    /\ age \in [Slots -> Nat]

(* Type correctness, with the work states a slot may have at each point:   *)
(* WRITEEND and CLOSE never outlive the visit that sets them, so that no   *)
(* connection to be closed waits in select() (server.c:227, 248-253, 279).  *)
TypeOK ==
    /\ Types
    /\ \A s \in Slots : workState[s] \in {"WRITEEND", "CLOSE"} =>
                          s = cur /\ pc \in {"write", "end"}

(* The counter accept is guarded by is the number of slots that are free,  *)
(* and the listening socket is watched exactly while there is one: the     *)
(* server neither accepts a connection it has no slot for nor stays locked *)
(* up after a slot was freed (server.c:203, 114-117, 280-282).             *)
SlotAccounting ==
    /\ available = Cardinality(FreeSlots)
    /\ Sock \in readPool <=> available > 0

(* Every open descriptor but the listener's belongs to one slot, and a     *)
(* slot's descriptor is open: none leaks, none is shared, and none is used *)
(* after close() (server.c:110-126, 265-266, 278).                         *)
OneSlotPerSocket ==
    /\ openFds = LiveFds \cup {Sock}
    /\ \A s, t \in LiveSlots : clisock[s] = clisock[t] => s = t

(* The master pools follow the work states: a READING connection is        *)
(* watched for reading only, a WRITING one for writing only, a closed one  *)
(* for nothing ("the server busy-spins", server.c:267-273), and select()   *)
(* is asked about all of them, for no descriptor exceeds _max_sock.        *)
PoolsFollowSlots ==
    /\ readPool \cup writePool \subseteq LiveFds \cup {Sock}
    /\ \A s \in LiveSlots :
         /\ workState[s] = "READING" =>
              clisock[s] \in readPool /\ clisock[s] \notin writePool
         /\ workState[s] = "WRITING" =>
              clisock[s] \notin readPool /\ clisock[s] \in writePool
         /\ clisock[s] <= maxSock
    /\ Sock <= maxSock

(* What select() reported is still about the same connection when its slot *)
(* is visited: one younger than the round is in no result set, though its  *)
(* descriptor may be a reused one, and no socket is in both sets, so that  *)
(* a visit reads or writes, never both (server.c:193-238).                 *)
SnapshotStillValid ==
    pc # "select" =>
      /\ \A s \in LiveSlots :
           age[s] < elapsed => clisock[s] \notin readable \cup writeable
      /\ readable \cap writeable = {}

(* The watched sets are a bounded pool of connections, as ConnectionPool    *)
(* describes it: the refinement that says what HTTPServerRun promises.     *)
Pool == INSTANCE ConnectionPool WITH
          Conns <- Fds, Capacity <- MaxClient,
          asking <- readPool \ {Sock}, answering <- writePool,
          accepting <- Sock \in readPool

ImplementsPool == Pool!Spec

(* A connection with a healthy socket is closed only after IdleTimeout     *)
(* without activity, measured in real time whatever the clock wrapped to,  *)
(* and never in the round that accepted it (server.c:239-249).             *)
NoEarlyReap ==
    [][\A s \in Slots :
         ( /\ clisock[s] # NoSock /\ clisock'[s] = NoSock
           /\ workState[s] \in {"READING", "WRITING"} )
         => age[s] - elapsed >= IdleTimeout]_vars

(* Nor is it left open much longer: between rounds a connection has been   *)
(* silent for less than IdleTimeout plus the length of a round, plus the   *)
(* select() calls since (server.c:184, 246; server.h:29-33).               *)
ReapedInTime ==
    pc = "select" =>
      \A s \in LiveSlots :
        age[s] < IdleTimeout + RoundTime + intr * IdleTimeout + elapsed

(* "a few opened-but-silent connections cannot occupy client slots         *)
(* forever, even while other connections stay busy" (server.h:29-33).      *)
SilentConnectionReaped ==
    \A s \in Slots :
      clisock[s] # NoSock ~>
        (clisock[s] = NoSock \/ (pc = "end" /\ cur = s /\ active))

=============================================================================
