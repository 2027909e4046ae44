-------------------------- MODULE HttpServerProofs --------------------------
(***************************************************************************)
(* Theorems about the event loop, for any number of slots, any descriptors *)
(* and any clock.  The three invariants about slots, pools and descriptors *)
(* are inductive only together, and only with what a round knows about the *)
(* slots it has not visited yet: RoundInv.  The last part is about time:   *)
(* the idle reaper, which reads a clock that wraps.                        *)
(***************************************************************************)
EXTENDS HttpServer, FiniteSetTheorems, TLAPS

(* Every live slot's descriptor is in exactly one pool, also when its work *)
(* state is about to close it.                                             *)
InOnePool ==
    \A s \in LiveSlots :
      /\ clisock[s] \in readPool \cup writePool
      /\ clisock[s] \notin readPool \cap writePool

(* What holds of the slots and pools at every step. *)
SlotInv ==
    /\ SlotAccounting /\ OneSlotPerSocket /\ PoolsFollowSlots /\ InOnePool
    /\ \A s \in Slots : clisock[s] = NoSock <=> workState[s] = "NOTWORK"

(* The slots the current round has still to visit. *)
Unvisited(s) ==
    \/ pc = "accept"
    \/ pc = "read" /\ s >= cur
    \/ pc \in {"write", "end"} /\ s > cur

(* What the round knows: only the slot under visit may be about to close,  *)
(* and it is live; a socket reported readable is READING until visited;    *)
(* before accept() all reported sockets are open.                          *)
RoundInv ==
    /\ \A s \in Slots : workState[s] \in {"WRITEEND", "CLOSE"} =>
                          s = cur /\ pc \in {"write", "end"}
    /\ pc \in {"write", "end"} => clisock[cur] # NoSock
    /\ \A s \in LiveSlots :
         Unvisited(s) /\ clisock[s] \in readable => workState[s] = "READING"
    /\ pc = "accept" => readable \cup writeable \subseteq openFds

IInv == Types /\ SlotInv /\ RoundInv /\ SnapshotStillValid

-----------------------------------------------------------------------------
(* Counting free slots. *)
LEMMA SlotsFinite ==
    /\ IsFiniteSet(Slots) /\ Cardinality(Slots) = MaxClient
    /\ IsFiniteSet(FreeSlots)
    /\ Cardinality(FreeSlots) \in 0..MaxClient
    /\ Cardinality(FreeSlots) = 0 <=> FreeSlots = {}
<1>1. IsFiniteSet(Slots) /\ Cardinality(Slots) = MaxClient
  BY SlotAssumption, FS_Interval DEF Slots
<1>2. FreeSlots \in SUBSET Slots
  BY DEF FreeSlots
<1>3. /\ IsFiniteSet(FreeSlots)
      /\ Cardinality(FreeSlots) <= Cardinality(Slots)
  BY <1>1, <1>2, FS_Subset
<1>4. Cardinality(FreeSlots) \in Nat
  BY <1>3, FS_CardinalityType
<1>5. Cardinality(FreeSlots) = 0 <=> FreeSlots = {}
  BY <1>3, FS_EmptySet
<1>6. Cardinality(FreeSlots) \in 0..MaxClient
  BY <1>1, <1>3, <1>4, SlotAssumption
<1> QED
  BY <1>1, <1>3, <1>5, <1>6

(* A step that touches no slot, pool or descriptor keeps what is said of   *)
(* them.                                                                   *)
LEMMA SlotsUntouched ==
    ASSUME SlotInv, UNCHANGED <<server, clisock, workState, openFds>>
    PROVE  SlotInv'
BY DEF SlotInv, SlotAccounting, OneSlotPerSocket, PoolsFollowSlots, InOnePool,
       FreeSlots, LiveSlots, LiveFds, server

LEMMA InitIInv == Init => IInv
<1> SUFFICES ASSUME Init PROVE IInv
  OBVIOUS
<1>1. FreeSlots = Slots
  BY DEF Init, FreeSlots, NoSock
<1>2. LiveSlots = {} /\ LiveFds = {}
  BY <1>1 DEF LiveSlots, LiveFds
<1>3. Types
  <2>1. active \in BOOLEAN
    BY DEF Init
  <2>2. 1 \in Slots /\ 0 \in 0..MaxIntr /\ MaxClient \in 0..MaxClient
    BY SlotAssumption, TimeAssumption DEF Slots
  <2>3. /\ clisock \in [Slots -> Fds \cup {NoSock}]
        /\ workState \in [Slots -> WorkStates]
        /\ lastActive \in [Slots -> Nat] /\ age \in [Slots -> Nat]
    BY DEF Init, WorkStates, NoSock
  <2>4. /\ maxSock \in Int /\ cur \in Slots /\ available \in 0..MaxClient
        /\ now \in Nat /\ clock \in Nat /\ elapsed \in Nat /\ intr \in 0..MaxIntr
    BY <2>2, FdAssumption DEF Init
  <2>5. /\ readPool \subseteq Fds \cup {Sock} /\ writePool \subseteq Fds
        /\ readable \subseteq Fds \cup {Sock} /\ writeable \subseteq Fds
        /\ openFds \subseteq Fds \cup {Sock}
        /\ pc \in {"select", "accept", "read", "write", "end"}
    BY DEF Init
  <2> QED
    BY <2>1, <2>3, <2>4, <2>5 DEF Types
<1>4. SlotAccounting
  BY <1>1, SlotsFinite, SlotAssumption DEF Init, SlotAccounting
<1>5. OneSlotPerSocket /\ PoolsFollowSlots /\ InOnePool
  BY <1>2, FdAssumption
     DEF Init, OneSlotPerSocket, PoolsFollowSlots, InOnePool
<1>6. SlotInv
  BY <1>4, <1>5 DEF Init, SlotInv, NoSock
<1>7. RoundInv /\ SnapshotStillValid
  BY <1>2 DEF Init, RoundInv, SnapshotStillValid
<1> QED
  BY <1>3, <1>6, <1>7 DEF IInv

LEMMA SelectIInv == IInv /\ Select => IInv'
<1> SUFFICES ASSUME IInv, Select PROVE IInv'
  OBVIOUS
<1> USE DEF IInv
<1>1. Types'
  BY TimeAssumption DEF Select, Types, Watched, server, slots
<1>2. SlotInv'
  BY SlotsUntouched DEF Select, server, slots
<1>3. readable' \subseteq readPool /\ writeable' \subseteq writePool
  BY DEF Select, Watched
<1>4. readPool \cup writePool \subseteq openFds
  BY DEF SlotInv, OneSlotPerSocket, PoolsFollowSlots
<1>5. LiveSlots' = LiveSlots
  BY DEF Select, slots, LiveSlots, FreeSlots
<1>6. \A s \in LiveSlots : clisock[s] \in readPool => workState[s] = "READING"
  <2> SUFFICES ASSUME NEW s \in LiveSlots, clisock[s] \in readPool
               PROVE  workState[s] = "READING"
    OBVIOUS
  <2>1. s \in Slots /\ workState[s] \in WorkStates /\ workState[s] # "NOTWORK"
    BY DEF LiveSlots, FreeSlots, Types, SlotInv
  <2>2. workState[s] # "WRITING"
    BY DEF SlotInv, PoolsFollowSlots
  <2>3. workState[s] \notin {"WRITEEND", "CLOSE"}
    BY <2>1 DEF RoundInv, Select
  <2> QED
    BY <2>1, <2>2, <2>3 DEF WorkStates
<1>7. RoundInv'
  BY <1>3, <1>4, <1>5, <1>6 DEF RoundInv, Select, slots
<1>8. readPool \cap writePool = {}
  <2> SUFFICES ASSUME NEW f \in readPool, f \in writePool PROVE FALSE
    OBVIOUS
  <2>1. f \in LiveFds
    BY FdAssumption DEF Types, SlotInv, PoolsFollowSlots
  <2> QED
    BY <2>1 DEF LiveFds, SlotInv, InOnePool
<1>9. SnapshotStillValid'
  BY <1>3, <1>5, <1>8
     DEF SnapshotStillValid, Select, Types, slots, LiveSlots, Slots
<1> QED
  BY <1>1, <1>2, <1>7, <1>9

LEMMA SelectInterruptedIInv == IInv /\ SelectInterrupted => IInv'
<1> SUFFICES ASSUME IInv, SelectInterrupted PROVE IInv'
  OBVIOUS
<1> USE DEF IInv
<1>1. Types'
  BY TimeAssumption DEF SelectInterrupted, Types, server, slots, locals
<1>2. SlotInv'
  BY SlotsUntouched DEF SelectInterrupted, server, slots
<1>3. RoundInv' /\ SnapshotStillValid'
  BY DEF SelectInterrupted, RoundInv, SnapshotStillValid, Unvisited,
         LiveSlots, FreeSlots, slots, locals, server
<1> QED
  BY <1>1, <1>2, <1>3

LEMMA NoAcceptIInv == IInv /\ NoAccept => IInv'
<1> SUFFICES ASSUME IInv, NoAccept PROVE IInv'
  OBVIOUS
<1> USE DEF IInv
<1>1. 1 \in Slots
  BY SlotAssumption DEF Slots
<1>2. Types'
  BY <1>1 DEF NoAccept, EnterSlots, Types, server, slots, locals, timing
<1>3. SlotInv'
  BY SlotsUntouched DEF NoAccept, server, slots
<1>4. UNCHANGED <<clisock, workState, readable, writeable, age, elapsed>>
  BY DEF NoAccept, slots, locals, timing
<1>5. RoundInv' /\ SnapshotStillValid'
  BY <1>4 DEF NoAccept, EnterSlots, RoundInv, SnapshotStillValid, Unvisited,
              LiveSlots, FreeSlots
<1> QED
  BY <1>2, <1>3, <1>5

LEMMA TickIInv == IInv /\ Tick => IInv'
<1> SUFFICES ASSUME IInv, Tick PROVE IInv'
  OBVIOUS
<1> USE DEF IInv
<1>1. UNCHANGED <<clisock, workState, pc, cur, readable, writeable, openFds>>
  BY DEF Tick, slots, locals
<1>2. (clock + 1) % ClockMod \in Nat
  BY TimeAssumption DEF Types
<1>3. /\ elapsed' = elapsed + 1
      /\ age' \in [Slots -> Nat]
      /\ \A s \in LiveSlots : age'[s] = age[s] + 1
  BY DEF Tick, Types, LiveSlots, FreeSlots
<1>4. Types'
  BY <1>1, <1>2, <1>3 DEF Tick, Types, server, slots, locals
<1>5. SlotInv'
  BY SlotsUntouched DEF Tick, server, slots
<1>6. RoundInv'
  BY <1>1 DEF RoundInv, Unvisited, LiveSlots, FreeSlots
<1>7. SnapshotStillValid'
  <2> SUFFICES ASSUME pc # "select"
               PROVE  /\ \A s \in LiveSlots : age'[s] < elapsed' =>
                            clisock[s] \notin readable \cup writeable
                      /\ readable \cap writeable = {}
    BY <1>1 DEF SnapshotStillValid, LiveSlots, FreeSlots
  <2>1. \A s \in LiveSlots :
          age[s] \in Nat /\ (age'[s] < elapsed' => age[s] < elapsed)
    BY <1>3 DEF Types, LiveSlots
  <2> QED
    BY <2>1 DEF SnapshotStillValid
<1> QED
  BY <1>4, <1>5, <1>6, <1>7

LEMMA ReadNothingIInv == IInv /\ ReadNothing => IInv'
<1> SUFFICES ASSUME IInv, ReadNothing PROVE IInv'
  OBVIOUS
<1> USE DEF IInv
<1>1. Types'
  BY DEF ReadNothing, Types, server, slots, locals, timing
<1>2. SlotInv'
  BY SlotsUntouched DEF ReadNothing, server, slots
<1>3. UNCHANGED <<clisock, workState, cur, readable, writeable, age, elapsed>>
  BY DEF ReadNothing, slots, locals, timing
<1>4. RoundInv' /\ SnapshotStillValid'
  BY <1>3 DEF ReadNothing, RoundInv, SnapshotStillValid, Unvisited, Types,
              LiveSlots, FreeSlots, Slots
<1> QED
  BY <1>1, <1>2, <1>4

LEMMA WriteNothingIInv == IInv /\ WriteNothing => IInv'
<1> SUFFICES ASSUME IInv, WriteNothing PROVE IInv'
  OBVIOUS
<1> USE DEF IInv
<1>1. Types'
  BY DEF WriteNothing, Types, server, slots, locals, timing
<1>2. SlotInv'
  BY SlotsUntouched DEF WriteNothing, server, slots
<1>3. UNCHANGED <<clisock, workState, cur, readable, writeable, age, elapsed>>
  BY DEF WriteNothing, slots, locals, timing
<1>4. RoundInv' /\ SnapshotStillValid'
  BY <1>3 DEF WriteNothing, RoundInv, SnapshotStillValid, Unvisited,
              LiveSlots, FreeSlots
<1> QED
  BY <1>1, <1>2, <1>4

(* Going on to the next slot: no slot becomes unvisited, and the one just  *)
(* visited no longer is.                                                   *)
LEMMA NextSlotAdvances ==
    ASSUME Types, NextSlot, pc \in {"read", "end"}
    PROVE  /\ pc' \in {"read", "select"} /\ cur' \in Slots
           /\ pc' = "read" => UNCHANGED <<elapsed, locals>>
           /\ \A s \in Slots : Unvisited(s)' => Unvisited(s) /\ s # cur
<1>1. cur \in Nat /\ cur >= 1 /\ cur <= MaxClient /\ MaxClient \in Nat
  BY SlotAssumption DEF Types, Slots
<1>2. CASE cur < MaxClient
  BY <1>1, <1>2 DEF NextSlot, Unvisited, Slots
<1>3. CASE ~(cur < MaxClient)
  BY <1>1, <1>3 DEF NextSlot, Unvisited, Slots
<1> QED
  BY <1>2, <1>3

LEMMA NextSlotTypes ==
    ASSUME Types, NextSlot, pc \in {"read", "end"}
    PROVE  /\ readable' \subseteq Fds \cup {Sock} /\ writeable' \subseteq Fds
           /\ now' \in Nat /\ elapsed' \in Nat
           /\ active' \in BOOLEAN
<1>1. active' \in BOOLEAN
  BY DEF NextSlot
<1> QED
  BY <1>1 DEF NextSlot, Types, locals

(* A visit that ends with its slot as it was found. *)
LEMMA QuietVisitIInv ==
    ASSUME IInv, NextSlot, pc \in {"read", "end"},
           workState[cur] \notin {"WRITEEND", "CLOSE"},
           UNCHANGED <<server, slots, openFds, clock, intr, age>>
    PROVE  IInv'
<1> USE DEF IInv
<1>1. Types'
  BY NextSlotAdvances, NextSlotTypes DEF Types, server, slots
<1>2. SlotInv'
  BY SlotsUntouched DEF slots
<1>3. UNCHANGED <<clisock, workState>> /\ LiveSlots' = LiveSlots
  BY DEF slots, LiveSlots, FreeSlots
<1>4. RoundInv'
  <2>1. \A s \in Slots : workState[s] \notin {"WRITEEND", "CLOSE"}
    BY DEF RoundInv
  <2>2. \A s \in LiveSlots :
          (Unvisited(s) /\ clisock[s] \in readable)' => workState[s] = "READING"
    <3> SUFFICES ASSUME NEW s \in LiveSlots, Unvisited(s)', clisock[s] \in readable'
                 PROVE  workState[s] = "READING"
      BY <1>3
    <3>1. Unvisited(s) /\ pc' = "read"
      BY NextSlotAdvances DEF LiveSlots, Unvisited
    <3>2. readable' = readable
      BY <3>1, NextSlotAdvances DEF locals
    <3> QED
      BY <3>1, <3>2 DEF RoundInv
  <2> QED
    BY <1>3, <2>1, <2>2, NextSlotAdvances DEF RoundInv
<1>5. SnapshotStillValid'
  <2>1. CASE pc' = "read"
    BY <1>3, <2>1, NextSlotAdvances DEF SnapshotStillValid, locals
  <2>2. CASE pc' = "select"
    BY <2>2 DEF SnapshotStillValid
  <2> QED
    BY <2>1, <2>2, NextSlotAdvances
<1> QED
  BY <1>1, <1>2, <1>4, <1>5

LEMMA SkipFreeSlotIInv == IInv /\ SkipFreeSlot => IInv'
<1> SUFFICES ASSUME IInv, SkipFreeSlot PROVE IInv'
  OBVIOUS
<1>1. workState[cur] = "NOTWORK"
  BY DEF IInv, SlotInv, Types, SkipFreeSlot
<1> QED
  BY <1>1, QuietVisitIInv DEF SkipFreeSlot

LEMMA KeepSlotIInv == IInv /\ KeepSlot => IInv'
BY QuietVisitIInv DEF KeepSlot, MustClose

-----------------------------------------------------------------------------
(* accept() with a slot to give: what it does to slots and descriptors. *)
LEMMA AcceptEffect ==
    ASSUME IInv, Accept
    PROVE  \E f \in Fds \ openFds, s \in FreeSlots :
             /\ openFds' = openFds \cup {f}
             /\ maxSock' = IF f > maxSock THEN f ELSE maxSock
             /\ available' = available - 1
             /\ readPool' = IF available' = 0 THEN (readPool \cup {f}) \ {Sock}
                                            ELSE readPool \cup {f}
             /\ clisock' = [clisock EXCEPT ![s] = f]
             /\ workState' = [workState EXCEPT ![s] = "READING"]
             /\ lastActive' = [lastActive EXCEPT ![s] = clock]
             /\ age' = [age EXCEPT ![s] = 0]
<1>1. FreeSlots # {}
  BY SlotsFinite DEF Accept, MayAccept, IInv, SlotInv, SlotAccounting
<1>2. PICK f \in Fds \ openFds : _HTTPServerAccept(f)
  BY DEF Accept
<1>3. PICK s \in FreeSlots :
        /\ available' = available - 1
        /\ readPool' = PoolAfterAccept(readPool \cup {f}, available - 1)
        /\ clisock' = [clisock EXCEPT ![s] = f]
        /\ workState' = [workState EXCEPT ![s] = "READING"]
        /\ StampAccept(s)
        /\ age' = [age EXCEPT ![s] = 0]
  BY <1>1, <1>2 DEF _HTTPServerAccept
<1> QED
  BY <1>2, <1>3
     DEF _HTTPServerAccept, PoolAfterAccept, RaiseMaxSock, StampAccept

LEMMA AcceptIInv == IInv /\ Accept => IInv'
<1> SUFFICES ASSUME IInv, Accept PROVE IInv'
  OBVIOUS
<1> USE DEF IInv
<1>1. PICK f \in Fds \ openFds, s \in FreeSlots :
             /\ openFds' = openFds \cup {f}
             /\ maxSock' = IF f > maxSock THEN f ELSE maxSock
             /\ available' = available - 1
             /\ readPool' = IF available' = 0 THEN (readPool \cup {f}) \ {Sock}
                                            ELSE readPool \cup {f}
             /\ clisock' = [clisock EXCEPT ![s] = f]
             /\ workState' = [workState EXCEPT ![s] = "READING"]
             /\ lastActive' = [lastActive EXCEPT ![s] = clock]
             /\ age' = [age EXCEPT ![s] = 0]
  BY AcceptEffect
<1>2. /\ UNCHANGED <<writePool, readable, writeable, now, active, clock,
                     elapsed, intr>>
      /\ pc = "accept" /\ pc' = "read" /\ cur' = 1
      /\ Sock \in readable /\ available > 0
  BY DEF Accept, EnterSlots, MayAccept, locals, timing
<1>3. /\ s \in Slots /\ clisock[s] = NoSock
      /\ f \in Nat /\ f # NoSock /\ f # Sock /\ f \notin LiveFds
  BY FdAssumption DEF FreeSlots, NoSock, SlotInv, OneSlotPerSocket
<1>4. /\ clisock'[s] = f /\ workState'[s] = "READING" /\ age'[s] = 0
      /\ \A t \in Slots \ {s} : /\ clisock'[t] = clisock[t]
                                /\ workState'[t] = workState[t]
                                /\ age'[t] = age[t]
  BY <1>1, <1>3 DEF Types
<1>5. /\ FreeSlots' = FreeSlots \ {s} /\ LiveSlots' = LiveSlots \cup {s}
      /\ LiveFds' = LiveFds \cup {f}
  BY <1>3, <1>4 DEF FreeSlots, LiveSlots, LiveFds
<1>6. Cardinality(FreeSlots') = Cardinality(FreeSlots) - 1
  BY <1>1, <1>5, SlotsFinite, FS_RemoveElement
<1>7. available = Cardinality(FreeSlots) /\ Sock \in readPool
  BY <1>2 DEF SlotInv, SlotAccounting
<1>8. Types'
  <2>1. available' \in 0..MaxClient
    BY <1>1, <1>2, SlotAssumption DEF Types
  <2>2. 1 \in Slots /\ maxSock' \in Int
    BY <1>1, <1>3, SlotAssumption DEF Slots, Types
  <2>3. /\ clisock' \in [Slots -> Fds \cup {NoSock}]
        /\ workState' \in [Slots -> WorkStates]
        /\ lastActive' \in [Slots -> Nat] /\ age' \in [Slots -> Nat]
    BY <1>1, <1>3 DEF Types, WorkStates
  <2>4. /\ readPool' \subseteq Fds \cup {Sock}
        /\ openFds' \subseteq Fds \cup {Sock}
    BY <1>1 DEF Types
  <2> QED
    BY <1>2, <2>1, <2>2, <2>3, <2>4 DEF Types
<1>9. SlotInv'
  <2>1. SlotAccounting'
    BY <1>1, <1>2, <1>3, <1>6, <1>7 DEF SlotAccounting, Types
  <2>2. OneSlotPerSocket'
    <3>1. openFds' = LiveFds' \cup {Sock}
      BY <1>1, <1>5 DEF SlotInv, OneSlotPerSocket
    <3>2. ASSUME NEW t \in LiveSlots', NEW u \in LiveSlots',
                 clisock'[t] = clisock'[u]
          PROVE  t = u
      BY <1>3, <1>4, <1>5, <3>2
         DEF SlotInv, OneSlotPerSocket, LiveFds, LiveSlots
    <3> QED
      BY <3>1, <3>2 DEF OneSlotPerSocket
  <2>3. f \in readPool' /\ f \notin writePool
    BY <1>1, <1>3 DEF SlotInv, PoolsFollowSlots
  <2>4. \A g \in Fds : g # f => (g \in readPool' <=> g \in readPool)
    BY <1>1, FdAssumption
  <2>5. \A t \in LiveSlots : clisock[t] # f /\ clisock[t] \in Fds /\ t # s
    BY <1>3 DEF LiveFds, LiveSlots, FreeSlots, Types
  <2>6. maxSock' >= maxSock /\ maxSock' >= f /\ maxSock \in Int /\ maxSock' \in Int
    BY <1>1, <1>3 DEF Types
  <2>7. PoolsFollowSlots'
    <3>1. (readPool \cup writePool)' \subseteq LiveFds' \cup {Sock}
      BY <1>1, <1>2, <1>5 DEF SlotInv, PoolsFollowSlots
    <3>2. ASSUME NEW t \in LiveSlots
          PROVE  /\ workState'[t] = "READING" =>
                      clisock'[t] \in readPool' /\ clisock'[t] \notin writePool'
                 /\ workState'[t] = "WRITING" =>
                      clisock'[t] \notin readPool' /\ clisock'[t] \in writePool'
                 /\ clisock'[t] <= maxSock'
      <4>1. /\ clisock'[t] = clisock[t] /\ workState'[t] = workState[t]
            /\ clisock[t] \in Nat
        BY <1>4, <2>5, FdAssumption DEF LiveSlots
      <4>2. clisock[t] <= maxSock
        BY DEF SlotInv, PoolsFollowSlots
      <4>3. clisock'[t] <= maxSock'
        BY <2>6, <4>1, <4>2
      <4> QED
        BY <1>2, <2>4, <2>5, <4>1, <4>3 DEF SlotInv, PoolsFollowSlots
    <3>3. /\ clisock'[s] \in readPool' /\ clisock'[s] \notin writePool'
          /\ workState'[s] # "WRITING" /\ clisock'[s] <= maxSock'
      BY <1>2, <1>4, <2>3, <2>6
    <3>4. Sock <= maxSock'
      BY <2>6, FdAssumption DEF SlotInv, PoolsFollowSlots
    <3> QED
      BY <1>5, <3>1, <3>2, <3>3, <3>4 DEF PoolsFollowSlots
  <2>8. InOnePool'
    BY <1>2, <1>3, <1>4, <1>5, <2>3, <2>4, <2>5
       DEF SlotInv, InOnePool, LiveSlots
  <2>9. \A t \in Slots : clisock'[t] = NoSock <=> workState'[t] = "NOTWORK"
    BY <1>3, <1>4 DEF SlotInv
  <2> QED
    BY <2>1, <2>2, <2>7, <2>8, <2>9 DEF SlotInv
<1>10. f \notin readable \cup writeable
  BY <1>2 DEF RoundInv
<1>11. RoundInv'
  <2>1. \A t \in Slots : workState'[t] \notin {"WRITEEND", "CLOSE"}
    BY <1>2, <1>3, <1>4 DEF RoundInv
  <2>2. \A t \in LiveSlots' : clisock'[t] \in readable => workState'[t] = "READING"
    BY <1>2, <1>3, <1>4, <1>5, <1>10 DEF RoundInv, Unvisited, LiveSlots
  <2> QED
    BY <1>2, <2>1, <2>2 DEF RoundInv
<1>12. SnapshotStillValid'
  BY <1>2, <1>3, <1>4, <1>5, <1>10 DEF SnapshotStillValid, LiveSlots
<1> QED
  BY <1>8, <1>9, <1>11, <1>12

-----------------------------------------------------------------------------
(* A visit's activity stamp, and that it leaves the snapshot valid. *)
LEMMA MarkActiveKeeps ==
    ASSUME IInv, MarkActive(cur), UNCHANGED <<clisock, readable, writeable, elapsed>>
    PROVE  /\ lastActive' \in [Slots -> Nat] /\ age' \in [Slots -> Nat]
           /\ active' \in BOOLEAN
           /\ pc # "select" => SnapshotStillValid'
<1> USE DEF IInv
<1>1. active' \in BOOLEAN
  BY DEF MarkActive
<1>2. lastActive' \in [Slots -> Nat] /\ age' \in [Slots -> Nat]
  BY DEF MarkActive, Types
<1>3. \A s \in Slots : age'[s] = IF s = cur THEN elapsed ELSE age[s]
  BY DEF MarkActive, Types
<1>4. ~(elapsed < elapsed)
  BY DEF Types
<1>5. pc # "select" => SnapshotStillValid'
  BY <1>3, <1>4 DEF SnapshotStillValid, LiveSlots, FreeSlots
<1> QED
  BY <1>1, <1>2, <1>5

LEMMA ReadSlotIInv == IInv /\ ReadSlot => IInv'
<1> SUFFICES ASSUME IInv, ReadSlot PROVE IInv'
  OBVIOUS
<1> USE DEF IInv
<1>1. PICK st \in {"READING", "WRITING", "CLOSE"} :
        /\ workState' = [workState EXCEPT ![cur] = st]
        /\ MoveIfWriting(clisock[cur], st)
  BY DEF ReadSlot
<1>2. /\ UNCHANGED <<maxSock, available, clisock, cur, readable, writeable, now,
                     openFds, clock, elapsed, intr>>
      /\ pc = "read" /\ pc' = "write" /\ MarkActive(cur)
  BY DEF ReadSlot, locals, timing
<1>3. cur \in LiveSlots /\ clisock[cur] \in Fds /\ workState[cur] = "READING"
  <2>1. clisock[cur] # NoSock
    BY FdAssumption DEF ReadSlot, Types, NoSock
  <2>2. cur \in LiveSlots /\ clisock[cur] \in Fds
    BY <2>1 DEF LiveSlots, FreeSlots, Types
  <2>3. Unvisited(cur)
    BY <1>2 DEF Unvisited, Types, Slots
  <2> QED
    BY <2>2, <2>3 DEF RoundInv, ReadSlot
<1>4. /\ LiveSlots' = LiveSlots /\ FreeSlots' = FreeSlots /\ LiveFds' = LiveFds
      /\ workState'[cur] = st
      /\ \A s \in Slots \ {cur} : workState'[s] = workState[s]
      /\ \A s \in LiveSlots \ {cur} : clisock[s] # clisock[cur]
  BY <1>1, <1>2, <1>3
     DEF LiveSlots, FreeSlots, LiveFds, Types, SlotInv, OneSlotPerSocket
<1>5. clisock[cur] \in readPool /\ clisock[cur] \notin writePool /\ clisock[cur] # Sock
  BY <1>3, FdAssumption DEF SlotInv, PoolsFollowSlots
<1>6. Types'
  <2>1. workState' \in [Slots -> WorkStates]
    BY <1>1 DEF Types, WorkStates
  <2>2. readPool' \subseteq Fds \cup {Sock} /\ writePool' \subseteq Fds
    BY <1>1, <1>3 DEF MoveIfWriting, Types
  <2> QED
    BY <1>2, <2>1, <2>2, MarkActiveKeeps DEF Types
<1>7. SlotInv'
  <2>1. SlotAccounting' /\ OneSlotPerSocket'
    BY <1>1, <1>2, <1>4, <1>5
       DEF SlotInv, SlotAccounting, OneSlotPerSocket, MoveIfWriting
  <2>2. (readPool \cup writePool)' \subseteq LiveFds' \cup {Sock}
    BY <1>1, <1>4, <1>5 DEF SlotInv, PoolsFollowSlots, MoveIfWriting
  <2>3. ASSUME NEW s \in LiveSlots
        PROVE  /\ workState'[s] = "READING" =>
                    clisock[s] \in readPool' /\ clisock[s] \notin writePool'
               /\ workState'[s] = "WRITING" =>
                    clisock[s] \notin readPool' /\ clisock[s] \in writePool'
               /\ clisock[s] \in readPool' \cup writePool'
               /\ clisock[s] \notin readPool' \cap writePool'
    <3>1. CASE s = cur
      BY <1>1, <1>4, <1>5, <3>1 DEF MoveIfWriting
    <3>2. CASE s # cur
      <4>1. workState'[s] = workState[s] /\ clisock[s] # clisock[cur]
        BY <1>4, <3>2 DEF LiveSlots
      <4>2. /\ clisock[s] \in readPool' <=> clisock[s] \in readPool
            /\ clisock[s] \in writePool' <=> clisock[s] \in writePool
        BY <1>1, <4>1 DEF MoveIfWriting
      <4> QED
        BY <4>1, <4>2 DEF SlotInv, PoolsFollowSlots, InOnePool
    <3> QED
      BY <3>1, <3>2
  <2>4. PoolsFollowSlots' /\ InOnePool'
    BY <1>2, <1>4, <2>2, <2>3 DEF SlotInv, PoolsFollowSlots, InOnePool
  <2>5. \A s \in Slots : clisock'[s] = NoSock <=> workState'[s] = "NOTWORK"
    BY <1>2, <1>3, <1>4, <1>1 DEF SlotInv, LiveSlots, FreeSlots
  <2> QED
    BY <2>1, <2>4, <2>5 DEF SlotInv
<1>8. RoundInv'
  <2>1. \A s \in Slots : workState'[s] \in {"WRITEEND", "CLOSE"} => s = cur
    BY <1>2, <1>4 DEF RoundInv
  <2>2. \A s \in LiveSlots :
          Unvisited(s)' => Unvisited(s) /\ s # cur
    BY <1>2 DEF Unvisited, Types, LiveSlots, Slots
  <2>3. \A s \in LiveSlots : Unvisited(s)' /\ clisock[s] \in readable
                               => workState'[s] = "READING"
    BY <1>4, <2>2 DEF RoundInv, LiveSlots
  <2>4. clisock[cur] # NoSock
    BY <1>3 DEF LiveSlots, FreeSlots
  <2> QED
    BY <1>2, <1>4, <2>1, <2>3, <2>4 DEF RoundInv
<1>9. SnapshotStillValid'
  BY <1>2, MarkActiveKeeps
<1> QED
  BY <1>6, <1>7, <1>8, <1>9

LEMMA WriteSlotIInv == IInv /\ WriteSlot => IInv'
<1> SUFFICES ASSUME IInv, WriteSlot PROVE IInv'
  OBVIOUS
<1> USE DEF IInv
<1>1. PICK st \in {"WRITING", "WRITEEND", "CLOSE"} :
        workState' = [workState EXCEPT ![cur] = st]
  BY DEF WriteSlot
<1>2. /\ UNCHANGED <<maxSock, readPool, writePool, available, clisock, cur,
                     readable, writeable, now, openFds, clock, elapsed, intr>>
      /\ pc = "write" /\ pc' = "end" /\ MarkActive(cur)
      /\ workState[cur] = "WRITING"
  BY DEF WriteSlot, MayWrite, server, locals, timing
<1>3. /\ LiveSlots' = LiveSlots /\ FreeSlots' = FreeSlots /\ LiveFds' = LiveFds
      /\ cur \in Slots /\ workState'[cur] = st
      /\ \A s \in Slots \ {cur} : workState'[s] = workState[s]
  BY <1>1, <1>2 DEF LiveSlots, FreeSlots, LiveFds, Types
<1>4. Types'
  <2>1. workState' \in [Slots -> WorkStates]
    BY <1>1 DEF Types, WorkStates
  <2> QED
    BY <1>2, <2>1, MarkActiveKeeps DEF Types
<1>5. SlotInv'
  <2>1. SlotAccounting' /\ OneSlotPerSocket'
    BY <1>2, <1>3 DEF SlotInv, SlotAccounting, OneSlotPerSocket
  <2>2. PoolsFollowSlots' /\ InOnePool'
    <3>1. \A s \in LiveSlots : workState'[s] \in {"READING", "WRITING"}
                               => workState[s] = workState'[s]
      BY <1>1, <1>2, <1>3 DEF LiveSlots
    <3> QED
      BY <1>2, <1>3, <3>1 DEF SlotInv, PoolsFollowSlots, InOnePool
  <2>3. \A s \in Slots : clisock'[s] = NoSock <=> workState'[s] = "NOTWORK"
    BY <1>1, <1>2, <1>3 DEF SlotInv
  <2> QED
    BY <2>1, <2>2, <2>3 DEF SlotInv
<1>6. RoundInv'
  <2>1. \A s \in Slots : workState'[s] \in {"WRITEEND", "CLOSE"} => s = cur
    BY <1>2, <1>3 DEF RoundInv
  <2>2. \A s \in LiveSlots : Unvisited(s)' => Unvisited(s) /\ s # cur
    BY <1>2 DEF Unvisited, Types, LiveSlots, Slots
  <2>3. \A s \in LiveSlots : Unvisited(s)' /\ clisock[s] \in readable
                               => workState'[s] = "READING"
    BY <1>3, <2>2 DEF RoundInv, LiveSlots
  <2> QED
    BY <1>2, <1>3, <2>1, <2>3 DEF RoundInv
<1>7. SnapshotStillValid'
  BY <1>2, MarkActiveKeeps
<1> QED
  BY <1>4, <1>5, <1>6, <1>7

LEMMA CloseSlotIInv == IInv /\ CloseSlot => IInv'
<1> SUFFICES ASSUME IInv, CloseSlot PROVE IInv'
  OBVIOUS
<1> USE DEF IInv
<1> DEFINE f == clisock[cur]
<1>1. /\ pc = "end" /\ cur \in Slots /\ f \in Fds /\ f # NoSock /\ f # Sock
      /\ cur \in LiveSlots
  BY FdAssumption
     DEF CloseSlot, RoundInv, Types, LiveSlots, FreeSlots
<1>2. /\ openFds' = openFds \ {f}
      /\ writePool' = writePool \ {f} /\ readPool' = (readPool \ {f}) \cup {Sock}
      /\ maxSock' = IF f >= maxSock THEN maxSock - 1 ELSE maxSock
      /\ clisock' = [clisock EXCEPT ![cur] = NoSock]
      /\ workState' = [workState EXCEPT ![cur] = "NOTWORK"]
      /\ available' = available + 1
      /\ age' = [age EXCEPT ![cur] = 0]
      /\ UNCHANGED <<lastActive, clock, intr>>
      /\ NextSlot
  BY DEF CloseSlot, LeavePools, LowerMaxSock, FreeSlot
<1>3. /\ clisock'[cur] = NoSock /\ workState'[cur] = "NOTWORK"
      /\ \A s \in Slots \ {cur} : /\ clisock'[s] = clisock[s]
                                  /\ workState'[s] = workState[s]
                                  /\ age'[s] = age[s]
  BY <1>1, <1>2 DEF Types
<1>4. FreeSlots' = FreeSlots \cup {cur} /\ LiveSlots' = LiveSlots \ {cur}
  BY <1>1, <1>3 DEF FreeSlots, LiveSlots
<1>5. \A s \in LiveSlots' : /\ s \in LiveSlots /\ s # cur /\ s \in Slots
                           /\ clisock[s] # f /\ clisock[s] \in Fds
                           /\ clisock'[s] = clisock[s]
                           /\ workState'[s] = workState[s]
                           /\ age'[s] = age[s]
  BY <1>1, <1>3, <1>4
     DEF SlotInv, OneSlotPerSocket, LiveSlots, FreeSlots, Types
<1>6. LiveFds' = LiveFds \ {f}
  BY <1>1, <1>4, <1>5 DEF LiveFds
<1>7. Cardinality(FreeSlots') = Cardinality(FreeSlots) + 1
  <2>1. cur \notin FreeSlots
    BY <1>1 DEF LiveSlots
  <2> QED
    BY <1>4, <2>1, SlotsFinite, FS_AddElement
<1>8. Cardinality(FreeSlots)' <= MaxClient
  <2>1. FreeSlots' \in SUBSET Slots
    BY <1>1, <1>4 DEF FreeSlots
  <2> QED
    BY <2>1, SlotsFinite, FS_Subset
<1>9. available = Cardinality(FreeSlots)
  BY DEF SlotInv, SlotAccounting
<1>10. Types'
  <2>1. available' \in 0..MaxClient
    BY <1>2, <1>7, <1>8, <1>9, SlotAssumption DEF Types
  <2>2. /\ clisock' \in [Slots -> Fds \cup {NoSock}]
        /\ workState' \in [Slots -> WorkStates]
        /\ lastActive' \in [Slots -> Nat] /\ age' \in [Slots -> Nat]
    BY <1>2 DEF Types, WorkStates
  <2>3. maxSock' \in Int
    BY <1>2 DEF Types
  <2>4. /\ readPool' \subseteq Fds \cup {Sock} /\ writePool' \subseteq Fds
        /\ openFds' \subseteq Fds \cup {Sock}
        /\ clock' \in Nat /\ intr' \in 0..MaxIntr
    BY <1>2 DEF Types
  <2>5. pc' \in {"select", "accept", "read", "write", "end"} /\ cur' \in Slots
    BY <1>1, <1>2, NextSlotAdvances
  <2> QED
    BY <1>1, <1>2, <2>1, <2>2, <2>3, <2>4, <2>5, NextSlotTypes DEF Types
<1>11. SlotInv'
  <2>1. SlotAccounting'
    BY <1>2, <1>7, <1>9, SlotAssumption DEF SlotAccounting, Types
  <2>2. OneSlotPerSocket'
    BY <1>1, <1>2, <1>5, <1>6 DEF SlotInv, OneSlotPerSocket
  <2>3. PoolsFollowSlots'
    <3>1. (readPool \cup writePool)' \subseteq LiveFds' \cup {Sock}
      BY <1>2, <1>6 DEF SlotInv, PoolsFollowSlots
    <3>2. \A g \in Fds \cup {Sock} :
            g # f /\ g <= maxSock /\ f <= maxSock => g <= maxSock'
      <4>1. maxSock \in Int
        BY DEF Types
      <4>2. f \in Nat /\ \A g \in Fds \cup {Sock} : g \in Nat
        BY <1>1, FdAssumption
      <4>3. maxSock' = IF f >= maxSock THEN maxSock - 1 ELSE maxSock
        BY <1>2
      <4> HIDE DEF f
      <4> QED
        BY <4>1, <4>2, <4>3
    <3>3. f <= maxSock /\ Sock <= maxSock
      BY <1>1 DEF SlotInv, PoolsFollowSlots
    <3>4. \A s \in LiveSlots' : clisock[s] <= maxSock'
      BY <1>5, <3>2, <3>3 DEF SlotInv, PoolsFollowSlots
    <3>5. Sock <= maxSock'
      BY <1>1, <3>2, <3>3
    <3>6. \A s \in LiveSlots' :
            /\ workState'[s] = "READING" =>
                 clisock[s] \in readPool' /\ clisock[s] \notin writePool'
            /\ workState'[s] = "WRITING" =>
                 clisock[s] \notin readPool' /\ clisock[s] \in writePool'
      BY <1>2, <1>5, FdAssumption DEF SlotInv, PoolsFollowSlots
    <3> QED
      BY <1>5, <3>1, <3>4, <3>5, <3>6 DEF PoolsFollowSlots
  <2>4. InOnePool'
    BY <1>2, <1>5, FdAssumption DEF SlotInv, InOnePool
  <2>5. \A s \in Slots : clisock'[s] = NoSock <=> workState'[s] = "NOTWORK"
    BY <1>3 DEF SlotInv
  <2> QED
    BY <2>1, <2>2, <2>3, <2>4, <2>5 DEF SlotInv
<1>12. RoundInv'
  <2>1. \A s \in Slots : workState'[s] \notin {"WRITEEND", "CLOSE"}
    BY <1>3 DEF RoundInv
  <2>2. \A s \in LiveSlots' :
          (Unvisited(s) /\ clisock[s] \in readable)' => workState'[s] = "READING"
    <3> SUFFICES ASSUME NEW s \in LiveSlots', Unvisited(s)', clisock'[s] \in readable'
                 PROVE  workState'[s] = "READING"
      OBVIOUS
    <3>1. pc' = "read" /\ Unvisited(s)
      BY <1>1, <1>2, <1>5, NextSlotAdvances DEF Unvisited
    <3>2. readable' = readable
      BY <1>1, <1>2, <3>1, NextSlotAdvances DEF locals
    <3> QED
      BY <1>5, <3>1, <3>2 DEF RoundInv
  <2> QED
    BY <1>1, <1>2, <2>1, <2>2, NextSlotAdvances DEF RoundInv
<1>13. SnapshotStillValid'
  <2>1. CASE pc' = "read"
    BY <1>1, <1>2, <1>5, <2>1, NextSlotAdvances DEF SnapshotStillValid, locals
  <2>2. CASE pc' = "select"
    BY <2>2 DEF SnapshotStillValid
  <2> QED
    BY <1>1, <1>2, <2>1, <2>2, NextSlotAdvances
<1> QED
  BY <1>10, <1>11, <1>12, <1>13

-----------------------------------------------------------------------------
LEMMA NextIInv == IInv /\ [Next]_vars => IInv'
<1> SUFFICES ASSUME IInv, [Next]_vars PROVE IInv'
  OBVIOUS
<1>1. CASE Select             BY <1>1, SelectIInv
<1>2. CASE Accept             BY <1>2, AcceptIInv
<1>3. CASE NoAccept           BY <1>3, NoAcceptIInv
<1>4. CASE SkipFreeSlot       BY <1>4, SkipFreeSlotIInv
<1>5. CASE ReadSlot           BY <1>5, ReadSlotIInv
<1>6. CASE ReadNothing        BY <1>6, ReadNothingIInv
<1>7. CASE WriteSlot          BY <1>7, WriteSlotIInv
<1>8. CASE WriteNothing       BY <1>8, WriteNothingIInv
<1>9. CASE CloseSlot          BY <1>9, CloseSlotIInv
<1>10. CASE KeepSlot          BY <1>10, KeepSlotIInv
<1>11. CASE SelectInterrupted BY <1>11, SelectInterruptedIInv
<1>12. CASE Tick              BY <1>12, TickIInv
<1>13. CASE UNCHANGED vars
  BY <1>13 DEF vars, server, slots, locals, timing, IInv, Types, SlotInv,
     SlotAccounting, OneSlotPerSocket, PoolsFollowSlots, InOnePool, RoundInv,
     SnapshotStillValid, Unvisited, LiveSlots, FreeSlots, LiveFds
<1> QED
  BY <1>1, <1>2, <1>3, <1>4, <1>5, <1>6, <1>7, <1>8, <1>9, <1>10, <1>11,
     <1>12, <1>13 DEF Next, HTTPServerRun

(* The inductive invariant holds of every behaviour of the server. *)
THEOREM Invariance == Spec => []IInv
BY InitIInv, NextIInv, PTL DEF Spec

(* Type correctness of the event loop's state (server.c:181-286), and no   *)
(* slot is WRITEEND or CLOSE outside of the visit that makes it so.        *)
THEOREM TypeCorrect == Spec => []TypeOK
<1>1. IInv => TypeOK
  BY DEF IInv, RoundInv, TypeOK
<1> QED
  BY <1>1, Invariance, PTL

(* available_connections counts the free slots, and the listening socket   *)
(* is watched exactly while there is one, for any number of slots.         *)
THEOREM SlotAccountingCorrect == Spec => []SlotAccounting
<1>1. IInv => SlotAccounting
  BY DEF IInv, SlotInv
<1> QED
  BY <1>1, Invariance, PTL

(* No descriptor leaks, is shared by two slots, or is used once closed, in *)
(* whatever order the kernel reuses descriptors.                           *)
THEOREM OneSlotPerSocketCorrect == Spec => []OneSlotPerSocket
<1>1. IInv => OneSlotPerSocket
  BY DEF IInv, SlotInv
<1> QED
  BY <1>1, Invariance, PTL

(* The read and write pools hold exactly the descriptors of the READING    *)
(* and WRITING slots, and _max_sock bounds them although it only ever      *)
(* drops by one.                                                           *)
THEOREM PoolsFollowSlotsCorrect == Spec => []PoolsFollowSlots
<1>1. IInv => PoolsFollowSlots
  BY DEF IInv, SlotInv
<1> QED
  BY <1>1, Invariance, PTL

(* select()'s answer is never used for another connection than the one it  *)
(* was about, though descriptors are reused.                               *)
THEOREM SnapshotCorrect == Spec => []SnapshotStillValid
<1>1. IInv => SnapshotStillValid
  BY DEF IInv
<1> QED
  BY <1>1, Invariance, PTL

-----------------------------------------------------------------------------
(* HttpServer implements ConnectionPool. *)

(* The open connections of the abstract pool are the slots' descriptors,   *)
(* one per slot, so that the room left is the number of free slots.        *)
LEMMA WatchedAreLive ==
    ASSUME IInv
    PROVE  /\ (readPool \ {Sock}) \cup writePool = LiveFds
           /\ Cardinality(LiveFds) = MaxClient - available
<1> USE DEF IInv
<1>1. \A s \in LiveSlots : clisock[s] \in Fds /\ clisock[s] # Sock
  BY FdAssumption DEF LiveSlots, FreeSlots, Types
<1>2. (readPool \ {Sock}) \cup writePool = LiveFds
  BY <1>1, FdAssumption
     DEF SlotInv, PoolsFollowSlots, InOnePool, LiveFds, Types
<1>3. /\ IsFiniteSet(LiveSlots)
      /\ Cardinality(LiveSlots) = MaxClient - Cardinality(FreeSlots)
  <2>1. Slots \cap FreeSlots = FreeSlots
    BY DEF FreeSlots
  <2> QED
    BY <2>1, SlotsFinite, FS_Difference DEF LiveSlots
<1>4. Cardinality(LiveFds) = Cardinality(LiveSlots)
  <2> DEFINE g == [s \in LiveSlots |-> clisock[s]]
  <2>1. g \in Bijection(LiveSlots, LiveFds)
    BY DEF SlotInv, OneSlotPerSocket, LiveFds, Bijection, Injection,
           IsInjective, Surjection
  <2>2. ExistsBijection(LiveSlots, LiveFds)
    BY <2>1 DEF ExistsBijection
  <2> QED
    BY <1>3, <2>2, FS_Bijection
<1> QED
  BY <1>2, <1>3, <1>4 DEF SlotInv, SlotAccounting

LEMMA AcceptImplementsOpen == IInv /\ Accept => Pool!Next
<1> SUFFICES ASSUME IInv, Accept PROVE Pool!Next
  OBVIOUS
<1>1. PICK f \in Fds \ openFds, s \in FreeSlots :
             /\ available' = available - 1
             /\ readPool' = IF available' = 0 THEN (readPool \cup {f}) \ {Sock}
                                            ELSE readPool \cup {f}
  BY AcceptEffect
<1>2. /\ f # Sock /\ f \notin LiveFds /\ writePool' = writePool
      /\ Sock \in readPool
      /\ available \in Nat /\ MaxClient \in Nat
  BY FdAssumption, SlotAssumption
     DEF Accept, MayAccept, IInv, SlotInv, SlotAccounting, OneSlotPerSocket, Types
<1>3. f \notin (readPool \ {Sock}) \cup writePool
  BY <1>2, WatchedAreLive
<1>4. readPool' \ {Sock} = (readPool \ {Sock}) \cup {f}
  BY <1>1, <1>2
<1>5. (Sock \in readPool') <=>
        (Cardinality((readPool \ {Sock}) \cup writePool) + 1 < MaxClient)
  <2>1. Cardinality((readPool \ {Sock}) \cup writePool) = MaxClient - available
    BY WatchedAreLive
  <2>2. available >= 1
    BY <1>2 DEF Accept, MayAccept
  <2>3. Sock \in readPool' <=> available' # 0
    BY <1>1, <1>2
  <2> QED
    BY <1>1, <1>2, <2>1, <2>2, <2>3
<1>6. Pool!Open(f)
  <2>1. \A S : Pool!Cardinality(S) = Cardinality(S)
    BY DEF Pool!Cardinality, Cardinality, Pool!IsFiniteSet, IsFiniteSet
  <2> QED
    BY <1>2, <1>3, <1>4, <1>5, <2>1 DEF Pool!Open
<1> QED
  BY <1>6 DEF Pool!Next

LEMMA ReadImplementsAnswer == IInv /\ ReadSlot => [Pool!Next]_Pool!vars
<1> SUFFICES ASSUME IInv, ReadSlot PROVE [Pool!Next]_Pool!vars
  OBVIOUS
<1> DEFINE f == clisock[cur]
<1>1. f \in Fds /\ f # Sock /\ f \in readPool
  <2>1. cur \in LiveSlots /\ f \in Fds
    BY FdAssumption DEF ReadSlot, IInv, Types, NoSock, LiveSlots, FreeSlots
  <2>2. workState[cur] = "READING"
    BY <2>1 DEF ReadSlot, IInv, Types, RoundInv, Unvisited, Slots
  <2> QED
    BY <2>1, <2>2, FdAssumption DEF IInv, SlotInv, PoolsFollowSlots
<1>2. PICK st \in {"READING", "WRITING", "CLOSE"} : MoveIfWriting(f, st)
  BY DEF ReadSlot
<1>3. CASE st = "WRITING"
  <2>1. Pool!Answer(f)
    BY <1>1, <1>2, <1>3 DEF MoveIfWriting, Pool!Answer
  <2> QED
    BY <1>1, <2>1 DEF Pool!Next
<1>4. CASE st # "WRITING"
  BY <1>2, <1>4 DEF MoveIfWriting, Pool!vars
<1> QED
  BY <1>3, <1>4

LEMMA CloseImplementsClose == IInv /\ CloseSlot => Pool!Next
<1> SUFFICES ASSUME IInv, CloseSlot PROVE Pool!Next
  OBVIOUS
<1> DEFINE f == clisock[cur]
<1>1. f \in Fds /\ f # Sock /\ f \in readPool \cup writePool
  <2>1. cur \in LiveSlots /\ f \in Fds
    BY DEF CloseSlot, IInv, RoundInv, Types, LiveSlots, FreeSlots
  <2> QED
    BY <2>1, FdAssumption DEF IInv, SlotInv, InOnePool
<1>2. Pool!Close(f)
  BY <1>1 DEF CloseSlot, LeavePools, Pool!Close
<1> QED
  BY <1>1, <1>2 DEF Pool!Next

(* The watched sets behave as a pool of at most MAX_HTTP_CLIENT            *)
(* connections that lets a new one in exactly while there is room, for any *)
(* number of slots (server.c:93-128, 181-286).                             *)
THEOREM ServerImplementsPool == Spec => ImplementsPool
<1>1. Init => Pool!Init
  BY FdAssumption DEF Init, Pool!Init
<1>2. IInv /\ [Next]_vars => [Pool!Next]_Pool!vars
  <2> SUFFICES ASSUME IInv, [Next]_vars PROVE [Pool!Next]_Pool!vars
    OBVIOUS
  <2>1. CASE Accept
    BY <2>1, AcceptImplementsOpen
  <2>2. CASE ReadSlot
    BY <2>2, ReadImplementsAnswer
  <2>3. CASE CloseSlot
    BY <2>3, CloseImplementsClose
  <2>4. CASE UNCHANGED server
    BY <2>4 DEF server, Pool!vars
  <2>5. [Next]_vars => Accept \/ ReadSlot \/ CloseSlot \/ UNCHANGED server
    BY DEF Next, HTTPServerRun, Select, NoAccept, SkipFreeSlot, ReadNothing,
           WriteSlot, WriteNothing, KeepSlot, SelectInterrupted, Tick, vars
  <2> QED
    BY <2>1, <2>2, <2>3, <2>4, <2>5
<1> QED
  BY <1>1, <1>2, Invariance, PTL DEF Spec, ImplementsPool, Pool!Spec

-----------------------------------------------------------------------------
(* The idle reaper and the clock that wraps. *)

(* The longest silence of a connection a round can meet. *)
MaxSilence == RoundTime + (MaxIntr + 2) * IdleTimeout

(* The clock agrees with real time: it shows what it showed at select()    *)
(* and when a slot was stamped, plus the time since.                       *)
ClockInv ==
    /\ clock \in 0 .. ClockMod - 1
    /\ elapsed <= IF pc = "select" THEN IdleTimeout ELSE RoundTime
    /\ pc # "select" => clock = (now + elapsed) % ClockMod
    /\ \A s \in LiveSlots : clock = (lastActive[s] + age[s]) % ClockMod

(* The slots that this round has kept. *)
Kept == {s \in LiveSlots : pc \in {"read", "write", "end"} /\ s < cur}

(* How long connections have been silent: a round keeps only those that    *)
(* were active less than IdleTimeout before it, or are active in it.       *)
SilenceInv ==
    /\ ReapedInTime
    /\ pc # "select" => \A s \in LiveSlots : age[s] - elapsed < MaxSilence
    /\ \A s \in Kept : age[s] - elapsed < IdleTimeout
    /\ active => pc \in {"write", "end"} /\ age[cur] <= elapsed

TimeInv == ClockInv /\ SilenceInv

(* Residues modulo the clock's width: the library has no lemmas about them. *)
Residue(x) == x % ClockMod

LEMMA Division ==
    ASSUME NEW x \in Int
    PROVE  /\ Residue(x) \in 0 .. ClockMod - 1
           /\ \E q \in Int : x = q * ClockMod + Residue(x)
<1>1. x % ClockMod \in 0 .. ClockMod - 1
  BY TimeAssumption
<1>2. x = (x \div ClockMod) * ClockMod + (x % ClockMod) /\ x \div ClockMod \in Int
  BY TimeAssumption
<1> QED
  BY <1>1, <1>2 DEF Residue

LEMMA SameResidue ==
    ASSUME NEW x \in Int, NEW y \in Int, NEW q \in Int, x = y + q * ClockMod
    PROVE  Residue(x) = Residue(y)
<1>1. ClockMod \in Nat /\ ClockMod > 0
  BY TimeAssumption
<1>2. PICK a \in Int : x = a * ClockMod + Residue(x)
  BY Division
<1>3. PICK b \in Int : y = b * ClockMod + Residue(y)
  BY Division
<1>4. Residue(x) \in 0 .. ClockMod - 1 /\ Residue(y) \in 0 .. ClockMod - 1
  BY Division
<1> DEFINE k == a - b - q
<1>5. k * ClockMod = Residue(y) - Residue(x) /\ k \in Int
  BY <1>1, <1>2, <1>3, <1>4
<1>6. k = 0
  <2>1. k >= 1 => k * ClockMod >= ClockMod
    BY <1>1, <1>5
  <2>2. k <= -1 => k * ClockMod <= -ClockMod
    BY <1>1, <1>5
  <2> QED
    BY <2>1, <2>2, <1>1, <1>4, <1>5
<1> HIDE DEF k
<1> QED
  BY <1>1, <1>4, <1>5, <1>6

(* A reading taken later by y. *)
LEMMA ResidueOfSum ==
    ASSUME NEW x \in Int, NEW y \in Int
    PROVE  Residue(Residue(x) + y) = Residue(x + y)
<1>1. ClockMod \in Nat /\ Residue(x) \in Int
  BY Division, TimeAssumption
<1>2. PICK q \in Int : x = q * ClockMod + Residue(x)
  BY Division
<1>3. /\ x + y = (Residue(x) + y) + q * ClockMod
      /\ x + y \in Int /\ Residue(x) + y \in Int
  BY <1>1, <1>2
<1> QED
  BY <1>1, <1>3, SameResidue

(* Two readings of one clock lie apart what the times behind them do. *)
LEMMA ResidueOfDifference ==
    ASSUME NEW a \in Int, NEW b \in Int, NEW x \in Int, NEW y \in Int,
           Residue(a + x) = Residue(b + y)
    PROVE  Residue(a - b) = Residue(y - x)
<1>1. ClockMod \in Nat /\ Residue(a + x) \in Int
  BY Division, TimeAssumption
<1>2. PICK p \in Int : a + x = p * ClockMod + Residue(a + x)
  BY Division
<1>3. PICK q \in Int : b + y = q * ClockMod + Residue(b + y)
  BY Division
<1>4. p - q \in Int /\ a - b = (y - x) + (p - q) * ClockMod
  BY <1>1, <1>2, <1>3
<1> QED
  BY <1>4, SameResidue

(* (int32_t)(now - last_active_ms) is the time between the two, although   *)
(* the clock may have wrapped in between.                                  *)
LEMMA SignedDiffIsSilence ==
    ASSUME Types, TimeInv, pc # "select", NEW s \in LiveSlots
    PROVE  SignedDiff(now, lastActive[s]) = age[s] - elapsed
<1>1. /\ now \in Int /\ lastActive[s] \in Int /\ age[s] \in Nat
      /\ elapsed \in Nat /\ ClockMod \in Nat /\ ClockMod > 0
  BY TimeAssumption DEF Types, LiveSlots
<1>2. Residue(now - lastActive[s]) = Residue(age[s] - elapsed)
  <2>1. Residue(now + elapsed) = Residue(lastActive[s] + age[s])
    BY DEF TimeInv, ClockInv, Residue
  <2> QED
    BY <1>1, <2>1, ResidueOfDifference
<1> DEFINE d == age[s] - elapsed
<1>3. d \in Int /\ 2 * d < ClockMod /\ -ClockMod <= 2 * d
  <2>1. d < MaxSilence /\ -RoundTime <= d
    BY <1>1, TimeAssumption DEF TimeInv, ClockInv, SilenceInv
  <2>2. RoundTime <= MaxSilence /\ MaxSilence \in Nat
    BY TimeAssumption DEF MaxSilence
  <2>3. 2 * MaxSilence <= ClockMod
    BY ClockAssumption DEF MaxSilence
  <2> QED
    BY <1>1, <2>1, <2>2, <2>3, TimeAssumption
<1> HIDE DEF d
<1>4. Residue(d) = IF d >= 0 THEN d ELSE d + ClockMod
  BY <1>1, <1>3 DEF Residue
<1>5. SignedDiff(now, lastActive[s]) = d
  <2>1. (now - lastActive[s]) % ClockMod = Residue(d)
    BY <1>2 DEF Residue, d
  <2> QED
    BY <1>1, <1>3, <1>4, <2>1 DEF SignedDiff
<1> QED
  BY <1>5 DEF d

-----------------------------------------------------------------------------
LEMMA InitTime == Init => TimeInv
<1> SUFFICES ASSUME Init PROVE TimeInv
  OBVIOUS
<1>1. LiveSlots = {}
  BY DEF Init, LiveSlots, FreeSlots
<1> QED
  BY <1>1, TimeAssumption
     DEF Init, TimeInv, ClockInv, SilenceInv, ReapedInTime, Kept

(* Time moves the clock, the round and the ages together. *)
LEMMA TickTime == Types /\ TimeInv /\ Tick => TimeInv'
<1> SUFFICES ASSUME Types, TimeInv, Tick PROVE TimeInv'
  OBVIOUS
<1>1. /\ LiveSlots' = LiveSlots /\ LiveSlots \subseteq Slots
      /\ \A s \in LiveSlots : age'[s] = age[s] + 1 /\ lastActive'[s] = lastActive[s]
  BY DEF Tick, slots, LiveSlots, FreeSlots
<1>2. /\ pc' = pc /\ cur' = cur /\ now' = now /\ active' = active /\ intr' = intr
      /\ elapsed' = elapsed + 1 /\ clock' = Residue(clock + 1)
  BY DEF Tick, locals, Residue
<1>3. /\ clock \in Int /\ now \in Int /\ elapsed \in Nat
      /\ \A s \in LiveSlots : lastActive[s] \in Int /\ age[s] \in Nat
  BY <1>1 DEF Types
<1>4. clock' \in 0 .. ClockMod - 1
  BY <1>2, <1>3, Division
<1>5. ASSUME NEW x \in Int, NEW y \in Int, clock = Residue(x + y)
      PROVE  clock' = Residue(x + (y + 1))
  <2>1. x + y \in Int /\ 1 \in Int /\ (x + y) + 1 = x + (y + 1)
    OBVIOUS
  <2> QED
    BY <1>2, <1>5, <2>1, ResidueOfSum
<1>6. ClockInv'
  <2>1. elapsed' <= IF pc' = "select" THEN IdleTimeout ELSE RoundTime
    BY <1>2, <1>3, TimeAssumption DEF Tick
  <2>2. pc # "select" => clock' = Residue(now + (elapsed + 1))
    BY <1>3, <1>5 DEF TimeInv, ClockInv, Residue
  <2>3. \A s \in LiveSlots : clock' = Residue(lastActive[s] + (age[s] + 1))
    BY <1>3, <1>5 DEF TimeInv, ClockInv, Residue
  <2> QED
    BY <1>1, <1>2, <1>4, <2>1, <2>2, <2>3 DEF ClockInv, Residue
<1>7. SilenceInv'
  <2>1. intr * IdleTimeout \in Int /\ IdleTimeout \in Int /\ RoundTime \in Int
    BY TimeAssumption DEF Types
  <2>2. MaxSilence \in Int
    BY TimeAssumption DEF MaxSilence
  <2>3. active => age'[cur] <= elapsed'
    <3>1. cur \in Slots /\ age[cur] \in Nat /\ (age'[cur] = age[cur] + 1 \/ age'[cur] = 0)
      BY DEF Types, Tick
    <3> QED
      BY <1>2, <1>3, <3>1 DEF TimeInv, SilenceInv
  <2>4. ReapedInTime'
    BY <1>1, <1>2, <1>3, <2>1 DEF TimeInv, SilenceInv, ReapedInTime
  <2> QED
    BY <1>1, <1>2, <1>3, <2>1, <2>2, <2>3, <2>4, TimeAssumption
       DEF TimeInv, SilenceInv, Kept
<1> QED
  BY <1>6, <1>7 DEF TimeInv

LEMMA SelectTime == Types /\ TimeInv /\ Select => TimeInv'
<1> SUFFICES ASSUME Types, TimeInv, Select PROVE TimeInv'
  OBVIOUS
<1>1. /\ LiveSlots' = LiveSlots /\ LiveSlots \subseteq Slots
      /\ UNCHANGED <<age, lastActive, clock, active>>
      /\ pc = "select" /\ pc' = "accept" /\ now' = clock /\ elapsed' = 0
  BY DEF Select, slots, LiveSlots, FreeSlots
<1>2. ClockInv'
  BY <1>1, TimeAssumption DEF TimeInv, ClockInv, Types
<1>3. \A s \in LiveSlots : age[s] < MaxSilence
  <2>1. intr * IdleTimeout <= MaxIntr * IdleTimeout
    BY TimeAssumption DEF Types
  <2>2. elapsed <= IdleTimeout /\ elapsed \in Nat
    BY <1>1 DEF TimeInv, ClockInv, Types
  <2>3. \A s \in LiveSlots :
          age[s] < IdleTimeout + RoundTime + intr * IdleTimeout + elapsed
    BY <1>1 DEF TimeInv, SilenceInv, ReapedInTime
  <2>4. /\ MaxSilence = RoundTime + MaxIntr * IdleTimeout + IdleTimeout + IdleTimeout
        /\ intr * IdleTimeout \in Int /\ MaxIntr * IdleTimeout \in Int
    BY TimeAssumption DEF MaxSilence, Types
  <2> QED
    BY <1>1, <2>1, <2>2, <2>3, <2>4, TimeAssumption DEF Types
<1>4. SilenceInv'
  BY <1>1, <1>3 DEF TimeInv, SilenceInv, ReapedInTime, Kept, Types
<1> QED
  BY <1>2, <1>4 DEF TimeInv

LEMMA InterruptTime == Types /\ TimeInv /\ SelectInterrupted => TimeInv'
<1> SUFFICES ASSUME Types, TimeInv, SelectInterrupted PROVE TimeInv'
  OBVIOUS
<1>1. /\ LiveSlots' = LiveSlots /\ LiveSlots \subseteq Slots
      /\ UNCHANGED <<age, lastActive, clock, active, pc, now, cur>>
      /\ pc = "select" /\ elapsed' = 0 /\ intr' = intr + 1
  BY DEF SelectInterrupted, slots, LiveSlots, FreeSlots, locals
<1>2. ClockInv'
  BY <1>1, TimeAssumption DEF TimeInv, ClockInv
<1>3. elapsed <= IdleTimeout /\ elapsed \in Nat
  BY <1>1 DEF TimeInv, ClockInv, Types
<1>4. /\ intr' * IdleTimeout = intr * IdleTimeout + IdleTimeout
      /\ intr * IdleTimeout \in Int
  BY <1>1, TimeAssumption DEF Types
<1>5. ReapedInTime'
  BY <1>1, <1>3, <1>4, TimeAssumption
     DEF TimeInv, SilenceInv, ReapedInTime, Types
<1> QED
  BY <1>1, <1>2, <1>5 DEF TimeInv, SilenceInv, Kept

(* Steps of a round before its last. *)
LEMMA StampTime ==
    ASSUME Types, TimeInv, pc # "select", pc' # "select",
           pc' \in {"write", "end"} => cur' = cur /\ pc \in {"read", "write"},
           pc' = "read" => pc = "accept" /\ cur' = 1,
           pc' \in {"read", "write", "end"},
           UNCHANGED <<clock, elapsed, intr, now>>,
           \A s \in LiveSlots' :
             \/ s \in LiveSlots /\ UNCHANGED <<lastActive[s], age[s]>>
             \/ lastActive'[s] = clock /\ age'[s] = 0
             \/ lastActive'[s] = now /\ age'[s] = elapsed,
           active' => pc' \in {"write", "end"} /\ age'[cur'] <= elapsed'
    PROVE  TimeInv'
<1>1. /\ clock = Residue(now + elapsed) /\ clock \in Int /\ elapsed \in Nat
      /\ clock = Residue(clock + 0) /\ now \in Int
  BY TimeAssumption DEF TimeInv, ClockInv, Types, Residue
<1>2. /\ LiveSlots \subseteq Slots /\ LiveSlots' \subseteq Slots
      /\ \A s \in LiveSlots : age[s] \in Nat
      /\ \A s \in Slots : s >= 1
  BY DEF LiveSlots, Types, Slots
<1>3. ClockInv'
  BY <1>1, <1>2 DEF TimeInv, ClockInv, Residue
<1>4. MaxSilence \in Nat /\ MaxSilence > 0 /\ IdleTimeout \in Nat \ {0}
  BY TimeAssumption DEF MaxSilence
<1>5. Slots \subseteq Int /\ cur \in Slots
  BY DEF Types, Slots
<1>6. \A s \in LiveSlots' : age'[s] - elapsed' < MaxSilence
  BY <1>1, <1>4 DEF TimeInv, SilenceInv
<1>7. \A s \in Kept' : age'[s] - elapsed' < IdleTimeout
  <2> SUFFICES ASSUME NEW s \in Kept' PROVE age'[s] - elapsed' < IdleTimeout
    OBVIOUS
  <2>1. s \in LiveSlots' /\ s < cur' /\ s \in Int /\ s >= 1
    BY <1>2, <1>5 DEF Kept
  <2>2. CASE age'[s] = 0 \/ age'[s] = elapsed
    BY <1>1, <1>4, <2>2
  <2>3. CASE s \in LiveSlots /\ age'[s] = age[s]
    <3>1. s \in Kept
      BY <2>1, <2>3 DEF Kept
    <3> QED
      BY <2>3, <3>1 DEF TimeInv, SilenceInv
  <2> QED
    BY <2>1, <2>2, <2>3
<1>8. SilenceInv'
  BY <1>6, <1>7 DEF SilenceInv, ReapedInTime
<1> QED
  BY <1>3, <1>8 DEF TimeInv

(* The end of a visit: its slot is free or was active in time. *)
LEMMA NextSlotTime ==
    ASSUME Types, TimeInv, pc \in {"read", "end"}, NextSlot,
           UNCHANGED <<clock, intr>>,
           \A s \in LiveSlots' :
             s \in LiveSlots /\ UNCHANGED <<lastActive[s], age[s]>>,
           cur \in LiveSlots' => age[cur] - elapsed < IdleTimeout
    PROVE  TimeInv'
<1>0. /\ cur \in Int /\ cur <= MaxClient /\ MaxClient \in Int
      /\ \A s \in LiveSlots : s \in Int /\ s <= MaxClient /\ age[s] \in Nat
  BY SlotAssumption DEF LiveSlots, Types, Slots
<1>1. /\ elapsed \in Nat /\ elapsed <= RoundTime
      /\ intr * IdleTimeout \in Nat /\ active' = FALSE
  BY TimeAssumption DEF Types, TimeInv, ClockInv, NextSlot
<1>2. \A s \in LiveSlots' : s <= cur => age[s] - elapsed < IdleTimeout
  <2> SUFFICES ASSUME NEW s \in LiveSlots', s <= cur
               PROVE  age[s] - elapsed < IdleTimeout
    OBVIOUS
  <2>1. CASE s = cur
    BY <2>1
  <2>2. CASE s # cur
    <3>1. s \in LiveSlots /\ s < cur
      BY <1>0, <2>2
    <3>2. s \in Kept
      BY <3>1 DEF Kept
    <3> QED
      BY <3>2 DEF TimeInv, SilenceInv
  <2> QED
    BY <2>1, <2>2
<1>3. CASE cur < MaxClient
  <2>1. pc' = "read" /\ cur' = cur + 1 /\ elapsed' = elapsed /\ now' = now
    BY <1>3 DEF NextSlot, locals
  <2>2. ClockInv'
    BY <2>1 DEF TimeInv, ClockInv
  <2>3. \A s \in LiveSlots' : age'[s] - elapsed' < MaxSilence
    BY <2>1 DEF TimeInv, SilenceInv
  <2>4. \A s \in Kept' : s \in LiveSlots' /\ s <= cur
    BY <1>0, <2>1 DEF Kept
  <2>5. \A s \in Kept' : age'[s] - elapsed' < IdleTimeout
    BY <1>2, <2>1, <2>4
  <2>6. SilenceInv'
    BY <1>1, <2>1, <2>3, <2>5 DEF SilenceInv, ReapedInTime
  <2> QED
    BY <2>2, <2>6 DEF TimeInv
<1>4. CASE ~(cur < MaxClient)
  <2>1. pc' = "select" /\ elapsed' = 0
    BY <1>4 DEF NextSlot
  <2>2. ClockInv'
    BY <2>1, TimeAssumption DEF TimeInv, ClockInv
  <2>3. \A s \in LiveSlots' :
          age'[s] < IdleTimeout + RoundTime + intr' * IdleTimeout + elapsed'
    <3> SUFFICES ASSUME NEW s \in LiveSlots'
                 PROVE  age[s] < IdleTimeout + RoundTime + intr * IdleTimeout
      BY <2>1, <1>1, TimeAssumption
    <3>1. s <= cur /\ age[s] \in Nat
      BY <1>0, <1>4
    <3> QED
      BY <1>1, <1>2, <3>1, TimeAssumption
  <2>4. SilenceInv'
    BY <1>1, <2>1, <2>3 DEF SilenceInv, ReapedInTime, Kept
  <2> QED
    BY <2>2, <2>4 DEF TimeInv
<1> QED
  BY <1>3, <1>4

(* A slot is closed as idle exactly if it was not active in this visit and *)
(* has been silent for IdleTimeout.                                        *)
LEMMA IdleIsSilent ==
    ASSUME IInv, TimeInv, pc = "end"
    PROVE  Idle(cur) <=> ~active /\ age[cur] - elapsed >= IdleTimeout
<1>1. cur \in LiveSlots
  BY DEF IInv, RoundInv, Types, LiveSlots, FreeSlots
<1>2. SignedDiff(now, lastActive[cur]) = age[cur] - elapsed
  BY <1>1, SignedDiffIsSilence DEF IInv
<1> QED
  BY <1>2 DEF Idle

LEMMA VisitEndTime ==
    ASSUME IInv, TimeInv, SkipFreeSlot \/ CloseSlot \/ KeepSlot
    PROVE  TimeInv'
<1> USE DEF IInv
<1>1. CASE SkipFreeSlot
  <2>1. LiveSlots' = LiveSlots /\ cur \notin LiveSlots
    BY <1>1 DEF SkipFreeSlot, slots, LiveSlots, FreeSlots
  <2> QED
    BY <1>1, <2>1, NextSlotTime DEF SkipFreeSlot, slots
<1>2. CASE KeepSlot
  <2>1. LiveSlots' = LiveSlots
    BY <1>2 DEF KeepSlot, slots, LiveSlots, FreeSlots
  <2>2. age[cur] - elapsed < IdleTimeout
    <3>1. age[cur] \in Int /\ elapsed \in Int /\ IdleTimeout > 0 /\ IdleTimeout \in Int
      BY TimeAssumption DEF Types
    <3>2. CASE active
      BY <3>1, <3>2 DEF TimeInv, SilenceInv
    <3>3. CASE ~active
      BY <1>2, <3>1, <3>3, IdleIsSilent DEF KeepSlot, MustClose
    <3> QED
      BY <3>2, <3>3
  <2> QED
    BY <1>2, <2>1, <2>2, NextSlotTime DEF KeepSlot, slots
<1>3. CASE CloseSlot
  <2>1. /\ \A s \in LiveSlots' : s \in LiveSlots /\ s # cur
        /\ \A s \in LiveSlots' : age'[s] = age[s] /\ lastActive'[s] = lastActive[s]
    BY <1>3 DEF CloseSlot, FreeSlot, Types, LiveSlots, FreeSlots
  <2>2. /\ pc \in {"read", "end"} /\ NextSlot /\ UNCHANGED <<clock, intr>>
        /\ cur \notin LiveSlots'
    BY <1>3, <2>1 DEF CloseSlot
  <2> QED
    BY <2>1, <2>2, NextSlotTime
<1> QED
  BY <1>1, <1>2, <1>3

LEMMA RoundTimeKept ==
    ASSUME IInv, TimeInv,
           \/ Accept \/ NoAccept
           \/ ReadSlot \/ ReadNothing \/ WriteSlot \/ WriteNothing
    PROVE  TimeInv'
<1> USE DEF IInv
<1>1. CASE Accept
  <2>1. \A s \in LiveSlots' : \/ s \in LiveSlots /\ UNCHANGED <<lastActive[s], age[s]>>
                              \/ lastActive'[s] = clock /\ age'[s] = 0
    BY <1>1 DEF Accept, _HTTPServerAccept, StampAccept, slots, Types,
                LiveSlots, FreeSlots
  <2>2. /\ pc = "accept" /\ pc' = "read" /\ cur' = 1 /\ active' = active
        /\ UNCHANGED <<clock, elapsed, intr, now>>
    BY <1>1 DEF Accept, EnterSlots, locals, timing
  <2>3. ~active'
    BY <2>2 DEF TimeInv, SilenceInv
  <2> QED
    BY <2>1, <2>2, <2>3, StampTime
<1>2. CASE NoAccept
  <2>1. /\ LiveSlots' = LiveSlots /\ UNCHANGED <<lastActive, age>>
        /\ pc = "accept" /\ pc' = "read" /\ cur' = 1 /\ active' = active
        /\ UNCHANGED <<clock, elapsed, intr, now>>
    BY <1>2 DEF NoAccept, EnterSlots, slots, locals, timing, LiveSlots, FreeSlots
  <2>2. ~active'
    BY <2>1 DEF TimeInv, SilenceInv
  <2> QED
    BY <2>1, <2>2, StampTime
<1>3. CASE ReadNothing \/ WriteNothing
  <2>1. /\ LiveSlots' = LiveSlots /\ UNCHANGED <<lastActive, age, active, cur>>
        /\ pc \in {"read", "write"} /\ pc' \in {"write", "end"}
        /\ UNCHANGED <<clock, elapsed, intr, now>>
    BY <1>3 DEF ReadNothing, WriteNothing, slots, locals, timing, LiveSlots,
                FreeSlots
  <2>2. active' => age'[cur'] <= elapsed'
    BY <2>1 DEF TimeInv, SilenceInv
  <2> QED
    BY <2>1, <2>2, StampTime
<1>4. CASE ReadSlot \/ WriteSlot
  <2>1. /\ LiveSlots' = LiveSlots /\ MarkActive(cur) /\ cur' = cur
        /\ pc \in {"read", "write"} /\ pc' \in {"write", "end"}
        /\ UNCHANGED <<clock, elapsed, intr, now>>
    BY <1>4 DEF ReadSlot, WriteSlot, slots, locals, timing, LiveSlots, FreeSlots
  <2>2. /\ age'[cur] = elapsed /\ elapsed \in Int
        /\ \A s \in LiveSlots : \/ UNCHANGED <<lastActive[s], age[s]>>
                                \/ lastActive'[s] = now /\ age'[s] = elapsed
    BY <2>1 DEF MarkActive, Types, LiveSlots
  <2> QED
    BY <2>1, <2>2, StampTime
<1> QED
  BY <1>1, <1>2, <1>3, <1>4

LEMMA TimeInvariance == Spec => []TimeInv
<1>1. IInv /\ TimeInv /\ [Next]_vars => TimeInv'
  <2> SUFFICES ASSUME IInv, TimeInv, [Next]_vars PROVE TimeInv'
    OBVIOUS
  <2>1. Types
    BY DEF IInv
  <2>2. CASE Next
    BY <2>1, <2>2, TickTime, SelectTime, InterruptTime, VisitEndTime,
       RoundTimeKept DEF Next, HTTPServerRun
  <2>3. CASE UNCHANGED vars
    <3>1. LiveSlots' = LiveSlots /\ Kept' = Kept
      BY <2>3 DEF vars, slots, LiveSlots, FreeSlots, Kept
    <3>2. UNCHANGED <<clock, elapsed, intr, age, lastActive, now, pc, cur, active>>
      BY <2>3 DEF vars, timing, slots, locals
    <3>3. ClockInv'
      BY <3>1, <3>2 DEF TimeInv, ClockInv
    <3>4. SilenceInv'
      BY <3>1, <3>2 DEF TimeInv, SilenceInv, ReapedInTime
    <3> QED
      BY <3>3, <3>4 DEF TimeInv
  <2> QED
    BY <2>2, <2>3
<1> QED
  BY <1>1, InitTime, Invariance, PTL DEF Spec

(* No connection outlives its silence: between rounds each was active less *)
(* than IdleTimeout and a round ago, and the select() calls since          *)
(* (server.c:184, 246).                                                    *)
THEOREM ReapedInTimeCorrect == Spec => []ReapedInTime
<1>1. TimeInv => ReapedInTime
  BY DEF TimeInv, SilenceInv
<1> QED
  BY <1>1, TimeInvariance, PTL

(* And none with a healthy socket is closed before it was silent for       *)
(* IdleTimeout, however often the clock has wrapped (server.c:239-249).    *)
THEOREM NoEarlyReapCorrect == Spec => NoEarlyReap
<1> DEFINE Early(s) == /\ clisock[s] # NoSock /\ clisock'[s] = NoSock
                       /\ workState[s] \in {"READING", "WRITING"}
<1>1. IInv /\ TimeInv /\ [Next]_vars =>
        [\A s \in Slots : Early(s) => age[s] - elapsed >= IdleTimeout]_vars
  <2> SUFFICES ASSUME IInv, TimeInv, Next, NEW s \in Slots, Early(s)
               PROVE  age[s] - elapsed >= IdleTimeout
    OBVIOUS
  <2>1. CloseSlot /\ s = cur
    <3>1. CASE Accept
      BY <3>1 DEF Accept, _HTTPServerAccept, IInv, Types, FreeSlots, slots
    <3>2. CASE CloseSlot
      BY <3>2 DEF CloseSlot, FreeSlot, IInv, Types
    <3>3. CASE clisock' = clisock
      BY <3>3
    <3>4. Next => Accept \/ CloseSlot \/ clisock' = clisock
      BY DEF Next, HTTPServerRun, Select, NoAccept, SkipFreeSlot, ReadSlot,
             ReadNothing, WriteSlot, WriteNothing, KeepSlot, SelectInterrupted,
             Tick, slots
    <3> QED
      BY <3>1, <3>2, <3>3, <3>4
  <2>2. Idle(cur)
    BY <2>1 DEF CloseSlot, MustClose
  <2> QED
    BY <2>1, <2>2, IdleIsSilent DEF CloseSlot
<1> QED
  BY <1>1, TimeInvariance, Invariance, PTL DEF Spec, NoEarlyReap

=============================================================================
