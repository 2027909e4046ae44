----------------------- MODULE FreeRTOSSocketProofs -------------------------
(***************************************************************************)
(* What the server of the FreeRTOS port may rely on: that a socket keeps   *)
(* the mark of being busy, that nothing comes to wait unnoticed but by the *)
(* server's own write-back, that a socket belongs to one slot, that a slot *)
(* reads the bytes of the connection it was accepted for, and that none is *)
(* sent two responses.                                                     *)
(*                                                                         *)
(* They hold for any number of links, slots and connections, for a chip    *)
(* that speaks at any time, and however the tasks are preempted.  The last *)
(* three need that a peer does not close a connection before the server    *)
(* does.                                                                   *)
(***************************************************************************)
EXTENDS FreeRTOSServerProofs

-----------------------------------------------------------------------------
(***************************************************************************)
(* What the command task is at is the command it was resumed for.          *)
(***************************************************************************)
CommandMatches ==
    /\ tpc \in {"send", "prompt", "sent", "sendEnd"} => command = "send"
    /\ tpc \in {"close", "closed"} => command = "close"

MInv == IInv /\ TInv /\ CommandMatches

LEMMA CommanderMatches ==
    ASSUME CommandHeld, CommandMatches, vESP8266TTask
    PROVE  CommandMatches'
<1> USE DEF Commander, Same, CommandHeld, CommandMatches, CarryingOut
<1>1. CASE TakeToCommand
  BY <1>1 DEF TakeToCommand
<1>2. CASE SendHeader
  BY <1>2 DEF SendHeader
<1>3. CASE SendPayload \/ NoPrompt \/ ReadSendOk
  BY <1>3 DEF SendPayload, NoPrompt, ReadSendOk, ReadAnswer
<1>4. CASE SendEnd
  BY <1>4 DEF SendEnd
<1>5. CASE CloseHeader
  BY <1>5 DEF CloseHeader
<1>6. CASE ReadClosed
  BY <1>6 DEF ReadClosed, ReadAnswer
<1>7. CASE GiveCommanded
  BY <1>7 DEF GiveCommanded
<1>8. CASE Suspend
  BY <1>8 DEF Suspend
<1>9. QED
  BY <1>1, <1>2, <1>3, <1>4, <1>5, <1>6, <1>7, <1>8 DEF vESP8266TTask

LEMMA NextMInv == MInv /\ [Next]_vars => MInv'
<1> SUFFICES ASSUME IInv, TInv, CommandMatches, [Next]_vars PROVE CommandMatches'
  BY NextIInv, NextTInv DEF MInv
<1> USE DEF IInv, CommandHeld, CarryingOut, CommandMatches
<1>1. CASE Chip
  BY <1>1, ChipStep
<1>2. CASE vESP8266RTask
  BY <1>2, ParserStep DEF ParserMoves
<1>3. CASE vESP8266TTask
  BY <1>3, CommanderMatches
<1>4. CASE MicroHTTPServer_task \/ HTTPServerRun
  BY <1>4, StartupStep, RunStep DEF ServerMoves
<1>5. CASE UNCHANGED vars
  BY <1>5 DEF vars, driver, order
<1>6. QED
  BY <1>1, <1>2, <1>3, <1>4, <1>5 DEF Next

LEMMA CommandMatched == Spec => []MInv
<1>1. Init => CommandMatches
  BY DEF Init, InitESP8266, CommandMatches
<1>2. QED
  BY <1>1, InitIInv, InitTInv, NextMInv, PTL DEF Spec, MInv
-----------------------------------------------------------------------------
(***************************************************************************)
(* The mark of a socket that is busy.  The server writes a whole byte of   *)
(* state back, and that byte has the mark: nobody else sets one.           *)
(***************************************************************************)
WriteBack == {"recvMark", "recvLast", "setWriting"}

StoreKeepsBusy ==
    spc \in WriteBack /\ "writing" \in state[clisock[cur]] => "writing" \in store

(* By a step of the driver's tasks. *)
LEMMA ChipBusy ==
    Chip => UNCHANGED <<state, rxQueue, new_connects, svrReadable, rpc, rid, spc>>
  BY DEF Chip, PowerUp, GotIp, Disconnect, PeerConnects, PeerSends, PeerCloses,
         Says, socks, queues

LEMMA ParserBusy ==
    ASSUME TInv, vESP8266RTask, NEW s \in Ids
    PROVE  /\ spc' = spc
           /\ "writing" \in state'[s] => "writing" \in state[s]
           /\ "writing" \in state[s] /\ "writing" \notin state'[s] => Ends(s)
<1>1. state \in [Ids -> SUBSET StateBits]
  BY DEF TInv, TypeOK, DriverTypeOK, SocketsTypeOK
<1>2. CASE GetClientConnented \/ GetClientClosed
  BY <1>1, <1>2 DEF GetClientConnented, GetClientClosed, ReadLine, Parser,
                    NewSocket, Ends
<1>3. CASE NotifySocket
  BY <1>1, <1>3 DEF NotifySocket, Parser
<1>4. CASE TakeToParse \/ NotifyServer \/ GetClientRequest \/ ReadPayload
           \/ ReadStatus \/ ReadUseless \/ GiveParsed
  BY <1>4 DEF TakeToParse, NotifyServer, GetClientRequest, ReadPayload, ReadStatus,
              ReadUseless, GiveParsed, ReadLine, Parser, socks
<1>5. QED
  BY <1>2, <1>3, <1>4 DEF vESP8266RTask

LEMMA CommanderBusy ==
    ASSUME MInv, vESP8266TTask, NEW s \in Ids
    PROVE  /\ spc' = spc
           /\ "writing" \in state'[s] => "writing" \in state[s]
           /\ "writing" \in state[s] /\ "writing" \notin state'[s] =>
                \/ command = "send" /\ working = s /\ command' = "none"
                \/ Ends(s)
<1>1. state \in [Ids -> SUBSET StateBits]
  BY DEF MInv, TInv, TypeOK, DriverTypeOK, SocketsTypeOK
<1>2. CASE SendEnd
  <2>1. tpc \in {"send", "sendEnd"} /\ command' = "none" /\ spc' = spc
        /\ state' = [state EXCEPT ![working] = @ \ {"writing"}]
    BY <1>2 DEF SendEnd, Commander
  <2>2. command = "send"
    BY <2>1 DEF MInv, CommandMatches
  <2>3. QED
    BY <1>1, <2>1, <2>2
<1>3. CASE ReadClosed
  BY <1>1, <1>3 DEF ReadClosed, ReadAnswer, Commander, Ends
<1>4. CASE ~SendEnd /\ ~ReadClosed
  BY <1>4 DEF vESP8266TTask, TakeToCommand, SendHeader, SendPayload, NoPrompt,
     ReadSendOk, CloseHeader, GiveCommanded, Suspend, ReadAnswer, Commander, Same
<1>5. QED
  BY <1>2, <1>3, <1>4

(* By one of the server, which takes no socket's mark. *)
LEMMA ServerBusy ==
    ASSUME TInv, StoreKeepsBusy, MicroHTTPServer_task \/ HTTPServerRun
    PROVE  /\ StoreKeepsBusy'
           /\ \A s \in Ids : "writing" \in state[s] => "writing" \in state'[s]
<1>1. state \in [Ids -> SUBSET StateBits]
  BY DEF TInv, TypeOK, DriverTypeOK, SocketsTypeOK
<1>2. spc \in AtSlot => clisock[cur] \in Ids
  BY DEF TInv, SlotTaken, TypeOK, SlotsTypeOK
<1>3. CASE MicroHTTPServer_task
  <2>1. state' = state /\ spc' \notin WriteBack
    BY <1>3 DEF MicroHTTPServer_task, Initialized, Linked, AwaitState,
       JoinAccessPoint, HaveInterfaceIP, BindTcpSocket, BindFails, HTTPServerClose,
       Command, Answer, Startup, Server, socks, WriteBack
  <2>2. QED
    BY <2>1 DEF StoreKeepsBusy
<1>4. CASE Recv
  <2>1. /\ state' = state /\ UNCHANGED <<clisock, cur>>
        /\ \/ store' = state[clisock[cur]] \cup {"readable"}
           \/ store' = state[clisock[cur]] \ {"readable"}
    BY <1>4 DEF Recv, slots
  <2>2. QED
    BY <2>1 DEF StoreKeepsBusy
<1>5. CASE WriteSock
  <2>1. /\ state' = state /\ UNCHANGED <<clisock, cur>>
        /\ spc' \in WriteBack => store' = state[clisock[cur]] \cup {"writing"}
    BY <1>5 DEF WriteSock, Loop, Server, Quietly, socks, WriteBack
  <2>2. QED
    BY <2>1 DEF StoreKeepsBusy
<1>6. CASE RecvMore \/ _HTTPServerRequest \/ SetWriting
  <2>1. /\ spc \in WriteBack /\ spc' \notin WriteBack
        /\ state' = [state EXCEPT ![clisock[cur]] = store]
    BY <1>6 DEF RecvMore, _HTTPServerRequest, SetWriting, StoreState, Loop, Server,
                WriteBack
  <2>2. QED
    BY <1>1, <1>2, <2>1 DEF StoreKeepsBusy, WriteBack, AtSlot
<1>7. CASE Select \/ _HTTPServerAccept \/ MarkServer \/ AcceptFails
           \/ SkipFreeSlot \/ Visit \/ WriteNothing \/ SendSocket
           \/ KeepSlot \/ CloseUnused \/ CloseUsed \/ ShutdownSocket
  <2>1. state' = state /\ spc' \notin WriteBack
    BY <1>7 DEF Select, _HTTPServerAccept, MarkServer, AcceptFails, SkipFreeSlot,
       Visit, WriteNothing, SendSocket, KeepSlot, CloseUnused, CloseUsed,
       ShutdownSocket, NextSlot, Loop, Server, Quietly, socks, WriteBack
  <2>2. QED
    BY <2>1 DEF StoreKeepsBusy
<1>8. CASE Poll
  BY <1>8 DEF Poll, vars, driver, socks, slots, locals, StoreKeepsBusy
<1>9. QED
  BY <1>3, <1>4, <1>5, <1>6, <1>7, <1>8 DEF HTTPServerRun

LEMMA NextBusy ==
    ASSUME MInv, StoreKeepsBusy, [Next]_vars
    PROVE  /\ StoreKeepsBusy'
           /\ \A s \in Ids : "writing" \in state[s] /\ "writing" \notin state'[s] =>
                \/ command = "send" /\ working = s /\ command' = "none"
                \/ Ends(s)
<1>1. TInv
  BY DEF MInv
<1>2. CASE (Chip \/ vESP8266RTask \/ vESP8266TTask) /\ UNCHANGED task
  <2>1. UNCHANGED <<clisock, cur, store>>
    BY <1>2 DEF task, slots, locals
  <2>2. spc \in WriteBack => clisock[cur] \in Ids
    BY <1>1 DEF TInv, SlotTaken, AtSlot, TypeOK, SlotsTypeOK, WriteBack
  <2>3. ASSUME NEW s \in Ids
        PROVE  /\ "writing" \in state'[s] => "writing" \in state[s]
               /\ "writing" \in state[s] /\ "writing" \notin state'[s] =>
                    \/ command = "send" /\ working = s /\ command' = "none"
                    \/ Ends(s)
    BY <1>1, <1>2, ChipBusy, ParserBusy, CommanderBusy
  <2>4. spc' = spc
    BY <1>2, ChipBusy, ParserStep, CommanderStep DEF ParserMoves, CommanderMoves
  <2>5. StoreKeepsBusy'
    BY <2>1, <2>2, <2>3, <2>4 DEF StoreKeepsBusy
  <2>6. QED
    BY <2>3, <2>5
<1>3. CASE MicroHTTPServer_task \/ HTTPServerRun
  BY <1>1, <1>3, ServerBusy
<1>4. CASE UNCHANGED vars
  BY <1>4 DEF vars, driver, socks, slots, locals, StoreKeepsBusy
<1>5. QED
  BY <1>2, <1>3, <1>4 DEF Next

(* A socket that is marked as busy stays so until the command task is done *)
(* with its response or its connection goes, whatever the tasks write to   *)
(* its state and however they are preempted (mac_esp8266.c:532-535, 599,   *)
(* 612).                                                                   *)
THEOREM BusyCorrect == Spec => BusyUntilSent
<1>1. Init => StoreKeepsBusy
  BY DEF Init, InitESP8266, StoreKeepsBusy, WriteBack
<1>2. MInv /\ StoreKeepsBusy /\ [Next]_vars => StoreKeepsBusy'
  BY NextBusy
<1>3. MInv /\ StoreKeepsBusy /\ [Next]_vars =>
        [\A s \in Ids : "writing" \in state[s] /\ "writing" \notin state'[s] =>
           \/ command = "send" /\ working = s /\ command' = "none"
           \/ Ends(s)]_vars
  BY NextBusy
<1>4. QED
  BY <1>1, <1>2, <1>3, CommandMatched, PTL DEF Spec, BusyUntilSent

-----------------------------------------------------------------------------
(***************************************************************************)
(* What waits unnoticed: the only steps that make it so are those by which *)
(* the server writes back what it computed before.                         *)
(***************************************************************************)
OnlyThese ==
    /\ ServerUnnoticed' => ServerUnnoticed \/ (spc = "mark" /\ spc' # "mark")
    /\ \A s \in Ids : BytesUnnoticed(s)' => BytesUnnoticed(s) \/ WritesBack(s)

LEMMA ParserNotices ==
    ASSUME TInv, vESP8266RTask, UNCHANGED task
    PROVE  OnlyThese
<1>1. UNCHANGED <<spc, clisock, cur>>
  BY ParserStep DEF ParserMoves, task, slots, locals
<1>2. ServerUnnoticed' => ServerUnnoticed
  <2>1. CASE GetClientConnented
    BY <1>1, <2>1 DEF GetClientConnented, ReadLine, Parser, ServerUnnoticed
  <2>2. CASE ~GetClientConnented
    BY <1>1, <2>2 DEF vESP8266RTask, TakeToParse, NotifyServer, GetClientClosed,
       GetClientRequest, ReadPayload, NotifySocket, ReadStatus, ReadUseless,
       GiveParsed, ReadLine, Parser, queues, ServerUnnoticed
  <2>3. QED
    BY <2>1, <2>2
<1>3. ASSUME NEW s \in Ids, BytesUnnoticed(s)' PROVE BytesUnnoticed(s)
  <2>1. state \in [Ids -> SUBSET StateBits] /\ rxQueue \in [Ids -> Seq(Nat)]
    BY DEF TInv, TypeOK, DriverTypeOK, SocketsTypeOK
  <2>2. /\ rxQueue'[s] # <<>> /\ "using" \in state'[s] /\ "readable" \notin state'[s]
        /\ ~(rpc' = "frame" /\ rid' = s) /\ ~(spc = "recvMark" /\ clisock[cur] = s)
    BY <1>1, <1>3 DEF BytesUnnoticed
  <2>3. CASE GetClientConnented \/ GetClientClosed
    BY <2>1, <2>2, <2>3 DEF GetClientConnented, GetClientClosed, ReadLine, Parser,
       NewSocket, BytesUnnoticed
  <2>4. CASE ReadPayload
    BY <2>1, <2>2, <2>4 DEF ReadPayload, Parser, BytesUnnoticed
  <2>5. CASE NotifySocket
    BY <2>1, <2>2, <2>5 DEF NotifySocket, Parser, BytesUnnoticed
  <2>6. CASE TakeToParse \/ NotifyServer \/ GetClientRequest \/ ReadStatus
             \/ ReadUseless \/ GiveParsed
    BY <2>2, <2>6 DEF TakeToParse, NotifyServer, GetClientRequest, ReadStatus,
       ReadUseless, GiveParsed, ReadLine, Parser, socks, BytesUnnoticed
  <2>7. QED
    BY <2>3, <2>4, <2>5, <2>6 DEF vESP8266RTask
<1>4. QED
  BY <1>2, <1>3 DEF OnlyThese

LEMMA CommanderNotices ==
    ASSUME TInv, vESP8266TTask, UNCHANGED task
    PROVE  OnlyThese
<1>1. UNCHANGED <<rxQueue, new_connects, svrReadable, rpc, rid, spc, clisock, cur>>
  BY DEF vESP8266TTask, TakeToCommand, SendHeader, SendPayload, NoPrompt,
     ReadSendOk, SendEnd, CloseHeader, ReadClosed, GiveCommanded, Suspend,
     ReadAnswer, Commander, queues, task, slots, locals
<1>2. ASSUME NEW s \in Ids
      PROVE  state'[s] \in {state[s], {}, state[s] \ {"writing"}}
  <2>1. state \in [Ids -> SUBSET StateBits]
    BY DEF TInv, TypeOK, DriverTypeOK, SocketsTypeOK
  <2>2. CASE SendEnd
    BY <2>1, <2>2 DEF SendEnd
  <2>3. CASE ReadClosed
    BY <2>1, <2>3 DEF ReadClosed
  <2>4. CASE ~SendEnd /\ ~ReadClosed
    BY <2>4 DEF vESP8266TTask, TakeToCommand, SendHeader, SendPayload, NoPrompt,
       ReadSendOk, CloseHeader, GiveCommanded, Suspend, Same
  <2>5. QED
    BY <2>2, <2>3, <2>4
<1>3. QED
  BY <1>1, <1>2 DEF OnlyThese, ServerUnnoticed, BytesUnnoticed

(* At start-up nothing of it is touched. *)
LEMMA StartupNotices == MicroHTTPServer_task => OnlyThese
<1> SUFFICES ASSUME MicroHTTPServer_task PROVE OnlyThese
  OBVIOUS
<1>1. /\ UNCHANGED <<state, rxQueue, new_connects, svrReadable, rpc, rid>>
      /\ spc \notin {"mark", "recvMark"}
  BY DEF MicroHTTPServer_task, Initialized, Linked, AwaitState, JoinAccessPoint,
     HaveInterfaceIP, BindTcpSocket, BindFails, HTTPServerClose, Command, Answer,
     Startup, Server, socks, queues
<1>2. QED
  BY <1>1 DEF OnlyThese, ServerUnnoticed, BytesUnnoticed

LEMMA RunNotices ==
    ASSUME TInv, HTTPServerRun
    PROVE  OnlyThese
<1>1. state \in [Ids -> SUBSET StateBits] /\ rxQueue \in [Ids -> Seq(Nat)]
  BY DEF TInv, TypeOK, DriverTypeOK, SocketsTypeOK
<1>2. CASE _HTTPServerAccept \/ MarkServer
  <2>1. /\ UNCHANGED <<state, rxQueue, rpc, rid>>
        /\ spc \in {"accept", "mark"} /\ spc' # "recvMark"
        /\ spc = "accept" => spc' = "mark"
        /\ spc = "mark" => spc' # "mark"
    BY <1>2 DEF _HTTPServerAccept, MarkServer, Loop, Server, socks
  <2>2. QED
    BY <2>1 DEF OnlyThese, ServerUnnoticed, BytesUnnoticed
<1>3. CASE Recv
  <2> DEFINE s == clisock[cur]
  <2>1. s \in Ids
    BY <1>3 DEF TInv, SlotTaken, AtSlot, TypeOK, SlotsTypeOK, Recv, Loop, Server
  <2>2. /\ UNCHANGED <<state, new_connects, svrReadable, rpc, rid, clisock, cur>>
        /\ spc = "recv" /\ spc' = IF rxQueue[s] = <<>> THEN "recvLast" ELSE "recvMark"
    BY <1>3 DEF Recv, Loop, Server, slots, queues
  <2>3. /\ \A t \in Ids : t # s => rxQueue'[t] = rxQueue[t]
        /\ rxQueue[s] = <<>> => rxQueue'[s] = <<>>
    BY <1>1, <1>3, <2>1 DEF Recv
  <2>4. QED
    BY <2>2, <2>3 DEF OnlyThese, ServerUnnoticed, BytesUnnoticed
<1>4. CASE RecvMore \/ _HTTPServerRequest \/ SetWriting
  <2>1. /\ UNCHANGED <<rxQueue, new_connects, svrReadable, rpc, rid, clisock, cur>>
        /\ spc \in WriteBack /\ spc' \in {"recv", "write", "send"}
        /\ state' = [state EXCEPT ![clisock[cur]] = store]
    BY <1>4 DEF RecvMore, _HTTPServerRequest, SetWriting, StoreState, Loop, Server,
                queues, WriteBack
  <2>2. \A s \in Ids : s # clisock[cur] => state'[s] = state[s]
    BY <1>1, <2>1
  <2>3. QED
    BY <2>1, <2>2 DEF OnlyThese, ServerUnnoticed, BytesUnnoticed, WritesBack, WriteBack
<1>5. CASE Select \/ AcceptFails \/ SkipFreeSlot \/ Visit \/ WriteSock
           \/ WriteNothing \/ SendSocket \/ KeepSlot \/ CloseUnused \/ CloseUsed
           \/ ShutdownSocket
  <2>1. /\ UNCHANGED <<state, rxQueue, new_connects, svrReadable, rpc, rid>>
        /\ spc \notin {"mark", "recvMark"}
    BY <1>5 DEF Select, AcceptFails, SkipFreeSlot, Visit, WriteSock, WriteNothing,
       SendSocket, KeepSlot, CloseUnused, CloseUsed, ShutdownSocket, NextSlot,
       Loop, Server, Quietly, socks, queues
  <2>2. QED
    BY <2>1 DEF OnlyThese, ServerUnnoticed, BytesUnnoticed
<1>6. CASE Poll
  BY <1>6 DEF Poll, vars, driver, socks, queues, slots, locals, OnlyThese,
     ServerUnnoticed, BytesUnnoticed
<1>7. QED
  BY <1>2, <1>3, <1>4, <1>5, <1>6 DEF HTTPServerRun

(* However the tasks are preempted, a connection or bytes come to wait     *)
(* without the bit that makes select() report them by one kind of step     *)
(* only, the server's write-back of a byte it computed before              *)
(* (mac_esp8266.c:503-506, 532-535, 599).                                  *)
THEOREM OnlyWriteBackLosesCorrect == Spec => OnlyWriteBackLoses
<1>1. TInv /\ [Next]_vars => [OnlyThese]_vars
  <2> SUFFICES ASSUME TInv, Next PROVE OnlyThese
    OBVIOUS
  <2>1. CASE Chip /\ UNCHANGED task
    BY <2>1, ChipBusy DEF task, slots, locals, OnlyThese, ServerUnnoticed,
                          BytesUnnoticed
  <2>2. CASE (vESP8266RTask \/ vESP8266TTask) /\ UNCHANGED task
    BY <2>2, ParserNotices, CommanderNotices
  <2>3. CASE MicroHTTPServer_task \/ HTTPServerRun
    BY <2>3, StartupNotices, RunNotices
  <2>4. QED
    BY <2>1, <2>2, <2>3 DEF Next
<1>2. Spec => []TInv
  BY InitIInv, NextIInv, InitTInv, NextTInv, PTL DEF Spec
<1>3. QED
  BY <1>1, <1>2, PTL DEF Spec, OnlyWriteBackLoses, OnlyThese

-----------------------------------------------------------------------------
(***************************************************************************)
(* What a step does to the ring: messages are taken from its front, and    *)
(* others, of none of some kinds, are added behind.                        *)
(***************************************************************************)
Moves(d, kinds) ==
    /\ d \in 0..Len(uart) /\ Len(uart') >= Len(uart) - d
    /\ \A i \in 1..Len(uart') :
          IF i + d <= Len(uart) THEN uart'[i] = uart[i + d]
          ELSE uart'[i].kind \notin kinds

LinkKinds == {"CONNECT", "+IPD", "data"}

LEMMA Stays ==
    ASSUME uart \in Seq(Message), uart' = uart, NEW kinds
    PROVE  Moves(0, kinds)
  BY DEF Moves

LEMMA IsRead ==
    ASSUME uart \in Seq(Message), uart # <<>>, uart' = Tail(uart), NEW kinds
    PROVE  Moves(1, kinds)
  BY DEF Moves

LEMMA IsSaid ==
    ASSUME uart \in Seq(Message), NEW kinds, NEW ms \in Seq(Message),
           uart' = uart \o ms, \A i \in 1..Len(ms) : ms[i].kind \notin kinds
    PROVE  Moves(0, kinds)
  BY DEF Moves

LEMMA IsAnswered ==
    ASSUME uart \in Seq(Message), uart # <<>>, NEW kinds, NEW m \in Message,
           uart' = Append(Tail(uart), m), m.kind \notin kinds
    PROVE  Moves(1, kinds)
  BY DEF Moves

(* The chip's own words. *)
LEMMA ChipMoves ==
    ASSUME TInv, PowerUp \/ GotIp \/ Disconnect
    PROVE  (\E d \in Nat : Moves(d, LinkKinds)) /\ UNCHANGED peers
<1>1. uart \in Seq(Message)
  BY DEF TInv, TypeOK, DriverTypeOK, ChipTypeOK
<1>2. CASE PowerUp
  <2>1. uart' = <<Line("Ai-Thinker")>> /\ Line("Ai-Thinker").kind = "Ai-Thinker"
    BY <1>2 DEF PowerUp, Line
  <2>2. Moves(Len(uart), LinkKinds)
    BY <1>1, <2>1 DEF Moves, LinkKinds
  <2>3. QED
    BY <1>1, <1>2, <2>2 DEF PowerUp
<1>3. CASE GotIp \/ Disconnect
  <2>1. PICK k \in {"WIFI_GOT_IP", "WIFI_DISCONNECT"} : uart' = uart \o <<Line(k)>>
    BY <1>3 DEF GotIp, Disconnect, Says
  <2>2. <<Line(k)>> \in Seq(Message)
    BY DEF Line, Message
  <2>3. \A i \in 1..Len(<<Line(k)>>) : <<Line(k)>>[i].kind \notin LinkKinds
    BY DEF Line, LinkKinds
  <2>4. Moves(0, LinkKinds)
    BY <1>1, <2>1, <2>2, <2>3, IsSaid
  <2>5. QED
    BY <1>3, <2>4 DEF GotIp, Disconnect
<1>4. QED
  BY <1>2, <1>3

LEMMA ParserReads ==
    ASSUME TInv, vESP8266RTask
    PROVE  \/ uart' = uart
           \/ uart # <<>> /\ uart' = Tail(uart)
  BY DEF vESP8266RTask, TakeToParse, GetClientConnented, NotifyServer,
         GetClientClosed, GetClientRequest, ReadPayload, NotifySocket, ReadStatus,
         ReadUseless, GiveParsed, ReadLine, Parser

LEMMA ParserMovesRing ==
    ASSUME TInv, vESP8266RTask
    PROVE  \E d \in Nat : Moves(d, LinkKinds)
<1>1. uart \in Seq(Message)
  BY DEF TInv, TypeOK, DriverTypeOK, ChipTypeOK
<1>2. QED
  BY <1>1, ParserReads, Stays, IsRead

LEMMA CommanderMovesRing ==
    ASSUME TInv, vESP8266TTask
    PROVE  \E d \in Nat : Moves(d, LinkKinds)
<1>1. uart \in Seq(Message) /\ working \in Ids \cup {Svr}
  BY DEF TInv, TypeOK, DriverTypeOK, ChipTypeOK, TasksTypeOK
<1> DEFINE Answer1 == {LinkLine(">", working), LinkLine("closed", working),
                       Line("ERROR"), Line("SEND_OK")}
<1>2. \A m \in Answer1 : m \in Message /\ m.kind \notin LinkKinds
  BY <1>1 DEF LinkLine, Line, Message, LinkKinds
<1>3. ASSUME NEW m \in Answer1, uart' = uart \o <<m>> \/ uart' = Append(uart, m)
      PROVE  Moves(0, LinkKinds)
  <2>1. <<m>> \in Seq(Message)
    BY <1>2
  <2>2. \A i \in 1..Len(<<m>>) : <<m>>[i].kind \notin LinkKinds
    BY <1>2
  <2>3. uart' = uart \o <<m>>
    BY <1>1, <1>2, <1>3
  <2>4. QED
    BY <1>1, <2>1, <2>2, <2>3, IsSaid
<1>4. CASE SendHeader \/ CloseHeader
  <2>1. \E m \in Answer1 : uart' = uart \o <<m>> \/ uart' = Append(uart, m)
    BY <1>4 DEF SendHeader, CloseHeader, TakesForPayload, Obeys
  <2>2. QED
    BY <1>3, <2>1
<1>5. CASE SendPayload
  BY <1>1, <1>2, <1>5, IsAnswered DEF SendPayload, ReadAnswer
<1>6. CASE NoPrompt \/ ReadSendOk \/ ReadClosed
  <2>1. uart # <<>> /\ uart' = Tail(uart)
    BY <1>6 DEF NoPrompt, ReadSendOk, ReadClosed, ReadAnswer
  <2>2. QED
    BY <1>1, <2>1, IsRead
<1>7. CASE TakeToCommand \/ SendEnd \/ GiveCommanded \/ Suspend
  <2>1. uart' = uart
    BY <1>7 DEF TakeToCommand, SendEnd, GiveCommanded, Suspend
  <2>2. QED
    BY <1>1, <2>1, Stays
<1>8. QED
  BY <1>4, <1>5, <1>6, <1>7 DEF vESP8266TTask

LEMMA StartupMovesRing ==
    ASSUME TInv, MicroHTTPServer_task
    PROVE  \E d \in Nat : Moves(d, LinkKinds)
<1>1. uart \in Seq(Message)
  BY DEF TInv, TypeOK, DriverTypeOK, ChipTypeOK
<1> DEFINE Answer1 == {<<Line("AT+CWJAP")>>, <<Line("AT+CIFSR"), Line("+CIFSR")>>,
                       <<Line("AT+CIPMUX")>>}
<1>2. /\ Line("AT+CWJAP") \in Message /\ Line("AT+CIFSR") \in Message
      /\ Line("+CIFSR") \in Message /\ Line("AT+CIPMUX") \in Message
      /\ Line("AT+CIPSERVER") \in Message
  BY DEF Line, Message
<1>3. \A ms \in Answer1 : /\ ms \in Seq(Message)
                          /\ \A i \in 1..Len(ms) : ms[i].kind \notin LinkKinds
  <2>1. \A ms \in Answer1 : ms \in Seq(Message)
    <3>1. /\ <<Line("AT+CWJAP")>> \in Seq(Message)
          /\ <<Line("AT+CIFSR"), Line("+CIFSR")>> \in Seq(Message)
          /\ <<Line("AT+CIPMUX")>> \in Seq(Message)
      BY <1>2
    <3>2. QED
      BY <3>1
  <2>2. \A ms \in Answer1 : \A i \in 1..Len(ms) : ms[i].kind \notin LinkKinds
    BY DEF Line, LinkKinds
  <2>3. QED
    BY <2>1, <2>2
<1>4. \/ uart' = uart
      \/ uart # <<>> /\ uart' = Tail(uart)
      \/ uart # <<>> /\ uart' = Append(Tail(uart), Line("AT+CIPSERVER"))
      \/ \E ms \in Answer1 : uart' = uart \o ms
  <2>1. CASE Initialized \/ Linked \/ HTTPServerClose
    BY <2>1 DEF Initialized, Linked, AwaitState, HTTPServerClose
  <2>2. CASE JoinAccessPoint \/ HaveInterfaceIP
    BY <2>2 DEF JoinAccessPoint, HaveInterfaceIP, Command, Answer, Obeys
  <2>3. CASE BindTcpSocket \/ BindFails
    BY <2>3 DEF BindTcpSocket, BindFails, Command, Answer, Obeys
  <2>4. QED
    BY <2>1, <2>2, <2>3 DEF MicroHTTPServer_task
<1>5. Line("AT+CIPSERVER").kind \notin LinkKinds
  BY DEF Line, LinkKinds
<1>6. CASE uart' = uart
  BY <1>1, <1>6, Stays
<1>7. CASE uart # <<>> /\ uart' = Tail(uart)
  BY <1>1, <1>7, IsRead
<1>8. CASE uart # <<>> /\ uart' = Append(Tail(uart), Line("AT+CIPSERVER"))
  BY <1>1, <1>2, <1>5, <1>8, IsAnswered
<1>9. CASE \E ms \in Answer1 : uart' = uart \o ms
  BY <1>1, <1>3, <1>9, IsSaid
<1>10. QED
  BY <1>4, <1>6, <1>7, <1>8, <1>9

LEMMA RunLeaves ==
    ASSUME HTTPServerRun
    PROVE  UNCHANGED <<wifi, rpc, rid, left, conn, conns, frames, replies, mutex,
                       uart, chip, listening>>
  BY DEF HTTPServerRun, Select, _HTTPServerAccept, MarkServer, AcceptFails,
         SkipFreeSlot, Visit, Recv, RecvMore, _HTTPServerRequest, WriteSock,
         WriteNothing, SetWriting, SendSocket, KeepSlot, CloseUnused, CloseUsed,
         ShutdownSocket, Poll, NextSlot, Loop, Server, vars, driver, peers

-----------------------------------------------------------------------------
(* Numbers.  A connection is on one link, and one that has not been opened *)
(* was sent nothing; what is sent is sent on a link.                       *)
Numbered ==
    /\ \A s \in Ids : conn[s] <= conns
    /\ \A s, t \in Ids : conn[s] = conn[t] /\ conn[s] # NoConn => s = t
    /\ \A c \in Conns : c > conns => replies[c] = 0
    /\ command = "send" => working \in Ids

LEMMA NextNumbered ==
    ASSUME MInv, Numbered, [Next]_vars
    PROVE  Numbered'
<1>1. /\ conn \in [Ids -> 0..MaxConn] /\ conns \in 0..MaxConn
      /\ replies \in [Conns -> Nat] /\ MaxConn \in Nat
  BY Esp8266Assumption DEF MInv, TInv, TypeOK, DriverTypeOK, ChipTypeOK
<1>2. ASSUME NEW s \in Ids, PeerConnects(s) PROVE Numbered'
  <2>1. /\ conns' = conns + 1 /\ conn' = [conn EXCEPT ![s] = conns + 1]
        /\ replies' = replies /\ command' = command /\ working' = working
    BY <1>2 DEF PeerConnects, Says, order
  <2>2. \A t \in Ids : conn'[t] = IF t = s THEN conns + 1 ELSE conn[t]
    BY <1>1, <2>1
  <2>3. \A t \in Ids : conn[t] \in Nat /\ conn[t] <= conns /\ conns \in Nat
    BY <1>1 DEF Numbered
  <2>4. \A t \in Ids : conn'[t] <= conns'
    BY <2>1, <2>2, <2>3
  <2>5. \A t, u \in Ids : conn'[t] = conn'[u] /\ conn'[t] # NoConn => t = u
    <3>1. \A t \in Ids : conn[t] # conns + 1
      BY <2>3
    <3>2. \A t, u \in Ids : conn[t] = conn[u] /\ conn[t] # NoConn => t = u
      BY DEF Numbered
    <3>3. QED
      BY <2>2, <3>1, <3>2
  <2>6. \A c \in Conns : c > conns' => replies'[c] = 0
    <3>1. \A c \in Conns : c > conns + 1 => c > conns
      BY <1>1 DEF Conns
    <3>2. QED
      BY <2>1, <3>1 DEF Numbered
  <2>7. QED
    BY <2>1, <2>4, <2>5, <2>6 DEF Numbered
<1>3. ASSUME NEW s, conn' = [conn EXCEPT ![s] = NoConn],
             conns' = conns, replies' = replies, command' = command,
             working' = working
      PROVE  Numbered'
  <2>1. \A t \in Ids : conn'[t] = IF t = s THEN NoConn ELSE conn[t]
    BY <1>1, <1>3
  <2>2. \A t \in Ids : conn'[t] <= conns'
    BY <1>1, <1>3, <2>1 DEF Numbered, NoConn
  <2>3. QED
    BY <1>3, <2>1, <2>2 DEF Numbered
<1>4. CASE Chip
  <2>1. ASSUME NEW s \in Ids, PeerCloses(s) PROVE Numbered'
    BY <1>3, <2>1 DEF PeerCloses, Says, order
  <2>2. ASSUME NEW s \in Ids, PeerSends(s) PROVE Numbered'
    <3>1. UNCHANGED <<conn, conns, replies, command, working>>
      BY <2>2 DEF PeerSends, Says, order
    <3>2. QED
      BY <3>1 DEF Numbered
  <2>3. CASE PowerUp \/ GotIp \/ Disconnect
    BY <2>3 DEF PowerUp, GotIp, Disconnect, Says, order, peers, Numbered
  <2>4. QED
    BY <1>2, <1>4, <2>1, <2>2, <2>3 DEF Chip
<1>5. CASE vESP8266RTask
  <2>1. UNCHANGED <<conn, conns, replies, command, working>>
    BY <1>5 DEF vESP8266RTask, TakeToParse, GetClientConnented, NotifyServer,
         GetClientClosed, GetClientRequest, ReadPayload, NotifySocket, ReadStatus,
         ReadUseless, GiveParsed, ReadLine, Parser, order, peers
  <2>2. QED
    BY <2>1 DEF Numbered
<1>6. CASE vESP8266TTask
  <2>1. command' \in {command, "none"} /\ working' = working /\ conns' = conns
    BY <1>6 DEF vESP8266TTask, TakeToCommand, SendHeader, SendPayload, NoPrompt,
         ReadSendOk, SendEnd, CloseHeader, ReadClosed, GiveCommanded, Suspend,
         ReadAnswer, Commander, Same, peers
  <2>2. CASE CloseHeader
    BY <1>3, <1>6, <2>1, <2>2 DEF CloseHeader, Same, Numbered
  <2>3. CASE SendPayload
    <3>1. working \in Ids
      BY <2>3 DEF SendPayload, ReadAnswer, Commander, MInv, CommandMatches, Numbered
    <3>2. /\ conn' = conn
          /\ \A c \in Conns : c # conn[working] => replies'[c] = replies[c]
      BY <1>1, <2>3 DEF SendPayload, peers
    <3>3. \A c \in Conns : c > conns => c # conn[working]
      BY <1>1, <3>1 DEF Numbered, Conns
    <3>4. QED
      BY <2>1, <3>2, <3>3 DEF Numbered
  <2>4. CASE ~CloseHeader /\ ~SendPayload
    <3>1. UNCHANGED <<conn, replies>>
      BY <1>6, <2>4 DEF vESP8266TTask, TakeToCommand, SendHeader, NoPrompt,
         ReadSendOk, SendEnd, ReadClosed, GiveCommanded, Suspend, peers
    <3>2. QED
      BY <2>1, <3>1 DEF Numbered
  <2>5. QED
    BY <2>2, <2>3, <2>4
<1>7. CASE MicroHTTPServer_task
  <2>1. UNCHANGED <<conn, conns, replies>>
    BY <1>7 DEF MicroHTTPServer_task, Initialized, Linked, AwaitState,
       JoinAccessPoint, HaveInterfaceIP, BindTcpSocket, BindFails, Command,
       Answer, HTTPServerClose, Startup, Server, peers
  <2>2. command' # "send" \/ UNCHANGED <<command, working>>
    BY <1>7 DEF MicroHTTPServer_task, Initialized, Linked, AwaitState,
       JoinAccessPoint, HaveInterfaceIP, BindTcpSocket, BindFails, Command,
       Answer, HTTPServerClose, Startup, Resume, order
  <2>3. QED
    BY <2>1, <2>2 DEF Numbered
<1>8. CASE HTTPServerRun
  <2>1. UNCHANGED <<conn, conns, replies>>
    BY <1>8, RunLeaves
  <2>2. CASE SendSocket
    <3>1. clisock[cur] \in Ids
      BY <2>2 DEF SendSocket, Loop, Server, MInv, TInv, SlotTaken, AtSlot, TypeOK,
                  SlotsTypeOK
    <3>2. QED
      BY <2>1, <2>2, <3>1 DEF SendSocket, Resume, Numbered
  <2>3. CASE ~SendSocket
    <3>1. command' # "send" \/ UNCHANGED <<command, working>>
      BY <1>8, <2>3 DEF HTTPServerRun, Select, _HTTPServerAccept, MarkServer,
         AcceptFails, SkipFreeSlot, Visit, Recv, RecvMore, _HTTPServerRequest,
         WriteSock, WriteNothing, SetWriting, KeepSlot, CloseUnused, CloseUsed,
         ShutdownSocket, StoreState, Quietly, Poll, Resume, vars, driver, order
    <3>2. QED
      BY <2>1, <3>1 DEF Numbered
  <2>4. QED
    BY <2>2, <2>3
<1>9. CASE UNCHANGED vars
  BY <1>9 DEF vars, driver, order, peers, Numbered
<1>10. QED
  BY <1>4, <1>5, <1>6, <1>7, <1>8, <1>9 DEF Next

LEMMA InitNumbered == Init => Numbered
  BY DEF Init, InitESP8266, Numbered, NoConn

-----------------------------------------------------------------------------
(***************************************************************************)
(* The places of a link: announced in the ring, waiting to be accepted, in *)
(* a slot.  A link has one of them at most, from when its connection opens *)
(* until the server has it closed.                                         *)
(***************************************************************************)
Announced(s) == \E i \in 1..Len(uart) : uart[i].kind = "CONNECT" /\ uart[i].id = s
Waiting(s)   == \E k \in 1..Len(new_connects) : new_connects[k] = s
Taken(s)     == \E i \in Slots : clisock[i] = s
Placed(s)    == Announced(s) \/ Waiting(s) \/ Taken(s)

(* The command that will close it has been given. *)
ToBeClosed(s) == command = "close" /\ working = s /\ tpc # "closed"

AnnouncedOnce ==
    \A i, j \in 1..Len(uart) :
        uart[i].kind = "CONNECT" /\ uart[j].kind = "CONNECT"
        /\ uart[i].id = uart[j].id => i = j

WaitsOnce ==
    \A i, j \in 1..Len(new_connects) : new_connects[i] = new_connects[j] => i = j

OnePlace(s) ==
    /\ ~(Announced(s) /\ Waiting(s))
    /\ ~(Announced(s) /\ Taken(s))
    /\ ~(Waiting(s) /\ Taken(s))

PlacedIsOpen(s) ==
    /\ Placed(s) => ~ToBeClosed(s)
    /\ Placed(s) \/ ToBeClosed(s) => conn[s] # NoConn

PlaceInv ==
    /\ AnnouncedOnce /\ WaitsOnce /\ OneSlotPerSocket
    /\ \A s \in Ids : OnePlace(s) /\ PlacedIsOpen(s)

(* Taking messages away announces nothing. *)
LEMMA MovesAnnounced ==
    ASSUME NEW d \in Nat, NEW kinds, "CONNECT" \in kinds, Moves(d, kinds),
           uart \in Seq(Message), uart' \in Seq(Message)
    PROVE  /\ \A s : Announced(s)' => Announced(s)
           /\ AnnouncedOnce => AnnouncedOnce'
<1>1. ASSUME NEW i \in 1..Len(uart'), uart'[i].kind = "CONNECT"
      PROVE  i + d \in 1..Len(uart) /\ uart'[i] = uart[i + d]
  BY <1>1 DEF Moves
<1>2. \A s : Announced(s)' => Announced(s)
  BY <1>1 DEF Announced
<1>3. AnnouncedOnce => AnnouncedOnce'
  <2> SUFFICES ASSUME AnnouncedOnce, NEW i \in 1..Len(uart'), NEW j \in 1..Len(uart'),
                      uart'[i].kind = "CONNECT", uart'[j].kind = "CONNECT",
                      uart'[i].id = uart'[j].id
               PROVE  i = j
    BY DEF AnnouncedOnce
  <2>1. /\ i + d \in 1..Len(uart) /\ uart'[i] = uart[i + d]
        /\ j + d \in 1..Len(uart) /\ uart'[j] = uart[j + d]
    BY <1>1
  <2>2. i + d = j + d
    BY <2>1 DEF AnnouncedOnce
  <2>3. QED
    BY <2>2
<1>4. QED
  BY <1>2, <1>3

(* What takes places away leaves the others as they are. *)
LEMMA Leaving ==
    ASSUME PlaceInv, AnnouncedOnce', WaitsOnce', OneSlotPerSocket',
           \A s \in Ids : /\ Announced(s)' => Announced(s)
                          /\ Waiting(s)' => Waiting(s)
                          /\ Taken(s)' => Taken(s)
                          /\ ToBeClosed(s)' => ToBeClosed(s)
                          /\ Placed(s) \/ ToBeClosed(s) => conn'[s] = conn[s]
    PROVE  PlaceInv'
<1>1. ASSUME NEW s \in Ids PROVE OnePlace(s)' /\ PlacedIsOpen(s)'
  <2> DEFINE A == Announced(s)  A1 == Announced(s)'
             W == Waiting(s)    W1 == Waiting(s)'
             T == Taken(s)      T1 == Taken(s)'
             C == ToBeClosed(s) C1 == ToBeClosed(s)'
  <2>1. (A1 => A) /\ (W1 => W) /\ (T1 => T) /\ (C1 => C)
    OBVIOUS
  <2>2. A \/ W \/ T \/ C => conn'[s] = conn[s] /\ conn[s] # NoConn
    BY DEF PlaceInv, PlacedIsOpen, Placed
  <2>3. ~(A /\ W) /\ ~(A /\ T) /\ ~(W /\ T) /\ ~((A \/ W \/ T) /\ C)
    BY DEF PlaceInv, OnePlace, PlacedIsOpen, Placed
  <2> HIDE DEF A, A1, W, W1, T, T1, C, C1
  <2>4. /\ ~(A1 /\ W1) /\ ~(A1 /\ T1) /\ ~(W1 /\ T1)
        /\ A1 \/ W1 \/ T1 => ~C1
        /\ (A1 \/ W1 \/ T1) \/ C1 => conn'[s] # NoConn
    BY <2>1, <2>2, <2>3
  <2>5. QED
    BY <2>4 DEF OnePlace, PlacedIsOpen, Placed, A1, W1, T1, C1
<1>2. QED
  BY <1>1 DEF PlaceInv

LEMMA ChipPlaces ==
    ASSUME ~Impatient, MInv, MInv', PlaceInv, Chip, UNCHANGED task
    PROVE  PlaceInv'
<1>1. /\ uart \in Seq(Message) /\ uart' \in Seq(Message)
      /\ conn \in [Ids -> 0..MaxConn] /\ conns \in Nat
  BY DEF MInv, TInv, TypeOK, DriverTypeOK, ChipTypeOK
<1>2. UNCHANGED <<new_connects, command, working, tpc, clisock>>
  BY DEF Chip, PowerUp, GotIp, Disconnect, PeerConnects, PeerSends, PeerCloses,
         Says, queues, order, task, slots
<1>3. /\ WaitsOnce' /\ OneSlotPerSocket'
      /\ \A s \in Ids : /\ Waiting(s)' <=> Waiting(s)
                        /\ Taken(s)' <=> Taken(s)
                        /\ ToBeClosed(s)' <=> ToBeClosed(s)
  BY <1>2 DEF PlaceInv, WaitsOnce, OneSlotPerSocket, Waiting, Taken, ToBeClosed
<1>4. ASSUME NEW d \in Nat, NEW kinds, "CONNECT" \in kinds, Moves(d, kinds), conn' = conn
      PROVE  PlaceInv'
  <2>1. (\A s : Announced(s)' => Announced(s)) /\ AnnouncedOnce'
    BY <1>1, <1>4, MovesAnnounced DEF PlaceInv
  <2>2. QED
    BY <1>3, <1>4, <2>1, Leaving
<1>5. CASE PowerUp \/ GotIp \/ Disconnect
  <2>1. (\E d \in Nat : Moves(d, LinkKinds)) /\ conn' = conn /\ "CONNECT" \in LinkKinds
    BY <1>5, ChipMoves DEF MInv, peers, LinkKinds
  <2>2. QED
    BY <1>4, <2>1
<1>6. ASSUME NEW s \in Ids, PeerSends(s) PROVE PlaceInv'
  <2>1. PICK n \in 1..MaxUnits : Says(Frame(s, n))
    BY <1>6 DEF PeerSends
  <2>2. uart' = uart \o Frame(s, n) /\ Frame(s, n) \in Seq(Message)
    BY <2>1, FrameTyped DEF Says, MInv, TInv, TypeOK, DriverTypeOK
  <2>3. \A i \in 1..Len(Frame(s, n)) : Frame(s, n)[i].kind \in {"+IPD", "data"}
    <3>1. n \in Nat
      BY Esp8266Assumption
    <3>2. QED
      BY <3>1 DEF Frame
  <2>4. \A i \in 1..Len(Frame(s, n)) : Frame(s, n)[i].kind \notin {"CONNECT"}
    BY <2>3
  <2>5. Moves(0, {"CONNECT"})
    BY <1>1, <2>2, <2>4, IsSaid
  <2>6. conn' = conn
    BY <1>6 DEF PeerSends
  <2>7. QED
    BY <1>4, <2>5, <2>6
<1>7. ASSUME NEW s \in Ids, PeerConnects(s) PROVE PlaceInv'
  <2> DEFINE m == LinkLine("CONNECT", s)
  <2>1. /\ uart' = Append(uart, m) /\ m.kind = "CONNECT" /\ m.id = s
        /\ conn[s] = NoConn /\ conn' = [conn EXCEPT ![s] = conns + 1]
    BY <1>1, <1>7 DEF PeerConnects, Says, LinkLine
  <2>2. ~Announced(s) /\ ~Waiting(s) /\ ~Taken(s) /\ ~ToBeClosed(s)
    BY <2>1 DEF PlaceInv, PlacedIsOpen, Placed
  <2> HIDE DEF m
  <2>3. Len(uart') = Len(uart) + 1 /\ \A i \in 1..Len(uart) + 1 :
             uart'[i] = IF i = Len(uart) + 1 THEN m ELSE uart[i]
    BY <1>1, <2>1
  <2>4. AnnouncedOnce'
    <3> SUFFICES ASSUME NEW i \in 1..Len(uart) + 1, NEW j \in 1..Len(uart) + 1,
                        uart'[i].kind = "CONNECT", uart'[j].kind = "CONNECT",
                        uart'[i].id = uart'[j].id, i # j
                 PROVE  FALSE
      BY <2>3 DEF AnnouncedOnce
    <3>0. Len(uart) \in Nat
      BY <1>1
    <3>1. CASE i = Len(uart) + 1
      <4>1. uart'[j] = uart[j] /\ j \in 1..Len(uart) /\ uart'[i] = m
        BY <2>3, <3>0, <3>1
      <4>2. uart[j].kind = "CONNECT" /\ uart[j].id = s
        BY <2>1, <4>1
      <4>3. QED
        BY <2>2, <4>1, <4>2 DEF Announced
    <3>2. CASE j = Len(uart) + 1
      <4>1. uart'[i] = uart[i] /\ i \in 1..Len(uart) /\ uart'[j] = m
        BY <2>3, <3>0, <3>2
      <4>2. uart[i].kind = "CONNECT" /\ uart[i].id = s
        BY <2>1, <4>1
      <4>3. QED
        BY <2>2, <4>1, <4>2 DEF Announced
    <3>3. CASE i # Len(uart) + 1 /\ j # Len(uart) + 1
      <4>1. uart'[i] = uart[i] /\ i \in 1..Len(uart) /\ uart'[j] = uart[j] /\ j \in 1..Len(uart)
        BY <2>3, <3>0, <3>3
      <4>2. QED
        BY <4>1 DEF PlaceInv, AnnouncedOnce
    <3>4. QED
      BY <3>1, <3>2, <3>3
  <2>5. \A t \in Ids : t # s => (Announced(t)' => Announced(t)) /\ conn'[t] = conn[t]
    <3>1. ASSUME NEW t \in Ids, t # s, Announced(t)' PROVE Announced(t)
      <4>1. PICK i \in 1..Len(uart') : uart'[i].kind = "CONNECT" /\ uart'[i].id = t
        BY <3>1 DEF Announced
      <4>2. i \in 1..Len(uart) /\ uart'[i] = uart[i]
        BY <1>1, <2>1, <2>3, <3>1, <4>1
      <4>3. QED
        BY <4>1, <4>2 DEF Announced
    <3>2. QED
      BY <1>1, <2>1, <3>1
  <2>6. conn'[s] # NoConn
    BY <1>1, <2>1 DEF NoConn
  <2>7. ASSUME NEW t \in Ids PROVE OnePlace(t)' /\ PlacedIsOpen(t)'
    <3>1. CASE t = s
      <4>1. ~Waiting(t)' /\ ~Taken(t)' /\ ~ToBeClosed(t)' /\ conn'[t] # NoConn
        BY <1>3, <2>2, <2>6, <3>1
      <4>2. QED
        BY <4>1 DEF OnePlace, PlacedIsOpen
    <3>2. CASE t # s
      <4>1. OnePlace(t) /\ PlacedIsOpen(t)
        BY DEF PlaceInv
      <4>2. /\ Announced(t)' => Announced(t)
            /\ Waiting(t)' <=> Waiting(t)
            /\ Taken(t)' <=> Taken(t)
            /\ ToBeClosed(t)' <=> ToBeClosed(t)
            /\ conn'[t] = conn[t]
        BY <1>3, <2>5, <3>2
      <4>3. QED
        BY <4>1, <4>2 DEF OnePlace, PlacedIsOpen, Placed
    <3>3. QED
      BY <3>1, <3>2
  <2>8. QED
    BY <1>3, <2>4, <2>7 DEF PlaceInv
<1>8. QED
  BY <1>5, <1>6, <1>7 DEF Chip, PeerCloses

(* The parse task moves a link from the ring to those that wait, or loses  *)
(* its announcement.                                                       *)
LEMMA ParserPlaces ==
    ASSUME MInv, MInv', PlaceInv, vESP8266RTask, UNCHANGED task
    PROVE  PlaceInv'
<1>1. /\ uart \in Seq(Message) /\ uart' \in Seq(Message)
      /\ new_connects \in Seq(Ids)
  BY DEF MInv, TInv, TypeOK, DriverTypeOK, ChipTypeOK, SocketsTypeOK
<1>2. UNCHANGED <<command, working, tpc, clisock, conn>>
  BY DEF vESP8266RTask, TakeToParse, GetClientConnented, NotifyServer,
         GetClientClosed, GetClientRequest, ReadPayload, NotifySocket, ReadStatus,
         ReadUseless, GiveParsed, ReadLine, Parser, order, peers, task, slots
<1>3. /\ OneSlotPerSocket'
      /\ \A s \in Ids : /\ Taken(s)' <=> Taken(s)
                        /\ ToBeClosed(s)' <=> ToBeClosed(s)
  BY <1>2 DEF PlaceInv, OneSlotPerSocket, Taken, ToBeClosed
<1>4. (\A s : Announced(s)' => Announced(s)) /\ AnnouncedOnce'
  BY <1>1, ParserMovesRing, MovesAnnounced DEF MInv, PlaceInv, LinkKinds
<1>5. CASE new_connects' = new_connects
  <2>1. WaitsOnce' /\ \A s \in Ids : Waiting(s)' <=> Waiting(s)
    BY <1>5 DEF PlaceInv, WaitsOnce, Waiting
  <2>2. QED
    BY <1>2, <1>3, <1>4, <2>1, Leaving
<1>6. CASE new_connects' # new_connects
  <2>1. GetClientConnented
    BY <1>6 DEF vESP8266RTask, TakeToParse, NotifyServer, GetClientClosed,
       GetClientRequest, ReadPayload, NotifySocket, ReadStatus, ReadUseless,
       GiveParsed, queues
  <2>2. /\ uart # <<>> /\ uart[1].kind = "CONNECT" /\ uart[1].id \in Ids
        /\ uart' = Tail(uart)
        /\ new_connects' = Append(new_connects, uart[1].id)
    <3>1. /\ uart # <<>> /\ Head(uart).kind = "CONNECT" /\ uart' = Tail(uart)
          /\ new_connects' = Append(new_connects, Head(uart).id)
      BY <1>6, <2>1 DEF GetClientConnented, ReadLine
    <3>2. QED
      BY <1>1, <3>1, ReadTyped DEF MInv, TInv, TypeOK, DriverTypeOK
  <2>3. PICK s \in Ids : s = uart[1].id
    BY <2>2
  <2>4. Announced(s) /\ ~Waiting(s) /\ ~Taken(s) /\ ~ToBeClosed(s) /\ conn[s] # NoConn
    <3>1. 1 \in 1..Len(uart)
      BY <1>1, <2>2
    <3>2. Announced(s)
      BY <2>2, <2>3, <3>1 DEF Announced
    <3>3. QED
      BY <3>2 DEF PlaceInv, OnePlace, PlacedIsOpen, Placed
  <2>5. ~Announced(s)'
    <3> SUFFICES ASSUME NEW i \in 1..Len(uart'), uart'[i].kind = "CONNECT",
                        uart'[i].id = s
                 PROVE  FALSE
      BY DEF Announced
    <3>1. 1 \in 1..Len(uart) /\ i + 1 \in 1..Len(uart) /\ uart'[i] = uart[i + 1]
      BY <1>1, <2>2
    <3>2. i + 1 = 1
      BY <2>2, <2>3, <3>1 DEF PlaceInv, AnnouncedOnce
    <3>3. QED
      BY <3>2
  <2>6. /\ Len(new_connects') = Len(new_connects) + 1 /\ Len(new_connects) \in Nat
        /\ \A k \in 1..Len(new_connects) + 1 : new_connects'[k] =
              IF k = Len(new_connects) + 1 THEN s ELSE new_connects[k]
    BY <1>1, <2>2, <2>3
  <2>7. WaitsOnce'
    <3> SUFFICES ASSUME NEW i \in 1..Len(new_connects) + 1,
                        NEW j \in 1..Len(new_connects) + 1,
                        new_connects'[i] = new_connects'[j], i # j
                 PROVE  FALSE
      BY <2>6 DEF WaitsOnce
    <3>1. \A k \in 1..Len(new_connects) : new_connects[k] # s
      BY <2>4 DEF Waiting
    <3>2. CASE i = Len(new_connects) + 1
      <4>1. j \in 1..Len(new_connects) /\ new_connects'[j] = s
        BY <2>6, <3>2
      <4>2. QED
        BY <2>6, <3>1, <3>2, <4>1
    <3>3. CASE j = Len(new_connects) + 1
      <4>1. i \in 1..Len(new_connects) /\ new_connects'[i] = s
        BY <2>6, <3>3
      <4>2. QED
        BY <2>6, <3>1, <3>3, <4>1
    <3>4. CASE i # Len(new_connects) + 1 /\ j # Len(new_connects) + 1
      <4>1. /\ i \in 1..Len(new_connects) /\ new_connects'[i] = new_connects[i]
            /\ j \in 1..Len(new_connects) /\ new_connects'[j] = new_connects[j]
        BY <2>6, <3>4
      <4>2. QED
        BY <4>1 DEF PlaceInv, WaitsOnce
    <3>5. QED
      BY <3>2, <3>3, <3>4
  <2>8. ASSUME NEW t \in Ids, t # s PROVE Waiting(t)' => Waiting(t)
    <3> SUFFICES ASSUME NEW k \in 1..Len(new_connects) + 1, new_connects'[k] = t
                 PROVE  Waiting(t)
      BY <2>6 DEF Waiting
    <3>1. k \in 1..Len(new_connects) /\ new_connects[k] = t
      BY <2>6, <2>8
    <3>2. QED
      BY <3>1 DEF Waiting
  <2>9. ASSUME NEW t \in Ids PROVE OnePlace(t)' /\ PlacedIsOpen(t)'
    <3>1. CASE t = s
      <4>1. ~Announced(t)' /\ ~Taken(t)' /\ ~ToBeClosed(t)' /\ conn'[t] # NoConn
        BY <1>2, <1>3, <2>4, <2>5, <3>1
      <4>2. QED
        BY <4>1 DEF OnePlace, PlacedIsOpen
    <3>2. CASE t # s
      <4>1. OnePlace(t) /\ PlacedIsOpen(t)
        BY DEF PlaceInv
      <4>2. /\ Announced(t)' => Announced(t)
            /\ Waiting(t)' => Waiting(t)
            /\ Taken(t)' <=> Taken(t)
            /\ ToBeClosed(t)' <=> ToBeClosed(t)
            /\ conn'[t] = conn[t]
        BY <1>2, <1>3, <1>4, <2>8, <3>2
      <4>3. QED
        BY <4>1, <4>2 DEF OnePlace, PlacedIsOpen, Placed
    <3>3. QED
      BY <3>1, <3>2
  <2>10. QED
    BY <1>3, <1>4, <2>7, <2>9 DEF PlaceInv
<1>7. QED
  BY <1>5, <1>6

(* The command task closes a link that has no place. *)
LEMMA CommanderPlaces ==
    ASSUME MInv, MInv', PlaceInv, vESP8266TTask, UNCHANGED task
    PROVE  PlaceInv'
<1>1. /\ uart \in Seq(Message) /\ uart' \in Seq(Message)
      /\ conn \in [Ids -> 0..MaxConn]
  BY DEF MInv, TInv, TypeOK, DriverTypeOK, ChipTypeOK
<1>2. UNCHANGED <<new_connects, working, clisock>>
  BY DEF vESP8266TTask, TakeToCommand, SendHeader, SendPayload, NoPrompt,
         ReadSendOk, SendEnd, CloseHeader, ReadClosed, GiveCommanded, Suspend,
         ReadAnswer, Commander, queues, task, slots
<1>3. WaitsOnce' /\ OneSlotPerSocket'
      /\ \A s \in Ids : (Waiting(s)' <=> Waiting(s)) /\ (Taken(s)' <=> Taken(s))
  BY <1>2 DEF PlaceInv, WaitsOnce, OneSlotPerSocket, Waiting, Taken
<1>4. (\A s : Announced(s)' => Announced(s)) /\ AnnouncedOnce'
  BY <1>1, CommanderMovesRing, MovesAnnounced DEF MInv, PlaceInv, LinkKinds
<1>5. \A s \in Ids : ToBeClosed(s)' => ToBeClosed(s)
  <2>1. command' \in {command, "none"} /\ (tpc = "closed" => command' = "none")
    BY DEF vESP8266TTask, TakeToCommand, SendHeader, SendPayload, NoPrompt,
         ReadSendOk, SendEnd, CloseHeader, ReadClosed, GiveCommanded, Suspend,
         ReadAnswer, Commander, Same, MInv, IInv, CommandHeld, CarryingOut
  <2>2. QED
    BY <1>2, <2>1 DEF ToBeClosed
<1>6. CASE CloseHeader
  <2>1. tpc = "close" /\ tpc' = "closed" /\ command = "close"
    BY <1>6 DEF CloseHeader, Commander, MInv, CommandMatches
  <2>2. ASSUME NEW s \in Ids
        PROVE  /\ s # working => conn'[s] = conn[s]
               /\ s = working => ~Placed(s) /\ ToBeClosed(s)
               /\ ~ToBeClosed(s)'
    <3>1. s # working => conn'[s] = conn[s]
      BY <1>1, <1>6 DEF CloseHeader
    <3>2. s = working => ToBeClosed(s)
      BY <2>1 DEF ToBeClosed
    <3>3. ~ToBeClosed(s)'
      BY <2>1 DEF ToBeClosed
    <3>4. QED
      BY <3>1, <3>2, <3>3 DEF PlaceInv, PlacedIsOpen
  <2>3. ASSUME NEW s \in Ids PROVE OnePlace(s)' /\ PlacedIsOpen(s)'
    <3>1. OnePlace(s) /\ PlacedIsOpen(s)
      BY DEF PlaceInv
    <3>2. Placed(s)' => Placed(s)
      BY <1>3, <1>4 DEF Placed
    <3>3. PlacedIsOpen(s)'
      BY <2>2, <3>1, <3>2 DEF PlacedIsOpen
    <3>4. OnePlace(s)'
      BY <1>3, <1>4, <3>1 DEF OnePlace
    <3>5. QED
      BY <3>3, <3>4
  <2>4. QED
    BY <1>3, <1>4, <2>3 DEF PlaceInv
<1>7. CASE ~CloseHeader
  <2>1. conn' = conn
    BY <1>7 DEF vESP8266TTask, TakeToCommand, SendHeader, SendPayload, NoPrompt,
         ReadSendOk, SendEnd, ReadClosed, GiveCommanded, Suspend, peers
  <2>2. QED
    BY <1>3, <1>4, <1>5, <2>1, Leaving
<1>8. QED
  BY <1>6, <1>7

LEMMA StartupPlaces ==
    ASSUME MInv, MInv', PlaceInv, MicroHTTPServer_task
    PROVE  PlaceInv'
<1>1. uart \in Seq(Message) /\ uart' \in Seq(Message)
  BY DEF MInv, TInv, TypeOK, DriverTypeOK, ChipTypeOK
<1>2. /\ UNCHANGED <<new_connects, clisock, conn>>
      /\ UNCHANGED <<command, working, tpc>> \/ working' = Svr
  <2>1. CASE HTTPServerClose
    BY <2>1 DEF HTTPServerClose, Server, Resume, queues, slots, peers
  <2>2. CASE ~HTTPServerClose
    BY <2>2 DEF MicroHTTPServer_task, Initialized, Linked, AwaitState,
       JoinAccessPoint, HaveInterfaceIP, BindTcpSocket, BindFails, Command,
       Answer, Startup, Server, queues, order, slots, peers
  <2>3. QED
    BY <2>1, <2>2
<1>3. /\ WaitsOnce' /\ OneSlotPerSocket'
      /\ \A s \in Ids : /\ Waiting(s)' <=> Waiting(s)
                        /\ Taken(s)' <=> Taken(s)
                        /\ ToBeClosed(s)' => ToBeClosed(s)
  BY <1>2, LinkAssumption
     DEF PlaceInv, WaitsOnce, OneSlotPerSocket, Waiting, Taken, ToBeClosed
<1>4. (\A s : Announced(s)' => Announced(s)) /\ AnnouncedOnce'
  BY <1>1, StartupMovesRing, MovesAnnounced DEF MInv, PlaceInv, LinkKinds
<1>5. QED
  BY <1>2, <1>3, <1>4, Leaving

(* The first free slot is one slot. *)
LEMMA AcceptedOnce ==
    ASSUME NEW i \in Slots, NEW j \in Slots, FirstFree(i), FirstFree(j)
    PROVE  i = j
<1>1. i \in Nat /\ j \in Nat /\ 1 <= i /\ 1 <= j
  BY ServerAssumption DEF Slots
<1>2. ~(i < j)
  <2> SUFFICES ASSUME i < j PROVE FALSE
    OBVIOUS
  <2>1. i \in 1..j-1
    BY <1>1
  <2>2. QED
    BY <2>1 DEF FirstFree
<1>3. ~(j < i)
  <2> SUFFICES ASSUME j < i PROVE FALSE
    OBVIOUS
  <2>1. j \in 1..i-1
    BY <1>1
  <2>2. QED
    BY <2>1 DEF FirstFree
<1>4. QED
  BY <1>1, <1>2, <1>3

(* The server moves a link from those that wait to a slot, and gives the   *)
(* command to close it as it frees the slot.                               *)
LEMMA RunPlaces ==
    ASSUME MInv, MInv', PlaceInv, HTTPServerRun
    PROVE  PlaceInv'
<1>1. /\ clisock \in [Slots -> Ids \cup {NoSock}] /\ new_connects \in Seq(Ids)
      /\ cur \in Slots
  BY DEF MInv, TInv, TypeOK, DriverTypeOK, SocketsTypeOK, SlotsTypeOK
<1>2. uart' = uart /\ conn' = conn
  BY RunLeaves
<1>3. AnnouncedOnce' /\ \A s \in Ids : Announced(s)' <=> Announced(s)
  BY <1>2 DEF PlaceInv, AnnouncedOnce, Announced
<1>4. CASE _HTTPServerAccept
  <2>1. /\ new_connects # <<>> /\ new_connects' = Tail(new_connects)
        /\ clisock' = [i \in Slots |-> IF FirstFree(i) THEN Head(new_connects)
                                       ELSE clisock[i]]
        /\ UNCHANGED <<command, working, tpc>>
    BY <1>4 DEF _HTTPServerAccept, order
  <2>2. PICK s \in Ids : s = Head(new_connects)
    BY <1>1, <2>1
  <2>3. /\ Waiting(s) /\ ~Announced(s) /\ ~Taken(s) /\ ~ToBeClosed(s)
        /\ conn[s] # NoConn
    <3>1. 1 \in 1..Len(new_connects) /\ new_connects[1] = s
      BY <1>1, <2>1, <2>2
    <3>2. Waiting(s)
      BY <3>1 DEF Waiting
    <3>3. QED
      BY <3>2 DEF PlaceInv, OnePlace, PlacedIsOpen, Placed
  <2>4. \A k \in 1..Len(new_connects') :
            /\ k + 1 \in 1..Len(new_connects) /\ 1 \in 1..Len(new_connects)
            /\ new_connects'[k] = new_connects[k + 1]
    BY <1>1, <2>1
  <2>5. WaitsOnce'
    <3> SUFFICES ASSUME NEW i \in 1..Len(new_connects'), NEW j \in 1..Len(new_connects'),
                        new_connects'[i] = new_connects'[j]
                 PROVE  i = j
      BY DEF WaitsOnce
    <3>1. i + 1 = j + 1
      BY <2>4 DEF PlaceInv, WaitsOnce
    <3>2. QED
      BY <3>1
  <2>6. ~Waiting(s)'
    <3> SUFFICES ASSUME NEW k \in 1..Len(new_connects'), new_connects'[k] = s
                 PROVE  FALSE
      BY DEF Waiting
    <3>1. new_connects[k + 1] = new_connects[1]
      BY <1>1, <2>1, <2>2, <2>4
    <3>2. k + 1 = 1
      BY <2>4, <3>1 DEF PlaceInv, WaitsOnce
    <3>3. QED
      BY <3>2
  <2>7. \A t : Waiting(t)' => Waiting(t)
    BY <2>4 DEF Waiting
  <2>8. \A t \in Ids : t # s => (Taken(t)' => Taken(t))
    BY <2>1, <2>2 DEF Taken
  <2>9. OneSlotPerSocket'
    <3> SUFFICES ASSUME NEW i \in Slots, NEW j \in Slots, i # j,
                        clisock'[i] = clisock'[j], clisock'[i] # NoSock
                 PROVE  FALSE
      BY DEF OneSlotPerSocket
    <3>1. \A k \in Slots : clisock[k] # s
      BY <2>3 DEF Taken
    <3>2. \A k \in Slots : clisock'[k] = IF FirstFree(k) THEN s ELSE clisock[k]
      BY <2>1, <2>2
    <3>3. CASE FirstFree(i) \/ FirstFree(j)
      BY <3>1, <3>2, <3>3, AcceptedOnce
    <3>4. CASE ~FirstFree(i) /\ ~FirstFree(j)
      BY <3>2, <3>4 DEF PlaceInv, OneSlotPerSocket
    <3>5. QED
      BY <3>3, <3>4
  <2>10. ASSUME NEW t \in Ids PROVE OnePlace(t)' /\ PlacedIsOpen(t)'
    <3>0. ToBeClosed(t)' <=> ToBeClosed(t)
      BY <2>1 DEF ToBeClosed
    <3>1. CASE t = s
      <4>1. ~Announced(t)' /\ ~Waiting(t)' /\ ~ToBeClosed(t)' /\ conn'[t] # NoConn
        BY <1>2, <1>3, <2>3, <2>6, <3>0, <3>1
      <4>2. QED
        BY <4>1 DEF OnePlace, PlacedIsOpen
    <3>2. CASE t # s
      <4>1. OnePlace(t) /\ PlacedIsOpen(t)
        BY DEF PlaceInv
      <4>2. /\ Announced(t)' <=> Announced(t)
            /\ Waiting(t)' => Waiting(t)
            /\ Taken(t)' => Taken(t)
            /\ conn'[t] = conn[t]
        BY <1>2, <1>3, <2>7, <2>8, <3>2
      <4>3. QED
        BY <3>0, <4>1, <4>2 DEF OnePlace, PlacedIsOpen, Placed
    <3>3. QED
      BY <3>1, <3>2
  <2>11. QED
    BY <1>3, <2>5, <2>9, <2>10 DEF PlaceInv
<1>5. ASSUME new_connects' = new_connects
      PROVE  WaitsOnce' /\ \A s \in Ids : Waiting(s)' <=> Waiting(s)
  BY <1>5 DEF PlaceInv, WaitsOnce, Waiting
<1>6. CASE CloseUnused \/ ShutdownSocket
  <2>1. PICK s \in Ids : s = clisock[cur]
    BY <1>1, <1>6 DEF CloseUnused, ShutdownSocket, NextSlot, Loop, Server, MInv,
                      TInv, SlotTaken, AtSlot
  <2>2. /\ new_connects' = new_connects
        /\ clisock' = [clisock EXCEPT ![cur] = NoSock]
        /\ \/ UNCHANGED <<command, working, tpc>>
           \/ working' = s
    BY <1>6, <2>1 DEF CloseUnused, ShutdownSocket, FreeSlot, Quietly, Resume,
                      queues, order
  <2>3. \A i \in Slots : clisock'[i] = IF i = cur THEN NoSock ELSE clisock[i]
    BY <1>1, <2>2
  <2>4. OneSlotPerSocket'
    BY <2>3 DEF PlaceInv, OneSlotPerSocket
  <2>5. \A t \in Ids : Taken(t)' => Taken(t)
    BY <2>3, SlotAssumption DEF Taken
  <2>6. ~Taken(s)'
    BY <1>1, <2>1, <2>3, SlotAssumption DEF PlaceInv, OneSlotPerSocket, Taken
  <2>7. Taken(s)
    BY <1>1, <2>1 DEF Taken
  <2>8. \A t \in Ids : t # s => (ToBeClosed(t)' => ToBeClosed(t))
    BY <2>2 DEF ToBeClosed
  <2>9. ASSUME NEW t \in Ids PROVE OnePlace(t)' /\ PlacedIsOpen(t)'
    <3>1. OnePlace(t) /\ PlacedIsOpen(t)
      BY DEF PlaceInv
    <3>2. /\ Announced(t)' <=> Announced(t)
          /\ Waiting(t)' <=> Waiting(t)
          /\ Taken(t)' => Taken(t)
          /\ conn'[t] = conn[t]
      BY <1>2, <1>3, <1>5, <2>2, <2>5
    <3>3. CASE t = s
      <4>1. ~Announced(t)' /\ ~Waiting(t)' /\ ~Taken(t)' /\ conn'[t] # NoConn
        BY <2>6, <2>7, <3>1, <3>2, <3>3 DEF OnePlace, PlacedIsOpen, Placed
      <4>2. QED
        BY <4>1 DEF OnePlace, PlacedIsOpen, Placed
    <3>4. CASE t # s
      BY <2>8, <3>1, <3>2, <3>4 DEF OnePlace, PlacedIsOpen, Placed
    <3>5. QED
      BY <3>3, <3>4
  <2>10. QED
    BY <1>3, <1>5, <2>2, <2>4, <2>9 DEF PlaceInv
<1>7. CASE ~_HTTPServerAccept /\ ~CloseUnused /\ ~ShutdownSocket
  <2>1. /\ UNCHANGED <<new_connects, clisock>>
        /\ UNCHANGED <<command, working, tpc>> \/ command' = "send"
    BY <1>7 DEF HTTPServerRun, Select, MarkServer, AcceptFails, SkipFreeSlot,
       Visit, Recv, RecvMore, _HTTPServerRequest, WriteSock, WriteNothing,
       SetWriting, SendSocket, KeepSlot, CloseUsed, Poll, StoreState, Quietly,
       Resume, vars, driver, queues, order, slots
  <2>2. /\ OneSlotPerSocket'
        /\ \A s \in Ids : /\ Taken(s)' <=> Taken(s)
                          /\ ToBeClosed(s)' => ToBeClosed(s)
    BY <2>1 DEF PlaceInv, OneSlotPerSocket, Taken, ToBeClosed
  <2>3. QED
    BY <1>2, <1>3, <1>5, <2>1, <2>2, Leaving
<1>8. QED
  BY <1>4, <1>6, <1>7

LEMMA InitPlaces == Init => PlaceInv
<1> SUFFICES ASSUME Init PROVE PlaceInv
  OBVIOUS
<1>1. Len(uart) = 0 /\ Len(new_connects) = 0
  BY DEF Init, InitESP8266
<1>2. \A s \in Ids : ~Placed(s) /\ ~ToBeClosed(s)
  BY <1>1, SlotAssumption
     DEF Init, InitESP8266, Placed, Announced, Waiting, Taken, ToBeClosed
<1>3. AnnouncedOnce /\ WaitsOnce /\ OneSlotPerSocket
  BY <1>1 DEF Init, AnnouncedOnce, WaitsOnce, OneSlotPerSocket
<1>4. QED
  BY <1>2, <1>3 DEF PlaceInv, OnePlace, PlacedIsOpen, Placed

LEMMA NextPlaces ==
    ASSUME ~Impatient, MInv, PlaceInv, [Next]_vars
    PROVE  PlaceInv'
<1>1. MInv'
  BY NextMInv
<1>2. CASE (Chip \/ vESP8266RTask \/ vESP8266TTask) /\ UNCHANGED task
  BY <1>1, <1>2, ChipPlaces, ParserPlaces, CommanderPlaces
<1>3. CASE MicroHTTPServer_task \/ HTTPServerRun
  BY <1>1, <1>3, StartupPlaces, RunPlaces
<1>4. CASE UNCHANGED vars
  <2>1. UNCHANGED <<uart, new_connects, clisock, conn, command, working, tpc>>
    BY <1>4 DEF vars, driver, queues, peers, order, slots
  <2>2. QED
    BY <2>1 DEF PlaceInv, AnnouncedOnce, WaitsOnce, OneSlotPerSocket, OnePlace,
       PlacedIsOpen, Placed, Announced, Waiting, Taken, ToBeClosed
<1>5. QED
  BY <1>2, <1>3, <1>4 DEF Next

LEMMA PlacesInvariant ==
    ASSUME ~Impatient
    PROVE  Spec => [](MInv /\ PlaceInv /\ Numbered)
<1>1. MInv /\ PlaceInv /\ Numbered /\ [Next]_vars => PlaceInv' /\ Numbered'
  BY NextPlaces, NextNumbered
<1>2. QED
  BY <1>1, InitPlaces, InitNumbered, CommandMatched, PTL DEF Spec

(* A socket belongs to one slot. *)
THEOREM OneSlotCorrect ==
    ASSUME ~Impatient
    PROVE  Spec => []OneSlotPerSocket
<1>1. PlaceInv => OneSlotPerSocket
  BY DEF PlaceInv
<1>2. QED
  BY <1>1, PlacesInvariant, PTL

-----------------------------------------------------------------------------
(***************************************************************************)
(* Who has been sent a response.  The connection of a link that the server *)
(* has not given a response for has none, and of one it has given, none    *)
(* before the command task sends it; then the slot will not give another.  *)
(***************************************************************************)
Unsent(s) ==
    \/ Announced(s) \/ Waiting(s)
    \/ \E i \in Slots : clisock[i] = s /\ ~sent[i]

ToBeSent ==
    /\ command = "send"
    /\ tpc \in {"take", "prompt"} \/ (tpc = "send" /\ slen[working] > 0)

SentInv ==
    /\ \A s \in Ids : Unsent(s) => replies[conn[s]] = 0
    /\ ToBeSent => /\ conn[working] # NoConn /\ replies[conn[working]] = 0
                   /\ ~Unsent(working)
    /\ spc \in {"setWriting", "send"} => ~sent[cur]
    /\ AnsweredOnce

PInv == MInv /\ PlaceInv /\ Numbered

LEMMA UnsentIsOpen ==
    ASSUME PlaceInv, NEW s \in Ids, Unsent(s)
    PROVE  Placed(s) /\ conn[s] # NoConn
  BY DEF PlaceInv, PlacedIsOpen, Unsent, Placed, Taken

(* A step that gives and sends nothing. *)
LEMMA NothingSent ==
    ASSUME PInv, SentInv, replies' = replies,
           \A s \in Ids : Unsent(s)' => Unsent(s) /\ conn'[s] = conn[s],
           ToBeSent' => ToBeSent /\ working' = working /\ conn'[working] = conn[working],
           spc' \in {"setWriting", "send"} => ~sent'[cur']
    PROVE  SentInv'
<1>1. \A s \in Ids : (Unsent(s) => replies[conn[s]] = 0)' 
  BY DEF SentInv
<1>2. ToBeSent' => /\ conn'[working'] # NoConn /\ replies'[conn'[working']] = 0
                   /\ ~Unsent(working)'
  <2> SUFFICES ASSUME ToBeSent'
               PROVE  /\ conn'[working'] # NoConn /\ replies'[conn'[working']] = 0
                      /\ ~Unsent(working)'
    OBVIOUS
  <2>1. /\ ToBeSent /\ working' = working /\ conn'[working] = conn[working]
        /\ conn[working] # NoConn /\ replies[conn[working]] = 0 /\ ~Unsent(working)
    BY DEF SentInv
  <2>2. PICK s \in Ids : s = working
    BY <2>1 DEF PInv, Numbered, ToBeSent
  <2>3. ~Unsent(s)' /\ s = working'
    BY <2>1, <2>2
  <2>4. ~Unsent(working)'
    BY <2>3 DEF Unsent, Announced, Waiting
  <2>5. QED
    BY <2>1, <2>4
<1>3. AnsweredOnce'
  BY DEF SentInv, AnsweredOnce
<1>4. QED
  BY <1>1, <1>2, <1>3 DEF SentInv

(* The chip announces what it opens. *)
LEMMA ChipOpens ==
    ASSUME ~Impatient, MInv, MInv', Chip, NEW t \in Ids
    PROVE  \/ PeerConnects(t)
           \/ (Announced(t)' => Announced(t)) /\ conn'[t] = conn[t]
<1>1. /\ uart \in Seq(Message) /\ uart' \in Seq(Message)
      /\ conn \in [Ids -> 0..MaxConn]
  BY DEF MInv, TInv, TypeOK, DriverTypeOK, ChipTypeOK
<1>2. CASE PowerUp \/ GotIp \/ Disconnect
  <2>1. (\E d \in Nat : Moves(d, LinkKinds)) /\ conn' = conn /\ "CONNECT" \in LinkKinds
    BY <1>2, ChipMoves DEF MInv, peers, LinkKinds
  <2>2. QED
    BY <1>1, <2>1, MovesAnnounced
<1>3. ASSUME NEW s \in Ids, PeerSends(s)
      PROVE  (Announced(t)' => Announced(t)) /\ conn'[t] = conn[t]
  <2>1. PICK n \in 1..MaxUnits : Says(Frame(s, n))
    BY <1>3 DEF PeerSends
  <2>2. uart' = uart \o Frame(s, n) /\ Frame(s, n) \in Seq(Message)
    BY <2>1, FrameTyped DEF Says, MInv, TInv, TypeOK, DriverTypeOK
  <2>3. \A i \in 1..Len(Frame(s, n)) : Frame(s, n)[i].kind \in {"+IPD", "data"}
    <3>1. n \in Nat
      BY Esp8266Assumption
    <3>2. QED
      BY <3>1 DEF Frame
  <2>4. \A i \in 1..Len(Frame(s, n)) : Frame(s, n)[i].kind \notin {"CONNECT"}
    BY <2>3
  <2>5. Moves(0, {"CONNECT"})
    BY <1>1, <2>2, <2>4, IsSaid
  <2>6. conn' = conn
    BY <1>3 DEF PeerSends
  <2>7. QED
    BY <1>1, <2>5, <2>6, MovesAnnounced
<1>4. ASSUME NEW s \in Ids, PeerConnects(s), s # t
      PROVE  (Announced(t)' => Announced(t)) /\ conn'[t] = conn[t]
  <2> DEFINE m == LinkLine("CONNECT", s)
  <2>1. /\ uart' = Append(uart, m) /\ m.id = s
        /\ conn' = [conn EXCEPT ![s] = conns + 1]
    BY <1>1, <1>4 DEF PeerConnects, Says, LinkLine
  <2> HIDE DEF m
  <2>2. Len(uart') = Len(uart) + 1 /\ \A i \in 1..Len(uart) + 1 :
             uart'[i] = IF i = Len(uart) + 1 THEN m ELSE uart[i]
    BY <1>1, <2>1
  <2>3. ASSUME NEW i \in 1..Len(uart'), uart'[i].id = t
        PROVE  i \in 1..Len(uart) /\ uart'[i] = uart[i]
    BY <1>1, <1>4, <2>1, <2>2, <2>3
  <2>4. Announced(t)' => Announced(t)
    BY <2>3 DEF Announced
  <2>5. QED
    BY <1>1, <1>4, <2>1, <2>4
<1>5. QED
  BY <1>2, <1>3, <1>4 DEF Chip, PeerCloses

LEMMA ChipSends ==
    ASSUME ~Impatient, PInv, MInv', SentInv, Chip, UNCHANGED task
    PROVE  SentInv'
<1>1. UNCHANGED <<new_connects, command, working, tpc, slen, clisock, sent, spc, cur,
                  replies>>
  BY DEF Chip, PowerUp, GotIp, Disconnect, PeerConnects, PeerSends, PeerCloses,
         Says, socks, queues, order, task, slots, locals
<1>2. \A t \in Ids : (Announced(t)' => Announced(t)) => (Unsent(t)' => Unsent(t))
  BY <1>1 DEF Waiting, Unsent
<1>3. ToBeSent' <=> ToBeSent
  BY <1>1 DEF ToBeSent
<1>4. spc' \in {"setWriting", "send"} => ~sent'[cur']
  BY <1>1 DEF SentInv
<1>5. CASE \E s \in Ids : PeerConnects(s)
  <2>1. PICK s \in Ids : PeerConnects(s)
    BY <1>5
  <2>2. /\ conn[s] = NoConn /\ conns < MaxConn
        /\ conn \in [Ids -> 0..MaxConn] /\ conns \in Nat /\ MaxConn \in Nat
        /\ conn' = [conn EXCEPT ![s] = conns + 1]
    BY <2>1, Esp8266Assumption DEF PeerConnects, PInv, MInv, TInv, TypeOK,
       DriverTypeOK, ChipTypeOK
  <2>3. conn'[s] = conns + 1 /\ \A t \in Ids : t # s => conn'[t] = conn[t]
    BY <2>2
  <2>4. replies[conns + 1] = 0
    BY <2>2 DEF PInv, Numbered, Conns
  <2>5. \A t \in Ids : t # s => ~PeerConnects(t)
    <3>1. SUFFICES ASSUME NEW t \in Ids, t # s, PeerConnects(t) PROVE FALSE
      OBVIOUS
    <3>2. conn'[t] = conns + 1 /\ conn[t] = NoConn
      BY <2>2, <3>1 DEF PeerConnects
    <3>3. QED
      BY <2>2, <2>3, <3>1, <3>2 DEF NoConn
  <2>6. \A t \in Ids : t # s => (Announced(t)' => Announced(t))
    BY <2>5, ChipOpens DEF PInv
  <2>7. \A t \in Ids : Unsent(t)' => replies'[conn'[t]] = 0
    BY <1>1, <1>2, <2>3, <2>4, <2>6 DEF SentInv
  <2>8. ToBeSent' => /\ conn'[working'] # NoConn /\ replies'[conn'[working']] = 0
                     /\ ~Unsent(working)'
    <3> SUFFICES ASSUME ToBeSent'
                 PROVE  /\ conn'[working'] # NoConn /\ replies'[conn'[working']] = 0
                        /\ ~Unsent(working)'
      OBVIOUS
    <3>1. /\ conn[working] # NoConn /\ replies[conn[working]] = 0
          /\ ~Unsent(working)
      BY <1>3 DEF SentInv
    <3>2. PICK w \in Ids : w = working
      BY <1>3 DEF PInv, Numbered, ToBeSent
    <3>3. w # s
      BY <2>2, <3>1, <3>2
    <3>4. conn'[w] = conn[w] /\ ~Unsent(w)'
      BY <1>2, <2>3, <2>6, <3>1, <3>2, <3>3
    <3>5. ~Unsent(working)'
      BY <1>1, <3>2, <3>4 DEF Unsent, Announced, Waiting
    <3>6. QED
      BY <1>1, <3>1, <3>2, <3>4, <3>5
  <2>9. AnsweredOnce'
    BY <1>1 DEF SentInv, AnsweredOnce
  <2>10. QED
    BY <1>4, <2>7, <2>8, <2>9 DEF SentInv
<1>6. CASE ~\E s \in Ids : PeerConnects(s)
  <2>1. \A t \in Ids : (Announced(t)' => Announced(t)) /\ conn'[t] = conn[t]
    BY <1>6, ChipOpens DEF PInv
  <2>2. ToBeSent' => working \in Ids
    BY <1>3 DEF PInv, Numbered, ToBeSent
  <2>3. QED
    BY <1>1, <1>2, <1>3, <1>4, <2>1, <2>2, NothingSent
<1>7. QED
  BY <1>5, <1>6

LEMMA ParserSends ==
    ASSUME PInv, MInv', SentInv, vESP8266RTask, UNCHANGED task
    PROVE  SentInv'
<1>1. /\ uart \in Seq(Message) /\ uart' \in Seq(Message)
      /\ new_connects \in Seq(Ids)
      /\ slen \in [Ids -> {0, 1}] /\ slen' \in [Ids -> {0, 1}]
  BY DEF PInv, MInv, TInv, TypeOK, DriverTypeOK, ChipTypeOK, SocketsTypeOK
<1>2. UNCHANGED <<command, working, tpc, spc, clisock, sent, cur, conn, replies>>
  BY DEF vESP8266RTask, TakeToParse, GetClientConnented, NotifyServer,
         GetClientClosed, GetClientRequest, ReadPayload, NotifySocket, ReadStatus,
         ReadUseless, GiveParsed, ReadLine, Parser, order, peers, task, slots, locals
<1>3. \A t : Announced(t)' => Announced(t)
  BY <1>1, ParserMovesRing, MovesAnnounced DEF PInv, MInv, LinkKinds
<1>4. \A t \in Ids : Waiting(t)' => Waiting(t) \/ Announced(t)
  <2>1. CASE new_connects' = new_connects
    BY <2>1 DEF Waiting
  <2>2. CASE new_connects' # new_connects
    <3>1. GetClientConnented
      BY <2>2 DEF vESP8266RTask, TakeToParse, NotifyServer, GetClientClosed,
         GetClientRequest, ReadPayload, NotifySocket, ReadStatus, ReadUseless,
         GiveParsed, queues
    <3>2. /\ uart # <<>> /\ uart[1].kind = "CONNECT"
          /\ new_connects' = Append(new_connects, uart[1].id)
      BY <1>1, <2>2, <3>1 DEF GetClientConnented, ReadLine
    <3>3. 1 \in 1..Len(uart)
      BY <1>1, <3>2
    <3>4. ASSUME NEW t \in Ids, NEW k \in 1..Len(new_connects'), new_connects'[k] = t
          PROVE  Waiting(t) \/ Announced(t)
      <4>1. \/ k \in 1..Len(new_connects) /\ new_connects[k] = t
            \/ uart[1].id = t
        BY <1>1, <3>2, <3>4
      <4>2. QED
        BY <3>2, <3>3, <4>1 DEF Waiting, Announced
    <3>5. QED
      BY <3>4 DEF Waiting
  <2>3. QED
    BY <2>1, <2>2
<1>5. \A t \in Ids : Unsent(t)' => Unsent(t)
  BY <1>2, <1>3, <1>4 DEF Unsent
<1>6. \A s \in Ids : slen'[s] > 0 => slen[s] > 0
  <2>1. CASE GetClientConnented
    <3>1. \A s \in Ids : slen'[s] \in {0, slen[s]}
      BY <1>1, <2>1 DEF GetClientConnented, NewSocket
    <3>2. QED
      BY <1>1, <3>1
  <2>2. CASE ~GetClientConnented
    <3>1. slen' = slen
      BY <2>2 DEF vESP8266RTask, TakeToParse, NotifyServer, GetClientClosed,
         GetClientRequest, ReadPayload, NotifySocket, ReadStatus, ReadUseless,
         GiveParsed, socks
    <3>2. QED
      BY <3>1
  <2>3. QED
    BY <2>1, <2>2
<1>7. ToBeSent' => ToBeSent
  <2>1. command = "send" => working \in Ids
    BY DEF PInv, Numbered
  <2>2. QED
    BY <1>2, <1>6, <2>1 DEF ToBeSent
<1>8. QED
  BY <1>2, <1>5, <1>7, NothingSent DEF SentInv

LEMMA CommanderSends ==
    ASSUME PInv, MInv', SentInv, vESP8266TTask, UNCHANGED task
    PROVE  SentInv'
<1>1. /\ uart \in Seq(Message) /\ uart' \in Seq(Message)
      /\ conn \in [Ids -> 0..MaxConn] /\ slen \in [Ids -> {0, 1}]
      /\ replies \in [Conns -> Nat]
  BY DEF PInv, MInv, TInv, TypeOK, DriverTypeOK, ChipTypeOK, SocketsTypeOK
<1>2. UNCHANGED <<new_connects, working, clisock, sent, spc, cur>>
  BY DEF vESP8266TTask, TakeToCommand, SendHeader, SendPayload, NoPrompt,
         ReadSendOk, SendEnd, CloseHeader, ReadClosed, GiveCommanded, Suspend,
         ReadAnswer, Commander, queues, task, slots, locals
<1>3. \A t : Announced(t)' => Announced(t)
  BY <1>1, CommanderMovesRing, MovesAnnounced DEF PInv, MInv, LinkKinds
<1>4. \A t \in Ids : Unsent(t)' => Unsent(t)
  BY <1>2, <1>3 DEF Unsent, Waiting
<1>5. spc' \in {"setWriting", "send"} => ~sent'[cur']
  BY <1>2 DEF SentInv
<1>6. ToBeSent' => ToBeSent /\ ~CloseHeader /\ ~SendPayload
  <2>1. tpc = "take" => command \in {"send", "close"}
    BY DEF PInv, MInv, IInv, CommandHeld
  <2>2. command = "send" => working \in Ids
    BY DEF PInv, Numbered
  <2>3. CASE TakeToCommand
    BY <1>2, <2>1, <2>3 DEF TakeToCommand, Commander, ToBeSent, CloseHeader,
       SendPayload, ReadAnswer
  <2>4. CASE SendHeader
    BY <1>2, <2>4 DEF SendHeader, Commander, Same, ToBeSent, CloseHeader,
       SendPayload, ReadAnswer
  <2>5. CASE ReadSendOk
    <3>1. slen' = [slen EXCEPT ![working] = 0] /\ command' = command /\ tpc' = "send"
      BY <2>5 DEF ReadSendOk, ReadAnswer, Commander
    <3>2. command = "send" => slen'[working] = 0
      BY <1>1, <2>2, <3>1
    <3>3. QED
      BY <1>2, <3>1, <3>2 DEF ToBeSent
  <2>6. CASE SendPayload \/ NoPrompt \/ SendEnd \/ CloseHeader \/ ReadClosed
             \/ GiveCommanded \/ Suspend
    BY <2>6 DEF SendPayload, NoPrompt, SendEnd, CloseHeader, ReadClosed,
       GiveCommanded, Suspend, ReadAnswer, Commander, ToBeSent
  <2>7. QED
    BY <2>3, <2>4, <2>5, <2>6 DEF vESP8266TTask
<1>7. CASE SendPayload
  <2>1. tpc = "prompt" /\ command = "send" /\ ~ToBeSent' /\ conn' = conn
    BY <1>6, <1>7 DEF SendPayload, ReadAnswer, Commander, PInv, MInv, CommandMatches,
                      peers
  <2>2. ToBeSent
    BY <2>1 DEF ToBeSent
  <2>3. PICK w \in Ids : w = working
    BY <2>1 DEF PInv, Numbered
  <2>4. conn[w] # NoConn /\ replies[conn[w]] = 0 /\ ~Unsent(w)
    BY <2>2, <2>3 DEF SentInv
  <2>5. \A c \in Conns : replies'[c] = replies[c] + (IF c = conn[w] THEN 1 ELSE 0)
    BY <1>7, <2>3 DEF SendPayload
  <2>6. AnsweredOnce'
    <3>1. \A c \in Conns : replies[c] \in Nat /\ replies[c] <= 1
      BY <1>1 DEF SentInv, AnsweredOnce
    <3>2. \A c \in Conns : replies'[c] <= 1
      BY <2>4, <2>5, <3>1
    <3>3. QED
      BY <3>2 DEF AnsweredOnce
  <2>7. ASSUME NEW s \in Ids, Unsent(s)' PROVE replies'[conn'[s]] = 0
    <3>1. Unsent(s) /\ s # w /\ conn[s] # NoConn
      BY <1>4, <2>4, <2>7, UnsentIsOpen DEF PInv
    <3>2. conn[s] # conn[w] /\ replies[conn[s]] = 0
      BY <2>4, <3>1 DEF SentInv, PInv, Numbered
    <3>3. conn[s] \in Conns
      BY <1>1, <3>1, Esp8266Assumption DEF Conns, NoConn
    <3>4. QED
      BY <2>1, <2>5, <3>2, <3>3
  <2>8. QED
    BY <1>5, <2>1, <2>6, <2>7 DEF SentInv
<1>8. CASE CloseHeader
  <2>1. tpc = "close" /\ command = "close" /\ replies' = replies
        /\ \A s \in Ids : s # working => conn'[s] = conn[s]
    BY <1>1, <1>8 DEF CloseHeader, Commander, PInv, MInv, CommandMatches
  <2>2. ASSUME NEW s \in Ids, Unsent(s) PROVE s # working
    <3>1. Placed(s)
      BY <2>2, UnsentIsOpen DEF PInv
    <3>2. ~ToBeClosed(s)
      BY <3>1 DEF PInv, PlaceInv, PlacedIsOpen
    <3>3. QED
      BY <2>1, <3>2 DEF ToBeClosed
  <2>3. \A s \in Ids : Unsent(s)' => Unsent(s) /\ conn'[s] = conn[s]
    BY <1>4, <2>1, <2>2
  <2>4. QED
    BY <1>5, <1>6, <1>8, <2>1, <2>3, NothingSent
<1>9. CASE ~SendPayload /\ ~CloseHeader
  <2>1. UNCHANGED <<conn, replies>>
    BY <1>9 DEF vESP8266TTask, TakeToCommand, SendHeader, NoPrompt,
         ReadSendOk, SendEnd, ReadClosed, GiveCommanded, Suspend, peers
  <2>2. QED
    BY <1>2, <1>4, <1>5, <1>6, <2>1, NothingSent
<1>10. QED
  BY <1>7, <1>8, <1>9

LEMMA StartupSends ==
    ASSUME PInv, MInv', SentInv, MicroHTTPServer_task
    PROVE  SentInv'
<1>1. uart \in Seq(Message) /\ uart' \in Seq(Message)
  BY DEF PInv, MInv, TInv, TypeOK, DriverTypeOK, ChipTypeOK
<1>2. /\ UNCHANGED <<new_connects, clisock, sent, cur, conn, replies, slen>>
      /\ spc' \notin {"setWriting", "send"}
      /\ UNCHANGED <<command, working, tpc>> \/ command' = "close"
  <2>1. CASE HTTPServerClose
    BY <2>1 DEF HTTPServerClose, Server, Resume, socks, queues, slots, locals, peers
  <2>2. CASE ~HTTPServerClose
    BY <2>2 DEF MicroHTTPServer_task, Initialized, Linked, AwaitState,
       JoinAccessPoint, HaveInterfaceIP, BindTcpSocket, BindFails, Command,
       Answer, Startup, Server, socks, queues, order, slots, locals, peers
  <2>3. QED
    BY <2>1, <2>2
<1>3. \A t : Announced(t)' => Announced(t)
  BY <1>1, StartupMovesRing, MovesAnnounced DEF PInv, MInv, LinkKinds
<1>4. \A t \in Ids : Unsent(t)' => Unsent(t)
  BY <1>2, <1>3 DEF Unsent, Waiting
<1>5. ToBeSent' => ToBeSent /\ working' = working
  BY <1>2 DEF ToBeSent
<1>6. QED
  BY <1>2, <1>4, <1>5, NothingSent

LEMMA RunSends ==
    ASSUME PInv, MInv', SentInv, HTTPServerRun
    PROVE  SentInv'
<1>1. /\ clisock \in [Slots -> Ids \cup {NoSock}] /\ new_connects \in Seq(Ids)
      /\ cur \in Slots /\ sent \in [Slots -> BOOLEAN]
  BY DEF PInv, MInv, TInv, TypeOK, DriverTypeOK, SocketsTypeOK, SlotsTypeOK
<1>2. uart' = uart /\ conn' = conn /\ replies' = replies
  BY RunLeaves
<1>3. \A t : Announced(t)' <=> Announced(t)
  BY <1>2 DEF Announced
<1>4. CASE _HTTPServerAccept
  <2>1. /\ new_connects # <<>> /\ new_connects' = Tail(new_connects)
        /\ clisock' = [i \in Slots |-> IF FirstFree(i) THEN Head(new_connects)
                                       ELSE clisock[i]]
        /\ sent' = [i \in Slots |-> ~FirstFree(i) /\ sent[i]]
        /\ UNCHANGED <<command, working, tpc, slen>> /\ spc' = "mark"
    BY <1>4 DEF _HTTPServerAccept, Loop, Server, order, socks
  <2>2. PICK s \in Ids : s = Head(new_connects)
    BY <1>1, <2>1
  <2>3. 1 \in 1..Len(new_connects) /\ new_connects[1] = s
    BY <1>1, <2>1, <2>2
  <2>4. Waiting(s)
    BY <2>3 DEF Waiting
  <2>5. \A k \in 1..Len(new_connects') :
            k + 1 \in 1..Len(new_connects) /\ new_connects'[k] = new_connects[k + 1]
    BY <1>1, <2>1
  <2>6. \A t : Waiting(t)' => Waiting(t)
    BY <2>5 DEF Waiting
  <2>7. ASSUME NEW t \in Ids, NEW i \in Slots, clisock'[i] = t, ~sent'[i]
        PROVE  Unsent(t)
    <3>1. CASE FirstFree(i)
      BY <2>1, <2>2, <2>4, <2>7, <3>1 DEF Unsent
    <3>2. CASE ~FirstFree(i)
      BY <2>1, <2>7, <3>2 DEF Unsent
    <3>3. QED
      BY <3>1, <3>2
  <2>8. \A t \in Ids : Unsent(t)' => Unsent(t)
    BY <1>3, <2>6, <2>7 DEF Unsent
  <2>9. ToBeSent' => ToBeSent /\ working' = working
    BY <2>1 DEF ToBeSent
  <2>10. QED
    BY <1>2, <2>1, <2>8, <2>9, NothingSent
<1>5. CASE SendSocket
  <2>1. /\ spc = "send" /\ spc' = "close" /\ UNCHANGED <<new_connects, clisock, cur>>
        /\ sent' = [sent EXCEPT ![cur] = TRUE]
        /\ command' = "send" /\ working' = clisock[cur]
    BY <1>5 DEF SendSocket, Loop, Server, Resume, queues, locals
  <2>2. PICK s \in Ids : s = clisock[cur]
    BY <1>1, <2>1 DEF PInv, MInv, TInv, SlotTaken, AtSlot
  <2>3. ~sent[cur]
    BY <2>1 DEF SentInv
  <2>4. Unsent(s) /\ Taken(s)
    BY <1>1, <2>2, <2>3 DEF Unsent, Taken
  <2>5. replies[conn[s]] = 0 /\ conn[s] # NoConn /\ ~Announced(s) /\ ~Waiting(s)
    BY <2>4, UnsentIsOpen DEF SentInv, PInv, PlaceInv, OnePlace
  <2>6. \A i \in Slots : clisock[i] = s => i = cur
    BY <1>1, <2>2, SlotAssumption DEF PInv, PlaceInv, OneSlotPerSocket
  <2>7. \A i \in Slots : ~sent'[i] => ~sent[i] /\ i # cur
    BY <1>1, <2>1
  <2>8. \A t \in Ids : Unsent(t)' => Unsent(t) /\ t # s
    BY <1>3, <2>1, <2>5, <2>6, <2>7 DEF Unsent, Waiting
  <2>9. ~Unsent(working)'
    <3>1. ~Unsent(s)' /\ s = working'
      BY <2>1, <2>2, <2>8
    <3>2. QED
      BY <3>1 DEF Unsent, Announced, Waiting
  <2>10. /\ \A t \in Ids : Unsent(t)' => replies'[conn'[t]] = 0
         /\ conn'[working'] # NoConn /\ replies'[conn'[working']] = 0
    BY <1>2, <2>1, <2>2, <2>5, <2>8 DEF SentInv
  <2>11. AnsweredOnce'
    BY <1>2 DEF SentInv, AnsweredOnce
  <2>12. QED
    BY <2>1, <2>9, <2>10, <2>11 DEF SentInv
<1>6. CASE CloseUnused \/ ShutdownSocket
  <2>1. /\ UNCHANGED <<new_connects, sent, slen>>
        /\ clisock' = [clisock EXCEPT ![cur] = NoSock]
        /\ UNCHANGED <<command, working, tpc>> \/ command' = "close"
        /\ spc' \notin {"setWriting", "send"}
    BY <1>6 DEF CloseUnused, ShutdownSocket, FreeSlot, NextSlot, Loop, Server,
                Quietly, Resume, socks, queues, order
  <2>2. \A t \in Ids : Unsent(t)' => Unsent(t)
    BY <1>1, <1>3, <2>1, SlotAssumption DEF Unsent, Waiting
  <2>3. ToBeSent' => ToBeSent /\ working' = working
    BY <2>1 DEF ToBeSent
  <2>4. QED
    BY <1>2, <2>1, <2>2, <2>3, NothingSent
<1>7. CASE ~_HTTPServerAccept /\ ~SendSocket /\ ~CloseUnused /\ ~ShutdownSocket
  <2>1. UNCHANGED <<new_connects, clisock, sent, slen, command, working, tpc>>
    BY <1>7 DEF HTTPServerRun, Select, MarkServer, AcceptFails, SkipFreeSlot,
       Visit, Recv, RecvMore, _HTTPServerRequest, WriteSock, WriteNothing,
       SetWriting, KeepSlot, CloseUsed, Poll, StoreState, Quietly,
       vars, driver, socks, queues, order, slots
  <2>2. spc' \in {"setWriting", "send"} => ~sent'[cur']
    <3>1. CASE WriteSock \/ SetWriting \/ Poll
      BY <2>1, <3>1 DEF WriteSock, SetWriting, StoreState, Poll, vars, driver,
                        locals, Loop, Server, SentInv
    <3>2. CASE ~WriteSock /\ ~SetWriting /\ ~Poll
      BY <1>7, <3>2 DEF HTTPServerRun, Select, MarkServer, AcceptFails,
         SkipFreeSlot, Visit, Recv, RecvMore, _HTTPServerRequest, WriteNothing,
         KeepSlot, CloseUsed, NextSlot, Loop, Server
    <3>3. QED
      BY <3>1, <3>2
  <2>3. \A t \in Ids : Unsent(t)' => Unsent(t)
    BY <1>3, <2>1 DEF Unsent, Waiting
  <2>4. ToBeSent' => ToBeSent /\ working' = working
    BY <2>1 DEF ToBeSent
  <2>5. QED
    BY <1>2, <2>2, <2>3, <2>4, NothingSent
<1>8. QED
  BY <1>4, <1>5, <1>6, <1>7

LEMMA SentInvariant ==
    ASSUME ~Impatient
    PROVE  Spec => [](PInv /\ SentInv)
<1>1. Init => SentInv
  <2> SUFFICES ASSUME Init PROVE SentInv
    OBVIOUS
  <2>1. \A s \in Ids : ~Unsent(s)
    BY SlotAssumption
       DEF Init, InitESP8266, Unsent, Announced, Waiting
  <2>2. QED
    BY <2>1 DEF Init, InitESP8266, SentInv, ToBeSent, AnsweredOnce
<1>2. PInv /\ PInv' /\ SentInv /\ [Next]_vars => SentInv'
  <2> SUFFICES ASSUME PInv, PInv', SentInv, [Next]_vars PROVE SentInv'
    OBVIOUS
  <2>1. MInv'
    BY DEF PInv
  <2>2. CASE (Chip \/ vESP8266RTask \/ vESP8266TTask) /\ UNCHANGED task
    BY <2>1, <2>2, ChipSends, ParserSends, CommanderSends
  <2>3. CASE MicroHTTPServer_task \/ HTTPServerRun
    BY <2>1, <2>3, StartupSends, RunSends
  <2>4. CASE UNCHANGED vars
    <3>1. UNCHANGED <<uart, new_connects, clisock, sent, conn, command, working, tpc,
                      spc, cur, slen, replies>>
      BY <2>4 DEF vars, driver, socks, queues, peers, order, slots, locals
    <3>2. QED
      BY <3>1 DEF SentInv, ToBeSent, Unsent, Announced, Waiting, AnsweredOnce
  <2>5. QED
    BY <2>2, <2>3, <2>4 DEF Next
<1>3. QED
  BY <1>1, <1>2, PlacesInvariant, PTL DEF Spec, PInv

(* No connection is sent a response twice. *)
THEOREM AnsweredOnceCorrect ==
    ASSUME ~Impatient
    PROVE  Spec => []AnsweredOnce
<1>1. SentInv => AnsweredOnce
  BY DEF SentInv
<1>2. QED
  BY <1>1, SentInvariant, PTL

-----------------------------------------------------------------------------
(***************************************************************************)
(* Whose bytes a socket is given.  The payload in the ring that came after *)
(* the last announcement of its link, and the payload queued since then,   *)
(* are of the connection that the link has now; there is no more of both   *)
(* than was sent, so that none of it meets a full queue when queues hold   *)
(* all that a peer sends, and the parse task stops at a frame's end.       *)
(***************************************************************************)
Recents(s) ==
    {i \in 1..Len(uart) :
        /\ uart[i].kind = "data" /\ uart[i].id = s
        /\ \A j \in i..Len(uart) : ~(uart[j].kind = "CONNECT" /\ uart[j].id = s)}

Queued(s) == IF Announced(s) THEN 0 ELSE Len(rxQueue[s])

OwnBytes(s) ==
    /\ Placed(s) => \A i \in Recents(s) : uart[i].n = conn[s]
    /\ Waiting(s) \/ Taken(s) =>
          \A u \in 1..Len(rxQueue[s]) : rxQueue[s][u] = conn[s]

Fits(s) == Placed(s) => Cardinality(Recents(s)) + Queued(s) <= frames[s] * MaxUnits

FramesWhole ==
    \A h \in 1..Len(uart) : uart[h].kind = "+IPD" =>
        /\ h + uart[h].n <= Len(uart)
        /\ \A k \in 1..uart[h].n :
              uart[h + k].kind = "data" /\ uart[h + k].id = uart[h].id

RestWhole ==
    rpc = "frame" /\ (Waiting(rid) \/ Taken(rid)) =>
        /\ left <= Len(uart)
        /\ \A k \in 1..left : uart[k].kind = "data" /\ uart[k].id = rid

OwnersRight == \A i \in Slots : clisock[i] # NoSock => owner[i] = conn[clisock[i]]

ByteInv ==
    /\ \A s \in Ids : OwnBytes(s) /\ Fits(s)
    /\ FramesWhole /\ RestWhole /\ OwnersRight
    /\ chip = "off" => \A s \in Ids : conn[s] = NoConn

(* Taking messages away and adding none of the peers leaves of a link's    *)
(* payload at most what there was, and one less if one was taken.          *)
LEMMA RecentsFinite ==
    ASSUME uart \in Seq(Message), NEW s
    PROVE  IsFiniteSet(Recents(s)) /\ Cardinality(Recents(s)) \in Nat
<1>1. IsFiniteSet(1..Len(uart))
  BY FS_Interval
<1>2. Recents(s) \in SUBSET (1..Len(uart))
  BY DEF Recents
<1>3. QED
  BY <1>1, <1>2, FS_Subset, FS_CardinalityType

LEMMA RecentsMove ==
    ASSUME uart \in Seq(Message), uart' \in Seq(Message), NEW s, NEW d \in Nat,
           Moves(d, {}),
           \A i \in 1..Len(uart') :
               i + d > Len(uart) => uart'[i].kind # "data" \/ uart'[i].id # s
    PROVE  /\ \A i \in Recents(s)' : i + d \in Recents(s) /\ uart'[i] = uart[i + d]
           /\ Cardinality(Recents(s)') <= Cardinality(Recents(s))
           /\ d = 1 /\ 1 \in Recents(s) =>
                  Cardinality(Recents(s)') <= Cardinality(Recents(s)) - 1
<1>0. /\ Len(uart) \in Nat /\ Len(uart') \in Nat /\ d <= Len(uart)
      /\ Len(uart') >= Len(uart) - d
  BY DEF Moves
<1>1. ASSUME NEW i \in Recents(s)'
      PROVE  i + d \in Recents(s) /\ uart'[i] = uart[i + d] /\ i \in Nat /\ 1 <= i
  <2>1. /\ i \in 1..Len(uart') /\ uart'[i].kind = "data" /\ uart'[i].id = s
        /\ \A j \in i..Len(uart') : ~(uart'[j].kind = "CONNECT" /\ uart'[j].id = s)
    BY <1>1 DEF Recents
  <2>2. i + d <= Len(uart) /\ uart'[i] = uart[i + d]
    <3>1. i + d <= Len(uart)
      BY <1>0, <2>1
    <3>2. QED
      BY <2>1, <3>1 DEF Moves
  <2>3. ASSUME NEW j \in (i + d)..Len(uart)
        PROVE  ~(uart[j].kind = "CONNECT" /\ uart[j].id = s)
    <3>1. PICK k \in Nat : k = j - d /\ k + d = j /\ i <= k /\ k <= Len(uart')
      BY <1>0, <2>1, <2>3
    <3>2. k \in i..Len(uart') /\ k \in 1..Len(uart') /\ k + d <= Len(uart)
      BY <1>0, <2>1, <2>3, <3>1
    <3>3. uart'[k] = uart[j]
      BY <3>1, <3>2 DEF Moves
    <3>4. QED
      BY <2>1, <3>2, <3>3
  <2>4. i + d \in 1..Len(uart) /\ i \in Nat /\ 1 <= i
    BY <1>0, <2>1, <2>2
  <2>5. QED
    BY <2>1, <2>2, <2>3, <2>4 DEF Recents
<1>2. PICK R : R = Recents(s)
  OBVIOUS
<1>3. PICK R1 : R1 = Recents(s)'
  OBVIOUS
<1>4. ASSUME NEW T, IsFiniteSet(T), \A i \in R1 : i + d \in T
      PROVE  Cardinality(R1) <= Cardinality(T)
  <2> DEFINE f == [i \in R1 |-> i + d]
  <2>1. f \in [R1 -> T]
    BY <1>4
  <2>2. \A i, j \in R1 : f[i] = f[j] => i = j
    BY <1>1, <1>3
  <2>3. f \in Injection(R1, T)
    BY <2>1, <2>2 DEF Injection, IsInjective
  <2>4. QED
    BY <1>4, <2>3, FS_Injection
<1>5. IsFiniteSet(R)
  BY <1>2, RecentsFinite
<1>6. Cardinality(R1) <= Cardinality(R)
  BY <1>1, <1>2, <1>3, <1>4, <1>5
<1>7. ASSUME d = 1, 1 \in R PROVE Cardinality(R1) <= Cardinality(R) - 1
  <2>1. \A i \in R1 : i + d \in R \ {1}
    BY <1>1, <1>2, <1>3, <1>7
  <2>2. IsFiniteSet(R \ {1}) /\ Cardinality(R \ {1}) = Cardinality(R) - 1
    BY <1>5, <1>7, FS_RemoveElement
  <2>3. QED
    BY <1>4, <2>1, <2>2
<1>8. QED
  BY <1>1, <1>2, <1>3, <1>6, <1>7

LEMMA FramesMove ==
    ASSUME uart \in Seq(Message), uart' \in Seq(Message), NEW d \in Nat,
           NEW kinds, "+IPD" \in kinds, Moves(d, kinds), FramesWhole
    PROVE  FramesWhole'
<1> SUFFICES ASSUME NEW h \in 1..Len(uart'), uart'[h].kind = "+IPD"
             PROVE  /\ h + uart'[h].n <= Len(uart')
                    /\ \A k \in 1..uart'[h].n : /\ uart'[h + k].kind = "data"
                                                /\ uart'[h + k].id = uart'[h].id
  BY DEF FramesWhole
<1>1. h + d \in 1..Len(uart) /\ uart'[h] = uart[h + d] /\ d <= Len(uart)
      /\ Len(uart') >= Len(uart) - d /\ Len(uart) \in Nat /\ Len(uart') \in Nat
  BY DEF Moves
<1>2. PICK n : n = uart'[h].n
  OBVIOUS
<1>3. n \in Nat
  <2>1. uart'[h] \in Message
    OBVIOUS
  <2>2. QED
    BY <1>2, <2>1 DEF Message
<1>4. /\ (h + d) + n <= Len(uart)
      /\ \A k \in 1..n : /\ uart[(h + d) + k].kind = "data"
                         /\ uart[(h + d) + k].id = uart'[h].id
  BY <1>1, <1>2 DEF FramesWhole
<1>5. ASSUME NEW k \in 1..n
      PROVE  uart'[h + k] = uart[(h + d) + k]
  <2>1. h + k \in 1..Len(uart') /\ (h + k) + d <= Len(uart) /\ (h + k) + d = (h + d) + k
    BY <1>1, <1>3, <1>4, <1>5
  <2>2. QED
    BY <2>1 DEF Moves
<1>6. h + n <= Len(uart')
  BY <1>1, <1>3, <1>4
<1>7. QED
  BY <1>2, <1>4, <1>5, <1>6

LEMMA LinkKeeps ==
    ASSUME PInv, PInv', ByteInv, NEW s \in Ids, NEW d \in Nat, Moves(d, {}),
           \A i \in 1..Len(uart') :
               i + d > Len(uart) => uart'[i].kind # "data" \/ uart'[i].id # s,
           Placed(s)' => Placed(s) /\ conn'[s] = conn[s] /\ frames'[s] = frames[s],
           Placed(s)' => Queued(s)' <= Queued(s),
           Waiting(s)' \/ Taken(s)' =>
               \A u \in 1..Len(rxQueue'[s]) : rxQueue'[s][u] = conn[s]
    PROVE  OwnBytes(s)' /\ Fits(s)'
<1>1. /\ uart \in Seq(Message) /\ uart' \in Seq(Message)
      /\ rxQueue \in [Ids -> Seq(Nat)] /\ rxQueue' \in [Ids -> Seq(Nat)]
      /\ frames \in [Ids -> 0..MaxFrames] /\ MaxFrames \in Nat /\ MaxUnits \in Nat
  BY Esp8266Assumption
     DEF PInv, MInv, TInv, TypeOK, DriverTypeOK, ChipTypeOK, SocketsTypeOK
<1>2. /\ \A i \in Recents(s)' : i + d \in Recents(s) /\ uart'[i] = uart[i + d]
      /\ Cardinality(Recents(s)') <= Cardinality(Recents(s))
  BY <1>1, RecentsMove
<1>3. OwnBytes(s) /\ Fits(s)
  BY DEF ByteInv
<1>4. CASE ~Placed(s)'
  BY <1>4 DEF OwnBytes, Fits, Placed
<1>5. CASE Placed(s)'
  <2>1. Placed(s) /\ conn'[s] = conn[s] /\ frames'[s] = frames[s]
        /\ Queued(s)' <= Queued(s)
    BY <1>5
  <2>2. OwnBytes(s)'
    <3>1. \A i \in Recents(s)' : uart'[i].n = conn'[s]
      BY <1>2, <1>3, <2>1 DEF OwnBytes
    <3>2. QED
      BY <2>1, <3>1 DEF OwnBytes
  <2>3. Fits(s)'
    <3>1. PICK r1 : r1 = Cardinality(Recents(s)')
      OBVIOUS
    <3>2. PICK r : r = Cardinality(Recents(s))
      OBVIOUS
    <3>3. PICK q1 : q1 = Queued(s)'
      OBVIOUS
    <3>4. PICK q : q = Queued(s)
      OBVIOUS
    <3>5. PICK m : m = frames[s] * MaxUnits
      OBVIOUS
    <3>6. r \in Nat /\ q \in Nat /\ q1 \in Nat /\ r1 \in Nat
      <4>1. r \in Nat
        BY <1>1, <3>2, RecentsFinite
      <4>2. q \in Nat /\ q1 \in Nat
        BY <1>1, <3>3, <3>4 DEF Queued
      <4>3. r1 \in Nat
        <5>1. IsFiniteSet(1..Len(uart'))
          BY <1>1, FS_Interval
        <5>2. Recents(s)' \in SUBSET (1..Len(uart'))
          BY DEF Recents
        <5>3. QED
          BY <3>1, <5>1, <5>2, FS_Subset, FS_CardinalityType
      <4>4. QED
        BY <4>1, <4>2, <4>3
    <3>7. m \in Nat
      BY <1>1, <3>5
    <3>8. r1 <= r /\ q1 <= q /\ r + q <= m
      BY <1>2, <1>3, <2>1, <3>1, <3>2, <3>3, <3>4, <3>5 DEF Fits
    <3>9. r1 + q1 <= m
      BY <3>6, <3>7, <3>8
    <3>10. QED
      BY <2>1, <3>1, <3>3, <3>5, <3>9 DEF Fits
  <2>4. QED
    BY <2>2, <2>3
<1>6. QED
  BY <1>4, <1>5

LEMMA LinkRests ==
    ASSUME PInv, PInv', ByteInv, NEW s \in Ids, NEW d \in Nat, Moves(d, {}),
           \A i \in 1..Len(uart') :
               i + d > Len(uart) => uart'[i].kind # "data" \/ uart'[i].id # s,
           Placed(s)' => conn'[s] = conn[s] /\ frames'[s] = frames[s],
           Announced(s)' => Announced(s),
           Waiting(s)' \/ Taken(s)' => Waiting(s) \/ Taken(s),
           rxQueue'[s] = rxQueue[s]
    PROVE  OwnBytes(s)' /\ Fits(s)'
<1>1. rxQueue[s] \in Seq(Nat)
  BY DEF PInv, MInv, TInv, TypeOK, DriverTypeOK, SocketsTypeOK
<1>2. Placed(s)' => Placed(s)
  BY DEF Placed
<1>3. Placed(s)' => Queued(s)' <= Queued(s)
  <2> SUFFICES ASSUME Placed(s)' PROVE Queued(s)' <= Queued(s)
    OBVIOUS
  <2>1. CASE Announced(s)'
    BY <1>1, <2>1 DEF Queued
  <2>2. CASE ~Announced(s)'
    <3>1. ~Announced(s)
      BY <2>2 DEF Placed, PInv, PlaceInv, OnePlace
    <3>2. QED
      BY <1>1, <2>2, <3>1 DEF Queued
  <2>3. QED
    BY <2>1, <2>2
<1>4. Waiting(s)' \/ Taken(s)' =>
          \A u \in 1..Len(rxQueue'[s]) : rxQueue'[s][u] = conn[s]
  BY DEF ByteInv, OwnBytes
<1>5. QED
  BY <1>2, <1>3, <1>4, LinkKeeps

(* What is only added to leaves the rest of a frame where it is. *)
LEMMA RestStays ==
    ASSUME PInv, PInv', ByteInv, Moves(0, {}), UNCHANGED <<rpc, rid, left>>,
           Waiting(rid)' \/ Taken(rid)' => Waiting(rid) \/ Taken(rid)
    PROVE  RestWhole'
<1>1. /\ Len(uart) \in Nat /\ Len(uart') \in Nat /\ Len(uart) <= Len(uart')
      /\ left \in Nat
      /\ \A k \in 1..Len(uart) : uart'[k] = uart[k]
  BY DEF PInv, MInv, TInv, TypeOK, DriverTypeOK, ChipTypeOK, TasksTypeOK, Moves
<1>2. (Waiting(rid) \/ Taken(rid))' => Waiting(rid) \/ Taken(rid)
  <2>1. PICK r : r = rid /\ r = rid'
    OBVIOUS
  <2>2. QED
    BY <2>1 DEF Waiting, Taken
<1>3. SUFFICES ASSUME rpc = "frame", Waiting(rid) \/ Taken(rid)
               PROVE  /\ left <= Len(uart')
                      /\ \A k \in 1..left : uart'[k].kind = "data" /\ uart'[k].id = rid
  BY <1>2 DEF RestWhole
<1>4. /\ left <= Len(uart)
      /\ \A k \in 1..left : uart[k].kind = "data" /\ uart[k].id = rid
  BY <1>3 DEF ByteInv, RestWhole
<1>5. QED
  BY <1>1, <1>4

LEMMA RidIsLink ==
    ASSUME PInv, Waiting(rid) \/ Taken(rid)
    PROVE  rid \in Ids
  BY LinkAssumption DEF PInv, MInv, TInv, TypeOK, DriverTypeOK, SocketsTypeOK,
     TasksTypeOK, SlotsTypeOK, Waiting, Taken, Svr, NoSock

(* The chip and the peers. *)
LEMMA FrameIs ==
    ASSUME NEW s, NEW n \in Nat
    PROVE  /\ Len(Frame(s, n)) = n + 1
           /\ Frame(s, n)[1] = [kind |-> "+IPD", id |-> s, n |-> n]
           /\ \A k \in 1..n :
                 Frame(s, n)[k + 1] = [kind |-> "data", id |-> s, n |-> conn[s]]
<1> DEFINE hd == <<[kind |-> "+IPD", id |-> s, n |-> n]>>
           m == [kind |-> "data", id |-> s, n |-> conn[s]]
           b == [u \in 1..n |-> m]
<1>1. hd \in Seq({hd[1]}) /\ Len(hd) = 1
  OBVIOUS
<1>2. b \in Seq({m}) /\ Len(b) = n /\ \A k \in 1..n : b[k] = m
  OBVIOUS
<1>3. Frame(s, n) = hd \o b
  BY DEF Frame
<1> HIDE DEF hd, b
<1>4. PICK S : S = {hd[1]} \cup {m}
  OBVIOUS
<1>5. hd \in Seq(S) /\ b \in Seq(S)
  BY <1>1, <1>2, <1>4
<1>6. /\ Len(hd \o b) = n + 1 /\ (hd \o b)[1] = hd[1]
  <2>1. Len(hd \o b) = Len(hd) + Len(b)
    BY <1>5
  <2>2. Len(hd \o b) = n + 1
    BY <1>1, <1>2, <2>1
  <2>3. 1 \in 1..Len(hd) + Len(b) /\ 1 <= Len(hd)
    BY <1>1, <1>2
  <2>4. (hd \o b)[1] = hd[1]
    BY <1>5, <2>3
  <2>5. QED
    BY <2>2, <2>4
<1>7. ASSUME NEW k \in 1..n PROVE (hd \o b)[k + 1] = b[k]
  <2>1. k + 1 \in 1..Len(hd) + Len(b) /\ k + 1 > Len(hd) /\ (k + 1) - Len(hd) = k
    BY <1>1, <1>2, <1>7
  <2>2. (hd \o b)[k + 1] = b[(k + 1) - Len(hd)]
    BY <1>5, <2>1
  <2>3. QED
    BY <2>1, <2>2
<1>8. QED
  BY <1>2, <1>3, <1>6, <1>7 DEF hd

LEMMA PeerSendsBytes ==
    ASSUME PInv, PInv', ByteInv, UNCHANGED task, NEW s \in Ids, PeerSends(s)
    PROVE  FramesWhole' /\ Moves(0, {}) /\ \A t \in Ids : OwnBytes(t)' /\ Fits(t)'
<1>1. PICK n \in 1..MaxUnits : Says(Frame(s, n))
  BY DEF PeerSends
<1>2. n \in Nat /\ MaxUnits \in Nat /\ n <= MaxUnits
  BY Esp8266Assumption
<1>3. PICK L \in Nat : L = Len(uart)
  BY DEF PInv, MInv, TInv, TypeOK, DriverTypeOK, ChipTypeOK
<1>4. /\ uart \in Seq(Message) /\ uart' \in Seq(Message)
      /\ rxQueue \in [Ids -> Seq(Nat)]
      /\ frames \in [Ids -> 0..MaxFrames] /\ MaxFrames \in Nat
      /\ conn \in [Ids -> 0..MaxConn]
  BY Esp8266Assumption
     DEF PInv, MInv, TInv, TypeOK, DriverTypeOK, ChipTypeOK, SocketsTypeOK
<1>5. /\ UNCHANGED <<conn, rxQueue, new_connects, clisock>>
      /\ frames' = [frames EXCEPT ![s] = @ + 1] /\ uart' = uart \o Frame(s, n)
  BY <1>1 DEF PeerSends, Says, socks, queues, task, slots
<1>6. /\ Len(uart') = L + n + 1
      /\ \A i \in 1..L : uart'[i] = uart[i]
      /\ uart'[L + 1] = [kind |-> "+IPD", id |-> s, n |-> n]
      /\ \A k \in 1..n : uart'[L + 1 + k] = [kind |-> "data", id |-> s, n |-> conn[s]]
  <2>1. PICK f : f = Frame(s, n)
    OBVIOUS
  <2>2. f \in Seq(Message) /\ uart' = uart \o f
    BY <1>1, <1>5, <2>1, FrameTyped DEF PInv, MInv, TInv, TypeOK, DriverTypeOK
  <2>3. /\ Len(f) = n + 1 /\ f[1] = [kind |-> "+IPD", id |-> s, n |-> n]
        /\ \A k \in 1..n : f[k + 1] = [kind |-> "data", id |-> s, n |-> conn[s]]
    BY <1>2, <2>1, FrameIs
  <2>4. /\ Len(uart') = L + n + 1 /\ \A i \in 1..L : uart'[i] = uart[i]
    <3>1. Len(uart') = Len(uart) + Len(f)
      BY <1>4, <2>2
    <3>2. Len(uart') = L + n + 1
      BY <1>2, <1>3, <2>3, <3>1
    <3>3. \A i \in 1..Len(uart) : uart'[i] = uart[i]
      BY <1>4, <2>2
    <3>4. QED
      BY <1>3, <3>2, <3>3
  <2>5. \A i \in 1..n + 1 : uart'[L + i] = f[i]
    BY <1>2, <1>3, <1>4, <2>2, <2>3
  <2>6. uart'[L + 1] = f[1]
    BY <1>2, <2>5
  <2>7. ASSUME NEW k \in 1..n PROVE uart'[L + 1 + k] = f[k + 1]
    <3>1. k + 1 \in 1..n + 1 /\ L + (k + 1) = L + 1 + k
      BY <1>2, <2>7
    <3>2. QED
      BY <2>5, <3>1
  <2>8. QED
    BY <2>3, <2>4, <2>6, <2>7
<1>7. \A i \in 1..Len(uart') :
          \/ i \in 1..L
          \/ i = L + 1
          \/ i - (L + 1) \in 1..n /\ i = L + 1 + (i - (L + 1))
  BY <1>2, <1>6
<1>8. Moves(0, {})
  BY <1>2, <1>3, <1>6 DEF Moves
<1>9. FramesWhole'
  <2> SUFFICES ASSUME NEW h \in 1..Len(uart'), uart'[h].kind = "+IPD"
               PROVE  /\ h + uart'[h].n <= Len(uart')
                      /\ \A k \in 1..uart'[h].n : /\ uart'[h + k].kind = "data"
                                                  /\ uart'[h + k].id = uart'[h].id
    BY DEF FramesWhole
  <2>1. CASE h \in 1..L
    <3>1. PICK m : m = uart[h].n /\ m = uart'[h].n
      BY <1>6, <2>1
    <3>2. /\ h + m <= L
          /\ \A k \in 1..m : uart[h + k].kind = "data" /\ uart[h + k].id = uart[h].id
      BY <1>3, <1>6, <2>1, <3>1 DEF ByteInv, FramesWhole
    <3>3. m \in Nat
      <4>1. uart[h] \in Message
        BY <1>3, <1>4, <2>1
      <4>2. QED
        BY <3>1, <4>1 DEF Message
    <3>4. \A k \in 1..m : h + k \in 1..L
      BY <2>1, <3>2, <3>3
    <3>5. h + m <= Len(uart')
      BY <1>2, <1>6, <2>1, <3>2, <3>3
    <3>6. QED
      BY <1>6, <2>1, <3>1, <3>2, <3>4, <3>5
  <2>2. CASE h = L + 1
    <3>1. uart'[h].n = n /\ uart'[h].id = s /\ h + n <= Len(uart')
      BY <1>2, <1>6, <2>2
    <3>2. QED
      BY <1>6, <2>2, <3>1
  <2>3. CASE h - (L + 1) \in 1..n /\ h = L + 1 + (h - (L + 1))
    <3>1. uart'[h].kind = "data"
      BY <1>6, <2>3
    <3>2. QED
      BY <3>1
  <2>4. QED
    BY <1>7, <2>1, <2>2, <2>3
<1>10. ASSUME NEW t \in Ids
       PROVE  /\ Announced(t)' => Announced(t)
              /\ Waiting(t)' <=> Waiting(t)
              /\ Taken(t)' <=> Taken(t)
  <2>1. ASSUME NEW i \in 1..Len(uart'), uart'[i].kind = "CONNECT"
        PROVE  i \in 1..Len(uart) /\ uart'[i] = uart[i]
    BY <1>3, <1>6, <1>7, <2>1
  <2>2. QED
    BY <1>5, <2>1 DEF Announced, Waiting, Taken
<1>11. ASSUME NEW t \in Ids, t # s PROVE OwnBytes(t)' /\ Fits(t)'
  <2>1. \A i \in 1..Len(uart') :
            i + 0 > Len(uart) => uart'[i].kind # "data" \/ uart'[i].id # t
    <3>1. ASSUME NEW i \in 1..Len(uart'), i > L, uart'[i].id = t PROVE FALSE
      <4>1. CASE i = L + 1
        BY <1>6, <1>11, <3>1, <4>1
      <4>2. CASE i - (L + 1) \in 1..n /\ i = L + 1 + (i - (L + 1))
        BY <1>6, <1>11, <3>1, <4>2
      <4>3. i \notin 1..L
        BY <3>1
      <4>4. QED
        BY <1>7, <4>1, <4>2, <4>3
    <3>2. \A i \in 1..Len(uart') : i + 0 = i
      OBVIOUS
    <3>3. QED
      BY <1>3, <3>1, <3>2
  <2>2. conn'[t] = conn[t] /\ frames'[t] = frames[t] /\ rxQueue'[t] = rxQueue[t]
    BY <1>4, <1>5, <1>11
  <2>3. QED
    BY <1>8, <1>10, <2>1, <2>2, LinkRests
<1>12. OwnBytes(s)' /\ Fits(s)'
  <2>1. CASE ~Placed(s)'
    BY <2>1 DEF OwnBytes, Fits, Placed
  <2>2. CASE Placed(s)'
    <3>1. Placed(s) /\ OwnBytes(s) /\ Fits(s)
      BY <1>10, <2>2 DEF Placed, ByteInv
    <3>2. PICK R : R = Recents(s)
      OBVIOUS
    <3>3. PICK R1 : R1 = Recents(s)'
      OBVIOUS
    <3>4. PICK New : New = (L + 2)..(L + 1 + n)
      OBVIOUS
    <3>5. ASSUME NEW i \in R1
          PROVE  \/ i \in R /\ uart'[i] = uart[i]
                 \/ i \in New /\ uart'[i].n = conn[s]
      <4>1. /\ i \in 1..Len(uart') /\ uart'[i].kind = "data" /\ uart'[i].id = s
            /\ \A j \in i..Len(uart') : ~(uart'[j].kind = "CONNECT" /\ uart'[j].id = s)
        BY <3>3, <3>5 DEF Recents
      <4>2. CASE i \in 1..L
        <5>1. \A j \in i..L : j \in 1..L /\ j \in i..Len(uart')
          BY <1>2, <1>6, <4>2
        <5>2. \A j \in i..Len(uart) : ~(uart[j].kind = "CONNECT" /\ uart[j].id = s)
          BY <1>3, <1>6, <4>1, <5>1
        <5>3. QED
          BY <1>3, <1>6, <3>2, <4>1, <4>2, <5>2 DEF Recents
      <4>3. CASE i = L + 1
        BY <1>6, <4>1, <4>3
      <4>4. CASE i - (L + 1) \in 1..n /\ i = L + 1 + (i - (L + 1))
        <5>1. uart'[i].n = conn[s]
          BY <1>6, <4>4
        <5>2. i \in New
          BY <1>2, <3>4, <4>1, <4>4
        <5>3. QED
          BY <5>1, <5>2
      <4>5. QED
        BY <1>7, <4>1, <4>2, <4>3, <4>4
    <3>6. OwnBytes(s)'
      <4>1. \A i \in R1 : uart'[i].n = conn'[s]
        BY <1>5, <3>1, <3>2, <3>5 DEF OwnBytes
      <4>2. QED
        BY <1>5, <1>10, <3>1, <3>3, <4>1 DEF OwnBytes
    <3>7. Cardinality(R1) <= Cardinality(R) + n /\ Cardinality(R) \in Nat
          /\ Cardinality(R1) \in Nat
      <4>1. IsFiniteSet(R) /\ Cardinality(R) \in Nat
        BY <1>4, <3>2, RecentsFinite
      <4>2. IsFiniteSet(New) /\ Cardinality(New) = n
        BY <1>2, <3>4, FS_Interval
      <4>3. /\ IsFiniteSet(R \cup New)
            /\ Cardinality(R \cup New)
                  = Cardinality(R) + Cardinality(New) - Cardinality(R \cap New)
        BY <4>1, <4>2, FS_Union
      <4>4. Cardinality(R \cap New) \in Nat
        BY <4>1, FS_Intersection, FS_CardinalityType
      <4>5. R1 \in SUBSET (R \cup New)
        BY <3>5
      <4>6. IsFiniteSet(R1) /\ Cardinality(R1) <= Cardinality(R \cup New)
        BY <4>3, <4>5, FS_Subset
      <4>7. Cardinality(R1) \in Nat /\ Cardinality(R \cup New) \in Nat
        BY <4>3, <4>6, FS_CardinalityType
      <4>8. QED
        BY <1>2, <4>1, <4>2, <4>3, <4>4, <4>6, <4>7
    <3>8. Queued(s)' <= Queued(s) /\ Queued(s)' \in Nat /\ Queued(s) \in Nat
      <4>1. Announced(s)' <=> Announced(s)
        BY <1>10, <2>2, <3>1 DEF PInv, PlaceInv, OnePlace, Placed
      <4>2. QED
        BY <1>4, <1>5, <4>1 DEF Queued
    <3>9. frames'[s] * MaxUnits = frames[s] * MaxUnits + MaxUnits
          /\ frames[s] * MaxUnits \in Nat
      <4>1. frames'[s] = frames[s] + 1 /\ frames[s] \in Nat
        BY <1>4, <1>5
      <4>2. \A a, b \in Nat : (a + 1) * b = a * b + b /\ a * b \in Nat
        OBVIOUS
      <4>3. QED
        BY <1>2, <4>1, <4>2
    <3>10. Cardinality(R) + Queued(s) <= frames[s] * MaxUnits
      BY <3>1, <3>2 DEF Fits
    <3>11. PICK q : q = Queued(s)
      OBVIOUS
    <3>12. PICK q1 : q1 = Queued(s)'
      OBVIOUS
    <3>13. PICK m : m = frames[s] * MaxUnits
      OBVIOUS
    <3>14. Cardinality(R1) + q1 <= m + MaxUnits
      BY <1>2, <3>7, <3>8, <3>9, <3>10, <3>11, <3>12, <3>13
    <3>15. Cardinality(R1) + q1 <= frames'[s] * MaxUnits
      BY <3>9, <3>13, <3>14
    <3>16. QED
      BY <3>3, <3>6, <3>12, <3>15 DEF Fits
  <2>3. QED
    BY <2>1, <2>2
<1>13. QED
  BY <1>8, <1>9, <1>11, <1>12

LEMMA ConnectsBytes ==
    ASSUME PInv, PInv', ByteInv, UNCHANGED task, NEW s \in Ids, PeerConnects(s)
    PROVE  FramesWhole' /\ Moves(0, {}) /\ \A t \in Ids : OwnBytes(t)' /\ Fits(t)'
<1> DEFINE m == LinkLine("CONNECT", s)
<1>1. /\ uart \in Seq(Message) /\ uart' \in Seq(Message)
      /\ rxQueue \in [Ids -> Seq(Nat)] /\ Len(uart) \in Nat
      /\ frames \in [Ids -> 0..MaxFrames] /\ MaxUnits \in Nat
      /\ conn \in [Ids -> 0..MaxConn]
  BY Esp8266Assumption
     DEF PInv, MInv, TInv, TypeOK, DriverTypeOK, ChipTypeOK, SocketsTypeOK
<1>2. /\ UNCHANGED <<rxQueue, new_connects, clisock>>
      /\ frames' = [frames EXCEPT ![s] = 0] /\ uart' = uart \o <<m>>
      /\ conn' = [conn EXCEPT ![s] = conns + 1]
  BY DEF PeerConnects, Says, socks, queues, task, slots
<1>3. m \in Message /\ m.kind = "CONNECT" /\ m.id = s
  BY DEF LinkLine, Message
<1> HIDE DEF m
<1>4. Len(uart') = Len(uart) + 1 /\ \A i \in 1..Len(uart) + 1 :
             uart'[i] = IF i = Len(uart) + 1 THEN m ELSE uart[i]
  BY <1>1, <1>2, <1>3
<1>5. Moves(0, {"+IPD"}) /\ Moves(0, {})
  <2>1. \A i \in 1..Len(uart') : i + 0 <= Len(uart) => uart'[i] = uart[i + 0]
    BY <1>1, <1>4
  <2>2. \A i \in 1..Len(uart') : ~(i + 0 <= Len(uart)) => uart'[i] = m
    BY <1>1, <1>4
  <2>3. Len(uart') >= Len(uart) - 0 /\ 0 \in 0..Len(uart)
    BY <1>1, <1>4
  <2>4. QED
    BY <1>3, <2>1, <2>2, <2>3 DEF Moves
<1>6. FramesWhole'
  BY <1>1, <1>5, FramesMove DEF ByteInv
<1>7. ASSUME NEW t \in Ids, t # s PROVE OwnBytes(t)' /\ Fits(t)'
  <2>1. conn'[t] = conn[t] /\ frames'[t] = frames[t] /\ rxQueue'[t] = rxQueue[t]
    BY <1>1, <1>2, <1>7
  <2>2. \A i \in 1..Len(uart') : i + 0 > Len(uart) => uart'[i].kind = "CONNECT"
    BY <1>1, <1>3, <1>4
  <2>3. Announced(t)' => Announced(t)
    <3>1. ASSUME NEW i \in 1..Len(uart'), uart'[i].id = t
          PROVE  i \in 1..Len(uart) /\ uart'[i] = uart[i]
      BY <1>1, <1>3, <1>4, <1>7, <3>1
    <3>2. QED
      BY <3>1 DEF Announced
  <2>4. (Waiting(t)' <=> Waiting(t)) /\ (Taken(t)' <=> Taken(t))
    BY <1>2 DEF Waiting, Taken
  <2>5. \A i \in 1..Len(uart') : 
            i + 0 > Len(uart) => uart'[i].kind # "data" \/ uart'[i].id # t
    BY <2>2
  <2>6. QED
    BY <1>5, <2>1, <2>3, <2>4, <2>5, LinkRests
<1>8. OwnBytes(s)' /\ Fits(s)'
  <2>1. Len(uart') \in 1..Len(uart') /\ uart'[Len(uart')] = m
    BY <1>1, <1>4
  <2>2. Announced(s)'
    BY <1>3, <2>1 DEF Announced
  <2>3. ~Waiting(s)' /\ ~Taken(s)'
    BY <2>2 DEF PInv, PlaceInv, OnePlace
  <2>4. Recents(s)' = {}
    <3> SUFFICES ASSUME NEW i \in Recents(s)' PROVE FALSE
      OBVIOUS
    <3>1. /\ i \in 1..Len(uart')
          /\ \A j \in i..Len(uart') : ~(uart'[j].kind = "CONNECT" /\ uart'[j].id = s)
      BY DEF Recents
    <3>2. Len(uart') \in i..Len(uart')
      BY <1>1, <3>1
    <3>3. QED
      BY <1>3, <2>1, <3>1, <3>2
  <2>5. OwnBytes(s)'
    BY <2>3, <2>4 DEF OwnBytes
  <2>6. Queued(s)' = 0 /\ Cardinality(Recents(s)') = 0 /\ frames'[s] = 0
    BY <1>1, <1>2, <2>2, <2>4, FS_EmptySet DEF Queued
  <2>7. 0 + 0 <= 0 * MaxUnits
    BY <1>1
  <2>8. QED
    BY <2>5, <2>6, <2>7 DEF Fits
<1>9. QED
  BY <1>5, <1>6, <1>7, <1>8

LEMMA ChipBytes ==
    ASSUME ~Impatient, PInv, PInv', ByteInv, Chip, UNCHANGED task
    PROVE  ByteInv'
<1>1. /\ uart \in Seq(Message) /\ uart' \in Seq(Message)
      /\ rxQueue \in [Ids -> Seq(Nat)] /\ Len(uart) \in Nat
      /\ clisock \in [Slots -> Ids \cup {NoSock}] /\ conn \in [Ids -> 0..MaxConn]
  BY DEF PInv, MInv, TInv, TypeOK, DriverTypeOK, ChipTypeOK, SocketsTypeOK, SlotsTypeOK
<1>2. UNCHANGED <<rxQueue, new_connects, clisock, owner, rpc, rid, left>>
  BY DEF Chip, PowerUp, GotIp, Disconnect, PeerConnects, PeerSends, PeerCloses,
         Says, socks, queues, task, slots
<1>3. (Waiting(rid)' <=> Waiting(rid)) /\ (Taken(rid)' <=> Taken(rid))
  <2>1. PICK r : r = rid /\ r = rid'
    BY <1>2
  <2>2. QED
    BY <1>2, <2>1 DEF Waiting, Taken
<1>4. \A s \in Ids : (Waiting(s)' <=> Waiting(s)) /\ (Taken(s)' <=> Taken(s))
  BY <1>2 DEF Waiting, Taken
<1>5. CASE PowerUp
  <2>1. /\ chip = "off" /\ chip' = "command" /\ conn' = conn
        /\ uart' = <<Line("Ai-Thinker")>>
    BY <1>5 DEF PowerUp, peers
  <2>2. \A s \in Ids : conn'[s] = NoConn
    BY <2>1 DEF ByteInv
  <2>3. \A s \in Ids : ~Placed(s)'
    BY <2>2 DEF PInv, PlaceInv, PlacedIsOpen
  <2>4. \A s \in Ids : OwnBytes(s)' /\ Fits(s)'
    BY <2>3 DEF OwnBytes, Fits, Placed
  <2>5. FramesWhole'
    BY <2>1 DEF FramesWhole, Line
  <2>6. ~(Waiting(rid)' \/ Taken(rid)')
    <3>1. Waiting(rid) \/ Taken(rid) => rid \in Ids
      BY RidIsLink
    <3>2. PICK r : r = rid /\ r = rid'
      BY <1>2
    <3>3. Waiting(rid)' \/ Taken(rid)' => Placed(r)'
      BY <3>2 DEF Placed, Waiting, Taken
    <3>4. QED
      BY <1>3, <2>3, <3>1, <3>2, <3>3
  <2>7. RestWhole'
    BY <2>6 DEF RestWhole
  <2>8. OwnersRight'
    BY <1>2, <2>1 DEF ByteInv, OwnersRight
  <2>9. QED
    BY <2>1, <2>4, <2>5, <2>7, <2>8 DEF ByteInv
<1>6. ASSUME Moves(0, {}), FramesWhole', \A t \in Ids : OwnBytes(t)' /\ Fits(t)',
             chip' = chip, chip # "off",
             \A t \in Ids : conn[t] # NoConn => conn'[t] = conn[t]
      PROVE  ByteInv'
  <2>1. RestWhole'
    BY <1>2, <1>3, <1>6, RestStays
  <2>2. OwnersRight'
    <3> SUFFICES ASSUME NEW i \in Slots, clisock'[i] # NoSock
                 PROVE  owner'[i] = conn'[clisock'[i]]
      BY DEF OwnersRight
    <3>1. PICK s \in Ids : s = clisock[i]
      BY <1>1, <1>2
    <3>2. Placed(s)
      BY <3>1 DEF Placed, Taken
    <3>3. conn'[s] = conn[s]
      BY <1>6, <3>2 DEF PInv, PlaceInv, PlacedIsOpen
    <3>4. QED
      BY <1>2, <3>1, <3>3 DEF ByteInv, OwnersRight
  <2>3. QED
    BY <1>6, <2>1, <2>2 DEF ByteInv
<1>7. CASE GotIp \/ Disconnect
  <2>1. PICK k \in {"WIFI_GOT_IP", "WIFI_DISCONNECT"} : uart' = uart \o <<Line(k)>>
    BY <1>7 DEF GotIp, Disconnect, Says
  <2>2. <<Line(k)>> \in Seq(Message)
    BY DEF Line, Message
  <2>3. \A i \in 1..Len(<<Line(k)>>) : <<Line(k)>>[i].kind \notin LinkKinds
    BY DEF Line, LinkKinds
  <2>4. Moves(0, LinkKinds)
    BY <1>1, <2>1, <2>2, <2>3, IsSaid
  <2>5. FramesWhole' /\ Moves(0, {})
    <3>1. "+IPD" \in LinkKinds /\ "CONNECT" \in LinkKinds
      BY DEF LinkKinds
    <3>2. FramesWhole'
      BY <1>1, <2>4, <3>1, FramesMove DEF ByteInv
    <3>3. Moves(0, {})
      BY <2>4 DEF Moves
    <3>4. QED
      BY <3>2, <3>3
  <2>6. UNCHANGED <<conn, frames, chip>> /\ chip # "off"
    BY <1>7 DEF GotIp, Disconnect, Says, peers
  <2>7. \A s : Announced(s)' => Announced(s)
    <3>1. "CONNECT" \in LinkKinds
      BY DEF LinkKinds
    <3>2. QED
      BY <1>1, <2>4, <3>1, MovesAnnounced
  <2>8. ASSUME NEW t \in Ids PROVE OwnBytes(t)' /\ Fits(t)'
    <3>1. \A i \in 1..Len(uart') :
            i + 0 > Len(uart) => uart'[i].kind # "data" \/ uart'[i].id # t
      BY <1>1, <2>4 DEF Moves, LinkKinds
    <3>2. QED
      BY <1>2, <1>4, <2>5, <2>6, <2>7, <3>1, LinkRests
  <2>9. QED
    BY <1>6, <2>5, <2>6, <2>8
<1>8. ASSUME NEW s \in Ids, PeerConnects(s) PROVE ByteInv'
  <2>1. chip' = chip /\ chip # "off"
    BY <1>8 DEF PeerConnects, Says
  <2>2. \A t \in Ids : conn[t] # NoConn => conn'[t] = conn[t]
    BY <1>1, <1>8 DEF PeerConnects
  <2>3. QED
    BY <1>6, <1>8, <2>1, <2>2, ConnectsBytes
<1>9. ASSUME NEW s \in Ids, PeerSends(s) PROVE ByteInv'
  <2>1. chip' = chip /\ chip # "off" /\ conn' = conn
    BY <1>9 DEF PeerSends, Says
  <2>2. QED
    BY <1>6, <1>9, <2>1, PeerSendsBytes
<1>10. QED
  BY <1>5, <1>7, <1>8, <1>9 DEF Chip, PeerCloses

(* The parse task. *)
LEMMA ReadsOne ==
    ASSUME uart \in Seq(Message), uart # <<>>, uart' = Tail(uart)
    PROVE  /\ Len(uart) \in Nat /\ 1 <= Len(uart) /\ Len(uart') = Len(uart) - 1
           /\ \A i \in 1..Len(uart') :
                 i + 1 <= Len(uart) /\ uart'[i] = uart[i + 1]
           /\ Moves(1, {}) /\ Moves(1, LinkKinds) /\ Head(uart) = uart[1]
<1>1. /\ Len(uart) \in Nat /\ 1 <= Len(uart) /\ Len(uart') = Len(uart) - 1
      /\ Head(uart) = uart[1]
  OBVIOUS
<1>2. \A i \in 1..Len(uart') : i + 1 <= Len(uart) /\ uart'[i] = uart[i + 1]
  OBVIOUS
<1>3. QED
  BY <1>1, <1>2, IsRead

(* It starts on a frame that is whole in the ring, and takes from the ring *)
(* alone while it is at it: what it queues is the frame's, and fits.       *)
LEMMA ReadsFrame ==
    ASSUME PInv, PInv', ByteInv, UNCHANGED task, GetClientRequest
    PROVE  RestWhole'
<1>1. /\ uart \in Seq(Message) /\ uart' \in Seq(Message)
  BY DEF PInv, MInv, TInv, TypeOK, DriverTypeOK, ChipTypeOK
<1>2. /\ uart # <<>> /\ uart' = Tail(uart) /\ Head(uart).kind = "+IPD"
      /\ rid' = Head(uart).id
      /\ left' = IF Head(uart).n > MaxSocketBuf THEN MaxSocketBuf ELSE Head(uart).n
  BY DEF GetClientRequest, ReadLine
<1>3. /\ Len(uart) \in Nat /\ 1 <= Len(uart) /\ Len(uart') = Len(uart) - 1
      /\ \A i \in 1..Len(uart') : i + 1 <= Len(uart) /\ uart'[i] = uart[i + 1]
      /\ Head(uart) = uart[1]
  BY <1>1, <1>2, ReadsOne
<1>4. PICK n \in Nat : n = uart[1].n
  <2>1. uart[1] \in Message
    BY <1>1, <1>3
  <2>2. QED
    BY <2>1 DEF Message
<1>5. /\ 1 \in 1..Len(uart) /\ left' \in Nat /\ left' <= n
  BY <1>2, <1>3, <1>4, Esp8266Assumption
<1>6. /\ 1 + n <= Len(uart)
      /\ \A k \in 1..n : uart[1 + k].kind = "data" /\ uart[1 + k].id = rid'
  BY <1>2, <1>3, <1>4, <1>5 DEF ByteInv, FramesWhole
<1>7. left' <= Len(uart')
  BY <1>3, <1>5, <1>6
<1>8. ASSUME NEW k \in 1..left' PROVE uart'[k] = uart[1 + k] /\ k \in 1..n
  <2>1. k \in 1..Len(uart') /\ k + 1 = 1 + k /\ k \in 1..n
    BY <1>3, <1>5, <1>7, <1>8
  <2>2. QED
    BY <1>3, <2>1
<1>9. QED
  BY <1>6, <1>7, <1>8 DEF RestWhole

LEMMA ReadsPayload ==
    ASSUME PInv, PInv', ByteInv, UNCHANGED task, ReadPayload,
           MaxFrames * MaxUnits <= MaxSocketBuf
    PROVE  RestWhole' /\ \A t \in Ids : OwnBytes(t)' /\ Fits(t)'
<1>1. /\ uart \in Seq(Message) /\ uart' \in Seq(Message)
      /\ rxQueue \in [Ids -> Seq(Nat)] /\ rxQueue' \in [Ids -> Seq(Nat)]
      /\ frames \in [Ids -> 0..MaxFrames] /\ MaxFrames \in Nat /\ MaxUnits \in Nat
      /\ left \in Nat /\ conn \in [Ids -> 0..MaxConn] /\ MaxSocketBuf \in Nat
  BY Esp8266Assumption
     DEF PInv, MInv, TInv, TypeOK, DriverTypeOK, ChipTypeOK, SocketsTypeOK, TasksTypeOK
<1>2. /\ uart # <<>> /\ uart' = Tail(uart) /\ left > 0 /\ rpc = "frame" /\ rpc' = "frame"
      /\ UNCHANGED <<conn, frames, new_connects, clisock, rid>>
      /\ \/ rxQueue' = [rxQueue EXCEPT ![rid] = Append(@, Head(uart).n)]
            /\ left' = left - 1
         \/ Len(rxQueue[rid]) = MaxSocketBuf /\ UNCHANGED <<rxQueue, left>>
  BY DEF ReadPayload, Parser, queues, peers, task, slots
<1>3. /\ Len(uart) \in Nat /\ 1 <= Len(uart) /\ Len(uart') = Len(uart) - 1
      /\ \A i \in 1..Len(uart') : i + 1 <= Len(uart) /\ uart'[i] = uart[i + 1]
      /\ Moves(1, {}) /\ Moves(1, LinkKinds) /\ Head(uart) = uart[1]
  BY <1>1, <1>2, ReadsOne
<1>4. /\ \A t : Announced(t)' => Announced(t)
      /\ \A t : (Waiting(t)' <=> Waiting(t)) /\ (Taken(t)' <=> Taken(t))
  <2>1. "CONNECT" \in LinkKinds
    BY DEF LinkKinds
  <2>2. QED
    BY <1>1, <1>2, <1>3, <2>1, MovesAnnounced DEF Waiting, Taken
<1>5. ASSUME NEW t \in Ids
      PROVE \A i \in 1..Len(uart') :
               i + 1 > Len(uart) => uart'[i].kind # "data" \/ uart'[i].id # t
  BY <1>3
<1>6. ASSUME NEW t \in Ids, rxQueue'[t] = rxQueue[t]
      PROVE  OwnBytes(t)' /\ Fits(t)'
  BY <1>2, <1>3, <1>4, <1>5, <1>6, LinkRests
<1>7. CASE ~(Waiting(rid) \/ Taken(rid))
  <2>1. RestWhole'
    <3>1. PICK r : r = rid /\ r = rid'
      BY <1>2
    <3>2. ~(Waiting(rid) \/ Taken(rid))'
      BY <1>2, <1>7, <3>1 DEF Waiting, Taken
    <3>3. QED
      BY <3>2 DEF RestWhole
  <2>2. ASSUME NEW t \in Ids PROVE OwnBytes(t)' /\ Fits(t)'
    <3>1. CASE t # rid
      <4>1. rxQueue'[t] = rxQueue[t]
        BY <1>1, <1>2, <3>1
      <4>2. QED
        BY <1>6, <4>1
    <3>2. CASE t = rid
      <4>1. ~(Waiting(t) \/ Taken(t)) /\ ~(Waiting(t) \/ Taken(t))'
        BY <1>4, <1>7, <3>2
      <4>2. Placed(t)' => Announced(t) /\ Announced(t)' /\ Placed(t)
        BY <1>4, <4>1 DEF Placed
      <4>3. Placed(t)' => Queued(t)' <= Queued(t)
        BY <4>2 DEF Queued
      <4>4. QED
        BY <1>2, <1>3, <1>5, <4>1, <4>2, <4>3, LinkKeeps
    <3>3. QED
      BY <3>1, <3>2
  <2>3. QED
    BY <2>1, <2>2
<1>8. CASE Waiting(rid) \/ Taken(rid)
  <2>1. PICK s \in Ids : s = rid /\ s = rid'
    BY <1>2, <1>8, RidIsLink
  <2>2. Placed(s) /\ ~Announced(s) /\ ~Announced(s)' /\ (Waiting(s) \/ Taken(s))
    BY <1>4, <1>8, <2>1 DEF Placed, PInv, PlaceInv, OnePlace
  <2>3. /\ left <= Len(uart)
        /\ \A k \in 1..left : uart[k].kind = "data" /\ uart[k].id = s
    BY <1>2, <1>8, <2>1 DEF ByteInv, RestWhole
  <2>4. 1 \in Recents(s)
    <3>1. 1 \in 1..left /\ 1 \in 1..Len(uart)
      BY <1>1, <1>2, <1>3
    <3>2. \A j \in 1..Len(uart) : ~(uart[j].kind = "CONNECT" /\ uart[j].id = s)
      BY <2>2 DEF Announced
    <3>3. QED
      BY <2>3, <3>1, <3>2 DEF Recents
  <2>5. uart[1].n = conn[s] /\ OwnBytes(s) /\ Fits(s)
    BY <2>2, <2>4 DEF ByteInv, OwnBytes
  <2>6. PICK r : r = Cardinality(Recents(s))
    OBVIOUS
  <2>7. PICK r1 : r1 = Cardinality(Recents(s)')
    OBVIOUS
  <2>8. /\ r \in Nat /\ r1 \in Nat /\ r1 <= r - 1
        /\ \A i \in Recents(s)' : i + 1 \in Recents(s) /\ uart'[i] = uart[i + 1]
    <3>1. r \in Nat
      BY <1>1, <2>6, RecentsFinite
    <3>2. r1 \in Nat
      <4>1. IsFiniteSet(1..Len(uart'))
        BY <1>1, FS_Interval
      <4>2. Recents(s)' \in SUBSET (1..Len(uart'))
        BY DEF Recents
      <4>3. QED
        BY <2>7, <4>1, <4>2, FS_Subset, FS_CardinalityType
    <3>3. QED
      BY <1>1, <1>3, <1>5, <2>4, <2>6, <2>7, <3>1, <3>2, RecentsMove
  <2>9. PICK q : q = Len(rxQueue[s])
    OBVIOUS
  <2>10. PICK m : m = frames[s] * MaxUnits
    OBVIOUS
  <2>11. q \in Nat /\ m \in Nat /\ m <= MaxSocketBuf /\ r + q <= m
    <3>1. q \in Nat
      BY <1>1, <2>9
    <3>2. \A a, b, c \in Nat : a <= b => a * c \in Nat /\ a * c <= b * c
      OBVIOUS
    <3>3. frames[s] \in Nat /\ frames[s] <= MaxFrames
      BY <1>1
    <3>4. m \in Nat /\ m <= MaxFrames * MaxUnits
      BY <1>1, <2>10, <3>2, <3>3
    <3>5. MaxFrames * MaxUnits \in Nat
      BY <1>1
    <3>6. r + q <= m
      BY <2>2, <2>5, <2>6, <2>9, <2>10 DEF Fits, Queued
    <3>7. QED
      BY <1>1, <3>1, <3>4, <3>5, <3>6
  <2>12. Len(rxQueue[rid]) # MaxSocketBuf
    BY <1>1, <2>1, <2>8, <2>9, <2>11
  <2>13. rxQueue' = [rxQueue EXCEPT ![s] = Append(@, uart[1].n)] /\ left' = left - 1
    BY <1>2, <1>3, <2>1, <2>12
  <2>14. RestWhole'
    <3>1. left' \in Nat /\ left' <= Len(uart')
      BY <1>1, <1>2, <1>3, <2>3, <2>13
    <3>2. ASSUME NEW k \in 1..left' PROVE uart'[k].kind = "data" /\ uart'[k].id = s
      <4>1. k + 1 \in 1..left /\ k \in 1..Len(uart')
        BY <1>1, <1>3, <2>13, <3>1, <3>2
      <4>2. QED
        BY <1>3, <2>3, <4>1
    <3>3. QED
      BY <2>1, <3>1, <3>2 DEF RestWhole
  <2>15. OwnBytes(s)'
    <3>1. \A i \in Recents(s)' : uart'[i].n = conn'[s]
      BY <1>2, <2>2, <2>5, <2>8 DEF OwnBytes
    <3>2. rxQueue[s] \in Seq(Nat) /\ rxQueue'[s] = Append(rxQueue[s], conn[s])
      BY <1>1, <2>5, <2>13
    <3>3. \A u \in 1..Len(rxQueue[s]) : rxQueue[s][u] = conn[s]
      BY <2>2, <2>5 DEF OwnBytes
    <3>4. \A u \in 1..Len(rxQueue'[s]) : rxQueue'[s][u] = conn'[s]
      BY <1>2, <3>2, <3>3
    <3>5. QED
      BY <3>1, <3>4 DEF OwnBytes
  <2>16. Fits(s)'
    <3>1. Queued(s)' = q + 1
      <4>1. rxQueue'[s] = Append(rxQueue[s], uart[1].n) /\ rxQueue[s] \in Seq(Nat)
        BY <1>1, <2>13
      <4>2. Len(rxQueue'[s]) = q + 1
        BY <2>9, <4>1
      <4>3. QED
        BY <2>2, <4>2 DEF Queued
    <3>2. r1 + (q + 1) <= m
      BY <2>8, <2>11
    <3>3. QED
      BY <1>2, <2>7, <2>10, <3>1, <3>2 DEF Fits
  <2>17. ASSUME NEW t \in Ids PROVE OwnBytes(t)' /\ Fits(t)'
    <3>1. CASE t = s
      BY <2>15, <2>16, <3>1
    <3>2. CASE t # s
      <4>1. rxQueue'[t] = rxQueue[t]
        BY <1>1, <2>13, <3>2
      <4>2. QED
        BY <1>6, <4>1
    <3>3. QED
      BY <3>1, <3>2
  <2>18. QED
    BY <2>14, <2>17
<1>9. QED
  BY <1>7, <1>8

LEMMA ParserBytes ==
    ASSUME PInv, PInv', ByteInv, vESP8266RTask, UNCHANGED task,
           MaxFrames * MaxUnits <= MaxSocketBuf
    PROVE  ByteInv'
<1>1. /\ uart \in Seq(Message) /\ uart' \in Seq(Message) /\ Len(uart) \in Nat
      /\ rxQueue \in [Ids -> Seq(Nat)] /\ rxQueue' \in [Ids -> Seq(Nat)]
      /\ new_connects \in Seq(Ids)
  BY DEF PInv, MInv, TInv, TypeOK, DriverTypeOK, ChipTypeOK, SocketsTypeOK
<1>2. UNCHANGED <<conn, frames, clisock, owner, chip>>
  BY DEF vESP8266RTask, TakeToParse, GetClientConnented, NotifyServer,
         GetClientClosed, GetClientRequest, ReadPayload, NotifySocket, ReadStatus,
         ReadUseless, GiveParsed, ReadLine, Parser, peers, task, slots
<1>3. OwnersRight' /\ (chip' = "off" => \A s \in Ids : conn'[s] = NoConn)
  BY <1>2 DEF ByteInv, OwnersRight
<1>4. PICK d \in Nat : Moves(d, LinkKinds)
  BY ParserMovesRing DEF PInv, MInv
<1>5. /\ Moves(d, {}) /\ FramesWhole' /\ \A t : Announced(t)' => Announced(t)
  <2>1. "CONNECT" \in LinkKinds /\ "+IPD" \in LinkKinds
    BY DEF LinkKinds
  <2>2. Moves(d, {})
    BY <1>4 DEF Moves
  <2>3. QED
    BY <1>1, <1>4, <2>1, <2>2, MovesAnnounced, FramesMove DEF ByteInv
<1>6. ASSUME NEW t \in Ids
      PROVE  \A i \in 1..Len(uart') :
               i + d > Len(uart) => uart'[i].kind # "data" \/ uart'[i].id # t
  BY <1>1, <1>4 DEF Moves, LinkKinds
<1>7. RestWhole'
  <2>1. CASE GetClientRequest
    BY <2>1, ReadsFrame
  <2>2. CASE ReadPayload
    BY <2>2, ReadsPayload
  <2>3. CASE ~GetClientRequest /\ ~ReadPayload
    <3>1. rpc' # "frame"
      BY <2>3 DEF vESP8266RTask, TakeToParse, GetClientConnented, NotifyServer,
         GetClientClosed, NotifySocket, ReadStatus, ReadUseless, GiveParsed,
         ReadLine, Parser
    <3>2. QED
      BY <3>1 DEF RestWhole
  <2>4. QED
    BY <2>1, <2>2, <2>3
<1>8. ASSUME NEW t \in Ids PROVE OwnBytes(t)' /\ Fits(t)'
  <2>0. Taken(t)' <=> Taken(t)
    BY <1>2 DEF Taken
  <2>1. CASE ReadPayload
    BY <2>1, ReadsPayload
  <2>2. CASE GetClientConnented
    <3>1. PICK s \in Ids : s = uart[1].id
      <4>1. uart # <<>> /\ Head(uart).kind = "CONNECT"
        BY <2>2 DEF GetClientConnented, ReadLine
      <4>2. uart[1] \in Message /\ uart[1].kind = "CONNECT"
        BY <1>1, <4>1
      <4>3. QED
        BY <4>2 DEF Message
    <3>2. /\ uart # <<>> /\ uart[1].kind = "CONNECT" /\ 1 \in 1..Len(uart)
          /\ new_connects' = new_connects \/ new_connects' = Append(new_connects, s)
          /\ rxQueue' = [rxQueue EXCEPT ![s] = <<>>]
      <4>1. uart # <<>> /\ Head(uart).kind = "CONNECT" /\ Head(uart) = uart[1]
        BY <1>1, <2>2 DEF GetClientConnented, ReadLine
      <4>2. 1 \in 1..Len(uart)
        BY <1>1, <4>1
      <4>3. QED
        BY <2>2, <3>1, <4>1, <4>2 DEF GetClientConnented, NewSocket
    <3>3. CASE t = s
      <4>1. Placed(t)
        BY <3>1, <3>2, <3>3 DEF Placed, Announced
      <4>2. rxQueue'[t] = <<>>
        BY <1>1, <3>2, <3>3
      <4>3. Queued(t)' <= Queued(t)
        BY <1>1, <4>2 DEF Queued
      <4>4. QED
        BY <1>2, <1>5, <1>6, <4>1, <4>2, <4>3, LinkKeeps
    <3>4. CASE t # s
      <4>1. rxQueue'[t] = rxQueue[t]
        BY <1>1, <3>2, <3>4
      <4>2. Waiting(t)' => Waiting(t)
        <5>1. ASSUME NEW k \in 1..Len(new_connects'), new_connects'[k] = t
              PROVE  k \in 1..Len(new_connects) /\ new_connects[k] = t
          BY <1>1, <3>2, <3>4, <5>1
        <5>2. QED
          BY <5>1 DEF Waiting
      <4>3. QED
        BY <1>2, <1>5, <1>6, <2>0, <4>1, <4>2, LinkRests
    <3>5. QED
      BY <3>3, <3>4
  <2>3. CASE GetClientClosed
    <3>1. PICK s : rxQueue' = [rxQueue EXCEPT ![s] = <<>>]
      BY <2>3 DEF GetClientClosed
    <3>2. new_connects' = new_connects
      BY <2>3 DEF GetClientClosed, queues
    <3>3. Waiting(t)' <=> Waiting(t)
      BY <3>2 DEF Waiting
    <3>4. CASE rxQueue'[t] = rxQueue[t]
      BY <1>2, <1>5, <1>6, <2>0, <3>3, <3>4, LinkRests
    <3>5. CASE rxQueue'[t] = <<>>
      <4>1. Placed(t)' => Placed(t)
        BY <1>5, <2>0, <3>3 DEF Placed
      <4>2. Queued(t)' <= Queued(t)
        BY <1>1, <3>5 DEF Queued
      <4>3. QED
        BY <1>2, <1>5, <1>6, <3>5, <4>1, <4>2, LinkKeeps
    <3>6. QED
      BY <1>1, <3>1, <3>4, <3>5
  <2>4. CASE ~ReadPayload /\ ~GetClientConnented /\ ~GetClientClosed
    <3>1. UNCHANGED <<rxQueue, new_connects>>
      BY <2>4 DEF vESP8266RTask, TakeToParse, NotifyServer, GetClientRequest,
         NotifySocket, ReadStatus, ReadUseless, GiveParsed, socks, queues
    <3>2. Waiting(t)' <=> Waiting(t)
      BY <3>1 DEF Waiting
    <3>3. QED
      BY <1>2, <1>5, <1>6, <2>0, <3>1, <3>2, LinkRests
  <2>5. QED
    BY <2>1, <2>2, <2>3, <2>4
<1>9. QED
  BY <1>3, <1>5, <1>7, <1>8 DEF ByteInv

(* The other tasks leave the ring alone in the middle of a frame. *)
LEMMA OthersBytes ==
    ASSUME PInv, PInv', ByteInv,
           UNCHANGED <<rpc, rid, left, rxQueue, frames, new_connects, clisock, owner>>,
           rpc = "frame" => uart' = uart,
           \E d \in Nat : Moves(d, LinkKinds),
           \A s \in Ids : Placed(s) => conn'[s] = conn[s],
           chip' = "off" => chip = "off" /\ conn' = conn
    PROVE  ByteInv'
<1>1. /\ uart \in Seq(Message) /\ uart' \in Seq(Message) /\ Len(uart) \in Nat
      /\ clisock \in [Slots -> Ids \cup {NoSock}]
  BY DEF PInv, MInv, TInv, TypeOK, DriverTypeOK, ChipTypeOK, SlotsTypeOK
<1>2. PICK d \in Nat : Moves(d, LinkKinds)
  OBVIOUS
<1>3. /\ Moves(d, {}) /\ FramesWhole' /\ \A t : Announced(t)' => Announced(t)
  <2>1. "CONNECT" \in LinkKinds /\ "+IPD" \in LinkKinds
    BY DEF LinkKinds
  <2>2. Moves(d, {})
    BY <1>2 DEF Moves
  <2>3. QED
    BY <1>1, <1>2, <2>1, <2>2, MovesAnnounced, FramesMove DEF ByteInv
<1>4. \A t : (Waiting(t)' <=> Waiting(t)) /\ (Taken(t)' <=> Taken(t))
  BY DEF Waiting, Taken
<1>5. RestWhole'
  <2>1. CASE rpc = "frame"
    <3>1. Moves(0, {})
      BY <1>1, <2>1, Stays
    <3>2. (Waiting(rid)' <=> Waiting(rid)) /\ (Taken(rid)' <=> Taken(rid))
      BY DEF Waiting, Taken
    <3>3. QED
      BY <3>1, <3>2, RestStays
  <2>2. CASE rpc # "frame"
    BY <2>2 DEF RestWhole
  <2>3. QED
    BY <2>1, <2>2
<1>6. ASSUME NEW t \in Ids PROVE OwnBytes(t)' /\ Fits(t)'
  <2>1. \A i \in 1..Len(uart') :
            i + d > Len(uart) => uart'[i].kind # "data" \/ uart'[i].id # t
    BY <1>1, <1>2 DEF Moves, LinkKinds
  <2>2. Placed(t)' => conn'[t] = conn[t] /\ frames'[t] = frames[t]
    BY <1>3, <1>4 DEF Placed
  <2>3. QED
    BY <1>3, <1>4, <2>1, <2>2, LinkRests
<1>7. OwnersRight'
  <2> SUFFICES ASSUME NEW i \in Slots, clisock[i] # NoSock
               PROVE  owner[i] = conn'[clisock[i]]
    BY DEF OwnersRight
  <2>1. PICK s \in Ids : s = clisock[i]
    BY <1>1
  <2>2. Placed(s)
    BY <2>1 DEF Placed, Taken
  <2>3. QED
    BY <2>1, <2>2 DEF ByteInv, OwnersRight
<1>8. QED
  BY <1>3, <1>5, <1>6, <1>7 DEF ByteInv

LEMMA CommanderBytes ==
    ASSUME PInv, PInv', ByteInv, vESP8266TTask, UNCHANGED task
    PROVE  ByteInv'
<1>1. UNCHANGED <<rpc, rid, left, rxQueue, frames, new_connects, clisock, owner>>
  BY DEF vESP8266TTask, TakeToCommand, SendHeader, SendPayload, NoPrompt,
         ReadSendOk, SendEnd, CloseHeader, ReadClosed, GiveCommanded, Suspend,
         ReadAnswer, Commander, queues, peers, task, slots
<1>2. rpc = "frame" => uart' = uart
  <2>1. rpc = "frame" => mutex = "parse" /\ ~CarryingOut
    BY DEF PInv, MInv, IInv, OneReader
  <2>2. CASE TakeToCommand \/ SendEnd \/ GiveCommanded \/ Suspend
    BY <2>2 DEF TakeToCommand, SendEnd, GiveCommanded, Suspend
  <2>3. CASE SendHeader \/ SendPayload \/ NoPrompt \/ ReadSendOk \/ CloseHeader
             \/ ReadClosed
    BY <2>1, <2>3 DEF SendHeader, SendPayload, NoPrompt, ReadSendOk, CloseHeader,
       ReadClosed, ReadAnswer, Commander, CarryingOut
  <2>4. QED
    BY <2>2, <2>3 DEF vESP8266TTask
<1>3. \E d \in Nat : Moves(d, LinkKinds)
  BY CommanderMovesRing DEF PInv, MInv
<1>4. CASE CloseHeader
  <2>1. \A s \in Ids : Placed(s) => conn'[s] = conn[s]
    <3>1. command = "close" /\ tpc = "close"
      BY <1>4 DEF CloseHeader, Commander, PInv, MInv, CommandMatches
    <3>2. \A s \in Ids : Placed(s) => s # working
      BY <3>1 DEF PInv, PlaceInv, PlacedIsOpen, ToBeClosed
    <3>3. conn \in [Ids -> 0..MaxConn]
      BY DEF PInv, MInv, TInv, TypeOK, DriverTypeOK, ChipTypeOK
    <3>4. QED
      BY <1>4, <3>2, <3>3 DEF CloseHeader
  <2>2. chip' # "off"
    BY <1>4 DEF CloseHeader, TakesForPayload, Obeys
  <2>3. QED
    BY <1>1, <1>2, <1>3, <2>1, <2>2, OthersBytes
<1>5. CASE ~CloseHeader
  <2>1. conn' = conn /\ (chip' = "off" => chip = "off")
    BY <1>5 DEF vESP8266TTask, TakeToCommand, SendHeader, SendPayload, NoPrompt,
         ReadSendOk, SendEnd, ReadClosed, GiveCommanded, Suspend, TakesForPayload,
         Obeys, peers
  <2>2. QED
    BY <1>1, <1>2, <1>3, <2>1, OthersBytes
<1>6. QED
  BY <1>4, <1>5

LEMMA StartupBytes ==
    ASSUME PInv, PInv', ByteInv, MicroHTTPServer_task
    PROVE  ByteInv'
<1>1. UNCHANGED <<rpc, rid, left, rxQueue, frames, new_connects, clisock, owner,
                  conn, chip>>
  BY DEF MicroHTTPServer_task, Initialized, Linked, AwaitState, JoinAccessPoint,
     HaveInterfaceIP, BindTcpSocket, BindFails, Command, Answer, HTTPServerClose,
     Startup, Server, socks, queues, slots, peers
<1>2. rpc = "frame" => uart' = uart
  <2>1. rpc = "frame" =>
            mutex = "parse" /\ spc \notin {"joined", "ipEcho", "ipLines", "muxed", "bound"}
    BY DEF PInv, MInv, IInv, OneReader
  <2>2. CASE Initialized \/ Linked \/ HTTPServerClose
    BY <2>2 DEF Initialized, Linked, AwaitState, HTTPServerClose
  <2>3. CASE JoinAccessPoint \/ HaveInterfaceIP
    BY <2>1, <2>3 DEF JoinAccessPoint, HaveInterfaceIP, Command, Answer, Startup, Server
  <2>4. CASE BindTcpSocket \/ BindFails
    BY <2>1, <2>4 DEF BindTcpSocket, BindFails, Command, Answer, Startup, Server
  <2>5. QED
    BY <2>2, <2>3, <2>4 DEF MicroHTTPServer_task
<1>3. \E d \in Nat : Moves(d, LinkKinds)
  BY StartupMovesRing DEF PInv, MInv
<1>4. QED
  BY <1>1, <1>2, <1>3, OthersBytes

LEMMA RunBytes ==
    ASSUME PInv, PInv', ByteInv, HTTPServerRun
    PROVE  ByteInv'
<1>1. /\ uart \in Seq(Message) /\ Len(uart) \in Nat
      /\ clisock \in [Slots -> Ids \cup {NoSock}] /\ cur \in Slots
      /\ rxQueue \in [Ids -> Seq(Nat)]
      /\ new_connects \in Seq(Ids) /\ owner \in [Slots -> 0..MaxConn]
  BY DEF PInv, MInv, TInv, TypeOK, DriverTypeOK, ChipTypeOK, SocketsTypeOK, SlotsTypeOK
<1>2. UNCHANGED <<rpc, rid, left, uart, conn, frames, chip>>
  BY RunLeaves
<1>3. Moves(0, {}) /\ FramesWhole' /\ \A t : Announced(t)' <=> Announced(t)
  BY <1>1, <1>2, Stays DEF ByteInv, FramesWhole, Announced
<1>4. chip' = "off" => \A s \in Ids : conn'[s] = NoConn
  BY <1>2 DEF ByteInv
<1>5. \A t \in Ids : Waiting(t)' \/ Taken(t)' => Waiting(t) \/ Taken(t)
  <2>1. CASE _HTTPServerAccept
    <3>1. /\ new_connects # <<>> /\ new_connects' = Tail(new_connects)
          /\ clisock' = [i \in Slots |-> IF FirstFree(i) THEN Head(new_connects)
                                         ELSE clisock[i]]
      BY <2>1 DEF _HTTPServerAccept
    <3>2. /\ 1 \in 1..Len(new_connects) /\ Head(new_connects) = new_connects[1]
          /\ \A k \in 1..Len(new_connects') :
                k + 1 \in 1..Len(new_connects) /\ new_connects'[k] = new_connects[k + 1]
      BY <1>1, <3>1
    <3>3. \A t : Waiting(t)' => Waiting(t)
      BY <3>2 DEF Waiting
    <3>4. ASSUME NEW t \in Ids, NEW i \in Slots, clisock'[i] = t
          PROVE  Waiting(t) \/ Taken(t)
      BY <3>1, <3>2, <3>4 DEF Waiting, Taken
    <3>5. QED
      BY <3>3, <3>4 DEF Taken
  <2>2. CASE CloseUnused \/ ShutdownSocket
    <3>1. new_connects' = new_connects /\ clisock' = [clisock EXCEPT ![cur] = NoSock]
      BY <2>2 DEF CloseUnused, ShutdownSocket, FreeSlot, Quietly, queues
    <3>2. QED
      BY <1>1, <3>1, SlotAssumption DEF Waiting, Taken
  <2>3. CASE ~_HTTPServerAccept /\ ~CloseUnused /\ ~ShutdownSocket
    <3>1. UNCHANGED <<new_connects, clisock>>
      BY <2>3 DEF HTTPServerRun, Select, MarkServer, AcceptFails, SkipFreeSlot,
         Visit, Recv, RecvMore, _HTTPServerRequest, WriteSock, WriteNothing,
         SetWriting, SendSocket, KeepSlot, CloseUsed, Poll, StoreState, Quietly,
         vars, driver, queues, slots
    <3>2. QED
      BY <3>1 DEF Waiting, Taken
  <2>4. QED
    BY <2>1, <2>2, <2>3
<1>6. RestWhole'
  <2>1. ASSUME Waiting(rid)' \/ Taken(rid)' PROVE Waiting(rid) \/ Taken(rid)
    <3>1. PICK r : r = rid /\ r = rid'
      BY <1>2
    <3>2. rid' \in Ids
      <4>1. rid' \in Ids \cup {Svr}
        BY DEF PInv, MInv, TInv, TypeOK, DriverTypeOK, TasksTypeOK
      <4>2. /\ clisock' \in [Slots -> Ids \cup {NoSock}] /\ new_connects' \in Seq(Ids)
        BY DEF PInv, MInv, TInv, TypeOK, DriverTypeOK, SocketsTypeOK, SlotsTypeOK
      <4>3. QED
        BY <2>1, <4>1, <4>2 DEF Waiting, Taken, Svr, NoSock
    <3>3. Waiting(r)' \/ Taken(r)'
      BY <2>1, <3>1 DEF Waiting, Taken
    <3>4. QED
      BY <1>5, <3>1, <3>2, <3>3
  <2>2. QED
    BY <1>2, <1>3, <2>1, RestStays
<1>7. ASSUME NEW t \in Ids PROVE OwnBytes(t)' /\ Fits(t)'
  <2>1. \A i \in 1..Len(uart') :
            i + 0 > Len(uart) => uart'[i].kind # "data" \/ uart'[i].id # t
    BY <1>1, <1>2
  <2>2. CASE rxQueue'[t] = rxQueue[t]
    BY <1>2, <1>3, <1>5, <2>1, <2>2, LinkRests
  <2>3. CASE rxQueue'[t] # rxQueue[t]
    <3>1. Recv
      BY <2>3 DEF HTTPServerRun, Select, _HTTPServerAccept, MarkServer, AcceptFails,
         SkipFreeSlot, Visit, RecvMore, _HTTPServerRequest, WriteSock, WriteNothing,
         SetWriting, SendSocket, KeepSlot, CloseUnused, CloseUsed, ShutdownSocket,
         Poll, StoreState, Quietly, vars, driver, socks
    <3>2. PICK rest : /\ rest = IF rxQueue[clisock[cur]] = <<>> THEN <<>>
                                ELSE Tail(rxQueue[clisock[cur]])
                      /\ rxQueue' = [rxQueue EXCEPT ![clisock[cur]] = rest]
      BY <3>1 DEF Recv
    <3>3. /\ t = clisock[cur] /\ rxQueue[t] # <<>> /\ rxQueue'[t] = Tail(rxQueue[t])
          /\ rxQueue[t] \in Seq(Nat)
      BY <1>1, <2>3, <3>2
    <3>4. /\ Taken(t) /\ ~Announced(t) /\ ~Announced(t)' /\ Placed(t)
      BY <1>1, <1>3, <3>3 DEF Taken, Placed, PInv, PlaceInv, OnePlace
    <3>5. /\ Len(rxQueue'[t]) <= Len(rxQueue[t])
          /\ \A u \in 1..Len(rxQueue'[t]) :
                u + 1 \in 1..Len(rxQueue[t]) /\ rxQueue'[t][u] = rxQueue[t][u + 1]
      BY <3>3
    <3>6. Queued(t)' <= Queued(t)
      BY <3>4, <3>5 DEF Queued
    <3>7. \A u \in 1..Len(rxQueue'[t]) : rxQueue'[t][u] = conn[t]
      BY <3>4, <3>5 DEF ByteInv, OwnBytes
    <3>8. QED
      BY <1>2, <1>3, <2>1, <3>4, <3>6, <3>7, LinkKeeps
  <2>4. QED
    BY <2>2, <2>3
<1>8. OwnersRight'
  <2>1. CASE _HTTPServerAccept
    <3>1. /\ clisock' = [i \in Slots |-> IF FirstFree(i) THEN Head(new_connects)
                                         ELSE clisock[i]]
          /\ owner' = [i \in Slots |-> IF FirstFree(i) THEN conn[Head(new_connects)]
                                       ELSE owner[i]]
      BY <2>1 DEF _HTTPServerAccept
    <3>2. QED
      BY <1>2, <3>1 DEF ByteInv, OwnersRight
  <2>2. CASE CloseUnused \/ ShutdownSocket
    <3>1. /\ clisock' = [clisock EXCEPT ![cur] = NoSock]
          /\ owner' = [owner EXCEPT ![cur] = NoConn]
      BY <2>2 DEF CloseUnused, ShutdownSocket, FreeSlot
    <3>2. QED
      BY <1>1, <1>2, <3>1 DEF ByteInv, OwnersRight
  <2>3. CASE ~_HTTPServerAccept /\ ~CloseUnused /\ ~ShutdownSocket
    <3>1. UNCHANGED <<clisock, owner>>
      BY <2>3 DEF HTTPServerRun, Select, MarkServer, AcceptFails, SkipFreeSlot,
         Visit, Recv, RecvMore, _HTTPServerRequest, WriteSock, WriteNothing,
         SetWriting, SendSocket, KeepSlot, CloseUsed, Poll, StoreState, Quietly,
         vars, slots, task
    <3>2. QED
      BY <1>2, <3>1 DEF ByteInv, OwnersRight
  <2>4. QED
    BY <2>1, <2>2, <2>3
<1>9. QED
  BY <1>3, <1>4, <1>6, <1>7, <1>8 DEF ByteInv

LEMMA InitBytes == Init => ByteInv
<1> SUFFICES ASSUME Init PROVE ByteInv
  OBVIOUS
<1>1. /\ Len(uart) = 0 /\ rpc = "wait" /\ chip = "off"
      /\ \A s \in Ids : conn[s] = NoConn
      /\ \A i \in Slots : clisock[i] = NoSock
  BY DEF Init, InitESP8266
<1>2. \A s \in Ids : ~Placed(s)
  BY <1>1, InitPlaces DEF PlaceInv, PlacedIsOpen
<1>3. \A s \in Ids : OwnBytes(s) /\ Fits(s)
  BY <1>2 DEF OwnBytes, Fits, Placed
<1>4. QED
  BY <1>1, <1>3 DEF ByteInv, FramesWhole, RestWhole, OwnersRight

LEMMA NextBytes ==
    ASSUME ~Impatient, MaxFrames * MaxUnits <= MaxSocketBuf,
           PInv, PInv', ByteInv, [Next]_vars
    PROVE  ByteInv'
<1>1. CASE (Chip \/ vESP8266RTask \/ vESP8266TTask) /\ UNCHANGED task
  BY <1>1, ChipBytes, ParserBytes, CommanderBytes
<1>2. CASE MicroHTTPServer_task \/ HTTPServerRun
  BY <1>2, StartupBytes, RunBytes
<1>3. CASE UNCHANGED vars
  <2>1. UNCHANGED <<uart, new_connects, clisock, conn, frames, rxQueue, rpc, rid,
                    left, chip, owner>>
    BY <1>3 DEF vars, driver, socks, queues, peers, slots, task
  <2>2. ASSUME NEW s \in Ids PROVE OwnBytes(s)' /\ Fits(s)'
    <3>1. uart \in Seq(Message) /\ Len(uart) \in Nat
      BY DEF PInv, MInv, TInv, TypeOK, DriverTypeOK, ChipTypeOK
    <3>2. Moves(0, {})
      BY <2>1, <3>1, Stays
    <3>3. \A i \in 1..Len(uart') :
              i + 0 > Len(uart) => uart'[i].kind # "data" \/ uart'[i].id # s
      BY <2>1, <3>1
    <3>4. /\ Announced(s)' <=> Announced(s)
          /\ Waiting(s)' <=> Waiting(s)
          /\ Taken(s)' <=> Taken(s)
      BY <2>1 DEF Announced, Waiting, Taken
    <3>5. QED
      BY <2>1, <3>2, <3>3, <3>4, LinkRests
  <2>3. FramesWhole' /\ RestWhole' /\ OwnersRight'
    BY <2>1 DEF ByteInv, FramesWhole, RestWhole, OwnersRight, Waiting, Taken
  <2>4. QED
    BY <2>1, <2>2, <2>3 DEF ByteInv
<1>4. QED
  BY <1>1, <1>2, <1>3 DEF Next

(* What a slot reads was sent on the connection it was accepted for: with  *)
(* peers that do not close first and queues that hold all that one sends,  *)
(* although the chip gives a link's number again as soon as it is closed,  *)
(* however the tasks are sliced and whatever else the chip says.           *)
THEOREM ReadsOwnCorrect ==
    ASSUME ~Impatient, MaxFrames * MaxUnits <= MaxSocketBuf
    PROVE  Spec => []ReadsOwnBytes
<1>1. PInv /\ ByteInv => ReadsOwnBytes
  <2> SUFFICES ASSUME PInv, ByteInv, spc = "recv", rxQueue[clisock[cur]] # <<>>
               PROVE  Head(rxQueue[clisock[cur]]) = owner[cur]
    BY DEF ReadsOwnBytes
  <2>1. cur \in Slots /\ clisock[cur] \in Ids /\ rxQueue[clisock[cur]] \in Seq(Nat)
    BY DEF PInv, MInv, TInv, SlotTaken, AtSlot, TypeOK, DriverTypeOK, SocketsTypeOK,
           SlotsTypeOK
  <2>2. PICK s \in Ids : s = clisock[cur]
    BY <2>1
  <2>3. Taken(s)
    BY <2>1, <2>2 DEF Taken
  <2>4. rxQueue[s][1] = conn[s]
    <3>1. 1 \in 1..Len(rxQueue[s])
      BY <2>1, <2>2
    <3>2. QED
      BY <2>3, <3>1 DEF ByteInv, OwnBytes
  <2>5. owner[cur] = conn[s]
    BY <2>1, <2>2, SlotAssumption DEF ByteInv, OwnersRight
  <2>6. QED
    BY <2>1, <2>2, <2>4, <2>5
<1>2. PInv /\ PInv' /\ ByteInv /\ [Next]_vars => ByteInv'
  BY NextBytes
<1>3. QED
  BY <1>1, <1>2, InitBytes, SentInvariant, PTL DEF Spec

=============================================================================
