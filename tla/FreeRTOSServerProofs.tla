------------------------ MODULE FreeRTOSServerProofs ------------------------
(***************************************************************************)
(* The three tasks of the FreeRTOS port exclude each other at the UART,    *)
(* and a command is not changed while it is carried out, for any number of *)
(* links and slots, whatever the chip says and however the tasks are       *)
(* sliced.                                                                 *)
(*                                                                         *)
(* Of a step only its effect on the mutex, the command and the places of   *)
(* the tasks matters: one lemma per task says which effects there are.     *)
(***************************************************************************)
EXTENDS FreeRTOSServer, FiniteSetTheorems, TLAPS

Awaiting   == {"joined", "ipEcho", "ipLines", "muxed", "bound"}
Commanding == {"send", "prompt", "sent", "sendEnd", "close", "closed", "give"}

(* The command task has a command while it is at it: the server's test     *)
(* that there is none (Quiet) then fails, which keeps the command as it is *)
(* although the server takes no lock.                                      *)
CommandHeld ==
    /\ command \in {"none", "send", "close"}
    /\ CarryingOut \/ tpc = "take" => command # "none"

IInv == OneReader /\ CommandHeld

-----------------------------------------------------------------------------
ParserMoves ==
    /\ UNCHANGED <<command, working, tpc, spc>>
    /\ \/ /\ rpc = "wait" /\ rpc' # "wait"
          /\ mutex = "free" /\ mutex' = "parse"
       \/ rpc # "wait" /\ rpc' = "wait" /\ mutex' = "free"
       \/ rpc # "wait" /\ rpc' # "wait" /\ mutex' = mutex

CommanderMoves ==
    /\ UNCHANGED <<working, rpc, spc>>
    /\ \/ /\ tpc = "take" /\ tpc' = command /\ command' = command
          /\ mutex = "free" /\ mutex' = "command"
       \/ /\ tpc \in Commanding \ {"give"} /\ tpc' \in Commanding
          /\ mutex' = mutex
          /\ (tpc' = "give" /\ command' = "none") \/ command' = command
       \/ /\ tpc = "give" /\ tpc' = "suspend" /\ command' = command
          /\ mutex' = "free"
       \/ /\ tpc = "suspend" /\ tpc' = "suspended" /\ command' = command
          /\ mutex' = mutex

ServerMoves ==
    /\ rpc' = rpc
    /\ \/ UNCHANGED <<command, working, tpc>>
       \/ /\ command = "none" /\ command' \in {"send", "close"}
          /\ tpc' = IF tpc = "suspended" THEN "take" ELSE tpc
    /\ \/ /\ spc \notin Awaiting /\ spc' \in Awaiting
          /\ mutex = "free" /\ mutex' = "server"
       \/ spc \in Awaiting /\ spc' \notin Awaiting /\ mutex' = "free"
       \/ spc \in Awaiting /\ spc' \in Awaiting /\ mutex' \in {mutex, "server"}
       \/ spc \notin Awaiting /\ spc' \notin Awaiting /\ mutex' = mutex

-----------------------------------------------------------------------------
(* What the chip says changes no task. *)
LEMMA ChipStep == Chip => UNCHANGED <<mutex, command, working, rpc, tpc, spc>>
  BY DEF Chip, PowerUp, GotIp, Disconnect, PeerConnects, PeerSends, PeerCloses,
         Says, order

(* The parse task holds the UART from TakeToParse to GiveParsed. *)
LEMMA ParserStep == vESP8266RTask => ParserMoves
<1> SUFFICES ASSUME vESP8266RTask PROVE ParserMoves
  OBVIOUS
<1> USE DEF Parser, order
<1>1. CASE TakeToParse
  BY <1>1 DEF TakeToParse, ParserMoves
<1>2. CASE GetClientConnented \/ GetClientClosed \/ GetClientRequest \/ ReadStatus
  BY <1>2 DEF GetClientConnented, GetClientClosed, GetClientRequest, ReadStatus,
              ReadLine, ParserMoves
<1>3. CASE NotifyServer \/ ReadPayload \/ NotifySocket
  BY <1>3 DEF NotifyServer, ReadPayload, NotifySocket, ParserMoves
<1>4. CASE ReadUseless
  BY <1>4 DEF ReadUseless, ReadLine, ParserMoves
<1>5. CASE GiveParsed
  BY <1>5 DEF GiveParsed, ParserMoves
<1>6. QED
  BY <1>1, <1>2, <1>3, <1>4, <1>5 DEF vESP8266RTask

(* The command task holds it from TakeToCommand to GiveCommanded. *)
LEMMA CommanderStep == vESP8266TTask => CommanderMoves
<1> SUFFICES ASSUME vESP8266TTask PROVE CommanderMoves
  OBVIOUS
<1> USE DEF Commander, Same, Commanding
<1>1. CASE TakeToCommand
  BY <1>1 DEF TakeToCommand, CommanderMoves
<1>2. CASE SendHeader
  BY <1>2 DEF SendHeader, CommanderMoves
<1>3. CASE SendPayload \/ NoPrompt \/ ReadSendOk
  BY <1>3 DEF SendPayload, NoPrompt, ReadSendOk, ReadAnswer, CommanderMoves
<1>4. CASE SendEnd
  BY <1>4 DEF SendEnd, CommanderMoves
<1>5. CASE CloseHeader
  BY <1>5 DEF CloseHeader, CommanderMoves
<1>6. CASE ReadClosed
  BY <1>6 DEF ReadClosed, ReadAnswer, CommanderMoves
<1>7. CASE GiveCommanded
  BY <1>7 DEF GiveCommanded, CommanderMoves
<1>8. CASE Suspend
  BY <1>8 DEF Suspend, CommanderMoves
<1>9. QED
  BY <1>1, <1>2, <1>3, <1>4, <1>5, <1>6, <1>7, <1>8 DEF vESP8266TTask

(* The server holds it while it awaits the answers to its commands at      *)
(* start-up; later it only gives commands, when there is none.             *)
LEMMA StartupStep == MicroHTTPServer_task => ServerMoves
<1> SUFFICES ASSUME MicroHTTPServer_task PROVE ServerMoves
  OBVIOUS
<1> USE DEF Server, Startup, order, Awaiting
<1>1. CASE Initialized \/ Linked
  BY <1>1 DEF Initialized, Linked, AwaitState, ServerMoves
<1>2. CASE JoinAccessPoint
  BY <1>2 DEF JoinAccessPoint, Command, Answer, ServerMoves
<1>3. CASE HaveInterfaceIP
  BY <1>3 DEF HaveInterfaceIP, Command, Answer, ServerMoves
<1>4. CASE BindTcpSocket
  BY <1>4 DEF BindTcpSocket, Command, Answer, ServerMoves
<1>5. CASE BindFails
  BY <1>5 DEF BindFails, Answer, ServerMoves
<1>6. CASE HTTPServerClose
  BY <1>6 DEF HTTPServerClose, Quiet, Resume, ServerMoves
<1>7. QED
  BY <1>1, <1>2, <1>3, <1>4, <1>5, <1>6 DEF MicroHTTPServer_task

LEMMA RunStep == HTTPServerRun => ServerMoves
<1> SUFFICES ASSUME HTTPServerRun PROVE ServerMoves
  OBVIOUS
<1> USE DEF Loop, Server, order, Awaiting
<1>1. CASE Select \/ _HTTPServerAccept \/ MarkServer \/ AcceptFails
  BY <1>1 DEF Select, _HTTPServerAccept, MarkServer, AcceptFails, ServerMoves
<1>2. CASE SkipFreeSlot \/ KeepSlot \/ CloseUnused
  BY <1>2 DEF SkipFreeSlot, KeepSlot, CloseUnused, NextSlot, Quietly, ServerMoves
<1>3. CASE Visit \/ WriteSock \/ WriteNothing \/ CloseUsed
  BY <1>3 DEF Visit, WriteSock, WriteNothing, CloseUsed, Quietly, ServerMoves
<1>4. CASE Recv
  BY <1>4 DEF Recv, ServerMoves
<1>5. CASE RecvMore \/ _HTTPServerRequest \/ SetWriting
  BY <1>5 DEF RecvMore, _HTTPServerRequest, SetWriting, StoreState, ServerMoves
<1>6. CASE SendSocket
  BY <1>6 DEF SendSocket, Quiet, Resume, ServerMoves
<1>7. CASE ShutdownSocket
  BY <1>7 DEF ShutdownSocket, NextSlot, Quiet, Resume, ServerMoves
<1>8. CASE Poll
  BY <1>8 DEF Poll, vars, driver, ServerMoves
<1>9. QED
  BY <1>1, <1>2, <1>3, <1>4, <1>5, <1>6, <1>7, <1>8 DEF HTTPServerRun

-----------------------------------------------------------------------------
LEMMA InitIInv == Init => IInv
  BY DEF Init, InitESP8266, IInv, OneReader, CommandHeld, CarryingOut

LEMMA NextIInv == IInv /\ [Next]_vars => IInv'
<1> SUFFICES ASSUME IInv, [Next]_vars PROVE IInv'
  OBVIOUS
<1> USE DEF IInv, OneReader, CommandHeld, CarryingOut
<1>1. CASE Chip
  BY <1>1, ChipStep
<1>2. CASE vESP8266RTask
  BY <1>2, ParserStep DEF ParserMoves
<1>3. CASE vESP8266TTask
  BY <1>3, CommanderStep DEF CommanderMoves, Commanding
<1>4. CASE MicroHTTPServer_task \/ HTTPServerRun
  BY <1>4, StartupStep, RunStep DEF ServerMoves, Awaiting
<1>5. CASE UNCHANGED vars
  BY <1>5 DEF vars, driver, order
<1>6. QED
  BY <1>1, <1>2, <1>3, <1>4, <1>5 DEF Next

(* A step leaves the command that is carried out as it is, or ends it. *)
LEMMA NextStable ==
    ASSUME IInv, [Next]_vars, CarryingOut
    PROVE  working' = working /\ (command' = command \/ tpc' = "give")
<1> USE DEF IInv, CommandHeld, CarryingOut
<1>1. CASE Chip
  BY <1>1, ChipStep
<1>2. CASE vESP8266RTask
  BY <1>2, ParserStep DEF ParserMoves
<1>3. CASE vESP8266TTask
  BY <1>3, CommanderStep DEF CommanderMoves
<1>4. CASE MicroHTTPServer_task \/ HTTPServerRun
  BY <1>4, StartupStep, RunStep DEF ServerMoves
<1>5. CASE UNCHANGED vars
  BY <1>5 DEF vars, driver, order
<1>6. QED
  BY <1>1, <1>2, <1>3, <1>4, <1>5 DEF Next

(* The invariant holds in every reachable state. *)
THEOREM Invariant == Spec => []IInv
<1>1. QED
  BY InitIInv, NextIInv, PTL DEF Spec

(* Nobody reads another's messages: who awaits one holds the mutex         *)
(* (mac_esp8266.c:40, 208-214, 228-240).                                   *)
THEOREM OneReaderCorrect == Spec => []OneReader
<1>1. IInv => OneReader
  BY DEF IInv
<1>2. QED
  BY <1>1, Invariant, PTL

(* A command is carried out as it was given (mac_esp8266.c:602-619).       *)
THEOREM CommandStable == Spec => CommandIsStable
<1>1. IInv /\ [Next]_vars
        => [CarryingOut => /\ working' = working
                           /\ command' = command \/ tpc' = "give"]_vars
  BY NextStable
<1>2. QED
  BY <1>1, Invariant, PTL DEF Spec, CommandIsStable

-----------------------------------------------------------------------------
(* Types.  Where the server works with a slot, the slot has a socket.      *)
AtSlot == {"recv", "recvMark", "recvLast", "write", "setWriting", "send",
           "close", "shutdown"}
SlotTaken == spc \in AtSlot => clisock[cur] # NoSock

TInv == TypeOK /\ SlotTaken

LEMMA InitTInv == Init => TInv
<1> SUFFICES ASSUME Init PROVE TInv
  OBVIOUS
<1>1. SocketsTypeOK
  <2>1. Cardinality(Ids) \in Nat
    BY Esp8266Assumption, FS_CardinalityType
  <2>2. rxQueue \in [Ids -> Seq(Nat)] /\ \A s \in Ids : rxQueue[s] = <<>>
    <3>1. <<>> \in Seq(Nat)
      OBVIOUS
    <3>2. QED
      BY <3>1 DEF Init, InitESP8266
  <2>3. \A s \in Ids : Len(rxQueue[s]) <= MaxSocketBuf
    BY <2>2, Esp8266Assumption
  <2>4. state \in [Ids -> SUBSET StateBits] /\ slen \in [Ids -> {0, 1}]
    BY DEF Init, InitESP8266, StateBits
  <2>5. new_connects \in Seq(Ids) /\ Len(new_connects) <= Cardinality(Ids)
    BY <2>1 DEF Init, InitESP8266
  <2>6. svrReadable \in BOOLEAN
    BY DEF Init, InitESP8266
  <2>7. QED
    BY <2>2, <2>3, <2>4, <2>5, <2>6 DEF SocketsTypeOK
<1>2. TasksTypeOK
  BY DEF Init, InitESP8266, TasksTypeOK
<1>3. ChipTypeOK
  <2>1. conn \in [Ids -> 0..MaxConn] /\ frames \in [Ids -> 0..MaxFrames]
    BY Esp8266Assumption DEF Init, InitESP8266, NoConn
  <2>2. conns \in 0..MaxConn /\ uart \in Seq(Message)
    BY Esp8266Assumption DEF Init, InitESP8266
  <2>3. QED
    BY <2>1, <2>2 DEF Init, InitESP8266, ChipTypeOK
<1>4. owner \in [Slots -> 0..MaxConn] /\ cur \in Slots
  BY ServerAssumption, Esp8266Assumption DEF Init, Slots, NoConn
<1>5. store \subseteq StateBits
  BY DEF Init
<1>6. QED
  BY <1>1, <1>2, <1>3, <1>4, <1>5
     DEF Init, TInv, TypeOK, DriverTypeOK, SlotsTypeOK, SlotTaken, AtSlot

(* What the chip says are messages. *)
LEMMA FrameTyped ==
    ASSUME ChipTypeOK, NEW s \in Ids, NEW n \in 1..MaxUnits
    PROVE  Frame(s, n) \in Seq(Message)
<1>1. n \in Nat /\ conn[s] \in Nat
  BY Esp8266Assumption DEF ChipTypeOK
<1>2. [kind |-> "+IPD", id |-> s, n |-> n] \in Message
  BY <1>1 DEF Message
<1>3. [kind |-> "data", id |-> s, n |-> conn[s]] \in Message
  BY <1>1 DEF Message
<1>4. [u \in 1..n |-> [kind |-> "data", id |-> s, n |-> conn[s]]] \in Seq(Message)
  BY <1>1, <1>3
<1>5. <<[kind |-> "+IPD", id |-> s, n |-> n]>> \in Seq(Message)
  BY <1>2
<1>6. QED
  BY <1>4, <1>5 DEF Frame

LEMMA ChipTypes == DriverTypeOK /\ Chip => DriverTypeOK'
<1> SUFFICES ASSUME SocketsTypeOK, TasksTypeOK, ChipTypeOK, Chip
             PROVE  SocketsTypeOK' /\ TasksTypeOK' /\ ChipTypeOK'
  BY DEF DriverTypeOK
<1>1. UNCHANGED <<socks, queues, wifi, mutex, order, rpc, rid, left, tpc>>
  BY DEF Chip, PowerUp, GotIp, Disconnect, PeerConnects, PeerSends, PeerCloses, Says
<1>2. SocketsTypeOK'
  BY <1>1 DEF SocketsTypeOK, socks, queues
<1>3. TasksTypeOK'
  BY <1>1 DEF TasksTypeOK, order
<1>4. ASSUME NEW ms \in Seq(Message), Says(ms),
             conn' \in [Ids -> 0..MaxConn], conns' \in 0..MaxConn,
             frames' \in [Ids -> 0..MaxFrames]
      PROVE  ChipTypeOK'
  BY <1>4 DEF ChipTypeOK, Says
<1>5. CASE PowerUp
  <2>1. uart' \in Seq(Message)
    BY <1>5 DEF PowerUp, Line, Message
  <2>2. /\ conn' = conn /\ conns' = conns /\ frames' = frames
        /\ replies' = replies /\ chip' = "command"
    BY <1>5 DEF PowerUp, peers
  <2>3. listening' \in BOOLEAN
    BY <1>5 DEF PowerUp, ChipTypeOK
  <2>4. QED
    BY <1>2, <1>3, <2>1, <2>2, <2>3 DEF ChipTypeOK
<1>6. CASE GotIp \/ Disconnect
  <2>1. /\ <<Line("WIFI_GOT_IP")>> \in Seq(Message)
        /\ <<Line("WIFI_DISCONNECT")>> \in Seq(Message)
    BY DEF Line, Message
  <2>2. \/ Says(<<Line("WIFI_GOT_IP")>>)
        \/ Says(<<Line("WIFI_DISCONNECT")>>)
    BY <1>6 DEF GotIp, Disconnect
  <2>3. /\ conn' \in [Ids -> 0..MaxConn] /\ conns' \in 0..MaxConn
        /\ frames' \in [Ids -> 0..MaxFrames]
    BY <1>6 DEF GotIp, Disconnect, peers, ChipTypeOK
  <2>4. QED
    BY <1>2, <1>3, <1>4, <2>1, <2>2, <2>3
<1>7. ASSUME NEW s \in Ids, PeerConnects(s) PROVE ChipTypeOK'
  <2>1. <<LinkLine("CONNECT", s)>> \in Seq(Message)
    BY DEF LinkLine, Message
  <2>2. conns' \in 0..MaxConn
    BY <1>7, Esp8266Assumption DEF PeerConnects, ChipTypeOK
  <2>3. conn' \in [Ids -> 0..MaxConn] /\ frames' \in [Ids -> 0..MaxFrames]
    BY <1>7, <2>2, Esp8266Assumption DEF PeerConnects, ChipTypeOK
  <2>4. QED
    BY <1>7, <2>1, <2>2, <2>3, <1>4 DEF PeerConnects
<1>8. ASSUME NEW s \in Ids, PeerSends(s) PROVE ChipTypeOK'
  <2>1. PICK n \in 1..MaxUnits : Says(Frame(s, n))
    BY <1>8 DEF PeerSends
  <2>2. frames' \in [Ids -> 0..MaxFrames]
    BY <1>8, Esp8266Assumption DEF PeerSends, ChipTypeOK
  <2>3. QED
    BY <1>8, <2>1, <2>2, FrameTyped, <1>4 DEF PeerSends, ChipTypeOK
<1>9. ASSUME NEW s \in Ids, PeerCloses(s) PROVE ChipTypeOK'
  <2>1. <<LinkLine("CLOSED", s)>> \in Seq(Message)
    BY DEF LinkLine, Message
  <2>2. conn' \in [Ids -> 0..MaxConn]
    BY <1>9, Esp8266Assumption DEF PeerCloses, ChipTypeOK, NoConn
  <2>3. QED
    BY <1>9, <2>1, <2>2, <1>4 DEF PeerCloses, ChipTypeOK
<1>10. QED
  BY <1>2, <1>3, <1>5, <1>6, <1>7, <1>8, <1>9 DEF Chip

(* The parse task takes one message after the other; a queue that is full  *)
(* is not added to.                                                        *)
LEMMA ReadTyped ==
    ASSUME ChipTypeOK, uart # <<>>
    PROVE  /\ Tail(uart) \in Seq(Message) /\ Head(uart).n \in Nat
           /\ Head(uart).id \in Ids \cup {Svr}
           /\ Head(uart).kind = "CONNECT" => Head(uart).id \in Ids
<1>1. Tail(uart) \in Seq(Message) /\ Head(uart) \in Message
  BY DEF ChipTypeOK
<1>2. QED
  BY <1>1 DEF Message

LEMMA ParserTypes == DriverTypeOK /\ vESP8266RTask => DriverTypeOK'
<1> SUFFICES ASSUME SocketsTypeOK, TasksTypeOK, ChipTypeOK, vESP8266RTask
             PROVE  SocketsTypeOK' /\ TasksTypeOK' /\ ChipTypeOK'
  BY DEF DriverTypeOK
<1> DEFINE Reads == /\ uart' \in {uart, Tail(uart)}
                    /\ uart' # uart => uart # <<>>
<1>1. Reads /\ UNCHANGED <<command, working, tpc, chip, peers, listening, replies>>
  BY DEF vESP8266RTask, TakeToParse, GetClientConnented, NotifyServer,
         GetClientClosed, GetClientRequest, ReadPayload, NotifySocket,
         ReadStatus, ReadUseless, GiveParsed, ReadLine, Parser, order
<1>2. ChipTypeOK'
  <2>1. uart' \in Seq(Message)
    BY <1>1, ReadTyped DEF ChipTypeOK
  <2>2. QED
    BY <1>1, <2>1 DEF ChipTypeOK, peers
<1>3. TasksTypeOK'
  <2>1. CASE TakeToParse \/ GiveParsed
    BY <1>1, <2>1 DEF TakeToParse, GiveParsed, Parser, TasksTypeOK
  <2>2. CASE GetClientConnented \/ GetClientClosed
    BY <1>1, <2>2 DEF GetClientConnented, GetClientClosed, ReadLine, Parser, TasksTypeOK
  <2>3. CASE NotifyServer \/ NotifySocket
    BY <1>1, <2>3 DEF NotifyServer, NotifySocket, Parser, TasksTypeOK
  <2>4. CASE GetClientRequest
    <3>1. uart # <<>> /\ rid' = Head(uart).id /\ rid' \in Ids \cup {Svr}
      BY <2>4, ReadTyped DEF GetClientRequest, ReadLine
    <3>2. left' \in Nat
      BY <2>4, <3>1, ReadTyped, Esp8266Assumption DEF GetClientRequest
    <3>3. QED
      BY <1>1, <2>4, <3>1, <3>2 DEF GetClientRequest, ReadLine, Parser, TasksTypeOK
  <2>5. CASE ReadPayload
    <3>1. left' \in Nat
      BY <2>5 DEF ReadPayload, TasksTypeOK
    <3>2. QED
      BY <1>1, <2>5, <3>1 DEF ReadPayload, Parser, TasksTypeOK
  <2>6. CASE ReadStatus
    <3>1. wifi' \in {"none", "initialized", "not_linked", "linked"}
      BY <2>6 DEF ReadStatus
    <3>2. QED
      BY <1>1, <2>6, <3>1 DEF ReadStatus, ReadLine, Parser, TasksTypeOK
  <2>7. CASE ReadUseless
    BY <1>1, <2>7 DEF ReadUseless, ReadLine, Parser, TasksTypeOK
  <2>8. QED
    BY <2>1, <2>2, <2>3, <2>4, <2>5, <2>6, <2>7 DEF vESP8266RTask
<1>4. SocketsTypeOK'
  <2>1. CASE GetClientConnented
    <3>1. Head(uart).id \in Ids
      BY <2>1, ReadTyped DEF GetClientConnented, ReadLine
    <3>2. Cardinality(Ids) \in Nat
      BY Esp8266Assumption, FS_CardinalityType
    <3>3. new_connects' \in Seq(Ids) /\ Len(new_connects') <= Cardinality(Ids)
      BY <2>1, <3>1, <3>2 DEF GetClientConnented, HasRoom, SocketsTypeOK
    <3>4. state' \in [Ids -> SUBSET StateBits] /\ slen' \in [Ids -> {0, 1}]
      BY <2>1 DEF GetClientConnented, NewSocket, SocketsTypeOK, StateBits
    <3>5. /\ rxQueue' \in [Ids -> Seq(Nat)]
          /\ \A s \in Ids : Len(rxQueue'[s]) <= MaxSocketBuf
      <4>1. <<>> \in Seq(Nat) /\ Len(<<>>) <= MaxSocketBuf
        BY Esp8266Assumption
      <4>2. QED
        BY <2>1, <4>1 DEF GetClientConnented, NewSocket, SocketsTypeOK
    <3>6. QED
      BY <2>1, <3>3, <3>4, <3>5 DEF GetClientConnented, SocketsTypeOK
  <2>2. CASE GetClientClosed
    <3>1. state' \in [Ids -> SUBSET StateBits]
      BY <2>2 DEF GetClientClosed, SocketsTypeOK, StateBits
    <3>2. /\ rxQueue' \in [Ids -> Seq(Nat)]
          /\ \A s \in Ids : Len(rxQueue'[s]) <= MaxSocketBuf
      <4>1. <<>> \in Seq(Nat) /\ Len(<<>>) <= MaxSocketBuf
        BY Esp8266Assumption
      <4>2. QED
        BY <2>2, <4>1 DEF GetClientClosed, SocketsTypeOK
    <3>3. QED
      BY <2>2, <3>1, <3>2 DEF GetClientClosed, SocketsTypeOK, queues
  <2>3. CASE ReadPayload
    <3>1. CASE UNCHANGED rxQueue
      BY <2>3, <3>1 DEF ReadPayload, SocketsTypeOK, queues
    <3>2. CASE /\ Len(rxQueue[rid]) < MaxSocketBuf
               /\ rxQueue' = [rxQueue EXCEPT ![rid] = Append(@, Head(uart).n)]
      <4>1. rid \in Ids => /\ Append(rxQueue[rid], Head(uart).n) \in Seq(Nat)
                           /\ Len(Append(rxQueue[rid], Head(uart).n)) <= MaxSocketBuf
        <5>1. SUFFICES ASSUME rid \in Ids
                       PROVE  /\ Append(rxQueue[rid], Head(uart).n) \in Seq(Nat)
                              /\ Len(Append(rxQueue[rid], Head(uart).n)) <= MaxSocketBuf
          OBVIOUS
        <5>2. rxQueue[rid] \in Seq(Nat) /\ Head(uart).n \in Nat
          BY <5>1, <2>3, ReadTyped DEF SocketsTypeOK, ReadPayload
        <5>3. QED
          BY <5>2, <3>2, Esp8266Assumption
      <4>2. /\ rxQueue' \in [Ids -> Seq(Nat)]
            /\ \A s \in Ids : Len(rxQueue'[s]) <= MaxSocketBuf
        BY <3>2, <4>1 DEF SocketsTypeOK
      <4>3. QED
        BY <2>3, <4>2 DEF ReadPayload, SocketsTypeOK, queues
    <3>3. QED
      BY <2>3, <3>1, <3>2 DEF ReadPayload
  <2>4. CASE NotifySocket
    <3>1. state' \in [Ids -> SUBSET StateBits]
      BY <2>4 DEF NotifySocket, SocketsTypeOK, StateBits
    <3>2. QED
      BY <2>4, <3>1 DEF NotifySocket, SocketsTypeOK, queues
  <2>5. CASE NotifyServer
    BY <2>5 DEF NotifyServer, SocketsTypeOK, socks
  <2>6. CASE TakeToParse \/ GiveParsed \/ GetClientRequest \/ ReadStatus \/ ReadUseless
    BY <2>6 DEF TakeToParse, GiveParsed, GetClientRequest, ReadStatus,
                ReadUseless, SocketsTypeOK, socks, queues
  <2>7. QED
    BY <2>1, <2>2, <2>3, <2>4, <2>5, <2>6 DEF vESP8266RTask
<1>5. QED
  BY <1>2, <1>3, <1>4

(* The command task; its next place is the command it was given. *)
LEMMA CommanderTypes == DriverTypeOK /\ CommandHeld /\ vESP8266TTask => DriverTypeOK'
<1> SUFFICES ASSUME SocketsTypeOK, TasksTypeOK, ChipTypeOK, CommandHeld,
                    vESP8266TTask
             PROVE  SocketsTypeOK' /\ TasksTypeOK' /\ ChipTypeOK'
  BY DEF DriverTypeOK
<1>1. UNCHANGED <<rxQueue, queues, wifi, working, rpc, rid, left, listening>>
  BY DEF vESP8266TTask, TakeToCommand, SendHeader, SendPayload, NoPrompt,
         ReadSendOk, SendEnd, CloseHeader, ReadClosed, GiveCommanded, Suspend,
         ReadAnswer, Commander
<1>2. TasksTypeOK'
  <2>1. CASE tpc = "take"
    BY <1>1, <2>1, CommanderStep DEF CommanderMoves, CommandHeld, Commanding, TasksTypeOK
  <2>2. CASE tpc # "take"
    BY <1>1, <2>2, CommanderStep DEF CommanderMoves, Commanding, TasksTypeOK
  <2>3. QED
    BY <2>1, <2>2
<1>3. SocketsTypeOK'
  <2>1. state' \in [Ids -> SUBSET StateBits]
    <3>1. CASE SendEnd
      BY <3>1 DEF SendEnd, SocketsTypeOK, StateBits
    <3>2. CASE ReadClosed
      BY <3>2 DEF ReadClosed, SocketsTypeOK, StateBits
    <3>3. CASE ~(SendEnd \/ ReadClosed)
      BY <3>3 DEF vESP8266TTask, TakeToCommand, SendHeader, SendPayload, NoPrompt,
         ReadSendOk, CloseHeader, GiveCommanded, Suspend, Same, SocketsTypeOK
    <3>4. QED
      BY <3>1, <3>2, <3>3
  <2>2. slen' \in [Ids -> {0, 1}]
    BY DEF vESP8266TTask, TakeToCommand, SendHeader, SendPayload, NoPrompt,
         ReadSendOk, SendEnd, CloseHeader, ReadClosed, GiveCommanded, Suspend,
         Same, SocketsTypeOK
  <2>3. QED
    BY <1>1, <2>1, <2>2 DEF SocketsTypeOK, queues
<1>4. ChipTypeOK'
  <2>1. /\ LinkLine(">", working) \in Message
        /\ LinkLine("closed", working) \in Message
        /\ Line("ERROR") \in Message /\ Line("SEND_OK") \in Message
    BY DEF TasksTypeOK, LinkLine, Line, Message
  <2>2. ASSUME NEW m \in Message
        PROVE  uart \o <<m>> \in Seq(Message) /\ Append(uart, m) \in Seq(Message)
    BY DEF ChipTypeOK
  <2>3. CASE SendHeader
    <3>1. uart' \in Seq(Message)
      BY <2>1, <2>2, <2>3 DEF SendHeader, TakesForPayload, Obeys
    <3>2. chip' \in {"off", "command", "payload"}
      BY <2>3 DEF SendHeader, TakesForPayload, ChipTypeOK
    <3>3. QED
      BY <1>1, <2>3, <3>1, <3>2 DEF SendHeader, ChipTypeOK, peers
  <2>4. CASE SendPayload
    <3>1. Tail(uart) \in Seq(Message)
      BY <2>4, ReadTyped DEF SendPayload, ReadAnswer
    <3>2. uart' \in Seq(Message)
      BY <2>1, <2>4, <3>1 DEF SendPayload
    <3>3. replies' \in [Conns -> Nat]
      <4>1. \A c \in Conns : replies[c] + (IF c = conn[working] THEN 1 ELSE 0) \in Nat
        BY DEF ChipTypeOK
      <4>2. QED
        BY <2>4, <4>1 DEF SendPayload
    <3>4. QED
      BY <1>1, <2>4, <3>2, <3>3 DEF SendPayload, ChipTypeOK, peers
  <2>5. CASE CloseHeader
    <3>1. uart' \in Seq(Message)
      BY <2>1, <2>2, <2>5 DEF CloseHeader, TakesForPayload, Obeys
    <3>2. chip' \in {"off", "command", "payload"}
      BY <2>5 DEF CloseHeader, TakesForPayload, ChipTypeOK
    <3>3. conn' \in [Ids -> 0..MaxConn]
      BY <2>5, Esp8266Assumption DEF CloseHeader, ChipTypeOK, NoConn
    <3>4. QED
      BY <1>1, <2>5, <3>1, <3>2, <3>3 DEF CloseHeader, ChipTypeOK
  <2>6. CASE NoPrompt \/ ReadSendOk \/ ReadClosed
    <3>1. uart' \in Seq(Message)
      BY <2>6, ReadTyped DEF NoPrompt, ReadSendOk, ReadClosed, ReadAnswer
    <3>2. QED
      BY <1>1, <2>6, <3>1 DEF NoPrompt, ReadSendOk, ReadClosed, ChipTypeOK, peers
  <2>7. CASE TakeToCommand \/ SendEnd \/ GiveCommanded \/ Suspend
    BY <1>1, <2>7 DEF TakeToCommand, SendEnd, GiveCommanded, Suspend,
                      ChipTypeOK, peers
  <2>8. QED
    BY <2>3, <2>4, <2>5, <2>6, <2>7 DEF vESP8266TTask
<1>5. QED
  BY <1>2, <1>3, <1>4

(* The server task at start-up changes nothing but what the chip says, the *)
(* mutex, and, when it cannot listen, the command.                         *)
LEMMA StartupTypes == TInv /\ MicroHTTPServer_task => TInv'
<1> SUFFICES ASSUME TInv, MicroHTTPServer_task PROVE TInv'
  OBVIOUS
<1> USE DEF TInv, TypeOK, DriverTypeOK
<1>1. /\ UNCHANGED <<socks, queues, wifi, rpc, rid, left, peers, replies>>
      /\ UNCHANGED <<chip, slots, pools, result, locals>>
      /\ spc' \notin AtSlot
  BY DEF MicroHTTPServer_task, Initialized, Linked, AwaitState, JoinAccessPoint,
         HaveInterfaceIP, BindTcpSocket, BindFails, Command, Answer,
         HTTPServerClose, Startup, Server, AtSlot
<1>2. SocketsTypeOK'
  BY <1>1 DEF SocketsTypeOK, socks, queues
<1>3. TasksTypeOK'
  <2>1. working' \in Ids \cup {Svr}
    BY DEF MicroHTTPServer_task, Initialized, Linked, AwaitState,
           JoinAccessPoint, HaveInterfaceIP, BindTcpSocket, BindFails, Command,
           Answer, HTTPServerClose, Startup, Resume, order, TasksTypeOK
  <2>2. mutex' \in {"free", "parse", "command", "server"}
    BY StartupStep DEF ServerMoves, TasksTypeOK
  <2>3. QED
    BY <1>1, <2>1, <2>2, StartupStep DEF ServerMoves, TasksTypeOK
<1>4. uart' \in Seq(Message)
  <2>1. /\ <<Line("AT+CWJAP")>> \in Seq(Message)
        /\ <<Line("AT+CIFSR"), Line("+CIFSR")>> \in Seq(Message)
        /\ <<Line("AT+CIPMUX")>> \in Seq(Message)
        /\ Line("AT+CIPSERVER") \in Message
    BY DEF Line, Message
  <2>2. ASSUME NEW from, NEW to, NEW ms \in Seq(Message), Command(from, to, ms)
        PROVE  uart' \in Seq(Message)
    BY <2>2 DEF Command, Obeys, ChipTypeOK
  <2>3. ASSUME NEW from, NEW to, NEW holder, Answer(from, to, holder)
        PROVE  uart' \in Seq(Message)
    BY <2>3, ReadTyped DEF Answer
  <2>4. CASE Initialized \/ Linked \/ HTTPServerClose
    BY <2>4 DEF Initialized, Linked, AwaitState, HTTPServerClose, ChipTypeOK
  <2>5. CASE JoinAccessPoint
    BY <2>1, <2>2, <2>3, <2>5 DEF JoinAccessPoint
  <2>6. CASE HaveInterfaceIP
    BY <2>1, <2>2, <2>3, <2>6 DEF HaveInterfaceIP
  <2>7. CASE BindFails
    BY <2>3, <2>7 DEF BindFails
  <2>8. CASE BindTcpSocket
    <3>1. CASE /\ uart # <<>>
               /\ uart' = Append(Tail(uart), Line("AT+CIPSERVER"))
      BY <2>1, <3>1, ReadTyped
    <3>2. QED
      BY <2>1, <2>2, <2>3, <2>8, <3>1 DEF BindTcpSocket
  <2>9. QED
    BY <2>4, <2>5, <2>6, <2>7, <2>8 DEF MicroHTTPServer_task
<1>5. listening' \in BOOLEAN
  BY DEF MicroHTTPServer_task, Initialized, Linked, AwaitState, JoinAccessPoint,
         HaveInterfaceIP, BindTcpSocket, BindFails, Command, HTTPServerClose,
         ChipTypeOK
<1>6. ChipTypeOK'
  BY <1>1, <1>4, <1>5 DEF ChipTypeOK, peers
<1>7. /\ SlotTaken'
      /\ clisock' = clisock /\ work' = work /\ sent' = sent /\ owner' = owner
      /\ readPool' = readPool /\ writePool' = writePool
      /\ readable' = readable /\ writeable' = writeable
      /\ cur' = cur /\ store' = store /\ got' = got
  BY <1>1 DEF SlotTaken, slots, pools, result, locals
<1>8. QED
  BY <1>2, <1>3, <1>6, <1>7 DEF SlotsTypeOK

(* The event loop.  It works with sockets of its slots only. *)
LEMMA RunTypes == TInv /\ HTTPServerRun => TInv'
<1> SUFFICES ASSUME SocketsTypeOK, TasksTypeOK, ChipTypeOK, SlotsTypeOK,
                    SlotTaken, HTTPServerRun
             PROVE  /\ SocketsTypeOK' /\ TasksTypeOK' /\ ChipTypeOK'
                    /\ SlotsTypeOK' /\ SlotTaken'
  BY DEF TInv, TypeOK, DriverTypeOK
<1>1. /\ UNCHANGED <<wifi, rpc, rid, left, peers, replies>>
      /\ UNCHANGED <<mutex, uart, chip, listening>>
  BY DEF HTTPServerRun, Select, _HTTPServerAccept, MarkServer, AcceptFails,
         SkipFreeSlot, Visit, Recv, RecvMore, _HTTPServerRequest, WriteSock,
         WriteNothing, SetWriting, SendSocket, KeepSlot, CloseUnused, CloseUsed,
         ShutdownSocket, Poll, NextSlot, Loop, Server, vars, driver
<1>2. ChipTypeOK'
  BY <1>1 DEF ChipTypeOK, peers
<1>3. spc \in AtSlot => clisock[cur] \in Ids
  BY DEF SlotTaken, SlotsTypeOK
<1>4. TasksTypeOK'
  <2>1. working' \in Ids \cup {Svr}
    <3>1. CASE SendSocket \/ ShutdownSocket
      BY <1>3, <3>1 DEF SendSocket, ShutdownSocket, NextSlot, Loop, Server,
                        Resume, AtSlot
    <3>2. CASE ~(SendSocket \/ ShutdownSocket)
      BY <3>2 DEF HTTPServerRun, Select, _HTTPServerAccept, MarkServer,
         AcceptFails, SkipFreeSlot, Visit, Recv, RecvMore, _HTTPServerRequest,
         WriteSock, WriteNothing, SetWriting, KeepSlot, CloseUnused, CloseUsed,
         StoreState, Quietly, Poll, vars, driver, order, TasksTypeOK
    <3>3. QED
      BY <3>1, <3>2
  <2>2. QED
    BY <1>1, <2>1, RunStep DEF ServerMoves, TasksTypeOK
<1>5. CASE Select
  <2>1. SlotsTypeOK'
    <3>1. readable' \subseteq Ids /\ writeable' \subseteq Ids
      BY <1>5 DEF Select, SlotsTypeOK
    <3>2. cur' \in Slots
      BY <1>5, ServerAssumption DEF Select, Slots
    <3>3. /\ clisock' = clisock /\ work' = work /\ sent' = sent /\ owner' = owner
          /\ readPool' = readPool /\ writePool' = writePool
          /\ store' = store /\ got' = got
      BY <1>5 DEF Select, slots, pools
    <3>4. QED
      BY <3>1, <3>2, <3>3 DEF SlotsTypeOK
  <2>2. QED
    BY <1>2, <1>4, <1>5, <2>1
       DEF Select, Loop, Server, SocketsTypeOK, socks, queues, SlotTaken, AtSlot
<1>6. CASE _HTTPServerAccept
  <2>1. Head(new_connects) \in Ids /\ Tail(new_connects) \in Seq(Ids)
        /\ Len(Tail(new_connects)) <= Cardinality(Ids)
    <3>1. Len(new_connects) \in Nat /\ Cardinality(Ids) \in Nat
      BY Esp8266Assumption, FS_CardinalityType DEF SocketsTypeOK
    <3>2. QED
      BY <1>6, <3>1 DEF _HTTPServerAccept, SocketsTypeOK
  <2>2. clisock' \in [Slots -> Ids \cup {NoSock}]
    BY <1>6, <2>1 DEF _HTTPServerAccept, SlotsTypeOK
  <2>3. owner' \in [Slots -> 0..MaxConn]
    BY <1>6, <2>1 DEF _HTTPServerAccept, SlotsTypeOK, ChipTypeOK
  <2>4. sent' \in [Slots -> BOOLEAN]
    BY <1>6 DEF _HTTPServerAccept, SlotsTypeOK
  <2>5. readPool' \subseteq Ids /\ store' \subseteq StateBits
    BY <1>6, <2>1 DEF _HTTPServerAccept, SlotsTypeOK, StateBits
  <2>6. SlotsTypeOK'
    BY <1>6, <2>2, <2>3, <2>4, <2>5 DEF _HTTPServerAccept, SlotsTypeOK, result
  <2>7. SocketsTypeOK'
    BY <1>6, <2>1 DEF _HTTPServerAccept, SocketsTypeOK, socks
  <2>8. QED
    BY <1>2, <1>4, <1>6, <2>6, <2>7
       DEF _HTTPServerAccept, Loop, Server, SlotTaken, AtSlot
<1>7. CASE MarkServer
  <2>1. SlotsTypeOK'
    BY <1>7 DEF MarkServer, SlotsTypeOK, slots, pools, result
  <2>2. svrReadable' \in BOOLEAN
    BY <1>7 DEF MarkServer
  <2>3. SocketsTypeOK'
    BY <1>7, <2>2 DEF MarkServer, SocketsTypeOK, socks
  <2>4. QED
    BY <1>2, <1>4, <1>7, <2>1, <2>3 DEF MarkServer, Loop, Server, SlotTaken, AtSlot
<1>8. CASE AcceptFails \/ WriteNothing \/ CloseUsed
  <2>1. SlotsTypeOK' /\ clisock' = clisock /\ cur' = cur
    BY <1>8 DEF AcceptFails, WriteNothing, CloseUsed, SlotsTypeOK, slots, pools,
                result, locals
  <2>2. SocketsTypeOK'
    BY <1>8 DEF AcceptFails, WriteNothing, CloseUsed, Quietly, SocketsTypeOK,
                socks, queues
  <2>3. SlotTaken'
    BY <1>8, <2>1 DEF AcceptFails, WriteNothing, CloseUsed, Loop, Server,
                      SlotTaken, AtSlot
  <2>4. QED
    BY <1>2, <1>4, <2>1, <2>2, <2>3
<1>9. ASSUME NEW from, NextSlot(from) PROVE /\ cur' \in Slots /\ SlotTaken'
                                           /\ readable' \subseteq Ids
                                           /\ writeable' \subseteq Ids
  BY <1>9, ServerAssumption DEF NextSlot, Loop, Server, SlotsTypeOK, Slots,
                                SlotTaken, AtSlot
<1>10. CASE SkipFreeSlot \/ KeepSlot
  <2>1. SlotsTypeOK' /\ SlotTaken'
    BY <1>9, <1>10 DEF SkipFreeSlot, KeepSlot, SlotsTypeOK, slots, pools
  <2>2. SocketsTypeOK'
    BY <1>10 DEF SkipFreeSlot, KeepSlot, Quietly, SocketsTypeOK, socks, queues
  <2>3. QED
    BY <1>2, <1>4, <2>1, <2>2
<1>11. CASE CloseUnused \/ ShutdownSocket
  <2>1. SlotsTypeOK' /\ SlotTaken'
    <3>1. /\ clisock' \in [Slots -> Ids \cup {NoSock}]
          /\ work' \in [Slots -> {"notwork", "reading", "writing", "close"}]
          /\ owner' \in [Slots -> 0..MaxConn]
      BY <1>11, Esp8266Assumption
         DEF CloseUnused, ShutdownSocket, FreeSlot, SlotsTypeOK, NoConn
    <3>2. writePool' \subseteq Ids /\ UNCHANGED <<readPool, sent, store, got>>
      BY <1>11 DEF CloseUnused, ShutdownSocket, FreeSlot, SlotsTypeOK
    <3>3. QED
      BY <1>9, <1>11, <3>1, <3>2 DEF CloseUnused, ShutdownSocket, SlotsTypeOK
  <2>2. SocketsTypeOK'
    BY <1>11 DEF CloseUnused, ShutdownSocket, Quietly, SocketsTypeOK, socks, queues
  <2>3. QED
    BY <1>2, <1>4, <2>1, <2>2
<1>12. CASE Visit
  <2>1. SlotsTypeOK' /\ clisock' = clisock /\ cur' = cur
    BY <1>12 DEF Visit, SlotsTypeOK, pools, result
  <2>2. SocketsTypeOK'
    BY <1>12 DEF Visit, Quietly, SocketsTypeOK, socks, queues
  <2>3. SlotTaken'
    BY <1>12, <2>1 DEF Visit, SlotTaken
  <2>4. QED
    BY <1>2, <1>4, <2>1, <2>2, <2>3
<1>13. CASE Recv
  <2>1. clisock[cur] \in Ids
    BY <1>3, <1>13 DEF Recv, Loop, Server, AtSlot
  <2> DEFINE q == rxQueue[clisock[cur]]
             rest == IF q = <<>> THEN <<>> ELSE Tail(q)
  <2>2. q \in Seq(Nat) /\ Len(q) <= MaxSocketBuf
    BY <2>1 DEF SocketsTypeOK
  <2>3. rest \in Seq(Nat) /\ Len(rest) <= MaxSocketBuf
    <3>1. CASE q = <<>>
      BY <2>2, <3>1, Esp8266Assumption
    <3>2. CASE q # <<>>
      BY <2>2, <3>2, Esp8266Assumption
    <3>3. QED
      BY <3>1, <3>2
  <2>4. rxQueue' = [rxQueue EXCEPT ![clisock[cur]] = rest]
    BY <1>13 DEF Recv
  <2>5. /\ rxQueue' \in [Ids -> Seq(Nat)]
        /\ \A s \in Ids : Len(rxQueue'[s]) <= MaxSocketBuf
    BY <2>1, <2>3, <2>4 DEF SocketsTypeOK
  <2>6. SocketsTypeOK'
    BY <1>13, <2>5 DEF Recv, SocketsTypeOK, queues
  <2>7. store' \subseteq StateBits
    BY <1>13, <2>1 DEF Recv, SocketsTypeOK, StateBits
  <2>8. got' \in BOOLEAN
    BY <1>13 DEF Recv, SlotsTypeOK
  <2>9. SlotsTypeOK' /\ clisock' = clisock /\ cur' = cur
    BY <1>13, <2>7, <2>8 DEF Recv, SlotsTypeOK, slots, pools, result
  <2>10. SlotTaken'
    BY <1>13, <2>9 DEF Recv, Loop, Server, SlotTaken, AtSlot
  <2>11. QED
    BY <1>2, <1>4, <2>6, <2>9, <2>10
<1>14. ASSUME StoreState PROVE SocketsTypeOK' /\ store' \subseteq StateBits
  <2>1. state' \in [Ids -> SUBSET StateBits]
    BY <1>14 DEF StoreState, SocketsTypeOK, SlotsTypeOK
  <2>2. QED
    BY <1>14, <2>1 DEF StoreState, SocketsTypeOK, queues
<1>15. CASE RecvMore \/ SetWriting
  <2>1. SlotsTypeOK' /\ clisock' = clisock /\ cur' = cur
    BY <1>14, <1>15 DEF RecvMore, SetWriting, StoreState, SlotsTypeOK, pools, result
  <2>2. SlotTaken'
    BY <1>15, <2>1 DEF RecvMore, SetWriting, Loop, Server, SlotTaken, AtSlot
  <2>3. QED
    BY <1>2, <1>4, <1>14, <1>15, <2>1, <2>2 DEF RecvMore, SetWriting
<1>16. CASE _HTTPServerRequest
  <2>1. clisock[cur] \in Ids
    BY <1>3, <1>16 DEF _HTTPServerRequest, Loop, Server, AtSlot
  <2>2. work' \in [Slots -> {"notwork", "reading", "writing", "close"}]
    BY <1>16 DEF _HTTPServerRequest, SlotsTypeOK
  <2>3. writePool' \subseteq Ids /\ readPool' \subseteq Ids
    BY <1>16, <2>1 DEF _HTTPServerRequest, SlotsTypeOK
  <2>4. SlotsTypeOK' /\ clisock' = clisock /\ cur' = cur
    BY <1>14, <1>16, <2>2, <2>3
       DEF _HTTPServerRequest, StoreState, SlotsTypeOK, result
  <2>5. SlotTaken'
    BY <1>16, <2>4 DEF _HTTPServerRequest, Loop, Server, SlotTaken, AtSlot
  <2>6. QED
    BY <1>2, <1>4, <1>14, <1>16, <2>4, <2>5 DEF _HTTPServerRequest
<1>17. CASE WriteSock
  <2>1. clisock[cur] \in Ids
    BY <1>3, <1>17 DEF WriteSock, Loop, Server, AtSlot
  <2>2. store' \subseteq StateBits
    BY <1>17, <2>1 DEF WriteSock, SlotsTypeOK, SocketsTypeOK, StateBits
  <2>3. work' \in [Slots -> {"notwork", "reading", "writing", "close"}]
    BY <1>17 DEF WriteSock, SlotsTypeOK
  <2>4. SlotsTypeOK' /\ clisock' = clisock /\ cur' = cur
    BY <1>17, <2>2, <2>3 DEF WriteSock, SlotsTypeOK, pools, result
  <2>5. SocketsTypeOK'
    BY <1>17 DEF WriteSock, Quietly, SocketsTypeOK, socks, queues
  <2>6. SlotTaken'
    BY <1>17, <2>4 DEF WriteSock, Loop, Server, SlotTaken, AtSlot
  <2>7. QED
    BY <1>2, <1>4, <2>4, <2>5, <2>6
<1>18. CASE SendSocket
  <2>1. sent' \in [Slots -> BOOLEAN]
    BY <1>18 DEF SendSocket, SlotsTypeOK
  <2>2. SlotsTypeOK' /\ clisock' = clisock /\ cur' = cur
    BY <1>18, <2>1 DEF SendSocket, SlotsTypeOK, pools, result, locals
  <2>3. slen' \in [Ids -> {0, 1}]
    BY <1>18 DEF SendSocket, SocketsTypeOK
  <2>4. SocketsTypeOK'
    BY <1>18, <2>3 DEF SendSocket, SocketsTypeOK, queues
  <2>5. SlotTaken'
    BY <1>18, <2>2 DEF SendSocket, Loop, Server, SlotTaken, AtSlot
  <2>6. QED
    BY <1>2, <1>4, <2>2, <2>4, <2>5
<1>19. CASE Poll
  BY <1>2, <1>4, <1>19 DEF Poll, vars, driver, socks, queues, slots, pools,
                           result, locals, SocketsTypeOK, SlotsTypeOK, SlotTaken
<1>20. QED
  BY <1>5, <1>6, <1>7, <1>8, <1>10, <1>11, <1>12, <1>13, <1>15, <1>16, <1>17,
     <1>18, <1>19 DEF HTTPServerRun

LEMMA NextTInv == IInv /\ TInv /\ [Next]_vars => TInv'
<1> SUFFICES ASSUME IInv, TInv, [Next]_vars PROVE TInv'
  OBVIOUS
<1>1. CASE (Chip \/ vESP8266RTask \/ vESP8266TTask) /\ UNCHANGED task
  <2>1. DriverTypeOK'
    BY <1>1, ChipTypes, ParserTypes, CommanderTypes DEF IInv, TInv, TypeOK
  <2>2. spc' = spc
    BY <1>1, ChipStep, ParserStep, CommanderStep DEF ParserMoves, CommanderMoves
  <2>3. SlotsTypeOK' /\ SlotTaken'
    BY <1>1, <2>2 DEF task, slots, pools, result, locals, TInv, TypeOK,
                      SlotsTypeOK, SlotTaken
  <2>4. QED
    BY <2>1, <2>3 DEF TInv, TypeOK
<1>2. CASE MicroHTTPServer_task \/ HTTPServerRun
  BY <1>2, StartupTypes, RunTypes
<1>3. CASE UNCHANGED vars
  BY <1>3 DEF vars, driver, socks, queues, order, peers, slots, pools, result,
              locals, TInv, TypeOK, DriverTypeOK, SocketsTypeOK, TasksTypeOK,
              ChipTypeOK, SlotsTypeOK, SlotTaken
<1>4. QED
  BY <1>1, <1>2, <1>3 DEF Next

(* Every variable keeps its type: no queue grows beyond its length, and    *)
(* the loop stays within its slots (mac_esp8266.c:31, 107, lib/server.c).  *)
THEOREM TypeCorrect == Spec => []TypeOK
<1>1. TInv => TypeOK
  BY DEF TInv
<1>2. QED
  BY <1>1, InitTInv, NextTInv, Invariant, PTL DEF Spec

=============================================================================
