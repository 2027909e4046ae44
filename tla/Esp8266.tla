------------------------------ MODULE Esp8266 ------------------------------
(***************************************************************************)
(* The ESP8266 driver of the FreeRTOS port, src/mac_esp8266.c: the parse   *)
(* task vESP8266RTask, the command task vESP8266TTask, and the socket      *)
(* calls of the server task, as operators that FreeRTOSServer makes its    *)
(* actions of.  The tasks have one priority and are time-sliced; the first *)
(* two exclude each other by xUSART_Mutex, the server task takes no lock.  *)
(*                                                                         *)
(* The WiFi chip is external.  What it says is a sequence of messages: a   *)
(* line, or a unit of a frame's payload, which is known by the number of   *)
(* the connection it came on.  A command's answer is one message.          *)
(***************************************************************************)
EXTENDS Integers, Sequences, FiniteSets

CONSTANTS
    Ids,          \* link ids of the chip, and indices of clisock[]
    MaxSocketBuf, \* MAX_SOCKETBUFLEN: units a receive queue holds
    MaxConn,      \* bound: connections the peers open altogether
    MaxFrames,    \* bound: frames a peer sends on a connection
    MaxUnits,     \* bound: units of payload in a frame
    MaxUart,      \* bound: unread messages at which the chip says no more
    Impatient,    \* whether peers may close a connection first
    Talkative,    \* whether the chip may speak of other things while it is
                  \* given a command
    Sliced        \* whether a task may lose the processor between a test of
                  \* what the tasks share and the write that rests on it

ASSUME Esp8266Assumption ==
    /\ IsFiniteSet(Ids)
    /\ {MaxSocketBuf, MaxConn, MaxFrames, MaxUnits, MaxUart} \subseteq Nat \ {0}
    /\ {Impatient, Talkative, Sliced} \subseteq BOOLEAN

VARIABLES
    state,            \* clisock[].state: the set of its bits
    rxQueue,          \* clisock[].rxQueue
    slen,             \* clisock[].slen: 1 while a response is to be sent
    new_connects,
    svrReadable,      \* the SOCKET_READABLE bit of svrsock.state
    wifi,             \* _ESP8266_state
    mutex,            \* who holds xUSART_Mutex
    command, working, \* _ESP8266_Command, _working_sock
    rpc, rid, left,   \* parse task: its place; a frame's id, len - n
    tpc,              \* command task: its place
    spc,              \* server task: its place
    uart,             \* messages in the receive ring
    chip,             \* what the chip takes a line for
    conn,             \* the connection on each link, or NoConn
    conns, frames,    \* connections so far; frames on those there are
    listening,        \* whether the chip accepts connections
    replies           \* responses each connection was sent

Svr    == "server"   \* SERVER_SOCKET_ID, past the ids of the chip
NoConn == 0
Conns  == 1 .. MaxConn

ASSUME LinkAssumption == Svr \notin Ids

socks  == <<state, rxQueue, slen>>
queues == <<new_connects, svrReadable>>
order  == <<command, working>>
peers  == <<conn, conns, frames>>
driver == <<socks, queues, wifi, mutex, order, rpc, rid, left, tpc, spc,
            uart, chip, peers, listening, replies>>

Line(kind)        == [kind |-> kind, id |-> Svr, n |-> 0]
LinkLine(kind, s) == [kind |-> kind, id |-> s, n |-> 0]
Frame(s, n) ==
    <<[kind |-> "+IPD", id |-> s, n |-> n]>>
    \o [u \in 1..n |-> [kind |-> "data", id |-> s, n |-> conn[s]]]

InitESP8266 ==
    /\ state = [s \in Ids |-> {}] /\ rxQueue = [s \in Ids |-> <<>>]
    /\ slen = [s \in Ids |-> 0]
    /\ new_connects = <<>> /\ svrReadable = FALSE /\ wifi = "none"
    /\ mutex = "free" /\ command = "none" /\ working = Svr
    /\ rpc = "wait" /\ rid = Svr /\ left = 0 /\ tpc = "suspended"
    /\ uart = <<>> /\ chip = "off" /\ listening = FALSE
    /\ conn = [s \in Ids |-> NoConn] /\ conns = 0
    /\ frames = [s \in Ids |-> 0] /\ replies = [c \in Conns |-> 0]

(* Where a task has tested what tasks share and will write by what it saw. *)
InServer  == spc \in {"mark", "recvMark", "recvLast", "setWriting"}
InCommand == tpc \in {"give", "suspend"}

MayRun(task) ==
    \/ Sliced
    \/ (InServer => task = "server") /\ (InCommand => task = "command")

-----------------------------------------------------------------------------
(* The chip and the peers say something of their own. *)
Says(messages) ==
    /\ chip # "off" /\ Len(uart) < MaxUart
    /\ Talkative \/ (command = "none" /\ mutex # "server")
    /\ uart' = uart \o messages
    /\ UNCHANGED <<socks, queues, wifi, mutex, order, rpc, rid, left, tpc,
                   spc, chip, listening, replies>>

PowerUp ==
    /\ chip = "off" /\ chip' = "command" /\ uart' = <<Line("Ai-Thinker")>>
    /\ UNCHANGED <<socks, queues, wifi, mutex, order, rpc, rid, left, tpc,
                   spc, peers, listening, replies>>

GotIp ==
    /\ spc = "linked" /\ wifi # "linked" /\ uart = <<>>
    /\ Says(<<Line("WIFI_GOT_IP")>>) /\ UNCHANGED peers

Disconnect ==
    /\ Talkative /\ ~listening /\ wifi = "linked"
    /\ Says(<<Line("WIFI_DISCONNECT")>>) /\ UNCHANGED peers

PeerConnects(s) ==
    /\ listening /\ conn[s] = NoConn /\ conns < MaxConn
    /\ Says(<<LinkLine("CONNECT", s)>>)
    /\ conns' = conns + 1
    /\ conn' = [conn EXCEPT ![s] = conns + 1]
    /\ frames' = [frames EXCEPT ![s] = 0]

PeerSends(s) ==
    /\ conn[s] # NoConn /\ frames[s] < MaxFrames
    /\ \E n \in 1..MaxUnits : Says(Frame(s, n))
    /\ frames' = [frames EXCEPT ![s] = @ + 1]
    /\ UNCHANGED <<conn, conns>>

PeerCloses(s) ==
    /\ Impatient /\ conn[s] # NoConn
    /\ Says(<<LinkLine("CLOSED", s)>>)
    /\ conn' = [conn EXCEPT ![s] = NoConn] /\ UNCHANGED <<conns, frames>>

Chip ==
    \/ PowerUp \/ GotIp \/ Disconnect
    \/ \E s \in Ids : PeerConnects(s) \/ PeerSends(s) \/ PeerCloses(s)

(* The chip is given a line: it obeys, or takes it for the payload that it *)
(* still waits for.                                                        *)
Obeys(answers) == chip = "command" /\ uart' = uart \o answers
TakesForPayload ==
    /\ chip = "payload" /\ chip' = "command"
    /\ uart' = Append(uart, Line("SEND_OK"))

-----------------------------------------------------------------------------
(* vESP8266RTask parses messages while there are any and it has the UART.  *)
Parser(from, to) ==
    /\ MayRun("parse")
    /\ rpc = from /\ rpc' = to
    /\ UNCHANGED <<order, tpc, spc, chip, peers, listening, replies>>

TakeToParse ==
    /\ Parser("wait", "parse") /\ uart # <<>>
    /\ mutex = "free" /\ mutex' = "parse"
    /\ UNCHANGED <<socks, queues, wifi, rid, left, uart>>

GiveParsed ==
    /\ Parser("parse", "wait") /\ uart = <<>>
    /\ mutex' = "free"
    /\ UNCHANGED <<socks, queues, wifi, rid, left, uart>>

(* GetESP8266Request reads a line of one of these kinds. *)
ReadLine(kinds, to) ==
    /\ Parser("parse", to)
    /\ uart # <<>> /\ Head(uart).kind \in kinds
    /\ uart' = Tail(uart) /\ UNCHANGED mutex

NewSocketNoReset(s) ==
    /\ slen' = [slen EXCEPT ![s] = 0]
    /\ state' = [state EXCEPT ![s] = {"using"}] /\ UNCHANGED rxQueue
NewSocket(s) ==
    /\ rxQueue' = [rxQueue EXCEPT ![s] = <<>>]
    /\ slen' = [slen EXCEPT ![s] = 0]
    /\ state' = [state EXCEPT ![s] = {"using"}]

(* new_connects has room for one connection per link. *)
HasRoom == Len(new_connects) < Cardinality(Ids)

GetClientConnented ==
    /\ ReadLine({"CONNECT"}, IF HasRoom THEN "notify" ELSE "parse")
    /\ new_connects' = IF HasRoom THEN Append(new_connects, Head(uart).id)
                       ELSE new_connects
    /\ NewSocket(Head(uart).id)
    /\ UNCHANGED <<svrReadable, wifi, rid, left>>

NotifyNobody ==
    /\ Parser("notify", "parse")
    /\ UNCHANGED <<socks, queues, wifi, mutex, rid, left, uart>>
NotifyServer ==
    /\ Parser("notify", "parse") /\ svrReadable' = TRUE
    /\ UNCHANGED <<socks, new_connects, wifi, mutex, rid, left, uart>>

GetClientClosed ==
    /\ ReadLine({"CLOSED"}, "parse")
    /\ rxQueue' = [rxQueue EXCEPT ![Head(uart).id] = <<>>]
    /\ state' = [state EXCEPT ![Head(uart).id] = {}]
    /\ UNCHANGED <<slen, queues, wifi, rid, left>>

(* Of a frame at most what a queue holds is taken; lines are read again    *)
(* from behind that.                                                       *)
GetClientRequest ==
    /\ ReadLine({"+IPD"}, "frame")
    /\ rid' = Head(uart).id
    /\ left' = IF Head(uart).n > MaxSocketBuf THEN MaxSocketBuf ELSE Head(uart).n
    /\ UNCHANGED <<socks, queues, wifi>>

(* Whatever comes next is payload, until as much has been queued; what the *)
(* queue has no room for is dropped and not counted.                       *)
ReadPayload ==
    /\ Parser("frame", "frame") /\ left > 0 /\ uart # <<>>
    /\ uart' = Tail(uart)
    /\ \/ /\ Len(rxQueue[rid]) < MaxSocketBuf
          /\ rxQueue' = [rxQueue EXCEPT ![rid] = Append(@, Head(uart).n)]
          /\ left' = left - 1
       \/ /\ Len(rxQueue[rid]) = MaxSocketBuf /\ UNCHANGED <<rxQueue, left>>
    /\ UNCHANGED <<state, slen, queues, wifi, mutex, rid>>

NotifySocketWhole ==
    /\ Parser("frame", "parse") /\ left = 0
    /\ state' = [state EXCEPT ![rid] = {"using", "readable"}]
    /\ UNCHANGED <<rxQueue, slen, queues, wifi, mutex, rid, left, uart>>
NotifySocket ==
    /\ Parser("frame", "parse") /\ left = 0
    /\ state' = [state EXCEPT ![rid] = @ \cup {"readable"}]
    /\ UNCHANGED <<rxQueue, slen, queues, wifi, mutex, rid, left, uart>>

ReadStatus ==
    /\ ReadLine({"Ai-Thinker", "WIFI_GOT_IP", "WIFI_DISCONNECT"}, "parse")
    /\ wifi' = CASE Head(uart).kind = "Ai-Thinker"  -> "initialized"
                 [] Head(uart).kind = "WIFI_GOT_IP" -> "linked"
                 [] OTHER                           -> "not_linked"
    /\ UNCHANGED <<socks, queues, rid, left>>

(* Other lines are useless messages.  The prompt has no end of line, and   *)
(* makes the next line one that is not recognised.                         *)
ReadUseless ==
    /\ \/ ReadLine({"data", "SEND_OK", "ERROR", "closed", "AT+CWJAP", "AT+CIFSR",
                   "+CIFSR", "AT+CIPMUX", "AT+CIPSERVER"}, "parse")
       \/ ReadLine({">"}, "rest")
       \/ /\ Parser("rest", "parse") /\ uart # <<>>
          /\ uart' = Tail(uart) /\ UNCHANGED mutex
    /\ UNCHANGED <<socks, queues, wifi, rid, left>>

vESP8266RTask ==
    \/ TakeToParse \/ GetClientConnented \/ NotifyServer \/ GetClientClosed
    \/ GetClientRequest \/ ReadPayload \/ NotifySocket
    \/ ReadStatus \/ ReadUseless \/ GiveParsed

-----------------------------------------------------------------------------
(* vESP8266TTask carries out the command it was resumed for. *)
Commander(from, to) ==
    /\ MayRun("command")
    /\ tpc = from /\ tpc' = to
    /\ UNCHANGED <<rxQueue, queues, wifi, working, rpc, rid, left, spc,
                   listening>>

Same == UNCHANGED <<state, slen, mutex, command>>

TakeToCommandAtOnce ==
    /\ Commander("take", command) /\ mutex' = "command"
    /\ UNCHANGED <<state, slen, command, uart, chip, peers, replies>>
TakeToCommand ==
    /\ Commander("take", command)
    /\ mutex = "free" /\ mutex' = "command"
    /\ UNCHANGED <<state, slen, command, uart, chip, peers, replies>>

(* vSendSocketTask: AT+CIPSEND; an answer that is not the prompt ends it.  *)
SendHeader ==
    /\ Commander("send", "prompt") /\ slen[working] > 0
    /\ \/ TakesForPayload
       \/ /\ conn[working] # NoConn
          /\ Obeys(<<LinkLine(">", working)>>) /\ chip' = "payload"
       \/ /\ conn[working] = NoConn
          /\ Obeys(<<Line("ERROR")>>) /\ UNCHANGED chip
    /\ Same /\ UNCHANGED <<peers, replies>>

ReadAnswer(from, to) == Commander(from, to) /\ uart # <<>>

SendPayload ==
    /\ ReadAnswer("prompt", "sent")
    /\ Head(uart) = LinkLine(">", working)
    /\ uart' = Append(Tail(uart), Line("SEND_OK")) /\ chip' = "command"
    /\ replies' = [c \in Conns |->
                      replies[c] + (IF c = conn[working] THEN 1 ELSE 0)]
    /\ Same /\ UNCHANGED peers

NoPrompt ==
    /\ ReadAnswer("prompt", "sendEnd")
    /\ Head(uart) # LinkLine(">", working)
    /\ uart' = Tail(uart)
    /\ Same /\ UNCHANGED <<chip, peers, replies>>

ReadSendOk ==
    /\ ReadAnswer("sent", "send")
    /\ uart' = Tail(uart) /\ slen' = [slen EXCEPT ![working] = 0]
    /\ UNCHANGED <<state, mutex, command, chip, peers, replies>>

SendEnd ==
    /\ \/ Commander("send", "give") /\ slen[working] = 0
       \/ Commander("sendEnd", "give")
    /\ state' = [state EXCEPT ![working] = @ \ {"writing"}]
    /\ command' = "none"
    /\ UNCHANGED <<slen, mutex, uart, chip, peers, replies>>

(* vCloseSocketTask: AT+CIPCLOSE.  Any answer that starts with a number is *)
(* taken for the id that was closed; one that is echoed first is not.      *)
CloseHeader ==
    /\ Commander("close", "closed")
    /\ \/ TakesForPayload /\ UNCHANGED conn
       \/ /\ working \in Ids /\ conn[working] # NoConn
          /\ Obeys(<<LinkLine("closed", working)>>) /\ UNCHANGED chip
          /\ conn' = [conn EXCEPT ![working] = NoConn]
       \/ /\ working \in Ids => conn[working] = NoConn
          /\ Obeys(<<Line("ERROR")>>) /\ UNCHANGED <<chip, conn>>
    /\ Same /\ UNCHANGED <<conns, frames, replies>>

ReadClosed ==
    /\ ReadAnswer("closed", "give")
    /\ uart' = Tail(uart)
    /\ \/ /\ Head(uart).kind \in {"closed", "CLOSED", "CONNECT"}
          /\ state' = [state EXCEPT ![Head(uart).id] = {}]
       \/ /\ Head(uart).kind \notin {"CLOSED", "CONNECT"}
          /\ UNCHANGED state
    /\ command' = "none"
    /\ UNCHANGED <<slen, mutex, chip, peers, replies>>

GiveCommanded ==
    /\ Commander("give", "suspend") /\ mutex' = "free"
    /\ UNCHANGED <<state, slen, command, uart, chip, peers, replies>>

Suspend ==
    /\ Commander("suspend", "suspended")
    /\ Same /\ UNCHANGED <<uart, chip, peers, replies>>

vESP8266TTask ==
    \/ TakeToCommand \/ SendHeader \/ SendPayload \/ NoPrompt \/ ReadSendOk
    \/ SendEnd \/ CloseHeader \/ ReadClosed \/ GiveCommanded \/ Suspend

-----------------------------------------------------------------------------
(* What the socket calls do to the driver, for the server task.            *)
IsSocketReady2Read(s)  == {"using", "readable"} \subseteq state[s]
IsSocketReady2Write(s) == "using" \in state[s] /\ "writing" \notin state[s]

(* No pending message, and no command under way. *)
QuietUart == uart = <<>>
Quiet == uart = <<>> /\ command = "none"

(* vTaskResume does nothing to a task that is not suspended.               *)
ResumeNobody(c, s) == command' = c /\ working' = s /\ UNCHANGED tpc
Resume(c, s) ==
    /\ command' = c /\ working' = s
    /\ tpc' = IF tpc = "suspended" THEN "take" ELSE tpc

-----------------------------------------------------------------------------
(* Messages: a connection is announced with its link. *)
Message ==
    {m \in [kind : {"Ai-Thinker", "WIFI_GOT_IP", "WIFI_DISCONNECT", "CONNECT",
                    "CLOSED", "+IPD", "data", ">", "SEND_OK", "ERROR",
                    "closed", "AT+CWJAP", "AT+CIFSR", "+CIFSR", "AT+CIPMUX",
                    "AT+CIPSERVER"},
            id : Ids \cup {Svr}, n : Nat] : m.kind = "CONNECT" => m.id \in Ids}

StateBits == {"using", "readable", "writing"}

(* A socket's queue and the queue of new connections have a length. *)
SocketsTypeOK ==
    /\ state \in [Ids -> SUBSET StateBits]
    /\ rxQueue \in [Ids -> Seq(Nat)]
    /\ \A s \in Ids : Len(rxQueue[s]) <= MaxSocketBuf
    /\ slen \in [Ids -> {0, 1}]
    /\ new_connects \in Seq(Ids) /\ Len(new_connects) <= Cardinality(Ids)
    /\ svrReadable \in BOOLEAN

TasksTypeOK ==
    /\ wifi \in {"none", "initialized", "not_linked", "linked"}
    /\ mutex \in {"free", "parse", "command", "server"}
    /\ command \in {"none", "send", "close"} /\ working \in Ids \cup {Svr}
    /\ rpc \in {"wait", "parse", "notify", "frame", "rest"}
    /\ rid \in Ids \cup {Svr} /\ left \in Nat
    /\ tpc \in {"suspended", "take", "send", "prompt", "sent", "sendEnd",
                "close", "closed", "give", "suspend"}

ChipTypeOK ==
    /\ uart \in Seq(Message) /\ chip \in {"off", "command", "payload"}
    /\ conn \in [Ids -> 0..MaxConn] /\ conns \in 0..MaxConn
    /\ frames \in [Ids -> 0..MaxFrames] /\ listening \in BOOLEAN
    /\ replies \in [Conns -> Nat]

DriverTypeOK == SocketsTypeOK /\ TasksTypeOK /\ ChipTypeOK

=============================================================================
