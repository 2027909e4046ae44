--------------------------- MODULE FreeRTOSServer ---------------------------
(***************************************************************************)
(* The server task of the FreeRTOS port on top of the ESP8266 driver:      *)
(* main.c brings the WiFi chip up, then runs the event loop of             *)
(* lib/server.c, whose socket calls (socket.c, select.c) read and write    *)
(* the driver's state without a lock.                                      *)
(*                                                                         *)
(* Where the code reads a byte of state and writes it back changed, or     *)
(* tests a queue and writes a bit by the outcome, the value to be written  *)
(* is `store` until the next step.                                         *)
(***************************************************************************)
EXTENDS Esp8266

CONSTANT N   \* MAX_HTTP_CLIENT: number of slots

ASSUME ServerAssumption == N \in Nat \ {0}

VARIABLES
    clisock, work, sent,   \* http_req[]: whether windex is past the response
    readPool, writePool,   \* master pools, but for the listener
    readable, writeable,   \* the result sets of select()
    cur,                   \* loop variable i of HTTPServerRun
    store,
    got,                   \* whether _ParseHeader has read anything
    owner                  \* the connection the slot's socket was, when it
                           \* was accepted

slots  == <<clisock, work, sent, owner>>
pools  == <<readPool, writePool>>
result == <<readable, writeable>>
locals == <<cur, store, got>>
vars   == <<driver, slots, pools, result, locals>>

Slots  == 1 .. N
NoSock == "none"

ASSUME SlotAssumption == NoSock \notin Ids

Init ==
    /\ InitESP8266 /\ spc = "boot"
    /\ clisock = [i \in Slots |-> NoSock] /\ work = [i \in Slots |-> "notwork"]
    /\ sent = [i \in Slots |-> FALSE] /\ owner = [i \in Slots |-> NoConn]
    /\ readPool = {} /\ writePool = {} /\ readable = {} /\ writeable = {}
    /\ cur = 1 /\ store = {} /\ got = FALSE

-----------------------------------------------------------------------------
Server(from, to) ==
    /\ MayRun("server")
    /\ spc = from /\ spc' = to
    /\ UNCHANGED <<wifi, rpc, rid, left, peers, replies>>

(* MicroHTTPServer_task: the chip is waited for, joins the access point,   *)
(* tells its address, and is made a server.                                *)
Startup(from, to) ==
    /\ Server(from, to)
    /\ UNCHANGED <<socks, queues, order, tpc, chip, slots, pools, result, locals>>

AwaitState(from, states, to) ==
    /\ Startup(from, to) /\ wifi \in states
    /\ UNCHANGED <<uart, mutex, listening>>

(* No message is pending, the UART is taken, and a command is sent; more   *)
(* may have come since the test.                                           *)
Command(from, to, answers) ==
    /\ Startup(from, to) /\ (uart = <<>> \/ Sliced)
    /\ mutex = "free" /\ mutex' = "server"
    /\ Obeys(answers) /\ UNCHANGED listening

(* The answer is read, and compared with the one expected; the UART is     *)
(* given back unless more is to be read.                                   *)
Answer(from, to, holder) ==
    /\ Startup(from, to) /\ uart # <<>> /\ uart' = Tail(uart)
    /\ mutex' = holder

Answers(echo) == Head(uart) = Line(echo)

Initialized == AwaitState("boot", {"initialized", "not_linked", "linked"}, "join")
Linked      == AwaitState("linked", {"linked"}, "ip")

(* An answer that comes in pieces is stored over itself: not as expected.  *)
JoinAccessPoint ==
    \/ Command("join", "joined", <<Line("AT+CWJAP")>>)
    \/ /\ \/ Answer("joined", "linked", "free") /\ Answers("AT+CWJAP")
          \/ Answer("joined", "join", "free") /\ Sliced
       /\ UNCHANGED listening

HaveInterfaceIP ==
    \/ Command("ip", "ipEcho", <<Line("AT+CIFSR"), Line("+CIFSR")>>)
    \/ /\ \/ Answer("ipEcho", "ipLines", "server") /\ Answers("AT+CIFSR")
          \/ Answer("ipEcho", "bind", "free") /\ Sliced
          \/ Answer("ipLines", "bind", "free")
       /\ UNCHANGED listening

(* For HTTPServerInit: two commands, with the UART held.                   *)
BindTcpSocket ==
    \/ Command("bind", "muxed", <<Line("AT+CIPMUX")>>)
    \/ /\ Startup("muxed", "bound")
       /\ uart # <<>> /\ Answers("AT+CIPMUX") /\ listening' = TRUE
       /\ uart' = Append(Tail(uart), Line("AT+CIPSERVER")) /\ UNCHANGED mutex
    \/ /\ Answer("bound", "select", "free")
       /\ Answers("AT+CIPSERVER") /\ UNCHANGED listening

BindFails ==
    /\ \/ Answer("muxed", "unbound", "free") /\ ~Answers("AT+CIPMUX")
       \/ Answer("bound", "unbound", "free") /\ ~Answers("AT+CIPSERVER")
    /\ UNCHANGED listening

(* HTTPServerClose; the loop goes on, and HTTPServerRun returns at once.   *)
HTTPServerClose ==
    /\ Server("unbound", "closed") /\ Quiet /\ Resume("close", Svr)
    /\ UNCHANGED <<socks, queues, mutex, uart, chip, listening, slots, pools,
                   result, locals>>

MicroHTTPServer_task ==
    \/ Initialized \/ JoinAccessPoint \/ Linked \/ HaveInterfaceIP
    \/ BindTcpSocket \/ BindFails \/ HTTPServerClose

-----------------------------------------------------------------------------
(* HTTPServerRun. *)
Loop(from, to) ==
    Server(from, to) /\ UNCHANGED <<mutex, uart, chip, listening>>

Select ==
    /\ Loop("select", IF svrReadable THEN "accept" ELSE "slot")
    /\ readable' = {s \in readPool : IsSocketReady2Read(s)}
    /\ writeable' = {s \in writePool : IsSocketReady2Write(s)}
    /\ cur' = 1
    /\ UNCHANGED <<socks, queues, order, tpc, slots, pools, store, got>>

(* AcceptTcpSocket: the bit that is to be written is that of the queue as  *)
(* it is now.  The socket goes to the first free slot, if there is one.    *)
AnyFree(i) == clisock[i] = NoSock
FirstFree(i) == clisock[i] = NoSock /\ \A j \in 1..i-1 : clisock[j] # NoSock

_HTTPServerAccept ==
    /\ Loop("accept", "mark") /\ new_connects # <<>>
    /\ LET s == Head(new_connects)
       IN  /\ readPool' = readPool \cup {s}
           /\ clisock' = [i \in Slots |-> IF FirstFree(i) THEN s ELSE clisock[i]]
           /\ sent' = [i \in Slots |-> ~FirstFree(i) /\ sent[i]]
           /\ owner' = [i \in Slots |-> IF FirstFree(i) THEN conn[s] ELSE owner[i]]
    /\ new_connects' = Tail(new_connects)
    /\ store' = IF Tail(new_connects) # <<>> THEN {"readable"} ELSE {}
    /\ UNCHANGED <<socks, svrReadable, order, tpc, work, writePool, result, cur, got>>

MarkServer ==
    /\ Loop("mark", "slot") /\ svrReadable' = ("readable" \in store)
    /\ store' = {}
    /\ UNCHANGED <<socks, new_connects, order, tpc, slots, pools, result, cur, got>>

AcceptFails ==
    /\ Loop("accept", "slot") /\ new_connects = <<>>
    /\ UNCHANGED <<socks, queues, order, tpc, slots, pools, result, locals>>

Quietly == UNCHANGED <<socks, queues, order, tpc>>

NextSlotInclusive(from) ==
    /\ Loop(from, IF cur <= N THEN "slot" ELSE "select")
    /\ cur' = IF cur <= N THEN cur + 1 ELSE 1
    /\ readable' = IF cur <= N THEN readable ELSE {}
    /\ writeable' = IF cur <= N THEN writeable ELSE {}
NextSlot(from) ==
    /\ Loop(from, IF cur < N THEN "slot" ELSE "select")
    /\ cur' = IF cur < N THEN cur + 1 ELSE 1
    /\ readable' = IF cur < N THEN readable ELSE {}
    /\ writeable' = IF cur < N THEN writeable ELSE {}

SkipFreeSlot ==
    /\ NextSlot("slot") /\ clisock[cur] = NoSock
    /\ Quietly /\ UNCHANGED <<slots, pools, store, got>>

Visit ==
    /\ clisock[cur] # NoSock
    /\ \/ /\ clisock[cur] \in readable /\ Loop("slot", "recv")
          /\ work' = [work EXCEPT ![cur] = "reading"]
       \/ /\ clisock[cur] \notin readable /\ Loop("slot", "write")
          /\ UNCHANGED work
    /\ got' = FALSE
    /\ Quietly /\ UNCHANGED <<clisock, sent, owner, pools, result, cur, store>>

(* _ParseHeader and _GetBody: recv() after recv(), until the request is    *)
(* whole or there is nothing to be read.  RecvSocket sets the bit by the   *)
(* queue as it was.                                                        *)
Recv ==
    LET s    == clisock[cur]
        rest == IF rxQueue[s] = <<>> THEN <<>> ELSE Tail(rxQueue[s])
    IN  /\ Loop("recv", IF rxQueue[s] = <<>> THEN "recvLast" ELSE "recvMark")
        /\ rxQueue' = [rxQueue EXCEPT ![s] = rest]
        /\ store' = IF rest # <<>> THEN state[s] \cup {"readable"}
                                   ELSE state[s] \ {"readable"}
        /\ got' = (got \/ rxQueue[s] # <<>>)
        /\ UNCHANGED <<state, slen, queues, order, tpc, slots, pools, result, cur>>

StoreState ==
    /\ state' = [state EXCEPT ![clisock[cur]] = store] /\ store' = {}
    /\ UNCHANGED <<rxQueue, slen, queues, order, tpc, clisock, sent, owner,
                   result, cur, got>>

RecvMore ==
    /\ Loop("recvMark", "recv") /\ StoreState /\ UNCHANGED <<work, pools>>

(* The request is whole, or the queue is empty.  What was read is answered *)
(* by the request callback; the connection of one that sent nothing is     *)
(* closed.                                                                 *)
_HTTPServerRequest ==
    /\ Loop("recvMark", "write") \/ Loop("recvLast", "write")
    /\ StoreState
    /\ work' = [work EXCEPT ![cur] = IF got THEN "writing" ELSE "close"]
    /\ writePool' = writePool \cup {clisock[cur]}
    /\ readPool' = readPool \ {clisock[cur]}

(* WriteSock, send(): a response is given to the driver whole, or there is *)
(* nothing to give, or the socket is not to be written to; the last two    *)
(* end it.                                                                 *)
MayWrite == work[cur] = "writing" /\ clisock[cur] \in writeable

WriteSock ==
    LET s == clisock[cur]
    IN  /\ MayWrite
        /\ \/ /\ ~sent[cur] /\ IsSocketReady2Write(s)
              /\ Loop("write", "setWriting")
              /\ store' = state[s] \cup {"writing"} /\ UNCHANGED work
           \/ /\ sent[cur] \/ ~IsSocketReady2Write(s)
              /\ Loop("write", "close")
              /\ work' = [work EXCEPT ![cur] = "close"] /\ UNCHANGED store
        /\ Quietly /\ UNCHANGED <<clisock, sent, owner, pools, result, cur, got>>

WriteNothing ==
    /\ Loop("write", "close") /\ ~MayWrite
    /\ Quietly /\ UNCHANGED <<slots, pools, result, locals>>

SetWriting ==
    /\ Loop("setWriting", "send") /\ StoreState /\ UNCHANGED <<work, pools>>

SendSocketUnsent ==
    /\ Loop("send", "close") /\ Quiet
    /\ slen' = [slen EXCEPT ![clisock[cur]] = 1]
    /\ Resume("send", clisock[cur])
    /\ UNCHANGED <<state, rxQueue, queues, slots, pools, result, locals>>
SendSocket ==
    /\ Loop("send", "close") /\ Quiet
    /\ slen' = [slen EXCEPT ![clisock[cur]] = 1]
    /\ Resume("send", clisock[cur])
    /\ sent' = [sent EXCEPT ![cur] = TRUE]
    /\ UNCHANGED <<state, rxQueue, queues, clisock, work, owner, pools, result,
                   locals>>

KeepSlot ==
    /\ NextSlot("close") /\ work[cur] # "close"
    /\ Quietly /\ UNCHANGED <<slots, pools, store, got>>

FreeSlot ==
    /\ writePool' = writePool \ {clisock[cur]} /\ UNCHANGED readPool
    /\ clisock' = [clisock EXCEPT ![cur] = NoSock]
    /\ work' = [work EXCEPT ![cur] = "notwork"]
    /\ owner' = [owner EXCEPT ![cur] = NoConn]
    /\ UNCHANGED <<sent, store, got>>

CloseUnused ==
    /\ NextSlot("close") /\ work[cur] = "close"
    /\ "using" \notin state[clisock[cur]]
    /\ FreeSlot /\ Quietly

CloseUsed ==
    /\ Loop("close", "shutdown") /\ work[cur] = "close"
    /\ "using" \in state[clisock[cur]]
    /\ Quietly /\ UNCHANGED <<slots, pools, result, locals>>

ShutdownSocket ==
    /\ NextSlot("shutdown") /\ Quiet
    /\ Resume("close", clisock[cur])
    /\ FreeSlot /\ UNCHANGED <<socks, queues>>

(* while(USART_Readable(USART6) || ...) vTaskDelay(...), and the loop of a *)
(* server that has no socket.                                              *)
Poll ==
    /\ (spc \in {"send", "shutdown", "unbound"} /\ ~Quiet) \/ spc = "closed"
    /\ UNCHANGED vars

HTTPServerRun ==
    \/ Select \/ _HTTPServerAccept \/ MarkServer \/ AcceptFails
    \/ SkipFreeSlot \/ Visit \/ Recv \/ RecvMore \/ _HTTPServerRequest
    \/ WriteSock \/ WriteNothing \/ SetWriting \/ SendSocket
    \/ KeepSlot \/ CloseUnused \/ CloseUsed \/ ShutdownSocket \/ Poll

task == <<slots, pools, result, locals>>

Next ==
    \/ (Chip \/ vESP8266RTask \/ vESP8266TTask) /\ UNCHANGED task
    \/ MicroHTTPServer_task \/ HTTPServerRun

Spec == Init /\ [][Next]_vars

(* The scheduler gives each task its time slices, and the chip goes up and *)
(* gets an address.                                                        *)
FairSpec ==
    /\ Spec
    /\ WF_vars((PowerUp \/ GotIp) /\ UNCHANGED task)
    /\ WF_vars(vESP8266RTask /\ UNCHANGED task)
    /\ WF_vars(vESP8266TTask /\ UNCHANGED task)
    /\ WF_vars(MicroHTTPServer_task \/ HTTPServerRun)

-----------------------------------------------------------------------------
SlotsTypeOK ==
    /\ clisock \in [Slots -> Ids \cup {NoSock}]
    /\ work \in [Slots -> {"notwork", "reading", "writing", "close"}]
    /\ sent \in [Slots -> BOOLEAN] /\ owner \in [Slots -> 0..MaxConn]
    /\ readPool \subseteq Ids /\ writePool \subseteq Ids
    /\ readable \subseteq Ids /\ writeable \subseteq Ids
    /\ cur \in Slots /\ store \subseteq StateBits
    /\ got \in BOOLEAN

TypeOK == DriverTypeOK /\ SlotsTypeOK

(* A command is carried out as it was given: while the command task is at  *)
(* it, the server gives no other and does not change its socket ("Make     *)
(* sure there is no pending message of ESP8266 RX data",                   *)
(* mac_esp8266.c:615-619).                                                 *)
CarryingOut == tpc \in {"send", "prompt", "sent", "sendEnd", "close", "closed"}

CommandIsStable ==
    [][CarryingOut => /\ working' = working
                      /\ command' = command \/ tpc' = "give"]_vars

(* Where the server writes a whole byte of a socket's state back. *)
WritesBack(s) ==
    spc \in {"recvMark", "recvLast", "setWriting"} /\ spc' # spc /\ clisock[cur] = s

(* The message that is read says that s is another connection, or none. *)
Ends(s) ==
    /\ uart # <<>> /\ Head(uart).id = s
    /\ \/ rpc = "parse" /\ Head(uart).kind \in {"CONNECT", "CLOSED"}
       \/ tpc = "closed" /\ Head(uart).kind \in {"CONNECT", "CLOSED", "closed"}

(* A socket that is marked as busy stays so, whatever else the three tasks *)
(* write to its state in between and however they are preempted, until the *)
(* command task is done with its response or its connection goes: send()   *)
(* then says EAGAIN, and WriteSock ends the response at the next one that  *)
(* is let through (mac_esp8266.c:599, 612; lib/server.c:173-176).          *)
BusyUntilSent ==
    [][\A s \in Ids : "writing" \in state[s] /\ "writing" \notin state'[s] =>
         \/ command = "send" /\ working = s /\ command' = "none"
         \/ Ends(s)]_vars

(* A socket belongs to one slot. *)
OneSlotPerSocket ==
    \A i, j \in Slots : clisock[i] = clisock[j] /\ i # j => clisock[i] = NoSock

(* Nobody reads another's messages: the UART has one reader at a time, and *)
(* it holds the mutex (mac_esp8266.c:40, 208-214, 228-240).                *)
OneReader ==
    /\ (rpc # "wait") <=> (mutex = "parse")
    /\ (CarryingOut \/ tpc = "give") <=> (mutex = "command")
    /\ spc \in {"joined", "ipEcho", "ipLines", "muxed", "bound"}
          <=> (mutex = "server")

(* A connection, or bytes, that wait without the bit that makes select()   *)
(* report them, and no task is about to write it.                          *)
ServerUnnoticed ==
    new_connects # <<>> /\ ~svrReadable /\ rpc # "notify" /\ spc # "mark"

BytesUnnoticed(s) ==
    /\ rxQueue[s] # <<>> /\ "using" \in state[s] /\ "readable" \notin state[s]
    /\ ~(rpc = "frame" /\ rid = s) /\ ~(spc = "recvMark" /\ clisock[cur] = s)

(* A notification is lost in one way only: the server writes back what it  *)
(* computed before (mac_esp8266.c:503-506, 532-535, 599).  By any other    *)
(* step of the three tasks, in any order, nothing comes to wait unnoticed. *)
OnlyWriteBackLoses ==
    [][/\ ServerUnnoticed' =>
            ServerUnnoticed \/ (spc = "mark" /\ spc' # "mark")
       /\ \A s \in Ids : BytesUnnoticed(s)' =>
            BytesUnnoticed(s) \/ WritesBack(s)]_vars

(* What a slot reads was sent on the connection it was accepted for: no    *)
(* byte of another that had the same link is left in the receive queue     *)
(* (mac_esp8266.c:78, 134).                                                *)
ReadsOwnBytes ==
    spc = "recv" /\ rxQueue[clisock[cur]] # <<>> =>
        Head(rxQueue[clisock[cur]]) = owner[cur]

(* No connection is sent a response twice. *)
AnsweredOnce == \A c \in Conns : replies[c] <= 1

(* A peer that has sent a request gets its response, and the connection is *)
(* closed behind it.                                                       *)
Requested(c) == \E s \in Ids : conn[s] = c /\ frames[s] > 0
Served(c)    == replies[c] > 0 /\ \A s \in Ids : conn[s] # c

EveryRequestServed == \A c \in Conns : Requested(c) ~> Served(c)

(* A slot whose connection was closed by the peer is freed ("Notify os     *)
(* server socket close", mac_esp8266.c:131).                               *)
PeerIsGone(i) == clisock[i] # NoSock /\ conn[clisock[i]] # owner[i]

ClosedIsNoticed == \A i \in Slots : PeerIsGone(i) ~> clisock[i] = NoSock

(* A command that was given is carried out ("Can send another AT command", *)
(* mac_esp8266.c:602-603).                                                 *)
EveryCommandCarriedOut == command # "none" ~> command = "none"

=============================================================================
