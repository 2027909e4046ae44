---------------------------- MODULE HttpProtocol ----------------------------
(***************************************************************************)
(* The receiving side of one connection slot: ReadSock of server.c and     *)
(* ProcessClientData of http_protocol.c with all it calls.  A request is a *)
(* sequence of bytes that the network delivers in pieces of any size, cut  *)
(* anywhere; the slot serves one connection after the other, and only what *)
(* InitReqMessage resets is reset between them.                            *)
(*                                                                         *)
(* A byte is CR, LF, a digit or "d" (anything else); which header fields a *)
(* request has is part of its record (post, length, chunked), and of its   *)
(* header text only the length and the closing CR LF CR LF matter.  The    *)
(* receive buffer holds positions of the request's text instead of bytes,  *)
(* so that what reaches the application can be compared with what was sent.*)
(*                                                                         *)
(* The loop of _HandleChunked is a sequence of steps here, one per state   *)
(* of the chunk parser; nothing else touches the request in between.       *)
(***************************************************************************)
EXTENDS Integers, Sequences, SequencesExt

CONSTANTS
    Messages,   \* the requests peers send: records [text, post, length,
                \* chunked, chunks, body, need]
    NoLength,   \* value of `length` when there is no Content-Length field
    BufSize,    \* HTTP_BUFFER_SIZE
    HdrMax,     \* HTTP_MAX_HEADER_SIZE
    CompactAt,  \* the buffer is compacted below this much free space (256)
    IntMod      \* a C int is an integer modulo this (2^32)

ASSUME SizeAssumption ==
    /\ BufSize \in Nat \ {0} /\ HdrMax \in Nat \ {0} /\ CompactAt \in Nat
    /\ IntMod \in Nat \ {0} /\ 2 * BufSize < IntMod

VARIABLES
    \* the connection: its peer's request, how much of it was received, and
    \* whether the peer has closed
    msg, recvd, peerClosed,
    \* struct HTTPReqMessage
    buf, used, hdrValid, protocolState, bodyType, bodySize, chunkState,
    chunkRemain, bodyCB,
    \* where the slot's handling is
    pc,
    \* what the absorber has seen: its stream's phase, the bytes it was given
    \* and the length of the last data call
    phase, got, lastLen

conn     == <<msg, peerClosed>>
framing  == <<bodyType, bodySize, chunkState, chunkRemain>>
absorber == <<phase, got, lastLen>>
vars     == <<conn, recvd, buf, used, hdrValid, protocolState, framing, bodyCB,
              pc, absorber>>

valid == Len(buf)              \* _valid
Unused == valid - used         \* bytes received and not consumed

(* Conversion of a size_t to int. *)
AsInt(n) == LET m == n % IntMod IN IF 2 * m < IntMod THEN m ELSE m - IntMod
Smaller(a, b) == IF a < b THEN a ELSE b

Digits == {"0", "1", "2", "3"}
DigitValue == [c \in Digits |-> CASE c = "0" -> 0 [] c = "1" -> 1
                                  [] c = "2" -> 2 [] c = "3" -> 3]

(* strtol(line, NULL, 16): the value of the digits the line starts with. *)
StrToL(line) ==
    LET k == CHOOSE n \in 0..Len(line) :
               /\ \A i \in 1..n : line[i] \in Digits
               /\ n < Len(line) => line[n + 1] \notin Digits
    IN  FoldLeft(LAMBDA v, c : 16 * v + DigitValue[c], 0, SubSeq(line, 1, k))

(* _TestHeaderComplete on the first n bytes of a text: the end of the      *)
(* first CR LF CR LF, or 0.                                                *)
HeaderEnd(text, n) ==
    LET ends == {k \in 4..n : SubSeq(text, k - 3, k)
                                = <<"CR", "LF", "CR", "LF">>}
    IN  IF ends = {} THEN 0 ELSE CHOOSE k \in ends : \A j \in ends : k <= j

-----------------------------------------------------------------------------
(* What a request is, whoever reads it.  Its header is the text up to      *)
(* HeaderLen, or one that does not fit the header buffer.  `body` is the   *)
(* positions of its body's bytes, and `need` is where a request of known   *)
(* framing ends: behind Content-Length bytes, or behind the size line of   *)
(* the chunk of size 0.  Chunk j has `size` bytes of data behind `at`,     *)
(* where its size line ends, and `off` bytes of the body are before it.    *)
HeaderLen(m) == HeaderEnd(m.text, Smaller(HdrMax, Len(m.text)))

EndsLine(text, k) == text[k - 1] = "CR" /\ text[k] = "LF"

SizeLine(m, from, end, size) ==
    /\ end \in from + 2 .. Len(m.text) /\ EndsLine(m.text, end)
    /\ \A k \in from + 2 .. end - 1 : ~EndsLine(m.text, k)
    /\ StrToL(SubSeq(m.text, from + 1, end - 2)) = size

ChunkStart(m, j) ==
    IF j = 1 THEN HeaderLen(m)
             ELSE m.chunks[j - 1].at + m.chunks[j - 1].size + 2
ChunkOff(m, j) ==
    IF j = 1 THEN 0 ELSE m.chunks[j - 1].off + m.chunks[j - 1].size

IsChunked(m) ==
    LET n == Len(m.chunks)
    IN  /\ \A j \in 1..n :
             LET c == m.chunks[j]
             IN  /\ SizeLine(m, ChunkStart(m, j), c.at, c.size)
                 /\ c.size > 0
                 /\ EndsLine(m.text, c.at + c.size + 2)
                 /\ c.at + c.size + 2 < m.need
                 /\ c.off = ChunkOff(m, j) /\ c.off + c.size <= Len(m.body)
                 /\ \A i \in 1 .. c.size : m.body[c.off + i] = c.at + i
        /\ SizeLine(m, ChunkStart(m, n + 1), m.need, 0)
        /\ Len(m.body) = ChunkOff(m, n + 1)

IsSized(m) ==
    /\ m.need = HeaderLen(m) + m.length
    /\ Len(m.body) = m.length
    /\ \A i \in 1 .. m.length : m.body[i] = HeaderLen(m) + i

ASSUME MessageAssumption ==
    /\ NoLength \in Int
    /\ \A m \in Messages :
         /\ m.text \in Seq(STRING) /\ m.body \in Seq(Nat) /\ m.need \in Nat
         /\ m.post \in BOOLEAN /\ m.chunked \in BOOLEAN /\ m.length \in Int
         /\ m.chunks \in Seq([at : Nat, size : Nat, off : Nat])
         /\ m.need >= HeaderLen(m)
         /\ HeaderLen(m) = 0 => m.need > Len(m.text)
         /\ HeaderLen(m) > 0 /\ m.post =>
              /\ m.chunked => IsChunked(m)
              /\ ~m.chunked /\ m.length # NoLength /\ m.length > 0 => IsSized(m)
              /\ ~m.chunked /\ m.length = NoLength => m.need > Len(m.text)

-----------------------------------------------------------------------------
(* Accepting a connection: InitReqMessage, and a peer with a request. *)
InitReqMessage ==
    /\ buf' = <<>> /\ used' = 0 /\ hdrValid' = 0
    /\ protocolState' = "eReq_Header"
    /\ bodyType' = "eNoBody" /\ bodySize' = 0 /\ bodyCB' = FALSE
    /\ UNCHANGED <<chunkState, chunkRemain>>

Init ==
    /\ msg \in Messages /\ recvd = 0 /\ peerClosed = FALSE
    /\ buf = <<>> /\ used = 0 /\ hdrValid = 0
    /\ protocolState = "eReq_Header"
    /\ bodyType = "eNoBody" /\ bodySize = 0 /\ bodyCB = FALSE
    /\ chunkState = "eChunkHeader" /\ chunkRemain = 0
    /\ pc = "recv" /\ phase = "none" /\ got = <<>> /\ lastLen = 1

Accept ==
    /\ pc = "free" /\ pc' = "recv"
    /\ InitReqMessage
    /\ msg' \in Messages /\ recvd' = 0 /\ peerClosed' = FALSE
    /\ phase' = "none" /\ got' = <<>> /\ lastLen' = 1

(* The peer closes or resets the connection, whatever it has sent. *)
PeerCloses ==
    /\ pc = "recv" /\ ~peerClosed /\ peerClosed' = TRUE
    /\ UNCHANGED <<msg, recvd, buf, used, hdrValid, protocolState, framing,
                   bodyCB, pc, absorber>>

ReceiveSpaceOfEmpty == BufSize
ReceiveSpace == BufSize - valid

(* ReadSock when select() reported the socket readable: some bytes ... *)
ReadSock ==
    /\ pc = "recv" /\ ~peerClosed
    /\ \E n \in 1 .. Smaller(ReceiveSpace, Len(msg.text) - recvd) :
         /\ buf' = buf \o [i \in 1..n |-> recvd + i]
         /\ recvd' = recvd + n
    /\ pc' = IF protocolState = "eReq_Header" THEN "header" ELSE "body"
    /\ UNCHANGED <<conn, used, hdrValid, protocolState, framing, bodyCB, absorber>>

(* ... or none: the peer has closed, or there is no space to receive into, *)
(* and either way HTTPServerRun closes the connection.                     *)
ReadSockZero ==
    /\ pc = "recv"
    /\ peerClosed \/ (ReceiveSpace = 0 /\ recvd < Len(msg.text))
    /\ pc' = "close"
    /\ UNCHANGED <<conn, recvd, buf, used, hdrValid, protocolState, framing,
                   bodyCB, absorber>>

(* The idle reaper of HTTPServerRun. *)
Reap ==
    /\ pc = "recv" /\ pc' = "close"
    /\ UNCHANGED <<conn, recvd, buf, used, hdrValid, protocolState, framing,
                   bodyCB, absorber>>

-----------------------------------------------------------------------------
(* Any Content-Length a body, as if the value were known to be positive. *)
ParseHeaderAnyLength ==
    /\ bodyType' = IF ~msg.post THEN "eNoBody"
                   ELSE IF msg.chunked THEN "eChunked"
                   ELSE IF msg.length # NoLength THEN "eTotalSize"
                   ELSE "eUntilDisconnect"
    /\ bodySize' = IF msg.length = NoLength THEN 0 ELSE msg.length
    /\ chunkState' = "eChunkHeader" /\ UNCHANGED chunkRemain

(* _ParseHeader, step 4: how the body is framed.  Only a POST has a body,  *)
(* Transfer-Encoding overrides Content-Length, and with neither field the  *)
(* body is meant to end with the connection.                               *)
ParseHeader ==
    LET length == IF msg.length = NoLength THEN 0 ELSE msg.length
    IN  /\ bodyType' =
             CASE ~msg.post                  -> "eNoBody"
               [] msg.post /\ msg.chunked    -> "eChunked"
               [] msg.post /\ ~msg.chunked /\ length > 0 -> "eTotalSize"
               [] msg.post /\ ~msg.chunked /\ length <= 0 ->
                    IF msg.length = NoLength THEN "eUntilDisconnect"
                                             ELSE "eNoBody"
        /\ bodySize' = IF msg.post /\ length > 0 THEN length ELSE 0
        /\ chunkState' = IF msg.post /\ msg.chunked THEN "eChunkHeader"
                                                    ELSE chunkState
        /\ UNCHANGED chunkRemain

(* Forget the buffer once all of it is used. *)
Consume(k) ==
    IF k >= valid THEN buf' = <<>> /\ used' = 0
                  ELSE buf' = buf /\ used' = k

(* _GetHeader.  Bytes beyond the header buffer's size stay in the receive  *)
(* buffer; `used` is set from its start, which is where unused bytes are.  *)
(* (Its case of no unused byte, eReq_HeaderTooBig, needs a ReadSock result *)
(* of 0, and that closes the connection before it is called.)              *)
GetHeader ==
    /\ pc = "header" /\ Unused > 0
    /\ LET copied == Smaller(Unused, HdrMax - hdrValid)
           until  == HeaderEnd(msg.text, hdrValid + copied)
       IN  /\ hdrValid' = hdrValid + copied
           /\ IF until > 0
                THEN /\ ParseHeader
                     /\ Consume(until - hdrValid)
                     /\ protocolState' = "eReq_HeaderDone"
                     /\ pc' = "callback" /\ bodyCB' = FALSE
                ELSE /\ Consume(copied)
                     /\ pc' = "recv"
                     /\ UNCHANGED <<framing, protocolState, bodyCB>>
    /\ UNCHANGED <<conn, recvd, absorber>>

(* A callback after which more bytes are always waited for. *)
CallbackThenRecv ==
    /\ pc = "callback"
    /\ IF bodyType # "eNoBody"
         THEN protocolState' = "eReq_Body" /\ pc' = "recv"
         ELSE pc' = "reply" /\ UNCHANGED protocolState
    /\ UNCHANGED <<conn, recvd, buf, used, hdrValid, framing, bodyCB, absorber>>

(* The application's callback may install an absorber when there is a body *)
(* to come; a request without one is answered at once.                     *)
Callback ==
    /\ pc = "callback"
    /\ IF bodyType # "eNoBody"
         THEN /\ protocolState' = "eReq_Body"
              /\ bodyCB' \in BOOLEAN
              /\ phase' = IF bodyCB' THEN "open" ELSE phase
              /\ pc' = IF Unused = 0 THEN "recv" ELSE "body"
              /\ IF Unused = 0 THEN buf' = <<>> /\ used' = 0
                               ELSE UNCHANGED <<buf, used>>
         ELSE /\ pc' = "reply"
              /\ UNCHANGED <<protocolState, bodyCB, phase, buf, used>>
    /\ UNCHANGED <<conn, recvd, hdrValid, framing, got, lastLen>>

-----------------------------------------------------------------------------
(* One call of req->BodyCB with n bytes of the buffer; a call after the    *)
(* stream's end would be a use of a freed absorber.                        *)
Absorb(n) ==
    IF bodyCB
      THEN /\ got' = got \o SubSeq(buf, used + 1, used + n)
           /\ lastLen' = n
           /\ phase' = IF phase = "open" THEN "open" ELSE "broken"
      ELSE UNCHANGED absorber

EndAbsorber(how) ==
    phase' = IF ~bodyCB THEN phase
             ELSE IF phase = "open" THEN how ELSE "broken"

(* A data call with a remaining size that is not positive as an int: it is *)
(* made with that as its length, whatever bytes there are, and `used` then *)
(* stays where it is or moves back before them.  The model ends here.      *)
Unfit(remaining) ==
    /\ AsInt(remaining) <= 0
    /\ lastLen' = IF bodyCB THEN AsInt(remaining) ELSE lastLen
    /\ pc' = "unfit"
    /\ UNCHANGED <<conn, recvd, buf, used, hdrValid, protocolState, framing,
                   bodyCB, phase, got>>

(* _HandleContentSize, and what ProcessClientData makes of its result. *)
ContentSizeUnfit ==
    pc = "body" /\ bodyType = "eTotalSize" /\ Unfit(bodySize)

HandleContentSize ==
    /\ pc = "body" /\ bodyType = "eTotalSize" /\ AsInt(bodySize) > 0
    /\ LET available == IF Unused > AsInt(bodySize) THEN AsInt(bodySize)
                                                    ELSE Unused
       IN  /\ Absorb(available)
           /\ Consume(used + available)
           /\ bodySize' = bodySize - available
           /\ pc' = IF bodySize' <= 0 THEN "terminate" ELSE "recv"
    /\ UNCHANGED <<conn, recvd, hdrValid, protocolState, bodyType, chunkState,
                   chunkRemain, bodyCB>>

(* GetLineFromBuffer: where the first CR LF of the unused bytes ends, or 0 *)
LineEnd ==
    LET ends == {k \in used + 2 .. valid :
                   /\ msg.text[buf[k - 1]] = "CR" /\ msg.text[buf[k]] = "LF"}
    IN  IF ends = {} THEN 0 ELSE CHOOSE k \in ends : \A j \in ends : k <= j

(* Moving the bytes without moving `used`. *)
NoLineYetKeepsUsed ==
    IF used > 0 /\ BufSize - valid < CompactAt
      THEN buf' = SubSeq(buf, used + 1, valid) /\ UNCHANGED used
      ELSE UNCHANGED <<buf, used>>

(* ... and when there is none: the unused bytes move to the front, if less *)
(* than CompactAt bytes are free behind them.                              *)
NoLineYet ==
    IF used > 0 /\ BufSize - valid < CompactAt
      THEN buf' = SubSeq(buf, used + 1, valid) /\ used' = 0
      ELSE UNCHANGED <<buf, used>>

Chunk(state) == pc = "body" /\ bodyType = "eChunked" /\ chunkState = state

(* _HandleChunked, eChunkHeader: the line with the size of the next chunk. *)
ChunkHeader ==
    /\ Chunk("eChunkHeader")
    /\ IF LineEnd > 0
         THEN LET line == [i \in 1 .. LineEnd - 2 - used |->
                             msg.text[buf[used + i]]]
                  remain == StrToL(line)
              IN  /\ used' = LineEnd /\ UNCHANGED buf
                  /\ IF remain <= 0
                       THEN pc' = "terminate"
                            /\ UNCHANGED <<chunkRemain, chunkState>>
                       ELSE /\ chunkRemain' = remain
                            /\ chunkState' = "eChunkBody" /\ pc' = "body"
         ELSE /\ NoLineYet /\ pc' = "recv"
              /\ UNCHANGED <<chunkRemain, chunkState>>
    /\ UNCHANGED <<conn, recvd, hdrValid, protocolState, bodyType, bodySize,
                   bodyCB, absorber>>

(* eChunkBody.  With nothing left in the buffer it asks for more at once,  *)
(* and leaves the buffer as it is.                                         *)
ChunkUnfit == Chunk("eChunkBody") /\ Unused # 0 /\ Unfit(chunkRemain)

ChunkBody ==
    /\ Chunk("eChunkBody") /\ (Unused # 0 => AsInt(chunkRemain) > 0)
    /\ IF Unused = 0
         THEN pc' = "recv"
              /\ UNCHANGED <<buf, used, chunkRemain, chunkState, absorber>>
         ELSE LET available == IF Unused > AsInt(chunkRemain)
                                 THEN AsInt(chunkRemain) ELSE Unused
              IN  /\ Absorb(available)
                  /\ chunkRemain' = chunkRemain - available
                  /\ chunkState' = IF chunkRemain' <= 0 THEN "eChunkTrailer"
                                                        ELSE chunkState
                  /\ Consume(used + available)
                  /\ pc' = IF used + available = valid THEN "recv" ELSE "body"
    /\ UNCHANGED <<conn, recvd, hdrValid, protocolState, bodyType, bodySize,
                   bodyCB>>

(* eChunkTrailer: the CR LF behind the data of a chunk. *)
ChunkTrailer ==
    /\ Chunk("eChunkTrailer")
    /\ IF LineEnd > 0
         THEN used' = LineEnd /\ chunkState' = "eChunkHeader" /\ pc' = "body"
              /\ UNCHANGED buf
         ELSE NoLineYet /\ pc' = "recv" /\ UNCHANGED chunkState
    /\ UNCHANGED <<conn, recvd, hdrValid, protocolState, bodyType, bodySize,
                   chunkRemain, bodyCB, absorber>>

(* _GetBody knows no other framing: its result is 0, the end of the body. *)
GetBodyOther ==
    /\ pc = "body" /\ bodyType \notin {"eTotalSize", "eChunked"}
    /\ pc' = "terminate"
    /\ UNCHANGED <<conn, recvd, buf, used, hdrValid, protocolState, framing,
                   bodyCB, absorber>>

(* The terminating call of the absorber, after which its pointer is        *)
(* cleared, and on to the response.                                        *)
Terminate ==
    /\ pc = "terminate" /\ pc' = "reply"
    /\ EndAbsorber("done") /\ bodyCB' = FALSE
    /\ UNCHANGED <<conn, recvd, buf, used, hdrValid, protocolState, framing,
                   got, lastLen>>

(* The response is written, or fails: see HttpResponse. *)
Reply ==
    /\ pc = "reply" /\ pc' = "close"
    /\ UNCHANGED <<conn, recvd, buf, used, hdrValid, protocolState, framing,
                   bodyCB, absorber>>

(* A close that leaves the absorber of an unfinished body behind. *)
CloseWithoutAbort ==
    /\ pc = "close" /\ pc' = "free" /\ bodyCB' = FALSE
    /\ UNCHANGED <<conn, recvd, buf, used, hdrValid, protocolState, framing,
                   absorber>>

(* HTTPServerRun closes the connection: an absorber still there is told to *)
(* abort.                                                                  *)
Close ==
    /\ pc = "close" /\ pc' = "free"
    /\ EndAbsorber("aborted") /\ bodyCB' = FALSE
    /\ UNCHANGED <<conn, recvd, buf, used, hdrValid, protocolState, framing,
                   got, lastLen>>

Process ==
    \/ GetHeader \/ Callback
    \/ HandleContentSize \/ ChunkHeader \/ ChunkBody \/ ChunkTrailer
    \/ ContentSizeUnfit \/ ChunkUnfit
    \/ GetBodyOther \/ Terminate \/ Reply \/ Close

Ended == pc = "unfit" /\ UNCHANGED vars

Next ==
    \/ Accept \/ PeerCloses \/ ReadSock \/ ReadSockZero \/ Reap \/ Process
    \/ Ended

Spec == Init /\ [][Next]_vars

-----------------------------------------------------------------------------
TypeOK ==
    /\ msg \in Messages /\ recvd \in 0 .. Len(msg.text) /\ peerClosed \in BOOLEAN
    /\ buf \in Seq(1..recvd) /\ valid <= BufSize /\ used \in 0..valid
    /\ hdrValid \in 0..HdrMax
    /\ protocolState \in {"eReq_Header", "eReq_HeaderDone", "eReq_Body"}
    /\ bodyType \in {"eNoBody", "eUntilDisconnect", "eTotalSize", "eChunked"}
    /\ bodySize \in Int /\ chunkRemain \in Int /\ bodyCB \in BOOLEAN
    /\ chunkState \in {"eChunkHeader", "eChunkBody", "eChunkTrailer"}
    /\ pc \in {"recv", "header", "callback", "body", "terminate", "reply",
               "close", "free", "unfit"}
    /\ lastLen \in Int /\ got \in Seq(1..recvd)
    /\ phase \in {"none", "open", "done", "aborted"}

(* The absorber of a framed request sees what BodyStream promises: its     *)
(* bytes in order and complete however they are cut into segments, then    *)
(* one end, and nothing after it (http_protocol.c:215-302, 386-402), until *)
(* a data call is made with a remaining size that does not fit an int.     *)
Stream == INSTANCE BodyStream WITH
            Bodies <- {m.body : m \in Messages},
            body  <- IF phase = "none" \/ bodyType = "eUntilDisconnect"
                       THEN <<>> ELSE msg.body,
            got   <- IF bodyType = "eUntilDisconnect" THEN <<>> ELSE got,
            phase <- IF bodyType = "eUntilDisconnect" THEN "none" ELSE phase

ImplementsBodyStream == Stream!Spec

(* The slot's absorber pointer is set exactly while its stream is open: no *)
(* stream is left without an end when the connection goes, whichever way   *)
(* it goes, and none is called after its end (server.c:254-264,            *)
(* http_protocol.c:391-399).                                               *)
AbsorberLife ==
    /\ bodyCB <=> phase = "open"
    /\ pc = "free" => ~bodyCB

(* The server waits for more bytes only while the request is incomplete: a *)
(* request that was received whole is always answered, however it was cut  *)
(* into segments (`need` is where a request of known framing ends).        *)
WaitsOnlyForMissingBytes ==
    pc = "recv" => recvd < msg.need

(* "a 0-length body callback is treated as stream termination" and "a      *)
(* negative (int) length in the body callback" is to be avoided            *)
(* (http_protocol.c:174-179): every data call has bytes, for any framing,  *)
(* as long as the number of bytes that remain to be read fits an int       *)
(* (http_protocol.c:240, 273).                                             *)
Remaining == IF bodyType = "eChunked" THEN chunkRemain ELSE bodySize

DataCallsNotEmpty == lastLen > 0 \/ (pc = "unfit" /\ 2 * Remaining >= IntMod)

=============================================================================
