------------------------- MODULE HttpProtocolProofs -------------------------
(***************************************************************************)
(* What HttpProtocol promises, for every set of requests, every buffer     *)
(* size and every way of cutting a request into segments: a body absorber  *)
(* is ended exactly once, it is handed the body, all of it and nothing     *)
(* else, and the server does not wait for bytes it has.                    *)
(*                                                                         *)
(* Two invariants.  AbsorberInv is about the absorber's pointer alone, and *)
(* needs nothing of the request: no absorber is there before the request   *)
(* callback, where _GetHeader and InitReqMessage clear the pointer without *)
(* a call.  ProtocolInv follows the parser through the request: Pos is the *)
(* place in the request's text up to which the buffer is consumed, and in  *)
(* every state of the parser Pos, what is left of the chunk or of the body *)
(* and what the absorber was given belong to one and the same place of the *)
(* request.  A line that is cut by a segment's end is therefore looked for *)
(* again from its start, wherever the buffer was compacted in between.     *)
(***************************************************************************)
EXTENDS HttpProtocol, WellFoundedInduction, SequenceTheorems, TLAPS

-----------------------------------------------------------------------------
(* The absorber's pointer.                                                 *)

NoneBeforeCallback ==
    /\ bodyCB \in BOOLEAN
    /\ pc = "header" => protocolState = "eReq_Header"
    /\ protocolState = "eReq_Header" \/ pc = "callback" => ~bodyCB
    /\ pc \in {"callback", "free"} => ~bodyCB

AbsorberInv == AbsorberLife /\ NoneBeforeCallback

LEMMA InitAbsorber == Init => AbsorberInv
BY DEF Init, AbsorberInv, AbsorberLife, NoneBeforeCallback

(* Receiving, and the end of a connection before its slot is closed. *)
LEMMA ReceivingKeeps ==
    ASSUME AbsorberInv, PeerCloses \/ ReadSock \/ ReadSockZero \/ Reap \/ Reply
    PROVE  AbsorberInv'
<1>1. protocolState' = protocolState /\ bodyCB' = bodyCB /\ phase' = phase
  BY DEF PeerCloses, ReadSock, ReadSockZero, Reap, Reply, absorber
<1>2. /\ pc' \notin {"callback", "free"}
      /\ pc' = "header" => protocolState = "eReq_Header"
  BY DEF PeerCloses, ReadSock, ReadSockZero, Reap, Reply, AbsorberInv
<1>3. AbsorberLife' /\ NoneBeforeCallback'
  BY <1>1, <1>2 DEF AbsorberInv, AbsorberLife, NoneBeforeCallback
<1>4. QED
  BY <1>3 DEF AbsorberInv

LEMMA HeaderKeeps ==
    ASSUME AbsorberInv, GetHeader
    PROVE  AbsorberInv'
<1>1. phase' = phase /\ ~bodyCB
  BY DEF GetHeader, absorber, AbsorberInv, NoneBeforeCallback
<1>2. /\ bodyCB' = FALSE \/ bodyCB' = bodyCB
      /\ pc' \in {"callback", "recv"}
  BY DEF GetHeader
<1>3. bodyCB = FALSE
  BY <1>1 DEF AbsorberInv, NoneBeforeCallback
<1>4. bodyCB' = FALSE
  BY <1>2, <1>3
<1>5. QED
  BY <1>1, <1>2, <1>4 DEF AbsorberInv, AbsorberLife, NoneBeforeCallback

(* Only the callback opens a stream, and there is none before. *)
LEMMA CallbackKeeps ==
    ASSUME AbsorberInv, Callback
    PROVE  AbsorberInv'
<1>1. ~bodyCB /\ phase # "open"
  BY DEF Callback, AbsorberInv, AbsorberLife, NoneBeforeCallback
<1>2. CASE bodyType # "eNoBody"
  <2>1. /\ bodyCB' \in BOOLEAN /\ phase' = IF bodyCB' THEN "open" ELSE phase
        /\ protocolState' = "eReq_Body" /\ pc' \in {"recv", "body"}
    BY <1>2 DEF Callback
  <2>2. QED
    BY <1>1, <2>1 DEF AbsorberInv, AbsorberLife, NoneBeforeCallback
<1>3. CASE bodyType = "eNoBody"
  <2>1. /\ UNCHANGED <<bodyCB, phase, protocolState>> /\ pc' = "reply"
    BY <1>3 DEF Callback
  <2>2. QED
    BY <1>1, <2>1 DEF AbsorberInv, AbsorberLife, NoneBeforeCallback
<1>4. QED
  BY <1>2, <1>3

(* A block of data leaves the stream as open as it was. *)
LEMMA BodyKeeps ==
    ASSUME AbsorberInv,
           \/ HandleContentSize \/ ChunkHeader \/ ChunkBody \/ ChunkTrailer
           \/ ContentSizeUnfit \/ ChunkUnfit \/ GetBodyOther
    PROVE  AbsorberInv'
<1>1. /\ UNCHANGED <<protocolState, bodyCB>>
      /\ pc' \in {"recv", "body", "terminate", "unfit"}
  BY DEF HandleContentSize, ChunkHeader, ChunkBody, ChunkTrailer, GetBodyOther,
         ContentSizeUnfit, ChunkUnfit, Unfit, Chunk
<1>2. phase' = phase
  <2>1. ASSUME NEW n, Absorb(n) PROVE phase' = phase
    BY <2>1 DEF Absorb, absorber, AbsorberInv, AbsorberLife
  <2>2. QED
    BY <2>1 DEF HandleContentSize, ChunkHeader, ChunkBody, ChunkTrailer,
                ContentSizeUnfit, ChunkUnfit, Unfit, GetBodyOther, absorber
<1>3. QED
  BY <1>1, <1>2 DEF AbsorberInv, AbsorberLife, NoneBeforeCallback

(* The end of the body and the close both take the pointer with them, so   *)
(* that the second of them finds none.                                     *)
LEMMA EndKeeps ==
    ASSUME AbsorberInv, Terminate \/ Close
    PROVE  AbsorberInv'
<1>1. bodyCB' = FALSE /\ pc' \in {"reply", "free"}
  BY DEF Terminate, Close
<1>2. phase' # "open"
  BY DEF Terminate, Close, EndAbsorber, AbsorberInv, AbsorberLife
<1>3. QED
  BY <1>1, <1>2 DEF AbsorberInv, AbsorberLife, NoneBeforeCallback

LEMMA AcceptKeeps ==
    ASSUME AbsorberInv, Accept
    PROVE  AbsorberInv'
BY DEF Accept, InitReqMessage, AbsorberInv, AbsorberLife, NoneBeforeCallback

LEMMA AbsorberStep == AbsorberInv /\ [Next]_vars => AbsorberInv'
<1> SUFFICES ASSUME AbsorberInv, [Next]_vars PROVE AbsorberInv'
  OBVIOUS
<1>1. CASE UNCHANGED vars
  BY <1>1 DEF vars, absorber, AbsorberInv, AbsorberLife, NoneBeforeCallback
<1>2. CASE Next
  BY <1>1, <1>2, ReceivingKeeps, HeaderKeeps, CallbackKeeps, BodyKeeps,
     EndKeeps, AcceptKeeps DEF Next, Process, Ended
<1>3. QED
  BY <1>1, <1>2

(* No absorber is left without an end when the connection goes, whichever  *)
(* way it goes, and none is called after its end (server.c:254-264,        *)
(* http_protocol.c:391-399).                                               *)
THEOREM AbsorberLifeCorrect == Spec => []AbsorberLife
<1>1. AbsorberInv => AbsorberLife
  BY DEF AbsorberInv
<1>2. QED
  BY <1>1, AbsorberStep, InitAbsorber, PTL DEF Spec

-----------------------------------------------------------------------------
(* The place in the request.                                               *)

(* The byte of the request that is consumed next comes behind Pos.         *)
Pos == recvd - Unused

BufHolds == \A i \in 1..valid : buf[i] = recvd - valid + i

(* What the parsed header says of the request.                             *)
Framed ==
    bodyType # "eNoBody" =>
      /\ HeaderLen(msg) > 0 /\ msg.post
      /\ bodyType = "eChunked" <=> msg.chunked
      /\ bodyType = "eTotalSize" => msg.length # NoLength /\ msg.length > 0
      /\ bodyType = "eUntilDisconnect" => msg.length = NoLength

(* The header's end is not among the bytes of the header buffer, which     *)
(* holds all that was received, or is full.                                *)
HeaderOpen ==
    /\ pc \in {"recv", "header", "close", "free"}
    /\ hdrValid <= recvd /\ HeaderEnd(msg.text, hdrValid) = 0
    /\ hdrValid < HdrMax => used = 0 /\ recvd - valid = hdrValid

HeaderDone ==
    /\ pc \in {"callback", "reply", "close", "free"}
    /\ pc = "callback" =>
         /\ Pos = HeaderLen(msg)
         /\ bodyType = "eTotalSize" => bodySize = msg.length
         /\ bodyType = "eChunked" => chunkState = "eChunkHeader"

(* How far the body is consumed: `given` of it went to the absorber.       *)
Given(n) == bodyCB => Len(got) = n

SizedPlace ==
    /\ bodySize \in 1 .. msg.length
    /\ Pos = HeaderLen(msg) + msg.length - bodySize
    /\ Given(msg.length - bodySize)
    /\ pc = "body" => Unused > 0

HeaderPlace(j) ==
    /\ chunkState = "eChunkHeader"
    /\ Pos = ChunkStart(msg, j) /\ Given(ChunkOff(msg, j))

DataPlace(c) ==
    /\ chunkState = "eChunkBody" /\ chunkRemain \in 1 .. c.size
    /\ Pos = c.at + c.size - chunkRemain
    /\ Given(c.off + c.size - chunkRemain)

TrailerPlace(c) ==
    /\ chunkState = "eChunkTrailer"
    /\ Pos = c.at + c.size /\ Given(c.off + c.size)

ChunkPlace ==
    \/ \E j \in 1 .. Len(msg.chunks) + 1 : HeaderPlace(j)
    \/ \E j \in 1 .. Len(msg.chunks) :
         DataPlace(msg.chunks[j]) \/ TrailerPlace(msg.chunks[j])

Place ==
    /\ bodyType = "eTotalSize" => SizedPlace
    /\ bodyType = "eChunked" => ChunkPlace

BodyOpen ==
    /\ pc \in {"recv", "body", "terminate", "reply", "close", "free", "unfit"}
    /\ bodyType # "eNoBody"
    /\ pc \in {"recv", "body"} => Place
    /\ pc = "terminate" /\ bodyType # "eUntilDisconnect" =>
         Given(Len(msg.body))

Progress ==
    /\ protocolState = "eReq_Header" => HeaderOpen /\ bodyType = "eNoBody"
    /\ protocolState = "eReq_HeaderDone" => HeaderDone
    /\ protocolState = "eReq_Body" => BodyOpen
    /\ protocolState # "eReq_Body" => phase = "none"

(* What the absorber was given is what the body starts with.               *)
GotPrefix ==
    /\ phase = "none" => got = <<>>
    /\ Len(got) <= Len(msg.body)
    /\ \A i \in 1 .. Len(got) : got[i] = msg.body[i]

-----------------------------------------------------------------------------
(* Facts about the operators that look into the text of a request.         *)

LEMMA Minimum ==
    ASSUME NEW T, T \subseteq Nat, T # {}
    PROVE  \E x \in T : \A y \in T : x <= y
<1>1. PICK x \in T : \A y \in T : ~ (<<y, x>> \in OpToRel(<, Nat))
  BY NatLessThanWellFounded, WFMin
<1>2. \A y \in T : ~ (y < x)
  BY <1>1, Zenon DEF OpToRel
<1>3. QED
  BY <1>2

(* The least member of a set of numbers, as GetLineFromBuffer and          *)
(* _TestHeaderComplete choose it.                                          *)
LEMMA Least ==
    ASSUME NEW T, T \subseteq Nat, T # {}
    PROVE  LET k == CHOOSE x \in T : \A y \in T : x <= y
           IN  k \in T /\ \A y \in T : k <= y
<1>1. \E x \in T : \A y \in T : x <= y
  BY Minimum
<1>2. QED
  BY <1>1

EndsHeader(text, k) == SubSeq(text, k - 3, k) = <<"CR", "LF", "CR", "LF">>

LEMMA HeaderEndIs ==
    ASSUME NEW text, NEW n \in Nat
    PROVE  /\ HeaderEnd(text, n) = 0 => \A k \in 4..n : ~EndsHeader(text, k)
           /\ HeaderEnd(text, n) # 0 =>
                /\ HeaderEnd(text, n) \in 4..n
                /\ EndsHeader(text, HeaderEnd(text, n))
                /\ \A k \in 4 .. HeaderEnd(text, n) - 1 : ~EndsHeader(text, k)
<1> DEFINE ends == {k \in 4..n : SubSeq(text, k - 3, k)
                                   = <<"CR", "LF", "CR", "LF">>}
<1>1. CASE ends = {}
  <2>1. HeaderEnd(text, n) = 0
    BY <1>1 DEF HeaderEnd
  <2>2. \A k \in 4..n : ~EndsHeader(text, k)
    BY <1>1 DEF EndsHeader
  <2>3. QED
    BY <2>1, <2>2
<1>2. CASE ends # {}
  <2> DEFINE m == CHOOSE k \in ends : \A j \in ends : k <= j
  <2>1. HeaderEnd(text, n) = m
    BY <1>2 DEF HeaderEnd
  <2>2. ends \subseteq Nat
    OBVIOUS
  <2>3. m \in ends /\ \A j \in ends : m <= j
    <3> HIDE DEF ends
    <3>1. QED
      BY <1>2, <2>2, Least
  <2>4. m \in 4..n /\ EndsHeader(text, m)
    BY <2>3 DEF EndsHeader
  <2>5. ASSUME NEW k \in 4 .. m - 1 PROVE ~EndsHeader(text, k)
    <3>1. k \in 4..n /\ ~(m <= k)
      BY <2>4
    <3>2. k \notin ends
      BY <3>1, <2>3
    <3>3. QED
      BY <3>1, <3>2 DEF EndsHeader
  <2> HIDE DEF m
  <2>6. QED
    BY <2>1, <2>4, <2>5
<1>3. QED
  BY <1>1, <1>2

(* More bytes of the same text change nothing about an end already found.  *)
LEMMA HeaderEndStays ==
    ASSUME NEW text, NEW a \in Nat, NEW b \in Nat, a <= b
    PROVE  /\ HeaderEnd(text, a) # 0 => HeaderEnd(text, b) = HeaderEnd(text, a)
           /\ HeaderEnd(text, a) = 0 /\ HeaderEnd(text, b) # 0 =>
                HeaderEnd(text, b) > a
<1> DEFINE p == HeaderEnd(text, a)
           q == HeaderEnd(text, b)
<1>1. /\ p = 0 => \A k \in 4..a : ~EndsHeader(text, k)
      /\ p # 0 => /\ p \in 4..a /\ EndsHeader(text, p)
                  /\ \A k \in 4 .. p - 1 : ~EndsHeader(text, k)
  BY HeaderEndIs
<1>2. /\ q = 0 => \A k \in 4..b : ~EndsHeader(text, k)
      /\ q # 0 => /\ q \in 4..b /\ EndsHeader(text, q)
                  /\ \A k \in 4 .. q - 1 : ~EndsHeader(text, k)
  BY HeaderEndIs
<1> HIDE DEF p, q
<1>3. ASSUME p # 0 PROVE q = p
  <2>1. q # 0
    BY <1>1, <1>2, <1>3
  <2>2. ~(p < q) /\ ~(q < p)
    BY <1>1, <1>2, <1>3, <2>1
  <2>3. QED
    BY <1>1, <1>2, <1>3, <2>1, <2>2
<1>4. ASSUME p = 0, q # 0 PROVE q > a
  BY <1>1, <1>2, <1>4
<1>5. QED
  BY <1>3, <1>4 DEF p, q

(* A count of bytes that fits an int keeps its value in one.               *)
LEMMA AsIntFits ==
    ASSUME NEW n \in Nat, 2 * n < IntMod
    PROVE  AsInt(n) = n
<1>1. IntMod \in Nat \ {0} /\ n < IntMod
  BY SizeAssumption
<1>2. n % IntMod = n
  BY <1>1
<1>3. QED
  BY <1>2 DEF AsInt

(* A size that does not fit becomes a smaller one. *)
LEMMA AsIntBound ==
    ASSUME NEW n \in Nat
    PROVE  AsInt(n) \in Int /\ AsInt(n) <= n
<1>1. IntMod \in Nat \ {0}
  BY SizeAssumption
<1>2. n % IntMod \in 0 .. IntMod - 1
  BY <1>1
<1>3. n % IntMod <= n
  <2>1. CASE n < IntMod
    BY <1>1, <2>1
  <2>2. CASE ~(n < IntMod)
    BY <1>1, <1>2, <2>2
  <2>3. QED
    BY <2>1, <2>2
<1>4. PICK m \in Nat : m = n % IntMod
  BY <1>2
<1>5. AsInt(n) = IF 2 * m < IntMod THEN m ELSE m - IntMod
  BY <1>4 DEF AsInt
<1>6. m <= n
  BY <1>3, <1>4
<1>7. QED
  BY <1>1, <1>5, <1>6

-----------------------------------------------------------------------------
(* The receive buffer: what each way of changing it leaves there.          *)

BufferOK ==
    /\ recvd \in Nat /\ buf \in Seq(1..recvd) /\ valid <= BufSize
    /\ used \in 0..valid /\ BufHolds

LEMMA ConsumeKeepsBuffer ==
    ASSUME BufferOK, NEW k \in 0..valid, Consume(k), recvd' = recvd
    PROVE  BufferOK' /\ Unused' = valid - k
<1>1. CASE k >= valid
  <2>1. buf' = <<>> /\ used' = 0 /\ valid - k = 0
    BY <1>1 DEF Consume, BufferOK, valid
  <2>2. QED
    BY <2>1, SizeAssumption DEF BufferOK, BufHolds, Unused, valid
<1>2. CASE ~(k >= valid)
  <2>1. buf' = buf /\ used' = k
    BY <1>2 DEF Consume
  <2>2. QED
    BY <2>1 DEF BufferOK, BufHolds, Unused, valid
<1>3. QED
  BY <1>1, <1>2

LEMMA WaitingKeepsBuffer ==
    ASSUME BufferOK, NoLineYet, recvd' = recvd
    PROVE  BufferOK' /\ Unused' = Unused
<1>1. CASE used > 0 /\ BufSize - valid < CompactAt
  <2>1. buf' = SubSeq(buf, used + 1, valid) /\ used' = 0
    BY <1>1 DEF NoLineYet
  <2>2. /\ Len(buf') = valid - used
        /\ \A i \in 1 .. valid - used : buf'[i] = buf[used + i]
    BY <2>1 DEF BufferOK, valid
  <2>3. buf' \in Seq(1..recvd)
    BY <2>1 DEF BufferOK, valid
  <2>4. \A i \in 1 .. Len(buf') : buf'[i] = recvd - Len(buf') + i
    BY <2>2 DEF BufferOK, BufHolds, valid
  <2>5. valid \in Nat /\ used \in 0..valid /\ valid <= BufSize /\ BufSize \in Nat
    BY SizeAssumption DEF BufferOK, valid
  <2>6. valid' = valid - used /\ valid' <= BufSize /\ used' \in 0..valid'
    BY <2>1, <2>2, <2>5 DEF valid
  <2>7. BufHolds'
    BY <2>4 DEF BufHolds, valid
  <2>8. Unused' = Unused
    BY <2>1, <2>5, <2>6 DEF Unused
  <2>9. QED
    BY <2>3, <2>6, <2>7, <2>8 DEF BufferOK
<1>2. CASE ~(used > 0 /\ BufSize - valid < CompactAt)
  <2>1. buf' = buf /\ used' = used
    BY <1>2 DEF NoLineYet
  <2>2. QED
    BY <2>1 DEF BufferOK, BufHolds, Unused, valid
<1>3. QED
  BY <1>1, <1>2

LEMMA NextPositions ==
    ASSUME NEW r \in Nat, NEW b \in Seq(1..r), NEW n \in Nat,
           \A i \in 1 .. Len(b) : b[i] = r - Len(b) + i
    PROVE  LET c == b \o [i \in 1..n |-> r + i]
           IN  /\ c \in Seq(1 .. r + n) /\ Len(c) = Len(b) + n
               /\ \A i \in 1 .. Len(c) : c[i] = r + n - Len(c) + i
<1> DEFINE new == [i \in 1..n |-> r + i]
           c == b \o new
<1>1. /\ new \in Seq(1 .. r + n) /\ Len(new) = n
      /\ \A i \in 1..n : new[i] = r + i
  <2>1. \A i \in 1..n : r + i \in 1 .. r + n
    OBVIOUS
  <2>2. QED
    BY <2>1
<1>2. b \in Seq(1 .. r + n) /\ Len(b) \in Nat
  <2>1. 1..r \subseteq 1 .. r + n
    OBVIOUS
  <2>2. QED
    BY <2>1
<1> HIDE DEF new
<1>3. /\ c \in Seq(1 .. r + n) /\ Len(c) = Len(b) + n
      /\ \A i \in 1 .. Len(b) + n : c[i] = IF i <= Len(b) THEN b[i]
                                                     ELSE new[i - Len(b)]
  BY <1>1, <1>2, ConcatProperties, Zenon
<1> HIDE DEF c
<1>4. ASSUME NEW i \in 1 .. Len(b) + n
      PROVE  c[i] = r - Len(b) + i
  <2>1. CASE i <= Len(b)
    BY <2>1, <1>2, <1>3
  <2>2. CASE i > Len(b)
    <3>1. i - Len(b) \in 1..n
      BY <2>2, <1>2
    <3>2. c[i] = new[i - Len(b)] /\ new[i - Len(b)] = r + (i - Len(b))
      BY <2>2, <3>1, <1>1, <1>2, <1>3
    <3>3. QED
      BY <3>2, <1>2
  <2>3. QED
    BY <2>1, <2>2, <1>2
<1>5. r + n - Len(c) = r - Len(b)
  BY <1>2, <1>3
<1>6. QED
  BY <1>3, <1>4, <1>5 DEF c, new

LEMMA ReceivingKeepsBuffer ==
    ASSUME BufferOK, NEW n \in 1 .. BufSize - valid, used' = used,
           buf' = buf \o [i \in 1..n |-> recvd + i], recvd' = recvd + n
    PROVE  BufferOK' /\ valid' = valid + n /\ Unused' = Unused + n
<1>1. /\ recvd \in Nat /\ n \in Nat /\ BufSize \in Nat /\ valid \in Nat
      /\ used \in 0..valid /\ buf \in Seq(1..recvd) /\ valid + n <= BufSize
      /\ \A i \in 1 .. Len(buf) : buf[i] = recvd - Len(buf) + i
  BY SizeAssumption DEF BufferOK, BufHolds, valid
<1>2. /\ buf' \in Seq(1 .. recvd + n) /\ Len(buf') = Len(buf) + n
      /\ \A i \in 1 .. Len(buf') : buf'[i] = recvd + n - Len(buf') + i
  BY <1>1, NextPositions, Zenon
<1>3. valid' = valid + n
  BY <1>2 DEF valid
<1>4. BufferOK'
  BY <1>1, <1>2, <1>3 DEF BufferOK, BufHolds, valid
<1>5. QED
  BY <1>1, <1>3, <1>4 DEF Unused

(* The next line end of the text is found once it is received.             *)
LEMMA LineEndIs ==
    ASSUME BufferOK, NEW e \in Nat, e >= Pos + 2, EndsLine(msg.text, e),
           \A k \in Pos + 2 .. e - 1 : ~EndsLine(msg.text, k)
    PROVE  LineEnd = IF e <= recvd THEN used + (e - Pos) ELSE 0
<1> DEFINE ends == {k \in used + 2 .. valid :
                      msg.text[buf[k - 1]] = "CR" /\ msg.text[buf[k]] = "LF"}
           at(k) == recvd - valid + k
<1>1. /\ recvd \in Nat /\ valid \in Nat /\ used \in 0..valid
      /\ Pos = recvd - valid + used
  BY DEF BufferOK, valid, Pos, Unused
<1>2. ASSUME NEW k \in used + 2 .. valid
      PROVE  /\ msg.text[buf[k - 1]] = "CR" /\ msg.text[buf[k]] = "LF"
                  <=> EndsLine(msg.text, at(k))
  <2>1. k - 1 \in 1..valid /\ k \in 1..valid
    BY <1>1
  <2>2. buf[k - 1] = at(k) - 1 /\ buf[k] = at(k)
    <3>1. buf[k] = recvd - valid + k /\ buf[k - 1] = recvd - valid + (k - 1)
      BY <2>1 DEF BufferOK, BufHolds
    <3>2. QED
      BY <3>1, <1>1
  <2>3. QED
    BY <2>2 DEF EndsLine
<1>3. ASSUME NEW k \in ends PROVE e <= at(k) /\ k \in used + 2 .. valid
  <2>1. EndsLine(msg.text, at(k)) /\ at(k) \in Int /\ at(k) >= Pos + 2
    BY <1>1, <1>2
  <2>2. QED
    BY <2>1, <1>1
<1>4. LineEnd = IF ends = {} THEN 0 ELSE CHOOSE k \in ends : \A j \in ends : k <= j
  BY DEF LineEnd
<1>5. CASE e <= recvd
  <2> DEFINE f == used + (e - Pos)
  <2>1. f \in used + 2 .. valid /\ at(f) = e
    BY <1>1, <1>5
  <2>2. f \in ends
    BY <2>1, <1>2
  <2>3. \A j \in ends : f <= j
    <3>1. \A j \in ends : e <= at(j) /\ j \in Int
      BY <1>3
    <3>2. QED
      BY <3>1, <1>1
  <2>4. ends \subseteq Nat
    BY <1>1
  <2> HIDE DEF f, ends
  <2>5. (CHOOSE k \in ends : \A j \in ends : k <= j) = f
    <3> DEFINE m == CHOOSE k \in ends : \A j \in ends : k <= j
    <3>1. m \in ends /\ \A j \in ends : m <= j
      BY <2>2, <2>3
    <3>2. m <= f /\ f <= m /\ m \in Nat /\ f \in Nat
      BY <3>1, <2>2, <2>3, <2>4
    <3>3. QED
      BY <3>2
  <2>6. QED
    BY <2>2, <2>5, <1>4, <1>5 DEF f
<1>6. CASE ~(e <= recvd)
  <2>1. ends = {}
    <3>1. ASSUME NEW k \in ends PROVE FALSE
      <4>1. e <= at(k) /\ k \in used + 2 .. valid
        BY <1>3
      <4>2. QED
        BY <4>1, <1>1, <1>6
    <3>2. QED
      BY <3>1
  <2>2. QED
    BY <2>1, <1>4, <1>6
<1>7. QED
  BY <1>5, <1>6

(* n bytes of the buffer handed to the absorber, which are where the body  *)
(* continues.                                                              *)
LEMMA AbsorbKeepsPrefix ==
    ASSUME BufferOK, GotPrefix, bodyCB => phase = "open",
           got \in Seq(1..recvd), msg.body \in Seq(Nat),
           NEW o \in Nat, Given(o), NEW n \in 1..Unused, Absorb(n),
           o + n <= Len(msg.body),
           \A i \in 1..n : msg.body[o + i] = Pos + i,
           UNCHANGED <<msg, recvd, bodyCB>>
    PROVE  /\ GotPrefix' /\ got' \in Seq(1..recvd)
           /\ bodyCB => Len(got') = o + n
           /\ phase' = phase /\ (lastLen' = lastLen \/ lastLen' > 0)
<1>1. CASE ~bodyCB
  BY <1>1 DEF Absorb, absorber, GotPrefix
<1>2. CASE bodyCB
  <2> DEFINE data == SubSeq(buf, used + 1, used + n)
  <2>1. /\ recvd \in Nat /\ valid \in Nat /\ used \in 0..valid
        /\ Pos = recvd - valid + used /\ n \in Nat /\ used + n <= valid
    BY DEF BufferOK, valid, Pos, Unused
  <2>2. got' = got \o data /\ Len(got) = o /\ phase' = phase /\ lastLen' = n
        /\ phase = "open"
    BY <1>2 DEF Absorb, Given
  <2>3. /\ data \in Seq(1..recvd) /\ Len(data) = n
        /\ \A i \in 1..n : data[i] = buf[used + i]
    <3>1. used + 1 \in 1 .. Len(buf) + 1 /\ used + n \in used .. Len(buf)
      BY <2>1 DEF valid
    <3>2. buf \in Seq(1..recvd)
      BY DEF BufferOK
    <3>3. ASSUME NEW i \in used + 1 .. used + n PROVE buf[i] \in 1..recvd
      <4>1. i \in 1 .. Len(buf)
        BY <2>1 DEF valid
      <4>2. QED
        BY <4>1, <3>2, ElementOfSeq, Zenon
    <3>4. used + 1 \in Int /\ used + n \in Int
      BY <2>1
    <3>5. /\ data \in Seq(1..recvd)
          /\ Len(data) = IF used + 1 <= used + n
                           THEN (used + n) - (used + 1) + 1 ELSE 0
          /\ \A i \in 1 .. (used + n) - (used + 1) + 1 :
               data[i] = buf[(used + 1) + i - 1]
      BY <3>3, <3>4, SubSeqProperties, SMTT(30)
    <3> HIDE DEF data
    <3>6. (used + n) - (used + 1) + 1 = n /\ used + 1 <= used + n
      BY <2>1
    <3>7. \A i \in 1..n : (used + 1) + i - 1 = used + i
      BY <2>1
    <3>8. QED
      BY <3>5, <3>6, <3>7
  <2>4. ASSUME NEW i \in 1..n PROVE data[i] = msg.body[o + i]
    <3>1. used + i \in 1..valid
      BY <2>1
    <3>2. buf[used + i] = recvd - valid + (used + i)
      BY <3>1 DEF BufferOK, BufHolds
    <3>3. recvd - valid + (used + i) = Pos + i
      BY <2>1
    <3>4. QED
      BY <2>3, <3>2, <3>3
  <2> HIDE DEF data
  <2>5. /\ got' \in Seq(1..recvd) /\ Len(got') = o + n
        /\ \A i \in 1 .. o + n : got'[i] = IF i <= o THEN got[i]
                                                   ELSE data[i - o]
    <3>1. /\ got \o data \in Seq(1..recvd)
          /\ Len(got \o data) = Len(got) + Len(data)
          /\ \A i \in 1 .. Len(got) + Len(data) :
               (got \o data)[i] = IF i <= Len(got) THEN got[i]
                                   ELSE data[i - Len(got)]
      BY <2>3, ConcatProperties, Zenon
    <3>2. Len(got) = o /\ Len(data) = n
      BY <2>2, <2>3
    <3>3. QED
      BY <2>2, <3>1, <3>2, Zenon
  <2>6. ASSUME NEW i \in 1 .. o + n PROVE got'[i] = msg.body[i]
    <3>1. CASE i <= o
      <4>1. got'[i] = got[i] /\ i \in 1 .. Len(got)
        BY <2>2, <2>5, <3>1
      <4>2. QED
        BY <4>1 DEF GotPrefix
    <3>2. CASE i > o
      <4>1. i - o \in 1..n /\ o + (i - o) = i
        BY <2>1, <3>2
      <4>2. got'[i] = data[i - o]
        BY <2>1, <2>5, <3>2
      <4>3. data[i - o] = msg.body[o + (i - o)]
        BY <4>1, <2>4
      <4>4. QED
        BY <4>1, <4>2, <4>3
    <3>3. QED
      BY <3>1, <3>2
  <2>7. GotPrefix'
    BY <2>2, <2>5, <2>6 DEF GotPrefix
  <2>8. QED
    BY <2>1, <2>2, <2>5, <2>7
<1>3. QED
  BY <1>1, <1>2

-----------------------------------------------------------------------------
(* The invariant, and what it says of the request at the place reached.    *)

ProtocolInv ==
    /\ TypeOK /\ BufHolds /\ AbsorberInv /\ Framed /\ Progress /\ GotPrefix
    /\ WaitsOnlyForMissingBytes /\ DataCallsNotEmpty

LEMMA SeqWidens ==
    ASSUME NEW S, NEW T, S \subseteq T, NEW s \in Seq(S)
    PROVE  s \in Seq(T)
OBVIOUS

LEMMA BufferIsOK ==
    ASSUME TypeOK, BufHolds
    PROVE  /\ BufferOK
           /\ valid \in Nat /\ used \in Nat /\ Unused \in 0..valid
           /\ Pos \in Nat /\ Pos + Unused = recvd /\ valid <= recvd
<1>1. Len(msg.text) \in Nat
  BY MessageAssumption DEF TypeOK
<1>2. recvd \in Nat /\ buf \in Seq(1..recvd) /\ valid \in Nat /\ used \in 0..valid
      /\ valid <= BufSize
  BY <1>1 DEF TypeOK, valid
<1>3. valid <= recvd
  <2>1. CASE valid = 0
    BY <2>1, <1>2
  <2>2. CASE valid # 0
    <3>1. 1 \in 1..Len(buf)
      BY <2>2, <1>2 DEF valid
    <3>2. buf[1] \in 1..recvd
      BY <3>1, <1>2, ElementOfSeq, Zenon
    <3>3. buf[1] = recvd - valid + 1
      BY <3>1 DEF BufHolds, valid
    <3>4. QED
      BY <3>2, <3>3, <1>2
  <2>3. QED
    BY <2>1, <2>2
<1>4. QED
  BY <1>2, <1>3 DEF BufferOK, Unused, Pos

LEMMA MessageTypes ==
    ASSUME NEW m \in Messages
    PROVE  /\ m.text \in Seq(STRING) /\ Len(m.text) \in Nat
           /\ m.body \in Seq(Nat) /\ Len(m.body) \in Nat /\ m.need \in Nat
           /\ m.length \in Int /\ NoLength \in Int
           /\ Len(m.chunks) \in Nat
           /\ \A j \in 1 .. Len(m.chunks) :
                /\ m.chunks[j].at \in Nat /\ m.chunks[j].size \in Nat
                /\ m.chunks[j].off \in Nat
           /\ Smaller(HdrMax, Len(m.text)) \in Nat
           /\ HeaderLen(m) \in Nat
<1>1. /\ m.text \in Seq(STRING) /\ m.body \in Seq(Nat) /\ m.need \in Nat
      /\ m.length \in Int /\ NoLength \in Int
      /\ m.chunks \in Seq([at : Nat, size : Nat, off : Nat])
  BY MessageAssumption
<1>2. Len(m.text) \in Nat /\ Len(m.body) \in Nat /\ Len(m.chunks) \in Nat
  BY <1>1
<1>3. ASSUME NEW j \in 1 .. Len(m.chunks)
      PROVE  m.chunks[j] \in [at : Nat, size : Nat, off : Nat]
  BY <1>1, ElementOfSeq, Zenon
<1>4. Smaller(HdrMax, Len(m.text)) \in Nat
  BY <1>2, SizeAssumption DEF Smaller
<1>5. HeaderLen(m) \in Nat
  <2>1. \/ HeaderEnd(m.text, Smaller(HdrMax, Len(m.text))) = 0
        \/ HeaderEnd(m.text, Smaller(HdrMax, Len(m.text)))
             \in 4 .. Smaller(HdrMax, Len(m.text))
    BY <1>4, HeaderEndIs
  <2>2. QED
    BY <2>1, <1>4 DEF HeaderLen
<1>6. QED
  BY <1>1, <1>2, <1>3, <1>4, <1>5

(* The size line that begins at chunk j, or behind the last one.           *)
LEMMA SizeLineIs ==
    ASSUME NEW m \in Messages, HeaderLen(m) > 0, m.post, m.chunked,
           NEW j \in 1 .. Len(m.chunks) + 1
    PROVE  /\ ChunkStart(m, j) \in Nat /\ ChunkOff(m, j) \in Nat
           /\ ChunkStart(m, j) + 2 <= m.need
           /\ j <= Len(m.chunks) =>
                /\ SizeLine(m, ChunkStart(m, j), m.chunks[j].at, m.chunks[j].size)
                /\ m.chunks[j].at < m.need
                /\ m.chunks[j].off = ChunkOff(m, j)
           /\ j > Len(m.chunks) =>
                /\ SizeLine(m, ChunkStart(m, j), m.need, 0)
                /\ Len(m.body) = ChunkOff(m, j)
<1>1. IsChunked(m)
  BY MessageAssumption
<1>2. /\ Len(m.chunks) \in Nat /\ HeaderLen(m) \in Nat /\ m.need \in Nat
      /\ \A k \in 1 .. Len(m.chunks) :
           /\ m.chunks[k].at \in Nat /\ m.chunks[k].size \in Nat
           /\ m.chunks[k].off \in Nat
  BY MessageTypes
<1>3. ChunkStart(m, j) \in Nat /\ ChunkOff(m, j) \in Nat
  <2>1. CASE j = 1
    BY <2>1, <1>2 DEF ChunkStart, ChunkOff
  <2>2. CASE j # 1
    <3>1. j - 1 \in 1 .. Len(m.chunks)
      BY <2>2, <1>2
    <3> DEFINE p == m.chunks[j - 1]
    <3>2. p.at \in Nat /\ p.size \in Nat /\ p.off \in Nat
      BY <3>1, <1>2
    <3>3. /\ ChunkStart(m, j) = p.at + p.size + 2
          /\ ChunkOff(m, j) = p.off + p.size
      BY <2>2 DEF ChunkStart, ChunkOff
    <3> HIDE DEF p
    <3>4. QED
      BY <3>2, <3>3
  <2>3. QED
    BY <2>1, <2>2
<1>4. CASE j <= Len(m.chunks)
  <2> DEFINE c == m.chunks[j]
  <2>1. j \in 1 .. Len(m.chunks)
    BY <1>4, <1>2
  <2>2. /\ SizeLine(m, ChunkStart(m, j), c.at, c.size)
        /\ c.at + c.size + 2 < m.need /\ c.off = ChunkOff(m, j)
    BY <1>1, <2>1 DEF IsChunked
  <2>3. c.at \in ChunkStart(m, j) + 2 .. Len(m.text)
    BY <2>2 DEF SizeLine
  <2>4. c.at \in Nat /\ c.size \in Nat
    BY <1>2, <2>1
  <2> HIDE DEF c
  <2>5. ChunkStart(m, j) + 2 <= m.need /\ c.at < m.need
    BY <2>2, <2>3, <2>4, <1>2, <1>3
  <2>6. ~(j > Len(m.chunks))
    BY <2>1, <1>2
  <2>7. QED
    BY <2>2, <2>5, <2>6, <1>3 DEF c
<1>5. CASE j > Len(m.chunks)
  <2>1. j = Len(m.chunks) + 1 /\ ~(j <= Len(m.chunks))
    BY <1>5, <1>2
  <2>2. SizeLine(m, ChunkStart(m, j), m.need, 0) /\ Len(m.body) = ChunkOff(m, j)
    BY <1>1, <2>1 DEF IsChunked
  <2>3. m.need \in ChunkStart(m, j) + 2 .. Len(m.text)
    BY <2>2 DEF SizeLine
  <2>4. ChunkStart(m, j) + 2 <= m.need
    BY <2>3, <1>2, <1>3
  <2>5. QED
    BY <2>1, <2>2, <2>4, <1>3
<1>6. QED
  BY <1>4, <1>5, <1>2

LEMMA ChunkIs ==
    ASSUME NEW m \in Messages, HeaderLen(m) > 0, m.post, m.chunked,
           NEW j \in 1 .. Len(m.chunks)
    PROVE  LET c == m.chunks[j]
           IN  /\ c.at \in Nat /\ c.size \in Nat /\ c.off \in Nat
               /\ c.size > 0
               /\ EndsLine(m.text, c.at + c.size + 2)
               /\ c.at + c.size + 2 < m.need
               /\ c.off + c.size <= Len(m.body)
               /\ \A i \in 1 .. c.size : m.body[c.off + i] = c.at + i
<1>1. IsChunked(m)
  BY MessageAssumption
<1>2. QED
  BY <1>1, MessageTypes DEF IsChunked

LEMMA SizedIs ==
    ASSUME NEW m \in Messages, HeaderLen(m) > 0, m.post, ~m.chunked,
           m.length # NoLength, m.length > 0
    PROVE  /\ m.length \in Nat
           /\ m.need = HeaderLen(m) + m.length /\ Len(m.body) = m.length
           /\ \A i \in 1 .. m.length : m.body[i] = HeaderLen(m) + i
<1>1. IsSized(m)
  BY MessageAssumption
<1>2. QED
  BY <1>1, MessageTypes DEF IsSized

-----------------------------------------------------------------------------
(* Each action keeps the invariant.                                        *)

LEMMA InitProtocol == Init => ProtocolInv
<1> SUFFICES ASSUME Init PROVE ProtocolInv
  OBVIOUS
<1>1. msg \in Messages /\ recvd = 0 /\ buf = <<>> /\ used = 0 /\ hdrValid = 0
  BY DEF Init
<1>2. Len(msg.text) \in Nat /\ HeaderLen(msg) \in Nat /\ Len(msg.body) \in Nat
  BY <1>1, MessageTypes
<1>3. TypeOK
  <2>1. recvd \in 0 .. Len(msg.text) /\ hdrValid \in 0..HdrMax
    BY <1>1, <1>2, SizeAssumption
  <2>2. buf \in Seq(1..recvd) /\ valid <= BufSize /\ used \in 0..valid
    BY <1>1, SizeAssumption DEF valid
  <2>3. got \in Seq(1..recvd) /\ lastLen \in Int /\ bodySize \in Int
        /\ chunkRemain \in Int
    BY <1>1 DEF Init
  <2>4. QED
    BY <1>1, <2>1, <2>2, <2>3 DEF Init, TypeOK
<1>4. BufHolds /\ GotPrefix /\ Framed /\ DataCallsNotEmpty
  BY <1>1, <1>2 DEF Init, BufHolds, GotPrefix, Framed, DataCallsNotEmpty, valid
<1>5. HeaderEnd(msg.text, 0) = 0
  BY HeaderEndIs
<1>6. Progress
  <2>1. recvd - valid = hdrValid /\ hdrValid <= recvd
    <3>1. valid = 0
      BY <1>1 DEF valid
    <3>2. QED
      BY <1>1, <3>1
  <2>2. QED
    BY <1>1, <1>5, <2>1 DEF Init, Progress, HeaderOpen
<1>7. msg.need > 0
  BY <1>1, <1>2, MessageTypes, MessageAssumption
<1>8. QED
  BY <1>1, <1>3, <1>4, <1>6, <1>7, InitAbsorber
  DEF ProtocolInv, WaitsOnlyForMissingBytes

LEMMA AcceptProtocol ==
    ASSUME ProtocolInv, Accept, AbsorberInv'
    PROVE  ProtocolInv'
<1>1. /\ msg' \in Messages /\ recvd' = 0 /\ buf' = <<>> /\ used' = 0
      /\ hdrValid' = 0
  BY DEF Accept, InitReqMessage
<1>2. Len(msg'.text) \in Nat /\ HeaderLen(msg') \in Nat /\ Len(msg'.body) \in Nat
      /\ msg'.need \in Nat
  BY <1>1, MessageTypes
<1>3. TypeOK'
  <2>1. recvd' \in 0 .. Len(msg'.text) /\ hdrValid' \in 0..HdrMax
    BY <1>1, <1>2, SizeAssumption
  <2>2. buf' \in Seq(1..recvd') /\ valid' <= BufSize /\ used' \in 0..valid'
    BY <1>1, SizeAssumption DEF valid
  <2>3. got' \in Seq(1..recvd') /\ lastLen' \in Int /\ bodySize' \in Int
        /\ chunkRemain' \in Int
    BY <1>1 DEF Accept, InitReqMessage, ProtocolInv, TypeOK
  <2>4. QED
    BY <1>1, <2>1, <2>2, <2>3 DEF ProtocolInv, Accept, InitReqMessage, TypeOK
<1>4. BufHolds' /\ GotPrefix' /\ Framed' /\ DataCallsNotEmpty'
  BY <1>1, <1>2 DEF Accept, InitReqMessage, BufHolds, GotPrefix, Framed,
                    DataCallsNotEmpty, valid
<1>5. HeaderEnd(msg'.text, 0) = 0
  BY HeaderEndIs
<1>6. Progress'
  <2>1. recvd' - valid' = hdrValid' /\ hdrValid' <= recvd'
    <3>1. valid' = 0
      BY <1>1 DEF valid
    <3>2. QED
      BY <1>1, <3>1
  <2>2. QED
    BY <1>1, <1>5, <2>1 DEF Accept, InitReqMessage, Progress, HeaderOpen
<1>7. msg'.need > 0
  BY <1>1, <1>2, MessageAssumption
<1>8. QED
  BY <1>1, <1>3, <1>4, <1>6, <1>7 DEF ProtocolInv, WaitsOnlyForMissingBytes

(* The steps that move no byte.                                            *)
LEMMA MovingOnProtocol ==
    ASSUME ProtocolInv, AbsorberInv',
           \/ PeerCloses \/ ReadSockZero \/ Reap \/ GetBodyOther \/ Terminate
           \/ Reply \/ Close
    PROVE  ProtocolInv'
<1>1. /\ UNCHANGED <<msg, recvd, buf, used, hdrValid, protocolState, framing,
                     got, lastLen>>
      /\ peerClosed' \in BOOLEAN
  BY DEF PeerCloses, ReadSockZero, Reap, GetBodyOther, Terminate, Reply, Close,
         conn, absorber, ProtocolInv, TypeOK
<1>2. bodyCB' \in BOOLEAN
  BY DEF PeerCloses, ReadSockZero, Reap, GetBodyOther, Terminate, Reply, Close,
         ProtocolInv, TypeOK
<1>3. /\ phase' \in {"none", "open", "done", "aborted"}
      /\ phase' = "none" <=> phase = "none"
  BY DEF PeerCloses, ReadSockZero, Reap, GetBodyOther, Terminate, Reply, Close,
         absorber, EndAbsorber, ProtocolInv, TypeOK, AbsorberInv, AbsorberLife
<1>4. /\ pc' \in {"recv", "terminate", "reply", "close", "free"}
      /\ pc # "unfit"
  BY DEF PeerCloses, ReadSockZero, Reap, GetBodyOther, Terminate, Reply, Close
<1>5. TypeOK'
  BY <1>1, <1>2, <1>3, <1>4 DEF ProtocolInv, TypeOK, valid, framing
<1>6. BufHolds' /\ GotPrefix' /\ Framed' /\ DataCallsNotEmpty'
  BY <1>1, <1>3, <1>4 DEF ProtocolInv, BufHolds, GotPrefix, Framed,
                          DataCallsNotEmpty, valid, framing
<1>7. WaitsOnlyForMissingBytes'
  <2>1. pc' = "recv" => pc = "recv"
    BY DEF PeerCloses, ReadSockZero, Reap, GetBodyOther, Terminate, Reply, Close
  <2>2. QED
    BY <1>1, <2>1 DEF ProtocolInv, WaitsOnlyForMissingBytes
<1>8. Progress'
  <2>1. CASE PeerCloses
    <3>1. UNCHANGED <<msg, recvd, buf, used, hdrValid, protocolState, bodyType,
            bodySize, chunkState, chunkRemain, got, bodyCB, pc, phase>>
      BY <2>1 DEF PeerCloses, framing, absorber
    <3>2. QED
      BY <3>1 DEF ProtocolInv, Progress, HeaderOpen, HeaderDone, BodyOpen, Place,
           SizedPlace, ChunkPlace, HeaderPlace, DataPlace, TrailerPlace, Given,
           Pos, Unused, valid
  <2>2. CASE ReadSockZero \/ Reap \/ Terminate \/ Reply \/ Close
    <3>1. /\ pc' \in {"reply", "close", "free"}
          /\ pc' = "reply" => pc = "terminate"
          /\ pc \in {"recv", "terminate", "reply", "close"}
      BY <2>2 DEF ReadSockZero, Reap, Terminate, Reply, Close
    <3>2. protocolState # "eReq_Body" => phase' = "none"
      BY <1>3 DEF ProtocolInv, Progress
    <3>3. QED
      BY <1>1, <3>1, <3>2
      DEF ProtocolInv, Progress, HeaderOpen, HeaderDone, BodyOpen, valid, framing
  <2>3. CASE GetBodyOther
    <3>1. pc = "body" /\ pc' = "terminate" /\ bodyType \notin {"eTotalSize", "eChunked"}
      BY <2>3 DEF GetBodyOther
    <3>2. protocolState = "eReq_Body" /\ bodyType = "eUntilDisconnect"
      BY <3>1 DEF ProtocolInv, TypeOK, Progress, HeaderOpen, HeaderDone, BodyOpen
    <3>3. QED
      BY <1>1, <3>1, <3>2 DEF Progress, BodyOpen, framing
  <2>4. QED
    BY <2>1, <2>2, <2>3
<1>9. QED
  BY <1>5, <1>6, <1>7, <1>8 DEF ProtocolInv

LEMMA ReadSockProtocol ==
    ASSUME ProtocolInv, ReadSock, AbsorberInv'
    PROVE  ProtocolInv'
<1>1. /\ pc = "recv" /\ pc' = IF protocolState = "eReq_Header" THEN "header"
                                                             ELSE "body"
      /\ UNCHANGED <<msg, peerClosed, used, hdrValid, protocolState, bodyType,
                     bodySize, chunkState, chunkRemain, bodyCB, phase, got,
                     lastLen>>
  BY DEF ReadSock, conn, framing, absorber
<1>2. PICK n \in 1 .. Smaller(ReceiveSpace, Len(msg.text) - recvd) :
        /\ buf' = buf \o [i \in 1..n |-> recvd + i]
        /\ recvd' = recvd + n
  BY DEF ReadSock
<1>3. /\ BufferOK /\ valid \in Nat /\ Unused \in 0..valid /\ Pos \in Nat
      /\ Pos + Unused = recvd
  BY BufferIsOK DEF ProtocolInv
<1>4. /\ msg \in Messages /\ Len(msg.text) \in Nat /\ Len(msg.body) \in Nat
      /\ recvd \in 0 .. Len(msg.text) /\ BufSize \in Nat
  BY MessageTypes, SizeAssumption DEF ProtocolInv, TypeOK
<1>5. /\ n \in 1 .. BufSize - valid /\ n \in 1 .. Len(msg.text) - recvd
      /\ n \in Nat
  BY <1>3, <1>4 DEF Smaller, ReceiveSpace
<1>6. BufferOK' /\ valid' = valid + n /\ Unused' = Unused + n
  BY <1>1, <1>2, <1>3, <1>5, ReceivingKeepsBuffer
<1>7. recvd' = recvd + n /\ Unused' > 0
  BY <1>2, <1>3, <1>5, <1>6
<1>8. Pos' = Pos
  BY <1>3, <1>4, <1>5, <1>6, <1>7 DEF Pos
<1>9. protocolState \in {"eReq_Header", "eReq_Body"}
  BY <1>1 DEF ProtocolInv, TypeOK, Progress, HeaderDone
<1>10. TypeOK'
  <2>1. recvd' \in 0 .. Len(msg.text) /\ 1..recvd \subseteq 1..recvd'
    BY <1>4, <1>5, <1>7
  <2>2. got \in Seq(1..recvd')
    <3>1. got \in Seq(1..recvd)
      BY DEF ProtocolInv, TypeOK
    <3>2. QED
      BY <2>1, <3>1, SeqWidens
  <2>3. buf' \in Seq(1..recvd') /\ valid' <= BufSize /\ used' \in 0..valid'
    BY <1>6 DEF BufferOK
  <2>4. pc' \in {"header", "body"}
    BY <1>1
  <2>5. QED
    BY <1>1, <2>1, <2>2, <2>3, <2>4 DEF ProtocolInv, TypeOK
<1>11. BufHolds' /\ GotPrefix' /\ Framed' /\ DataCallsNotEmpty'
  BY <1>1, <1>6 DEF BufferOK, ProtocolInv, GotPrefix, Framed, DataCallsNotEmpty
<1>12. WaitsOnlyForMissingBytes'
  BY <1>1 DEF WaitsOnlyForMissingBytes
<1>13. Progress'
  <2>1. CASE protocolState = "eReq_Header"
    <3>1. valid' = valid + n
      BY <1>6
    <3>2. recvd' - valid' = recvd - valid
      BY <1>3, <1>4, <1>5, <1>7, <3>1
    <3>3. HeaderOpen /\ bodyType = "eNoBody" /\ phase = "none"
      BY <2>1 DEF ProtocolInv, Progress
    <3>4. hdrValid <= recvd'
      BY <3>3, <1>4, <1>5, <1>7 DEF HeaderOpen, ProtocolInv, TypeOK
    <3>5. HeaderOpen'
      BY <1>1, <2>1, <3>2, <3>3, <3>4 DEF HeaderOpen
    <3>6. QED
      BY <1>1, <2>1, <3>3, <3>5 DEF Progress
  <2>2. CASE protocolState = "eReq_Body"
    <3>1. BodyOpen /\ Place /\ pc' = "body"
      BY <1>1, <2>2 DEF ProtocolInv, Progress, BodyOpen
    <3>2. Place'
      BY <1>1, <1>7, <1>8, <3>1
      DEF Place, SizedPlace, ChunkPlace, HeaderPlace, DataPlace, TrailerPlace,
          Given
    <3>3. QED
      BY <1>1, <2>2, <3>1, <3>2 DEF BodyOpen, Progress
  <2>3. QED
    BY <1>9, <2>1, <2>2
<1>14. QED
  BY <1>10, <1>11, <1>12, <1>13 DEF ProtocolInv

(* TypeOK, taken apart the way the steps change it.                        *)
SlotTypes ==
    /\ msg \in Messages /\ recvd \in 0 .. Len(msg.text) /\ peerClosed \in BOOLEAN
    /\ protocolState \in {"eReq_Header", "eReq_HeaderDone", "eReq_Body"}
    /\ chunkState \in {"eChunkHeader", "eChunkBody", "eChunkTrailer"}
    /\ pc \in {"recv", "header", "callback", "body", "terminate", "reply",
               "close", "free"}
    /\ phase \in {"none", "open", "done", "aborted"}
    /\ bodyCB \in BOOLEAN

LEMMA HeaderProtocol ==
    ASSUME ProtocolInv, GetHeader, AbsorberInv'
    PROVE  ProtocolInv'
<1> DEFINE copied == Smaller(Unused, HdrMax - hdrValid)
           until  == HeaderEnd(msg.text, hdrValid + copied)
<1>1. /\ pc = "header" /\ Unused > 0
      /\ hdrValid' = hdrValid + copied
      /\ UNCHANGED <<msg, peerClosed, recvd, phase, got, lastLen>>
      /\ until > 0 => /\ ParseHeader /\ Consume(until - hdrValid)
                      /\ protocolState' = "eReq_HeaderDone"
                      /\ pc' = "callback" /\ bodyCB' = FALSE
      /\ ~(until > 0) => /\ Consume(copied) /\ pc' = "recv"
                         /\ UNCHANGED <<bodyType, bodySize, chunkState,
                                        chunkRemain, protocolState, bodyCB>>
  BY DEF GetHeader, conn, absorber, framing
<1>2. /\ BufferOK /\ valid \in Nat /\ Unused \in 0..valid /\ Pos \in Nat
      /\ Pos + Unused = recvd /\ valid <= recvd
  BY BufferIsOK DEF ProtocolInv
<1>3. /\ msg \in Messages /\ Len(msg.text) \in Nat /\ HeaderLen(msg) \in Nat
      /\ recvd \in 0 .. Len(msg.text) /\ HdrMax \in Nat /\ hdrValid \in 0..HdrMax
      /\ Smaller(HdrMax, Len(msg.text)) \in Nat /\ msg.need \in Nat
      /\ msg.length \in Int /\ NoLength \in Int /\ msg.post \in BOOLEAN
      /\ msg.chunked \in BOOLEAN
  BY MessageTypes, MessageAssumption, SizeAssumption DEF ProtocolInv, TypeOK
<1>4. /\ protocolState = "eReq_Header" /\ HeaderOpen /\ bodyType = "eNoBody"
      /\ phase = "none" /\ got = <<>> /\ bodyCB = FALSE
  BY <1>1 DEF ProtocolInv, AbsorberInv, NoneBeforeCallback, Progress, GotPrefix
<1>5. /\ copied \in 0..Unused /\ hdrValid + copied \in hdrValid..HdrMax
      /\ hdrValid + copied < HdrMax => copied = Unused
      /\ copied > 0 => hdrValid < HdrMax
  BY <1>2, <1>3 DEF Smaller
<1> HIDE DEF copied
<1>6. /\ hdrValid <= recvd
      /\ hdrValid < HdrMax => /\ used = 0 /\ recvd - valid = hdrValid
                              /\ Unused = valid
  BY <1>2, <1>4 DEF HeaderOpen, Unused
<1>7. hdrValid + copied <= recvd
  BY <1>2, <1>3, <1>5, <1>6
<1>8. /\ until = 0 \/ until \in hdrValid + 1 .. hdrValid + copied
      /\ until \in Nat
  <2>1. hdrValid \in Nat /\ hdrValid + copied \in Nat /\ hdrValid <= hdrValid + copied
    BY <1>2, <1>3, <1>5
  <2>2. HeaderEnd(msg.text, hdrValid) = 0
    BY <1>4 DEF HeaderOpen
  <2>3. until # 0 => until > hdrValid /\ until \in 4 .. hdrValid + copied
    BY <2>1, <2>2, HeaderEndStays, HeaderEndIs
  <2> HIDE DEF until
  <2>4. QED
    BY <2>1, <2>3
<1>9. until # 0 => until = HeaderLen(msg)
  <2>1. hdrValid + copied \in Nat /\ hdrValid + copied <= Smaller(HdrMax, Len(msg.text))
    BY <1>3, <1>5, <1>7 DEF Smaller
  <2>2. QED
    BY <2>1, <1>3, HeaderEndStays DEF HeaderLen
<1>10. ASSUME until # 0 PROVE ProtocolInv'
  <2>1. /\ ParseHeader /\ Consume(until - hdrValid)
        /\ protocolState' = "eReq_HeaderDone" /\ pc' = "callback"
        /\ bodyCB' = FALSE
    BY <1>1, <1>8, <1>10
  <2>2. until \in hdrValid + 1 .. hdrValid + copied /\ until = HeaderLen(msg)
    BY <1>8, <1>9, <1>10
  <2> HIDE DEF until
  <2>3. copied > 0 /\ until - hdrValid \in 0..valid
    BY <2>2, <1>2, <1>3, <1>5
  <2>4. used = 0 /\ recvd - valid = hdrValid
    BY <2>3, <1>5, <1>6
  <2>5. BufferOK' /\ Unused' = valid - (until - hdrValid)
    BY <1>1, <1>2, <2>1, <2>3, ConsumeKeepsBuffer
  <2>6. Pos' = HeaderLen(msg)
    <3>1. Pos' = recvd - (valid - (until - hdrValid))
      BY <1>1, <2>5 DEF Pos
    <3>2. QED
      BY <3>1, <2>2, <2>4, <1>2, <1>3, <1>8
  <2>7. HeaderLen(msg) > 0
    BY <2>2, <1>3
  <2>8. /\ bodyType' \in {"eNoBody", "eUntilDisconnect", "eTotalSize", "eChunked"}
        /\ bodySize' \in Int /\ chunkRemain' = chunkRemain
        /\ chunkState' = chunkState \/ chunkState' = "eChunkHeader"
        /\ bodyType' = "eChunked" => msg.chunked /\ chunkState' = "eChunkHeader"
        /\ bodyType' = "eTotalSize" =>
             /\ msg.length # NoLength /\ msg.length > 0 /\ ~msg.chunked
             /\ bodySize' = msg.length
        /\ bodyType' = "eUntilDisconnect" =>
             msg.length = NoLength /\ ~msg.chunked
        /\ bodyType' # "eNoBody" => msg.post
    BY <2>1, <1>3 DEF ParseHeader
  <2>9. TypeOK' /\ BufHolds'
    <3>1. SlotTypes'
      BY <1>1, <2>1, <2>8 DEF ProtocolInv, TypeOK, SlotTypes
    <3>2. hdrValid' \in 0..HdrMax /\ lastLen' \in Int /\ got' \in Seq(1..recvd')
          /\ chunkRemain' \in Int
      BY <1>1, <1>3, <1>5, <2>8 DEF ProtocolInv, TypeOK
    <3>3. QED
      BY <1>1, <3>1, <3>2, <2>5, <2>8 DEF SlotTypes, BufferOK, TypeOK
  <2>10. Framed'
    BY <1>1, <2>7, <2>8 DEF Framed
  <2>11. Progress'
    BY <1>1, <1>4, <2>1, <2>6, <2>8 DEF Progress, HeaderDone
  <2>12. GotPrefix' /\ DataCallsNotEmpty' /\ WaitsOnlyForMissingBytes'
    BY <1>1, <2>1 DEF ProtocolInv, GotPrefix, DataCallsNotEmpty,
                      WaitsOnlyForMissingBytes
  <2>13. QED
    BY <2>9, <2>10, <2>11, <2>12 DEF ProtocolInv
<1>11. ASSUME until = 0 PROVE ProtocolInv'
  <2>1. /\ Consume(copied) /\ pc' = "recv"
        /\ UNCHANGED <<bodyType, bodySize, chunkState, chunkRemain,
                       protocolState, bodyCB>>
    BY <1>1, <1>11
  <2>2. BufferOK' /\ Unused' = valid - copied
    BY <1>1, <1>2, <1>5, <2>1, ConsumeKeepsBuffer
  <2>3. HeaderEnd(msg.text, hdrValid') = 0
    BY <1>1, <1>11
  <2>4. TypeOK' /\ BufHolds'
    <3>1. SlotTypes'
      BY <1>1, <2>1 DEF ProtocolInv, TypeOK, SlotTypes
    <3>2. hdrValid' \in 0..HdrMax
      BY <1>1, <1>3, <1>5
    <3>3. QED
      BY <3>1, <3>2, <2>1, <2>2, <1>1
      DEF ProtocolInv, SlotTypes, BufferOK, TypeOK
  <2>5. Framed' /\ GotPrefix' /\ DataCallsNotEmpty'
    BY <1>1, <2>1 DEF ProtocolInv, Framed, GotPrefix, DataCallsNotEmpty
  <2>6. HeaderOpen'
    <3>1. ASSUME hdrValid' < HdrMax
          PROVE  used' = 0 /\ recvd' - valid' = hdrValid'
      <4>1. copied = Unused /\ hdrValid < HdrMax
        BY <3>1, <1>1, <1>2, <1>3, <1>5
      <4>2. copied = valid /\ recvd - valid = hdrValid
        BY <4>1, <1>6
      <4>3. buf' = <<>> /\ used' = 0
        BY <4>2, <2>1, <1>2 DEF Consume
      <4>4. valid' = 0
        BY <4>3 DEF valid
      <4>5. QED
        BY <4>2, <4>3, <4>4, <1>1, <1>2, <1>3
    <3>2. QED
      BY <3>1, <2>1, <2>3, <1>1, <1>7 DEF HeaderOpen
  <2>7. Progress'
    BY <2>1, <2>6, <1>1, <1>4 DEF Progress
  <2>8. recvd < msg.need
    <3>1. CASE HeaderLen(msg) = 0
      BY <3>1, <1>3, MessageAssumption
    <3>2. CASE HeaderLen(msg) # 0
      <4>1. msg.need >= HeaderLen(msg)
        BY <1>3, MessageAssumption
      <4>2. CASE hdrValid + copied < HdrMax
        <5>1. hdrValid + copied = recvd
          BY <4>2, <1>2, <1>3, <1>5, <1>6
        <5>2. recvd \in Nat /\ recvd <= Smaller(HdrMax, Len(msg.text))
          BY <5>1, <4>2, <1>2, <1>3 DEF Smaller
        <5>3. HeaderEnd(msg.text, recvd) = 0
          BY <5>1, <1>11
        <5>4. HeaderLen(msg) > recvd
          BY <3>2, <5>2, <5>3, <1>3, HeaderEndStays DEF HeaderLen
        <5>5. QED
          BY <4>1, <5>4, <1>3
      <4>3. CASE ~(hdrValid + copied < HdrMax)
        <5>1. hdrValid + copied = HdrMax
          BY <4>3, <1>2, <1>3, <1>5
        <5>2. HdrMax <= Len(msg.text)
          BY <5>1, <1>3, <1>7
        <5>3. Smaller(HdrMax, Len(msg.text)) = HdrMax
          BY <5>2, <1>3 DEF Smaller
        <5>4. HeaderLen(msg) = 0
          BY <5>1, <5>3, <1>11 DEF HeaderLen
        <5>5. QED
          BY <5>4, <3>2
      <4>4. QED
        BY <4>2, <4>3
    <3>3. QED
      BY <3>1, <3>2
  <2>9. WaitsOnlyForMissingBytes'
    BY <2>8, <1>1 DEF WaitsOnlyForMissingBytes
  <2>10. QED
    BY <2>4, <2>5, <2>7, <2>9 DEF ProtocolInv
<1>12. QED
  BY <1>10, <1>11

LEMMA CallbackProtocol ==
    ASSUME ProtocolInv, Callback, AbsorberInv'
    PROVE  ProtocolInv'
<1>1. /\ pc = "callback"
      /\ UNCHANGED <<msg, peerClosed, recvd, hdrValid, bodyType, bodySize,
                     chunkState, chunkRemain, got, lastLen>>
  BY DEF Callback, conn, framing
<1>2. /\ BufferOK /\ valid \in Nat /\ Unused \in 0..valid /\ Pos \in Nat
      /\ Pos + Unused = recvd /\ used \in 0..valid
  BY BufferIsOK DEF ProtocolInv, TypeOK
<1>3. /\ msg \in Messages /\ Len(msg.text) \in Nat /\ HeaderLen(msg) \in Nat
      /\ recvd \in 0 .. Len(msg.text) /\ msg.need \in Nat
      /\ Len(msg.chunks) \in Nat
  BY MessageTypes DEF ProtocolInv, TypeOK
<1>4. /\ protocolState = "eReq_HeaderDone" /\ HeaderDone /\ Framed
      /\ phase = "none" /\ got = <<>> /\ bodyCB = FALSE
  BY <1>1 DEF ProtocolInv, TypeOK, AbsorberInv, NoneBeforeCallback, Progress,
              HeaderOpen, BodyOpen, GotPrefix
<1>5. Framed' /\ GotPrefix' /\ DataCallsNotEmpty'
  <2>1. Len(msg.body) \in Nat
    BY <1>3, MessageTypes
  <2>2. QED
    BY <1>1, <1>4, <2>1 DEF ProtocolInv, Framed, GotPrefix, DataCallsNotEmpty
<1>6. CASE bodyType # "eNoBody"
  <2>1. /\ protocolState' = "eReq_Body" /\ bodyCB' \in BOOLEAN
        /\ phase' = IF bodyCB' THEN "open" ELSE phase
        /\ pc' = IF Unused = 0 THEN "recv" ELSE "body"
        /\ IF Unused = 0 THEN buf' = <<>> /\ used' = 0
                         ELSE UNCHANGED <<buf, used>>
    BY <1>6 DEF Callback
  <2>2. BufferOK' /\ Unused' = Unused
    <3>1. CASE Unused = 0
      <4>1. Consume(used) \/ (buf' = <<>> /\ used' = 0)
        BY <2>1, <3>1
      <4>2. used = valid
        BY <3>1, <1>2 DEF Unused
      <4>3. Consume(valid)
        BY <2>1, <3>1, <1>2 DEF Consume
      <4>4. BufferOK' /\ Unused' = valid - valid
        BY <4>3, <1>1, <1>2, ConsumeKeepsBuffer
      <4>5. QED
        BY <4>4, <3>1, <1>2
    <3>2. CASE Unused # 0
      BY <2>1, <3>2, <1>1, <1>2 DEF BufferOK, BufHolds, Unused, valid
    <3>3. QED
      BY <3>1, <3>2
  <2>3. Pos' = Pos /\ Pos = HeaderLen(msg)
    BY <1>1, <1>4, <2>2 DEF Pos, HeaderDone
  <2>4. TypeOK' /\ BufHolds'
    <3>1. SlotTypes'
      BY <1>1, <1>4, <2>1 DEF ProtocolInv, TypeOK, SlotTypes
    <3>2. QED
      BY <3>1, <2>2, <1>1
      DEF ProtocolInv, SlotTypes, BufferOK, TypeOK
  <2>5. Given(0)'
    BY <1>1, <1>4 DEF Given
  <2>6. bodyType = "eTotalSize" => SizedPlace'
    <3>1. SUFFICES ASSUME bodyType = "eTotalSize" PROVE SizedPlace'
      OBVIOUS
    <3>2. /\ msg.length \in Nat /\ msg.length > 0 /\ bodySize = msg.length
      BY <3>1, <1>1, <1>3, <1>4, MessageTypes DEF HeaderDone, Framed
    <3>3. msg.length - bodySize = 0 /\ HeaderLen(msg) + msg.length - bodySize = HeaderLen(msg)
      BY <3>2, <1>3
    <3>4. pc' = "body" => Unused' > 0
      BY <2>1, <2>2, <1>2
    <3>5. bodySize' \in 1 .. msg'.length
      BY <1>1, <3>2
    <3>6. QED
      BY <1>1, <2>3, <2>5, <3>3, <3>4, <3>5 DEF SizedPlace, Given
  <2>7. bodyType = "eChunked" => ChunkPlace'
    <3>1. SUFFICES ASSUME bodyType = "eChunked" PROVE ChunkPlace'
      OBVIOUS
    <3>2. 1 \in 1 .. Len(msg'.chunks) + 1
      BY <1>1, <1>3
    <3>3. ChunkStart(msg, 1) = HeaderLen(msg) /\ ChunkOff(msg, 1) = 0
      BY DEF ChunkStart, ChunkOff
    <3>4. HeaderPlace(1)'
      BY <1>1, <1>4, <3>1, <3>3, <2>3, <2>5 DEF HeaderPlace, HeaderDone, Given
    <3>5. QED
      BY <3>2, <3>4 DEF ChunkPlace
  <2>8. Progress'
    BY <2>1, <2>6, <2>7, <1>1, <1>6 DEF Progress, BodyOpen, Place
  <2>9. ASSUME pc' = "recv" PROVE recvd < msg.need
    <3>1. recvd = HeaderLen(msg)
      BY <2>1, <2>3, <2>9, <1>2
    <3>2. HeaderLen(msg) > 0 /\ msg.post
      BY <1>4, <1>6 DEF Framed
    <3>3. CASE bodyType = "eTotalSize"
      <4>1. msg.length > 0 /\ msg.length # NoLength /\ ~msg.chunked
        BY <3>3, <1>4 DEF Framed
      <4>2. msg.need = HeaderLen(msg) + msg.length /\ msg.length \in Nat
        BY <4>1, <3>2, <1>3, SizedIs
      <4>3. QED
        BY <3>1, <4>1, <4>2, <1>3
    <3>4. CASE bodyType = "eChunked"
      <4>1. msg.chunked
        BY <3>4, <1>4 DEF Framed
      <4>2. ChunkStart(msg, 1) + 2 <= msg.need
        BY <4>1, <3>2, <1>3, SizeLineIs
      <4>3. QED
        BY <4>2, <3>1, <1>3 DEF ChunkStart
    <3>5. CASE bodyType = "eUntilDisconnect"
      BY <3>2, <3>5, <1>3, <1>4, MessageAssumption DEF Framed
    <3>6. QED
      BY <3>3, <3>4, <3>5, <1>6 DEF ProtocolInv, TypeOK
  <2>10. WaitsOnlyForMissingBytes'
    BY <2>9, <1>1 DEF WaitsOnlyForMissingBytes
  <2>11. QED
    BY <2>4, <2>8, <2>10, <1>5 DEF ProtocolInv
<1>7. CASE bodyType = "eNoBody"
  <2>1. pc' = "reply" /\ UNCHANGED <<protocolState, bodyCB, phase, buf, used>>
    BY <1>7 DEF Callback
  <2>2. TypeOK' /\ BufHolds'
    BY <1>1, <2>1 DEF ProtocolInv, TypeOK, BufHolds, valid
  <2>3. Progress' /\ WaitsOnlyForMissingBytes'
    BY <1>1, <1>4, <2>1 DEF Progress, HeaderDone, WaitsOnlyForMissingBytes
  <2>4. QED
    BY <2>2, <2>3, <1>5 DEF ProtocolInv
<1>8. QED
  BY <1>6, <1>7

(* What a step on the body may assume, and what is left to show of it.     *)
BodyState ==
    /\ protocolState = "eReq_Body" /\ BodyOpen /\ Framed /\ BufferOK
    /\ HeaderLen(msg) > 0 /\ msg.post
    /\ msg \in Messages /\ recvd \in 0 .. Len(msg.text)

BodyStep ==
    /\ UNCHANGED <<msg, peerClosed, recvd, hdrValid, protocolState, bodyType,
                   bodyCB>>
    /\ BufferOK'
    /\ pc' \in {"recv", "body", "terminate"}
    /\ bodySize' \in Int /\ chunkRemain' \in Int
    /\ chunkState' \in {"eChunkHeader", "eChunkBody", "eChunkTrailer"}
    /\ GotPrefix' /\ got' \in Seq(1..recvd)
    /\ phase' = phase /\ (lastLen' = lastLen \/ lastLen' > 0) /\ lastLen' \in Int
    /\ pc' \in {"recv", "body"} => Place'
    /\ pc' = "terminate" => Given(Len(msg.body))'
    /\ pc' = "recv" => recvd < msg.need

LEMMA BodyIsOpen ==
    ASSUME ProtocolInv, pc = "body"
    PROVE  BodyState /\ Place
<1>1. protocolState = "eReq_Body"
  BY DEF ProtocolInv, TypeOK, Progress, HeaderOpen, HeaderDone, AbsorberInv,
         NoneBeforeCallback
<1>2. QED
  BY <1>1, BufferIsOK DEF ProtocolInv, TypeOK, Progress, BodyOpen, BodyState,
                          Framed

LEMMA BodyStepProtocol ==
    ASSUME ProtocolInv, pc = "body", BodyStep, AbsorberInv'
    PROVE  ProtocolInv'
<1>1. BodyState
  BY BodyIsOpen
<1>2. TypeOK'
  <2>1. buf' \in Seq(1..recvd') /\ valid' <= BufSize /\ used' \in 0..valid'
    BY DEF BodyStep, BufferOK
  <2>2. QED
    BY <2>1 DEF ProtocolInv, TypeOK, BodyStep
<1>3. BufHolds'
  BY DEF BodyStep, BufferOK
<1>4. Framed' /\ DataCallsNotEmpty' /\ WaitsOnlyForMissingBytes'
  BY DEF ProtocolInv, BodyStep, Framed, DataCallsNotEmpty,
         WaitsOnlyForMissingBytes
<1>5. Progress'
  BY <1>1 DEF BodyState, BodyStep, BodyOpen, Progress
<1>6. QED
  BY <1>2, <1>3, <1>4, <1>5 DEF ProtocolInv, BodyStep

LEMMA ContentProtocol ==
    ASSUME ProtocolInv, HandleContentSize, AbsorberInv'
    PROVE  ProtocolInv'
<1> DEFINE available == IF Unused > AsInt(bodySize) THEN AsInt(bodySize)
                                                    ELSE Unused
           o == msg.length - bodySize
<1>1. /\ pc = "body" /\ bodyType = "eTotalSize"
      /\ Absorb(available) /\ Consume(used + available)
      /\ bodySize' = bodySize - available
      /\ pc' = IF bodySize' <= 0 THEN "terminate" ELSE "recv"
      /\ UNCHANGED <<msg, peerClosed, recvd, hdrValid, protocolState, bodyType,
                     chunkState, chunkRemain, bodyCB>>
  BY DEF HandleContentSize, conn
<1>2. BodyState /\ SizedPlace
  BY <1>1, BodyIsOpen DEF Place
<1>3. /\ BufferOK /\ valid \in Nat /\ Unused \in 0..valid /\ Pos \in Nat
      /\ Pos + Unused = recvd /\ used \in 0..valid /\ Unused = valid - used
      /\ Pos = recvd - Unused
  BY BufferIsOK DEF ProtocolInv, TypeOK, Unused, Pos
<1>4. /\ msg.length > 0 /\ msg.length # NoLength /\ ~msg.chunked
      /\ HeaderLen(msg) \in Nat
  BY <1>1, <1>2, MessageTypes DEF BodyState, Framed
<1>5. /\ msg.length \in Nat
      /\ msg.need = HeaderLen(msg) + msg.length /\ Len(msg.body) = msg.length
      /\ \A i \in 1 .. msg.length : msg.body[i] = HeaderLen(msg) + i
  BY <1>2, <1>4, SizedIs DEF BodyState
<1>6. /\ bodySize \in 1 .. msg.length /\ Unused > 0
      /\ Pos = HeaderLen(msg) + msg.length - bodySize
      /\ Given(o)
  BY <1>1, <1>2 DEF SizedPlace
<1>7. /\ AsInt(bodySize) \in 1 .. bodySize
      /\ Unused < bodySize \/ AsInt(bodySize) = bodySize
  <2>1. bodySize \in Nat /\ AsInt(bodySize) > 0
    BY <1>5, <1>6 DEF HandleContentSize
  <2>2. CASE 2 * bodySize < IntMod
    BY <2>1, <2>2, AsIntFits
  <2>3. CASE ~(2 * bodySize < IntMod)
    <3>1. Unused < bodySize
      BY <2>1, <2>3, <1>3, SizeAssumption DEF BufferOK
    <3>2. QED
      BY <2>1, <3>1, AsIntBound
  <2>4. QED
    BY <2>2, <2>3
<1>8. /\ available \in 1..Unused /\ available <= bodySize
      /\ available < bodySize => Unused < bodySize
  <2>1. available = AsInt(bodySize) \/ available = Unused
    OBVIOUS
  <2>2. available <= Unused
    BY <1>3, <1>7
  <2>3. QED
    BY <1>3, <1>6, <1>7, <2>1, <2>2
<1>9. o \in Nat /\ o + available <= msg.length /\ Pos = HeaderLen(msg) + o
  <2>1. available \in Nat /\ available <= bodySize
    BY <1>3, <1>8
  <2> HIDE DEF available
  <2>2. /\ HeaderLen(msg) \in Nat /\ msg.length \in Nat
        /\ bodySize \in 1 .. msg.length
        /\ Pos = HeaderLen(msg) + msg.length - bodySize
    BY <1>4, <1>5, <1>6
  <2>3. QED
    BY <2>1, <2>2
<1> HIDE DEF available, o
<1>10. ASSUME NEW i \in 1..available PROVE msg.body[o + i] = Pos + i
  <2>1. o + i \in 1 .. msg.length
    BY <1>3, <1>5, <1>8, <1>9
  <2>2. msg.body[o + i] = HeaderLen(msg) + (o + i)
    BY <1>5, <2>1
  <2>3. QED
    BY <2>2, <1>3, <1>4, <1>8, <1>9
<1>11. /\ GotPrefix' /\ got' \in Seq(1..recvd)
       /\ bodyCB => Len(got') = o + available
       /\ phase' = phase /\ (lastLen' = lastLen \/ lastLen' > 0)
  <2>1. /\ GotPrefix /\ (bodyCB => phase = "open") /\ got \in Seq(1..recvd)
        /\ msg.body \in Seq(Nat)
    BY <1>2, MessageTypes
    DEF ProtocolInv, AbsorberInv, AbsorberLife, TypeOK, BodyState
  <2>2. o + available <= Len(msg.body)
    BY <1>5, <1>9
  <2>3. UNCHANGED <<msg, recvd, bodyCB>> /\ Absorb(available)
    BY <1>1
  <2>4. QED
    BY <1>3, <1>6, <1>8, <1>9, <1>10, <2>1, <2>2, <2>3, AbsorbKeepsPrefix, Zenon
<1>12. BufferOK' /\ Unused' = Unused - available
  <2>1. used + available \in 0..valid
    BY <1>3, <1>8
  <2>2. BufferOK' /\ Unused' = valid - (used + available)
    BY <2>1, <1>1, <1>3, ConsumeKeepsBuffer
  <2>3. QED
    BY <2>2, <1>3, <1>8
<1> DEFINE left == bodySize - available
<1>13. /\ left \in 0 .. msg.length /\ o + available = msg.length - left
       /\ HeaderLen(msg) + o + available = HeaderLen(msg) + msg.length - left
  <2>1. /\ available \in Nat /\ bodySize \in Nat /\ msg.length \in Nat
        /\ HeaderLen(msg) \in Nat
        /\ available <= bodySize /\ bodySize <= msg.length
    BY <1>3, <1>4, <1>5, <1>6, <1>8
  <2>2. QED
    BY <2>1 DEF o
<1>14. Pos' = HeaderLen(msg) + msg.length - bodySize'
  <2>1. Pos' = recvd - (Unused - available)
    BY <1>1, <1>12 DEF Pos
  <2>2. recvd - (Unused - available) = HeaderLen(msg) + o + available
    BY <1>3, <1>4, <1>8, <1>9
  <2>3. bodySize' = left
    BY <1>1
  <2>4. QED
    BY <2>1, <2>2, <2>3, <1>13
<1>15. bodySize' \in 0 .. msg.length /\ o + available = msg.length - bodySize'
  BY <1>1, <1>13
<1>16. lastLen' \in Int
  <2>1. available \in Int
    BY <1>3, <1>8
  <2>2. QED
    BY <1>1, <2>1 DEF Absorb, absorber, ProtocolInv, TypeOK
<1>17. CASE bodySize' = 0
  <2>1. pc' = "terminate" /\ (bodyCB => Len(got') = Len(msg.body))
    BY <1>1, <1>5, <1>11, <1>15, <1>17
  <2>2. BodyStep
    BY <2>1, <1>1, <1>11, <1>12, <1>15, <1>16
    DEF BodyStep, Given, ProtocolInv, TypeOK
  <2>3. QED
    BY <2>2, <1>1, BodyStepProtocol
<1>18. CASE bodySize' # 0
  <2>1. pc' = "recv" /\ bodySize' \in 1 .. msg.length
    BY <1>1, <1>15, <1>18
  <2>2. Unused < bodySize
    BY <1>15, <1>1, <1>3, <1>5, <1>6, <1>8, <1>18
  <2>3. recvd < msg.need
    BY <2>2, <1>3, <1>4, <1>5, <1>6
  <2>4. SizedPlace'
    BY <2>1, <1>1, <1>11, <1>14, <1>15 DEF SizedPlace, Given
  <2>5. Place'
    BY <2>4, <1>1 DEF Place
  <2>6. BodyStep
    BY <2>1, <2>3, <2>5, <1>1, <1>11, <1>12, <1>16
    DEF BodyStep, ProtocolInv, TypeOK
  <2>7. QED
    BY <2>6, <1>1, BodyStepProtocol
<1>19. QED
  BY <1>17, <1>18

(* Which chunk the parser is at.                                           *)
LEMMA ChunkedIs ==
    ASSUME BodyState, bodyType = "eChunked"
    PROVE  /\ msg.chunked /\ HeaderLen(msg) > 0 /\ msg.post
           /\ msg \in Messages /\ Len(msg.chunks) \in Nat
BY MessageTypes DEF BodyState, Framed

LEMMA ChunkHeaderProtocol ==
    ASSUME ProtocolInv, ChunkHeader, AbsorberInv'
    PROVE  ProtocolInv'
<1>1. /\ pc = "body" /\ bodyType = "eChunked" /\ chunkState = "eChunkHeader"
      /\ UNCHANGED <<msg, peerClosed, recvd, hdrValid, protocolState, bodyType,
                     bodySize, bodyCB, phase, got, lastLen>>
  BY DEF ChunkHeader, Chunk, conn, absorber
<1>2. BodyState /\ ChunkPlace
  BY <1>1, BodyIsOpen DEF Place
<1>3. /\ BufferOK /\ valid \in Nat /\ Unused \in 0..valid /\ Pos \in Nat
      /\ Pos + Unused = recvd /\ used \in 0..valid /\ Unused = valid - used
      /\ Pos = recvd - Unused /\ recvd \in Nat
  BY BufferIsOK DEF ProtocolInv, TypeOK, Unused, Pos
<1>4. PICK j \in 1 .. Len(msg.chunks) + 1 : HeaderPlace(j)
  BY <1>1, <1>2 DEF ChunkPlace, DataPlace, TrailerPlace
<1>5. /\ msg.chunked /\ HeaderLen(msg) > 0 /\ msg.post /\ msg \in Messages
      /\ Len(msg.chunks) \in Nat /\ msg.need \in Nat
  BY <1>1, <1>2, ChunkedIs, MessageTypes
<1> DEFINE last == j > Len(msg.chunks)
           e    == IF last THEN msg.need ELSE msg.chunks[j].at
           size == IF last THEN 0 ELSE msg.chunks[j].size
<1>6. Pos = ChunkStart(msg, j) /\ Given(ChunkOff(msg, j))
  BY <1>4 DEF HeaderPlace
<1>7. ~last => /\ j \in 1 .. Len(msg.chunks) /\ msg.chunks[j].at \in Nat
               /\ msg.chunks[j].size \in Nat /\ msg.chunks[j].size > 0
               /\ msg.chunks[j].off = ChunkOff(msg, j)
               /\ ChunkOff(msg, j) \in Nat
  BY <1>5, SizeLineIs, ChunkIs
<1>8. /\ SizeLine(msg, Pos, e, size) /\ e <= msg.need /\ e \in Nat
      /\ size \in Nat /\ (last <=> size = 0)
      /\ last => Len(msg.body) = ChunkOff(msg, j)
  <2>1. CASE last
    BY <2>1, <1>5, <1>6, SizeLineIs
  <2>2. CASE ~last
    BY <2>2, <1>5, <1>6, <1>7, SizeLineIs
  <2>3. QED
    BY <2>1, <2>2
<1> HIDE DEF e, size, last
<1>9. /\ e >= Pos + 2 /\ EndsLine(msg.text, e)
      /\ \A k \in Pos + 2 .. e - 1 : ~EndsLine(msg.text, k)
      /\ StrToL(SubSeq(msg.text, Pos + 1, e - 2)) = size
  BY <1>3, <1>8 DEF SizeLine
<1>10. LineEnd = IF e <= recvd THEN used + (e - Pos) ELSE 0
  BY <1>3, <1>8, <1>9, LineEndIs
<1>11. GotPrefix' /\ got' \in Seq(1..recvd) /\ lastLen' \in Int
  BY <1>1 DEF ProtocolInv, GotPrefix, TypeOK
<1>12. CASE e <= recvd
  <2> DEFINE line == [i \in 1 .. LineEnd - 2 - used |-> msg.text[buf[used + i]]]
  <2>1. LineEnd = used + (e - Pos) /\ LineEnd > 0 /\ LineEnd \in 0..valid
    BY <1>3, <1>8, <1>9, <1>10, <1>12
  <2>2. /\ used' = LineEnd /\ buf' = buf
        /\ IF StrToL(line) <= 0
             THEN pc' = "terminate" /\ UNCHANGED <<chunkRemain, chunkState>>
             ELSE /\ chunkRemain' = StrToL(line)
                  /\ chunkState' = "eChunkBody" /\ pc' = "body"
    BY <2>1 DEF ChunkHeader
  <2>3. line = SubSeq(msg.text, Pos + 1, e - 2)
    <3>1. LineEnd - 2 - used = e - 2 - Pos /\ e - 2 - Pos \in Nat
      BY <2>1, <1>3, <1>8, <1>9
    <3>2. SubSeq(msg.text, Pos + 1, e - 2)
            = [i \in 1 .. e - 2 - Pos |-> msg.text[Pos + i]]
      BY <1>3, <1>8, <1>9
    <3>3. ASSUME NEW i \in 1 .. e - 2 - Pos PROVE buf[used + i] = Pos + i
      <4>1. used + i \in 1..valid
        BY <3>1, <2>1, <1>3, <1>8
      <4>2. buf[used + i] = recvd - valid + (used + i)
        BY <4>1, <1>3 DEF BufferOK, BufHolds
      <4>3. QED
        BY <4>2, <1>3
    <3>4. QED
      BY <3>1, <3>2, <3>3
  <2>4. StrToL(line) = size
    BY <2>3, <1>9
  <2> HIDE DEF line
  <2>5. BufferOK' /\ Unused' = valid - LineEnd
    BY <2>1, <2>2, <1>1, <1>3 DEF BufferOK, BufHolds, Unused, valid
  <2>6. Pos' = e
    <3>1. Pos' = recvd - (valid - LineEnd)
      BY <2>5, <1>1 DEF Pos
    <3>2. QED
      BY <3>1, <2>1, <1>3, <1>8
  <2>7. CASE last
    <3>1. pc' = "terminate" /\ UNCHANGED <<chunkRemain, chunkState>>
      BY <2>2, <2>4, <2>7, <1>8
    <3>2. Given(Len(msg.body))'
      BY <2>7, <1>1, <1>6, <1>8 DEF Given
    <3>3. BodyStep
      BY <3>1, <3>2, <2>5, <1>1, <1>11 DEF BodyStep, ProtocolInv, TypeOK
    <3>4. QED
      BY <3>3, <1>1, BodyStepProtocol
  <2>8. CASE ~last
    <3> DEFINE c == msg.chunks[j]
    <3>1. /\ e = c.at /\ size = c.size /\ j \in 1 .. Len(msg.chunks)
          /\ c.at \in Nat /\ c.size \in Nat /\ c.size > 0
          /\ c.off = ChunkOff(msg, j) /\ c.off \in Nat
      BY <2>8, <1>7 DEF e, size
    <3>2. pc' = "body" /\ chunkRemain' = c.size /\ chunkState' = "eChunkBody"
      BY <3>1, <2>2, <2>4
    <3>3. msg' = msg
      BY <1>1
    <3> HIDE DEF c
    <3>4. c.at + c.size - c.size = c.at /\ c.off + c.size - c.size = c.off
          /\ c.size \in 1 .. c.size
      BY <3>1
    <3>5. (bodyCB' => Len(got') = c.off)
      BY <3>1, <1>1, <1>6 DEF Given
    <3>6. DataPlace(msg.chunks[j])'
      BY <3>1, <3>2, <3>3, <3>4, <3>5, <2>6 DEF DataPlace, Given, c
    <3>7. Place'
      BY <3>1, <3>3, <3>6, <1>1 DEF Place, ChunkPlace
    <3>8. BodyStep
      BY <3>1, <3>2, <3>7, <2>5, <1>1, <1>11 DEF BodyStep, ProtocolInv, TypeOK
    <3>9. QED
      BY <3>8, <1>1, BodyStepProtocol
  <2>9. QED
    BY <2>7, <2>8
<1>13. CASE ~(e <= recvd)
  <2>1. NoLineYet /\ pc' = "recv" /\ UNCHANGED <<chunkRemain, chunkState>>
    BY <1>10, <1>13 DEF ChunkHeader
  <2>2. BufferOK' /\ Unused' = Unused
    BY <2>1, <1>1, <1>3, WaitingKeepsBuffer
  <2>3. Pos' = Pos /\ recvd < msg.need
    BY <2>2, <1>1, <1>3, <1>5, <1>8, <1>13 DEF Pos
  <2>4. Place'
    BY <2>1, <2>3, <1>1, <1>4 DEF Place, ChunkPlace, HeaderPlace, Given
  <2>5. BodyStep
    BY <2>1, <2>2, <2>3, <2>4, <1>1, <1>11 DEF BodyStep, ProtocolInv, TypeOK
  <2>6. QED
    BY <2>5, <1>1, BodyStepProtocol
<1>14. QED
  BY <1>12, <1>13

LEMMA ChunkTrailerProtocol ==
    ASSUME ProtocolInv, ChunkTrailer, AbsorberInv'
    PROVE  ProtocolInv'
<1>1. /\ pc = "body" /\ bodyType = "eChunked" /\ chunkState = "eChunkTrailer"
      /\ UNCHANGED <<msg, peerClosed, recvd, hdrValid, protocolState, bodyType,
                     bodySize, chunkRemain, bodyCB, phase, got, lastLen>>
  BY DEF ChunkTrailer, Chunk, conn, absorber
<1>2. BodyState /\ ChunkPlace
  BY <1>1, BodyIsOpen DEF Place
<1>3. /\ BufferOK /\ valid \in Nat /\ Unused \in 0..valid /\ Pos \in Nat
      /\ Pos + Unused = recvd /\ used \in 0..valid /\ Unused = valid - used
      /\ Pos = recvd - Unused /\ recvd \in Nat
  BY BufferIsOK DEF ProtocolInv, TypeOK, Unused, Pos
<1>4. PICK j \in 1 .. Len(msg.chunks) : TrailerPlace(msg.chunks[j])
  BY <1>1, <1>2 DEF ChunkPlace, DataPlace, HeaderPlace
<1>5. /\ msg.chunked /\ HeaderLen(msg) > 0 /\ msg.post /\ msg \in Messages
      /\ Len(msg.chunks) \in Nat /\ msg.need \in Nat
  BY <1>1, <1>2, ChunkedIs, MessageTypes
<1> DEFINE c == msg.chunks[j]
           e == c.at + c.size + 2
<1>6. /\ c.at \in Nat /\ c.size \in Nat /\ c.off \in Nat
      /\ EndsLine(msg.text, e) /\ e < msg.need
  BY <1>5, ChunkIs
<1>7. Pos = c.at + c.size /\ Given(c.off + c.size)
  BY <1>4 DEF TrailerPlace
<1>8. e \in Nat /\ e = Pos + 2
  BY <1>6, <1>7
<1>9. j + 1 \in 1 .. Len(msg.chunks) + 1 /\ j + 1 # 1 /\ (j + 1) - 1 = j
  BY <1>5
<1>10. ChunkStart(msg, j + 1) = e /\ ChunkOff(msg, j + 1) = c.off + c.size
  BY <1>9 DEF ChunkStart, ChunkOff
<1> HIDE DEF e, c
<1>11. LineEnd = IF e <= recvd THEN used + (e - Pos) ELSE 0
  <2>1. e >= Pos + 2 /\ \A k \in Pos + 2 .. e - 1 : ~EndsLine(msg.text, k)
    BY <1>3, <1>8
  <2>2. QED
    BY <2>1, <1>3, <1>6, <1>8, LineEndIs
<1>12. GotPrefix' /\ got' \in Seq(1..recvd) /\ lastLen' \in Int
  BY <1>1 DEF ProtocolInv, GotPrefix, TypeOK
<1>13. CASE e <= recvd
  <2>1. LineEnd = used + (e - Pos) /\ LineEnd > 0 /\ LineEnd \in 0..valid
    BY <1>3, <1>8, <1>11, <1>13
  <2>2. used' = LineEnd /\ buf' = buf /\ chunkState' = "eChunkHeader" /\ pc' = "body"
    BY <2>1 DEF ChunkTrailer
  <2>3. BufferOK' /\ Unused' = valid - LineEnd
    BY <2>1, <2>2, <1>1, <1>3 DEF BufferOK, BufHolds, Unused, valid
  <2>4. Pos' = e
    <3>1. Pos' = recvd - (valid - LineEnd)
      BY <2>3, <1>1 DEF Pos
    <3>2. QED
      BY <3>1, <2>1, <1>3, <1>8
  <2>5. HeaderPlace(j + 1)'
    BY <2>2, <2>4, <1>1, <1>7, <1>10 DEF HeaderPlace, Given
  <2>6. Place'
    BY <2>5, <1>1, <1>9 DEF Place, ChunkPlace
  <2>7. BodyStep
    BY <2>2, <2>3, <2>6, <1>1, <1>12 DEF BodyStep, ProtocolInv, TypeOK
  <2>8. QED
    BY <2>7, <1>1, BodyStepProtocol
<1>14. CASE ~(e <= recvd)
  <2>1. NoLineYet /\ pc' = "recv" /\ UNCHANGED chunkState
    BY <1>11, <1>14 DEF ChunkTrailer
  <2>2. BufferOK' /\ Unused' = Unused
    BY <2>1, <1>1, <1>3, WaitingKeepsBuffer
  <2>3. Pos' = Pos /\ recvd < msg.need
    BY <2>2, <1>1, <1>3, <1>5, <1>6, <1>8, <1>14 DEF Pos
  <2>4. Place'
    BY <2>1, <2>3, <1>1, <1>4 DEF Place, ChunkPlace, TrailerPlace, Given
  <2>5. BodyStep
    BY <2>1, <2>2, <2>3, <2>4, <1>1, <1>12 DEF BodyStep, ProtocolInv, TypeOK
  <2>6. QED
    BY <2>5, <1>1, BodyStepProtocol
<1>15. QED
  BY <1>13, <1>14

LEMMA ChunkBodyProtocol ==
    ASSUME ProtocolInv, ChunkBody, AbsorberInv'
    PROVE  ProtocolInv'
<1>1. /\ pc = "body" /\ bodyType = "eChunked" /\ chunkState = "eChunkBody"
      /\ UNCHANGED <<msg, peerClosed, recvd, hdrValid, protocolState, bodyType,
                     bodySize, bodyCB>>
  BY DEF ChunkBody, Chunk, conn
<1>2. BodyState /\ ChunkPlace
  BY <1>1, BodyIsOpen DEF Place
<1>3. /\ BufferOK /\ valid \in Nat /\ Unused \in 0..valid /\ Pos \in Nat
      /\ Pos + Unused = recvd /\ used \in 0..valid /\ Unused = valid - used
      /\ Pos = recvd - Unused /\ recvd \in Nat
  BY BufferIsOK DEF ProtocolInv, TypeOK, Unused, Pos
<1>4. PICK j \in 1 .. Len(msg.chunks) : DataPlace(msg.chunks[j])
  BY <1>1, <1>2 DEF ChunkPlace, TrailerPlace, HeaderPlace
<1>5. /\ msg.chunked /\ HeaderLen(msg) > 0 /\ msg.post /\ msg \in Messages
      /\ Len(msg.chunks) \in Nat /\ msg.need \in Nat
  BY <1>1, <1>2, ChunkedIs, MessageTypes
<1> DEFINE at == msg.chunks[j].at
           size == msg.chunks[j].size
           off == msg.chunks[j].off
           available == IF Unused > AsInt(chunkRemain) THEN AsInt(chunkRemain)
                                                       ELSE Unused
           o == off + size - chunkRemain
           left == chunkRemain - available
<1>6. /\ at \in Nat /\ size \in Nat /\ off \in Nat
      /\ at + size + 2 < msg.need
      /\ off + size <= Len(msg.body)
  BY <1>5, ChunkIs
<1>7. \A i \in 1 .. size : msg.body[off + i] = at + i
  BY <1>5, ChunkIs
<1>8. Given(o)
  BY <1>4 DEF DataPlace
<1>9. chunkRemain \in 1 .. size /\ Pos = at + size - chunkRemain
  BY <1>4 DEF DataPlace
<1> HIDE DEF at, size, off
<1>10. CASE Unused = 0
  <2>1. /\ pc' = "recv"
        /\ UNCHANGED <<buf, used, chunkRemain, chunkState, phase, got, lastLen>>
    BY <1>10 DEF ChunkBody, absorber
  <2>2. BufferOK' /\ Unused' = Unused
    BY <2>1, <1>1, <1>3 DEF BufferOK, BufHolds, Unused, valid
  <2>3. Pos' = Pos
    BY <2>2, <1>1 DEF Pos
  <2>4. recvd < msg.need
    BY <1>3, <1>5, <1>6, <1>9, <1>10
  <2>5. GotPrefix' /\ got' \in Seq(1..recvd) /\ lastLen' \in Int
    BY <2>1, <1>1 DEF ProtocolInv, GotPrefix, TypeOK
  <2>6. Place'
    BY <2>1, <2>3, <1>1, <1>4 DEF Place, ChunkPlace, DataPlace, Given
  <2>7. BodyStep
    BY <2>1, <2>2, <2>4, <2>5, <2>6, <1>1 DEF BodyStep, ProtocolInv, TypeOK
  <2>8. QED
    BY <2>7, <1>1, BodyStepProtocol
<1>11. CASE Unused # 0
  <2>1. /\ Absorb(available) /\ chunkRemain' = left
        /\ chunkState' = IF left <= 0 THEN "eChunkTrailer" ELSE chunkState
        /\ Consume(used + available)
        /\ pc' = IF used + available = valid THEN "recv" ELSE "body"
    BY <1>11 DEF ChunkBody
  <2>2. AsInt(chunkRemain) \in 1 .. chunkRemain
    <3>1. chunkRemain \in Nat /\ AsInt(chunkRemain) > 0
      BY <1>6, <1>9, <1>11 DEF ChunkBody
    <3>2. QED
      BY <3>1, AsIntBound
  <2>3. /\ available \in 1..Unused /\ available <= chunkRemain
        /\ available \in Nat /\ chunkRemain \in Nat /\ chunkRemain <= size
    BY <2>2, <1>3, <1>6, <1>9, <1>11
  <2> HIDE DEF available
  <2>4. /\ left \in 0 .. size /\ o + available = off + size - left
        /\ at + size - left = Pos + available
        /\ o \in Nat /\ o + available <= off + size
    BY <2>3, <1>3, <1>6, <1>9
  <2>5. ASSUME NEW i \in 1..available PROVE msg.body[o + i] = Pos + i
    <3> DEFINE k == size - chunkRemain + i
    <3>1. k \in 1 .. size /\ o + i = off + k /\ Pos + i = at + k
      BY <2>3, <1>3, <1>6, <1>9
    <3> HIDE DEF k, o
    <3>2. msg.body[off + k] = at + k
      BY <3>1, <1>7
    <3>3. QED
      BY <3>1, <3>2
  <2> HIDE DEF o, left
  <2>6. /\ GotPrefix' /\ got' \in Seq(1..recvd)
        /\ bodyCB => Len(got') = o + available
        /\ phase' = phase /\ (lastLen' = lastLen \/ lastLen' > 0)
    <3>1. /\ GotPrefix /\ (bodyCB => phase = "open") /\ got \in Seq(1..recvd)
          /\ msg.body \in Seq(Nat) /\ Len(msg.body) \in Nat
      BY <1>5, MessageTypes
      DEF ProtocolInv, AbsorberInv, AbsorberLife, TypeOK
    <3>2. o + available <= Len(msg.body)
      BY <2>3, <2>4, <3>1, <1>6
    <3>3. UNCHANGED <<msg, recvd, bodyCB>> /\ Absorb(available)
      BY <2>1, <1>1
    <3>4. QED
      BY <1>3, <1>8, <2>3, <2>4, <2>5, <3>1, <3>2, <3>3, AbsorbKeepsPrefix,
         Zenon
  <2>7. BufferOK' /\ Unused' = Unused - available
    <3>1. used + available \in 0..valid
      BY <2>3, <1>3
    <3>2. BufferOK' /\ Unused' = valid - (used + available)
      BY <3>1, <2>1, <1>1, <1>3, ConsumeKeepsBuffer
    <3>3. QED
      BY <3>2, <2>3, <1>3
  <2>8. Pos' = at + size - left
    <3>1. Pos' = recvd - (Unused - available)
      BY <2>7, <1>1 DEF Pos
    <3>2. recvd - (Unused - available) = Pos + available
      BY <2>3, <1>3
    <3>3. QED
      BY <3>1, <3>2, <2>4
  <2>9. lastLen' \in Int
    BY <2>1, <2>3 DEF Absorb, absorber, ProtocolInv, TypeOK
  <2>10. ASSUME pc' = "recv" PROVE recvd < msg.need
    <3>1. used + available = valid
      BY <2>1, <2>10
    <3>2. Unused' = 0
      BY <3>1, <2>3, <2>7, <1>3
    <3>3. recvd = at + size - left
      BY <3>2, <2>8, <1>1, <1>3 DEF Pos
    <3>4. QED
      BY <3>3, <2>4, <1>3, <1>5, <1>6
  <2>11. Place'
    <3>1. CASE left = 0
      <4>1. chunkState' = "eChunkTrailer"
        BY <2>1, <3>1
      <4>2. Pos' = at + size /\ (bodyCB' => Len(got') = off + size)
        BY <2>4, <2>6, <2>8, <3>1, <1>1, <1>6
      <4>3. TrailerPlace(msg.chunks[j])'
        BY <4>1, <4>2, <1>1 DEF TrailerPlace, Given, at, size, off
      <4>4. QED
        BY <4>3, <1>1 DEF Place, ChunkPlace
    <3>2. CASE left # 0
      <4>1. left \in 1 .. size /\ ~(left <= 0)
        BY <2>4, <3>2, <1>6
      <4>2. chunkState' = "eChunkBody" /\ chunkRemain' = left
        BY <2>1, <4>1, <1>1
      <4>3. bodyCB' => Len(got') = off + size - left
        BY <2>4, <2>6, <1>1
      <4>4. DataPlace(msg.chunks[j])'
        BY <4>1, <4>2, <4>3, <2>8, <1>1 DEF DataPlace, Given, at, size, off
      <4>5. QED
        BY <4>4, <1>1 DEF Place, ChunkPlace
    <3>3. QED
      BY <3>1, <3>2
  <2>12. BodyStep
    <3>1. chunkRemain' \in Int
      BY <2>1, <2>4, <1>6
    <3>2. pc' \in {"recv", "body"} /\ chunkState' \in {"eChunkBody", "eChunkTrailer"}
      BY <2>1, <1>1
    <3>3. QED
      BY <3>1, <3>2, <2>6, <2>7, <2>9, <2>10, <2>11, <1>1
      DEF BodyStep, ProtocolInv, TypeOK
  <2>13. QED
    BY <2>12, <1>1, BodyStepProtocol
<1>12. QED
  BY <1>10, <1>11

(* A data call whose length does not fit is made with more bytes to come   *)
(* than an int can count.                                                  *)
LEMMA UnfitProtocol ==
    ASSUME ProtocolInv, ContentSizeUnfit \/ ChunkUnfit, AbsorberInv'
    PROVE  ProtocolInv'
<1>1. /\ pc = "body" /\ pc' = "unfit"
      /\ UNCHANGED <<msg, peerClosed, recvd, buf, used, hdrValid, protocolState,
                     bodyType, bodySize, chunkState, chunkRemain, bodyCB, phase,
                     got>>
  BY DEF ContentSizeUnfit, ChunkUnfit, Chunk, Unfit, conn, framing
<1>2. BodyState /\ Place
  BY <1>1, BodyIsOpen
<1>3. /\ Remaining \in Nat \ {0} /\ AsInt(Remaining) <= 0
      /\ lastLen' = AsInt(Remaining) \/ lastLen' = lastLen
  <2>1. CASE ContentSizeUnfit
    <3>1. bodyType = "eTotalSize" /\ SizedPlace
      BY <1>2, <2>1 DEF ContentSizeUnfit, Place
    <3>2. bodySize \in 1 .. msg.length /\ msg.length \in Int
      BY <1>2, <3>1, MessageTypes DEF SizedPlace, BodyState
    <3>3. bodySize \in Nat \ {0}
      BY <3>2
    <3>4. QED
      BY <2>1, <3>1, <3>3 DEF ContentSizeUnfit, Unfit, Remaining
  <2>2. CASE ChunkUnfit
    <3>1. bodyType = "eChunked" /\ chunkState = "eChunkBody" /\ ChunkPlace
      BY <1>2, <2>2 DEF ChunkUnfit, Chunk, Place
    <3>2. PICK j \in 1 .. Len(msg.chunks) : DataPlace(msg.chunks[j])
      BY <3>1 DEF ChunkPlace, TrailerPlace, HeaderPlace
    <3>3. /\ msg.chunked /\ HeaderLen(msg) > 0 /\ msg.post
          /\ msg \in Messages /\ Len(msg.chunks) \in Nat
      BY <1>2, <3>1, ChunkedIs
    <3>4. msg.chunks[j].size \in Nat
      BY <3>3, ChunkIs
    <3>5. chunkRemain \in Nat \ {0}
      BY <3>2, <3>4 DEF DataPlace
    <3>6. QED
      BY <2>2, <3>1, <3>5 DEF ChunkUnfit, Unfit, Remaining
  <2>3. QED
    BY <2>1, <2>2
<1>4. 2 * Remaining >= IntMod
  <2>1. ~(2 * Remaining < IntMod)
    BY <1>3, AsIntFits
  <2>2. QED
    BY <1>3, <2>1, SizeAssumption
<1>5. lastLen' \in Int
  BY <1>3, AsIntBound DEF ProtocolInv, TypeOK
<1>6. TypeOK'
  BY <1>1, <1>5 DEF ProtocolInv, TypeOK, valid
<1>7. DataCallsNotEmpty'
  BY <1>1, <1>4 DEF DataCallsNotEmpty, Remaining
<1>8. BufHolds' /\ GotPrefix' /\ Framed' /\ WaitsOnlyForMissingBytes'
  BY <1>1 DEF ProtocolInv, BufHolds, GotPrefix, Framed, valid,
              WaitsOnlyForMissingBytes
<1>9. Progress'
  BY <1>1, <1>2 DEF BodyState, BodyOpen, Progress
<1>10. QED
  BY <1>6, <1>7, <1>8, <1>9 DEF ProtocolInv

LEMMA ProtocolStep == ProtocolInv /\ [Next]_vars => ProtocolInv'
<1> SUFFICES ASSUME ProtocolInv, [Next]_vars PROVE ProtocolInv'
  OBVIOUS
<1>1. AbsorberInv'
  BY AbsorberStep DEF ProtocolInv
<1>2. CASE UNCHANGED vars
  <2>1. UNCHANGED <<msg, peerClosed, recvd, buf, used, hdrValid, protocolState,
                    bodyType, bodySize, chunkState, chunkRemain, bodyCB, pc,
                    phase, got, lastLen>>
    BY <1>2 DEF vars, conn, framing, absorber
  <2>2. TypeOK' /\ BufHolds' /\ Framed' /\ GotPrefix'
        /\ WaitsOnlyForMissingBytes' /\ DataCallsNotEmpty'
    BY <2>1 DEF ProtocolInv, TypeOK, BufHolds, Framed, GotPrefix,
                WaitsOnlyForMissingBytes, DataCallsNotEmpty, Remaining, valid
  <2>3. Pos' = Pos /\ Unused' = Unused /\ valid' = valid
    BY <2>1 DEF Pos, Unused, valid
  <2>4. HeaderOpen' = HeaderOpen /\ HeaderDone' = HeaderDone
    BY <2>1, <2>3 DEF HeaderOpen, HeaderDone
  <2>5. Place' = Place
    BY <2>1, <2>3 DEF Place, SizedPlace, ChunkPlace, HeaderPlace, DataPlace,
                      TrailerPlace, Given
  <2>6. BodyOpen' = BodyOpen
    BY <2>1, <2>5 DEF BodyOpen, Given
  <2>7. Progress'
    BY <2>1, <2>4, <2>6 DEF ProtocolInv, Progress
  <2>8. QED
    BY <2>2, <2>7, <1>1 DEF ProtocolInv
<1>3. CASE Next
  BY <1>1, <1>2, <1>3, AcceptProtocol, MovingOnProtocol, ReadSockProtocol,
     HeaderProtocol, CallbackProtocol, ContentProtocol, ChunkHeaderProtocol,
     ChunkBodyProtocol, ChunkTrailerProtocol, UnfitProtocol
  DEF Next, Process, Ended
<1>4. QED
  BY <1>2, <1>3

LEMMA ProtocolInvariance == Spec => []ProtocolInv
BY InitProtocol, ProtocolStep, PTL DEF Spec

(* The slot's fields keep their ranges: `used` never passes _valid, and    *)
(* neither passes the buffer (http_protocol.c:53-76, 313-362).             *)
THEOREM TypeCorrect == Spec => []TypeOK
<1>1. ProtocolInv => TypeOK
  BY DEF ProtocolInv
<1>2. QED
  BY <1>1, ProtocolInvariance, PTL

(* The server waits for more bytes only while the request is incomplete: a *)
(* request that was received whole is always answered, however it was cut  *)
(* into segments (http_protocol.c:215-302, 313-362).                       *)
THEOREM WaitsCorrect == Spec => []WaitsOnlyForMissingBytes
<1>1. ProtocolInv => WaitsOnlyForMissingBytes
  BY DEF ProtocolInv
<1>2. QED
  BY <1>1, ProtocolInvariance, PTL

(* The absorber is never called with a length that it takes for the end of *)
(* the stream or for an error (http_protocol.c:174-179), for a body of any *)
(* size, but when what remains to be read of it no longer fits an int      *)
(* (http_protocol.c:240, 273).                                             *)
THEOREM DataCallsCorrect == Spec => []DataCallsNotEmpty
<1>1. ProtocolInv => DataCallsNotEmpty
  BY DEF ProtocolInv
<1>2. QED
  BY <1>1, ProtocolInvariance, PTL

-----------------------------------------------------------------------------
(* The slot implements BodyStream: every step is a step of the stream, or  *)
(* leaves it as it is.                                                     *)

LEMMA PrefixIs ==
    ASSUME NEW b \in Seq(Nat), NEW g \in Seq(Nat), Len(g) <= Len(b),
           \A i \in 1 .. Len(g) : g[i] = b[i]
    PROVE  g = SubSeq(b, 1, Len(g))
<1>1. /\ Len(SubSeq(b, 1, Len(g))) = Len(g)
      /\ \A i \in 1 .. Len(g) : SubSeq(b, 1, Len(g))[i] = b[i]
      /\ SubSeq(b, 1, Len(g)) \in Seq(Nat)
  <2>1. Len(g) \in 0 .. Len(b)
    OBVIOUS
  <2>2. QED
    BY <2>1
<1>2. QED
  BY <1>1, SeqEqual

LEMMA WholeIs ==
    ASSUME NEW b \in Seq(Nat), NEW g \in Seq(Nat), Len(g) = Len(b),
           \A i \in 1 .. Len(g) : g[i] = b[i]
    PROVE  g = b
BY SeqEqual

(* What was given is a sequence over Nat, as the body is.                  *)
LEMMA GotTypes ==
    ASSUME ProtocolInv
    PROVE  got \in Seq(Nat) /\ msg.body \in Seq(Nat) /\ msg \in Messages
<1>1. got \in Seq(1..recvd) /\ msg \in Messages
  BY DEF ProtocolInv, TypeOK
<1>2. got \in Seq(Nat)
  <2>1. 1..recvd \subseteq Nat
    OBVIOUS
  <2>2. QED
    BY <1>1, <2>1, SeqWidens
<1>3. QED
  BY <1>1, <1>2, MessageTypes

LEMMA AcceptStream ==
    ASSUME ProtocolInv, Accept
    PROVE  [Stream!Next]_Stream!vars
<1>1. /\ phase' = "none" /\ got' = <<>> /\ bodyType' = "eNoBody"
      /\ phase # "open" /\ (phase = "none" => got = <<>>)
      /\ phase \in {"none", "open", "done", "aborted"}
  BY DEF Accept, InitReqMessage, ProtocolInv, TypeOK, AbsorberInv, AbsorberLife,
         GotPrefix
<1>2. CASE bodyType = "eUntilDisconnect" \/ phase = "none"
  BY <1>1, <1>2 DEF Stream!vars
<1>3. CASE ~(bodyType = "eUntilDisconnect" \/ phase = "none")
  <2>1. Stream!NewRequest
    BY <1>1, <1>3 DEF Stream!NewRequest
  <2>2. QED
    BY <2>1 DEF Stream!Next
<1>4. QED
  BY <1>2, <1>3

(* Before the callback there is no stream.                                 *)
LEMMA HeaderStream ==
    ASSUME ProtocolInv, GetHeader
    PROVE  UNCHANGED Stream!vars
<1>1. phase = "none" /\ got = <<>> /\ UNCHANGED <<msg, phase, got>>
  BY DEF GetHeader, conn, absorber, ProtocolInv, AbsorberInv, NoneBeforeCallback,
         Progress, GotPrefix
<1>2. QED
  BY <1>1 DEF Stream!vars

LEMMA CallbackStream ==
    ASSUME ProtocolInv, Callback
    PROVE  [Stream!Next]_Stream!vars
<1>1. /\ phase = "none" /\ got = <<>> /\ UNCHANGED <<msg, bodyType, got>>
      /\ phase' = "none" \/ phase' = "open"
  <2>1. protocolState # "eReq_Body"
    BY DEF Callback, ProtocolInv, Progress, BodyOpen
  <2>2. QED
    BY <2>1 DEF Callback, conn, framing, ProtocolInv, Progress, GotPrefix
<1>2. CASE bodyType = "eUntilDisconnect" \/ phase' = "none"
  BY <1>1, <1>2 DEF Stream!vars
<1>3. CASE ~(bodyType = "eUntilDisconnect" \/ phase' = "none")
  <2>1. Stream!Open(msg.body)
    BY <1>1, <1>3 DEF Stream!Open
  <2>2. msg.body \in {m.body : m \in Messages}
    BY GotTypes
  <2>3. QED
    BY <2>1, <2>2 DEF Stream!Next
<1>4. QED
  BY <1>1, <1>2, <1>3

(* A data call hands over the bytes the body continues with.               *)
LEMMA AbsorbStream ==
    ASSUME ProtocolInv, ProtocolInv', NEW n, Absorb(n),
           UNCHANGED <<msg, bodyType>>, bodyType # "eUntilDisconnect",
           pc' # "unfit"
    PROVE  [Stream!Next]_Stream!vars
<1>1. phase' = phase
  BY DEF Absorb, absorber, ProtocolInv, AbsorberInv, AbsorberLife
<1>2. CASE ~bodyCB
  BY <1>1, <1>2 DEF Absorb, absorber, Stream!vars
<1>3. CASE bodyCB
  <2>1. phase = "open" /\ got' = got \o SubSeq(buf, used + 1, used + n)
    BY <1>3 DEF Absorb, ProtocolInv, AbsorberInv, AbsorberLife
  <2>2. /\ got \in Seq(Nat) /\ msg.body \in Seq(Nat)
        /\ Len(got) <= Len(msg.body)
    BY GotTypes DEF ProtocolInv, GotPrefix
  <2>3. /\ got' \in Seq(Nat) /\ Len(got') <= Len(msg.body)
        /\ \A i \in 1 .. Len(got') : got'[i] = msg.body[i]
    <3>1. got' \in Seq(1..recvd') /\ 1..recvd' \subseteq Nat
      BY DEF ProtocolInv, TypeOK
    <3>2. got' \in Seq(Nat)
      BY <3>1, SeqWidens
    <3>3. QED
      BY <3>2 DEF ProtocolInv, GotPrefix
  <2>4. n \in Nat \ {0} /\ used \in Nat
    <3>1. lastLen' = n
      BY <1>3 DEF Absorb
    <3>2. QED
      BY <3>1, BufferIsOK DEF ProtocolInv, TypeOK, DataCallsNotEmpty
  <2>5. Len(got') = Len(got) + n
    <3> DEFINE T == Nat \cup {buf[i] : i \in used + 1 .. used + n}
               data == SubSeq(buf, used + 1, used + n)
    <3>1. data \in Seq(T) /\ Len(data) = n
      <4>1. /\ \A i \in used + 1 .. used + n : buf[i] \in T
            /\ used + 1 \in Int /\ used + n \in Int
        BY <2>4
      <4> HIDE DEF T
      <4>2. /\ data \in Seq(T)
            /\ Len(data) = IF used + 1 <= used + n
                             THEN (used + n) - (used + 1) + 1 ELSE 0
        BY <4>1, SubSeqProperties
      <4> HIDE DEF data
      <4>3. QED
        BY <4>2, <2>4
    <3>2. got \in Seq(T)
      BY <2>2, SeqWidens
    <3> HIDE DEF data, T
    <3>3. Len(got \o data) = Len(got) + Len(data)
      BY <3>1, <3>2, ConcatProperties, Zenon
    <3>4. QED
      BY <2>1, <3>1, <3>3 DEF data
  <2>6. got' = SubSeq(msg.body, 1, Len(got'))
    BY <2>2, <2>3, PrefixIs
  <2>7. n \in 1 .. Len(msg.body) - Len(got)
    BY <2>2, <2>3, <2>4, <2>5
  <2>8. Stream!Data(n)
    BY <1>1, <2>1, <2>5, <2>6 DEF Stream!Data
  <2>9. QED
    BY <2>1, <2>7, <2>8 DEF Stream!Next
<1>4. QED
  BY <1>2, <1>3

LEMMA DataStream ==
    ASSUME ProtocolInv, ProtocolInv', HandleContentSize \/ ChunkBody
    PROVE  [Stream!Next]_Stream!vars
<1>1. /\ UNCHANGED <<msg, bodyType>> /\ bodyType # "eUntilDisconnect"
      /\ pc' # "unfit"
  BY DEF HandleContentSize, ChunkBody, Chunk, conn
<1>2. CASE UNCHANGED absorber
  BY <1>1, <1>2 DEF absorber, Stream!vars
<1>3. CASE \E n : Absorb(n)
  BY <1>1, <1>3, AbsorbStream
<1>4. QED
  BY <1>2, <1>3 DEF HandleContentSize, ChunkBody

(* The stream is finished when all of the body was handed over.            *)
LEMMA TerminateStream ==
    ASSUME ProtocolInv, Terminate
    PROVE  [Stream!Next]_Stream!vars
<1>1. /\ UNCHANGED <<msg, bodyType, got>> /\ bodyCB \in BOOLEAN
      /\ phase' = IF ~bodyCB THEN phase ELSE "done"
      /\ bodyCB => phase = "open"
  BY DEF Terminate, conn, framing, EndAbsorber, ProtocolInv, TypeOK, AbsorberInv,
         AbsorberLife
<1>2. CASE ~bodyCB \/ bodyType = "eUntilDisconnect"
  <2>1. CASE ~bodyCB
    BY <1>1, <2>1 DEF Stream!vars
  <2>2. CASE bodyCB /\ bodyType = "eUntilDisconnect"
    BY <1>1, <2>2 DEF Stream!vars
  <2>3. QED
    BY <1>2, <2>1, <2>2
<1>3. CASE bodyCB /\ bodyType # "eUntilDisconnect"
  <2>1. Len(got) = Len(msg.body)
    <3>1. protocolState = "eReq_Body"
      BY DEF Terminate, ProtocolInv, TypeOK, Progress, HeaderOpen, HeaderDone
    <3>2. QED
      BY <3>1, <1>3 DEF Terminate, ProtocolInv, Progress, BodyOpen, Given
  <2>2. \A i \in 1 .. Len(got) : got[i] = msg.body[i]
    BY DEF ProtocolInv, GotPrefix
  <2>3. got = msg.body
    BY <2>1, <2>2, GotTypes, WholeIs
  <2>4. Stream!Finish
    BY <1>1, <1>3, <2>3 DEF Stream!Finish
  <2>5. QED
    BY <2>4 DEF Stream!Next
<1>4. QED
  BY <1>2, <1>3

LEMMA CloseStream ==
    ASSUME ProtocolInv, Close
    PROVE  [Stream!Next]_Stream!vars
<1>1. /\ UNCHANGED <<msg, bodyType, got>> /\ bodyCB \in BOOLEAN
      /\ phase' = IF ~bodyCB THEN phase ELSE "aborted"
      /\ bodyCB => phase = "open"
  BY DEF Close, conn, framing, EndAbsorber, ProtocolInv, TypeOK, AbsorberInv,
         AbsorberLife
<1>2. CASE ~bodyCB
  BY <1>1, <1>2 DEF Stream!vars
<1>3. CASE bodyCB /\ bodyType = "eUntilDisconnect"
  BY <1>1, <1>3 DEF Stream!vars
<1>4. CASE bodyCB /\ bodyType # "eUntilDisconnect"
  <2>1. Stream!Abort
    BY <1>1, <1>4 DEF Stream!Abort
  <2>2. QED
    BY <2>1 DEF Stream!Next
<1>5. QED
  BY <1>1, <1>2, <1>3, <1>4

LEMMA OthersStream ==
    ASSUME \/ PeerCloses \/ ReadSock \/ ReadSockZero \/ Reap \/ ChunkHeader
           \/ ChunkTrailer \/ GetBodyOther \/ Reply \/ UNCHANGED vars
           \/ ContentSizeUnfit \/ ChunkUnfit
    PROVE  UNCHANGED Stream!vars
<1>1. UNCHANGED <<msg, bodyType, phase, got>>
  BY DEF PeerCloses, ReadSock, ReadSockZero, Reap, ChunkHeader, ChunkTrailer,
         GetBodyOther, Reply, ContentSizeUnfit, ChunkUnfit, Unfit, vars, conn,
         framing, absorber
<1>2. QED
  BY <1>1 DEF Stream!vars

(* The application is handed the bytes of a framed body in order and       *)
(* without gaps, in pieces that are never empty, and is told the end of    *)
(* the body exactly when it has all of it, or that it will not come: for   *)
(* every request, buffer size and way of cutting the request into segments *)
(* (http_protocol.c:215-302, 386-402; server.c:254-264).                   *)
THEOREM BodyStreamImplemented == Spec => ImplementsBodyStream
<1>1. Init => Stream!Init
  BY DEF Init, Stream!Init
<1>2. ProtocolInv /\ ProtocolInv' /\ [Next]_vars => [Stream!Next]_Stream!vars
  <2> SUFFICES ASSUME ProtocolInv, ProtocolInv', [Next]_vars
               PROVE  [Stream!Next]_Stream!vars
    OBVIOUS
  <2>1. CASE Next
    BY <2>1, AcceptStream, HeaderStream, CallbackStream, DataStream,
       TerminateStream, CloseStream, OthersStream DEF Next, Process, Ended
  <2>2. CASE UNCHANGED vars
    BY <2>2, OthersStream
  <2>3. QED
    BY <2>1, <2>2
<1>3. QED
  BY <1>1, <1>2, ProtocolInvariance, PTL
  DEF Spec, ImplementsBodyStream, Stream!Spec

=============================================================================
