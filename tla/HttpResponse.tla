---------------------------- MODULE HttpResponse ----------------------------
(***************************************************************************)
(* The sending side of one connection slot: http_req[i].res and windex,    *)
(* over one connection after the other.  A request's callback fills the    *)
(* response buffer and may leave a BodyCB that refills it (a static file:  *)
(* filestream_out of middleware.c); WriteSock sends what the socket takes. *)
(*                                                                         *)
(* The bytes of a response are counted, not named: one is missed or sent   *)
(* twice exactly when the count of those made for the peer and not sent    *)
(* differs from what windex and _index say is left.                        *)
(***************************************************************************)
EXTENDS Integers

CONSTANT BufSize   \* HTTP_BUFFER_SIZE

ASSUME BufAssumption == BufSize \in Nat \ {0}

VARIABLES
    workState,   \* work_state of the slot
    index,       \* res->_index: bytes in the response buffer
    windex,      \* hr->windex: bytes of it that were sent
    bodyCB,      \* res->BodyCB and the file its context is: "null", a file
                 \* opened for this connection ("own"), or for an earlier ("old")
    protocolState, \* req->protocol_state: whether the body is coming in
    owed         \* bytes made for the current peer and not sent to it

vars == <<workState, index, windex, bodyCB, protocolState, owed>>

Init ==
    /\ workState = "NOTWORK" /\ index = 0 /\ windex = 0
    /\ bodyCB = "null" /\ protocolState = "eReq_Header" /\ owed = 0

(* _HTTPServerAccept: of all this only windex is reset. *)
WindexOfLast == windex
FreshWindex  == 0

Accept ==
    /\ workState = "NOTWORK" /\ workState' = "READING"
    /\ windex' = FreshWindex
    /\ bodyCB' = IF bodyCB = "own" THEN "old" ELSE bodyCB
    /\ owed' = 0 /\ protocolState' = "eReq_Header"
    /\ UNCHANGED index

(* The callback, which leaves a response in the buffer: the header of a    *)
(* static file with the BodyCB for its contents (_ReadStaticFiles), or all *)
(* of a response (_NotFound, Api), whose BodyCB is then left as it was.    *)
Callback ==
    /\ workState = "READING" /\ protocolState = "eReq_Header"
    /\ index' \in 1..BufSize /\ owed' = index'
    /\ bodyCB' \in {bodyCB, "own"}
    /\ \/ workState' = "WRITING" /\ UNCHANGED protocolState
       \/ protocolState' = "eReq_Body" /\ UNCHANGED workState
    /\ UNCHANGED windex

(* Api's absorber appends to the response for each part of a body.  The    *)
(* code does not look whether there is room: that the buffer is large      *)
(* enough is a bound of the model.                                         *)
ApiBody ==
    /\ workState = "READING" /\ protocolState = "eReq_Body" /\ bodyCB # "own"
    /\ index < BufSize
    /\ index' = index + 1 /\ owed' = owed + 1
    /\ UNCHANGED <<workState, windex, bodyCB, protocolState>>

(* The body is complete, and the response with it. *)
BodyComplete ==
    /\ workState = "READING" /\ protocolState = "eReq_Body"
    /\ workState' = "WRITING"
    /\ UNCHANGED <<index, windex, bodyCB, protocolState, owed>>

-----------------------------------------------------------------------------
(* The buffer as WriteSock sends from it: refilled by BodyCB when all of   *)
(* it was sent; a refill of nothing ends the file and clears BodyCB.       *)
Filled ==
    IF windex >= index /\ bodyCB # "null"
      THEN {[i |-> n, w |-> 0, cb |-> IF n = 0 THEN "null" ELSE bodyCB,
             made |-> n] : n \in 0..BufSize}
      ELSE {[i |-> index, w |-> windex, cb |-> bodyCB, made |-> 0]}

(* send() took n of the bytes of buffer b; none only if there were none. *)
SentEndsEarly(b, n) ==
    /\ windex' = b.w + n
    /\ workState' = IF n > 0 /\ b.i > b.w + n THEN "WRITING" ELSE "WRITEEND"
Sent(b, n) ==
    /\ windex' = b.w + n
    /\ workState' = IF n > 0 /\ (b.i > b.w + n \/ b.cb # "null")
                      THEN "WRITING" ELSE "WRITEEND"

(* EAGAIN: the same bytes are tried again. *)
NotSentSkips(b) == windex' = b.i /\ workState' = "WRITING"
NotSent(b) == windex' = b.w /\ workState' = "WRITING"

(* Any other error. *)
SendFailed(b) == windex' = b.w /\ workState' = "CLOSE"

WriteSock ==
    /\ workState = "WRITING"
    /\ \E b \in Filled :
         /\ index' = b.i /\ bodyCB' = b.cb
         /\ \/ \E n \in 0 .. b.i - b.w :
                 /\ n = 0 => b.i = b.w
                 /\ Sent(b, n) /\ owed' = owed + b.made - n
            \/ (NotSent(b) \/ SendFailed(b)) /\ owed' = owed + b.made
    /\ UNCHANGED protocolState

(* HTTPServerRun closes the slot: the response is over or failed, the peer *)
(* went while its request was read, or the connection was idle too long.   *)
Close ==
    /\ workState # "NOTWORK" /\ workState' = "NOTWORK"
    /\ UNCHANGED <<index, windex, bodyCB, protocolState, owed>>

Next == Accept \/ Callback \/ ApiBody \/ BodyComplete \/ WriteSock \/ Close

Spec == Init /\ [][Next]_vars

-----------------------------------------------------------------------------
(* Type correctness; and send() is never asked for a negative number of    *)
(* bytes, which the size_t arithmetic of WriteSock would make a huge one.  *)
TypeOK ==
    /\ workState \in {"NOTWORK", "READING", "WRITING", "WRITEEND", "CLOSE"}
    /\ index \in 0..BufSize /\ windex \in 0..BufSize
    /\ bodyCB \in {"null", "own", "old"} 
    /\ protocolState \in {"eReq_Header", "eReq_Body"}
    /\ owed \in Int
    /\ workState = "WRITING" => windex <= index

(* Slow readers, blocked sends and refills lose and repeat no byte of a    *)
(* response: what is still to be sent of the buffer is what the peer has   *)
(* not got ("silently dropping the unsent tail and truncating large        *)
(* responses to slow readers", server.c:168-174).                          *)
NoByteLostOrRepeated ==
    ( \/ workState = "WRITING"
      \/ workState = "READING" /\ protocolState = "eReq_Body" )
    => windex + owed = index

(* A response that is ended was sent to its last byte, a streamed file to  *)
(* its end (server.c:158-168).                                             *)
EndedIsComplete ==
    workState = "WRITEEND" => owed = 0 /\ bodyCB = "null"

(* "The context field can be used to identify which stream this call       *)
(* belongs to" (server.h:47): a response is continued from the file opened *)
(* for its own request.                                                    *)
StreamOfThisRequest == workState = "WRITING" => bodyCB # "old"

=============================================================================
