# MicroHttpServer: models, checks and proofs

A TLA+ development of [MicroHttpServer](../src/README.md): a small HTTP server
library in C for hosts with sockets (`c-version/`), the same server on a
microcontroller with an ESP8266 WiFi chip (`FreeRTOS/`), and a sketch of it in
Python (`py-version/`). Paths below are relative to `src/`.

Contents: [inventory](#1-inventory), [modules](#2-modules),
[runs](#3-runs-bounds-and-fairness), [proofs](#4-proofs),
[findings](#5-where-code-and-documentation-disagree),
[what is not modelled](#6-what-is-not-modelled), [plan](#7-plan).

## 1. Inventory

### The C server (`c-version/lib`)

One thread calls `HTTPServerRun` for ever. There are no locks; concurrency
comes from the peers, the kernel and the clock, which move between any two
steps of a round.

| part | state | operations | talks to |
| --- | --- | --- | --- |
| event loop, `server.c` | `_max_sock`, the two `fd_set` master pools, `available_connections`; per slot `clisock`, `work_state`, `last_active_ms` | `HTTPServerInit`, `HTTPServerRun`, `_HTTPServerAccept`, `HTTPServerClose` | `select`, `accept`, `close`; calls the next two parts per slot |
| request protocol, `http_protocol.c` and `ReadSock` | `_buf`/`_valid`/`_used`, `_hdr_valid`, `protocol_state`, `bodyType`, `bodySize`, `chunkState`, `chunkRemain`, `BodyCB` | `InitReqMessage`, `ProcessClientData`, `_GetHeader`, `_GetBody`, `_HandleContentSize`, `_HandleChunked`, `GetLineFromBuffer` | `recv`; calls the request callback once and the body absorber per block |
| response, `WriteSock` and `middleware.c` | `res._buf`/`_index`, `windex`, `BodyCB`, `BodyContext` | `WriteSock`, `Dispatch`, `_ReadStaticFiles`, `filestream_out`, `_NotFound`, `Api` of `dummy_api.c` | `send`, the file system |
| multipart absorber, `multipart.c` | `_FileStream`: `state`, `matchState`, `header`, `data` | `setup_multipart`, `attachment_filestream`, `filestream_in`, `expunge`, `_ParseMultiPartHeader` | is the body absorber of a request; calls a `BODY_DATABLOCK_CB` (`ApiBody`) |
| URL parser, `url.c` | none | pure functions on a string: `parse_url`, `parse_querystring`, `url_decode` | `Dispatch`, `Api` |
| client mode, `assembly_test.c` | a `HTTPReqMessage` used for a response | a program with blocking calls | `http_protocol.c` |

A connection's life: *accept* gives it the first free slot → *reading* (bytes
are handed to the protocol, which parses the header, calls the request
callback, feeds the body to the absorber the callback may have installed) →
*writing* (the response buffer, refilled by `res.BodyCB` for static files) →
*close*, from any of these states too: a socket error, a peer that closes, or
the idle reaper. Slots are reused; only what the accept resets is fresh.

What is hard: results of `select()` that are used after descriptors were
closed and reused in the same round; counters and pools that must move with
the slots; a clock that wraps; a request that is cut into segments at any byte
and a buffer smaller than the request; an absorber that frees itself at its
end, so that it needs exactly one end; partial and blocked sends; a connection
that ends in the middle of any of this; a separator cut by a call boundary.
What makes it correct: no slot or descriptor leaks, the listener is watched
exactly while there is room, no idle connection keeps a slot, the absorber
gets exactly the body, the peer gets exactly the response.

### The FreeRTOS server (`FreeRTOS/`)

| part | state | operations | talks to |
| --- | --- | --- | --- |
| USART driver, `usart.c` | the receive ring `wIdx`/`rIdx`/`ovr`, the transmit streams and `usart_stream_idx`, the interrupt enables | `PushQueue`, `PopQueue`, `USART_Read`, `USART_Send`, `USART6_IRQHandler` | tasks against the interrupt handler, no masking |
| ESP8266 driver, `mac_esp8266.c` | `clisock[]` states and queues, `new_connects`, `_ESP8266_Command`, `_working_sock`, `xUSART_Mutex` | the parse task, the command task, `SendSocket`, `ShutdownSocket`, `RecvSocket`, `AcceptTcpSocket`, the start-up commands | USART driver; three tasks share its state |
| sockets, `socket.c`, `select.c` | none of their own | thin calls, `select` polls the states | ESP8266 driver |
| server, `lib/server.c`, `lib/middleware.c` | an older event loop: no counter, no reaper, a header read byte by byte | as above | sockets |
| board and application, `main.c`, `app.c`, `gpio.c`, `system_stm32f4xx.c` | task handles, LED pins | start-up, demo pages | all of it |

What is hard: an interrupt between two writes of an index update, a resume of
a task that has not yet suspended itself, a mutex held while waiting for room
in a queue, states of a connection changed by the parse task while the server
task works on it.

### The rest

`py-version/` (a `select` loop that reads requests with blocking `recv` calls),
`autotest/client.py` (a load generator) and `assembly.py` (a script).

The hazards these parts are exposed to are listed one by one, with their lines
and the properties that cover them, in `PROJECT.json`.

## 2. Modules

Each concrete module has one action per step of the code and names its
variables and actions after the code's. `PROJECT.json` maps every definition to
its lines.

| module | models | abstract specification |
| --- | --- | --- |
| `HttpServer` | the event loop over all slots | `ConnectionPool` |
| `HttpProtocol` | one slot's receiving side, over successive connections | `BodyStream` |
| `HttpResponse` | one slot's sending side, over successive connections | (two invariants say it all) |
| `Url` | the URL parser, as operators on bytes | (compared with the forms URLs are written from) |
| `Dispatch` | the choice of the handler; composes `HttpResponse` and `Url` | |
| `Multipart` | the multipart absorber on one body | `PartStream` |
| `UsartRing` | the receive ring of the FreeRTOS port | (`InOrder` is what a queue promises) |
| `Usart` | the whole USART driver: extends `UsartRing` with the transmit streams | `UsartRing`'s `Spec`, by proof |
| `Esp8266` | the WiFi driver: parse task, command task, socket calls; the chip and the peers | |
| `FreeRTOSServer` | the server task of the FreeRTOS port; composes with `Esp8266` | |
| `MCHttpServer`, `MCHttpProtocol`, `MCDispatch`, `MCMultipart`, `MCFreeRTOSServer` | the instances TLC checks. `MCHttpProtocol` and `MCMultipart` *write* requests and bodies from what they carry, which is the reference the parsers are compared with; `MCDispatch` chooses the forms that `Dispatch` writes URLs from | |
| `HttpServerProofs`, `HttpProtocolProofs`, `HttpResponseProofs`, `MultipartProofs`, `UsartRingProofs`, `UsartProofs`, `FreeRTOSServerProofs`, `FreeRTOSSocketProofs` | theorems | |

### The C server

**HttpServer.** A round of `HTTPServerRun` is `Select` (or
`SelectInterrupted`), then `Accept` or `NoAccept`, then for each slot in order
`SkipFreeSlot`, or `ReadSlot`/`ReadNothing`, `WriteSlot`/`WriteNothing`,
`CloseSlot`/`KeepSlot`. `pc` and `cur` are the place in the loop, `readable`,
`writeable`, `now` and `active` are its locals. The kernel is `openFds`:
`accept` returns any descriptor that is not open, so one closed earlier in the
process's life may come back at once. `select()` may report any subset of what
it watches, and fails on a closed descriptor, which the guard of `Select`
turns into a deadlock that TLC would report. `ProcessClientData` and
`WriteSock` are known by the work states they can leave. `clock` is the
unsigned millisecond counter of width `ClockMod`; `elapsed` and `age` are real
time, which the code cannot see and the properties are stated in.

**HttpProtocol.** The receive buffer holds *positions* of the request's text,
so that what the absorber gets can be compared with what was sent.
A request is a record of its text and of what a client means by it (method,
framing, body, and for chunked bodies where each chunk lies, which is for
stating properties only: the parser does not look at it); `MessageAssumption`
says that the two agree.
`ReadSock` delivers any number of the bytes outstanding. `GetHeader`, `Callback`,
`HandleContentSize`, `ChunkHeader`, `ChunkBody`, `ChunkTrailer`,
`GetBodyOther` and `Terminate` are the steps of `ProcessClientData`; `Close`
is the close part of the event loop with its abort of the absorber. The
variables that `InitReqMessage` does not reset (`chunkState`, `chunkRemain`)
keep their values from one connection to the next. A size is converted to
`int` where the code casts it (`AsInt`). When what remains to be read is not
positive as an `int`, the data call with that length is still made
(`ContentSizeUnfit`, `ChunkUnfit`) and the model ends there, in the place
"unfit": what the code then does to the buffer is undefined.

**HttpResponse.** Bytes are counted: `owed` is the number of bytes made for
the current peer and not sent to it, `index - windex` what the code believes
is left. `Callback` leaves a response with or without a file behind it,
`WriteSock` refills, sends, is blocked or fails; `Close` may come at any time.

**Url** and **Dispatch.** `parse_url`, `parse_querystring` and `url_decode` on
sequences of byte values, in the code's order: the query string is split off
first, then the command, then the path. Only what is percent-decoded in the
code is decoded here. `DispatchCallback` is `Callback` with its nondeterminism
resolved by the URL: `Api` when it has components, else a static file or
`_NotFound`. Whether a file of that name exists and may be served (the depth
check of `_ReadStaticFiles`) is a nondeterministic choice. The parser is
compared with a client: a *form* says what the client means, `Written` writes
the URL from it (`Encoded` percent-encodes the values of parameters, `Query`
joins them), and `RequestAssumption` says that the requests are such URLs, in
which a part holds no delimiter of the parts behind it.

**Multipart.** One step per byte, which is one iteration of the loop of
`filestream_in`: all parser state is in the struct, so a call boundary between
two bytes changes nothing and every way of cutting the body is covered. The
lines of a part's header are split as `_ParseMultiPartHeader` does it,
including the elements of `lines[]` it may read without having written them,
which are a nondeterministic choice. A body is a record of its text and of what
its sender means by it: the parts, where the first separator ends (`first`) and
where the data of each part starts (`starts`). The parser looks at the text
only; `BodyAssumption` says that the two agree (`IsMultipart`: a separator
occurs where a part ends and nowhere before, a header ends at its first empty
line and fits its buffer, and reading its lines finds the part's fields).

### The FreeRTOS server

**UsartRing.** The interrupt handler is one action and comes whenever it likes,
at a full ring too; `PopQueue` is one action
per access to the ring, because nothing masks the interrupt in between: the
test of `ovr` (`TestNoOverrun`), the comparison of indices (`Compare`), the
second test (`TestOverrun`, which a compiler may leave out since nothing is
volatile), the two writes of the wrap in either order (`Wrap`, `WrapRIdx`,
`WrapOvr`), the byte (`Take`) and `rIdx` (`Advance`). A byte is its number
among those accepted. One task pops at a time: all callers of `USART_Read` hold
`xUSART_Mutex`. `QueueMessagesWaiting` (`USART_Readable`) is one action per
access too (`ReadOvr`, `ReadRIdx`, `ReadWIdx`, then `Answer`), beside `PopQueue`
and the interrupts, for the server task calls it without the mutex.
Histories, which no action tests: `overwritten` (a push hit an unread byte),
`acceptedThen` and `leftThen` (the ring's bytes when `USART_Readable` was
called) and `turned` (the ring has started over at the front since).

**Usart.** `USART6_IRQHandler` serves both directions on every interrupt:
`ReceiveInterrupt` pushes a byte and runs the transmitting part,
`TransmitInterrupt` runs the transmitting part. That part sends the next byte
of the current stream, or ends the stream and looks for the next one at the
offsets the code's loop produces (0, 1, 3, 6, 10: `Tried`). `USART_Send` is one
action per access to the streams (`Find`, `Test`, `SetBuf`, `SetLen`,
`Enable`); the two field writes come in either order, and interrupts come
between any two of the accesses. `disturbed` remembers that one of them has
moved the index or changed which slots are in use (`Moved`) while `USART_Send`
was between its first look at the index and its last write to a slot
(`Looking`). The data register and the wire are `dr`, `out` and `lastOut`.

**Esp8266.** `vESP8266RTask` and `vESP8266TTask` are one action per message
read, command sent, mutex or task operation. The mutex, `_ESP8266_Command` and
`_working_sock` are `mutex`, `command` and `working`. `Resume` does nothing to
a task that is not suspended, as `vTaskResume`. The chip (external) answers a
command with one message and may announce connections, frames, closes and a
lost access point in between; it takes a line for payload when it waits for
payload. `GetClientRequest` queues no more of a frame than a queue holds, and
the rest of the frame is read as lines.

**FreeRTOSServer.** The start-up of `MicroHTTPServer_task`, then the loop of
`lib/server.c` with the socket calls inlined. Reading a state byte and writing
it back are two actions with the value in `store`. A slot keeps the number of
the connection its socket was when it was accepted (`owner`).

What is merged: the snapshot of `select()` is one step, as are the
read-modify-writes of a socket's state by the parse and command tasks, the test
that nothing is pending together with the resume behind it, and a line or a
unit of payload is received whole. `Sliced` says whether a task may lose the processor
between a test or read of shared state and the write that rests on it,
`Talkative` whether the chip may speak of other things while it is given a
command, `Impatient` whether peers close first. A response is one unit
(`slen`), and a request is whole at any unit. `_max_sock` is left out: the
listener's descriptor is the highest of all.

**Abstract specifications.** `ConnectionPool`: a connection asks, is answered,
closes, and the listener is open exactly while there is room. `BodyStream`: a
body is opened at most once per request, handed over in order in blocks that
are not empty, and ended exactly once. `PartStream`: parts come one after the
other with their fields and all of their data. Each is a PROPERTY of a run
through `INSTANCE ... WITH`.

## 3. Runs, bounds and fairness

| run | question | bounds |
| --- | --- | --- |
| `http_server` | do slots, pools, counter and open sockets stay in step, is a `select()` result ever used for another connection, is the reaper neither early nor late, does the loop implement the pool, is a silent connection reaped | 2 slots, 3 client descriptors: a descriptor may be reused by either slot and one is always spare. `IdleTimeout` 1, `RoundTime` 1, a clock of 8 ticks: it wraps many times; one interrupted `select()` in a row |
| `http_protocol` | does the absorber get exactly the body, is a complete request always answered | fourteen requests. Ten: no body, `Content-Length` positive, 0 and negative, none, chunked with data that looks like framing, extensions, no chunk, trailing bytes, a header that is too long. Four whose `Content-Length` or chunk size does not fit an `int` of five bits (`IntMod` 32): negative ones, and ones that are positive but too small. A 6-byte buffer, so chunked requests wrap and compact it; every segmentation |
| `http_response` | is no byte of a response lost or repeated, is one ended only after its last byte, is `Api` given what a URL was written from | a 4-byte buffer and every count of bytes per send and refill; values of up to two of eight bytes, the parser's own delimiters among them, and every combination of path, command and parameters |
| `multipart` | is the callback given exactly the parts of the body | every data of up to four of the bytes CR, LF, `-`, `B` that holds no separator, data around the 3-byte data buffer, several parts and fields, a preamble, bodies cut short, raw bodies |
| `usart` | which interrupts keep the ring from being a queue, and `USART_Send` from sending each byte once, in order, and in the end: is it the ones that `overwritten` and `disturbed` name and no others | 3 elements, 7 bytes received and sent altogether (`MaxTraffic`), received up to 7: the ring goes round twice and overwrites a byte; 3 slots, sends of up to 2 bytes, up to 4 bytes sent: all slots are in use at times. Nothing more is sent during a call of `USART_Readable` or once `USART_Send` is disturbed (`SendBeside` 0): the properties of the transmit side do not depend on the one and promise nothing after the other |
| `freertos` | do the tasks exclude each other at the UART, is a command ever changed while it is carried out, is a busy socket's mark kept until its response is done, is a notification lost by anything but the server's write-back | 2 links, 2 slots, 2 connections, queues of one unit, frames of up to two units, one per connection, and two if it is the only one (`SecondFrameAlone`), so that its queue overflows; every preemption, impatient peers, a talkative chip. Links are symmetric |
| `freertos_live` | is every request answered, once, and its connection closed; is every command carried out; is a socket in one slot, and does a slot read its own connection's bytes | 2 links, 2 slots, 2 connections, one frame of up to two units each, queues that hold a frame |
| `http_response_stale`, `multipart_empty_part`, `usart_preempted`, `freertos_lost_resume`, `freertos_peer_closes` | each shows one statement of the repository violated, see section 5 | the smallest instances that meet the case |

Every property is violated by a plausible bug in the mapped code (the operators
named after what they get wrong, such as `FreeSlotKeepsSocket` or
`NotSentSkips`, listed under `mutants`).

TLC also evaluates the assumptions on the constants that the proofs rest on:
`ClockAssumption` (`http_server` meets it with equality: no connection can be
silent for more than half of the clock's eight ticks), `MessageAssumption` for
the fourteen requests of `http_protocol`, `RequestAssumption` and `BodyAssumption`
for the URLs of `http_response` and the bodies of `multipart`,
`BoundaryAssumption` (a separator is CR LF and a text without CR),
`LinkAssumption` and `SlotAssumption` (the listener and "no socket" are no
links).

The bounds are enough because the code treats descriptors, slots and links
uniformly but for their order (`cur`, "first free slot", `>=` on descriptors),
which two slots and three descriptors exhibit; because a parser step looks at
one line or one byte; and because what holds for any size is proved for most of
the modules (section 4).

`ReapedInTime` says how late the reaper may be: `select()` waits up to the
idle timeout itself, so a silent connection may live for nearly two timeouts,
and one more for each `select()` that a signal interrupts.

**What the passing FreeRTOS runs assume.** `freertos` assumes nothing of the
timing of tasks, chip and peers; only what section 2 merges is left out.
`freertos_live` is the polite case: peers wait for their
answer, the chip is silent while it is given a command, and no task loses the
processor between a test and the write that rests on it (all three switches
FALSE). Its liveness needs all three; its invariants need less, and are theorems
under what they need (section 4): `OneSlotPerSocket`
and `AnsweredOnce` only that peers wait for the server's close (`~Impatient`),
`ReadsOwnBytes` that and queues that hold all a peer sends.
Beyond that the code promises nothing: with `Sliced` the resume of the
command task is lost (`freertos_lost_resume`), and a notification that comes
between the server's read of a state byte and its write-back is overwritten,
so that the request waits; with `Impatient` a closed socket keeps
its slot (`freertos_peer_closes`);
with `Talkative` a message of a peer is taken
for the answer to a command. What survives preemption is checked in `freertos`
with all three TRUE: `BusyUntilSent`, and `OnlyWriteBackLoses`, which says that
this write-back is the only step by which a notification is lost.

**What the `usart` run assumes.** Nothing of the interrupts: they come at a full
ring, between any two accesses of `PopQueue` and `QueueMessagesWaiting`, and
inside `USART_Send`. Some of them do harm, and the properties say which:
`InOrder` and `RefusedOnlyWhenFull` hold until a byte is accepted by a full
ring between `ovr = 0` and `rIdx = 0` (`overwritten`), `WaitingWasUnread`
unless the ring starts over during the call (`turned`), `TxInOrder`,
`NoStreamStranded` and `UndisturbedIsSent` until an interrupt moves the streams
`USART_Send` is looking at (`disturbed`). `usart_preempted` shows what happens
then. Blocking
sends are made only when everything before has been sent and answered, as the
driver's commands are.

**Fairness.** `HttpServer`: `WF(HTTPServerRun)`, for the program is
`while (1) HTTPServerRun(...)` and no step of it blocks for ever: `select()` has
a timeout, reads happen on readable sockets, sends are `MSG_DONTWAIT`;
`WF(Tick)`, time passes. Nothing is assumed of peers, and `SelectInterrupted` is
bounded by `MaxIntr` in a row, which the code relies on too. `Usart`:
`SF(TransmitInterrupt)`, an enabled interrupt is served although other
interrupts disable and enable it; `WF` of the shift register and of the task in
`USART_Send`. `FreeRTOSServer`: `WF` of each of the three tasks, which have one
priority and are time-sliced; `WF` of the chip powering up and getting an
address, which the server waits for. Peers and the chip owe nothing else.

Deadlock is checked but for `multipart` (a body ends), its violation run, and
`usart_preempted` (the system stops at what it shows).

## 4. Proofs

TLAPS checks, for every value of the constants that satisfies the assumptions
of the modules:

- **HttpServerProofs.** `IInv` = `TypeOK` + `SlotInv` + `RoundInv` +
  `SnapshotStillValid` is inductive. `SlotInv` relates slots, pools, counter,
  open descriptors and `_max_sock`; it is stated by work state *and* place in
  the loop, since a slot whose `work_state` is WRITEEND or CLOSE exists only in
  its own visit, and a slot that is WRITING may only be left in the pools as
  such. `RoundInv` says what a round knows of the slots it has not
  visited yet: only the slot under visit is about to be closed, and a socket
  reported readable is READING until its visit, so that it can be moved to the
  write pool, and is not one that was closed and accepted anew.
  `TimeInv` adds the clock: what it shows is what it showed when a slot was last
  active plus the real time since, modulo its width (`ClockInv`), and a round
  keeps only slots that were active within the timeout (`SilenceInv`). Since no
  slot can be silent for longer than half of the clock's range
  (`ClockAssumption`; 2^31 ms in the code), the signed difference the code
  computes is the real silence (`SignedDiffIsSilence`, from lemmas about
  residues), which gives `ReapedInTimeCorrect` and, as an action property,
  `NoEarlyReapCorrect`.
  From `IInv` follow `TypeCorrect`, `SlotAccountingCorrect`,
  `OneSlotPerSocketCorrect`, `PoolsFollowSlotsCorrect`, `SnapshotCorrect`, and,
  with one step per action, `ServerImplementsPool`: every step of the loop is a
  step of `ConnectionPool` or a stutter. Facts about cardinalities (a slot taken
  from or given back to the finite set of slots) are lemmas from
  `FiniteSetTheorems`.
- **HttpProtocolProofs.** `AbsorberLife`: the absorber's pointer is set exactly
  while its stream is open, so it is ended once, by `Terminate` or by `Close`,
  whichever comes first. The strengthening, `NoneBeforeCallback`, is why
  `_GetHeader` and `InitReqMessage` may clear the pointer without a call.
  `ProtocolInv` follows the parser through the request, for any requests,
  segmentation and buffer size: `Pos`, the place up to which the request is
  consumed, what is left of the chunk or body, and how much the absorber was
  given belong to the same place of the request (`SizedPlace`, `HeaderPlace`,
  `DataPlace`, `TrailerPlace`), the buffer holds the bytes just behind it
  (`BufHolds`), and what was given is a prefix of the body (`GotPrefix`). An end of line or of the header
  that is not there yet is found where it is once the bytes come
  (`HeaderEndStays`, `LineEndIs`). From it follow
  `TypeCorrect`, `WaitsCorrect` (the parser waits only for bytes it has not
  been sent), `DataCallsCorrect`, and `BodyStreamImplemented`: each step
  is a step of `BodyStream` or a stutter, up to a data call whose remaining
  size does not fit an `int`. `MessageAssumption` says what a
  well-formed request is, of any size; only the receive buffer must be smaller
  than half of an `int`'s range (`SizeAssumption`).
- **HttpResponseProofs.** `IInv` = `TypeOK` + `NoByteLostOrRepeated` +
  `EndedIsComplete` + *nothing was sent while the request is read*. The last
  conjunct is why `_HTTPServerAccept` must reset `windex`: the request callback
  starts a response at the front of the buffer and does not touch it.
  `DispatchImplementsResponse`: with its requests dispatched, a slot is still a
  slot of `HttpResponse`, so these hold of every handler
  (`DispatchedResponses`). `ApiCorrect`: each `strsep` cuts at the delimiter the
  client wrote, because the piece in front of it holds none (`CutAtDelimiter`),
  so `Api` gets the parts it was meant to, and only `Api` URLs get there.
  `ParametersCorrect`: the parameters come back from their query string, for any
  number of them and any values. What the encoder writes for a byte holds no
  `&`, and the decoder reads that byte from it whatever comes behind
  (`EscapedIs`); the rest is induction over the text. The library states
  induction with an operator parameter, which the provers cannot instantiate; it
  is done here on sets: the shortest text that is not read back would need a
  shorter one (`ShorterFirst`, from the least member of a set of numbers). That
  the recursive functions exist at all, and so satisfy their equations, is a
  theorem too (`Recursion`), and is proved for each before its equation is used.
- **MultipartProofs.** `TypeOK` of the absorber: header, data and match stay
  within their bounds for any body, separator and sizes. The lemma `Remainder`
  is the arithmetic of `expunge`: what is left of the data is less than a buffer.
  `PartStreamImplemented`: each step is a step of `PartStream` or a stutter, for
  any number of parts, data and buffer sizes, if no part is empty
  (`NoEmptyPart`). `PartInv` says at which place of the body the parser is: in
  front of the first separator (`DitchPlace`), in the header of a part
  (`HeaderPlace`), or in its data (`DataPlace`), where what was given,
  what is in the data buffer and the matched part of the separator make up the
  data up to this byte. The crux is that the parser, which after a mismatch only
  looks at whether the byte starts a separator anew, misses none: a separator
  starts with CR and holds no other, so a partial match can be overlapped by
  nothing. A separator is therefore found exactly where it first occurs. The
  first byte behind a header is stored without being compared, so this fails for
  an empty part and for no other: `EveryPartIsFound` is the property that
  `multipart_empty_part` violates, proved under `NoEmptyPart`. How many fields a
  header's lines hold (`Fields`) is taken from the body's description here, and
  checked by TLC.
- **UsartRingProofs.** For every length of the ring and any interrupts, without
  a further hypothesis: `TypeCorrect` (no access leaves the buffer, not even
  after an overwrite), `InOrderCorrect` and `RefusedCorrect` (until a byte is
  overwritten), and `WaitingCorrect`: `USART_Readable`, whose three accesses are
  apart, answers with a number of bytes between those that were unread all
  along and those that were unread at some time of the call, if the ring did
  not start over meanwhile. The invariant says which numbers lie at which
  indices, of the ring that
  `ovr` and `rIdx` describe once a wrap under way is complete (`Start`,
  `Wrapped`), and that what `PopQueue` has found out is not undone by a push
  (`PopInv`): the reason why the reader needs no lock.
- **UsartProofs.** `DriverImplementsRing`: each step of the driver is a step of
  the ring or leaves it alone, so all of the above holds of the driver. Any
  number of slots and any interrupts: `TxTypeCorrect`, always, and until
  `USART_Send` is disturbed
  `NoStreamStranded`, because the pending streams lie next to each other from
  the handler's index on (`NoGaps`): the first offset the handler tries is the
  next stream's, and the slots its search leaves out never hold one. And
  `TxInOrder`, because the bytes on their way lie in the streams in slot order,
  none missing and none twice (`Within`, `Ordered`, `Complete`), which makes the
  first byte of the handler's slot the next one (`HeadIsNext`).
- **FreeRTOSServerProofs.** `OneReader`, `CommandIsStable` and `TypeOK`, for any
  number of links and slots, any chip and any preemption. One lemma per task
  says what its steps can do to the mutex, the command and the tasks' places;
  the invariant adds `CommandHeld`: the command task has a command from the
  resume until it clears it, and that is what makes the server's test that
  there is none (`Quiet`) fail and keeps the command as it is, without a lock.
- **FreeRTOSSocketProofs.** What the server may rely on, for any number of
  links, slots and connections and a chip that speaks at any time.
  *However tasks are preempted and peers close:* `BusyCorrect`, because the byte
  the server is about to write back has the mark if the socket has it
  (`StoreKeepsBusy`): the mark is set by the server alone, in that write. And
  `OnlyWriteBackLosesCorrect`: each other step of the three tasks that puts a
  connection or bytes where they wait writes their bit, or is about to.
  *With patient peers:* `PlaceInv` says that a link is in one place at most,
  announced in the ring, waiting to be accepted, or in one slot, and its
  connection is open as long; `OneSlotCorrect` is a part of it. `SentInv` adds
  that none of these has been sent a response but a slot that knows it, and
  that a response is sent to a connection without one: `AnsweredOnceCorrect`.
  `ByteInv` adds whose bytes lie where: payload in the ring behind a link's last
  announcement and in its queue is of the link's present connection
  (`OwnBytes`). It needs that the parse task stops at a frame's end
  (`FramesWhole`, `RestWhole`), that needs a queue that is never full, and that
  is a counting argument: what is in ring and queue is no more than what the
  peer has sent (`Fits`). Hence the hypothesis of `ReadsOwnCorrect` that a queue
  holds the frames of one connection; with less the parse task takes the
  messages behind a frame for payload, a hazard the code is exposed to.
  One lemma per task says what its steps do to the ring: take from its front
  and add others, of none of the kinds that matter, behind it (`Moves`).

Only model-checked: all liveness (`EveryRequestServed` and the like; out of the
prover's reach), and what `_ParseMultiPartHeader` makes of a header's lines.
Every invariant and every refinement that a passing run checks is a theorem,
some under the hypotheses named above.

## 5. Where code and documentation disagree

Each is a run with `expect: violation`; the texts with lines and quotations
are in `PROJECT.json`, `findings`.

1. `http_response_stale`: `_HTTPServerAccept` does not reset the response. A
   connection that ends while a file is streamed leaves `res.BodyCB`, and the
   rest of that file follows the next response on the slot.
2. `multipart_empty_part`: the separator behind a part without data is not
   recognised. `EveryPartIsFound` shows that no other part is missed.
3. `usart_preempted`: a byte received between the writes of `pBuf` and `BufLen`
   makes the handler clear the stream that is being filled; two received while
   `USART_Send` looks for a slot make it pass the stream over. Either way the
   interrupt is disabled and bytes are never sent.
4. `freertos_lost_resume`: a command given between the end of the last command
   and the command task's suspension is never carried out, and every later call
   waits for ever.
5. `freertos_peer_closes`: a peer that closes first leaves its slot taken.

Known and without a run of their own, each found with the models:

- A POST without framing is not read until the peer disconnects, as
  `http_protocol.c:204-206` says; `_GetBody` ends it after the header.
- `ReadSock` returns 0 for a full buffer (`server.c:136`), which the event loop
  takes for the peer's end of file.
- In a truncated part header the second loop of `_ParseMultiPartHeader` reads
  pointers that were never written (`multipart.c:77`, `306`).
- After a byte that does not go on with the end of a part's header, the parser
  does not look whether that byte starts one (`multipart.c:286-290`): a last
  line that ends in an extra CR hides the end. `BodyAssumption` excludes it.
- A byte received while the reader of a full ring starts over at the front
  overwrites the oldest byte (`usart.c:94`). The `usart` run contains the step;
  from there on the order is lost.
- When the ring starts over during `USART_Readable`, after `ovr` was read as 0,
  the answer can be negative, or 0 with bytes unread (`usart.c:114-118`), which
  its callers take for "nothing there". The `usart` run contains it as well.
- An interrupt between the writes of `pBuf` and `BufLen` (`usart.c:289-290`) may
  clear the first before the second is written; when the index comes round to
  that slot, bytes are sent from NULL.
- The server writes a socket's state, or the listener's, back as it had read it
  (`mac_esp8266.c:503-506`, `532-535`, `599`): a notification the parse task
  makes in between is overwritten, and the request or connection waits until
  the next one.
- `parse_url_static` decodes the URI after it was cut at its delimiters, so
  only up to the first: `%20` in a path stays (`url.c:166-167`).
- Sizes are cast to `int` in `_HandleContentSize` and `_HandleChunked`, so that
  from 2^31 bytes on the first data call of a body may have a length that is
  not positive. `http_protocol` contains such requests;
  `DataCallsNotEmpty` says that nothing else makes such a call, and the model
  ends with it.

## 6. What is not modelled

- `HTTPServerInit` when `socket()` or `bind()` fail, `HTTPServerClose` of the C
  server: the loop is not running. `RawCopy` and the client mode of
  `http_protocol.c`: used by `assembly_test.c` only. Allocation failures.
- Byte values other than those the framing tells apart, so no NUL in a chunk
  line or a form's value; `memcpy` on overlapping regions moves the bytes, as
  the C libraries in use do; SIGPIPE at a `send` is an error return.
- Texts: response headers, MIME types. How long `ApiBody` may append: the
  response buffer is a count of bytes that fits.
- FreeRTOS: `xTaskCreate` and `xQueueCreate` failing; the length of lines and of
  answers (an answer that comes in pieces is only distinguished at start-up);
  a command other than send and close, which nothing sets; the lifetime of
  the buffer a response is sent from; a number read into a `uint16_t` by
  `sscanf("%d")`; USART2, which only prints.
- Whether the ESP8266 echoes `AT+CIPCLOSE`: the answer may start with a number
  or not.
- The Python server, `assembly_test.c`, `autotest/`, `assembly.py`, the board
  setup (vendor code) and the demo pages.

## 7. Plan

Done, in this order: `HttpServer` with `ConnectionPool`, `HttpProtocol` with
`BodyStream`, `HttpResponse`, `Multipart` with `PartStream`, `UsartRing` and
`Usart`, `Esp8266` with `FreeRTOSServer`, `Url` with `Dispatch`; proofs for all
of them.

Left:

1. `Connection`: receiving and sending side of one slot composed, with the
   file and absorber resources it opens (what is opened is closed).
2. `PyServer`: the `select` loop whose requests are read with blocking calls.
3. `_ParseMultiPartHeader`: a statement of which lines are fields, and a proof
   that the two loops over `lines[]` find them.
