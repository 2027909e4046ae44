------------------------------ MODULE Multipart ------------------------------
(***************************************************************************)
(* multipart.c: the absorber that splits the body of a request into parts  *)
(* while it comes in.  A body is handed over in calls of filestream_in,    *)
(* with bytes cut anywhere; all of the parser's state is in the stream     *)
(* struct and each iteration of the loop looks at one byte, so an          *)
(* iteration is a step here, and a call ends between any two of them.      *)
(*                                                                         *)
(* Bytes are CR, LF, ":" (text of a header line), and others.              *)
(***************************************************************************)
EXTENDS Integers, Sequences, SequencesExt

CONSTANTS
    Bodies,      \* the bodies peers send: records [type, text, parts, cut,
                 \* first, starts]
    Boundary,    \* CR LF - - and the boundary of the Content-Type header
    HeaderMax,   \* bytes of a part's header that are kept (1024 - 3)
    DataMax,     \* sizeof(stream->data)
    MaxLines     \* lines of a part's header that are looked at (8)

ASSUME SizeAssumption ==
    /\ DataMax \in Nat \ {0, 1} /\ HeaderMax \in Nat \ {0}
    /\ MaxLines \in Nat \ {0}

\* The boundary is text of a header line: no CR comes behind the first.
ASSUME BoundaryAssumption ==
    /\ Boundary \in Seq(STRING) /\ Len(Boundary) >= 4
    /\ Boundary[1] = "CR" /\ Boundary[2] = "LF"
    /\ \A i \in 2 .. Len(Boundary) : Boundary[i] # "CR"

VARIABLES
    body,        \* the body that comes in: its Content-Type, its bytes, the
                 \* parts it consists of, and whether it is cut short
    fed,         \* how many of its bytes filestream_in has looked at
    \* struct _FileStream
    state, matchState, header, data,
    \* what the callback was told: where it is, and the parts it was given
    phase, given

stream == <<state, matchState, header, data>>
vars   == <<body, fed, stream, phase, given>>

Init ==
    /\ body \in Bodies /\ fed = 0
    /\ state = "eInit" /\ matchState = 0 /\ header = <<>> /\ data = <<>>
    /\ phase = "none" /\ given = <<>>

-----------------------------------------------------------------------------
(* The blocks of data the callback gets add to the part it was told of. *)
GiveData(g, bytes) == [g EXCEPT ![Len(g)].data = @ \o bytes]

(* stream->data[stream->data_size++] = ..., and expunge() when it is full. *)
StoreUntilOver(bytes) ==
    LET all == data \o bytes
        n   == IF Len(all) > DataMax THEN Len(all) ELSE 0
    IN  /\ given' = GiveData(given, SubSeq(all, 1, n))
        /\ data' = SubSeq(all, n + 1, Len(all))
Store(bytes) ==
    LET all == data \o bytes
        n   == DataMax * (Len(all) \div DataMax)
    IN  /\ given' = GiveData(given, SubSeq(all, 1, n))
        /\ data' = SubSeq(all, n + 1, Len(all))

(* _ParseMultiPartHeader.  The lines of header[2..]: a line ends at a CR,  *)
(* which is skipped with the byte behind it; an empty line is the last one *)
(* looked at, and so is one without a CR.                                  *)
HeaderLines(text) ==
    LET Ends(a) == {k \in a .. Len(text) : text[k] = "CR"}
        EndOf(a) == IF Ends(a) = {} THEN Len(text) + 1
                    ELSE CHOOSE k \in Ends(a) : \A j \in Ends(a) : k <= j
        line[n \in 1..MaxLines] ==     \* where the n-th line starts, 0: nowhere
          IF n = 1 THEN 1
          ELSE LET a == line[n - 1]
               IN  IF a = 0 \/ EndOf(a) = a \/ EndOf(a) > Len(text)
                     THEN 0 ELSE EndOf(a) + 2
        last == CHOOSE n \in 1..MaxLines :
                  line[n] > 0 /\ (n = MaxLines \/ line[n + 1] = 0)
    IN  [n \in 1..last |-> SubSeq(text, line[n], EndOf(line[n]) - 1)]

(* Its fields: the lines before the first that has no ":".  When there is  *)
(* none the loop goes on to elements of lines[] that were never written:   *)
(* what they point to may look like a field, or like none.                 *)
Fields(text) ==
    LET lines  == HeaderLines(text)
        fields == {n \in 1 .. Len(lines) :
                     \A m \in 1..n : \E i \in DOMAIN lines[m] : lines[m][i] = ":"}
        count  == IF fields = {} THEN 0 ELSE Max(fields)
    IN  count .. IF count = Len(lines) /\ count < MaxLines
                   THEN count + 1 ELSE count

-----------------------------------------------------------------------------
(* What a body is, as its sender means it, and what the properties are     *)
(* stated for: it consists of `parts`; the first part's header comes       *)
(* behind `first` bytes, and the data of part k behind starts[k].  No      *)
(* action looks at these fields.                                           *)
HeaderEnd == <<"CR", "LF", "CR", "LF">>

DataEnd(b, k)     == b.starts[k] + Len(b.parts[k].data)
HeaderStart(b, k) == IF k = 1 THEN b.first
                              ELSE DataEnd(b, k - 1) + Len(Boundary)

(* The text, as if the end of a line came before it: a separator begins    *)
(* with one, but for the first.                                            *)
TextAt(b, i)    == CASE i = -1 -> "CR" [] i = 0 -> "LF" [] OTHER -> b.text[i]
Occurs(b, s, i) == /\ i + Len(s) - 1 <= Len(b.text)
                   /\ \A j \in 1 .. Len(s) : TextAt(b, i + j - 1) = s[j]

(* The first s at or behind `from` comes right behind `end`. *)
EndsIn(b, s, from, end) ==
    Occurs(b, s, end + 1) /\ \A i \in from .. end : ~Occurs(b, s, i)

(* A header is behind the separator's line, holds a field, and ends in an  *)
(* empty line; all of it is kept.  The last line's text does not end in a  *)
(* CR or LF: the parser looks for the empty line anew behind the byte that *)
(* does not go on with it (multipart.c:286-290).                           *)
HeaderIs(b, k) ==
    LET h == HeaderStart(b, k)
        s == b.starts[k]
    IN  /\ h + 5 <= s /\ s <= h + HeaderMax
        /\ EndsIn(b, HeaderEnd, h + 2, s - 4)
        /\ b.text[s - 4] \notin {"CR", "LF"}
        /\ Fields(SubSeq(b.text, h + 3, s)) = {b.parts[k].fields}

(* A body that is cut short ends in the data of its last part, not within  *)
(* what may be a separator.                                                *)
DataIs(b, k) ==
    LET s == b.starts[k]
        e == DataEnd(b, k)
    IN  /\ e <= Len(b.text) /\ b.parts[k].data = SubSeq(b.text, s + 1, e)
        /\ IF b.cut /\ k = Len(b.parts)
             THEN /\ e = Len(b.text)
                  /\ \A i \in s + 1 .. e :
                       /\ ~Occurs(b, Boundary, i)
                       /\ ~IsPrefix(SubSeq(b.text, i, e), Boundary)
             ELSE EndsIn(b, Boundary, s + 1, e)

(* Something comes behind the last separator, but no header. *)
ClosingIs(b) ==
    LET h == HeaderStart(b, Len(b.parts) + 1)
    IN  /\ h < Len(b.text)
        /\ \A i \in h + 2 .. Len(b.text) - 4 : ~Occurs(b, HeaderEnd, i)

IsMultipart(b) ==
    /\ b.first \in Nat /\ b.first + 2 >= Len(Boundary)
    /\ b.starts \in Seq(Nat) /\ Len(b.starts) = Len(b.parts)
    /\ EndsIn(b, Boundary, -1, b.first - Len(Boundary))
    /\ \A k \in 1 .. Len(b.parts) : HeaderIs(b, k) /\ DataIs(b, k)
    /\ IF b.cut THEN b.parts # <<>> ELSE ClosingIs(b)

ASSUME BodyAssumption ==
    \A b \in Bodies :
        /\ b.text \in Seq(STRING) /\ b.cut \in BOOLEAN
        /\ b.parts \in Seq([fields : Nat, data : Seq(STRING)])
        /\ \/ b.type = "multipart" /\ IsMultipart(b)
           \/ b.type = "raw" /\ b.parts = <<[fields |-> 0, data |-> b.text]>>

-----------------------------------------------------------------------------
(* setup_multipart and its first call of filestream_in, when there is      *)
(* memory for both.  A body whose Content-Type is not multipart, or gives  *)
(* no boundary, is one part of raw data.                                   *)
Setup ==
    /\ state = "eInit"
    /\ \/ /\ body.type = "multipart"
          /\ state' = "eDitch" /\ matchState' = 2
          /\ phase' = "between" /\ given' = given
       \/ /\ body.type = "raw"
          /\ state' = "eBinary" /\ UNCHANGED matchState
          /\ phase' = "inside" /\ given' = <<[fields |-> 0, data |-> <<>>]>>
    /\ UNCHANGED <<body, fed, header, data>>

More == fed < Len(body.text)
Byte == body.text[fed + 1]

RawBytes ==
    /\ state = "eBinary" /\ More
    /\ \E n \in 1 .. Len(body.text) - fed :
         /\ given' = GiveData(given, SubSeq(body.text, fed + 1, fed + n))
         /\ fed' = fed + n
    /\ UNCHANGED <<body, stream, phase>>

Searching == state \in {"eDitch", "eData"} /\ More
Matched   == matchState = Len(Boundary)
NextByte  == fed' = fed + 1 /\ UNCHANGED body

(* The byte behind a separator: the part before it ends, and the byte is   *)
(* the first of a header.                                                  *)
Separator ==
    /\ Searching /\ Matched
    /\ state' = "eHeader" /\ matchState' = 0 /\ header' = <<Byte>>
    /\ IF state = "eData"
         THEN given' = GiveData(given, data) /\ phase' = "between"
         ELSE UNCHANGED <<given, phase>>
    /\ data' = <<>> /\ NextByte

SeparatorByte ==
    /\ Searching /\ ~Matched /\ Byte = Boundary[matchState + 1]
    /\ matchState' = matchState + 1
    /\ UNCHANGED <<state, header, data, phase, given>> /\ NextByte

(* A byte that does not go on with the separator: those matched so far are *)
(* data after all, and it is data itself unless a separator starts with it.*)
NoSeparatorForgets ==
    /\ Searching /\ ~Matched /\ Byte # Boundary[matchState + 1]
    /\ matchState' = 0
    /\ IF state = "eData"
         THEN Store(SubSeq(Boundary, 1, matchState) \o <<Byte>>)
         ELSE UNCHANGED <<data, given>>
    /\ UNCHANGED <<state, header, phase>> /\ NextByte
NoSeparator ==
    /\ Searching /\ ~Matched /\ Byte # Boundary[matchState + 1]
    /\ matchState' = IF Byte = Boundary[1] THEN 1 ELSE 0
    /\ IF state = "eData"
         THEN Store(SubSeq(Boundary, 1, matchState)
                      \o IF Byte = Boundary[1] THEN <<>> ELSE <<Byte>>)
         ELSE UNCHANGED <<data, given>>
    /\ UNCHANGED <<state, header, phase>> /\ NextByte

(* The byte behind the empty line of a header: a part is opened, and the   *)
(* byte is the first of its data whatever it is.                           *)
HeaderDone ==
    /\ state = "eHeader" /\ More /\ matchState = 4
    /\ \E n \in Fields(SubSeq(header, 3, Len(header))) :
         given' = Append(given, [fields |-> n, data |-> <<>>])
    /\ state' = "eData" /\ matchState' = 0 /\ header' = <<>>
    /\ data' = <<Byte>> /\ phase' = "inside" /\ NextByte

(* A byte of a header; those beyond HeaderMax are dropped. *)
HeaderByte ==
    /\ state = "eHeader" /\ More /\ matchState < 4
    /\ matchState' = IF Byte = HeaderEnd[matchState + 1] THEN matchState + 1
                                                         ELSE 0
    /\ header' = IF Len(header) < HeaderMax THEN Append(header, Byte) ELSE header
    /\ UNCHANGED <<state, data, phase, given>> /\ NextByte

(* The terminating call: the body is complete, as its framing says.  The   *)
(* part that was open is closed when there is data left, but not if all of *)
(* it was just handed over.                                                *)
Terminate ==
    /\ state \in {"eBinary", "eDitch", "eData", "eHeader"} /\ ~More
    /\ state' = "eTerminated" /\ data' = <<>>
    /\ given' = IF data # <<>> THEN GiveData(given, data) ELSE given
    /\ phase' = IF phase = "inside" /\ state = "eData" /\ data = <<>>
                  THEN "endedInside" ELSE "ended"
    /\ UNCHANGED <<body, fed, matchState, header>>

(* The connection was closed before: everything is released. *)
Abort ==
    /\ state \in {"eBinary", "eDitch", "eData", "eHeader"}
    /\ state' = "eTerminated" /\ phase' = "aborted"
    /\ UNCHANGED <<body, fed, matchState, header, data, given>>

FilestreamIn ==
    \/ RawBytes
    \/ Separator \/ SeparatorByte \/ NoSeparator
    \/ HeaderDone \/ HeaderByte
    \/ Terminate \/ Abort

Next == Setup \/ FilestreamIn

Spec == Init /\ [][Next]_vars

-----------------------------------------------------------------------------
(* Type correctness: the buffers are never exceeded, and at least one byte *)
(* of the data buffer is free when a byte is stored (multipart.c:262-265,  *)
(* 296-299, 306-308).                                                      *)
TypeOK ==
    /\ fed \in 0 .. Len(body.text)
    /\ state \in {"eInit", "eBinary", "eDitch", "eHeader", "eData", "eTerminated"}
    /\ matchState \in 0 .. IF state = "eHeader" THEN 4 ELSE Len(Boundary)
    /\ Len(header) <= HeaderMax /\ Len(data) < DataMax
    /\ phase \in {"none", "between", "inside", "ended", "endedInside", "aborted"}

(* The callback is given the parts of the body as PartStream promises: the *)
(* parser agrees with the grammar of multipart bodies on every body, its   *)
(* data may be anything but a separator, and how it is cut into calls does *)
(* not matter (multipart.c:226-334).  Only a body that is cut short may    *)
(* leave its last part open.                                               *)
Parts == INSTANCE PartStream WITH
           PartLists <- {b.parts : b \in Bodies}, parts <- body.parts,
           phase <- IF phase = "endedInside" /\ body.cut THEN "ended" ELSE phase

ImplementsPartStream == Parts!Spec

(* "(SEPARATOR, (HEADER FIELD)+, EMPTY_LINE, DATA)+, SEPARATOR"            *)
(* (multipart.c:36), where DATA may be empty: the parts found are the      *)
(* parts there are.                                                        *)
EveryPartFound ==
    phase = "ended" => Len(given) = Len(body.parts)

=============================================================================
