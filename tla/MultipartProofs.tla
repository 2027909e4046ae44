-------------------------- MODULE MultipartProofs --------------------------
(***************************************************************************)
(* The multipart absorber stays within its buffers, whatever the body is:  *)
(* the header, the data and the match with the separator (TypeCorrect).    *)
(* What it gives its callback are the parts of the body                    *)
(* (PartStreamImplemented): the second invariant, PartInv, says at which   *)
(* place in the body the parser is, and each step leads to the next one.   *)
(***************************************************************************)
EXTENDS Multipart, SequenceTheorems, TLAPS

DataInv == data \in Seq(STRING) /\ header \in Seq(STRING) /\ body \in Bodies

IInv == TypeOK /\ DataInv

LEMMA InitIInv == Init => IInv
<1> SUFFICES ASSUME Init PROVE IInv
  OBVIOUS
<1>1. <<>> \in Seq(STRING) /\ Len(<<>>) = 0
  OBVIOUS
<1>2. body.text \in Seq(STRING)
  BY BodyAssumption DEF Init
<1>3. QED
  BY <1>1, <1>2, SizeAssumption, BodyAssumption DEF Init, IInv, TypeOK, DataInv

(* At least one byte is free once a byte was stored: a full buffer is      *)
(* handed over, and what remains is less than a buffer.                    *)
LEMMA Remainder ==
    ASSUME NEW n \in Nat
    PROVE  /\ DataMax * (n \div DataMax) \in 0..n
           /\ n - DataMax * (n \div DataMax) < DataMax
BY SizeAssumption

LEMMA StoreFits ==
    ASSUME DataInv, NEW bytes \in Seq(STRING), Store(bytes)
    PROVE  data' \in Seq(STRING) /\ Len(data') < DataMax
<1> DEFINE all == data \o bytes
           n   == DataMax * (Len(all) \div DataMax)
<1>1. all \in Seq(STRING) /\ Len(all) \in Nat
  BY DEF DataInv
<1>2. n \in 0..Len(all) /\ Len(all) - n < DataMax
  BY <1>1, Remainder
<1>3. data' = SubSeq(all, n + 1, Len(all))
  BY DEF Store
<1> HIDE DEF all, n
<1>4. SubSeq(all, n + 1, Len(all)) \in Seq(STRING)
  BY <1>1, <1>2
<1>5. Len(SubSeq(all, n + 1, Len(all))) = Len(all) - n
  BY <1>1, <1>2
<1>6. QED
  BY <1>2, <1>3, <1>4, <1>5

(* What is known of the step's byte, and of the body. *)
LEMMA ByteIsString ==
    ASSUME IInv, More
    PROVE  /\ Byte \in STRING /\ fed + 1 \in 0..Len(body.text)
           /\ <<Byte>> \in Seq(STRING) /\ Len(<<Byte>>) = 1
<1>1. body.text \in Seq(STRING) /\ fed \in 0..Len(body.text)
  BY BodyAssumption DEF IInv, TypeOK, DataInv
<1>2. fed + 1 \in 1..Len(body.text)
  BY <1>1 DEF More
<1>3. Byte \in STRING
  BY <1>1, <1>2 DEF Byte
<1> HIDE DEF Byte
<1>4. QED
  BY <1>2, <1>3

LEMMA SetupKeeps == ASSUME IInv, Setup PROVE IInv'
<1>1. UNCHANGED <<body, fed, header, data>>
  BY DEF Setup
<1>2. /\ state' \in {"eDitch", "eBinary"} /\ phase' \in {"between", "inside"}
      /\ matchState' \in {2, matchState} /\ state = "eInit"
  BY DEF Setup
<1>3. QED
  BY <1>1, <1>2, BoundaryAssumption, BodyAssumption DEF IInv, TypeOK, DataInv

LEMMA RawKeeps == ASSUME IInv, RawBytes PROVE IInv'
<1>1. UNCHANGED <<body, state, matchState, header, data, phase>>
  BY DEF RawBytes, stream
<1>2. fed' \in 0..Len(body.text)
  <2>1. PICK n \in 1 .. Len(body.text) - fed : fed' = fed + n
    BY DEF RawBytes
  <2>2. fed \in 0..Len(body.text) /\ Len(body.text) \in Nat
    BY BodyAssumption DEF IInv, TypeOK, DataInv
  <2>3. QED
    BY <2>1, <2>2
<1>3. QED
  BY <1>1, <1>2 DEF IInv, TypeOK, DataInv

LEMMA SeparatorKeeps == ASSUME IInv, Separator \/ SeparatorByte PROVE IInv'
<1>1. More /\ fed' = fed + 1 /\ body' = body
  BY DEF Separator, SeparatorByte, Searching, NextByte
<1>2. /\ Byte \in STRING /\ fed' \in 0..Len(body'.text)
      /\ <<Byte>> \in Seq(STRING) /\ Len(<<Byte>>) = 1
  BY <1>1, ByteIsString
<1>3. CASE Separator
  <2>1. /\ state' = "eHeader" /\ matchState' = 0 /\ header' = <<Byte>>
        /\ data' = <<>> /\ phase' \in {"between", phase}
    BY <1>3 DEF Separator
  <2>2. <<>> \in Seq(STRING) /\ Len(<<>>) = 0
    OBVIOUS
  <2>3. TypeOK'
    BY <1>2, <2>1, <2>2, SizeAssumption DEF IInv, TypeOK
  <2>4. DataInv'
    BY <1>1, <1>2, <2>1, <2>2 DEF IInv, DataInv
  <2>5. QED
    BY <2>3, <2>4 DEF IInv
<1>4. CASE SeparatorByte
  <2>1. /\ UNCHANGED <<state, header, data, phase>> /\ state # "eHeader"
        /\ matchState' = matchState + 1 /\ matchState # Len(Boundary)
    BY <1>4 DEF SeparatorByte, Searching, Matched
  <2>2. matchState' \in 0..Len(Boundary)
    BY <2>1, BodyAssumption DEF IInv, TypeOK
  <2>3. QED
    BY <1>1, <1>2, <2>1, <2>2 DEF IInv, TypeOK, DataInv
<1>5. QED
  BY <1>3, <1>4

LEMMA NoSeparatorKeeps == ASSUME IInv, NoSeparator PROVE IInv'
<1>1. More /\ fed' = fed + 1 /\ body' = body
  BY DEF NoSeparator, Searching, NextByte
<1>2. /\ Byte \in STRING /\ fed' \in 0..Len(body'.text)
      /\ <<Byte>> \in Seq(STRING)
  BY <1>1, ByteIsString
<1>3. /\ UNCHANGED <<state, header, phase>> /\ matchState' \in {0, 1}
      /\ state \in {"eDitch", "eData"}
  BY DEF NoSeparator, Searching
<1>4. data' \in Seq(STRING) /\ Len(data') < DataMax
  <2>1. CASE state = "eData"
    <3>1. PICK own \in {<<>>, <<Byte>>} :
             Store(SubSeq(Boundary, 1, matchState) \o own)
      BY <2>1 DEF NoSeparator
    <3>2. matchState \in 0..Len(Boundary)
      BY <2>1 DEF IInv, TypeOK
    <3>3. SubSeq(Boundary, 1, matchState) \in Seq(STRING)
      BY <3>2, BoundaryAssumption
    <3>4. own \in Seq(STRING)
      <4>1. <<>> \in Seq(STRING)
        OBVIOUS
      <4>2. QED
        BY <1>2, <3>1, <4>1
    <3>5. SubSeq(Boundary, 1, matchState) \o own \in Seq(STRING)
      BY <3>3, <3>4
    <3>6. QED
      BY <3>1, <3>5, StoreFits DEF IInv
  <2>2. CASE state # "eData"
    <3>1. data' = data
      BY <2>2 DEF NoSeparator
    <3>2. QED
      BY <3>1 DEF IInv, TypeOK, DataInv
  <2>3. QED
    BY <2>1, <2>2
<1>5. QED
  BY <1>1, <1>2, <1>3, <1>4, BoundaryAssumption DEF IInv, TypeOK, DataInv

LEMMA HeaderKeeps == ASSUME IInv, HeaderDone \/ HeaderByte PROVE IInv'
<1>1. More /\ fed' = fed + 1 /\ body' = body /\ state = "eHeader"
  BY DEF HeaderDone, HeaderByte, NextByte
<1>2. /\ Byte \in STRING /\ fed' \in 0..Len(body'.text)
      /\ <<Byte>> \in Seq(STRING) /\ Len(<<Byte>>) = 1
  BY <1>1, ByteIsString
<1>3. CASE HeaderDone
  <2>1. /\ state' = "eData" /\ matchState' = 0 /\ header' = <<>>
        /\ data' = <<Byte>> /\ phase' = "inside"
    BY <1>3 DEF HeaderDone
  <2>2. <<>> \in Seq(STRING) /\ Len(<<>>) = 0
    OBVIOUS
  <2>3. TypeOK'
    BY <1>2, <2>1, <2>2, SizeAssumption, BodyAssumption DEF IInv, TypeOK
  <2>4. DataInv'
    BY <1>1, <1>2, <2>1, <2>2 DEF IInv, DataInv
  <2>5. QED
    BY <2>3, <2>4 DEF IInv
<1>4. CASE HeaderByte
  <2>1. /\ UNCHANGED <<state, data, phase>> /\ matchState < 4
        /\ matchState' \in {matchState + 1, 0}
        /\ header' = IF Len(header) < HeaderMax THEN Append(header, Byte)
                                                ELSE header
    BY <1>4 DEF HeaderByte
  <2>2. header' \in Seq(STRING) /\ Len(header') <= HeaderMax
    <3>1. /\ header \in Seq(STRING) /\ Len(header) <= HeaderMax
          /\ Len(header) \in Nat /\ HeaderMax \in Nat
      BY SizeAssumption DEF IInv, TypeOK, DataInv
    <3>2. /\ Append(header, Byte) \in Seq(STRING)
          /\ Len(Append(header, Byte)) = Len(header) + 1
      BY <1>2, <3>1
    <3>3. CASE Len(header) < HeaderMax
      <4>1. header' = Append(header, Byte)
        BY <2>1, <3>3
      <4>2. Len(header') <= HeaderMax
        BY <3>1, <3>2, <3>3, <4>1
      <4>3. QED
        BY <3>2, <4>1, <4>2
    <3>4. CASE ~(Len(header) < HeaderMax)
      BY <2>1, <3>1, <3>4
    <3>5. QED
      BY <3>3, <3>4
  <2>3. matchState' \in 0..4
    BY <1>1, <2>1 DEF IInv, TypeOK
  <2>4. QED
    BY <1>1, <1>2, <2>1, <2>2, <2>3 DEF IInv, TypeOK, DataInv
<1>5. QED
  BY <1>3, <1>4

LEMMA EndKeeps == ASSUME IInv, Terminate \/ Abort PROVE IInv'
<1>1. /\ UNCHANGED <<body, fed, matchState, header>> /\ state' = "eTerminated"
      /\ phase' \in {"ended", "endedInside", "aborted"}
      /\ data' = <<>> \/ data' = data
  BY DEF Terminate, Abort
<1>2. data' \in Seq(STRING) /\ Len(data') < DataMax
  <2>1. <<>> \in Seq(STRING) /\ Len(<<>>) = 0
    OBVIOUS
  <2>2. data \in Seq(STRING) /\ Len(data) < DataMax /\ 0 < DataMax
    BY SizeAssumption DEF IInv, TypeOK, DataInv
  <2>3. QED
    BY <1>1, <2>1, <2>2
<1>3. matchState' \in 0..Len(Boundary)
  BY <1>1, BoundaryAssumption DEF IInv, TypeOK
<1>4. QED
  BY <1>1, <1>2, <1>3 DEF IInv, TypeOK, DataInv

LEMMA StepIInv == ASSUME IInv, [Next]_vars PROVE IInv'
<1>1. CASE UNCHANGED vars
  BY <1>1 DEF vars, stream, IInv, TypeOK, DataInv
<1>2. CASE Next
  BY <1>2, SetupKeeps, RawKeeps, SeparatorKeeps, NoSeparatorKeeps,
     HeaderKeeps, EndKeeps DEF Next, FilestreamIn
<1>3. QED
  BY <1>1, <1>2

(* No byte is stored beyond the header and data buffers, for any body and  *)
(* any sizes: a byte of data finds room, whatever part of a separator was  *)
(* taken for data just before (multipart.c:262-265, 296-299, 306-308).     *)
THEOREM TypeCorrect == Spec => []TypeOK
<1>1. IInv /\ [Next]_vars => IInv'
  BY StepIInv
<1>2. IInv => TypeOK
  BY DEF IInv
<1>3. QED
  BY <1>1, <1>2, InitIInv, PTL DEF Spec

-----------------------------------------------------------------------------
(***************************************************************************)
(* The parts that were found are the parts of the body.  The parser's      *)
(* state is the place in the body it has come to: what was matched so far  *)
(* of a separator, or of the end of a header, is the text in front of that *)
(* place, and where one really comes it is matched from its first byte on. *)
(***************************************************************************)
Match(b, s, f, m, lo, end) ==
    /\ lo <= f - m
    /\ \A i \in 1..m : TextAt(b, f - m + i) = s[i]
    /\ f > end => m = f - end

Found == Len(given)

(* The first k parts were given, and the next ones' headers are ahead. *)
FirstParts(k) ==
    k <= Len(body.parts) /\ \A j \in 1..k : given[j] = body.parts[j]

BinaryPlace ==
    /\ body.type = "raw" /\ phase = "inside" /\ data = <<>>
    /\ given = <<[fields |-> 0, data |-> SubSeq(body.text, 1, fed)]>>

DitchPlace ==
    /\ body.type = "multipart" /\ phase = "between" /\ data = <<>>
    /\ given = <<>>
    /\ Match(body, Boundary, fed, matchState, -2, body.first - Len(Boundary))

HeaderPlace(h) ==
    /\ body.type = "multipart" /\ phase = "between" /\ data = <<>>
    /\ FirstParts(Found) /\ h < fed
    /\ IF Found < Len(body.parts)
         THEN LET s == body.starts[Found + 1]
              IN  /\ fed <= s /\ header = SubSeq(body.text, h + 1, fed)
                  /\ Match(body, HeaderEnd, fed, matchState, h + 1, s - 4)
         ELSE /\ ~body.cut
              /\ Match(body, HeaderEnd, fed, matchState, h + 1, Len(body.text))

(* Of the data of the last part the first c bytes were given, and those in *)
(* front of the match are in the buffer.                                   *)
DataPlace(s, c) ==
    /\ body.type = "multipart" /\ phase = "inside"
    /\ given # <<>> /\ FirstParts(Found - 1) /\ Found <= Len(body.parts)
    /\ given[Found].fields = body.parts[Found].fields
    /\ given[Found].data = SubSeq(body.text, s + 1, s + c)
    /\ s + c <= fed - matchState
    /\ data = SubSeq(body.text, s + c + 1, fed - matchState)
    /\ Match(body, Boundary, fed, matchState, s + 1, DataEnd(body, Found))

Part == [fields : Nat, data : Seq(STRING)]

PartInv ==
    /\ given \in Seq(Part)
    /\ state = "eInit" => /\ phase = "none" /\ given = <<>> /\ fed = 0
                          /\ data = <<>>
    /\ state = "eBinary" => BinaryPlace
    /\ state = "eDitch"  => DitchPlace
    /\ state = "eHeader" => HeaderPlace(HeaderStart(body, Found + 1))
    /\ state = "eData"   => DataPlace(body.starts[Found], Len(given[Found].data))
    /\ phase = "ended"   => state = "eTerminated" /\ given = body.parts
    /\ phase = "endedInside" =>
         state = "eTerminated" /\ body.cut /\ given = body.parts

-----------------------------------------------------------------------------
(* Facts about texts.                                                      *)

LEMMA PieceIs ==
    ASSUME NEW t \in Seq(STRING), NEW a \in Nat, NEW c \in a .. Len(t)
    PROVE  /\ SubSeq(t, a + 1, c) \in Seq(STRING)
           /\ Len(SubSeq(t, a + 1, c)) = c - a
           /\ \A i \in 1 .. c - a : SubSeq(t, a + 1, c)[i] = t[a + i]
  OBVIOUS

(* n more bytes, of those there are up to q, after the first m from s.      *)
LEMMA StillInside ==
    ASSUME NEW s \in Nat, NEW m \in Nat, NEW q \in Int, NEW last \in Nat,
           q <= last, NEW n \in 0 .. q - (s + m)
    PROVE  s + m + n <= q /\ s + m + n \in s .. last /\ m + n \in Nat
  OBVIOUS

(* A header that leaves five bytes before its part starts before the end.  *)
LEMMA StartsBefore ==
    ASSUME NEW header0 \in Nat, NEW start \in Nat, NEW size \in Nat,
           NEW end, NEW last \in Nat,
           header0 + 5 <= start, end = start + size, end <= last
    PROVE  header0 < last
  OBVIOUS

(* A first separator that starts before the text is two bytes old, unless  *)
(* it starts at the second of these.                                       *)
LEMMA TwoBytesIn ==
    ASSUME NEW first \in Nat, NEW size \in Nat, first + 2 >= size,
           first - size # -1
    PROVE  0 > first - size => 2 = 0 - (first - size)
  OBVIOUS

LEMMA PiecesJoin ==
    ASSUME NEW t \in Seq(STRING), NEW a \in Nat, NEW b \in a .. Len(t),
           NEW c \in b .. Len(t)
    PROVE  SubSeq(t, a + 1, b) \o SubSeq(t, b + 1, c) = SubSeq(t, a + 1, c)
<1>1. a + 1 \in 1 .. Len(t) + 1 /\ b \in (a + 1) - 1 .. Len(t)
  OBVIOUS
<1>2. QED
  BY <1>1, ConcatAdjacentSubSeq

LEMMA PieceOfPiece ==
    ASSUME NEW t \in Seq(STRING), NEW a \in Nat, NEW c \in a .. Len(t),
           NEW m \in Nat, NEW n \in m .. c - a
    PROVE  SubSeq(SubSeq(t, a + 1, c), m + 1, n) = SubSeq(t, a + m + 1, a + n)
<1> DEFINE p == SubSeq(t, a + 1, c)
           l == SubSeq(p, m + 1, n)
           r == SubSeq(t, a + m + 1, a + n)
<1>1. p \in Seq(STRING) /\ Len(p) = c - a /\ \A i \in 1 .. c - a : p[i] = t[a + i]
  BY PieceIs
<1> HIDE DEF p
<1>2. l \in Seq(STRING) /\ Len(l) = n - m /\ \A i \in 1 .. n - m : l[i] = p[m + i]
  BY <1>1, PieceIs
<1>3. /\ a + m \in Nat /\ a + n \in a + m .. Len(t)
  OBVIOUS
<1>4. r \in Seq(STRING) /\ Len(r) = n - m /\ \A i \in 1 .. n - m : r[i] = t[a + m + i]
  BY <1>3, PieceIs
<1> HIDE DEF l, r
<1>5. \A i \in 1 .. n - m : l[i] = r[i]
  <2> TAKE i \in 1 .. n - m
  <2>1. m + i \in 1 .. c - a
    OBVIOUS
  <2>2. p[m + i] = t[a + (m + i)]
    BY <1>1, <2>1
  <2>3. QED
    BY <1>2, <1>4, <2>2
<1>6. l = r
  BY <1>2, <1>4, <1>5, SeqEqual
<1>7. QED
  BY <1>6 DEF l, r, p

LEMMA FrontOfPiece ==
    ASSUME NEW t \in Seq(STRING), NEW a \in Nat, NEW c \in a .. Len(t),
           NEW n \in 0 .. c - a
    PROVE  SubSeq(SubSeq(t, a + 1, c), 1, n) = SubSeq(t, a + 1, a + n)
<1>1. SubSeq(SubSeq(t, a + 1, c), 0 + 1, n) = SubSeq(t, a + 0 + 1, a + n)
  BY PieceOfPiece
<1>2. 0 + 1 = 1 /\ a + 0 + 1 = a + 1
  OBVIOUS
<1>3. QED
  BY <1>1, <1>2

LEMMA OneByte ==
    ASSUME NEW t \in Seq(STRING), NEW a \in Nat, a < Len(t)
    PROVE  SubSeq(t, a + 1, a + 1) = <<t[a + 1]>>
<1> DEFINE l == SubSeq(t, a + 1, a + 1)
           r == <<t[a + 1]>>
<1>1. a + 1 \in a .. Len(t) /\ a + 1 \in 1 .. Len(t) /\ t[a + 1] \in STRING
  OBVIOUS
<1>2. /\ l \in Seq(STRING) /\ Len(l) = (a + 1) - a
      /\ \A i \in 1 .. (a + 1) - a : l[i] = t[a + i]
  BY <1>1, PieceIs
<1>3. r \in Seq(STRING) /\ Len(r) = 1 /\ r[1] = t[a + 1]
  BY <1>1
<1> HIDE DEF l, r
<1>4. Len(l) = Len(r) /\ \A i \in 1 .. Len(l) : l[i] = r[i]
  BY <1>2, <1>3
<1>5. l = r
  BY <1>2, <1>3, <1>4, SeqEqual
<1>6. QED
  BY <1>5 DEF l, r

-----------------------------------------------------------------------------
(* Facts about the search for a separator, and for the end of a header.    *)

LEMMA SeparatorBytes ==
    /\ Boundary \in Seq(STRING) /\ Len(Boundary) \in Nat /\ Len(Boundary) >= 4
    /\ Boundary[1] = "CR" /\ \A i \in 2 .. Len(Boundary) : Boundary[i] # "CR"
    /\ HeaderEnd \in Seq(STRING) /\ Len(HeaderEnd) = 4
    /\ HeaderEnd[1] = "CR" /\ HeaderEnd[2] = "LF"
    /\ HeaderEnd[3] = "CR" /\ HeaderEnd[4] = "LF"
  BY BoundaryAssumption DEF HeaderEnd

(* A byte that goes on with a match: it is one byte longer.                *)
LEMMA MatchGoesOn ==
    ASSUME NEW b, NEW s, NEW f \in Nat, NEW m \in Nat, NEW lo \in Int,
           NEW end \in Int, Match(b, s, f, m, lo, end),
           TextAt(b, f + 1) = s[m + 1], f = end => m = 0
    PROVE  Match(b, s, f + 1, m + 1, lo, end)
<1>1. (f + 1) - (m + 1) = f - m
  OBVIOUS
<1>2. ASSUME NEW i \in 1 .. m + 1 PROVE TextAt(b, (f - m) + i) = s[i]
  <2>1. CASE i \in 1..m
    BY <2>1 DEF Match
  <2>2. CASE i = m + 1
    <3>1. (f - m) + i = f + 1
      BY <2>2
    <3>2. QED
      BY <2>2, <3>1
  <2>3. QED
    BY <2>1, <2>2
<1>3. lo <= f - m /\ (f > end => m = f - end)
  BY DEF Match
<1>4. f + 1 > end => m + 1 = (f + 1) - end
  BY <1>3
<1>5. QED
  BY <1>1, <1>2, <1>3, <1>4 DEF Match

(* A byte that does not, when what is searched for comes behind `end`.     *)
LEMMA MatchStartsAgain ==
    ASSUME NEW b, NEW s, NEW f \in Nat, NEW m \in Nat, NEW lo \in Int,
           NEW end \in Int, Match(b, s, f, m, lo, end), Len(s) \in Nat,
           m < Len(s), TextAt(b, f + 1) # s[m + 1],
           f >= end => Occurs(b, s, end + 1),
           NEW n \in {0, 1}, n = 1 <=> TextAt(b, f + 1) = s[1]
    PROVE  Match(b, s, f + 1, n, lo, end)
<1>1. f <= end
  <2> SUFFICES ASSUME f > end PROVE FALSE
    OBVIOUS
  <2>1. m = f - end /\ m + 1 \in 1 .. Len(s) /\ Occurs(b, s, end + 1)
    BY DEF Match
  <2>2. TextAt(b, (end + 1) + (m + 1) - 1) = s[m + 1]
    BY <2>1 DEF Occurs
  <2>3. (end + 1) + (m + 1) - 1 = f + 1
    BY <2>1
  <2>4. QED
    BY <2>2, <2>3
<1>2. f = end => n = 1
  <2> SUFFICES ASSUME f = end PROVE TextAt(b, f + 1) = s[1]
    OBVIOUS
  <2>1. Occurs(b, s, end + 1) /\ 1 \in 1 .. Len(s)
    OBVIOUS
  <2>2. TextAt(b, (end + 1) + 1 - 1) = s[1]
    BY <2>1 DEF Occurs
  <2>3. (end + 1) + 1 - 1 = f + 1
    OBVIOUS
  <2>4. QED
    BY <2>2, <2>3
<1>3. lo <= f - m
  BY DEF Match
<1>4. lo <= (f + 1) - n
  BY <1>3
<1>5. ASSUME NEW i \in 1 .. n PROVE TextAt(b, ((f + 1) - n) + i) = s[i]
  <2>1. n = 1 /\ i = 1 /\ ((f + 1) - n) + i = f + 1
    BY <1>5
  <2>2. QED
    BY <2>1
<1>6. f + 1 > end => n = (f + 1) - end
  BY <1>1, <1>2
<1>7. QED
  BY <1>4, <1>5, <1>6 DEF Match

(* A full match is an occurrence.                                          *)
LEMMA MatchOccurs ==
    ASSUME NEW b, NEW s, NEW f \in Nat, NEW lo \in Int, NEW end \in Int,
           Len(s) \in Nat, Match(b, s, f, Len(s), lo, end), f <= Len(b.text),
           Len(b.text) \in Nat
    PROVE  Occurs(b, s, f - Len(s) + 1) /\ lo < f - Len(s) + 1
<1>1. (f - Len(s) + 1) + Len(s) - 1 <= Len(b.text)
  OBVIOUS
<1>2. ASSUME NEW j \in 1 .. Len(s)
      PROVE  TextAt(b, (f - Len(s) + 1) + j - 1) = s[j]
  <2>1. (f - Len(s) + 1) + j - 1 = (f - Len(s)) + j
    OBVIOUS
  <2>2. QED
    BY <2>1 DEF Match
<1>3. lo <= f - Len(s)
  BY DEF Match
<1>4. QED
  BY <1>1, <1>2, <1>3 DEF Occurs

(* ... and when the first occurrence comes behind `end`, it is that one.   *)
LEMMA MatchIsFirst ==
    ASSUME NEW b, NEW s, NEW f \in Nat, NEW lo \in Int, NEW end \in Int,
           Len(s) \in Nat \ {0}, Match(b, s, f, Len(s), lo, end),
           f <= Len(b.text), Len(b.text) \in Nat,
           \A i \in lo + 1 .. end : ~Occurs(b, s, i)
    PROVE  f = end + Len(s)
<1>1. Occurs(b, s, f - Len(s) + 1) /\ lo < f - Len(s) + 1
  BY MatchOccurs
<1>2. f - Len(s) + 1 \notin lo + 1 .. end
  BY <1>1
<1>3. f > end
  BY <1>1, <1>2
<1>4. QED
  BY <1>3 DEF Match

(* The match never begins behind `end`.                                    *)
LEMMA MatchPlace ==
    ASSUME NEW b, NEW s, NEW f \in Nat, NEW m \in Nat, NEW lo \in Int,
           NEW end \in Int, Match(b, s, f, m, lo, end)
    PROVE  lo <= f - m /\ f - m <= end /\ (f > end => m = f - end)
  BY DEF Match

-----------------------------------------------------------------------------
(* Where the parts of a body are.                                          *)

(* No part's data is empty: such a part is not found (EveryPartFound).     *)
NoEmptyPart ==
    \A b \in Bodies : b.type = "multipart" =>
      \A k \in 1 .. Len(b.parts) : b.parts[k].data # <<>>

(* What the body is that comes in.                                         *)
LEMMA BodyIs ==
    ASSUME NEW b \in Bodies
    PROVE  /\ b.text \in Seq(STRING) /\ Len(b.text) \in Nat /\ b.cut \in BOOLEAN
           /\ b.parts \in Seq(Part)
           /\ Len(b.parts) \in Nat
           /\ \A k \in 1 .. Len(b.parts) :
                /\ b.parts[k] \in Part
                /\ Len(b.parts[k].data) \in Nat
           /\ \/ b.type = "multipart" /\ IsMultipart(b)
              \/ b.type = "raw" /\ b.parts = <<[fields |-> 0, data |-> b.text]>>
<1>1. b.parts \in Seq(Part)
  BY BodyAssumption DEF Part
<1>2. ASSUME NEW k \in 1 .. Len(b.parts)
      PROVE  /\ b.parts[k] \in Part
             /\ Len(b.parts[k].data) \in Nat
  <2>1. b.parts[k] \in Part
    BY <1>1, ElementOfSeq
  <2>2. b.parts[k].data \in Seq(STRING)
    BY <2>1 DEF Part
  <2>3. QED
    BY <2>1, <2>2
<1>3. b.text \in Seq(STRING) /\ Len(b.text) \in Nat /\ Len(b.parts) \in Nat
  <2>1. b.text \in Seq(STRING)
    BY BodyAssumption
  <2>2. QED
    BY <1>1, <2>1, LenProperties
<1>4. /\ b.cut \in BOOLEAN
      /\ \/ b.type = "multipart" /\ IsMultipart(b)
         \/ b.type = "raw" /\ b.parts = <<[fields |-> 0, data |-> b.text]>>
  BY BodyAssumption
<1>5. QED
  BY <1>1, <1>2, <1>3, <1>4

(* A part's header comes in front of its data, all of which is in the body.*)
LEMMA PartPlaces ==
    ASSUME NEW b \in Bodies, b.type = "multipart", NEW k \in 1 .. Len(b.parts)
    PROVE  /\ b.starts[k] \in Nat /\ DataEnd(b, k) \in Nat
           /\ HeaderStart(b, k) \in Nat /\ HeaderStart(b, k) + 5 <= b.starts[k]
           /\ DataEnd(b, k) = b.starts[k] + Len(b.parts[k].data)
           /\ DataEnd(b, k) <= Len(b.text)
           /\ HeaderIs(b, k) /\ DataIs(b, k)
           /\ HeaderStart(b, k + 1) = DataEnd(b, k) + Len(Boundary)
<1>1. IsMultipart(b) /\ \A j \in 1 .. Len(b.parts) : Len(b.parts[j].data) \in Nat
  BY BodyIs
<1>2. /\ b.first \in Nat /\ b.starts \in Seq(Nat) /\ Len(b.starts) = Len(b.parts)
      /\ HeaderIs(b, k) /\ DataIs(b, k)
  BY <1>1 DEF IsMultipart
<1>3. ASSUME NEW j \in 1 .. Len(b.parts)
      PROVE  b.starts[j] \in Nat /\ DataEnd(b, j) \in Nat
  <2>1. j \in 1 .. Len(b.starts)
    BY <1>2
  <2>2. b.starts[j] \in Nat
    BY <1>2, <2>1, ElementOfSeq
  <2>3. QED
    BY <1>1, <2>2 DEF DataEnd
<1>4. HeaderStart(b, k) \in Nat
  <2>1. CASE k = 1
    BY <2>1, <1>2 DEF HeaderStart
  <2>2. CASE k # 1
    <3>1. k - 1 \in 1 .. Len(b.parts)
      BY <2>2, BodyIs
    <3>2. DataEnd(b, k - 1) \in Nat
      BY <3>1, <1>3
    <3>3. QED
      BY <2>2, <3>2, SeparatorBytes DEF HeaderStart
  <2>3. QED
    BY <2>1, <2>2
<1>5. HeaderStart(b, k) + 5 <= b.starts[k] /\ DataEnd(b, k) <= Len(b.text)
  BY <1>2 DEF HeaderIs, DataIs
<1>6. HeaderStart(b, k + 1) = DataEnd(b, k) + Len(Boundary)
  <2>1. k + 1 # 1 /\ (k + 1) - 1 = k
    BY BodyIs
  <2>2. QED
    BY <2>1 DEF HeaderStart
<1>7. QED
  BY <1>2, <1>3, <1>4, <1>5, <1>6 DEF DataEnd

(* Behind every separator more comes: a header, or something else behind   *)
(* the last one.                                                           *)
LEMMA NextHeader ==
    ASSUME NEW b \in Bodies, b.type = "multipart",
           NEW k \in 0 .. Len(b.parts), b.cut => k < Len(b.parts)
    PROVE  /\ HeaderStart(b, k + 1) \in Nat
           /\ HeaderStart(b, k + 1) < Len(b.text)
           /\ k = Len(b.parts) => ~b.cut /\ ClosingIs(b)
<1>1. IsMultipart(b) /\ Len(b.parts) \in Nat
  BY BodyIs
<1>2. CASE k < Len(b.parts)
  <2>1. k + 1 \in 1 .. Len(b.parts)
    BY <1>1, <1>2
  <2>2. PICK n : n = k + 1
    OBVIOUS
  <2>3. /\ b.starts[n] \in Nat /\ HeaderStart(b, n) \in Nat
        /\ HeaderStart(b, n) + 5 <= b.starts[n]
        /\ DataEnd(b, n) = b.starts[n] + Len(b.parts[n].data)
        /\ DataEnd(b, n) <= Len(b.text)
    BY <2>1, <2>2, PartPlaces
  <2>4. Len(b.parts[n].data) \in Nat /\ Len(b.text) \in Nat
    BY <2>1, <2>2, BodyIs
  <2>5. HeaderStart(b, n) < Len(b.text)
    BY <2>3, <2>4, StartsBefore
  <2>6. k # Len(b.parts)
    BY <1>1, <1>2
  <2>7. QED
    BY <2>2, <2>3, <2>5, <2>6
<1>3. CASE k = Len(b.parts)
  <2>1. ~b.cut /\ ClosingIs(b)
    BY <1>1, <1>3 DEF IsMultipart
  <2>2. HeaderStart(b, k + 1) \in Nat
    <3>1. CASE k = 0
      BY <3>1, <1>1 DEF HeaderStart, IsMultipart
    <3>2. CASE k # 0
      <4>1. k \in 1 .. Len(b.parts)
        BY <3>2, <1>1
      <4>2. HeaderStart(b, k + 1) = DataEnd(b, k) + Len(Boundary) /\ DataEnd(b, k) \in Nat
        BY <4>1, PartPlaces
      <4>3. QED
        BY <4>2, SeparatorBytes
    <3>3. QED
      BY <3>1, <3>2
  <2>3. QED
    BY <1>3, <2>1, <2>2 DEF ClosingIs
<1>4. QED
  BY <1>1, <1>2, <1>3

-----------------------------------------------------------------------------
(* What the callback was given.                                            *)

LEMMA PartsEqual ==
    ASSUME NEW p \in Part, NEW q \in Part, p.fields = q.fields, p.data = q.data
    PROVE  p = q
  BY DEF Part

LEMMA GiveDataIs ==
    ASSUME NEW g \in Seq(Part), g # <<>>, NEW x \in Seq(STRING)
    PROVE  /\ GiveData(g, x) \in Seq(Part) /\ Len(GiveData(g, x)) = Len(g)
           /\ \A j \in 1 .. Len(g) - 1 : GiveData(g, x)[j] = g[j]
           /\ GiveData(g, x)[Len(g)].fields = g[Len(g)].fields
           /\ GiveData(g, x)[Len(g)].data = g[Len(g)].data \o x
<1>1. Len(g) \in Nat /\ Len(g) > 0 /\ Len(g) \in 1 .. Len(g)
  OBVIOUS
<1>2. g[Len(g)] \in Part
  BY <1>1, ElementOfSeq
<1> DEFINE p == [g[Len(g)] EXCEPT !.data = @ \o x]
<1>3. g[Len(g)].data \o x \in Seq(STRING)
  BY <1>2 DEF Part
<1>4. /\ p \in Part /\ p.fields = g[Len(g)].fields
      /\ p.data = g[Len(g)].data \o x
  BY <1>2, <1>3 DEF Part
<1>5. GiveData(g, x) = [g EXCEPT ![Len(g)] = p]
  BY DEF GiveData
<1> HIDE DEF p
<1>6. /\ [g EXCEPT ![Len(g)] = p] \in Seq(Part)
      /\ Len([g EXCEPT ![Len(g)] = p]) = Len(g)
      /\ \A j \in 1 .. Len(g) - 1 : [g EXCEPT ![Len(g)] = p][j] = g[j]
      /\ [g EXCEPT ![Len(g)] = p][Len(g)] = p
  BY <1>1, <1>4
<1>7. QED
  BY <1>4, <1>5, <1>6

LEMMA GivenIs ==
    ASSUME IInv, NEW k \in 1 .. Len(body.parts),
           NEW n \in 0 .. Len(body.parts[k].data)
    PROVE  /\ Parts!Given(k, n) \in Part
           /\ Parts!Given(k, n).fields = body.parts[k].fields
           /\ Parts!Given(k, n).data = SubSeq(body.parts[k].data, 1, n)
<1>1. body.parts[k] \in Part
  BY BodyIs DEF IInv, DataInv
<1>2. body.parts[k].data \in Seq(STRING) /\ body.parts[k].fields \in Nat
  BY <1>1 DEF Part
<1>3. SubSeq(body.parts[k].data, 1, n) \in Seq(STRING)
  BY <1>2
<1>4. QED
  BY <1>1, <1>3 DEF Parts!Given, Part

(* The parts that were given are all of the body's.                        *)
LEMMA AllGiven ==
    ASSUME IInv, NEW g \in Seq(Part), Len(g) = Len(body.parts),
           \A j \in 1 .. Len(g) : g[j] = body.parts[j]
    PROVE  g = body.parts
  BY BodyIs, SeqEqual DEF IInv, DataInv

-----------------------------------------------------------------------------
(* Each step leads to the next place in the body, and is one of PartStream *)
(* or changes nothing of it.                                               *)

LEMMA InitPlaces == Init => PartInv /\ Parts!Init
<1>1. <<>> \in Seq(Part)
  OBVIOUS
<1>2. Init => PartInv
  BY <1>1 DEF Init, PartInv
<1>3. Init => Parts!Init
  BY DEF Init, Parts!Init
<1>4. QED
  BY <1>2, <1>3

LEMMA SetupPlaces ==
    ASSUME IInv, PartInv, Setup
    PROVE  PartInv' /\ Parts!Next
<1>1. /\ UNCHANGED <<body, fed, data>> /\ body \in Bodies
      /\ phase = "none" /\ given = <<>> /\ fed = 0 /\ data = <<>>
  BY DEF IInv, DataInv, PartInv, Setup
<1>2. CASE body.type = "multipart"
  <2>1. /\ state' = "eDitch" /\ matchState' = 2 /\ phase' = "between"
        /\ given' = given
    BY <1>2 DEF Setup
  <2>2. /\ body.first \in Nat /\ body.first + 2 >= Len(Boundary)
        /\ EndsIn(body, Boundary, -1, body.first - Len(Boundary))
    BY <1>1, <1>2, BodyIs DEF IsMultipart
  <2>3. Match(body, Boundary, 0, 2, -2, body.first - Len(Boundary))
    <3>1. ASSUME NEW i \in 1..2 PROVE TextAt(body, 0 - 2 + i) = Boundary[i]
      BY BoundaryAssumption DEF TextAt
    <3>2. 0 > body.first - Len(Boundary) => 2 = 0 - (body.first - Len(Boundary))
      <4> SUFFICES ASSUME body.first - Len(Boundary) = -1 PROVE FALSE
        BY <2>2, SeparatorBytes, TwoBytesIn
      <4>1. Occurs(body, Boundary, 0) /\ 1 \in 1 .. Len(Boundary)
        BY <2>2, SeparatorBytes DEF EndsIn
      <4>2. TextAt(body, 0 + 1 - 1) = Boundary[1]
        BY <4>1 DEF Occurs
      <4>3. QED
        BY <4>2, SeparatorBytes DEF TextAt
    <3>3. QED
      BY <3>1, <3>2 DEF Match
  <2>4. DitchPlace'
    BY <1>1, <1>2, <2>1, <2>3 DEF DitchPlace
  <2>5. PartInv'
    BY <1>1, <2>1, <2>4 DEF PartInv
  <2>6. Parts!Start
    BY <1>1, <2>1 DEF Parts!Start
  <2>7. QED
    BY <2>5, <2>6 DEF Parts!Next
<1>3. CASE body.type = "raw"
  <2>1. /\ state' = "eBinary" /\ phase' = "inside"
        /\ given' = <<[fields |-> 0, data |-> <<>>]>>
    BY <1>3 DEF Setup
  <2>2. /\ body.text \in Seq(STRING) /\ Len(body.parts) = 1
          /\ body.parts[1] = [fields |-> 0, data |-> body.text]
    <3>1. body.parts = <<[fields |-> 0, data |-> body.text]>>
      BY <1>1, <1>3, BodyIs
    <3>2. body.text \in Seq(STRING)
      BY <1>1, BodyIs
    <3>3. QED
      BY <3>1, <3>2
  <2>3. SubSeq(body.text, 1, 0) = <<>>
    BY SubSeqEmpty
  <2>4. [fields |-> 0, data |-> <<>>] \in Part
    BY DEF Part
  <2>5. given' \in Seq(Part)
    BY <2>1, <2>4
  <2>6. BinaryPlace'
    BY <1>1, <1>3, <2>1, <2>3 DEF BinaryPlace
  <2>7. PartInv'
    BY <1>1, <2>1, <2>5, <2>6 DEF PartInv
  <2>8. Parts!Given(1, 0) = [fields |-> 0, data |-> <<>>]
    BY <2>2, <2>3 DEF Parts!Given
  <2>9. Parts!StartUndivided
    BY <1>1, <2>1, <2>2, <2>8 DEF Parts!StartUndivided
  <2>10. QED
    BY <2>7, <2>9 DEF Parts!Next
<1>4. QED
  BY <1>2, <1>3 DEF Setup

LEMMA RawPlaces ==
    ASSUME IInv, PartInv, RawBytes
    PROVE  PartInv' /\ Parts!Next
<1>1. PICK n \in 1 .. Len(body.text) - fed :
        /\ given' = GiveData(given, SubSeq(body.text, fed + 1, fed + n))
        /\ fed' = fed + n
  BY DEF RawBytes
<1>2. /\ UNCHANGED <<body, state, data, phase>> /\ state = "eBinary"
      /\ BinaryPlace /\ given \in Seq(Part) /\ body \in Bodies
  BY DEF RawBytes, stream, PartInv, IInv, DataInv
<1>3. /\ body.text \in Seq(STRING) /\ Len(body.text) \in Nat
      /\ body.parts = <<[fields |-> 0, data |-> body.text]>>
      /\ fed \in 0 .. Len(body.text)
  BY <1>2, BodyIs DEF BinaryPlace, IInv, TypeOK
<1> DEFINE old == SubSeq(body.text, 1, fed)
           add == SubSeq(body.text, fed + 1, fed + n)
           new == SubSeq(body.text, 1, fed + n)
<1>4. /\ old \in Seq(STRING) /\ add \in Seq(STRING) /\ new \in Seq(STRING)
      /\ Len(old) = fed /\ Len(new) = fed + n /\ old \o add = new
  <2>1. fed + n \in fed .. Len(body.text) /\ fed \in Nat
    BY <1>3
  <2>2. 0 \in Nat /\ fed \in 0 .. Len(body.text) /\ fed + n \in 0 .. Len(body.text)
    BY <1>3, <2>1
  <2>3. old \in Seq(STRING) /\ Len(old) = fed
    BY <1>3, <2>2
  <2>4. new \in Seq(STRING) /\ Len(new) = fed + n
    BY <1>3, <2>2
  <2>5. add \in Seq(STRING)
    BY <1>3, <2>1
  <2>6. old \o add = new
    BY <1>3, <2>1, <2>2, PiecesJoin
  <2>7. QED
    BY <2>3, <2>4, <2>5, <2>6
<1>5. /\ given = <<[fields |-> 0, data |-> old]>> /\ given # <<>> /\ Len(given) = 1
      /\ given[1].fields = 0 /\ given[1].data = old
  BY <1>2 DEF BinaryPlace
<1> HIDE DEF old, add, new
<1>6. /\ given' \in Seq(Part) /\ Len(given') = 1
      /\ given'[1].fields = 0 /\ given'[1].data = new
  BY <1>1, <1>2, <1>4, <1>5, GiveDataIs DEF add
<1>7. [fields |-> 0, data |-> new] \in Part /\ given'[1] \in Part
  <2>1. [fields |-> 0, data |-> new] \in Part
    BY <1>4 DEF Part
  <2>2. 1 \in 1 .. Len(given')
    BY <1>6
  <2>3. given'[1] \in Part
    BY <1>6, <2>2, ElementOfSeq
  <2>4. QED
    BY <2>1, <2>3
<1>8. given'[1] = [fields |-> 0, data |-> new]
  BY <1>6, <1>7, PartsEqual
<1>9. given' = <<[fields |-> 0, data |-> new]>>
  BY <1>6, <1>8
<1>10. BinaryPlace'
  BY <1>1, <1>2, <1>9 DEF BinaryPlace, new
<1>11. PartInv'
  BY <1>2, <1>6, <1>10 DEF PartInv, BinaryPlace
<1>12. Parts!Data
  <2>1. /\ Len(body.parts) = 1 /\ body.parts[1] = [fields |-> 0, data |-> body.text]
    BY <1>3
  <2>2. Parts!Given(1, fed + n) = [fields |-> 0, data |-> new]
    <3>1. Parts!Given(1, fed + n)
            = [[fields |-> 0, data |-> body.text]
                 EXCEPT !.data = SubSeq(@, 1, fed + n)]
      BY <2>1 DEF Parts!Given
    <3>2. QED
      BY <3>1 DEF new
  <2>3. [given EXCEPT ![1] = Parts!Given(1, fed + n)] = given'
    BY <1>5, <1>9, <2>2
  <2>4. /\ Parts!Last = 1 /\ Parts!DataLen(1) = Len(body.text)
        /\ Len(given[1].data) = fed
    BY <1>4, <1>5, <2>1 DEF Parts!Last, Parts!DataLen
  <2>5. fed + n \in Len(given[1].data) + 1 .. Parts!DataLen(1)
    BY <1>3, <2>4
  <2>6. QED
    BY <1>2, <2>3, <2>4, <2>5 DEF Parts!Data, BinaryPlace
<1>13. QED
  BY <1>11, <1>12 DEF Parts!Next

(* A byte of the search for a separator, which really comes behind `end`.  *)
LEMMA SearchStep ==
    ASSUME NEW b, NEW f \in Nat, NEW m \in Nat, NEW lo \in Int, NEW end \in Int,
           Match(b, Boundary, f, m, lo, end), m < Len(Boundary),
           f >= end => Occurs(b, Boundary, end + 1)
    PROVE  /\ b.text[f + 1] = Boundary[m + 1] =>
                Match(b, Boundary, f + 1, m + 1, lo, end)
           /\ b.text[f + 1] # Boundary[m + 1] =>
                Match(b, Boundary, f + 1,
                      IF b.text[f + 1] = Boundary[1] THEN 1 ELSE 0, lo, end)
<1>1. TextAt(b, f + 1) = b.text[f + 1] /\ Len(Boundary) \in Nat
  BY SeparatorBytes DEF TextAt
<1>2. ASSUME b.text[f + 1] = Boundary[m + 1]
      PROVE  Match(b, Boundary, f + 1, m + 1, lo, end)
  <2>1. f = end => m = 0
    <3> SUFFICES ASSUME f = end PROVE m + 1 \notin 2 .. Len(Boundary)
      OBVIOUS
    <3>1. Occurs(b, Boundary, f + 1) /\ 1 \in 1 .. Len(Boundary)
      BY SeparatorBytes
    <3>2. TextAt(b, (f + 1) + 1 - 1) = Boundary[1]
      BY <3>1 DEF Occurs
    <3>3. (f + 1) + 1 - 1 = f + 1
      OBVIOUS
    <3>4. Boundary[m + 1] = "CR"
      BY <1>1, <1>2, <3>2, <3>3, SeparatorBytes
    <3>5. QED
      BY <3>4, SeparatorBytes
  <2>2. QED
    BY <1>1, <1>2, <2>1, MatchGoesOn
<1>3. ASSUME b.text[f + 1] # Boundary[m + 1]
      PROVE  Match(b, Boundary, f + 1,
                   IF b.text[f + 1] = Boundary[1] THEN 1 ELSE 0, lo, end)
  <2> DEFINE n == IF b.text[f + 1] = Boundary[1] THEN 1 ELSE 0
  <2>1. n \in {0, 1} /\ (n = 1 <=> TextAt(b, f + 1) = Boundary[1])
    BY <1>1
  <2> HIDE DEF n
  <2>2. Match(b, Boundary, f + 1, n, lo, end)
    BY <1>1, <1>3, <2>1, MatchStartsAgain
  <2>3. QED
    BY <2>2 DEF n
<1>4. QED
  BY <1>2, <1>3

(* ------------------------ in front of the first separator -------------- *)

LEMMA DitchIsHere ==
    ASSUME IInv, PartInv, state = "eDitch"
    PROVE  /\ body \in Bodies /\ body.type = "multipart" /\ DitchPlace
           /\ body.first \in Nat /\ fed \in Nat /\ matchState \in 0 .. Len(Boundary)
           /\ EndsIn(body, Boundary, -1, body.first - Len(Boundary))
<1>1. body \in Bodies /\ DitchPlace /\ body.type = "multipart"
  BY DEF IInv, DataInv, PartInv, DitchPlace
<1>2. fed \in Nat /\ matchState \in 0 .. Len(Boundary)
  BY <1>1, BodyIs DEF IInv, TypeOK
<1>3. IsMultipart(body)
  BY <1>1, BodyIs
<1>4. QED
  BY <1>1, <1>2, <1>3 DEF IsMultipart

LEMMA DitchStep ==
    ASSUME IInv, PartInv, state = "eDitch", SeparatorByte \/ NoSeparator
    PROVE  PartInv' /\ UNCHANGED Parts!vars
<1> DEFINE end == body.first - Len(Boundary)
<1>1. /\ body \in Bodies /\ body.type = "multipart" /\ DitchPlace
      /\ body.first \in Nat /\ fed \in Nat /\ matchState \in 0 .. Len(Boundary)
      /\ EndsIn(body, Boundary, -1, end)
  BY DitchIsHere
<1>2. Match(body, Boundary, fed, matchState, -2, end) /\ end \in Int
  BY <1>1, SeparatorBytes DEF DitchPlace
<1>3. Occurs(body, Boundary, end + 1)
  BY <1>1 DEF EndsIn
<1>4. /\ UNCHANGED <<body, state, header, data, phase, given>> /\ fed' = fed + 1
      /\ matchState # Len(Boundary) /\ Byte = body.text[fed + 1]
  BY DEF SeparatorByte, NoSeparator, NextByte, Matched, Byte
<1>5. /\ SeparatorByte => /\ Byte = Boundary[matchState + 1]
                          /\ matchState' = matchState + 1
      /\ NoSeparator   => /\ Byte # Boundary[matchState + 1]
                          /\ matchState' = IF Byte = Boundary[1] THEN 1 ELSE 0
  BY DEF SeparatorByte, NoSeparator
<1> HIDE DEF end
<1>6. matchState < Len(Boundary) /\ matchState \in Nat /\ -2 \in Int
  BY <1>1, <1>4, SeparatorBytes
<1>7. Match(body, Boundary, fed', matchState', -2, end)
  BY <1>1, <1>2, <1>3, <1>4, <1>5, <1>6, SearchStep
<1>8. DitchPlace'
  BY <1>1, <1>4, <1>7 DEF DitchPlace, end
<1>9. PartInv'
  BY <1>1, <1>4, <1>8 DEF PartInv, DitchPlace
<1>10. QED
  BY <1>4, <1>9 DEF Parts!vars

(* ------------------------ the data of a part --------------------------- *)

PartStart == body.starts[Found]
PartEnd   == DataEnd(body, Found)
Count     == Len(given[Found].data)

LEMMA DataIsHere ==
    ASSUME IInv, PartInv, state = "eData"
    PROVE  /\ body \in Bodies /\ body.type = "multipart"
           /\ body.text \in Seq(STRING) /\ Len(body.text) \in Nat
           /\ DataPlace(PartStart, Count)
           /\ given \in Seq(Part) /\ given # <<>>
           /\ Len(body.parts) \in Nat /\ Found \in 1 .. Len(body.parts)
           /\ fed \in 0 .. Len(body.text) /\ matchState \in 0 .. Len(Boundary)
           /\ PartStart \in Nat /\ PartEnd \in PartStart .. Len(body.text)
           /\ Len(body.parts[Found].data) = PartEnd - PartStart
           /\ body.parts[Found].data = SubSeq(body.text, PartStart + 1, PartEnd)
           /\ fed - matchState \in PartStart + 1 .. PartEnd
           /\ Count \in 0 .. (fed - matchState) - PartStart
           /\ DataIs(body, Found)
<1>1. /\ body \in Bodies /\ body.type = "multipart"
      /\ DataPlace(PartStart, Count)
      /\ given \in Seq(Part) /\ given # <<>> /\ Found <= Len(body.parts)
      /\ Match(body, Boundary, fed, matchState, PartStart + 1, PartEnd)
      /\ PartStart + Count <= fed - matchState
  BY DEF IInv, DataInv, PartInv, DataPlace, PartStart, PartEnd, Count
<1>2. /\ body.text \in Seq(STRING) /\ Len(body.text) \in Nat
      /\ Len(body.parts) \in Nat /\ body.parts \in Seq(Part)
  BY <1>1, BodyIs
<1>3. Found \in 1 .. Len(body.parts)
  <2>1. Len(given) \in Nat /\ Len(given) > 0
    BY <1>1
  <2>2. QED
    BY <1>1, <1>2, <2>1 DEF Found
<1>4. fed \in 0 .. Len(body.text) /\ matchState \in 0 .. Len(Boundary)
  BY DEF IInv, TypeOK
<1>5. Len(body.parts[Found].data) \in Nat
  BY <1>1, <1>3, BodyIs
<1>6. /\ PartStart \in Nat /\ PartEnd \in Nat
      /\ PartEnd = PartStart + Len(body.parts[Found].data)
      /\ PartEnd <= Len(body.text) /\ DataIs(body, Found)
  BY <1>1, <1>3, PartPlaces DEF PartStart, PartEnd
<1>7. fed - matchState \in PartStart + 1 .. PartEnd
  <2>1. matchState \in Nat /\ PartStart + 1 \in Int /\ fed \in Nat
    BY <1>2, <1>4, <1>6, SeparatorBytes
  <2>2. PartStart + 1 <= fed - matchState /\ fed - matchState <= PartEnd
    BY <1>1, <1>6, <2>1, MatchPlace
  <2>3. QED
    BY <1>6, <2>1, <2>2
<1>8. Count \in 0 .. (fed - matchState) - PartStart
  <2>1. given[Found] \in Part
    <3>1. Found \in 1 .. Len(given)
      BY <1>3 DEF Found
    <3>2. QED
      BY <1>1, <3>1, ElementOfSeq
  <2>2. given[Found].data \in Seq(STRING)
    BY <2>1 DEF Part
  <2>3. Count \in Nat
    BY <2>2 DEF Count
  <2>4. QED
    BY <1>1, <1>6, <1>7, <2>3
<1>9. body.parts[Found].data = SubSeq(body.text, PartStart + 1, PartEnd)
  BY <1>6 DEF DataIs, PartStart, PartEnd
<1>10. /\ Len(body.parts[Found].data) = PartEnd - PartStart
       /\ PartEnd \in PartStart .. Len(body.text)
  BY <1>2, <1>5, <1>6
<1>11. DataPlace(PartStart, Count)
  BY <1>1
<1> QED
  BY <1>1, <1>2, <1>3, <1>4, <1>6, <1>7, <1>8, <1>9, <1>10, <1>11

(* Blocks of data follow one another: what was given, and what is in the   *)
(* buffer, are the data up to the match.                                   *)
LEMMA StoreIs ==
    ASSUME IInv, PartInv, state = "eData",
           NEW q \in fed - matchState .. Len(body.text),
           Store(SubSeq(body.text, (fed - matchState) + 1, q))
    PROVE  /\ given' \in Seq(Part) /\ Len(given') = Found
           /\ \A j \in 1 .. Found - 1 : given'[j] = given[j]
           /\ given'[Found].fields = given[Found].fields
           /\ \E n \in 0 .. q - (PartStart + Count) :
                /\ given'[Found].data
                     = SubSeq(body.text, PartStart + 1, PartStart + Count + n)
                /\ data' = SubSeq(body.text, PartStart + Count + n + 1, q)
<1> DEFINE t == body.text
           s == PartStart
           c == Count
           p == fed - matchState
<1>0. /\ t \in Seq(STRING) /\ Len(t) \in Nat /\ s \in Nat /\ c \in Nat
      /\ p \in Nat /\ q \in p .. Len(t) /\ s + c <= p
      /\ given \in Seq(Part) /\ given # <<>> /\ Len(given) = Found
      /\ given[Found].data = SubSeq(t, s + 1, s + c)
      /\ data = SubSeq(t, s + c + 1, p) /\ Store(SubSeq(t, p + 1, q))
  <2>1. /\ t \in Seq(STRING) /\ Len(t) \in Nat /\ s \in Nat
        /\ DataPlace(s, c) /\ given \in Seq(Part) /\ given # <<>>
        /\ p \in s + 1 .. PartEnd /\ c \in 0 .. p - s
        /\ PartEnd \in s .. Len(t)
    BY DataIsHere
  <2>2. c \in Nat /\ p \in Nat /\ s + c <= p
    BY <2>1
  <2>3. /\ given[Found].data = SubSeq(t, s + 1, s + c)
        /\ data = SubSeq(t, s + c + 1, p)
    BY <2>1 DEF DataPlace
  <2>4. q \in p .. Len(t) /\ Store(SubSeq(t, p + 1, q)) /\ Len(given) = Found
    BY DEF Found
  <2>5. QED
    BY <2>1, <2>2, <2>3, <2>4
<1> HIDE DEF t, s, c, p
<1> DEFINE all == data \o SubSeq(t, p + 1, q)
           n == DataMax * (Len(all) \div DataMax)
           add == SubSeq(all, 1, n)
<1>1. all = SubSeq(t, s + c + 1, q)
  <2>1. s + c \in Nat /\ p \in s + c .. Len(t) /\ q \in p .. Len(t)
    BY <1>0
  <2>2. QED
    BY <1>0, <2>1, PiecesJoin
<1>2. all \in Seq(STRING) /\ Len(all) = q - (s + c) /\ Len(all) \in Nat
  <2>1. s + c \in Nat /\ q \in s + c .. Len(t)
    BY <1>0
  <2>2. QED
    BY <1>0, <1>1, <2>1, PieceIs
<1>3. n \in 0 .. Len(all)
  BY <1>2, Remainder
<1>4. given' = GiveData(given, add) /\ data' = SubSeq(all, n + 1, Len(all))
  BY <1>0 DEF Store
<1> HIDE DEF n, all
<1>5. add = SubSeq(t, s + c + 1, s + c + n) /\ add \in Seq(STRING)
  <2>1. s + c \in Nat /\ q \in s + c .. Len(t) /\ n \in 0 .. q - (s + c)
    BY <1>0, <1>2, <1>3
  <2>2. SubSeq(SubSeq(t, s + c + 1, q), 0 + 1, n)
          = SubSeq(t, s + c + 0 + 1, s + c + n)
    BY <1>0, <2>1, PieceOfPiece
  <2>3. SubSeq(all, 1, n) = SubSeq(t, s + c + 1, s + c + n)
    BY <1>1, <2>1, <2>2
  <2>4. add \in Seq(STRING)
    <3>1. s + c + n \in s + c .. Len(t)
      BY <1>0, <2>1
    <3>2. QED
      BY <1>0, <2>1, <2>3, <3>1, PieceIs
  <2>5. QED
    BY <2>3, <2>4
<1>6. data' = SubSeq(t, s + c + n + 1, q)
  <2>1. /\ s + c \in Nat /\ q \in s + c .. Len(t) /\ n \in Nat
        /\ q - (s + c) \in n .. q - (s + c)
    BY <1>0, <1>2, <1>3
  <2>2. SubSeq(SubSeq(t, s + c + 1, q), n + 1, q - (s + c))
          = SubSeq(t, s + c + n + 1, s + c + (q - (s + c)))
    BY <1>0, <2>1, PieceOfPiece
  <2>3. s + c + (q - (s + c)) = q
    BY <1>0, <2>1
  <2>4. QED
    BY <1>1, <1>2, <1>4, <2>2, <2>3
<1> HIDE DEF add
<1>7. /\ given' \in Seq(Part) /\ Len(given') = Found
      /\ \A j \in 1 .. Found - 1 : given'[j] = given[j]
      /\ given'[Found].fields = given[Found].fields
      /\ given'[Found].data = given[Found].data \o add
  BY <1>0, <1>4, <1>5, GiveDataIs
<1>8. given[Found].data \o add = SubSeq(t, s + 1, s + c + n)
  <2>1. s + c \in s .. Len(t) /\ s + c + n \in s + c .. Len(t)
    BY <1>0, <1>2, <1>3
  <2>2. SubSeq(t, s + 1, s + c) \o SubSeq(t, (s + c) + 1, s + c + n)
          = SubSeq(t, s + 1, s + c + n)
    BY <1>0, <2>1, PiecesJoin
  <2>3. QED
    BY <1>0, <1>5, <2>2
<1>9. n \in 0 .. q - (s + c)
  BY <1>0, <1>2, <1>3
<1>10. QED
  BY <1>6, <1>7, <1>8, <1>9 DEF t, s, c

(* The rest of what was matched, and the byte, are data.                   *)
LEMMA StoredBytes ==
    ASSUME IInv, PartInv, state = "eData", NoSeparator
    PROVE  /\ fed' - matchState' \in fed - matchState .. Len(body.text)
           /\ Store(SubSeq(body.text, (fed - matchState) + 1, fed' - matchState'))
<1> DEFINE t == body.text
           p == fed - matchState
           old == SubSeq(Boundary, 1, matchState)
<1>1. /\ t \in Seq(STRING) /\ Len(t) \in Nat /\ fed \in 0 .. Len(t)
      /\ matchState \in 0 .. Len(Boundary)
      /\ DataPlace(PartStart, Count) /\ p \in PartStart + 1 .. PartEnd
      /\ PartStart \in Nat /\ PartEnd \in PartStart .. Len(t)
  BY DataIsHere
<1>2. /\ fed' = fed + 1 /\ fed < Len(t) /\ Byte = t[fed + 1]
      /\ matchState' = (IF Byte = Boundary[1] THEN 1 ELSE 0)
      /\ Store(old \o IF Byte = Boundary[1] THEN <<>> ELSE <<Byte>>)
  BY DEF NoSeparator, NextByte, Searching, More, Byte
<1>3. old = SubSeq(t, p + 1, fed)
  <2>1. matchState \in Nat /\ Len(Boundary) \in Nat /\ p \in Nat /\ fed \in p .. Len(t)
    BY <1>1, SeparatorBytes
  <2>2. /\ SubSeq(t, p + 1, fed) \in Seq(STRING)
        /\ Len(SubSeq(t, p + 1, fed)) = fed - p
        /\ \A i \in 1 .. fed - p : SubSeq(t, p + 1, fed)[i] = t[p + i]
    BY <1>1, <2>1, PieceIs
  <2>3. /\ 0 \in Nat /\ matchState \in 0 .. Len(Boundary) /\ old \in Seq(STRING)
        /\ Len(old) = matchState
        /\ \A i \in 1 .. matchState : old[i] = Boundary[i]
    BY <1>1, SeparatorBytes
  <2>4. \A i \in 1 .. matchState : TextAt(body, p + i) = Boundary[i]
    BY <1>1 DEF DataPlace, Match
  <2>5. \A i \in 1 .. matchState : TextAt(body, p + i) = t[p + i]
    BY <1>1, <2>1 DEF TextAt
  <2>6. fed - p = matchState
    BY <2>1, <1>1
  <2> HIDE DEF old
  <2>7. \A i \in 1 .. matchState : old[i] = SubSeq(t, p + 1, fed)[i]
    BY <2>2, <2>3, <2>4, <2>5, <2>6
  <2>8. QED
    BY <2>2, <2>3, <2>6, <2>7, SeqEqual
<1>4. CASE Byte = Boundary[1]
  <2>1. fed' - matchState' = fed
    BY <1>1, <1>2, <1>4
  <2>2. old \o <<>> = old
    BY <1>1, <1>3
  <2>3. Store(old)
    BY <1>2, <1>4, <2>2
  <2>4. fed \in p .. Len(t)
    BY <1>1, SeparatorBytes
  <2>5. QED
    BY <1>3, <2>1, <2>3, <2>4
<1>5. CASE Byte # Boundary[1]
  <2>1. fed' - matchState' = fed + 1
    BY <1>1, <1>2, <1>5
  <2>2. p \in Nat /\ fed \in p .. Len(t) /\ fed + 1 \in fed .. Len(t) /\ fed \in Nat
    BY <1>1, <1>2, SeparatorBytes
  <2>3. SubSeq(t, fed + 1, fed + 1) = <<Byte>>
    BY <1>1, <1>2, <2>2, OneByte
  <2>4. old \o <<Byte>> = SubSeq(t, p + 1, fed + 1)
    BY <1>1, <1>3, <2>2, <2>3, PiecesJoin
  <2>5. Store(old \o <<Byte>>)
    BY <1>2, <1>5
  <2>6. fed + 1 \in p .. Len(t)
    BY <2>2
  <2>7. QED
    BY <2>1, <2>4, <2>5, <2>6
<1>6. QED
  BY <1>4, <1>5

(* The search goes on in the data of a part.                               *)
LEMMA DataMatch ==
    ASSUME IInv, PartInv, state = "eData", SeparatorByte \/ NoSeparator
    PROVE  Match(body, Boundary, fed', matchState', PartStart + 1, PartEnd)
<1>1. /\ Match(body, Boundary, fed, matchState, PartStart + 1, PartEnd)
      /\ PartStart + 1 \in Int /\ PartEnd \in Int /\ fed \in Nat
      /\ matchState \in 0 .. Len(Boundary) /\ matchState \in Nat
      /\ DataIs(body, Found) /\ Len(body.text) \in Nat
  BY DataIsHere, SeparatorBytes DEF DataPlace, PartEnd
<1>2. /\ fed < Len(body.text) /\ fed' = fed + 1
      /\ matchState # Len(Boundary) /\ Byte = body.text[fed + 1]
  BY DEF SeparatorByte, NoSeparator, NextByte, Matched, Byte, Searching, More
<1>3. /\ SeparatorByte => /\ Byte = Boundary[matchState + 1]
                          /\ matchState' = matchState + 1
      /\ NoSeparator   => /\ Byte # Boundary[matchState + 1]
                          /\ matchState' = IF Byte = Boundary[1] THEN 1 ELSE 0
  BY DEF SeparatorByte, NoSeparator
<1>4. fed >= PartEnd => Occurs(body, Boundary, PartEnd + 1)
  <2> SUFFICES ASSUME fed >= PartEnd PROVE Occurs(body, Boundary, PartEnd + 1)
    OBVIOUS
  <2>1. PartEnd # Len(body.text)
    BY <1>1, <1>2
  <2>2. QED
    BY <1>1, <2>1 DEF DataIs, PartEnd, EndsIn
<1>5. matchState < Len(Boundary)
  BY <1>1, <1>2, SeparatorBytes
<1>6. QED
  BY <1>1, <1>2, <1>3, <1>4, <1>5, SearchStep

LEMMA DataByte ==
    ASSUME IInv, PartInv, state = "eData", SeparatorByte
    PROVE  PartInv' /\ UNCHANGED Parts!vars
<1>1. /\ UNCHANGED <<body, state, header, data, phase, given>>
      /\ fed' = fed + 1 /\ matchState' = matchState + 1
  BY DEF SeparatorByte, NextByte
<1>2. /\ DataPlace(PartStart, Count) /\ given \in Seq(Part)
      /\ fed \in Nat /\ matchState \in Nat
  BY DataIsHere, SeparatorBytes
<1>3. Match(body, Boundary, fed', matchState', PartStart + 1, PartEnd)
  BY DataMatch
<1>4. fed' - matchState' = fed - matchState
  BY <1>1, <1>2
<1>5. DataPlace(PartStart, Count)'
  BY <1>1, <1>2, <1>3, <1>4 DEF DataPlace, PartStart, PartEnd, Count, Found, FirstParts
<1>6. PartInv'
  BY <1>1, <1>2, <1>5 DEF PartInv, DataPlace, PartStart, Count, Found
<1>7. QED
  BY <1>1, <1>6 DEF Parts!vars

LEMMA DataStored ==
    ASSUME IInv, PartInv, state = "eData", NoSeparator
    PROVE  PartInv' /\ (Parts!Next \/ UNCHANGED Parts!vars)
<1> DEFINE t == body.text
           s == PartStart
           q == fed' - matchState'
<1>1. /\ t \in Seq(STRING) /\ Len(t) \in Nat /\ s \in Nat
      /\ DataPlace(s, Count) /\ PartEnd \in s .. Len(t)
      /\ given \in Seq(Part) /\ given # <<>>
      /\ Len(body.parts) \in Nat /\ Found \in 1 .. Len(body.parts)
      /\ fed - matchState \in s + 1 .. PartEnd
      /\ Count \in 0 .. (fed - matchState) - s
      /\ Len(body.parts[Found].data) = PartEnd - s
      /\ body.parts[Found].data = SubSeq(t, s + 1, PartEnd)
  BY DataIsHere
<1>2. /\ UNCHANGED <<body, state, header, phase>> /\ fed' = fed + 1
      /\ matchState' \in {0, 1} /\ fed \in Nat
  BY DataIsHere DEF NoSeparator, NextByte
<1>3. /\ q \in fed - matchState .. Len(t)
      /\ Store(SubSeq(t, (fed - matchState) + 1, q))
  BY StoredBytes
<1>4. Match(body, Boundary, fed', matchState', s + 1, PartEnd)
  BY DataMatch
<1>5. s + 1 <= q /\ q <= PartEnd /\ q \in Int /\ PartEnd \in Nat
  <2>1. /\ fed' \in Nat /\ matchState' \in Nat /\ s + 1 \in Int
        /\ PartEnd \in Int /\ PartEnd \in Nat
    BY <1>1, <1>2
  <2>2. s + 1 <= fed' - matchState' /\ fed' - matchState' <= PartEnd
    BY <1>4, <2>1, MatchPlace
  <2>3. q \in Int
    BY <2>1
  <2>4. QED
    BY <2>1, <2>2, <2>3
<1>6. /\ given' \in Seq(Part) /\ Len(given') = Found
      /\ \A j \in 1 .. Found - 1 : given'[j] = given[j]
      /\ given'[Found].fields = given[Found].fields
      /\ \E n \in 0 .. q - (s + Count) :
           /\ given'[Found].data = SubSeq(t, s + 1, s + Count + n)
           /\ data' = SubSeq(t, s + Count + n + 1, q)
  <2> HIDE DEF q
  <2>1. QED
    BY <1>3, StoreIs
<1> HIDE DEF q
<1>7. PICK n \in 0 .. q - (s + Count) :
           /\ given'[Found].data = SubSeq(t, s + 1, s + Count + n)
           /\ data' = SubSeq(t, s + Count + n + 1, q)
  BY <1>6
<1>8. /\ s + Count + n <= q /\ s + Count + n \in s .. Len(t) /\ Count + n \in Nat
      /\ Len(given'[Found].data) = Count + n
  <2>1. /\ s \in Nat /\ Len(t) \in Nat /\ q \in Int /\ q <= Len(t)
        /\ fed - matchState \in Int /\ Count \in Nat
    <3>1. /\ s \in Nat /\ Len(t) \in Nat /\ q \in Int
          /\ fed - matchState \in Int
      BY <1>1, <1>5
    <3>2. Count \in Nat
      BY <1>1, <3>1
    <3>3. q <= Len(t)
      BY <1>3, <3>1
    <3>4. QED
      BY <3>1, <3>2, <3>3
  <2>2. s + Count + n <= q /\ s + Count + n \in s .. Len(t) /\ Count + n \in Nat
    BY <2>1, <1>7, StillInside
  <2>3. Len(SubSeq(t, s + 1, s + Count + n)) = Count + n
    <3>1. t \in Seq(STRING) /\ (s + Count + n) - s = Count + n
      BY <1>1, <2>1, <2>2
    <3>2. Len(SubSeq(t, s + 1, s + Count + n)) = (s + Count + n) - s
      BY <2>1, <2>2, <3>1, PieceIs
    <3>3. QED
      BY <3>1, <3>2
  <2>4. Len(given'[Found].data) = Len(SubSeq(t, s + 1, s + Count + n))
    BY <1>7, Zenon
  <2>5. Len(given'[Found].data) = Count + n
    BY <2>3, <2>4
  <2>6. QED
    BY <2>2, <2>5
<1>9. /\ Found' = Found /\ PartStart' = s /\ Count' = Count + n /\ PartEnd' = PartEnd
  BY <1>2, <1>6, <1>8 DEF Found, PartStart, Count, PartEnd
<1>10. DataPlace(PartStart, Count)'
  <2>1. /\ body.type = "multipart" /\ phase = "inside" /\ FirstParts(Found - 1)
        /\ given[Found].fields = body.parts[Found].fields
    BY <1>1 DEF DataPlace
  <2>2. FirstParts(Found - 1)'
    <3>1. \A j \in 1 .. Found - 1 : given[j] = body.parts[j]
      BY <2>1 DEF FirstParts
    <3>2. \A j \in 1 .. Found' - 1 : given'[j] = body'.parts[j]
      BY <1>2, <1>6, <1>9, <3>1
    <3>3. Found' - 1 <= Len(body'.parts)
      BY <1>1, <1>2, <1>9
    <3>4. QED
      BY <3>2, <3>3 DEF FirstParts
  <2>3. given' # <<>> /\ Found' <= Len(body'.parts)
    BY <1>1, <1>2, <1>6, <1>9
  <2>4. /\ given'[Found'].fields = body'.parts[Found'].fields
        /\ given'[Found'].data = SubSeq(body'.text, s + 1, s + Count')
        /\ s + Count' <= fed' - matchState'
        /\ data' = SubSeq(body'.text, s + Count' + 1, fed' - matchState')
    <3>1. s + (Count + n) = s + Count + n
      BY <1>1, <1>7
    <3>2. QED
      BY <1>2, <1>6, <1>7, <1>8, <1>9, <2>1, <3>1 DEF q
  <2>5. Match(body', Boundary, fed', matchState', s + 1, DataEnd(body', Found'))
    BY <1>2, <1>4, <1>9 DEF PartEnd
  <2>6. body'.type = "multipart" /\ phase' = "inside"
    BY <1>2, <2>1
  <2>7. QED
    BY <1>9, <2>2, <2>3, <2>4, <2>5, <2>6 DEF DataPlace
<1>11. PartInv'
  BY <1>1, <1>2, <1>6, <1>10 DEF PartInv, DataPlace, PartStart, Count, Found
<1>12. phase = "inside" /\ Parts!Last = Found /\ Parts!DataLen(Found) = PartEnd - s
  BY <1>1 DEF DataPlace, Parts!Last, Found, Parts!DataLen
<1>13. /\ Parts!Given(Found, Count + n) \in Part
       /\ Parts!Given(Found, Count + n).fields = body.parts[Found].fields
       /\ Parts!Given(Found, Count + n).data = SubSeq(t, s + 1, s + Count + n)
  <2>1. Count + n \in 0 .. PartEnd - s
    <3>1. s + (Count + n) <= PartEnd
      BY <1>1, <1>3, <1>5, <1>7, <1>8
    <3>2. QED
      BY <1>1, <1>5, <1>8, <3>1
  <2>2. SubSeq(SubSeq(t, s + 1, PartEnd), 1, Count + n)
          = SubSeq(t, s + 1, s + (Count + n))
    BY <1>1, <2>1, FrontOfPiece
  <2>3. s + (Count + n) = s + Count + n
    BY <1>1, <1>7
  <2>4. Count + n \in 0 .. Len(body.parts[Found].data)
    BY <1>1, <2>1
  <2>5. /\ Parts!Given(Found, Count + n) \in Part
        /\ Parts!Given(Found, Count + n).fields = body.parts[Found].fields
        /\ Parts!Given(Found, Count + n).data
             = SubSeq(body.parts[Found].data, 1, Count + n)
    BY <1>1, <2>4, GivenIs
  <2>6. SubSeq(body.parts[Found].data, 1, Count + n)
          = SubSeq(t, s + 1, s + Count + n)
    BY <1>1, <2>2, <2>3
  <2>7. QED
    BY <2>5, <2>6
<1>14. given' = [given EXCEPT ![Found] = Parts!Given(Found, Count + n)]
  <2> DEFINE g == Parts!Given(Found, Count + n)
  <2>1. given'[Found] \in Part
    <3>1. Found \in 1 .. Len(given')
      BY <1>1, <1>6
    <3>2. QED
      BY <1>6, <3>1, ElementOfSeq
  <2>2. given'[Found].fields = g.fields /\ given'[Found].data = g.data
    BY <1>1, <1>6, <1>7, <1>13 DEF DataPlace
  <2>3. given'[Found] = g
    BY <1>13, <2>1, <2>2, PartsEqual
  <2> HIDE DEF g
  <2>4. Found = Len(given) /\ g \in Part
    BY <1>13 DEF Found, g
  <2>5. /\ [given EXCEPT ![Found] = g] \in Seq(Part)
        /\ Len([given EXCEPT ![Found] = g]) = Found
        /\ \A j \in 1 .. Found - 1 : [given EXCEPT ![Found] = g][j] = given[j]
        /\ [given EXCEPT ![Found] = g][Found] = g
    BY <1>1, <2>4
  <2>6. \A j \in 1 .. Found : given'[j] = [given EXCEPT ![Found] = g][j]
    <3> TAKE j \in 1 .. Found
    <3>1. CASE j = Found
      BY <2>3, <2>5, <3>1
    <3>2. CASE j # Found
      <4>1. j \in 1 .. Found - 1
        BY <1>1, <3>2
      <4>2. QED
        BY <1>6, <2>5, <4>1
    <3>3. QED
      BY <3>1, <3>2
  <2>7. given' = [given EXCEPT ![Found] = g]
    BY <1>6, <2>5, <2>6, SeqEqual
  <2>8. QED
    BY <2>7 DEF g
<1>15. CASE n = 0
  <2>1. given[Found] \in Part
    <3>1. Found \in 1 .. Len(given)
      BY <1>1 DEF Found
    <3>2. QED
      BY <1>1, <3>1, ElementOfSeq
  <2>2. Parts!Given(Found, Count + n) = given[Found]
    <3>1. given[Found].data = SubSeq(t, s + 1, s + Count + n)
      BY <1>1, <1>15 DEF DataPlace
    <3>2. given[Found].fields = body.parts[Found].fields
      BY <1>1 DEF DataPlace
    <3>3. QED
      BY <1>13, <2>1, <3>1, <3>2, PartsEqual
  <2>3. given' = given
    BY <1>1, <1>14, <2>2
  <2>4. QED
    BY <1>2, <1>11, <2>3 DEF Parts!vars
<1>16. CASE n # 0
  <2>1. Count + n \in Len(given[Found].data) + 1 .. Parts!DataLen(Found)
    <3>1. Count + n \in Count + 1 .. PartEnd - s
      BY <1>1, <1>3, <1>5, <1>7, <1>8, <1>16
    <3>2. QED
      BY <1>12, <3>1 DEF Count
  <2>2. Parts!Data
    BY <1>2, <1>12, <1>14, <2>1 DEF Parts!Data
  <2>3. QED
    BY <1>11, <2>2 DEF Parts!Next
<1>17. QED
  BY <1>15, <1>16

(* All of a part's data is given, or in the buffer.                        *)
LEMMA Completed ==
    ASSUME IInv, PartInv, state = "eData", fed - matchState = PartEnd
    PROVE  /\ GiveData(given, data) \in Seq(Part)
           /\ Len(GiveData(given, data)) = Found
           /\ \A j \in 1 .. Found : GiveData(given, data)[j] = body.parts[j]
           /\ GiveData(given, data) = [given EXCEPT ![Found] = body.parts[Found]]
           /\ data = <<>> => \A j \in 1 .. Found : given[j] = body.parts[j]
<1> DEFINE t == body.text
           s == PartStart
           g == GiveData(given, data)
           p == body.parts[Found]
<1>1. /\ t \in Seq(STRING) /\ Len(t) \in Nat /\ s \in Nat
      /\ DataPlace(s, Count) /\ PartEnd \in s .. Len(t)
      /\ given \in Seq(Part) /\ given # <<>>
      /\ Len(body.parts) \in Nat /\ Found \in 1 .. Len(body.parts)
      /\ Count \in 0 .. PartEnd - s /\ body \in Bodies
      /\ p.data = SubSeq(t, s + 1, PartEnd)
  BY DataIsHere
<1>2. /\ given[Found].data = SubSeq(t, s + 1, s + Count)
      /\ data = SubSeq(t, s + Count + 1, PartEnd)
      /\ given[Found].fields = p.fields
      /\ \A j \in 1 .. Found - 1 : given[j] = body.parts[j]
  BY <1>1 DEF DataPlace, FirstParts
<1>3. p \in Part /\ given[Found] \in Part
  <2>1. p \in Part
    BY <1>1, BodyIs
  <2>2. Found \in 1 .. Len(given)
    BY <1>1 DEF Found
  <2>3. QED
    BY <1>1, <2>1, <2>2, ElementOfSeq
<1>4. data \in Seq(STRING) /\ given[Found].data \o data = p.data
  <2>1. s + Count \in s .. Len(t) /\ PartEnd \in s + Count .. Len(t) /\ s + Count \in Nat
    BY <1>1
  <2>2. SubSeq(t, s + 1, s + Count) \o SubSeq(t, (s + Count) + 1, PartEnd)
          = SubSeq(t, s + 1, PartEnd)
    BY <1>1, <2>1, PiecesJoin
  <2>3. data \in Seq(STRING)
    BY <1>1, <1>2, <2>1, PieceIs
  <2>4. QED
    BY <1>1, <1>2, <2>2, <2>3
<1>5. /\ g \in Seq(Part) /\ Len(g) = Found
      /\ \A j \in 1 .. Found - 1 : g[j] = given[j]
      /\ g[Found].fields = given[Found].fields
      /\ g[Found].data = given[Found].data \o data
  BY <1>1, <1>4, GiveDataIs DEF Found
<1> HIDE DEF g, p
<1>6. g[Found] = p
  <2>1. Found \in 1 .. Len(g)
    BY <1>1, <1>5
  <2>2. g[Found] \in Part
    BY <1>5, <2>1, ElementOfSeq
  <2>3. QED
    BY <1>2, <1>3, <1>4, <1>5, <2>2, PartsEqual
<1>7. g = [given EXCEPT ![Found] = p]
  <2>1. Found = Len(given)
    BY DEF Found
  <2>2. /\ [given EXCEPT ![Found] = p] \in Seq(Part)
        /\ Len([given EXCEPT ![Found] = p]) = Found
        /\ \A j \in 1 .. Found - 1 : [given EXCEPT ![Found] = p][j] = given[j]
        /\ [given EXCEPT ![Found] = p][Found] = p
    BY <1>1, <1>3, <2>1
  <2>3. ASSUME NEW j \in 1 .. Found PROVE g[j] = [given EXCEPT ![Found] = p][j]
    <3>1. CASE j = Found
      BY <1>6, <2>2, <3>1
    <3>2. CASE j # Found
      <4>1. j \in 1 .. Found - 1
        BY <1>1, <3>2
      <4>2. QED
        BY <1>5, <2>2, <4>1
    <3>3. QED
      BY <3>1, <3>2
  <2>4. QED
    BY <1>5, <2>2, <2>3, SeqEqual
<1>8. ASSUME NEW j \in 1 .. Found PROVE g[j] = body.parts[j]
  <2>1. CASE j = Found
    BY <1>6, <2>1 DEF p
  <2>2. CASE j # Found
    <3>1. j \in 1 .. Found - 1
      BY <1>1, <2>2
    <3>2. QED
      BY <1>2, <1>5, <3>1
  <2>3. QED
    BY <2>1, <2>2
<1>9. ASSUME data = <<>>, NEW j \in 1 .. Found PROVE given[j] = body.parts[j]
  <2>1. CASE j = Found
    <3>1. given[Found].data \in Seq(STRING)
      BY <1>3 DEF Part
    <3>2. given[Found].data = p.data
      BY <1>4, <1>9, <3>1
    <3>3. given[Found] = p
      BY <1>2, <1>3, <3>2, PartsEqual
    <3>4. QED
      BY <2>1, <3>3 DEF p
  <2>2. CASE j # Found
    <3>1. j \in 1 .. Found - 1
      BY <1>1, <2>2
    <3>2. QED
      BY <1>2, <3>1
  <2>3. QED
    BY <2>1, <2>2
<1>10. QED
  BY <1>5, <1>7, <1>8, <1>9 DEF g, p

(* The byte behind a separator is the first of the next header, if there   *)
(* is one.                                                                 *)
LEMMA HeaderBegins ==
    ASSUME IInv, More, body.type = "multipart", UNCHANGED body, fed' = fed + 1,
           state' = "eHeader", matchState' = 0, header' = <<Byte>>,
           data' = <<>>, phase' = "between", given' \in Seq(Part),
           FirstParts(Found)', fed = HeaderStart(body, Found' + 1),
           body.cut => Found' < Len(body.parts)
    PROVE  PartInv'
<1> DEFINE k == Found'
<1>0. /\ body' = body /\ fed' = fed + 1 /\ state' = "eHeader" /\ matchState' = 0
      /\ header' = <<Byte>> /\ data' = <<>> /\ phase' = "between"
      /\ given' \in Seq(Part) /\ body'.type = "multipart" /\ FirstParts(Found)'
      /\ HeaderStart(body', k + 1) = fed
  OBVIOUS
<1>1. /\ body \in Bodies /\ body.text \in Seq(STRING) /\ Len(body.text) \in Nat
      /\ Len(body.parts) \in Nat
  BY BodyIs DEF IInv, DataInv
<1>2. fed \in Nat /\ fed < Len(body.text) /\ Byte = body.text[fed + 1]
  BY <1>1 DEF IInv, TypeOK, More, Byte
<1>3. k \in 0 .. Len(body.parts)
  <2>1. Len(given') \in Nat
    OBVIOUS
  <2>2. QED
    BY <1>1, <2>1 DEF FirstParts, Found
<1> HIDE DEF k
<1>4. CASE k < Len(body.parts)
  <2>1. k + 1 \in 1 .. Len(body.parts)
    BY <1>1, <1>3, <1>4
  <2>2. body.starts[k + 1] \in Nat /\ fed + 5 <= body.starts[k + 1]
    BY <1>1, <2>1, PartPlaces DEF k
  <2>3. header' = SubSeq(body.text, fed + 1, fed + 1)
    BY <1>1, <1>2, OneByte
  <2>4. Match(body, HeaderEnd, fed + 1, 0, fed + 1, body.starts[k + 1] - 4)
    BY <1>2, <2>2 DEF Match
  <2>5. fed' <= body'.starts[k + 1]
    BY <1>0, <1>2, <2>2
  <2>6. header' = SubSeq(body'.text, fed + 1, fed')
    BY <1>0, <2>3
  <2>7. Match(body', HeaderEnd, fed', matchState', fed + 1, body'.starts[k + 1] - 4)
    BY <1>0, <2>4
  <2>8. fed < fed' /\ k < Len(body'.parts)
    BY <1>0, <1>2, <1>4
  <2>9. HeaderPlace(HeaderStart(body, Found + 1))'
    BY <1>0, <2>5, <2>6, <2>7, <2>8 DEF HeaderPlace, k
  <2>10. QED
    BY <1>0, <2>9 DEF PartInv
<1>5. CASE ~(k < Len(body.parts))
  <2>1. Match(body, HeaderEnd, fed + 1, 0, fed + 1, Len(body.text))
    BY <1>1, <1>2 DEF Match
  <2>2. ~body.cut
    BY <1>5 DEF k
  <2>3. HeaderPlace(HeaderStart(body, Found + 1))'
    BY <1>0, <1>2, <1>5, <2>1, <2>2 DEF HeaderPlace, k
  <2>4. QED
    BY <1>0, <2>3 DEF PartInv
<1>6. QED
  BY <1>4, <1>5

LEMMA DitchSeparator ==
    ASSUME IInv, PartInv, state = "eDitch", Separator
    PROVE  PartInv' /\ UNCHANGED Parts!vars
<1> DEFINE end == body.first - Len(Boundary)
<1>1. /\ body \in Bodies /\ body.type = "multipart" /\ DitchPlace
      /\ body.first \in Nat /\ fed \in Nat
      /\ EndsIn(body, Boundary, -1, end)
  BY DitchIsHere
<1>2. /\ UNCHANGED <<body, phase, given>> /\ fed' = fed + 1 /\ More
      /\ matchState = Len(Boundary) /\ state' = "eHeader" /\ matchState' = 0
      /\ header' = <<Byte>> /\ data' = <<>>
  BY DEF Separator, Searching, Matched, NextByte
<1>3. /\ given = <<>> /\ phase = "between"
      /\ Match(body, Boundary, fed, Len(Boundary), -2, end)
      /\ Len(body.text) \in Nat /\ fed < Len(body.text)
  BY <1>1, <1>2, BodyIs DEF DitchPlace, More
<1>4. fed = body.first
  <2> DEFINE lo == -2
  <2>1. \A i \in lo + 1 .. end : ~Occurs(body, Boundary, i)
    BY <1>1 DEF EndsIn
  <2>2. /\ end \in Int /\ lo \in Int /\ Len(Boundary) \in Nat \ {0}
        /\ Match(body, Boundary, fed, Len(Boundary), lo, end)
        /\ fed \in Nat /\ fed <= Len(body.text) /\ Len(body.text) \in Nat
    BY <1>1, <1>3, SeparatorBytes
  <2>3. fed = end + Len(Boundary)
    <3> HIDE DEF end, lo
    <3>1. QED
      BY <2>1, <2>2, MatchIsFirst
  <2>4. QED
    BY <1>1, <2>3, SeparatorBytes
<1>5. Len(given') = 0 /\ Found' = 0 /\ given' \in Seq(Part)
  BY <1>2, <1>3 DEF Found
<1>6. fed = HeaderStart(body, Found' + 1)
  BY <1>4, <1>5 DEF HeaderStart
<1>7. body.cut => Found' < Len(body.parts)
  <2>1. Len(body.parts) \in Nat /\ body.parts \in Seq(Part)
    BY <1>1, BodyIs
  <2>2. body.cut => body.parts # <<>>
    BY <1>1, BodyIs DEF IsMultipart
  <2>3. QED
    BY <1>5, <2>1, <2>2
<1>8. FirstParts(Found)'
  BY <1>1, <1>2, <1>5, BodyIs DEF FirstParts
<1>9. PartInv'
  BY <1>1, <1>2, <1>3, <1>5, <1>6, <1>7, <1>8, HeaderBegins
<1>10. QED
  BY <1>2, <1>9 DEF Parts!vars

LEMMA DataSeparator ==
    ASSUME IInv, PartInv, state = "eData", Separator
    PROVE  PartInv' /\ Parts!Next
<1>1. /\ body \in Bodies /\ body.type = "multipart" /\ Len(body.text) \in Nat
      /\ DataPlace(PartStart, Count) /\ given \in Seq(Part)
      /\ Len(body.parts) \in Nat /\ Found \in 1 .. Len(body.parts)
      /\ fed \in 0 .. Len(body.text) /\ PartStart \in Nat
      /\ PartEnd \in PartStart .. Len(body.text)
      /\ DataIs(body, Found)
  BY DataIsHere
<1>2. /\ body' = body /\ fed' = fed + 1 /\ More
      /\ matchState = Len(Boundary) /\ state' = "eHeader" /\ matchState' = 0
      /\ header' = <<Byte>> /\ data' = <<>> /\ phase' = "between"
      /\ given' = GiveData(given, data)
  BY DEF Separator, Searching, Matched, NextByte
<1>3. /\ Match(body, Boundary, fed, Len(Boundary), PartStart + 1, PartEnd)
      /\ phase = "inside" /\ PartStart + 1 \in Int /\ PartEnd \in Int
      /\ Len(Boundary) \in Nat \ {0} /\ fed \in Nat /\ fed <= Len(body.text)
  BY <1>1, <1>2, SeparatorBytes DEF DataPlace, PartEnd
<1>4. ~(body.cut /\ Found = Len(body.parts))
  <2> SUFFICES ASSUME body.cut /\ Found = Len(body.parts) PROVE FALSE
    OBVIOUS
  <2>1. /\ PartEnd = Len(body.text)
        /\ \A i \in PartStart + 1 .. PartEnd : ~Occurs(body, Boundary, i)
    BY <1>1 DEF DataIs, PartStart, PartEnd
  <2>2. /\ Occurs(body, Boundary, fed - Len(Boundary) + 1)
        /\ PartStart + 1 < fed - Len(Boundary) + 1
    BY <1>1, <1>3, MatchOccurs
  <2>3. fed - Len(Boundary) + 1 \in PartStart + 1 .. PartEnd
    BY <1>1, <1>3, <2>1, <2>2
  <2>4. QED
    BY <2>1, <2>2, <2>3
<1>5. EndsIn(body, Boundary, PartStart + 1, PartEnd)
  BY <1>1, <1>4 DEF DataIs, PartStart, PartEnd
<1>6. fed = PartEnd + Len(Boundary)
  <2>1. \A i \in (PartStart + 1) + 1 .. PartEnd : ~Occurs(body, Boundary, i)
    BY <1>1, <1>5 DEF EndsIn
  <2>2. QED
    BY <1>1, <1>3, <2>1, MatchIsFirst
<1>7. fed - matchState = PartEnd
  BY <1>1, <1>2, <1>3, <1>6
<1>8. /\ given' \in Seq(Part) /\ Len(given') = Found
      /\ \A j \in 1 .. Found : given'[j] = body.parts[j]
      /\ given' = [given EXCEPT ![Found] = body.parts[Found]]
  BY <1>2, <1>7, Completed
<1>9. Found' = Found
  BY <1>8 DEF Found
<1>10. fed = HeaderStart(body, Found' + 1)
  BY <1>1, <1>6, <1>9, PartPlaces DEF PartEnd
<1>11. FirstParts(Found)'
  <2>1. Found' <= Len(body'.parts)
    BY <1>1, <1>2, <1>9
  <2>2. \A j \in 1 .. Found' : given'[j] = body'.parts[j]
    BY <1>2, <1>8, <1>9
  <2>3. QED
    BY <2>1, <2>2 DEF FirstParts
<1>12. body.cut => Found' < Len(body.parts)
  BY <1>1, <1>4, <1>9
<1>13. PartInv'
  BY <1>1, <1>2, <1>8, <1>10, <1>11, <1>12, HeaderBegins
<1>14. Parts!Last = Found
  BY DEF Parts!Last, Found
<1>15. Parts!ClosePart
  BY <1>2, <1>3, <1>8, <1>14 DEF Parts!ClosePart
<1>16. QED
  BY <1>13, <1>15 DEF Parts!Next

(* ------------------------ the header of a part ------------------------- *)

HeadStart == HeaderStart(body, Found + 1)

LEMMA HeaderIsHere ==
    ASSUME IInv, PartInv, state = "eHeader"
    PROVE  /\ body \in Bodies /\ body.type = "multipart"
           /\ body.text \in Seq(STRING) /\ Len(body.text) \in Nat
           /\ HeaderPlace(HeadStart) /\ given \in Seq(Part)
           /\ Len(body.parts) \in Nat /\ Found \in 0 .. Len(body.parts)
           /\ fed \in 0 .. Len(body.text) /\ matchState \in 0 .. 4
           /\ HeadStart \in Nat /\ HeadStart < fed
           /\ Found = Len(body.parts) => ~body.cut /\ ClosingIs(body)
<1>1. /\ body \in Bodies /\ body.type = "multipart"
      /\ HeaderPlace(HeadStart) /\ given \in Seq(Part)
      /\ Found <= Len(body.parts) /\ HeadStart < fed
  BY DEF IInv, DataInv, PartInv, HeaderPlace, HeadStart, FirstParts
<1>2. /\ body.text \in Seq(STRING) /\ Len(body.text) \in Nat
      /\ Len(body.parts) \in Nat
  BY <1>1, BodyIs
<1>3. fed \in 0 .. Len(body.text) /\ matchState \in 0 .. 4
  BY DEF IInv, TypeOK
<1>4. Found \in 0 .. Len(body.parts)
  <2>1. Len(given) \in Nat
    BY <1>1
  <2>2. QED
    BY <1>1, <1>2, <2>1 DEF Found
<1>5. body.cut => Found < Len(body.parts)
  BY <1>1, <1>2, <1>4 DEF HeaderPlace
<1>6. HeadStart \in Nat /\ (Found = Len(body.parts) => ~body.cut /\ ClosingIs(body))
  BY <1>1, <1>4, <1>5, NextHeader DEF HeadStart
<1>7. QED
  BY <1>1, <1>2, <1>3, <1>4, <1>6

(* A byte of a header's search for its end.                                *)
LEMMA HeaderMatch ==
    ASSUME NEW b, NEW f \in Nat, NEW m \in Nat, NEW lo \in Int, NEW end \in Int,
           Match(b, HeaderEnd, f, m, lo, end), m < 4,
           f = end => m = 0, f >= end => Occurs(b, HeaderEnd, end + 1)
    PROVE  Match(b, HeaderEnd, f + 1,
                 IF b.text[f + 1] = HeaderEnd[m + 1] THEN m + 1 ELSE 0, lo, end)
<1>1. TextAt(b, f + 1) = b.text[f + 1]
  BY DEF TextAt
<1>2. CASE b.text[f + 1] = HeaderEnd[m + 1]
  BY <1>1, <1>2, MatchGoesOn
<1>3. CASE b.text[f + 1] # HeaderEnd[m + 1]
  <2>1. f < end
    <3> SUFFICES ASSUME f >= end PROVE FALSE
      OBVIOUS
    <3>1. m = f - end
      BY DEF Match
    <3>2. m + 1 \in 1 .. Len(HeaderEnd)
      BY SeparatorBytes
    <3>3. TextAt(b, (end + 1) + (m + 1) - 1) = HeaderEnd[m + 1]
      BY <3>2 DEF Occurs
    <3>4. (end + 1) + (m + 1) - 1 = f + 1
      BY <3>1
    <3>5. QED
      BY <1>1, <1>3, <3>3, <3>4
  <2>2. lo <= (f + 1) - 0
    BY DEF Match
  <2>3. Match(b, HeaderEnd, f + 1, 0, lo, end)
    BY <2>1, <2>2 DEF Match
  <2>4. QED
    BY <1>3, <2>3
<1>4. QED
  BY <1>2, <1>3

LEMMA HeaderNext ==
    ASSUME IInv, PartInv, HeaderByte
    PROVE  PartInv' /\ UNCHANGED Parts!vars
<1> DEFINE h == HeadStart
           m == matchState
           n == IF Byte = HeaderEnd[m + 1] THEN m + 1 ELSE 0
           k == Found + 1
<1>1. /\ UNCHANGED <<body, state, data, phase, given>> /\ fed' = fed + 1
      /\ state = "eHeader" /\ More /\ matchState < 4 /\ matchState' = n
      /\ header' = IF Len(header) < HeaderMax THEN Append(header, Byte) ELSE header
      /\ Byte = body.text[fed + 1]
  BY DEF HeaderByte, NextByte, Byte
<1>2. /\ body \in Bodies /\ body.type = "multipart"
      /\ body.text \in Seq(STRING) /\ Len(body.text) \in Nat
      /\ HeaderPlace(h) /\ given \in Seq(Part)
      /\ Len(body.parts) \in Nat /\ Found \in 0 .. Len(body.parts)
      /\ fed \in Nat /\ m \in Nat /\ h \in Nat /\ h < fed /\ h + 1 \in Int
  BY <1>1, HeaderIsHere
<1>3. fed < Len(body.text) /\ Byte \in STRING
  BY <1>1, <1>2 DEF More
<1>4. CASE Found < Len(body.parts)
  <2>1. k \in 1 .. Len(body.parts)
    BY <1>2, <1>4
  <2> DEFINE s == body.starts[k]
  <2>2. /\ fed <= s /\ header = SubSeq(body.text, h + 1, fed)
        /\ Match(body, HeaderEnd, fed, m, h + 1, s - 4)
    BY <1>2, <1>4 DEF HeaderPlace
  <2>3. s \in Nat /\ HeaderIs(body, k) /\ HeaderStart(body, k) = h
    BY <1>2, <2>1, PartPlaces DEF HeadStart
  <2> HIDE DEF k
  <2>4. /\ s <= h + HeaderMax /\ EndsIn(body, HeaderEnd, h + 2, s - 4)
        /\ body.text[s - 4] \notin {"CR", "LF"} /\ s - 4 \in Int /\ h + 5 <= s
    BY <2>3 DEF HeaderIs
  <2> HIDE DEF s
  <2>5. fed > s - 4 => m = fed - (s - 4)
    BY <2>2 DEF Match
  <2>6. fed < s
    BY <1>1, <1>2, <2>2, <2>3, <2>5
  <2>7. fed = s - 4 => m = 0
    <3> SUFFICES ASSUME fed = s - 4, m # 0 PROVE FALSE
      OBVIOUS
    <3>1. m \in 1 .. m /\ m \in 1..3
      BY <1>1, <1>2
    <3>2. TextAt(body, fed - m + m) = HeaderEnd[m]
      BY <2>2, <3>1 DEF Match
    <3>3. fed - m + m = fed
      BY <1>2
    <3>4. TextAt(body, fed) = body.text[s - 4]
      BY <1>2, <2>4 DEF TextAt
    <3>5. HeaderEnd[m] \in {"CR", "LF"}
      BY <3>1 DEF HeaderEnd
    <3>6. QED
      BY <2>4, <3>2, <3>3, <3>4, <3>5
  <2>8. Match(body, HeaderEnd, fed + 1, n, h + 1, s - 4)
    <3>1. Occurs(body, HeaderEnd, (s - 4) + 1)
      BY <2>4 DEF EndsIn
    <3> HIDE DEF h, m
    <3>2. Match(body, HeaderEnd, fed + 1,
                IF body.text[fed + 1] = HeaderEnd[m + 1] THEN m + 1 ELSE 0,
                h + 1, s - 4)
      BY <1>1, <1>2, <2>2, <2>4, <2>7, <3>1, HeaderMatch DEF m
    <3>3. QED
      BY <1>1, <3>2
  <2>9. header' = SubSeq(body.text, h + 1, fed + 1)
    <3>1. fed \in h .. Len(body.text) /\ fed + 1 \in fed .. Len(body.text)
      BY <1>2, <1>3
    <3>2. Len(SubSeq(body.text, h + 1, fed)) = fed - h
      BY <1>2, <3>1, PieceIs
    <3>3. Len(header) < HeaderMax
      <4>1. Len(header) = fed - h
        BY <2>2, <3>2
      <4>2. fed - h < HeaderMax
        BY <1>2, <2>3, <2>4, <2>6, SizeAssumption
      <4>3. QED
        BY <4>1, <4>2
    <3>4. header' = Append(header, Byte) /\ header \in Seq(STRING)
      BY <1>1, <3>3 DEF IInv, DataInv
    <3>5. header' = header \o <<Byte>>
      BY <1>3, <3>4, AppendIsConcat
    <3>6. <<Byte>> = SubSeq(body.text, fed + 1, fed + 1)
      BY <1>1, <1>2, <1>3, OneByte
    <3>7. SubSeq(body.text, h + 1, fed) \o SubSeq(body.text, fed + 1, fed + 1)
            = SubSeq(body.text, h + 1, fed + 1)
      BY <1>2, <3>1, PiecesJoin
    <3>8. QED
      BY <2>2, <3>5, <3>6, <3>7
  <2>10. /\ Found' = Found /\ HeadStart' = h /\ FirstParts(Found)'
    BY <1>1, <1>2 DEF Found, HeadStart, HeaderPlace, FirstParts
  <2>11. s = body'.starts[Found' + 1] /\ Found' < Len(body'.parts)
    BY <1>1, <1>4, <2>10 DEF s, k
  <2>12. fed' <= s /\ h < fed'
    BY <1>1, <1>2, <2>3, <2>6
  <2>13. header' = SubSeq(body'.text, h + 1, fed')
    BY <1>1, <2>9
  <2>14. Match(body', HeaderEnd, fed', matchState', h + 1, s - 4)
    BY <1>1, <2>8
  <2>15. HeaderPlace(HeadStart)'
    BY <1>1, <1>2, <2>10, <2>11, <2>12, <2>13, <2>14 DEF HeaderPlace
  <2>16. QED
    BY <1>1, <1>2, <2>15 DEF PartInv, HeaderPlace, HeadStart, Parts!vars
<1>5. CASE ~(Found < Len(body.parts))
  <2>1. /\ ~body.cut /\ Match(body, HeaderEnd, fed, m, h + 1, Len(body.text))
    BY <1>2, <1>5 DEF HeaderPlace
  <2>2. Len(body.text) \in Int /\ ~(fed >= Len(body.text)) /\ fed # Len(body.text)
    BY <1>2, <1>3
  <2>3. Match(body, HeaderEnd, fed + 1, n, h + 1, Len(body.text))
    <3> HIDE DEF h, m
    <3>1. Match(body, HeaderEnd, fed + 1,
                IF body.text[fed + 1] = HeaderEnd[m + 1] THEN m + 1 ELSE 0,
                h + 1, Len(body.text))
      BY <1>1, <1>2, <2>1, <2>2, HeaderMatch DEF m
    <3>2. QED
      BY <1>1, <3>1
  <2>4. Found' = Found /\ HeadStart' = h /\ FirstParts(Found)'
    BY <1>1, <1>2 DEF Found, HeadStart, HeaderPlace, FirstParts
  <2>5. /\ h < fed' /\ ~body'.cut
        /\ Match(body', HeaderEnd, fed', matchState', h + 1, Len(body'.text))
    BY <1>1, <1>2, <2>1, <2>3
  <2>6. HeaderPlace(HeadStart)'
    BY <1>1, <1>2, <1>5, <2>4, <2>5 DEF HeaderPlace
  <2>7. QED
    BY <1>1, <1>2, <2>6 DEF PartInv, HeaderPlace, HeadStart, Parts!vars
<1>6. QED
  BY <1>4, <1>5

(* The end of a header was found, behind which a part begins: it has data  *)
(* in front of the next separator.                                         *)
LEMMA HeaderFound ==
    ASSUME IInv, PartInv, NoEmptyPart, HeaderDone
    PROVE  LET k == Found + 1
               s == body.starts[k]
           IN  /\ k \in 1 .. Len(body.parts) /\ fed = s /\ s + 1 <= DataEnd(body, k)
               /\ given' = Append(given, [fields |-> body.parts[k].fields,
                                          data |-> <<>>])
<1> DEFINE h == HeadStart
           k == Found + 1
           s == body.starts[k]
<1>1. /\ state = "eHeader" /\ More /\ matchState = 4
      /\ \E n \in Fields(SubSeq(header, 3, Len(header))) :
           given' = Append(given, [fields |-> n, data |-> <<>>])
  BY DEF HeaderDone
<1>2. /\ body \in Bodies /\ body.type = "multipart"
      /\ body.text \in Seq(STRING) /\ Len(body.text) \in Nat
      /\ HeaderPlace(h) /\ given \in Seq(Part)
      /\ Len(body.parts) \in Nat /\ Found \in 0 .. Len(body.parts)
      /\ fed \in Nat /\ h \in Nat /\ h < fed /\ h + 1 \in Int
      /\ Found = Len(body.parts) => ClosingIs(body)
  BY <1>1, HeaderIsHere
<1>3. fed < Len(body.text) /\ fed <= Len(body.text) /\ Len(HeaderEnd) = 4
  BY <1>1, <1>2, SeparatorBytes DEF More
<1>4. Found < Len(body.parts)
  <2> SUFFICES ASSUME Found = Len(body.parts) PROVE FALSE
    BY <1>2
  <2>1. Match(body, HeaderEnd, fed, Len(HeaderEnd), h + 1, Len(body.text))
    BY <1>1, <1>2, <1>3 DEF HeaderPlace
  <2>2. /\ Occurs(body, HeaderEnd, fed - Len(HeaderEnd) + 1)
        /\ h + 1 < fed - Len(HeaderEnd) + 1
        /\ fed - Len(HeaderEnd) + 1 = fed - 4 + 1
    <3> HIDE DEF h
    <3>1. Len(HeaderEnd) \in Nat /\ Len(body.text) \in Int
      BY <1>2, <1>3
    <3>2. QED
      BY <1>2, <1>3, <2>1, <3>1, MatchOccurs
  <2>3. fed - 4 + 1 \in h + 2 .. Len(body.text) - 4
    BY <1>2, <1>3, <2>2
  <2>4. ~Occurs(body, HeaderEnd, fed - 4 + 1)
    BY <1>2, <2>3 DEF ClosingIs, HeadStart
  <2>5. QED
    BY <2>2, <2>4
<1>5. k \in 1 .. Len(body.parts)
  BY <1>2, <1>4
<1>6. /\ header = SubSeq(body.text, h + 1, fed)
      /\ Match(body, HeaderEnd, fed, Len(HeaderEnd), h + 1, s - 4)
  BY <1>1, <1>2, <1>3, <1>4 DEF HeaderPlace
<1> HIDE DEF k
<1>7. /\ s \in Nat /\ HeaderIs(body, k) /\ HeaderStart(body, k) = h
      /\ DataEnd(body, k) = s + Len(body.parts[k].data)
      /\ s <= DataEnd(body, k) /\ DataEnd(body, k) <= Len(body.text)
  <2>1. HeaderStart(body, k) = h
    BY DEF HeadStart, k
  <2>2. Len(body.parts[k].data) \in Nat
    BY <1>2, <1>5, BodyIs
  <2>3. /\ s \in Nat /\ HeaderIs(body, k)
        /\ DataEnd(body, k) = s + Len(body.parts[k].data)
        /\ DataEnd(body, k) <= Len(body.text)
    BY <1>2, <1>5, PartPlaces
  <2>4. QED
    BY <2>1, <2>2, <2>3
<1>8. /\ EndsIn(body, HeaderEnd, h + 2, s - 4) /\ s - 4 \in Int /\ h + 5 <= s
      /\ Fields(SubSeq(body.text, h + 3, s)) = {body.parts[k].fields}
  BY <1>7 DEF HeaderIs
<1> HIDE DEF s, h
<1>9. fed = s
  <2> DEFINE lo == h + 1
             end == s - 4
  <2>1. \A i \in lo + 1 .. end : ~Occurs(body, HeaderEnd, i)
    BY <1>2, <1>7, <1>8 DEF EndsIn
  <2>2. fed = end + Len(HeaderEnd)
    <3>1. /\ fed \in Nat /\ fed <= Len(body.text) /\ Len(body.text) \in Nat
          /\ lo \in Int /\ end \in Int /\ Len(HeaderEnd) \in Nat \ {0}
          /\ Match(body, HeaderEnd, fed, Len(HeaderEnd), lo, end)
      BY <1>2, <1>3, <1>6, <1>8
    <3> HIDE DEF lo, end
    <3>2. QED
      BY <2>1, <3>1, MatchIsFirst
  <2>3. QED
    BY <1>3, <1>7, <2>2
<1>10. SubSeq(header, 3, Len(header)) = SubSeq(body.text, h + 3, s)
  <2>1. /\ s \in h .. Len(body.text) /\ 2 \in Nat /\ s - h \in 2 .. s - h
    BY <1>2, <1>3, <1>7, <1>8, <1>9
  <2>2. Len(SubSeq(body.text, h + 1, s)) = s - h
    BY <1>2, <2>1, PieceIs
  <2>3. SubSeq(SubSeq(body.text, h + 1, s), 2 + 1, s - h)
          = SubSeq(body.text, h + 2 + 1, h + (s - h))
    BY <1>2, <2>1, PieceOfPiece
  <2>4. 2 + 1 = 3 /\ h + 2 + 1 = h + 3 /\ h + (s - h) = s
    BY <1>2, <1>7
  <2>5. QED
    BY <1>6, <1>9, <2>2, <2>3, <2>4
<1>11. given' = Append(given, [fields |-> body.parts[k].fields, data |-> <<>>])
  BY <1>1, <1>8, <1>10
<1>12. s + 1 <= DataEnd(body, k)
  <2>1. body.parts[k].data # <<>>
    BY <1>2, <1>5 DEF NoEmptyPart
  <2>2. body.parts[k].data \in Seq(STRING)
    BY <1>2, <1>5, BodyIs DEF Part
  <2>3. Len(body.parts[k].data) > 0
    BY <2>1, <2>2
  <2>4. Len(body.parts[k].data) \in Nat
    BY <2>2
  <2>5. QED
    BY <1>7, <2>3, <2>4
<1>13. QED
  BY <1>5, <1>9, <1>11, <1>12 DEF k, s

LEMMA PartBegins ==
    ASSUME IInv, PartInv, NoEmptyPart, HeaderDone
    PROVE  PartInv' /\ Parts!Next
<1> DEFINE k == Found + 1
           s == body.starts[k]
           p == [fields |-> body.parts[k].fields, data |-> <<>>]
<1>1. /\ k \in 1 .. Len(body.parts) /\ fed = s /\ s + 1 <= DataEnd(body, k)
      /\ given' = Append(given, p)
  BY HeaderFound
<1>2. /\ state = "eHeader" /\ More /\ body' = body /\ fed' = fed + 1
      /\ state' = "eData" /\ matchState' = 0 /\ header' = <<>>
      /\ data' = <<Byte>> /\ phase' = "inside" /\ Byte = body.text[fed + 1]
  BY DEF HeaderDone, NextByte, Byte
<1>3. /\ body \in Bodies /\ body.type = "multipart"
      /\ body.text \in Seq(STRING) /\ Len(body.text) \in Nat
      /\ HeaderPlace(HeadStart) /\ given \in Seq(Part) /\ Found \in Nat
      /\ fed \in Nat /\ Len(body.parts) \in Nat
  BY <1>2, HeaderIsHere
<1>4. fed < Len(body.text)
  BY <1>2, <1>3 DEF More
<1>5. body.parts[k] \in Part /\ p \in Part /\ p.data = <<>>
  <2>1. body.parts[k] \in Part
    BY <1>1, <1>3, BodyIs
  <2>2. QED
    BY <2>1 DEF Part
<1>6. /\ phase = "between" /\ \A j \in 1 .. Found : given[j] = body.parts[j]
  BY <1>3 DEF HeaderPlace, FirstParts
<1> HIDE DEF p
<1>7. /\ given' \in Seq(Part) /\ given' # <<>> /\ Len(given') = k
      /\ \A j \in 1 .. Found : given'[j] = given[j]
      /\ given'[k] = p
  <2>1. Len(given) = Found
    BY DEF Found
  <2>2. QED
    BY <1>1, <1>3, <1>5, <2>1, AppendProperties
<1>8. Found' = k /\ PartStart' = s /\ Count' = 0 /\ Len(<<>>) = 0
  BY <1>2, <1>5, <1>7 DEF Found, PartStart, Count
<1> HIDE DEF s
<1>9. DataPlace(PartStart, Count)'
  <2>1. FirstParts(Found - 1)'
    <3>1. Found' - 1 = Found /\ k - 1 <= Len(body'.parts)
      BY <1>1, <1>2, <1>3, <1>8
    <3>2. \A j \in 1 .. Found' - 1 : given'[j] = body'.parts[j]
      BY <1>2, <1>6, <1>7, <3>1
    <3>3. QED
      BY <1>8, <3>1, <3>2 DEF FirstParts
  <2>2. /\ given'[Found'].fields = body'.parts[Found'].fields
        /\ given'[Found'].data = <<>>
    BY <1>2, <1>5, <1>7, <1>8 DEF p
  <2>3. SubSeq(body'.text, s + 1, s + 0) = <<>>
    BY <1>1, <1>3, SubSeqEmpty
  <2>4. data' = SubSeq(body'.text, s + 0 + 1, fed' - matchState')
    <3>1. data' = SubSeq(body.text, fed + 1, fed + 1)
      BY <1>2, <1>3, <1>4, OneByte
    <3>2. s + 0 + 1 = fed + 1 /\ fed' - matchState' = fed + 1
      BY <1>1, <1>2, <1>3
    <3>3. QED
      BY <1>2, <3>1, <3>2
  <2>5. Match(body', Boundary, fed', matchState', s + 1, DataEnd(body', Found'))
    <3>1. ~(fed + 1 > DataEnd(body, k))
      <4>1. DataEnd(body, k) \in Nat
        BY <1>1, <1>3, PartPlaces
      <4>2. QED
        BY <1>1, <1>3, <4>1
    <3>2. Match(body, Boundary, fed + 1, 0, fed + 1, DataEnd(body, k))
      BY <1>3, <3>1 DEF Match
    <3>3. QED
      BY <1>1, <1>2, <1>8, <3>2
  <2>6. s + 0 <= fed' - matchState' /\ Found' <= Len(body'.parts)
    BY <1>1, <1>2, <1>3, <1>8
  <2>7. body'.type = "multipart" /\ phase' = "inside" /\ given' # <<>>
    BY <1>2, <1>3, <1>7
  <2>8. QED
    BY <1>8, <2>1, <2>2, <2>3, <2>4, <2>5, <2>6, <2>7 DEF DataPlace
<1>10. PartInv'
  BY <1>2, <1>7, <1>9 DEF PartInv, PartStart, Count
<1>11. Parts!OpenPart
  <2>1. Parts!Given(k, 0) = p
    <3>1. 0 \in 0 .. Len(body.parts[k].data)
      BY <1>1, <1>3, BodyIs
    <3>2. /\ Parts!Given(k, 0) \in Part
          /\ Parts!Given(k, 0).fields = body.parts[k].fields
          /\ Parts!Given(k, 0).data = SubSeq(body.parts[k].data, 1, 0)
      BY <1>1, <3>1, GivenIs
    <3>3. SubSeq(body.parts[k].data, 1, 0) = <<>>
      BY SubSeqEmpty
    <3>4. p.fields = body.parts[k].fields
      BY DEF p
    <3>5. QED
      BY <1>5, <3>2, <3>3, <3>4, PartsEqual
  <2>2. Parts!Last + 1 = k /\ Parts!Last < Len(body.parts)
    BY <1>1, <1>3 DEF Parts!Last, Found
  <2>3. QED
    BY <1>1, <1>2, <1>6, <2>1, <2>2 DEF Parts!OpenPart
<1>12. QED
  BY <1>10, <1>11 DEF Parts!Next

(* ------------------------ the end of the body -------------------------- *)

(* In the data of a part, the body ends only where it is cut short, and    *)
(* nothing is then taken for the start of a separator.                     *)
LEMMA CutInData ==
    ASSUME IInv, PartInv, state = "eData", ~More
    PROVE  /\ body.cut /\ Found = Len(body.parts)
           /\ fed - matchState = PartEnd
<1>1. /\ body \in Bodies /\ body.type = "multipart"
      /\ body.text \in Seq(STRING) /\ Len(body.text) \in Nat
      /\ DataPlace(PartStart, Count)
      /\ Len(body.parts) \in Nat /\ Found \in 1 .. Len(body.parts)
      /\ fed \in 0 .. Len(body.text) /\ matchState \in 0 .. Len(Boundary)
      /\ PartStart \in Nat /\ PartEnd \in PartStart .. Len(body.text)
      /\ fed - matchState \in PartStart + 1 .. PartEnd
      /\ DataIs(body, Found)
  BY DataIsHere
<1>2. fed = Len(body.text) /\ fed \in Nat /\ matchState \in Nat
  BY <1>1, SeparatorBytes DEF More
<1>3. Match(body, Boundary, fed, matchState, PartStart + 1, PartEnd)
  BY <1>1 DEF DataPlace, PartEnd
<1>4. body.cut /\ Found = Len(body.parts)
  <2> SUFFICES ASSUME ~(body.cut /\ Found = Len(body.parts)) PROVE FALSE
    OBVIOUS
  <2>1. Found \in 0 .. Len(body.parts) /\ (body.cut => Found < Len(body.parts))
    BY <1>1
  <2>2. /\ HeaderStart(body, Found + 1) < Len(body.text)
        /\ HeaderStart(body, Found + 1) = PartEnd + Len(Boundary)
    BY <1>1, <2>1, NextHeader, PartPlaces DEF PartEnd
  <2>3. fed > PartEnd => matchState = fed - PartEnd
    BY <1>3 DEF Match
  <2>4. QED
    BY <1>1, <1>2, <2>2, <2>3, SeparatorBytes
<1>5. /\ PartEnd = Len(body.text)
      /\ \A i \in PartStart + 1 .. PartEnd :
           ~IsPrefix(SubSeq(body.text, i, PartEnd), Boundary)
  BY <1>1, <1>4 DEF DataIs, PartStart, PartEnd
<1>6. matchState = 0
  <2> SUFFICES ASSUME matchState # 0 PROVE FALSE
    OBVIOUS
  <2> DEFINE p == fed - matchState
             l == SubSeq(body.text, p + 1, PartEnd)
  <2>1. p \in Nat /\ PartEnd \in p .. Len(body.text) /\ PartEnd - p = matchState
    BY <1>1, <1>2, <1>5
  <2>2. /\ l \in Seq(STRING) /\ Len(l) = matchState
        /\ \A i \in 1 .. matchState : l[i] = body.text[p + i]
    BY <1>1, <2>1, PieceIs
  <2>3. \A i \in 1 .. matchState : body.text[p + i] = Boundary[i]
    BY <1>3, <2>1 DEF Match, TextAt
  <2>4. IsPrefix(l, Boundary)
    <3> HIDE DEF l, p
    <3>1. matchState <= Len(Boundary)
      BY <1>1, SeparatorBytes
    <3>2. /\ SubSeq(Boundary, 1, matchState) \in Seq(STRING)
          /\ Len(SubSeq(Boundary, 1, matchState)) = matchState
          /\ \A i \in 1 .. matchState : SubSeq(Boundary, 1, matchState)[i] = Boundary[i]
      BY <1>2, <3>1, SeparatorBytes
    <3>3. l = SubSeq(Boundary, 1, matchState)
      BY <2>2, <2>3, <3>2, SeqEqual
    <3>4. QED
      BY <2>2, <3>1, <3>3, SeparatorBytes DEF IsPrefix
  <2>5. p + 1 \in PartStart + 1 .. PartEnd
    BY <1>1, <1>2, <1>5
  <2>6. QED
    BY <1>5, <2>4, <2>5
<1>7. QED
  BY <1>2, <1>4, <1>5, <1>6

LEMMA AllGivenAtEnd ==
    ASSUME IInv, PartInv, NoEmptyPart, Terminate
    PROVE  given' = body.parts /\ Found = Len(body.parts)
<1>1. /\ state \in {"eBinary", "eDitch", "eData", "eHeader"} /\ ~More
      /\ given' = IF data # <<>> THEN GiveData(given, data) ELSE given
  BY DEF Terminate
<1>2. /\ body \in Bodies /\ fed = Len(body.text) /\ Len(body.text) \in Nat
      /\ body.text \in Seq(STRING)
  <2>1. body \in Bodies /\ fed \in 0 .. Len(body.text) /\ ~(fed < Len(body.text))
    BY <1>1 DEF IInv, TypeOK, DataInv, More
  <2>2. body.text \in Seq(STRING) /\ Len(body.text) \in Nat
    BY <2>1, BodyIs
  <2>3. QED
    BY <2>1, <2>2
<1>3. CASE state = "eBinary"
  <2>1. /\ body.type = "raw" /\ data = <<>>
        /\ given = <<[fields |-> 0, data |-> SubSeq(body.text, 1, fed)]>>
    BY <1>3 DEF PartInv, BinaryPlace
  <2>2. SubSeq(body.text, 1, fed) = body.text
    BY <1>2, SubSeqFull
  <2>3. given = body.parts
    BY <1>2, <2>1, <2>2, BodyIs
  <2>4. QED
    BY <1>1, <2>1, <2>3 DEF Found
<1>4. CASE state = "eDitch"
  <2> SUFFICES FALSE
    OBVIOUS
  <2> DEFINE end == body.first - Len(Boundary)
  <2>1. /\ body.type = "multipart" /\ body.first \in Nat
        /\ matchState \in 0 .. Len(Boundary)
        /\ Match(body, Boundary, fed, matchState, -2, end)
    BY <1>4, DitchIsHere DEF DitchPlace
  <2>2. body.first < Len(body.text)
    <3>1. Len(body.parts) \in Nat /\ body.parts \in Seq(Part)
      BY <1>2, BodyIs
    <3>2. body.cut => body.parts # <<>>
      BY <1>2, <2>1, BodyIs DEF IsMultipart
    <3>3. 0 \in 0 .. Len(body.parts) /\ (body.cut => 0 < Len(body.parts))
      BY <3>1, <3>2
    <3>4. HeaderStart(body, 0 + 1) < Len(body.text)
      BY <1>2, <2>1, <3>3, NextHeader
    <3>5. HeaderStart(body, 0 + 1) = body.first
      BY DEF HeaderStart
    <3>6. QED
      BY <3>4, <3>5
  <2>3. fed > end => matchState = fed - end
    BY <2>1 DEF Match
  <2>4. QED
    BY <1>2, <2>1, <2>2, <2>3, SeparatorBytes
<1>5. CASE state = "eHeader"
  <2>1. /\ body.type = "multipart" /\ HeaderPlace(HeadStart) /\ given \in Seq(Part)
        /\ Len(body.parts) \in Nat /\ Found \in 0 .. Len(body.parts)
    BY <1>5, HeaderIsHere
  <2>2. data = <<>> /\ \A j \in 1 .. Found : given[j] = body.parts[j]
    BY <2>1 DEF HeaderPlace, FirstParts
  <2>3. Found = Len(body.parts)
    <3> SUFFICES ASSUME Found < Len(body.parts) PROVE FALSE
      BY <2>1
    <3> DEFINE k == Found + 1
    <3>1. k \in 1 .. Len(body.parts)
      BY <2>1
    <3>2. fed <= body.starts[k]
      BY <2>1 DEF HeaderPlace
    <3> HIDE DEF k
    <3>3. /\ body.starts[k] \in Nat /\ DataEnd(body, k) <= Len(body.text)
          /\ DataEnd(body, k) = body.starts[k] + Len(body.parts[k].data)
      BY <1>2, <2>1, <3>1, PartPlaces
    <3>4. body.parts[k].data # <<>> /\ body.parts[k].data \in Seq(STRING)
      <4>1. body.parts[k] \in Part
        BY <1>2, <3>1, BodyIs
      <4>2. QED
        BY <1>2, <2>1, <3>1, <4>1 DEF NoEmptyPart, Part
    <3>5. Len(body.parts[k].data) \in Nat /\ Len(body.parts[k].data) > 0
      BY <3>4
    <3>6. QED
      BY <1>2, <3>2, <3>3, <3>5
  <2>4. given = body.parts
    BY <2>1, <2>2, <2>3, AllGiven DEF Found
  <2>5. QED
    BY <1>1, <2>2, <2>3, <2>4
<1>6. CASE state = "eData"
  <2>1. Found = Len(body.parts) /\ fed - matchState = PartEnd
    BY <1>1, <1>6, CutInData
  <2>2. /\ GiveData(given, data) \in Seq(Part)
        /\ Len(GiveData(given, data)) = Found
        /\ \A j \in 1 .. Found : GiveData(given, data)[j] = body.parts[j]
        /\ data = <<>> => \A j \in 1 .. Found : given[j] = body.parts[j]
    BY <1>6, <2>1, Completed
  <2>3. CASE data = <<>>
    <3>1. given \in Seq(Part) /\ Len(given) = Found
      BY DEF PartInv, Found
    <3>2. given = body.parts
      BY <2>1, <2>2, <2>3, <3>1, AllGiven
    <3>3. QED
      BY <1>1, <2>1, <2>3, <3>2
  <2>4. CASE data # <<>>
    <3>1. GiveData(given, data) = body.parts
      BY <2>1, <2>2, AllGiven
    <3>2. QED
      BY <1>1, <2>1, <2>4, <3>1
  <2>5. QED
    BY <2>3, <2>4
<1>7. QED
  BY <1>1, <1>3, <1>4, <1>5, <1>6

LEMMA PhaseOfState ==
    ASSUME PartInv, state \in {"eBinary", "eDitch", "eData", "eHeader"}
    PROVE  phase \in {"between", "inside"}
  BY DEF PartInv, BinaryPlace, DitchPlace, HeaderPlace, DataPlace

LEMMA TerminatePlaces ==
    ASSUME IInv, PartInv, NoEmptyPart, Terminate
    PROVE  PartInv' /\ Parts!Next
<1>1. given' = body.parts /\ Found = Len(body.parts)
  BY AllGivenAtEnd
<1>2. /\ state \in {"eBinary", "eDitch", "eData", "eHeader"} /\ ~More
      /\ state' = "eTerminated" /\ body' = body
      /\ phase' = IF phase = "inside" /\ state = "eData" /\ data = <<>>
                    THEN "endedInside" ELSE "ended"
  BY DEF Terminate
<1>3. phase' = "endedInside" => body.cut
  BY <1>2, CutInData
<1>4. phase \in {"between", "inside"}
  BY <1>2, PhaseOfState
<1>5. body.parts \in Seq(Part)
  BY BodyIs DEF IInv, DataInv
<1>6. PartInv'
  BY <1>1, <1>2, <1>3, <1>5 DEF PartInv
<1>7. Parts!End
  BY <1>1, <1>2, <1>3, <1>4 DEF Parts!End, Parts!Last, Found
<1>8. QED
  BY <1>6, <1>7 DEF Parts!Next

LEMMA AbortPlaces ==
    ASSUME IInv, PartInv, Abort
    PROVE  PartInv' /\ Parts!Next
<1>1. /\ state \in {"eBinary", "eDitch", "eData", "eHeader"}
      /\ state' = "eTerminated" /\ phase' = "aborted"
      /\ UNCHANGED <<body, given>>
  BY DEF Abort
<1>2. phase \in {"between", "inside"}
  BY <1>1, PhaseOfState
<1>3. PartInv'
  BY <1>1 DEF PartInv
<1>4. Parts!Abort
  BY <1>1, <1>2 DEF Parts!Abort
<1>5. QED
  BY <1>3, <1>4 DEF Parts!Next

LEMMA StepPlaces ==
    ASSUME IInv, PartInv, NoEmptyPart, [Next]_vars
    PROVE  PartInv' /\ [Parts!Next]_Parts!vars
<1>1. CASE UNCHANGED vars
  BY <1>1 DEF vars, stream, Parts!vars, PartInv, BinaryPlace, DitchPlace,
     HeaderPlace, DataPlace, FirstParts, Found
<1>2. CASE Setup
  BY <1>2, SetupPlaces
<1>3. CASE RawBytes
  BY <1>3, RawPlaces
<1>4. CASE Separator \/ SeparatorByte \/ NoSeparator
  <2>1. state \in {"eDitch", "eData"}
    BY <1>4 DEF Separator, SeparatorByte, NoSeparator, Searching
  <2>2. CASE state = "eDitch"
    BY <1>4, <2>2, DitchSeparator, DitchStep
  <2>3. CASE state = "eData"
    BY <1>4, <2>3, DataSeparator, DataByte, DataStored
  <2>4. QED
    BY <2>1, <2>2, <2>3
<1>5. CASE HeaderDone
  BY <1>5, PartBegins
<1>6. CASE HeaderByte
  BY <1>6, HeaderNext
<1>7. CASE Terminate
  BY <1>7, TerminatePlaces
<1>8. CASE Abort
  BY <1>8, AbortPlaces
<1>9. QED
  BY <1>1, <1>2, <1>3, <1>4, <1>5, <1>6, <1>7, <1>8 DEF Next, FilestreamIn

(* The invariant of the refinement holds with the buffers'.                *)
LEMMA PlaceInvariant ==
    ASSUME NoEmptyPart
    PROVE  Spec => [](IInv /\ PartInv)
<1>1. IInv /\ [Next]_vars => IInv'
  BY StepIInv
<1>2. IInv /\ PartInv /\ [Next]_vars => PartInv'
  BY StepPlaces
<1>3. Init => IInv /\ PartInv
  BY InitIInv, InitPlaces
<1>4. QED
  BY <1>1, <1>2, <1>3, PTL DEF Spec

(* The parser gives its callback the parts of every well-formed body, each *)
(* with its fields and its data, in order and whole, unless the data of a  *)
(* part is empty.  It does not matter how the body is cut into calls, how  *)
(* large the buffers are, and how much of a separator or of the end of a   *)
(* header the data and the headers hold (multipart.c:226-334).             *)
THEOREM PartStreamImplemented ==
    ASSUME NoEmptyPart
    PROVE  Spec => ImplementsPartStream
<1>1. Init => Parts!Init
  BY InitPlaces
<1>2. IInv /\ PartInv /\ [Next]_vars => [Parts!Next]_Parts!vars
  BY StepPlaces
<1>3. QED
  BY <1>1, <1>2, PlaceInvariant, PTL DEF Spec, ImplementsPartStream, Parts!Spec

(* "(SEPARATOR, (HEADER FIELD)+, EMPTY_LINE, DATA)+, SEPARATOR"            *)
(* (multipart.c:36): when the body has come to its end, as many parts were *)
(* found as it consists of, and they are its parts, unless the data of a   *)
(* part is empty: that is the only way to miss one.                        *)
THEOREM EveryPartIsFound ==
    ASSUME NoEmptyPart
    PROVE  Spec => []EveryPartFound
<1>1. PartInv => EveryPartFound
  BY DEF PartInv, EveryPartFound
<1>2. QED
  BY <1>1, PlaceInvariant, PTL

=============================================================================
