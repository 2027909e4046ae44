--------------------------- MODULE MCHttpProtocol ---------------------------
(* Requests for HttpProtocol, encoded from the body they carry: this is    *)
(* the reference the parser is compared with.                              *)
EXTENDS HttpProtocol

CRLF == <<"CR", "LF">>
Header(n) == [i \in 1..n |-> "d"] \o CRLF \o CRLF
From(a, n) == [i \in 1..n |-> a + i]

Plain(n) ==
    [text |-> Header(n), post |-> FALSE, length |-> NoLength,
     chunked |-> FALSE, chunks |-> <<>>, body |-> <<>>,
     need |-> Len(Header(n))]

(* A header that does not fit the header buffer, so never complete. *)
TooLong(n) == [Plain(n) EXCEPT !.need = Len(Header(n)) + 1]

(* A body of the given length in its Content-Length, and `extra` bytes of  *)
(* a request behind it.                                                    *)
Sized(n, length, extra) ==
    LET body == From(Len(Header(n)), IF length > 0 THEN length ELSE 0)
    IN  [text |-> Header(n) \o [i \in 1 .. Len(body) + extra |-> "d"],
         post |-> TRUE, length |-> length, chunked |-> FALSE,
         chunks |-> <<>>, body |-> body,
         need |-> Len(Header(n)) + Len(body)]

(* One with a Content-Length of which only the first bytes are sent. *)
Announced(length, sent) ==
    [Sized(0, length, 0) EXCEPT !.text = SubSeq(@, 1, 4 + sent)]

Unframed(n) ==
    [text |-> Header(0) \o [i \in 1..n |-> "d"], post |-> TRUE,
     length |-> NoLength, chunked |-> FALSE, chunks |-> <<>>,
     body |-> From(4, n),
     need |-> 4 + n + 1]

(* One chunk: its size with an extension of `ext` bytes, and its data. *)
Digit == <<"1", "2", "3">>
Hex(n) == IF n < 16 THEN <<Digit[n]>> ELSE <<Digit[n \div 16], Digit[n % 16]>>
AddChunk(m, data, ext) ==
    LET line == Hex(Len(data)) \o [i \in 1..ext |-> "d"] \o CRLF
        at   == Len(m.text) + Len(line)
    IN  [text |-> m.text \o line \o data \o CRLF,
         body |-> m.body \o From(at, Len(data)),
         chunks |-> Append(m.chunks, [at |-> at, size |-> Len(data),
                                      off |-> Len(m.body)])]

(* A chunked body: a sequence of [data, ext], a last chunk, and a trailer. *)
Chunks(length, chunks, last) ==
    LET m == FoldLeft(LAMBDA r, c : AddChunk(r, c.data, c.ext),
                      [text |-> Header(0), body |-> <<>>, chunks |-> <<>>],
                      chunks)
    IN  [text |-> m.text \o last \o CRLF \o CRLF, post |-> TRUE,
         length |-> length, chunked |-> TRUE, chunks |-> m.chunks,
         body |-> m.body,
         need |-> Len(m.text) + Len(last) + 2]

Ch(data, ext) == [data |-> data, ext |-> ext]
Bytes(n) == [i \in 1..n |-> "d"]

(* Sizes that are negative as an int, and ones that are positive but less. *)
Unfits ==
    { Announced(20, 2), Announced(35, 5),
      Chunks(NoLength, <<Ch(Bytes(1), 0), Ch(Bytes(17), 0)>>, <<"0">>),
      Chunks(NoLength, <<Ch(Bytes(33), 0)>>, <<"0">>) }

MCMessages ==
    { Plain(1), TooLong(6), Sized(1, 3, 1), Sized(0, 0, 1), Sized(0, -1, 1),
      Unframed(2),
      Chunks(NoLength, <<Ch(<<"CR", "LF", "0">>, 0), Ch(<<"0">>, 0)>>, <<"0">>),
      Chunks(2, <<Ch(<<"d", "CR">>, 0)>>, <<"0", "0">>),
      Chunks(NoLength, <<Ch(<<"d">>, 1), Ch(<<"1", "CR">>, 0)>>, <<"d">>),
      Chunks(NoLength, <<>>, <<"0">>) } \cup Unfits

MCNoLength == -9

=============================================================================
