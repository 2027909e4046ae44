----------------------------- MODULE MCMultipart -----------------------------
(* Bodies for Multipart, written from the parts they consist of. *)
EXTENDS Multipart

MCBoundary == <<"CR", "LF", "-", "B">>
CRLF == <<"CR", "LF">>

Bytes == {"CR", "LF", "-", "B"}
Holds(s, t) == \E i \in 1 .. Len(s) - Len(t) + 1 :
                 SubSeq(s, i, i + Len(t) - 1) = t

(* Data of up to n bytes that holds no separator. *)
DataUpTo(n) == {d \in SeqOf(Bytes, n) \ {<<>>} :
                  ~Holds(d, MCBoundary)}

Part(fields, bytes) == [fields |-> fields, data |-> bytes]

Repeat(s, n) == FoldLeft(LAMBDA r, i : r \o s, <<>>, [i \in 1..n |-> i])

Header(p) == CRLF \o Repeat(<<":", "CR", "LF">>, p.fields) \o CRLF

PartText(p) == MCBoundary \o Header(p) \o p.data

(* The text of the parts, of a preamble, and of the end of the body.       *)
Multi(preamble, parts, end, cut) ==
    LET Text(n) == FoldLeft(LAMBDA r, p : r \o PartText(p), <<>>,
                            SubSeq(parts, 1, n))
        text    == Text(Len(parts))
        before  == IF preamble = <<>> THEN -2 ELSE Len(preamble)
    IN  [type |-> "multipart", cut |-> cut, parts |-> parts,
         text |-> (IF preamble = <<>> THEN SubSeq(text, 3, Len(text))
                                      ELSE preamble \o text) \o end,
         first |-> before + Len(MCBoundary),
         starts |-> [k \in DOMAIN parts |->
                       before + Len(Text(k)) - Len(parts[k].data)]]

Closing == MCBoundary \o <<"-", "-">> \o CRLF

Raw(bytes) == [type |-> "raw", cut |-> FALSE, text |-> bytes,
               parts |-> <<Part(0, bytes)>>, first |-> 0, starts |-> <<0>>]

(* Every data of up to four bytes, and longer ones around the size of the  *)
(* data buffer; more parts, more fields, text before the first part; and   *)
(* bodies that end before their closing separator does.                    *)
MCBodies ==
    {Multi(<<>>, <<Part(1, d)>>, Closing, FALSE) : d \in DataUpTo(4)}
    \cup {Multi(<<>>, <<Part(1, [i \in 1..n |-> "B"] \o <<"CR", "LF", "-">>)>>,
                Closing, FALSE) : n \in 2..4}
    \cup {Multi(<<"-", "CR">>, <<Part(f, <<"B">>), Part(2, <<"-", "CR", "LF">>)>>,
                Closing, FALSE) : f \in 1..3}
    \cup {Multi(<<>>, <<Part(1, [i \in 1..n |-> "-"])>>, <<>>, TRUE) : n \in 1..6}
    \cup {Raw(d) : d \in DataUpTo(2) \cup {<<>>}}

MCEmptyParts ==
    {Multi(<<>>, <<Part(1, d), Part(1, <<"-">>)>>, Closing, FALSE) :
       d \in {<<>>, <<"B">>}}

=============================================================================
