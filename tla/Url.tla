-------------------------------- MODULE Url --------------------------------
(***************************************************************************)
(* url.c: the parts of a request's URL.  A string is the sequence of its   *)
(* bytes without the NUL at its end.                                       *)
(***************************************************************************)
EXTENDS Integers, SequencesExt

Percent == 37
Amp == 38
Plus == 43
Slash == 47
Colon == 58
Equal == 61
Question == 63
Space == 32

v1 == <<118, 49>>
none == <<110, 111, 110, 101>>

supported_apiversions == {v1}

Null == [apiversion |-> <<>>]   \* no components: parse_url returns NULL

-----------------------------------------------------------------------------
(* strsep(&s, c): what is in front of the first c of s, and what is behind *)
(* it, the empty string when there is none.                                *)
Before(s, c) == SubSeq(s, 1, IF Contains(s, c) THEN SelectInSeq(s, LAMBDA b : b = c) - 1
                                               ELSE Len(s))
Behind(s, c) == SubSeq(s, Len(Before(s, c)) + 2, Len(s))

(* The pieces that strsep cuts a query string into. *)
Pieces[q \in Seq(Nat)] ==
    IF Contains(q, Amp) THEN <<Before(q, Amp)>> \o Pieces[Behind(q, Amp)]
                        ELSE <<q>>

-----------------------------------------------------------------------------
isxdigit(b) == b \in 48..57 \cup 65..70 \cup 97..102
HexValue(b) == IF b <= 57 THEN b - 48 ELSE IF b <= 70 THEN b - 55 ELSE b - 87

(* url_decode with max = 0.  A '%' without two hex digits is copied; %00   *)
(* ends the string where it is read.                                       *)
IsEscape(s) ==
    Len(s) > 2 /\ s[1] = Percent /\ isxdigit(s[2]) /\ isxdigit(s[3])

DecodedByte(s) ==
    IF IsEscape(s) THEN 16 * HexValue(s[2]) + HexValue(s[3])
    ELSE IF s[1] = Plus THEN Space ELSE s[1]

Decoded[s \in Seq(Nat)] ==
    IF s = <<>> THEN <<>>
    ELSE <<DecodedByte(s)>>
         \o Decoded[SubSeq(s, IF IsEscape(s) THEN 4 ELSE 2, Len(s))]

url_decode(s) == Before(Decoded[s], 0)

(* The parameters of a query string; a name is not decoded. *)
Parameter(p) == [name |-> Before(p, Equal), value |-> url_decode(Behind(p, Equal))]

QueryDecodedFirst(q) ==
    IF q = <<>> THEN <<>>
    ELSE LET ps == Pieces[url_decode(q)]
         IN [i \in DOMAIN ps |->
               [name |-> Before(ps[i], Equal), value |-> Behind(ps[i], Equal)]]
parse_querystring(q) ==
    IF q = <<>> THEN <<>>
    ELSE LET ps == Pieces[q] IN [i \in DOMAIN ps |-> Parameter(ps[i])]

-----------------------------------------------------------------------------
(* The command is split off in front of the query string. *)
SplitCommandFirst(s) ==
    LET noCommand == Before(s, Colon)
        command   == Behind(s, Colon)
        noQuery   == Before(noCommand, Question)
    IN  [apiversion  |-> v1,
         querystring |-> Behind(noCommand, Question),
         command     |-> IF command = <<>> THEN none ELSE command,
         path        |-> Behind(noQuery, Slash),
         route       |-> Before(noQuery, Slash),
         parameters  |-> <<>>]

(* What is behind the version: the query string is split off first, then   *)
(* the command, then the path.  url_decode of url_copy stops at the NUL    *)
(* behind the version, so that nothing of this is decoded.                 *)
Split(s) ==
    LET noQuery   == Before(s, Question)
        noCommand == Before(noQuery, Colon)
        command   == Behind(noQuery, Colon)
    IN  [apiversion  |-> v1,
         querystring |-> Behind(s, Question),
         command     |-> IF command = <<>> THEN none ELSE command,
         path        |-> Behind(noCommand, Slash),
         route       |-> Before(noCommand, Slash),
         parameters  |-> <<>>]

parse_url_static(url) ==
    LET s == IF url # <<>> /\ url[1] = Slash THEN Tail(url) ELSE url
    IN  IF Contains(s, Slash) /\ Before(s, Slash) \in supported_apiversions
          THEN Split(Behind(s, Slash)) ELSE Null

parse_url(url) ==
    LET c == parse_url_static(url)
    IN  IF c = Null THEN Null
        ELSE [c EXCEPT !.parameters = parse_querystring(c.querystring)]

=============================================================================
