------------------------- MODULE HttpResponseProofs -------------------------
(***************************************************************************)
(* Proofs about HttpResponse for a response buffer of any size: no byte of *)
(* a response is lost or sent twice, and a response is not ended early.    *)
(*                                                                         *)
(* Both are inductive together with the types, and with one more fact:     *)
(* nothing was sent while the request is read, so the callback finds the   *)
(* windex that _HTTPServerAccept has reset.  What is owed to the peer is   *)
(* the unsent part of the buffer, so a send that leaves nothing of it and  *)
(* has no BodyCB to ask leaves nothing owed.                               *)
(*                                                                         *)
(* Dispatch implements HttpResponse, and what Api is given of a URL is     *)
(* what it was written from: each strsep finds the delimiter the client    *)
(* wrote, because the piece in front of it holds none.  The parameters     *)
(* come back because the text an encoder writes is read back byte by byte; *)
(* encoder, decoder and the loop over the pieces are recursive functions   *)
(* on sequences, and each is shown to exist, and to compute what is said   *)
(* of it, by induction on the length of its argument (Recursion,           *)
(* ShorterFirst), which rests on the least of a set of numbers.            *)
(***************************************************************************)
EXTENDS Dispatch, SequenceTheorems, WellFoundedInduction, TLAPS

NothingSentYet == workState = "READING" => windex = 0

IInv == TypeOK /\ NoByteLostOrRepeated /\ EndedIsComplete /\ NothingSentYet

LEMMA InitIInv == Init => IInv
BY BufAssumption DEF Init, IInv, TypeOK, NoByteLostOrRepeated, EndedIsComplete,
    NothingSentYet

(* The buffer WriteSock sends from: what is in it and not sent is owed.    *)
LEMMA FilledOwed ==
    ASSUME IInv, workState = "WRITING", NEW b \in Filled
    PROVE  /\ b.i \in 0..BufSize /\ b.w \in 0..b.i /\ b.made \in Nat
           /\ b.cb \in {"null", "own", "old"}
           /\ b.w + owed + b.made = b.i
           /\ b.i = b.w => b.cb = "null"
<1> USE BufAssumption
<1>1. CASE windex >= index /\ bodyCB # "null"
  <2>1. PICK n \in 0..BufSize :
          b = [i |-> n, w |-> 0, cb |-> IF n = 0 THEN "null" ELSE bodyCB,
               made |-> n]
    BY <1>1 DEF Filled
  <2>2. owed = 0
    BY <1>1 DEF IInv, TypeOK, NoByteLostOrRepeated
  <2> QED BY <2>1, <2>2 DEF IInv, TypeOK
<1>2. CASE ~(windex >= index /\ bodyCB # "null")
  <2>1. b = [i |-> index, w |-> windex, cb |-> bodyCB, made |-> 0]
    BY <1>2 DEF Filled
  <2> QED BY <1>2, <2>1 DEF IInv, TypeOK, NoByteLostOrRepeated
<1> QED BY <1>1, <1>2

LEMMA WriteSockKeeps ==
    ASSUME IInv, WriteSock
    PROVE  IInv'
<1> USE BufAssumption
<1>1. PICK b \in Filled :
        /\ index' = b.i /\ bodyCB' = b.cb
        /\ \/ \E n \in 0 .. b.i - b.w :
                /\ n = 0 => b.i = b.w
                /\ Sent(b, n) /\ owed' = owed + b.made - n
           \/ (NotSent(b) \/ SendFailed(b)) /\ owed' = owed + b.made
  BY DEF WriteSock
<1>2. /\ b.i \in 0..BufSize /\ b.w \in 0..b.i /\ b.made \in Nat
      /\ b.cb \in {"null", "own", "old"}
      /\ b.w + owed + b.made = b.i
      /\ b.i = b.w => b.cb = "null"
  BY FilledOwed DEF WriteSock
<1>3. /\ protocolState' = protocolState /\ owed \in Int
      /\ protocolState \in {"eReq_Header", "eReq_Body"}
  BY DEF WriteSock, IInv, TypeOK
<1>4. CASE \E n \in 0 .. b.i - b.w :
             /\ n = 0 => b.i = b.w
             /\ Sent(b, n) /\ owed' = owed + b.made - n
  <2>1. PICK n \in 0 .. b.i - b.w :
          /\ n = 0 => b.i = b.w
          /\ Sent(b, n) /\ owed' = owed + b.made - n
    BY <1>4
  <2>2. windex' + owed' = index' /\ windex' \in 0..index'
    BY <1>1, <1>2, <1>3, <2>1 DEF Sent
  <2>3. workState' = "WRITEEND" => owed' = 0 /\ bodyCB' = "null"
    \* Nothing is sent only when nothing is left and BodyCB had no more.
    BY <1>1, <1>2, <2>1, <2>2 DEF Sent
  <2> QED BY <1>1, <1>2, <1>3, <2>1, <2>2, <2>3
          DEF Sent, IInv, TypeOK, NoByteLostOrRepeated, EndedIsComplete,
              NothingSentYet
<1>5. CASE (NotSent(b) \/ SendFailed(b)) /\ owed' = owed + b.made
  <2>1. windex' = b.w /\ workState' \in {"WRITING", "CLOSE"}
    BY <1>5 DEF NotSent, SendFailed
  <2>2. windex' + owed' = index' /\ windex' \in 0..index'
    BY <1>1, <1>2, <1>3, <1>5, <2>1
  <2>3. /\ index' \in 0..BufSize /\ windex' \in 0..BufSize /\ owed' \in Int
        /\ bodyCB' \in {"null", "own", "old"}
    BY <1>1, <1>2, <1>3, <1>5, <2>1
  <2>4. windex' <= index'
    BY <2>2, <2>3
  <2> QED BY <1>3, <2>1, <2>2, <2>3, <2>4
          DEF IInv, TypeOK, NoByteLostOrRepeated, EndedIsComplete,
              NothingSentYet
<1> QED BY <1>1, <1>4, <1>5

(* The other steps make a response, or forget one. *)
LEMMA NextIInv == IInv /\ [Next]_vars => IInv'
<1> USE BufAssumption
<1> SUFFICES ASSUME IInv, [Next]_vars
             PROVE  IInv'
  OBVIOUS
<1>1. CASE Accept
  BY <1>1 DEF Accept, FreshWindex, IInv, TypeOK, NoByteLostOrRepeated,
              EndedIsComplete, NothingSentYet
<1>2. CASE Callback
  <2>1. windex = 0
    BY <1>2 DEF Callback, IInv, NothingSentYet
  <2>2. /\ index' \in 1..BufSize /\ windex' = 0 /\ owed' = index'
        /\ workState' \in {"READING", "WRITING"}
    BY <1>2, <2>1 DEF Callback
  <2>3. /\ bodyCB' \in {"null", "own", "old"}
        /\ protocolState' \in {"eReq_Header", "eReq_Body"}
    BY <1>2 DEF Callback, IInv, TypeOK
  <2>4. PICK n \in 1..BufSize : index' = n /\ owed' = n
    BY <2>2
  <2>5. /\ index' \in 0..BufSize /\ windex' \in 0..BufSize /\ owed' \in Int
        /\ windex' + owed' = index' /\ windex' <= index'
    BY <2>2, <2>4
  <2> QED BY <2>2, <2>3, <2>5 DEF IInv, TypeOK, NoByteLostOrRepeated,
                            EndedIsComplete, NothingSentYet
<1>3. CASE ApiBody
  BY <1>3 DEF ApiBody, IInv, TypeOK, NoByteLostOrRepeated, EndedIsComplete,
      NothingSentYet
<1>4. CASE BodyComplete
  BY <1>4 DEF BodyComplete, IInv, TypeOK, NoByteLostOrRepeated,
              EndedIsComplete, NothingSentYet
<1>5. CASE WriteSock
  BY <1>5, WriteSockKeeps
<1>6. CASE Close
  BY <1>6 DEF Close, IInv, TypeOK, NoByteLostOrRepeated, EndedIsComplete,
      NothingSentYet
<1>7. CASE UNCHANGED vars
  BY <1>7 DEF vars, IInv, TypeOK, NoByteLostOrRepeated, EndedIsComplete,
      NothingSentYet
<1> QED BY <1>1, <1>2, <1>3, <1>4, <1>5, <1>6, <1>7 DEF Next

(* The inductive invariant is one. *)
THEOREM Invariance == Spec => []IInv
BY InitIInv, NextIInv, PTL DEF Spec

(* Every variable keeps its type, and windex never exceeds _index while    *)
(* WriteSock subtracts them.                                               *)
THEOREM TypeCorrect == Spec => []TypeOK
BY Invariance, PTL DEF IInv

(* Whatever send() takes, and however often BodyCB refills the buffer, the *)
(* peer is owed exactly the bytes that WriteSock has yet to send.          *)
THEOREM NoByteLostCorrect == Spec => []NoByteLostOrRepeated
BY Invariance, PTL DEF IInv

(* The server ends a response only after its last byte.                    *)
THEOREM EndedIsCompleteCorrect == Spec => []EndedIsComplete
BY Invariance, PTL DEF IInv

-----------------------------------------------------------------------------
(* Facts about strsep.                                                     *)

LEMMA BeforeFirst ==
    ASSUME NEW s \in Seq(Nat), NEW c, NEW k \in 1 .. Len(s), s[k] = c,
           \A i \in 1 .. k - 1 : s[i] # c
    PROVE  /\ Contains(s, c) /\ Before(s, c) = SubSeq(s, 1, k - 1)
           /\ Behind(s, c) = SubSeq(s, k + 1, Len(s))
<1> DEFINE I == {i \in 1 .. Len(s) : s[i] = c}
<1>1. Contains(s, c) /\ k \in I
  BY DEF Contains
<1>2. Min(I) = k
  <2>1. \A y \in I : k <= y
    OBVIOUS
  <2>2. \A x \in I : (\A y \in I : x <= y) => x = k
    BY <1>1, <2>1
  <2> HIDE DEF I
  <2>3. QED
    BY <1>1, <2>1, <2>2 DEF Min
<1>3. SelectInSeq(s, LAMBDA b : b = c) = k
  BY <1>1, <1>2 DEF SelectInSeq
<1>4. Before(s, c) = SubSeq(s, 1, k - 1)
  BY <1>1, <1>3 DEF Before
<1>5. Len(SubSeq(s, 1, k - 1)) + 2 = k + 1
  OBVIOUS
<1>6. QED
  BY <1>1, <1>4, <1>5 DEF Behind

LEMMA BeforeAll ==
    ASSUME NEW s \in Seq(Nat), NEW c, ~Contains(s, c)
    PROVE  Before(s, c) = s /\ Behind(s, c) = <<>>
<1>1. Before(s, c) = SubSeq(s, 1, Len(s))
  BY DEF Before
<1>2. Before(s, c) = s
  BY <1>1, SubSeqFull
<1>3. Len(s) + 2 > Len(s) /\ Len(s) + 2 \in Int /\ Len(s) \in Int
  OBVIOUS
<1>4. Behind(s, c) = <<>>
  BY <1>2, <1>3, SubSeqEmpty DEF Behind
<1>5. QED
  BY <1>2, <1>4

(* The first n elements of a sequence.                                     *)
LEMMA FirstElements ==
    ASSUME NEW s \in Seq(Nat), NEW n \in 0 .. Len(s)
    PROVE  /\ SubSeq(s, 1, n) \in Seq(Nat) /\ Len(SubSeq(s, 1, n)) = n
           /\ \A i \in 1 .. n : SubSeq(s, 1, n)[i] = s[i]
  OBVIOUS

(* What is in front of a delimiter, and behind it, comes back.             *)
LEMMA CutAtDelimiter ==
    ASSUME NEW x \in Seq(Nat), NEW c \in Nat, NEW y \in Seq(Nat), ~Contains(x, c)
    PROVE  /\ Contains(x \o (<<c>> \o y), c)
           /\ Before(x \o (<<c>> \o y), c) = x
           /\ Behind(x \o (<<c>> \o y), c) = y
<1> DEFINE z == <<c>> \o y
           s == x \o z
           k == Len(x) + 1
<1>1. /\ Len(x) \in Nat /\ Len(y) \in Nat
      /\ z \in Seq(Nat) /\ Len(z) = 1 + Len(y) /\ z[1] = c
      /\ \A i \in 1 .. Len(y) : z[i + 1] = y[i]
  <2>1. <<c>> \in Seq(Nat) /\ Len(<<c>>) = 1 /\ <<c>>[1] = c
    OBVIOUS
  <2>2. /\ z \in Seq(Nat) /\ Len(z) = 1 + Len(y)
        /\ \A i \in 1 .. 1 + Len(y) : z[i] = IF i <= 1 THEN <<c>>[i] ELSE y[i - 1]
    BY <2>1, ConcatProperties
  <2> HIDE DEF z
  <2>3. z[1] = c
    BY <2>1, <2>2
  <2>4. \A i \in 1 .. Len(y) : z[i + 1] = y[i]
    <3> TAKE i \in 1 .. Len(y)
    <3>1. i + 1 \in 1 .. 1 + Len(y) /\ ~(i + 1 <= 1) /\ (i + 1) - 1 = i
      OBVIOUS
    <3>2. QED
      BY <2>2, <3>1
  <2>5. QED
    BY <2>2, <2>3, <2>4
<1> HIDE DEF z
<1>2. /\ s \in Seq(Nat) /\ Len(s) = Len(x) + Len(z)
      /\ \A i \in 1 .. Len(x) + Len(z) :
           s[i] = IF i <= Len(x) THEN x[i] ELSE z[i - Len(x)]
  <2>1. z \in Seq(Nat)
    BY <1>1
  <2>2. QED
    BY <2>1, ConcatProperties
<1> HIDE DEF s
<1>3. k \in 1 .. Len(s) /\ s[k] = c
  <2>1. k \in 1 .. Len(x) + Len(z) /\ ~(k <= Len(x)) /\ k - Len(x) = 1
    BY <1>1
  <2>2. QED
    BY <1>1, <1>2, <2>1
<1>4. \A i \in 1 .. Len(x) : s[i] = x[i] /\ x[i] # c
  <2> TAKE i \in 1 .. Len(x)
  <2>1. i \in 1 .. Len(x) + Len(z) /\ i <= Len(x)
    BY <1>1
  <2>2. s[i] = x[i]
    BY <1>2, <2>1
  <2>3. x[i] # c
    BY DEF Contains
  <2>4. QED
    BY <2>2, <2>3
<1>5. k - 1 = Len(x)
  BY <1>1
<1>6. /\ Contains(s, c) /\ Before(s, c) = SubSeq(s, 1, k - 1)
      /\ Behind(s, c) = SubSeq(s, k + 1, Len(s))
  <2>1. s \in Seq(Nat) /\ \A i \in 1 .. k - 1 : s[i] # c
    BY <1>2, <1>4, <1>5
  <2> HIDE DEF k
  <2>2. QED
    BY <1>3, <2>1, BeforeFirst
<1>7. SubSeq(s, 1, k - 1) = x
  <2>1. /\ SubSeq(s, 1, Len(x)) \in Seq(Nat) /\ Len(SubSeq(s, 1, Len(x))) = Len(x)
        /\ \A i \in 1 .. Len(x) : SubSeq(s, 1, Len(x))[i] = s[i]
    <3>1. s \in Seq(Nat) /\ Len(x) \in 0 .. Len(s)
      BY <1>1, <1>2
    <3> HIDE DEF k
    <3>2. QED
      BY <3>1, FirstElements
  <2>2. QED
    BY <1>4, <1>5, <2>1, SeqEqual
<1>8. SubSeq(s, k + 1, Len(s)) = y
  <2> DEFINE e == SubSeq(s, k + 1, Len(s))
  <2>1. /\ e \in Seq(Nat) /\ Len(e) = Len(y)
        /\ \A i \in 1 .. Len(y) : e[i] = s[k + i]
    <3>1. Len(s) = k + Len(y) /\ k \in Nat /\ Len(y) \in Nat
      BY <1>1, <1>2
    <3> HIDE DEF k
    <3>2. k + 1 \in 1 .. Len(s) + 1 /\ Len(s) \in Nat
      BY <3>1
    <3>3. /\ k + 1 \in Int /\ Len(s) \in Int
          /\ \A i \in k + 1 .. Len(s) : s[i] \in Nat
      BY <1>2, <3>1, <3>2
    <3>4. /\ e \in Seq(Nat)
          /\ Len(e) = IF k + 1 <= Len(s) THEN Len(s) - (k + 1) + 1 ELSE 0
          /\ \A i \in 1 .. Len(s) - (k + 1) + 1 : e[i] = s[(k + 1) + i - 1]
      BY <3>3, SubSeqProperties
    <3>5. /\ Len(s) - (k + 1) + 1 = Len(y)
          /\ \A i \in 1 .. Len(y) : (k + 1) + i - 1 = k + i
      BY <3>1
    <3> HIDE DEF e
    <3>6. Len(e) = Len(y)
      BY <3>1, <3>4
    <3>7. QED
      BY <3>4, <3>5, <3>6
  <2>2. \A i \in 1 .. Len(y) : s[k + i] = y[i]
    <3> TAKE i \in 1 .. Len(y)
    <3>1. /\ k + i \in 1 .. Len(x) + Len(z) /\ ~(k + i <= Len(x))
          /\ (k + i) - Len(x) = i + 1
      BY <1>1
    <3>2. QED
      BY <1>1, <1>2, <3>1
  <2> HIDE DEF e
  <2>3. e = y
    BY <2>1, <2>2, SeqEqual
  <2>4. QED
    BY <2>3 DEF e
<1>9. QED
  BY <1>6, <1>7, <1>8 DEF s, z

LEMMA JoinContains ==
    ASSUME NEW x \in Seq(Nat), NEW y \in Seq(Nat), NEW c,
           ~Contains(x, c), ~Contains(y, c)
    PROVE  x \o y \in Seq(Nat) /\ ~Contains(x \o y, c)
<1>1. /\ x \o y \in Seq(Nat) /\ Len(x \o y) = Len(x) + Len(y)
      /\ \A i \in 1 .. Len(x) + Len(y) :
           (x \o y)[i] = IF i <= Len(x) THEN x[i] ELSE y[i - Len(x)]
  BY ConcatProperties
<1>2. ASSUME NEW i \in 1 .. Len(x) + Len(y) PROVE (x \o y)[i] # c
  <2>1. CASE i <= Len(x)
    <3>1. i \in 1 .. Len(x)
      BY <2>1
    <3>2. QED
      BY <1>1, <2>1, <3>1 DEF Contains
  <2>2. CASE ~(i <= Len(x))
    <3>1. i - Len(x) \in 1 .. Len(y)
      BY <2>2
    <3>2. QED
      BY <1>1, <2>2, <3>1 DEF Contains
  <2>3. QED
    BY <2>1, <2>2
<1>3. QED
  BY <1>1, <1>2 DEF Contains

LEMMA OptionalContains ==
    ASSUME NEW d \in Nat, NEW y \in Seq(Nat), NEW c, c # d, ~Contains(y, c)
    PROVE  Optional(d, y) \in Seq(Nat) /\ ~Contains(Optional(d, y), c)
<1>1. CASE y = <<>>
  BY <1>1 DEF Optional
<1>2. CASE y # <<>>
  <2>1. <<d>> \in Seq(Nat) /\ ~Contains(<<d>>, c)
    BY DEF Contains
  <2>2. QED
    BY <1>2, <2>1, JoinContains DEF Optional
<1>3. QED
  BY <1>1, <1>2

LEMMA CutAtOptional ==
    ASSUME NEW x \in Seq(Nat), NEW c \in Nat, NEW y \in Seq(Nat), ~Contains(x, c)
    PROVE  /\ x \o Optional(c, y) \in Seq(Nat)
           /\ Before(x \o Optional(c, y), c) = x
           /\ Behind(x \o Optional(c, y), c) = y
<1>1. CASE y = <<>>
  <2>1. x \o <<>> = x
    BY ConcatEmptySeq
  <2>2. QED
    BY <1>1, <2>1, BeforeAll DEF Optional
<1>2. CASE y # <<>>
  BY <1>2, CutAtDelimiter DEF Optional
<1>3. QED
  BY <1>1, <1>2

-----------------------------------------------------------------------------
(* Functions that are recursive on sequences.                              *)

(* A set of numbers has a least one.                                       *)
LEMMA LeastNatural ==
    ASSUME NEW T, T \subseteq Nat, T # {}
    PROVE  \E n \in T : \A m \in T : n <= m
<1>1. PICK n \in T : \A m \in T : ~ (<<m, n>> \in OpToRel(<, Nat))
  BY NatLessThanWellFounded, WFMin
<1>2. \A m \in T : ~ (m < n)
  BY <1>1, Zenon DEF OpToRel
<1>3. QED
  BY <1>2

(* What holds of a sequence if it holds of all shorter ones holds of all.  *)
LEMMA ShorterFirst ==
    ASSUME NEW E, NEW T,
           \A s \in Seq(E) : (\A t \in Seq(E) : Len(t) < Len(s) => t \in T) => s \in T
    PROVE  \A s \in Seq(E) : s \in T
<1> DEFINE B == {n \in Nat : \E s \in Seq(E) : Len(s) = n /\ s \notin T}
<1> SUFFICES ASSUME NEW r \in Seq(E), r \notin T PROVE FALSE
  OBVIOUS
<1>1. Len(r) \in B
  BY LenProperties
<1>2. PICK n \in B : \A m \in B : n <= m
  <2>1. B \subseteq Nat /\ B # {}
    BY <1>1
  <2> HIDE DEF B
  <2>2. QED
    BY <2>1, LeastNatural
<1>3. PICK s \in Seq(E) : Len(s) = n /\ s \notin T
  BY <1>2
<1>4. PICK t \in Seq(E) : Len(t) < Len(s) /\ t \notin T
  BY <1>3
<1>5. Len(t) \in B /\ Len(t) < n
  BY <1>3, <1>4, LenProperties
<1>6. QED
  BY <1>2, <1>5, LenProperties

(* A function on sequences may be defined by its value for a shorter one.  *)
Descends(E, V, base, rest, step) ==
    /\ base \in V
    /\ rest \in [Seq(E) -> Seq(E)] /\ step \in [Seq(E) -> [V -> V]]
    /\ \A s \in Seq(E) : s # <<>> => Len(rest[s]) < Len(s)

IsDefined(f, E, V, base, rest, step) ==
    /\ f \in [Seq(E) -> V]
    /\ \A s \in Seq(E) : /\ s = <<>> => f[s] = base
                         /\ s # <<>> => f[s] = step[s][f[rest[s]]]

LEMMA Recursion ==
    ASSUME NEW E, NEW V, NEW base, NEW rest, NEW step,
           Descends(E, V, base, rest, step)
    PROVE  \E f : IsDefined(f, E, V, base, rest, step)
<1> DEFINE Short(n) == {s \in Seq(E) : Len(s) < n}
           Value(g, s) == IF s = <<>> THEN base ELSE step[s][g[rest[s]]]
           IsFor(g, n) == /\ g \in [Short(n) -> V]
                          /\ \A s \in Short(n) : g[s] = Value(g, s)
<1> USE DEF Descends
<1>0. \A s \in Seq(E) : Len(s) \in Nat
  BY LenProperties
<1>1. \A n \in Nat : \E g : IsFor(g, n)
  <2> DEFINE B == {n \in Nat : ~ \E g : IsFor(g, n)}
  <2> SUFFICES ASSUME B # {} PROVE FALSE
    OBVIOUS
  <2>1. PICK n \in B : \A m \in B : n <= m
    <3>1. B \subseteq Nat
      OBVIOUS
    <3> HIDE DEF B
    <3>2. QED
      BY <3>1, LeastNatural
  <2>2. CASE n = 0
    <3>1. Short(n) = {}
      BY <1>0, <2>2
    <3>2. IsFor([s \in Short(n) |-> base], n)
      BY <3>1
    <3>3. QED
      BY <3>2
  <2>3. CASE n # 0
    <3>1. n - 1 \in Nat /\ n - 1 \notin B
      <4>1. n \in Nat
        OBVIOUS
      <4> HIDE DEF B
      <4>2. QED
        BY <2>1, <2>3, <4>1
    <3>2. PICK g : IsFor(g, n - 1)
      BY <3>1
    <3> DEFINE h == [s \in Short(n) |-> Value(g, s)]
    <3>3. ASSUME NEW s \in Short(n), s # <<>>
          PROVE  rest[s] \in Short(n - 1) /\ rest[s] \in Short(n)
      <4>1. rest[s] \in Seq(E) /\ Len(rest[s]) < Len(s)
        BY <3>3
      <4>2. Len(rest[s]) \in Nat /\ Len(s) \in Nat /\ Len(s) < n
        BY <1>0, <3>3, <4>1
      <4>3. QED
        BY <3>1, <4>1, <4>2
    <3>4. ASSUME NEW s \in Short(n) PROVE h[s] \in V
      <4>1. CASE s = <<>>
        BY <4>1
      <4>2. CASE s # <<>>
        <5>1. g[rest[s]] \in V
          BY <3>2, <3>3, <4>2
        <5>2. QED
          BY <4>2, <5>1
      <4>3. QED
        BY <4>1, <4>2
    <3>5. ASSUME NEW s \in Short(n - 1) PROVE s \in Short(n) /\ h[s] = g[s]
      <4>1. s \in Short(n)
        BY <1>0, <3>1
      <4>2. QED
        BY <3>2, <4>1
    <3>6. ASSUME NEW s \in Short(n) PROVE h[s] = Value(h, s)
      BY <3>3, <3>5
    <3>7. h \in [Short(n) -> V]
      BY <3>4
    <3>8. IsFor(h, n)
      BY <3>6, <3>7
    <3>9. QED
      BY <3>8
  <2>4. QED
    BY <2>2, <2>3
<1>2. ASSUME NEW m \in Nat, NEW n \in Nat, NEW g, NEW h, IsFor(g, m), IsFor(h, n)
      PROVE  \A s \in Seq(E) : s \in {t \in Seq(E) :
               t \in Short(m) /\ t \in Short(n) => g[t] = h[t]}
  <2> DEFINE T == {t \in Seq(E) : t \in Short(m) /\ t \in Short(n) => g[t] = h[t]}
  <2>1. ASSUME NEW s \in Seq(E), \A t \in Seq(E) : Len(t) < Len(s) => t \in T
        PROVE  s \in T
    <3> SUFFICES ASSUME s \in Short(m), s \in Short(n) PROVE g[s] = h[s]
      OBVIOUS
    <3>1. CASE s = <<>>
      BY <1>2, <3>1
    <3>2. CASE s # <<>>
      <4>1. rest[s] \in Seq(E) /\ Len(rest[s]) < Len(s)
        BY <3>2
      <4>2. rest[s] \in Short(m) /\ rest[s] \in Short(n)
        BY <1>0, <4>1
      <4>3. g[rest[s]] = h[rest[s]]
        BY <2>1, <4>1, <4>2
      <4>4. QED
        BY <1>2, <3>2, <4>3
    <3>3. QED
      BY <3>1, <3>2
  <2> HIDE DEF T
  <2>2. \A s \in Seq(E) : s \in T
    BY <2>1, ShorterFirst
  <2>3. QED
    BY <2>2 DEF T
<1> DEFINE For(s) == CHOOSE g : IsFor(g, Len(s) + 1)
           f == [s \in Seq(E) |-> For(s)[s]]
<1>3. ASSUME NEW s \in Seq(E)
      PROVE  IsFor(For(s), Len(s) + 1) /\ s \in Short(Len(s) + 1)
  <2>1. Len(s) + 1 \in Nat /\ Len(s) < Len(s) + 1
    BY <1>0
  <2>2. QED
    BY <1>1, <2>1
<1>4. ASSUME NEW s \in Seq(E) PROVE f[s] \in V
  BY <1>3
<1>5. ASSUME NEW s \in Seq(E) PROVE f[s] = Value(f, s)
  <2>1. f[s] = For(s)[s]
    OBVIOUS
  <2>2. For(s)[s] = Value(For(s), s)
    <3> HIDE DEF For, Short
    <3>1. QED
      BY <1>3
  <2>3. CASE s = <<>>
    BY <2>1, <2>2, <2>3
  <2>4. CASE s # <<>>
    <3> DEFINE r == rest[s]
    <3>1. r \in Seq(E) /\ Len(r) < Len(s)
      BY <2>4
    <3>2. r \in Short(Len(s) + 1) /\ r \in Short(Len(r) + 1)
      BY <1>0, <1>3, <3>1
    <3>3. For(s)[r] = For(r)[r]
      <4>1. IsFor(For(s), Len(s) + 1) /\ IsFor(For(r), Len(r) + 1)
        BY <1>3, <3>1
      <4>2. Len(s) + 1 \in Nat /\ Len(r) + 1 \in Nat
        BY <1>0, <3>1
      <4> HIDE DEF IsFor, For, Short, r
      <4>3. QED
        BY <1>2, <3>1, <3>2, <4>1, <4>2
    <3>4. f[r] = For(r)[r]
      BY <3>1
    <3> HIDE DEF f, For
    <3>5. QED
      BY <2>1, <2>2, <2>4, <3>3, <3>4
  <2>5. QED
    BY <2>3, <2>4
<1>6. f \in [Seq(E) -> V]
  BY <1>4
<1> HIDE DEF f
<1>7. ASSUME NEW s \in Seq(E)
      PROVE  /\ s = <<>> => f[s] = base
             /\ s # <<>> => f[s] = step[s][f[rest[s]]]
  BY <1>5
<1>8. QED
  BY <1>6, <1>7 DEF IsDefined

-----------------------------------------------------------------------------
(* What a client encodes is decoded to what it was.                        *)

(* url_decode's loop: one byte, then the rest of the text.                 *)
LEMMA DecodedIs ==
    /\ Decoded \in [Seq(Nat) -> Seq(Nat)]
    /\ \A s \in Seq(Nat) : Decoded[s] =
         IF s = <<>> THEN <<>> ELSE <<DecodedByte(s)>>
           \o Decoded[SubSeq(s, IF IsEscape(s) THEN 4 ELSE 2, Len(s))]
<1> DEFINE V == Seq(Nat)
           behind(s) == SubSeq(s, IF IsEscape(s) THEN 4 ELSE 2, Len(s))
           rest == [s \in Seq(Nat) |-> behind(s)]
           step == [s \in Seq(Nat) |-> [v \in V |->
                      IF s = <<>> THEN <<>> ELSE <<DecodedByte(s)>> \o v]]
<1>1. ASSUME NEW s \in Seq(Nat)
      PROVE  behind(s) \in Seq(Nat) /\ (s # <<>> => Len(behind(s)) < Len(s))
  BY LenProperties DEF IsEscape
<1>2. ASSUME NEW s \in Seq(Nat), s # <<>>
      PROVE  DecodedByte(s) \in Nat
  <2>1. CASE IsEscape(s)
    <3>1. s[2] \in Nat /\ s[3] \in Nat /\ isxdigit(s[2]) /\ isxdigit(s[3])
      BY <2>1 DEF IsEscape
    <3>2. ASSUME NEW b \in Nat, isxdigit(b) PROVE HexValue(b) \in Nat
      BY <3>2 DEF isxdigit, HexValue
    <3>3. HexValue(s[2]) \in Nat /\ HexValue(s[3]) \in Nat
      BY <3>1, <3>2
    <3>4. QED
      BY <2>1, <3>3 DEF DecodedByte
  <2>2. CASE ~IsEscape(s)
    BY <1>2, <2>2 DEF DecodedByte, Space
  <2>3. QED
    BY <2>1, <2>2
<1> HIDE DEF behind
<1>3. /\ rest \in [Seq(Nat) -> Seq(Nat)] /\ step \in [Seq(Nat) -> [V -> V]]
      /\ <<>> \in V
      /\ \A s \in Seq(Nat) : s # <<>> => Len(rest[s]) < Len(s)
  BY <1>1, <1>2
<1>4. PICK f : IsDefined(f, Nat, V, <<>>, rest, step)
  <2>1. Descends(Nat, V, <<>>, rest, step)
    BY <1>3 DEF Descends
  <2> HIDE DEF rest, step, V
  <2>2. QED
    BY <2>1, Recursion
<1> DEFINE Body(g, s) == IF s = <<>> THEN <<>>
                         ELSE <<DecodedByte(s)>> \o g[behind(s)]
<1>5. f = [s \in Seq(Nat) |-> Body(f, s)]
  <2>1. ASSUME NEW s \in Seq(Nat) PROVE f[s] = Body(f, s)
    BY <1>1, <1>4 DEF IsDefined
  <2>2. QED
    BY <1>4, <2>1, Zenon DEF IsDefined
<1>6. Decoded = CHOOSE g : g = [s \in Seq(Nat) |-> Body(g, s)]
  BY Zenon DEF Decoded, behind
<1>7. Decoded = [s \in Seq(Nat) |-> Body(Decoded, s)]
  <2> HIDE DEF Body
  <2>1. QED
    BY <1>5, <1>6, Zenon
<1>8. ASSUME NEW s \in Seq(Nat) PROVE Decoded[s] = Body(Decoded, s)
  BY <1>7
<1>9. \A s \in Seq(Nat) : s \in {t \in Seq(Nat) : Decoded[t] \in Seq(Nat)}
  <2> DEFINE T == {t \in Seq(Nat) : Decoded[t] \in Seq(Nat)}
  <2>1. ASSUME NEW s \in Seq(Nat), \A t \in Seq(Nat) : Len(t) < Len(s) => t \in T
        PROVE  s \in T
    <3>1. CASE s = <<>>
      BY <1>8, <3>1
    <3>2. CASE s # <<>>
      <4>1. Decoded[behind(s)] \in Seq(Nat)
        BY <1>1, <2>1, <3>2
      <4>2. <<DecodedByte(s)>> \in Seq(Nat)
        BY <1>2, <3>2
      <4>3. <<DecodedByte(s)>> \o Decoded[behind(s)] \in Seq(Nat)
        BY <4>1, <4>2, ConcatProperties
      <4>4. QED
        BY <1>8, <3>2, <4>3
    <3>3. QED
      BY <3>1, <3>2
  <2> HIDE DEF T
  <2>2. \A s \in Seq(Nat) : s \in T
    BY <2>1, ShorterFirst
  <2>3. QED
    BY <2>2 DEF T
<1>10. Decoded \in [Seq(Nat) -> Seq(Nat)]
  BY <1>7, <1>9
<1>11. QED
  BY <1>8, <1>10 DEF behind

(* An escape is read back: its digits, the text behind it.                 *)
LEMMA TwoDigits ==
    ASSUME NEW n \in Nat, n <= 255
    PROVE  n \div 16 \in 0..15 /\ n % 16 \in 0..15 /\ 16 * (n \div 16) + (n % 16) = n
<1>1. 16 * (n \div 16) + (n % 16) = n
  OBVIOUS
<1>2. n \div 16 \in 0..15
  OBVIOUS
<1>3. n % 16 \in 0..15
  OBVIOUS
<1>4. QED
  BY <1>1, <1>2, <1>3

LEMMA HexDigitIs ==
    ASSUME NEW n \in 0..15
    PROVE  /\ HexDigit(n) \in Nat /\ isxdigit(HexDigit(n)) /\ HexDigit(n) # Amp
           /\ HexValue(HexDigit(n)) = n
BY DEF HexDigit, isxdigit, HexValue, Amp

LEMMA BehindPrefix ==
    ASSUME NEW x \in Seq(Nat), NEW t \in Seq(Nat)
    PROVE  SubSeq(x \o t, Len(x) + 1, Len(x \o t)) = t
<1>1. Len(x) \in Nat /\ Len(t) \in Nat
  BY LenProperties
<1>2. x \o t \in Seq(Nat) /\ Len(x \o t) = Len(x) + Len(t)
  BY ConcatProperties
<1> DEFINE u == SubSeq(x \o t, Len(x) + 1, Len(x \o t))
<1>3. u \in Seq(Nat) /\ Len(u) = Len(t)
  BY <1>1, <1>2
<1>4. ASSUME NEW i \in 1 .. Len(t) PROVE u[i] = t[i]
  BY <1>1, <1>2
<1> HIDE DEF u
<1>5. u = t
  BY <1>3, <1>4, SeqEqual
<1>6. QED
  BY <1>5 DEF u

(* What the encoder writes for a byte holds no delimiter of parameters, and *)
(* the decoder reads that byte from it, whatever comes behind.             *)
LEMMA EscapedIs ==
    ASSUME NEW b \in 1..255
    PROVE  /\ Escaped(b) \in Seq(Nat) /\ ~Contains(Escaped(b), Amp)
           /\ Escaped(b) # <<>>
           /\ \A t \in Seq(Nat) : Decoded[Escaped(b) \o t] = <<b>> \o Decoded[t]
<1> SUFFICES ASSUME NEW t \in Seq(Nat)
             PROVE  /\ Escaped(b) \in Seq(Nat) /\ ~Contains(Escaped(b), Amp)
                    /\ Escaped(b) # <<>>
                    /\ Decoded[Escaped(b) \o t] = <<b>> \o Decoded[t]
  BY EmptySeq
<1> DEFINE s == Escaped(b) \o t
<1>1. CASE Unreserved(b) \/ b = Space
  <2> DEFINE e == IF Unreserved(b) THEN b ELSE Plus
  <2>1. Escaped(b) = <<e>> /\ e \in Nat /\ e # Amp /\ e # Percent
    BY <1>1 DEF Escaped, Unreserved, Amp, Percent, Plus
  <2>2. s[1] = e /\ s \in Seq(Nat) /\ s # <<>> /\ Len(s) = 1 + Len(t)
    BY <2>1
  <2>3. (IF e = Plus THEN Space ELSE e) = b
    BY <1>1 DEF Unreserved, Space, Plus
  <2>4. ~IsEscape(s) /\ DecodedByte(s) = b
    BY <2>1, <2>2, <2>3 DEF IsEscape, DecodedByte
  <2>5. SubSeq(s, 2, Len(s)) = t
    BY <2>1, BehindPrefix
  <2>6. Decoded[s] = <<b>> \o Decoded[t]
    BY <2>2, <2>4, <2>5, DecodedIs
  <2>7. ~Contains(<<e>>, Amp)
    BY <2>1 DEF Contains
  <2>8. QED
    BY <2>1, <2>6, <2>7
<1>2. CASE ~Unreserved(b) /\ b # Space
  <2> DEFINE h == HexDigit(b \div 16)
             l == HexDigit(b % 16)
  <2>1. b \div 16 \in 0..15 /\ b % 16 \in 0..15 /\ 16 * (b \div 16) + (b % 16) = b
    BY TwoDigits
  <2>2. /\ h \in Nat /\ isxdigit(h) /\ h # Amp /\ HexValue(h) = b \div 16
        /\ l \in Nat /\ isxdigit(l) /\ l # Amp /\ HexValue(l) = b % 16
    BY <2>1, HexDigitIs
  <2>3. Escaped(b) = <<Percent, h, l>> /\ Percent \in Nat /\ Percent # Amp
    BY <1>2 DEF Escaped, Percent, Amp
  <2> HIDE DEF h, l
  <2>4. /\ s[1] = Percent /\ s[2] = h /\ s[3] = l
        /\ s \in Seq(Nat) /\ s # <<>> /\ Len(s) = 3 + Len(t) /\ Len(t) \in Nat
    BY <2>2, <2>3
  <2>5. IsEscape(s) /\ DecodedByte(s) = b
    BY <2>1, <2>2, <2>4 DEF IsEscape, DecodedByte
  <2>6. SubSeq(s, 4, Len(s)) = t
    <3>1. <<Percent, h, l>> \in Seq(Nat) /\ Len(<<Percent, h, l>>) = 3
      BY <2>2, <2>3
    <3>2. QED
      BY <2>3, <3>1, BehindPrefix
  <2>7. Decoded[s] = <<b>> \o Decoded[t]
    BY <2>4, <2>5, <2>6, DecodedIs
  <2>8. <<Percent, h, l>> \in Seq(Nat) /\ ~Contains(<<Percent, h, l>>, Amp)
    BY <2>2, <2>3 DEF Contains
  <2>9. QED
    BY <2>3, <2>7, <2>8
<1>3. QED
  BY <1>1, <1>2

LEMMA FirstAndRest ==
    ASSUME NEW E, NEW s \in Seq(E), s # <<>>
    PROVE  /\ s[1] \in E /\ Tail(s) \in Seq(E) /\ Len(Tail(s)) < Len(s)
           /\ s = <<s[1]>> \o Tail(s)
<1>1. Len(s) \in Nat /\ Len(s) # 0
  BY LenProperties, EmptySeq
<1>2. s[1] \in E
  BY <1>1, ElementOfSeq
<1>3. Tail(s) \in Seq(E) /\ Len(Tail(s)) = Len(s) - 1
  BY HeadTailProperties
<1>4. s = <<s[1]>> \o Tail(s)
  OBVIOUS
<1>5. QED
  BY <1>1, <1>2, <1>3, <1>4

LEMMA EncodedIs ==
    \A s \in Seq(1..255) : Encoded[s] =
        IF s = <<>> THEN <<>> ELSE Escaped(s[1]) \o Encoded[Tail(s)]
<1> DEFINE E == 1..255
           V == Seq(Nat)
           rest == [s \in Seq(E) |-> IF s = <<>> THEN <<>> ELSE Tail(s)]
           step == [s \in Seq(E) |-> [v \in V |->
                      IF s = <<>> THEN <<>> ELSE Escaped(s[1]) \o v]]
<1>1. ASSUME NEW s \in Seq(E), s # <<>>
      PROVE  /\ Tail(s) \in Seq(E) /\ Len(Tail(s)) < Len(s)
             /\ Escaped(s[1]) \in Seq(Nat)
  <2>1. s[1] \in E /\ Tail(s) \in Seq(E) /\ Len(Tail(s)) < Len(s)
    <3> HIDE DEF E
    <3>1. QED
      BY <1>1, FirstAndRest
  <2>2. QED
    BY <2>1, EscapedIs
<1>2. rest \in [Seq(E) -> Seq(E)]
  BY <1>1
<1>3. step \in [Seq(E) -> [V -> V]]
  BY <1>1
<1>4. PICK f : IsDefined(f, E, V, <<>>, rest, step)
  <2>1. Descends(E, V, <<>>, rest, step)
    BY <1>1, <1>2, <1>3 DEF Descends
  <2> HIDE DEF rest, step, V
  <2>2. QED
    BY <2>1, Recursion
<1> DEFINE Body(g, s) == IF s = <<>> THEN <<>> ELSE Escaped(s[1]) \o g[Tail(s)]
<1>5. f = [s \in Seq(E) |-> Body(f, s)]
  <2>1. ASSUME NEW s \in Seq(E) PROVE f[s] = Body(f, s)
    BY <1>1, <1>4 DEF IsDefined
  <2>2. QED
    BY <1>4, <2>1, Zenon DEF IsDefined
<1>6. Encoded = CHOOSE g : g = [s \in Seq(E) |-> Body(g, s)]
  BY Zenon DEF Encoded
<1>7. Encoded = [s \in Seq(E) |-> Body(Encoded, s)]
  <2> HIDE DEF Body
  <2>1. QED
    BY <1>5, <1>6, Zenon
<1>8. QED
  BY <1>7

(* An encoded value is decoded to itself.                                  *)
LEMMA EncodedReads ==
    \A s \in Seq(1..255) :
        /\ Encoded[s] \in Seq(Nat) /\ ~Contains(Encoded[s], Amp)
        /\ s # <<>> => Encoded[s] # <<>>
        /\ Decoded[Encoded[s]] = s
<1> DEFINE E == 1..255
           Reads(s) == /\ Encoded[s] \in Seq(Nat) /\ ~Contains(Encoded[s], Amp)
                       /\ s # <<>> => Encoded[s] # <<>>
                       /\ Decoded[Encoded[s]] = s
           T == {s \in Seq(E) : Reads(s)}
<1>1. ASSUME NEW s \in Seq(E), \A t \in Seq(E) : Len(t) < Len(s) => t \in T
      PROVE  s \in T
  <2>1. CASE s = <<>>
    <3>1. Encoded[s] = <<>> /\ Decoded[<<>>] = <<>> /\ <<>> \in Seq(Nat)
      BY <2>1, EncodedIs, DecodedIs, EmptySeq
    <3>2. ~Contains(<<>>, Amp)
      BY DEF Contains
    <3>3. QED
      BY <2>1, <3>1, <3>2
  <2>2. CASE s # <<>>
    <3> DEFINE b == s[1]
               t == Tail(s)
    <3>1. b \in 1..255 /\ t \in Seq(E) /\ Len(t) < Len(s)
      <4> HIDE DEF E
      <4>1. b \in E /\ t \in Seq(E) /\ Len(t) < Len(s)
        BY <2>2, FirstAndRest
      <4>2. QED
        BY <4>1 DEF E
    <3>2. s = <<b>> \o t
      <4> HIDE DEF E
      <4>1. QED
        BY <2>2, FirstAndRest
    <3>3. Reads(t)
      BY <1>1, <3>1
    <3>4. Encoded[s] = Escaped(b) \o Encoded[t]
      BY <2>2, EncodedIs
    <3> HIDE DEF b, t
    <3>5. /\ Escaped(b) \in Seq(Nat) /\ ~Contains(Escaped(b), Amp)
          /\ Escaped(b) # <<>>
          /\ Decoded[Escaped(b) \o Encoded[t]] = <<b>> \o Decoded[Encoded[t]]
      BY <3>1, <3>3, EscapedIs
    <3>6. Encoded[s] \in Seq(Nat) /\ ~Contains(Encoded[s], Amp)
      BY <3>3, <3>4, <3>5, JoinContains
    <3>7. Encoded[s] # <<>>
      BY <3>3, <3>4, <3>5, ConcatEqualIffEmpty
    <3>8. Decoded[Encoded[s]] = s
      BY <3>2, <3>3, <3>4, <3>5
    <3>9. QED
      BY <3>6, <3>7, <3>8
  <2>3. QED
    BY <2>1, <2>2
<1> HIDE DEF T
<1>2. \A s \in Seq(E) : s \in T
  BY <1>1, ShorterFirst
<1>3. QED
  BY <1>2 DEF T

(* Both sides of a delimiter are shorter texts.                            *)
LEMMA CutTypes ==
    ASSUME NEW s \in Seq(Nat), NEW c \in Nat, Contains(s, c)
    PROVE  /\ Before(s, c) \in Seq(Nat) /\ Behind(s, c) \in Seq(Nat)
           /\ Len(Behind(s, c)) < Len(s)
<1> DEFINE I == {i \in 1 .. Len(s) : s[i] = c}
<1>1. I \subseteq Nat /\ I # {}
  BY DEF Contains
<1>2. PICK k \in I : \A m \in I : k <= m
  <2> HIDE DEF I
  <2>1. QED
    BY <1>1, LeastNatural
<1>3. /\ k \in 1 .. Len(s) /\ s[k] = c
      /\ \A i \in 1 .. k - 1 : s[i] # c
  BY <1>2
<1>4. /\ Before(s, c) = SubSeq(s, 1, k - 1)
      /\ Behind(s, c) = SubSeq(s, k + 1, Len(s))
  <2> HIDE DEF I
  <2>1. QED
    BY <1>3, BeforeFirst
<1>5. QED
  BY <1>3, <1>4

(* parse_querystring's loop: the piece up to '&', then the rest.           *)
LEMMA PiecesIs ==
    \A q \in Seq(Nat) : Pieces[q] =
        IF Contains(q, Amp) THEN <<Before(q, Amp)>> \o Pieces[Behind(q, Amp)]
                            ELSE <<q>>
<1> DEFINE V == Seq(Seq(Nat))
           base == << <<>> >>
           rest == [s \in Seq(Nat) |->
                      IF Contains(s, Amp) THEN Behind(s, Amp) ELSE <<>>]
           step == [s \in Seq(Nat) |-> [v \in V |->
                      IF Contains(s, Amp) THEN <<Before(s, Amp)>> \o v ELSE <<s>>]]
<1>1. ASSUME NEW s \in Seq(Nat), Contains(s, Amp)
      PROVE  /\ Behind(s, Amp) \in Seq(Nat) /\ Len(Behind(s, Amp)) < Len(s)
             /\ <<Before(s, Amp)>> \in V
  BY <1>1, CutTypes DEF Amp
<1>2. \A s \in Seq(Nat) : s # <<>> => 0 < Len(s)
  BY LenProperties, EmptySeq
<1>3. rest \in [Seq(Nat) -> Seq(Nat)]
  BY <1>1
<1>4. step \in [Seq(Nat) -> [V -> V]] /\ base \in V
  <2>1. ASSUME NEW s \in Seq(Nat), NEW v \in V, Contains(s, Amp)
        PROVE  <<Before(s, Amp)>> \o v \in V
    <3> HIDE DEF V
    <3>1. <<Before(s, Amp)>> \in V
      BY <1>1, <2>1
    <3>2. QED
      BY <3>1, ConcatProperties DEF V
  <2>2. ASSUME NEW s \in Seq(Nat) PROVE <<s>> \in V
    OBVIOUS
  <2>3. base \in V
    BY <2>2, EmptySeq
  <2> HIDE DEF V
  <2>4. QED
    BY <2>1, <2>2, <2>3
<1>5. ~Contains(<<>>, Amp)
  BY DEF Contains
<1>6. PICK f : IsDefined(f, Nat, V, base, rest, step)
  <2>1. Descends(Nat, V, base, rest, step)
    BY <1>1, <1>2, <1>3, <1>4 DEF Descends
  <2> HIDE DEF base, rest, step, V
  <2>2. QED
    BY <2>1, Recursion
<1> DEFINE Body(g, q) ==
        IF Contains(q, Amp) THEN <<Before(q, Amp)>> \o g[Behind(q, Amp)]
                            ELSE <<q>>
<1>7. f = [s \in Seq(Nat) |-> Body(f, s)]
  <2>1. ASSUME NEW s \in Seq(Nat) PROVE f[s] = Body(f, s)
    <3> HIDE DEF V
    <3>1. f \in [Seq(Nat) -> V] /\ (s = <<>> => f[s] = base)
          /\ (s # <<>> => f[s] = step[s][f[rest[s]]])
      BY <1>6 DEF IsDefined
    <3>2. CASE s = <<>>
      BY <1>5, <3>1, <3>2
    <3>3. CASE s # <<>> /\ Contains(s, Amp)
      BY <1>1, <3>1, <3>3
    <3>4. CASE s # <<>> /\ ~Contains(s, Amp)
      <4>1. f[rest[s]] \in V
        BY <1>3, <3>1
      <4>2. QED
        BY <3>1, <3>4, <4>1
    <3>5. QED
      BY <3>2, <3>3, <3>4
  <2>2. QED
    BY <1>6, <2>1, Zenon DEF IsDefined
<1>8. Pieces = CHOOSE g : g = [q \in Seq(Nat) |-> Body(g, q)]
  BY Zenon DEF Pieces
<1>9. Pieces = [q \in Seq(Nat) |-> Body(Pieces, q)]
  <2> HIDE DEF Body
  <2>1. QED
    BY <1>7, <1>8, Zenon
<1>10. QED
  BY <1>9

LEMMA NoNulByte ==
    ASSUME NEW v \in Seq(1..255)
    PROVE  v \in Seq(Nat) /\ ~Contains(v, 0)
<1>1. Len(v) \in Nat /\ v = [i \in 1 .. Len(v) |-> v[i]]
  OBVIOUS
<1>2. ASSUME NEW i \in 1 .. Len(v) PROVE v[i] \in Nat /\ v[i] # 0
  <2>1. v[i] \in 1..255
    BY ElementOfSeq
  <2>2. \A b \in 1..255 : b \in Nat /\ b # 0
    OBVIOUS
  <2>3. QED
    BY <2>1, <2>2, Zenon
<1>3. v \in Seq(Nat)
  <2>1. [i \in 1 .. Len(v) |-> v[i]] \in [1 .. Len(v) -> Nat]
    BY <1>2
  <2>2. QED
    BY <1>1, <2>1
<1>4. ~Contains(v, 0)
  BY <1>2 DEF Contains
<1>5. QED
  BY <1>3, <1>4

(* A parameter is read back from its text.                                 *)
LEMMA ParameterReads ==
    ASSUME NEW p \in Parameters
    PROVE  /\ ParameterText(p) \in Seq(Nat) /\ ~Contains(ParameterText(p), Amp)
           /\ ParameterText(p) # <<>>
           /\ Parameter(ParameterText(p)) = p
<1> DEFINE v == p.value
           e == Encoded[v]
<1>1. /\ p \in [name : Seq(Nat), value : Seq(1..255)]
      /\ p.name \in Seq(Nat) /\ v \in Seq(1..255) /\ p.name # <<>>
      /\ ~Contains(p.name, Amp) /\ ~Contains(p.name, Equal)
  BY DEF Parameters
<1>2. /\ e \in Seq(Nat) /\ ~Contains(e, Amp) /\ Decoded[e] = v
  BY <1>1, EncodedReads
<1>3. v \in Seq(Nat) /\ ~Contains(v, 0)
  BY <1>1, NoNulByte
<1> HIDE DEF v, e
<1>4. Optional(Equal, e) \in Seq(Nat) /\ ~Contains(Optional(Equal, e), Amp)
  BY <1>2, OptionalContains DEF Equal, Amp
<1>5. ParameterText(p) = p.name \o Optional(Equal, e)
  BY DEF ParameterText, e, v
<1>6. ParameterText(p) \in Seq(Nat) /\ ~Contains(ParameterText(p), Amp)
  BY <1>1, <1>4, <1>5, JoinContains
<1>7. ParameterText(p) # <<>>
  BY <1>1, <1>4, <1>5, ConcatEqualIffEmpty
<1>8. Before(ParameterText(p), Equal) = p.name /\ Behind(ParameterText(p), Equal) = e
  BY <1>1, <1>2, <1>5, CutAtOptional DEF Equal
<1>9. url_decode(e) = v
  BY <1>2, <1>3, BeforeAll DEF url_decode
<1>10. p = [name |-> p.name, value |-> v]
  BY <1>1 DEF v
<1>11. Parameter(ParameterText(p)) = [name |-> p.name, value |-> v]
  BY <1>8, <1>9 DEF Parameter
<1>12. QED
  BY <1>6, <1>7, <1>10, <1>11

LEMMA QueryIs ==
    \A ps \in Seq(Parameters) : Query[ps] =
        IF ps = <<>> THEN <<>>
        ELSE ParameterText(ps[1])
             \o IF Len(ps) = 1 THEN <<>> ELSE <<Amp>> \o Query[Tail(ps)]
<1> DEFINE E == Parameters
           V == Seq(Nat)
           rest == [s \in Seq(E) |-> IF s = <<>> THEN <<>> ELSE Tail(s)]
           next(s, v) == ParameterText(s[1])
                         \o IF Len(s) = 1 THEN <<>> ELSE <<Amp>> \o v
           step == [s \in Seq(E) |-> [v \in V |->
                      IF s = <<>> THEN <<>> ELSE next(s, v)]]
<1>1. ASSUME NEW s \in Seq(E), s # <<>>
      PROVE  /\ Tail(s) \in Seq(E) /\ Len(Tail(s)) < Len(s)
             /\ ParameterText(s[1]) \in Seq(Nat)
  <2>1. s[1] \in E /\ Tail(s) \in Seq(E) /\ Len(Tail(s)) < Len(s)
    <3> HIDE DEF E
    <3>1. QED
      BY <1>1, FirstAndRest
  <2>2. QED
    BY <2>1, ParameterReads
<1>2. rest \in [Seq(E) -> Seq(E)]
  BY <1>1
<1>3. step \in [Seq(E) -> [V -> V]]
  <2>1. ASSUME NEW s \in Seq(E), NEW v \in V, s # <<>> PROVE next(s, v) \in V
    <3>1. (IF Len(s) = 1 THEN <<>> ELSE <<Amp>> \o v) \in Seq(Nat)
      BY EmptySeq DEF Amp
    <3>2. QED
      BY <1>1, <2>1, <3>1, ConcatProperties
  <2>2. <<>> \in V
    BY EmptySeq
  <2> HIDE DEF next, V
  <2>3. QED
    BY <2>1, <2>2
<1>4. PICK f : IsDefined(f, E, V, <<>>, rest, step)
  <2>1. Descends(E, V, <<>>, rest, step)
    <3>1. <<>> \in V
      BY EmptySeq
    <3>2. \A s \in Seq(E) : s # <<>> => Len(rest[s]) < Len(s)
      BY <1>1
    <3> HIDE DEF rest, step, V, E
    <3>3. QED
      BY <1>2, <1>3, <3>1, <3>2 DEF Descends
  <2> HIDE DEF rest, step, V, E
  <2>2. QED
    BY <2>1, Recursion
<1> DEFINE Body(g, ps) ==
        IF ps = <<>> THEN <<>>
        ELSE ParameterText(ps[1])
             \o IF Len(ps) = 1 THEN <<>> ELSE <<Amp>> \o g[Tail(ps)]
<1>5. f = [s \in Seq(E) |-> Body(f, s)]
  <2>1. ASSUME NEW s \in Seq(E) PROVE f[s] = Body(f, s)
    <3>1. f \in [Seq(E) -> V] /\ (s = <<>> => f[s] = <<>>)
          /\ (s # <<>> => f[s] = step[s][f[rest[s]]])
      BY <1>4 DEF IsDefined
    <3>2. s # <<>> => f[Tail(s)] \in V
      BY <1>1, <3>1
    <3> HIDE DEF V, E
    <3>3. QED
      BY <3>1, <3>2
  <2>2. QED
    BY <1>4, <2>1, Zenon DEF IsDefined
<1>6. Query = CHOOSE g : g = [ps \in Seq(E) |-> Body(g, ps)]
  BY Zenon DEF Query
<1>7. Query = [ps \in Seq(E) |-> Body(Query, ps)]
  <2> HIDE DEF Body
  <2>1. QED
    BY <1>5, <1>6, Zenon
<1>8. QED
  BY <1>7

(* The pieces of a query string are the texts of its parameters.           *)
LEMMA QueryReads ==
    \A ps \in Seq(Parameters) :
        /\ Query[ps] \in Seq(Nat)
        /\ ps # <<>> =>
             /\ Query[ps] # <<>> /\ Len(Pieces[Query[ps]]) = Len(ps)
             /\ Pieces[Query[ps]] \in Seq(Seq(Nat))
             /\ \A i \in 1 .. Len(ps) : Pieces[Query[ps]][i] = ParameterText(ps[i])
<1> DEFINE E == Parameters
           q(ps) == Query[ps]
           Cut(ps) == /\ q(ps) # <<>> /\ Len(Pieces[q(ps)]) = Len(ps)
                      /\ Pieces[q(ps)] \in Seq(Seq(Nat))
                      /\ \A i \in 1 .. Len(ps) :
                           Pieces[q(ps)][i] = ParameterText(ps[i])
           Reads(ps) == q(ps) \in Seq(Nat) /\ (ps # <<>> => Cut(ps))
           T == {ps \in Seq(E) : Reads(ps)}
<1>1. ASSUME NEW ps \in Seq(E), \A t \in Seq(E) : Len(t) < Len(ps) => t \in T
      PROVE  Reads(ps)
  <2>1. CASE ps = <<>>
    BY <2>1, QueryIs, EmptySeq
  <2>2. CASE ps # <<>>
    <3> DEFINE p == ps[1]
               t == Tail(ps)
               text == ParameterText(p)
    <3>1. /\ p \in E /\ t \in Seq(E) /\ Len(t) < Len(ps) /\ Len(t) \in Nat
          /\ Len(ps) = 1 + Len(t) /\ \A i \in 1 .. Len(t) : t[i] = ps[i + 1]
      <4> HIDE DEF E
      <4>1. p \in E /\ t \in Seq(E) /\ Len(t) < Len(ps)
        BY <2>2, FirstAndRest
      <4>2. /\ Len(t) \in Nat /\ Len(ps) = 1 + Len(t)
            /\ \A i \in 1 .. Len(t) : t[i] = ps[i + 1]
        BY <2>2
      <4>3. QED
        BY <4>1, <4>2
    <3>2. Reads(t)
      BY <1>1, <3>1
    <3>3. text \in Seq(Nat) /\ ~Contains(text, Amp) /\ text # <<>>
      BY <3>1, ParameterReads
    <3>4. q(ps) = text \o IF Len(ps) = 1 THEN <<>> ELSE <<Amp>> \o q(t)
      BY <2>2, QueryIs
    <3>5. <<text>> \in Seq(Seq(Nat)) /\ Len(<<text>>) = 1 /\ <<text>>[1] = text
      BY <3>3
    <3> HIDE DEF E, t, text, q
    <3>6. CASE Len(ps) = 1
      <4>1. q(ps) = text
        BY <3>3, <3>4, <3>6, ConcatEmptySeq
      <4>2. Pieces[q(ps)] = <<text>>
        BY <3>3, <4>1, PiecesIs
      <4>3. \A i \in 1 .. Len(ps) : ParameterText(ps[i]) = text
        BY <3>6 DEF text
      <4>4. \A i \in 1 .. Len(ps) : <<text>>[i] = text
        BY <3>5, <3>6
      <4>5. QED
        BY <3>3, <3>5, <3>6, <4>1, <4>2, <4>3, <4>4
    <3>7. CASE Len(ps) # 1
      <4> DEFINE cut == Pieces[q(t)]
      <4>1. q(t) \in Seq(Nat) /\ Cut(t)
        <5>1. t # <<>>
          BY <3>1, <3>7, EmptySeq
        <5>2. QED
          BY <3>2, <5>1
      <4>2. q(ps) = text \o (<<Amp>> \o q(t))
        BY <3>4, <3>7
      <4>3. /\ Contains(q(ps), Amp) /\ Before(q(ps), Amp) = text
            /\ Behind(q(ps), Amp) = q(t)
        BY <3>3, <4>1, <4>2, CutAtDelimiter DEF Amp
      <4>4. q(ps) \in Seq(Nat) /\ q(ps) # <<>>
        <5>1. <<Amp>> \o q(t) \in Seq(Nat)
          BY <4>1 DEF Amp
        <5>2. QED
          BY <3>3, <4>2, <5>1, ConcatProperties, ConcatEqualIffEmpty
      <4>5. Pieces[q(ps)] = <<text>> \o cut
        BY <4>3, <4>4, PiecesIs
      <4>6. /\ cut \in Seq(Seq(Nat)) /\ Len(cut) = Len(t)
            /\ \A i \in 1 .. Len(t) : cut[i] = ParameterText(t[i])
        BY <4>1
      <4> HIDE DEF cut
      <4>7. /\ Pieces[q(ps)] \in Seq(Seq(Nat))
            /\ Len(Pieces[q(ps)]) = 1 + Len(t)
            /\ \A i \in 1 .. 1 + Len(t) : Pieces[q(ps)][i] =
                 IF i <= 1 THEN <<text>>[i] ELSE cut[i - 1]
        BY <3>5, <4>5, <4>6, ConcatProperties
      <4>8. ASSUME NEW i \in 1 .. Len(ps)
            PROVE  Pieces[q(ps)][i] = ParameterText(ps[i])
        <5>1. CASE i = 1
          BY <3>1, <3>5, <4>7, <5>1 DEF text
        <5>2. CASE i # 1
          <6>1. /\ i - 1 \in 1 .. Len(t) /\ ~(i <= 1) /\ (i - 1) + 1 = i
                /\ i \in 1 .. 1 + Len(t)
            BY <3>1, <5>2
          <6>2. Pieces[q(ps)][i] = cut[i - 1]
            BY <4>7, <6>1
          <6>3. cut[i - 1] = ParameterText(t[i - 1]) /\ t[i - 1] = ps[(i - 1) + 1]
            BY <3>1, <4>6, <6>1
          <6>4. QED
            BY <6>1, <6>2, <6>3
        <5>3. QED
          BY <5>1, <5>2
      <4>9. QED
        BY <3>1, <4>4, <4>7, <4>8
    <3>8. QED
      BY <3>6, <3>7
  <2>3. QED
    BY <2>1, <2>2
<1>2. ASSUME NEW ps \in Seq(E), \A t \in Seq(E) : Len(t) < Len(ps) => t \in T
      PROVE  ps \in T
  BY <1>1, <1>2
<1> HIDE DEF T, E
<1>3. \A ps \in Seq(E) : ps \in T
  BY <1>2, ShorterFirst
<1>4. QED
  BY <1>3 DEF T, E

(* The parameters are read back from their query string.                   *)
LEMMA ParametersParsed ==
    ASSUME NEW ps \in Seq(Parameters)
    PROVE  parse_querystring(Query[ps]) = ps
<1> DEFINE q == Query[ps]
           cut == Pieces[q]
<1>1. CASE ps = <<>>
  <2>1. q = <<>>
    BY <1>1, QueryIs
  <2>2. QED
    BY <1>1, <2>1 DEF parse_querystring
<1>2. CASE ps # <<>>
  <2>1. /\ q # <<>> /\ Len(cut) = Len(ps) /\ cut \in Seq(Seq(Nat))
        /\ \A i \in 1 .. Len(ps) : cut[i] = ParameterText(ps[i])
    BY <1>2, QueryReads
  <2>2. parse_querystring(q) = [i \in DOMAIN cut |-> Parameter(cut[i])]
    BY <2>1 DEF parse_querystring
  <2>3. DOMAIN cut = 1 .. Len(ps)
    BY <2>1, LenProperties
  <2>4. ASSUME NEW i \in 1 .. Len(ps) PROVE Parameter(cut[i]) = ps[i]
    <3>1. ps[i] \in Parameters
      BY ElementOfSeq
    <3>2. QED
      BY <2>1, <3>1, ParameterReads
  <2>5. ps = [i \in 1 .. Len(ps) |-> ps[i]]
    OBVIOUS
  <2> HIDE DEF q, cut
  <2>6. QED
    BY <2>2, <2>3, <2>4, <2>5 DEF q
<1>3. QED
  BY <1>1, <1>2

-----------------------------------------------------------------------------
(* The parts of a URL.                                                     *)

(* What is behind the version is cut into the parts it was written from.   *)
LEMMA SplitRest ==
    ASSUME NEW f, IsForm(f)
    PROVE  /\ Rest(f) \in Seq(Nat)
           /\ Split(Rest(f)).apiversion = v1
           /\ Split(Rest(f)).route = f.route
           /\ Split(Rest(f)).path = f.path
           /\ Split(Rest(f)).command = IF f.command = <<>> THEN none ELSE f.command
           /\ Split(Rest(f)).querystring = Query[f.params]
<1> DEFINE q == Query[f.params]
           withPath    == f.route \o Optional(Slash, f.path)
           withCommand == withPath \o Optional(Colon, f.command)
<1>1. /\ f.route \in Seq(Nat) /\ f.path \in Seq(Nat) /\ f.command \in Seq(Nat)
      /\ f.params \in Seq(Parameters)
      /\ \A c \in {Slash, Colon, Question} : ~Contains(f.route, c)
      /\ \A c \in {Colon, Question} : ~Contains(f.path, c)
      /\ ~Contains(f.command, Question)
  BY DEF IsForm
<1>2. /\ Slash \in Nat /\ Colon \in Nat /\ Question \in Nat
      /\ Colon # Slash /\ Question # Slash /\ Question # Colon
  BY DEF Slash, Colon, Question
<1>0. q \in Seq(Nat)
  BY <1>1, QueryReads
<1> HIDE DEF q
<1>3. /\ Before(withPath, Slash) = f.route /\ Behind(withPath, Slash) = f.path
      /\ withPath \in Seq(Nat)
  BY <1>1, <1>2, CutAtOptional
<1>4. ~Contains(withPath, Colon) /\ ~Contains(withPath, Question)
  BY <1>1, <1>2, OptionalContains, JoinContains
<1> HIDE DEF withPath
<1>5. /\ Before(withCommand, Colon) = withPath
      /\ Behind(withCommand, Colon) = f.command /\ withCommand \in Seq(Nat)
  BY <1>1, <1>2, <1>3, <1>4, CutAtOptional
<1>6. ~Contains(withCommand, Question)
  BY <1>1, <1>2, <1>3, <1>4, OptionalContains, JoinContains
<1>7. Rest(f) = withCommand \o Optional(Question, q)
  BY DEF Rest, withCommand, withPath, q
<1> HIDE DEF withCommand
<1>8. /\ Before(Rest(f), Question) = withCommand /\ Behind(Rest(f), Question) = q
      /\ Rest(f) \in Seq(Nat)
  BY <1>0, <1>1, <1>2, <1>5, <1>6, <1>7, CutAtOptional
<1>9. QED
  BY <1>3, <1>5, <1>8 DEF Split, q

(* Pieces of text are joined in any grouping.                              *)
LEMMA Regroup ==
    ASSUME NEW a \in Seq(Nat), NEW b \in Seq(Nat), NEW c \in Seq(Nat)
    PROVE  (a \o b) \o c = a \o (b \o c)
BY ConcatAssociative

(* A URL has components when it was written for Api, and those it was      *)
(* written from.                                                           *)
LEMMA UrlParsed ==
    ASSUME NEW f, IsForm(f)
    PROVE  LET c == parse_url(Written(f))
           IN  /\ c # Null <=> ForApi(f)
               /\ ForApi(f) =>
                    /\ c.apiversion = f.apiversion /\ c.route = f.route
                    /\ c.path = f.path
                    /\ c.command = IF f.command = <<>> THEN none ELSE f.command
                    /\ c.querystring = Query[f.params] /\ c.parameters = f.params
<1> DEFINE rest == Rest(f)
           s == f.apiversion \o (f.sep \o rest)
           url == Written(f)
<1>1. /\ f.apiversion \in Seq(Nat) /\ ~Contains(f.apiversion, Slash)
      /\ f.lead \in {<<>>, <<Slash>>} /\ (f.lead = <<>> => f.apiversion # <<>>)
      /\ f.sep \in {<<>>, <<Slash>>} /\ (f.sep = <<>> => rest = <<>>)
  BY DEF IsForm
<1>2. rest \in Seq(Nat) /\ Slash \in Nat
  BY SplitRest DEF Slash
<1>3. Split(rest).apiversion = v1
  BY SplitRest
<1> HIDE DEF rest
<1>4. f.lead \in Seq(Nat) /\ f.sep \in Seq(Nat)
  <2>1. <<>> \in Seq(Nat)
    BY EmptySeq
  <2>2. <<Slash>> \in Seq(Nat)
    BY <1>2
  <2>3. f.lead \in Seq(Nat)
    BY <1>1, <2>1, <2>2
  <2>4. f.sep \in Seq(Nat)
    BY <1>1, <2>1, <2>2
  <2>5. QED
    BY <2>3, <2>4
<1>5. s \in Seq(Nat) /\ url = f.lead \o s
  <2>1. url = ((f.lead \o f.apiversion) \o f.sep) \o rest
    BY DEF Written, rest
  <2> DEFINE front == f.lead \o f.apiversion
             back == f.sep \o rest
  <2>2. front \in Seq(Nat) /\ back \in Seq(Nat)
    BY <1>1, <1>2, <1>4, ConcatProperties
  <2>3. (front \o f.sep) \o rest = front \o back
    <3>1. front \in Seq(Nat) /\ f.sep \in Seq(Nat) /\ rest \in Seq(Nat)
      BY <1>2, <1>4, <2>2
    <3> HIDE DEF front
    <3>2. QED
      BY <3>1, Regroup
  <2>4. front \o back = f.lead \o (f.apiversion \o back)
    <3>1. f.lead \in Seq(Nat) /\ f.apiversion \in Seq(Nat) /\ back \in Seq(Nat)
      BY <1>1, <1>4, <2>2
    <3> HIDE DEF back
    <3>2. QED
      BY <3>1, Regroup
  <2>5. s \in Seq(Nat)
    BY <1>1, <2>2, ConcatProperties
  <2>6. QED
    BY <2>1, <2>3, <2>4, <2>5
<1> HIDE DEF url
<1>6. (IF url # <<>> /\ url[1] = Slash THEN Tail(url) ELSE url) = s
  <2>1. CASE f.lead = <<Slash>>
    <3> HIDE DEF s
    <3>1. url = <<Slash>> \o s /\ url \in Seq(Nat)
      BY <1>4, <1>5, <2>1, ConcatProperties
    <3>2. url # <<>> /\ url[1] = Slash /\ Tail(url) = s
      BY <1>2, <1>5, <3>1
    <3>3. QED
      BY <3>2
  <2>2. CASE f.lead = <<>>
    <3>1. url = s
      BY <1>5, <2>2, ConcatEmptySeq
    <3>2. Len(f.apiversion) \in Nat /\ 1 \in 1 .. Len(f.apiversion)
      BY <1>1, <2>2
    <3>3. f.apiversion[1] # Slash
      BY <1>1, <3>2 DEF Contains
    <3>4. s[1] = f.apiversion[1]
      <4>1. f.sep \o rest \in Seq(Nat)
        BY <1>2, <1>4, ConcatProperties
      <4> DEFINE back == f.sep \o rest
      <4>2. Len(back) \in Nat
        BY <4>1, LenProperties
      <4>4. 1 \in 1 .. Len(f.apiversion) + Len(back) /\ 1 <= Len(f.apiversion)
        <5> HIDE DEF back
        <5>1. QED
          BY <3>2, <4>2
      <4>3. QED
        BY <1>1, <4>1, <4>4, ConcatProperties
    <3>5. QED
      BY <3>1, <3>3, <3>4
  <2>3. QED
    BY <1>1, <2>1, <2>2
<1>7. parse_url_static(url) = IF Contains(s, Slash) /\ Before(s, Slash) = v1
                                THEN Split(Behind(s, Slash)) ELSE Null
  BY <1>6 DEF parse_url_static, supported_apiversions
<1>8. v1 # <<>>
  BY DEF v1
<1>9. CASE f.sep = <<>>
  <2>1. s = f.apiversion
    BY <1>1, <1>2, <1>9, ConcatEmptySeq
  <2>2. parse_url_static(url) = Null
    BY <1>1, <1>7, <2>1
  <2>3. QED
    BY <1>9, <2>2 DEF parse_url, ForApi, url
<1>10. CASE f.sep = <<Slash>>
  <2>1. /\ Contains(s, Slash) /\ Before(s, Slash) = f.apiversion
        /\ Behind(s, Slash) = rest
    BY <1>1, <1>2, <1>10, CutAtDelimiter
  <2>2. ForApi(f) <=> f.apiversion = v1
    BY <1>10 DEF ForApi
  <2>3. CASE f.apiversion # v1
    <3>1. parse_url_static(url) = Null
      BY <1>7, <2>1, <2>3
    <3>2. QED
      BY <2>2, <2>3, <3>1 DEF parse_url, url
  <2>4. CASE f.apiversion = v1
    <3> DEFINE c == Split(rest)
    <3>1. parse_url_static(url) = c
      BY <1>7, <2>1, <2>4
    <3>2. c # Null
      BY <1>3, <1>8 DEF Null
    <3>3. parse_url(url)
            = [c EXCEPT !.parameters = parse_querystring(c.querystring)]
      BY <3>1, <3>2 DEF parse_url
    <3>4. /\ parse_url(url).apiversion = c.apiversion
          /\ parse_url(url).route = c.route /\ parse_url(url).path = c.path
          /\ parse_url(url).command = c.command
          /\ parse_url(url).querystring = c.querystring
          /\ parse_url(url).parameters = parse_querystring(c.querystring)
      BY <3>3 DEF Split
    <3>5. parse_url(url) # Null
      BY <1>3, <1>8, <3>4 DEF Null
    <3>6. QED
      <4>1. c.querystring = Query[f.params] /\ f.params \in Seq(Parameters)
        BY SplitRest DEF rest, IsForm
      <4>2. parse_querystring(c.querystring) = f.params
        BY <4>1, ParametersParsed
      <4>3. QED
        BY <2>2, <2>4, <3>4, <3>5, <4>2, SplitRest DEF rest, url
  <2>5. QED
    BY <2>3, <2>4
<1>11. QED
  BY <1>1, <1>9, <1>10

-----------------------------------------------------------------------------
(* The request that is handled was parsed, and Api is the handler exactly  *)
(* of those that have components.                                          *)
ParsedRequest ==
    \/ handled = Nobody
    \/ \E r \in Requests, by \in {"Api", "_ReadStaticFiles", "_NotFound"} :
         /\ by = "Api" <=> parse_url(r.uri) # Null
         /\ handled = [by |-> by, request |-> r, components |-> parse_url(r.uri)]

LEMMA DispatchStep == ASSUME DispatchNext PROVE Next
BY DEF DispatchNext, DispatchAccept, DispatchCallback, DispatchApiBody, Next

LEMMA ParsedKeeps ==
    ASSUME ParsedRequest, [DispatchNext]_dvars
    PROVE  ParsedRequest'
<1>1. CASE DispatchAccept
  BY <1>1 DEF DispatchAccept, ParsedRequest
<1>2. CASE DispatchCallback
  <2>1. PICK r \in Requests, by \in {"Api", "_ReadStaticFiles", "_NotFound"} :
          /\ Handler(parse_url(r.uri), by)
          /\ handled' = [by |-> by, request |-> r, components |-> parse_url(r.uri)]
    BY <1>2 DEF DispatchCallback
  <2>2. by = "Api" <=> parse_url(r.uri) # Null
    BY <2>1 DEF Handler
  <2>3. QED
    BY <2>1, <2>2 DEF ParsedRequest
<1>3. CASE UNCHANGED handled
  BY <1>3 DEF ParsedRequest
<1>4. QED
  BY <1>1, <1>2, <1>3 DEF DispatchNext, DispatchApiBody, dvars

(* A slot that dispatches its requests is a slot: whichever handler        *)
(* answers, and whatever its URL is, the response is sent as HttpResponse  *)
(* says (middleware.c: Dispatch).                                          *)
THEOREM DispatchImplementsResponse == DispatchSpec => Spec
<1>1. DispatchInit => Init
  BY DEF DispatchInit
<1>2. [DispatchNext]_dvars => [Next]_vars
  BY DispatchStep DEF dvars
<1>3. QED
  BY <1>1, <1>2, PTL DEF DispatchSpec, Spec

(* ... so that no byte is lost or sent twice, nor is a response ended      *)
(* early, when requests are dispatched.                                    *)
THEOREM DispatchedResponses ==
    DispatchSpec => [](TypeOK /\ NoByteLostOrRepeated /\ EndedIsComplete)
BY DispatchImplementsResponse, TypeCorrect, NoByteLostCorrect,
   EndedIsCompleteCorrect, PTL

LEMMA ParsedGivesWritten ==
    ASSUME ParsedRequest
    PROVE  ApiGetsWhatWasWritten /\ ParametersComeBack
<1> SUFFICES ASSUME handled # Nobody
             PROVE  ApiGetsWhatWasWritten /\ ParametersComeBack
  BY DEF ApiGetsWhatWasWritten, ParametersComeBack
<1>1. PICK r \in Requests, by \in {"Api", "_ReadStaticFiles", "_NotFound"} :
        /\ by = "Api" <=> parse_url(r.uri) # Null
        /\ handled = [by |-> by, request |-> r, components |-> parse_url(r.uri)]
  BY DEF ParsedRequest
<1>2. IsForm(r.form) /\ r.uri = Written(r.form)
  BY RequestAssumption
<1>3. ApiGetsWhatWasWritten
  BY <1>1, <1>2, UrlParsed DEF ApiGetsWhatWasWritten
<1>4. ParametersComeBack
  BY <1>1, <1>2, UrlParsed DEF ParametersComeBack
<1>5. QED
  BY <1>3, <1>4

LEMMA DispatchWritten ==
    DispatchSpec => [](ApiGetsWhatWasWritten /\ ParametersComeBack)
<1>1. DispatchInit => ParsedRequest
  BY DEF DispatchInit, ParsedRequest
<1>2. ParsedRequest /\ [DispatchNext]_dvars => ParsedRequest'
  BY ParsedKeeps
<1>3. ParsedRequest => ApiGetsWhatWasWritten /\ ParametersComeBack
  BY ParsedGivesWritten
<1>4. QED
  BY <1>1, <1>2, <1>3, PTL DEF DispatchSpec

(* Api answers exactly the requests whose URL was written for it, and is   *)
(* given the route, path, command and query string that were meant, of any *)
(* length and whatever delimiters the parts behind them hold (url.c:114-   *)
(* 181, middleware.c: Dispatch).                                           *)
THEOREM ApiCorrect == DispatchSpec => []ApiGetsWhatWasWritten
BY DispatchWritten, PTL

(* The parameters that Api is given are the client's, any number of them,  *)
(* with values of any bytes but NUL and of any length, although the same   *)
(* characters separate them, escape bytes and stand for a blank            *)
(* (url.c:25-98: parse_querystring, url_decode).                           *)
THEOREM ParametersCorrect == DispatchSpec => []ParametersComeBack
BY DispatchWritten, PTL

=============================================================================
