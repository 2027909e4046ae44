---------------------------- MODULE MCDispatch ----------------------------
(***************************************************************************)
(* Dispatch with the requests that a client writes from forms: a form says *)
(* what the client means, its URL is written from that, and Api must be    *)
(* given what was meant.                                                   *)
(***************************************************************************)
EXTENDS Dispatch

-----------------------------------------------------------------------------
a == 97
route == <<102>>

(* Bytes that mean something to the parser, or that only look so. *)
Bytes == {a, 50, Percent, Amp, Equal, Plus, Space, 255}
Values == BoundedSeq(Bytes, 2)

Form(api, path, command, params) ==
    [lead |-> <<Slash>>, apiversion |-> api, sep |-> <<Slash>>, route |-> route,
     path |-> path, command |-> command, params |-> params]

Valued(v) == <<[name |-> <<a>>, value |-> v]>>

(* Each value alone; every combination of the other parts, with names that *)
(* hold the delimiters of these; URLs Api does not answer.                 *)
Forms ==
    {Form(v1, <<>>, <<>>, Valued(v)) : v \in Values}
    \cup
    {Form(v1, path, command, params) :
        path \in {<<>>, <<a, Slash, a>>},
        command \in {<<>>, <<a>>},
        params \in {<<>>, Valued(<<Amp>>) \o Valued(<<>>)}
                   \cup {<<[name |-> <<b>>, value |-> <<a>>]>> :
                           b \in {Slash, Colon, Question}}}
    \cup
    {[Form(v1, <<>>, <<>>, <<>>) EXCEPT !.lead = <<>>],
     [Form(v1, <<>>, <<>>, <<>>) EXCEPT !.sep = <<>>, !.route = <<>>],
     Form(<<118, 50>>, <<>>, <<>>, <<>>),
     Form(<<>>, <<>>, <<>>, Valued(<<a>>))}

MCRequests ==
    {[form |-> f, uri |-> Written(f), body |-> b] : f \in Forms, b \in BOOLEAN}

=============================================================================
