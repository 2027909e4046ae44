----------------------------- MODULE Dispatch -----------------------------
(***************************************************************************)
(* Dispatch of middleware.c over the sending side of a slot: which handler *)
(* answers a request, and what Api is given of its URL.                    *)
(***************************************************************************)
EXTENDS HttpResponse, Url

CONSTANT Requests   \* requests that come: the form that says what the client
                    \* means, the uri written from it, whether with a body

-----------------------------------------------------------------------------
(* How a client writes a URL. *)
Unreserved(b) == b \in 48..57 \cup 65..90 \cup 97..122
HexDigit(n) == IF n < 10 THEN 48 + n ELSE 55 + n
Escaped(b) ==
    IF Unreserved(b) THEN <<b>>
    ELSE IF b = Space THEN <<Plus>>
    ELSE <<Percent, HexDigit(b \div 16), HexDigit(b % 16)>>

Encoded[s \in Seq(1..255)] ==
    IF s = <<>> THEN <<>> ELSE Escaped(s[1]) \o Encoded[Tail(s)]

(* The text behind delimiter c, and c, are left out when there is none. *)
Optional(c, s) == IF s = <<>> THEN <<>> ELSE <<c>> \o s

(* A parameter has a name, which is not encoded.                           *)
Parameters ==
    {p \in [name : Seq(Nat), value : Seq(1..255)] :
       p.name # <<>> /\ ~Contains(p.name, Amp) /\ ~Contains(p.name, Equal)}

ParameterText(p) == p.name \o Optional(Equal, Encoded[p.value])

Query[ps \in Seq(Parameters)] ==
    IF ps = <<>> THEN <<>>
    ELSE ParameterText(ps[1])
         \o IF Len(ps) = 1 THEN <<>> ELSE <<Amp>> \o Query[Tail(ps)]

(* What is behind the version and its slash; the URL.                      *)
Rest(f) ==
    f.route \o Optional(Slash, f.path) \o Optional(Colon, f.command)
    \o Optional(Question, Query[f.params])
Written(f) == f.lead \o f.apiversion \o f.sep \o Rest(f)

(* What a client may mean: a part of the URL holds no delimiter that comes *)
(* behind it.  The first slash may be left out, and a URL may end with its *)
(* version.                                                                *)
IsForm(f) ==
    /\ {f.apiversion, f.route, f.path, f.command} \subseteq Seq(Nat)
    /\ f.params \in Seq(Parameters)
    /\ f.lead \in {<<>>, <<Slash>>} /\ (f.lead = <<>> => f.apiversion # <<>>)
    /\ f.sep \in {<<>>, <<Slash>>} /\ (f.sep = <<>> => Rest(f) = <<>>)
    /\ ~Contains(f.apiversion, Slash)
    /\ \A c \in {Slash, Colon, Question} : ~Contains(f.route, c)
    /\ \A c \in {Colon, Question} : ~Contains(f.path, c)
    /\ ~Contains(f.command, Question)

ASSUME RequestAssumption ==
    \A r \in Requests : IsForm(r.form) /\ r.uri = Written(r.form)

-----------------------------------------------------------------------------
VARIABLE handled    \* the request of this connection, who answered it, and
                    \* the components Api was given

dvars == <<vars, handled>>

Nobody == [by |-> "nobody"]

DispatchInit == Init /\ handled = Nobody

(* Every part of a slot's life but the callback leaves the request alone;  *)
(* the next connection has none yet.                                       *)
DispatchAccept == Accept /\ handled' = Nobody

(* Dispatch: Api answers if the URL has components; else the static file   *)
(* that goes by the name, if there is one; else _NotFound.  Only a static  *)
(* file leaves a BodyCB, and Api and _ReadStaticFiles read the body.       *)
Api(c) == bodyCB' = bodyCB
_ReadStaticFiles == bodyCB' = "own"
_NotFound == bodyCB' = bodyCB

Handler(c, by) ==
    \/ by = "Api" /\ c # Null /\ Api(c)
    \/ by = "_ReadStaticFiles" /\ c = Null /\ _ReadStaticFiles
    \/ by = "_NotFound" /\ c = Null /\ _NotFound

DispatchCallback ==
    /\ Callback
    /\ \E r \in Requests, by \in {"Api", "_ReadStaticFiles", "_NotFound"} :
         LET c == parse_url(r.uri)
         IN  /\ Handler(c, by)
             /\ (protocolState' = "eReq_Body") <=> r.body
             /\ handled' = [by |-> by, request |-> r, components |-> c]

(* Only Api's absorber writes into the response. *)
DispatchApiBody == handled.by = "Api" /\ ApiBody /\ UNCHANGED handled

DispatchNext ==
    \/ DispatchAccept
    \/ DispatchCallback
    \/ DispatchApiBody
    \/ (BodyComplete \/ WriteSock \/ Close) /\ UNCHANGED handled

DispatchSpec == DispatchInit /\ [][DispatchNext]_dvars

-----------------------------------------------------------------------------
ForApi(f) == f.apiversion = v1 /\ f.sep # <<>>

(* A URL is answered by Api exactly when it was written for it, and then   *)
(* Api is given the route, path, command and query string it was written   *)
(* from, whatever delimiters the query string holds (parse_url_static).    *)
ApiGetsWhatWasWritten ==
    handled # Nobody =>
        LET f == handled.request.form
            c == handled.components
        IN  /\ handled.by = "Api" <=> ForApi(f)
            /\ ForApi(f) =>
                 /\ c.apiversion = f.apiversion /\ c.route = f.route
                 /\ c.path = f.path
                 /\ c.command = IF f.command = <<>> THEN none ELSE f.command
                 /\ c.querystring = Query[f.params]

(* The parameters are those the query string was written from: a value     *)
(* that holds '&', '=', '%', '+' or a blank comes back from its encoding   *)
(* (parse_querystring, url_decode).                                        *)
ParametersComeBack ==
    handled # Nobody /\ handled.by = "Api" =>
        handled.components.parameters = handled.request.form.params

=============================================================================
