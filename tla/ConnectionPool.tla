--------------------------- MODULE ConnectionPool ---------------------------
(***************************************************************************)
(* What the server promises about its connections, whatever slots, pools   *)
(* and descriptors it keeps them in: at most Capacity are open, each first *)
(* asks and then is answered, and a new one is let in exactly while there  *)
(* is room.                                                                *)
(***************************************************************************)
EXTENDS Naturals, FiniteSets

CONSTANTS Conns,     \* the connections there can be
          Capacity   \* how many of them may be open at a time

VARIABLES asking,    \* open connections whose request is awaited
          answering, \* open connections whose response is being sent
          accepting  \* whether a new connection is let in

vars == <<asking, answering, accepting>>

Init == asking = {} /\ answering = {} /\ accepting = TRUE

Open(c) ==
    /\ accepting /\ c \notin asking \cup answering
    /\ asking' = asking \cup {c}
    /\ accepting' = (Cardinality(asking \cup answering) + 1 < Capacity)
    /\ UNCHANGED answering

Answer(c) ==
    /\ c \in asking
    /\ asking' = asking \ {c} /\ answering' = answering \cup {c}
    /\ UNCHANGED accepting

Close(c) ==
    /\ c \in asking \cup answering
    /\ asking' = asking \ {c} /\ answering' = answering \ {c}
    /\ accepting' = TRUE

Next == \E c \in Conns : Open(c) \/ Answer(c) \/ Close(c)

Spec == Init /\ [][Next]_vars

=============================================================================
