----------------------------- MODULE BodyStream -----------------------------
(***************************************************************************)
(* What an application that absorbs a request body is promised: a stream   *)
(* is opened at most once per request, hands over the bytes of the body in *)
(* order and without gaps, in pieces that are never empty, and is ended    *)
(* exactly once: finished when all of the body was handed over, or aborted.*)
(***************************************************************************)
EXTENDS Naturals, Sequences

CONSTANT Bodies      \* the bodies a request may carry: sequences

VARIABLES body,      \* the body of the current request
          got,       \* what was handed over of it
          phase      \* "none", "open", "done" or "aborted"

vars == <<body, got, phase>>

Init == body = <<>> /\ got = <<>> /\ phase = "none"

Open(b) ==
    /\ phase = "none" /\ phase' = "open"
    /\ body' = b /\ got' = <<>>

Data(n) ==
    /\ phase = "open"
    /\ got' = SubSeq(body, 1, Len(got) + n)
    /\ UNCHANGED <<body, phase>>

Finish ==
    /\ phase = "open" /\ got = body /\ phase' = "done"
    /\ UNCHANGED <<body, got>>

Abort ==
    /\ phase = "open" /\ phase' = "aborted"
    /\ UNCHANGED <<body, got>>

NewRequest ==
    /\ phase \in {"done", "aborted"} /\ phase' = "none"
    /\ body' = <<>> /\ got' = <<>>

Next ==
    \/ \E b \in Bodies : Open(b)
    \/ \E n \in 1 .. Len(body) - Len(got) : Data(n)
    \/ Finish \/ Abort \/ NewRequest

Spec == Init /\ [][Next]_vars

=============================================================================
