----------------------------- MODULE PartStream -----------------------------
(***************************************************************************)
(* What the consumer of a body's parts is promised (a callback of type     *)
(* BODY_DATABLOCK_CB): after the start the parts come one by one and in    *)
(* order, each opened with its header fields, given its data in order, and *)
(* closed; the body ends when all parts were given; or it is aborted.      *)
(***************************************************************************)
EXTENDS Naturals, Sequences

CONSTANT PartLists   \* what a body may consist of: sequences of parts, which
                     \* are records [fields, data]

VARIABLES parts,     \* the parts of the body
          given,     \* what was given of them
          phase      \* "none", "between" or "inside" parts, "ended", "aborted"

vars == <<parts, given, phase>>

Init == parts \in PartLists /\ given = <<>> /\ phase = "none"

(* The k-th part with the first n bytes of its data. *)
Given(k, n) == [parts[k] EXCEPT !.data = SubSeq(@, 1, n)]
DataLen(k)  == Len(parts[k].data)
Last == Len(given)

Start == phase = "none" /\ phase' = "between" /\ UNCHANGED <<parts, given>>

(* The start of a body that is not divided is that of its only part. *)
StartUndivided ==
    /\ phase = "none" /\ phase' = "inside"
    /\ Len(parts) = 1 /\ given' = <<Given(1, 0)>>
    /\ UNCHANGED parts

OpenPart ==
    /\ phase = "between" /\ Last < Len(parts) /\ phase' = "inside"
    /\ given' = Append(given, Given(Last + 1, 0))
    /\ UNCHANGED parts

Data ==
    /\ phase = "inside"
    /\ \E n \in Len(given[Last].data) + 1 .. DataLen(Last) :
         given' = [given EXCEPT ![Last] = Given(Last, n)]
    /\ UNCHANGED <<parts, phase>>

(* The rest of the data may be handed over right before the end of a part. *)
ClosePart ==
    /\ phase = "inside" /\ phase' = "between"
    /\ given' = [given EXCEPT ![Last] = parts[Last]]
    /\ UNCHANGED parts

(* ... and the last part's end right before the end of the body. *)
End ==
    /\ phase \in {"between", "inside"} /\ phase' = "ended"
    /\ Last = Len(parts) /\ given' = parts
    /\ UNCHANGED parts

Abort ==
    /\ phase \in {"between", "inside"} /\ phase' = "aborted"
    /\ UNCHANGED <<parts, given>>

Next ==
    Start \/ StartUndivided \/ OpenPart \/ Data \/ ClosePart \/ End \/ Abort

Spec == Init /\ [][Next]_vars

=============================================================================
