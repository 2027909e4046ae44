-------------------------- MODULE MCFreeRTOSServer --------------------------
(* The instances of FreeRTOSServer that TLC checks.                        *)
EXTENDS FreeRTOSServer, TLC

(* No link differs from another but by what happens on it. *)
Links == Permutations(Ids)

(* Bound: only the first peer sends a second frame, which makes its queue  *)
(* overflow, and no other connects after that.                             *)
SecondFrameAlone == \A s \in Ids : frames[s] = 2 => conns = 1

=============================================================================
