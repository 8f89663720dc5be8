------------------------------ MODULE FlowPipe ------------------------------
(***************************************************************************)
(* What a TCP flow of the relay promises to the device for the direction   *)
(* it sends in: the bytes taken from the device arrive in order, once, at  *)
(* one peer that is chosen before the first of them arrives; once the      *)
(* direction has ended nothing arrives any more, and it ends for good.     *)
(***************************************************************************)
EXTENDS Naturals

VARIABLES taken, arrived, peer, ended

vars == <<taken, arrived, peer, ended>>

Init == taken = 0 /\ arrived = 0 /\ peer = "none" /\ ended = FALSE

Take == taken' \in Nat /\ taken' > taken /\ UNCHANGED <<arrived, peer, ended>>

Choose(p) == peer = "none" /\ peer' = p /\ UNCHANGED <<taken, arrived, ended>>

Arrive(k) ==
    /\ ~ended /\ peer # "none"
    /\ arrived + k <= taken
    /\ arrived' = arrived + k
    /\ UNCHANGED <<taken, peer, ended>>

End == ended' = TRUE /\ UNCHANGED <<taken, arrived, peer>>

Next ==
    \/ Take
    \/ \E p \in {"hostname", "destination"} : Choose(p)
    \/ \E k \in 1 .. (taken - arrived) : Arrive(k)
    \/ End

Spec == Init /\ [][Next]_vars
=============================================================================
