---------------------------- MODULE LaggingCopy ----------------------------
(***************************************************************************)
(* What a subscriber of a feed is promised: after the snapshot its copy    *)
(* runs through the values the original had since, each of them, in their  *)
(* order, and none it never had.  lag holds the values still on their way. *)
(***************************************************************************)
EXTENDS Sequences

CONSTANTS Value, NoCopy

VARIABLES truth, lag, copy
vars == <<truth, lag, copy>>

Init == truth \in Value /\ lag = << >> /\ copy = NoCopy

Attach == copy = NoCopy /\ copy' = truth /\ lag' = << >> /\ UNCHANGED truth

Detach == copy' = NoCopy /\ lag' = << >> /\ UNCHANGED truth

Change == /\ truth' \in Value
          /\ lag' = IF copy = NoCopy THEN lag ELSE Append(lag, truth')
          /\ UNCHANGED copy

Deliver == lag # << >> /\ copy' = Head(lag) /\ lag' = Tail(lag) /\ UNCHANGED truth

Next == Attach \/ Detach \/ Change \/ Deliver

Spec == Init /\ [][Next]_vars
=============================================================================
