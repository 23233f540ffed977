------------------------------ MODULE CanLink -------------------------------
(***************************************************************************)
(* What the transmit side of the CAN driver promises the network stack: a  *)
(* bounded first-in first-out link.  Frames reach the bus in the order in  *)
(* which they were accepted, and each frame is confirmed (its echo handed  *)
(* back) in that order too, exactly once and only after it was on the bus. *)
(***************************************************************************)
EXTENDS Naturals, Sequences

CONSTANTS Frames, Capacity

VARIABLES
    waiting,   \* accepted, not yet on the bus
    sent       \* on the bus, not yet confirmed

vars == <<waiting, sent>>

Init == waiting = <<>> /\ sent = <<>>

Accept(f) ==
    /\ Len(waiting) + Len(sent) < Capacity
    /\ waiting' = Append(waiting, f)
    /\ UNCHANGED sent

Transmit ==
    /\ waiting # <<>>
    /\ sent' = Append(sent, Head(waiting))
    /\ waiting' = Tail(waiting)

Confirm ==
    /\ sent # <<>>
    /\ sent' = Tail(sent)
    /\ UNCHANGED waiting

Next == (\E f \in Frames : Accept(f)) \/ Transmit \/ Confirm

Spec == Init /\ [][Next]_vars

=============================================================================
