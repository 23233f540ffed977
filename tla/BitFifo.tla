------------------------------- MODULE BitFifo ------------------------------
(***************************************************************************)
(* What the bit stream buffer of a codec instance promises: a bounded      *)
(* first-in first-out queue of bytes between the client and the VPU.       *)
(* Bytes are numbered in the order they were produced, modulo Numbers.     *)
(***************************************************************************)
EXTENDS Naturals, Sequences

CONSTANTS
    Streams,   \* the streams
    Capacity,  \* the bytes a buffer can hold
    Numbers    \* byte numbers are kept modulo this, more than Capacity

VARIABLES
    next,      \* the number of the next byte
    q          \* the bytes in the buffer

Init ==
    /\ next \in [Streams -> 0 .. Numbers - 1]
    /\ q = [s \in Streams |-> << >>]

(* The next n bytes are appended.                                          *)
Put(s, n) ==
    /\ Len(q[s]) + n <= Capacity
    /\ q' = [q EXCEPT ![s] = @ \o [k \in 1 .. n |-> (next[s] + k - 1) % Numbers]]
    /\ next' = [next EXCEPT ![s] = (@ + n) % Numbers]

(* The first n bytes are taken.                                            *)
Take(s, n) ==
    /\ n <= Len(q[s])
    /\ q' = [q EXCEPT ![s] = SubSeq(@, n + 1, Len(@))]
    /\ UNCHANGED next

(* The buffer is given up for a new stream.                                *)
Clear(s) ==
    /\ q' = [q EXCEPT ![s] = << >>]
    /\ UNCHANGED next

Next ==
    \E s \in Streams :
        (\E n \in 1 .. Capacity : Put(s, n) \/ Take(s, n)) \/ Clear(s)

Spec == Init /\ [][Next]_<<next, q>>

=============================================================================
