---------------------------- MODULE BoundedFifo ----------------------------
(***************************************************************************)
(* What the receive path expects of can_frame_stream: a first-in first-out *)
(* queue that refuses a frame when it holds Capacity of them.              *)
(***************************************************************************)
EXTENDS Integers, Sequences

CONSTANTS
    Frame,      \* the frames that are stored
    Capacity    \* how many fit

VARIABLES
    queue,      \* the frames stored, oldest first
    out         \* what the last call returned: its frames, <<>> for 0

vars == <<queue, out>>

Init == queue = <<>> /\ out = <<>>

\* put() returns 1 and stores the frame, or 0 when the queue is full.
Put(f) ==
    \/ /\ Len(queue) < Capacity
       /\ queue' = Append(queue, f)
       /\ out' = <<f>>
    \/ /\ Len(queue) = Capacity
       /\ queue' = queue
       /\ out' = <<>>

\* get() returns 1 and the oldest frame, or 0 when there is none.
Get ==
    \/ /\ queue # <<>>
       /\ queue' = Tail(queue)
       /\ out' = <<Head(queue)>>
    \/ /\ queue = <<>>
       /\ queue' = queue
       /\ out' = <<>>

Next == Get \/ \E f \in Frame : Put(f)

Spec == Init /\ [][Next]_vars
=============================================================================
