---------------------------- MODULE FrameStream ----------------------------
(***************************************************************************)
(* can_frame_stream: the ring buffer between the CAN interrupt handler,    *)
(* which puts, and loop(), which gets with interrupts disabled, so every   *)
(* call is one step.  read_index = write_index means empty or full, told   *)
(* apart by write_lock.                                                    *)
(***************************************************************************)
EXTENDS Integers, Sequences

CONSTANTS
    Frame,      \* can_frame values
    Zeros,      \* the can_frame that is all zeros
    buffsize    \* slots of the ring, 10 in the code

\* The parameters that a ring can have.
Parameters == buffsize \in Nat \ {0} /\ Zeros \in Frame

VARIABLES
    cf_buffer,      \* the slots
    read_index,     \* the next slot to read
    write_index,    \* the next slot to write
    write_lock,     \* the ring is full
    out             \* what the last call returned: its frames, <<>> for 0

vars == <<cf_buffer, read_index, write_index, write_lock, out>>

Slots == 0 .. buffsize - 1

\* The ring is a static object, so its slots are zeroed.
Init ==
    /\ cf_buffer = [s \in Slots |-> Zeros]
    /\ read_index = 0
    /\ write_index = 0
    /\ write_lock = FALSE
    /\ out = <<>>

\* The index after i in the ring.
NextIndex(i) == (i + 1) % buffsize

\* Mutant: the ring is never marked full.
NeverLocks(w) == write_lock

\* write_lock after a put that leaves the write index at w.
LockAfterPut(w) == IF w = read_index THEN TRUE ELSE write_lock

PutFull(f) ==
    /\ write_lock
    /\ out' = <<>>
    /\ UNCHANGED <<cf_buffer, read_index, write_index, write_lock>>

PutStored(f) ==
    /\ ~write_lock
    /\ cf_buffer' = [cf_buffer EXCEPT ![write_index] = f]
    /\ write_index' = NextIndex(write_index)
    /\ write_lock' = LockAfterPut(NextIndex(write_index))
    /\ out' = <<f>>
    /\ UNCHANGED read_index

Put(f) == PutFull(f) \/ PutStored(f)

\* get() will return a frame.
HasFrame == write_lock \/ read_index # write_index

GetEmpty ==
    /\ ~HasFrame
    /\ out' = <<>>
    /\ UNCHANGED <<cf_buffer, read_index, write_index, write_lock>>

GetFrame ==
    /\ HasFrame
    /\ write_lock' = IF write_lock /\ read_index = write_index THEN FALSE ELSE write_lock
    /\ out' = <<cf_buffer[read_index]>>
    /\ read_index' = NextIndex(read_index)
    /\ UNCHANGED <<cf_buffer, write_index>>

Get == GetEmpty \/ GetFrame

Next == Get \/ \E f \in Frame : Put(f)

Spec == Init /\ [][Next]_vars

----------------------------------------------------------------------------
\* The type invariant: the indices stay inside the ring.
TypeOK ==
    /\ cf_buffer \in [Slots -> Frame]
    /\ read_index \in Slots
    /\ write_index \in Slots
    /\ write_lock \in BOOLEAN
    /\ out \in {<<>>} \union {<<f>> : f \in Frame}

(***************************************************************************)
(* The ring is marked full only when the indices meet; otherwise the slots *)
(* from read_index up to write_index hold the frames.                      *)
(***************************************************************************)
LockInv == write_lock => read_index = write_index

\* The number of frames in the ring.
Stored ==
    IF write_lock THEN buffsize
    ELSE IF read_index <= write_index THEN write_index - read_index
    ELSE write_index - read_index + buffsize

\* The slot that is i places after the oldest frame.
SlotAt(i) ==
    IF read_index + i < buffsize THEN read_index + i ELSE read_index + i - buffsize

Contents == [i \in 1 .. Stored |-> cf_buffer[SlotAt(i - 1)]]

Fifo == INSTANCE BoundedFifo WITH
          Capacity <- buffsize, queue <- Contents, out <- out

(***************************************************************************)
(* The ring implements the bounded queue: put refuses exactly when it is   *)
(* full, get returns the frames in the order they were put, and no frame   *)
(* that was accepted is overwritten or returned twice.                     *)
(***************************************************************************)
ImplementsFifo == Fifo!Spec
=============================================================================
