---------------------------- MODULE CanTransmit ----------------------------
(***************************************************************************)
(* The transmit side of a node's MCP2515.  sendMessage loads the first of  *)
(* three buffers that is free; when none is, it returns ERROR_ALLTXBUSY,   *)
(* and Communication::sendFrame prints the error and forgets the frame.    *)
(* The buffers have the same priority, and of those the chip sends the one *)
(* with the highest number first: two frames that wait may be swapped.     *)
(***************************************************************************)
EXTENDS Integers, Sequences, FiniteSetsExt

\* What a buffer that is not pending holds.
NoFrame == [type |-> "none"]

\* TXB0, TXB1 and TXB2.
TXBuffers == 0 .. 2

NothingPending == [b \in TXBuffers |-> NoFrame]

\* The buffers whose TXB_TXREQ is set.
Pending(tx) == {b \in TXBuffers : tx[b] # NoFrame}

\* ERROR_ALLTXBUSY
AllTxBusy(tx) == Pending(tx) = TXBuffers

\* Mutant: the first buffer is loaded, pending or not.
OverwritesFirst(tx, frame) == [tx EXCEPT ![0] = frame]

\* sendFrame
SendFrame(tx, frame) ==
    IF AllTxBusy(tx) THEN tx ELSE [tx EXCEPT ![Min(TXBuffers \ Pending(tx))] = frame]

\* sendFrame for the frame at i, if there is one.
SendFrameAt(tx, frames, i) == IF i <= Len(frames) THEN SendFrame(tx, frames[i]) ELSE tx

\* sendFrame for one frame after the other: after three no buffer is free, and the rest is lost.
SendFrames(tx, frames) ==
    SendFrameAt(SendFrameAt(SendFrameAt(tx, frames, 1), frames, 2), frames, 3)

\* External: the buffer that the chip sends next, when all have been waiting.
NextOnBus(tx) == Max(Pending(tx))

\* External: the buffers after the frame in b has been sent.
AfterSending(tx, b) == [tx EXCEPT ![b] = NoFrame]
=============================================================================
