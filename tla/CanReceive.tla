----------------------------- MODULE CanReceive -----------------------------
(***************************************************************************)
(* The receive path of a node: the two receive buffers of the MCP2515, the *)
(* interrupt handler that empties them into cf_stream, and loop(), which   *)
(* empties cf_stream.  cf_stream is the ring buffer of FrameStream.         *)
(* Frames arrive between any two SPI transactions of the handler.  The     *)
(* handler interrupts loop() anywhere but inside its cli() sections, and   *)
(* loop() does not run while the handler does.  The flags mcp2515_overflow *)
(* and arduino_overflow only select a message to print and are left out.   *)
(***************************************************************************)
EXTENDS Integers, Sequences

CONSTANTS
    buffsize,   \* slots of cf_stream, 10 in the code
    MaxFrames   \* bound: how many frames ever arrive

ASSUME BuffsizeAssumption == buffsize \in Nat \ {0}
ASSUME MaxFramesAssumption == MaxFrames \in Nat

VARIABLES
    arrived,    \* frames that have arrived, each gets a number
    rx,         \* the frame in RXB0 and RXB1, its RXnIF flag set; or None
    ovr,        \* a receive overflow flag of EFLG
    errors,     \* the error flags of CANINTF: ERRIF, MERRF
    edge,       \* the falling edge of the INT pin that the handler has not served
    irqPc,      \* where irqHandler is
    irq,        \* the receive flags that getInterrupts returned
    cf_buffer,  \* cf_stream: its slots,
    read_index, \*   the next slot to read,
    write_index,\*   the next slot to write,
    write_lock, \*   and that it is full
    out,        \* what the last call of cf_stream returned
    interrupt,  \* the handler's note to loop()
    loopPc,     \* where loop() is
    processed,  \* history: the frames that reached Communication::received
    disturbed   \* history: a frame overflowed, or came while the handler ran

chipVars == <<arrived, rx, ovr, errors, disturbed>>
streamVars == <<cf_buffer, read_index, write_index, write_lock, out>>
vars == <<chipVars, edge, irqPc, irq, streamVars, interrupt, loopPc, processed>>

Frames == 1 .. MaxFrames
None == 0

Stream == INSTANCE FrameStream WITH Frame <- 0 .. MaxFrames, Zeros <- None

(***************************************************************************)
(* External: CANINTE enables both receive interrupts, the error interrupt  *)
(* and the message error interrupt, and INT is low while any flag is set.  *)
(***************************************************************************)
PinLow == rx[0] # None \/ rx[1] # None \/ errors # {}

\* attachInterrupt(0, irqHandler, FALLING): the edge is remembered until served.
EdgeAfter == edge \/ (~PinLow /\ PinLow')

Init ==
    /\ arrived = 0
    /\ rx = [b \in {0, 1} |-> None]
    /\ ovr = FALSE
    /\ errors = {}
    /\ edge = FALSE
    /\ irqPc = "off"
    /\ irq = {}
    /\ Stream!Init
    /\ interrupt = FALSE
    /\ loopPc = "top"
    /\ processed = <<>>
    /\ disturbed = FALSE

----------------------------------------------------------------------------
(***************************************************************************)
(* External: a frame arrives.  RXB0 rolls over to RXB1; with both full the *)
(* frame is lost and the overflow raises the error interrupt.              *)
(***************************************************************************)
FrameArrives ==
    /\ arrived < MaxFrames
    /\ arrived' = arrived + 1
    /\ IF \E b \in {0, 1} : rx[b] = None
       THEN /\ rx' = [rx EXCEPT ![IF rx[0] = None THEN 0 ELSE 1] = arrived']
            /\ disturbed' = (disturbed \/ irqPc # "off")
            /\ UNCHANGED <<ovr, errors>>
       ELSE /\ ovr' = TRUE
            /\ errors' = errors \union {"ERRIF"}
            /\ disturbed' = TRUE
            /\ UNCHANGED rx
    /\ edge' = EdgeAfter
    /\ UNCHANGED <<irqPc, irq, streamVars, interrupt, loopPc, processed>>

(***************************************************************************)
(* External: a corrupted frame on the bus, sent by this node or by another *)
(* (MERRF), or an error counter of the chip that reaches the warning or    *)
(* the passive level (ERRIF).                                              *)
(***************************************************************************)
BusError ==
    /\ \E flag \in {"ERRIF", "MERRF"} \ errors : errors' = errors \union {flag}
    /\ UNCHANGED <<arrived, rx, ovr, disturbed, irqPc, irq, streamVars, interrupt,
                   loopPc, processed>>
    /\ edge' = EdgeAfter

----------------------------------------------------------------------------
\* The interrupt is taken, at most one handler at a time.
IrqEnter ==
    /\ irqPc = "off" /\ edge
    /\ edge' = FALSE
    /\ irqPc' = "flags0"
    /\ UNCHANGED <<chipVars, irq, streamVars, interrupt, loopPc, processed>>

\* getInterrupts: which of the buffers hold a frame.
GetInterrupts(from, to) ==
    /\ irqPc = from
    /\ irq' = {b \in {0, 1} : rx[b] # None}
    /\ irqPc' = to
    /\ UNCHANGED <<chipVars, edge, streamVars, interrupt, loopPc, processed>>

\* Mutant: only the buffer that raised the interrupt is looked at.
SkipsBuffer1(b) == b = 0 /\ b \in irq

\* The handler reads buffer b.
ReadsBuffer(b) == b \in irq

\* Mutant: RXnIF is not cleared, the frame stays in the buffer.
FrameKept(b) == rx

\* readMessage clears RXnIF once the frame is copied.
FrameTakenFrom(b) == [rx EXCEPT ![b] = None]

\* readMessage and put, or nothing when the flag was clear; a full ring drops the frame.
CheckBuffer(b, from, to) ==
    /\ irqPc = from
    /\ irqPc' = to
    /\ IF ReadsBuffer(b)
       THEN /\ Stream!Put(rx[b])
            /\ rx' = FrameTakenFrom(b)
            /\ UNCHANGED <<arrived, ovr, errors, disturbed>>
            /\ edge' = EdgeAfter
       ELSE UNCHANGED <<chipVars, edge, streamVars>>
    /\ UNCHANGED <<irq, interrupt, loopPc, processed>>

(***************************************************************************)
(* getErrorFlags and clearRXnOVRFlags.  Nothing ever clears ERRIF or MERRF:*)
(* the call of clearInterrupts is commented out.                           *)
(***************************************************************************)
ClearOverflow ==
    /\ irqPc = "errors"
    /\ ovr' = FALSE
    /\ irqPc' = "notify"
    /\ UNCHANGED <<arrived, rx, errors, disturbed, edge, irq, streamVars, interrupt,
                   loopPc, processed>>

\* interrupt = true, and the handler returns.
Notify ==
    /\ irqPc = "notify"
    /\ interrupt' = TRUE
    /\ irqPc' = "off"
    /\ UNCHANGED <<chipVars, edge, irq, streamVars, loopPc, processed>>

IrqHandler ==
    \/ IrqEnter
    \/ GetInterrupts("flags0", "buffer0")
    \/ CheckBuffer(0, "buffer0", "flags1")
    \/ GetInterrupts("flags1", "buffer1")
    \/ CheckBuffer(1, "buffer1", "errors")
    \/ ClearOverflow
    \/ Notify

----------------------------------------------------------------------------
\* loop() finds the flag set.
SeesInterrupt ==
    /\ loopPc = "top" /\ interrupt
    /\ loopPc' = "clear"
    /\ UNCHANGED interrupt

\* interrupt = false, before the ring is emptied.
ClearsInterrupt ==
    /\ loopPc = "clear"
    /\ interrupt' = FALSE
    /\ loopPc' = "drain"

\* Mutant: one frame is taken for each interrupt.
GoesOn == "top"

\* while (has_data): loop() tries again after a frame.
TriesAgain == "drain"

\* One cf_stream.get between cli() and sei(), then received(frame).
DrainsStream ==
    /\ loopPc = "drain"
    /\ Stream!GetFrame
    /\ processed' = processed \o out'
    /\ loopPc' = TriesAgain
    /\ UNCHANGED interrupt

\* cf_stream.get found nothing: loop() goes on.
StreamEmpty ==
    /\ loopPc = "drain"
    /\ Stream!GetEmpty
    /\ loopPc' = "top"
    /\ UNCHANGED <<interrupt, processed>>

\* loop() runs while the handler does not.
Loop ==
    /\ irqPc = "off"
    /\ \/ (SeesInterrupt \/ ClearsInterrupt) /\ UNCHANGED <<streamVars, processed>>
       \/ DrainsStream
       \/ StreamEmpty
    /\ UNCHANGED <<chipVars, edge, irqPc, irq>>

Next == FrameArrives \/ BusError \/ IrqHandler \/ Loop

Spec == Init /\ [][Next]_vars

\* The processor runs the handler when it is due and loop() otherwise.
Fairness == WF_vars(IrqHandler) /\ WF_vars(Loop)

FairSpec == Spec /\ Fairness

----------------------------------------------------------------------------
\* The type invariant; the indices of the ring stay inside it.
TypeOK ==
    /\ arrived \in 0 .. MaxFrames
    /\ rx \in [{0, 1} -> 0 .. MaxFrames]
    /\ ovr \in BOOLEAN /\ errors \in SUBSET {"ERRIF", "MERRF"} /\ edge \in BOOLEAN
    /\ irqPc \in {"off", "flags0", "buffer0", "flags1", "buffer1", "errors", "notify"}
    /\ irq \in SUBSET {0, 1}
    /\ Stream!TypeOK
    /\ interrupt \in BOOLEAN
    /\ loopPc \in {"top", "clear", "drain"}
    /\ processed \in Seq(0 .. MaxFrames)
    /\ disturbed \in BOOLEAN

(***************************************************************************)
(* No lost wakeup between irqHandler and loop(): while a frame is in the   *)
(* ring, the flag is set, or loop() is about to empty the ring, or the     *)
(* handler is about to set the flag.                                       *)
(***************************************************************************)
NoLostWakeup ==
    Stream!HasFrame => interrupt \/ loopPc \in {"clear", "drain"} \/ irqPc # "off"

(***************************************************************************)
(* A frame is processed once: no two of the places a frame goes through,   *)
(* the receive buffers, the ring and received(), hold the same frame.      *)
(***************************************************************************)
ProcessedOnce ==
    LET taken == Stream!Contents \o processed
    IN  /\ \A i, j \in 1 .. Len(taken) : i # j => taken[i] # taken[j]
        /\ \A b \in {0, 1} : rx[b] # None =>
             /\ rx[1 - b] # rx[b]
             /\ \A i \in 1 .. Len(taken) : taken[i] # rx[b]

(***************************************************************************)
(* As long as no frame overflowed, none came while the handler ran and the *)
(* chip saw no error, a frame in a receive buffer has the handler's        *)
(* attention: one run of irqHandler empties both buffers and so raises the *)
(* INT pin again.  After the first error the pin stays low for ever, and   *)
(* no frame that comes later raises an interrupt.                          *)
(***************************************************************************)
BuffersWatched ==
    ~disturbed /\ errors = {} /\ (\E b \in {0, 1} : rx[b] # None) => edge \/ irqPc # "off"

\* A frame that is in the ring is processed, if the processor keeps running.
StreamDrains == Stream!HasFrame ~> ~Stream!HasFrame

(***************************************************************************)
(* The ring is a bounded first-in first-out queue to irqHandler and loop():*)
(* put refuses exactly when it is full, get returns the frames in the      *)
(* order they were put, and none is overwritten or returned twice.         *)
(***************************************************************************)
ImplementsFifo == Stream!ImplementsFifo
=============================================================================
