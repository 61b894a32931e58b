----------------------------- MODULE NodeProofs -----------------------------
(***************************************************************************)
(* Two parts of a node: the way of a frame into it, and the exchange of    *)
(* proposals in the optimisation.                                          *)
(*                                                                         *)
(* First: the ring implements the bounded queue.  No frame is forgotten in *)
(* it, and none in the receive buffers as long as no frame interferes with *)
(* the handler and the chip sees no error; no frame is processed twice;    *)
(* for every size of the ring and every number of frames.                  *)
(*                                                                         *)
(* Second: as long as frames are neither mixed nor crowded, the averages   *)
(* of the optimisation are pure and the set-points are adopted together;   *)
(* for every number of nodes, entries in a frame, iterations and runs.     *)
(***************************************************************************)
EXTENDS CanReceive, Consensus, SequenceTheorems, FiniteSetTheorems, TLAPS


\* The part of the type invariant that the argument needs.
ReceiveType ==
    /\ rx \in [{0, 1} -> 0 .. MaxFrames]
    /\ errors \in SUBSET {"ERRIF", "MERRF"} /\ edge \in BOOLEAN /\ interrupt \in BOOLEAN
    /\ disturbed \in BOOLEAN
    /\ arrived \in 0 .. MaxFrames
    /\ irq \in SUBSET {0, 1}

Full == {b \in {0, 1} : rx[b] # None}

(***************************************************************************)
(* What an undisturbed run of irqHandler has achieved at each of its       *)
(* places: the flags it read still describe the buffers, buffer 0 is empty *)
(* after the first read and both are after the second.                     *)
(***************************************************************************)
HandlerProgress ==
    /\ irqPc = "off" => (Full # {} => edge)
    /\ irqPc = "buffer0" => irq = Full
    /\ irqPc = "flags1" => rx[0] = None
    /\ irqPc = "buffer1" => rx[0] = None /\ irq = Full
    /\ irqPc \in {"errors", "notify"} => Full = {}

\* The inductive invariant.
ReceiveInv ==
    /\ ReceiveType
    /\ NoLostWakeup
    /\ ~disturbed /\ errors = {} => HandlerProgress

\* A node starts with empty buffers and an empty ring.
LEMMA InitReceiveInv == Init => ReceiveInv
<1> SUFFICES ASSUME Init PROVE ReceiveInv
  OBVIOUS
<1>1. ReceiveType
  BY MaxFramesAssumption DEF Init, ReceiveType, None
<1>2. NoLostWakeup
  BY DEF Init, NoLostWakeup, Stream!Init, Stream!HasFrame
<1>3. HandlerProgress
  BY DEF Init, HandlerProgress, Full
<1>4. QED
  BY <1>1, <1>2, <1>3 DEF ReceiveInv

\* A frame that arrives while the handler is off raises an edge, or finds one.
LEMMA FrameArrivesInv ==
  ASSUME ReceiveInv, FrameArrives
  PROVE  ReceiveInv'
<1> USE MaxFramesAssumption DEF ReceiveInv
<1>1. ReceiveType'
  <2>1. arrived' \in 0 .. MaxFrames
    BY DEF FrameArrives, ReceiveType
  <2>2. rx' \in [{0, 1} -> 0 .. MaxFrames]
    BY <2>1 DEF FrameArrives, ReceiveType
  <2>3. errors' \in SUBSET {"ERRIF", "MERRF"} /\ disturbed' \in BOOLEAN
    BY DEF FrameArrives, ReceiveType
  <2>4. edge' \in BOOLEAN
    BY Zenon DEF FrameArrives, EdgeAfter
  <2>5. interrupt' = interrupt /\ irq' = irq
    BY DEF FrameArrives
  <2>6. QED
    BY <2>1, <2>2, <2>3, <2>4, <2>5 DEF ReceiveType
<1>2. NoLostWakeup'
  BY DEF FrameArrives, NoLostWakeup, streamVars, Stream!HasFrame
<1>3. ASSUME ~disturbed', errors' = {} PROVE HandlerProgress'
  <2>1. ~disturbed /\ irqPc = "off" /\ irqPc' = "off" /\ errors = {}
    BY <1>3 DEF FrameArrives, ReceiveType
  <2>2. CASE Full = {}
    <3>1. ~PinLow
      BY <2>1, <2>2 DEF PinLow, Full
    <3>2. rx' = [rx EXCEPT ![0] = arrived'] /\ arrived' # None
      BY <2>2, <1>3 DEF FrameArrives, Full, ReceiveType, None
    <3>3. PinLow'
      BY <3>2 DEF PinLow, ReceiveType
    <3>4. edge'
      BY <3>1, <3>3 DEF FrameArrives, EdgeAfter
    <3>5. QED
      BY <2>1, <3>4 DEF HandlerProgress
  <2>3. CASE Full # {}
    <3>1. edge
      BY <2>1, <2>3 DEF HandlerProgress
    <3>2. edge'
      BY <3>1 DEF FrameArrives, EdgeAfter
    <3>3. QED
      BY <2>1, <3>2 DEF HandlerProgress
  <2>4. QED
    BY <2>2, <2>3
<1>4. QED
  BY <1>1, <1>2, <1>3

\* From the first error of the chip on nothing is promised of the buffers.
LEMMA BusErrorInv ==
  ASSUME ReceiveInv, BusError
  PROVE  ReceiveInv'
<1>1. errors' # {} /\ errors' \in SUBSET {"ERRIF", "MERRF"}
  BY DEF BusError, ReceiveInv, ReceiveType
<1>2. edge' \in BOOLEAN
  BY Zenon DEF BusError, EdgeAfter
<1>3. ReceiveType'
  BY <1>1, <1>2 DEF BusError, ReceiveInv, ReceiveType
<1>4. NoLostWakeup'
  BY DEF BusError, ReceiveInv, NoLostWakeup, streamVars, Stream!HasFrame
<1>5. QED
  BY <1>1, <1>3, <1>4 DEF ReceiveInv

\* Every step of irqHandler makes the progress that its place promises.
LEMMA IrqHandlerInv ==
  ASSUME ReceiveInv, IrqHandler
  PROVE  ReceiveInv'
<1> USE DEF ReceiveInv
<1>1. CASE IrqEnter
  BY <1>1 DEF IrqEnter, chipVars, streamVars, ReceiveType, NoLostWakeup, HandlerProgress
<1>2. ASSUME GetInterrupts("flags0", "buffer0") PROVE ReceiveInv'
  BY <1>2 DEF GetInterrupts, chipVars, streamVars, ReceiveType, NoLostWakeup,
              HandlerProgress, Full
<1>3. ASSUME CheckBuffer(0, "buffer0", "flags1") PROVE ReceiveInv'
  <2>1. CASE 0 \in irq
    <3>1. /\ rx' = [rx EXCEPT ![0] = None] /\ irqPc = "buffer0" /\ irqPc' = "flags1"
          /\ UNCHANGED <<arrived, errors, disturbed, irq, interrupt, loopPc>>
      BY <1>3, <2>1 DEF CheckBuffer, ReadsBuffer, FrameTakenFrom
    <3>2. edge' \in BOOLEAN
      BY Zenon, <1>3, <2>1 DEF CheckBuffer, ReadsBuffer, EdgeAfter
    <3>3. ReceiveType'
      BY <3>1, <3>2, MaxFramesAssumption DEF ReceiveType, None
    <3>4. NoLostWakeup'
      BY <3>1 DEF NoLostWakeup
    <3>5. ~disturbed /\ errors = {} => HandlerProgress'
      BY <3>1 DEF HandlerProgress, ReceiveType, Full
    <3>6. QED
      BY <3>1, <3>3, <3>4, <3>5
  <2>2. CASE 0 \notin irq
    BY <1>3, <2>2 DEF CheckBuffer, ReadsBuffer, chipVars, streamVars, ReceiveType,
                      NoLostWakeup, HandlerProgress, Full, None
  <2>3. QED
    BY <2>1, <2>2
<1>4. ASSUME GetInterrupts("flags1", "buffer1") PROVE ReceiveInv'
  BY <1>4 DEF GetInterrupts, chipVars, streamVars, ReceiveType, NoLostWakeup,
              HandlerProgress, Full
<1>5. ASSUME CheckBuffer(1, "buffer1", "errors") PROVE ReceiveInv'
  <2>1. CASE 1 \in irq
    <3>1. /\ rx' = [rx EXCEPT ![1] = None] /\ irqPc = "buffer1" /\ irqPc' = "errors"
          /\ UNCHANGED <<arrived, errors, disturbed, irq, interrupt, loopPc>>
      BY <1>5, <2>1 DEF CheckBuffer, ReadsBuffer, FrameTakenFrom
    <3>2. edge' \in BOOLEAN
      BY Zenon, <1>5, <2>1 DEF CheckBuffer, ReadsBuffer, EdgeAfter
    <3>3. ReceiveType'
      BY <3>1, <3>2, MaxFramesAssumption DEF ReceiveType, None
    <3>4. NoLostWakeup'
      BY <3>1 DEF NoLostWakeup
    <3>5. ~disturbed /\ errors = {} => HandlerProgress'
      BY <3>1 DEF HandlerProgress, ReceiveType, Full
    <3>6. QED
      BY <3>1, <3>3, <3>4, <3>5
  <2>2. CASE 1 \notin irq
    BY <1>5, <2>2 DEF CheckBuffer, ReadsBuffer, chipVars, streamVars, ReceiveType,
                      NoLostWakeup, HandlerProgress, Full, None
  <2>3. QED
    BY <2>1, <2>2
<1>6. CASE ClearOverflow
  BY <1>6 DEF ClearOverflow, streamVars, ReceiveType, NoLostWakeup, HandlerProgress, Full
<1>7. CASE Notify
  BY <1>7 DEF Notify, chipVars, streamVars, ReceiveType, NoLostWakeup, HandlerProgress, Full
<1>8. QED
  BY <1>1, <1>2, <1>3, <1>4, <1>5, <1>6, <1>7 DEF IrqHandler

\* loop() clears the flag before it empties the ring, and leaves only an empty ring.
LEMMA LoopInv ==
  ASSUME ReceiveInv, Loop
  PROVE  ReceiveInv'
<1>1. UNCHANGED <<arrived, rx, ovr, errors, disturbed, edge, irqPc, irq>>
  BY DEF Loop, chipVars
<1>2. interrupt' \in BOOLEAN /\ NoLostWakeup'
  <2>1. CASE SeesInterrupt \/ ClearsInterrupt
    BY <2>1 DEF ReceiveInv, ReceiveType, NoLostWakeup, SeesInterrupt, ClearsInterrupt,
                streamVars, Stream!HasFrame
  <2>2. CASE DrainsStream
    BY <2>2 DEF ReceiveInv, ReceiveType, NoLostWakeup, DrainsStream, TriesAgain
  <2>3. CASE StreamEmpty
    BY <2>3 DEF ReceiveInv, ReceiveType, NoLostWakeup, StreamEmpty, Stream!GetEmpty,
                Stream!HasFrame
  <2>4. QED
    BY <2>1, <2>2, <2>3 DEF Loop
<1>3. QED
  BY <1>1, <1>2 DEF ReceiveInv, ReceiveType, HandlerProgress, Full

\* The invariant is inductive.
LEMMA NextReceiveInv == ReceiveInv /\ [Next]_vars => ReceiveInv'
<1>1. ReceiveInv /\ UNCHANGED vars => ReceiveInv'
  BY DEF vars, chipVars, streamVars, ReceiveInv, ReceiveType, NoLostWakeup,
         HandlerProgress, Full, Stream!HasFrame
<1>2. QED
  BY <1>1, FrameArrivesInv, BusErrorInv, IrqHandlerInv, LoopInv DEF Next

(***************************************************************************)
(* irqHandler and loop() never lose a wakeup: a frame in cf_stream is      *)
(* always going to be noticed.                                             *)
(***************************************************************************)
THEOREM ReceiveNoLostWakeup == Spec => []NoLostWakeup
<1>1. ReceiveInv => NoLostWakeup
  BY DEF ReceiveInv
<1>2. QED
  BY <1>1, InitReceiveInv, NextReceiveInv, PTL DEF Spec

(***************************************************************************)
(* Until a frame overflows or arrives during irqHandler, or the chip sees  *)
(* an error, a frame in a receive buffer has an interrupt pending or the   *)
(* handler running.                                                        *)
(***************************************************************************)
THEOREM ReceiveBuffersWatched == Spec => []BuffersWatched
<1>1. ReceiveInv => BuffersWatched
  BY DEF ReceiveInv, HandlerProgress, Full, BuffersWatched
<1>2. QED
  BY <1>1, InitReceiveInv, NextReceiveInv, PTL DEF Spec

----------------------------------------------------------------------------
(***************************************************************************)
(* The ring alone, called in any order: a put or a get is one step.        *)
(***************************************************************************)

\* The ring has slots, and numbers for frames.
LEMMA RingParameters == Stream!Parameters
  BY BuffsizeAssumption, MaxFramesAssumption DEF Stream!Parameters, None

\* One step around the ring.
LEMMA Advance ==
  ASSUME NEW i \in Stream!Slots
  PROVE  Stream!NextIndex(i) = IF i + 1 = buffsize THEN 0 ELSE i + 1
  BY RingParameters DEF Stream!Parameters, Stream!Slots, Stream!NextIndex

RingInv == Stream!TypeOK /\ Stream!LockInv

\* setup() leaves an empty, unlocked ring.
LEMMA InitRingInv ==
  ASSUME Stream!Init
  PROVE  RingInv
<1>1. cf_buffer \in [Stream!Slots -> 0 .. MaxFrames]
  BY RingParameters DEF Stream!Parameters, Stream!Init
<1>2. 0 \in Stream!Slots
  BY RingParameters DEF Stream!Parameters, Stream!Slots
<1>3. QED
  BY <1>1, <1>2, Zenon DEF Stream!Init, RingInv, Stream!TypeOK, Stream!LockInv

\* put and get keep the indices in the ring and the lock consistent.
LEMMA NextRingInv ==
  ASSUME RingInv, [Stream!Next]_(Stream!vars)
  PROVE  RingInv'
<1> USE RingParameters DEF Stream!Parameters
<1>1. /\ Stream!NextIndex(read_index) \in Stream!Slots
      /\ Stream!NextIndex(write_index) \in Stream!Slots
  <2>1. read_index \in Stream!Slots /\ write_index \in Stream!Slots
    BY DEF RingInv, Stream!TypeOK
  <2>2. \A i \in Stream!Slots : (IF i + 1 = buffsize THEN 0 ELSE i + 1) \in Stream!Slots
    BY DEF Stream!Slots
  <2>3. QED
    BY <2>1, <2>2, Advance
<1>2. ASSUME NEW f \in 0 .. MaxFrames, Stream!PutFull(f) PROVE RingInv'
  BY <1>2 DEF Stream!PutFull, RingInv, Stream!TypeOK, Stream!LockInv
<1>3. ASSUME NEW f \in 0 .. MaxFrames, Stream!PutStored(f) PROVE RingInv'
  BY <1>1, <1>3 DEF Stream!PutStored, Stream!LockAfterPut, RingInv, Stream!TypeOK, Stream!LockInv
<1>4. CASE Stream!GetEmpty
  BY <1>4 DEF Stream!GetEmpty, Stream!HasFrame, RingInv, Stream!TypeOK, Stream!LockInv
<1>5. CASE Stream!GetFrame
  BY <1>1, <1>5 DEF Stream!GetFrame, Stream!HasFrame, RingInv, Stream!TypeOK, Stream!LockInv
<1>6. CASE UNCHANGED Stream!vars
  BY <1>6 DEF Stream!vars, RingInv, Stream!TypeOK, Stream!LockInv
<1>7. QED
  BY <1>2, <1>3, <1>4, <1>5, <1>6 DEF Stream!Next, Stream!Put, Stream!Get

\* The indices stay in the ring and the lock is set only when they meet.
LEMMA StreamInvariant == Stream!Spec => []RingInv
<1>1. Stream!Init => RingInv
  BY InitRingInv
<1>2. RingInv /\ [Stream!Next]_(Stream!vars) => RingInv'
  BY NextRingInv
<1>3. QED
  BY <1>1, <1>2, PTL DEF Stream!Spec

\* The indices of can_frame_stream stay inside cf_buffer, for every buffsize.
THEOREM RingTypeOK == Stream!Spec => []Stream!TypeOK
<1>1. RingInv => Stream!TypeOK
  BY DEF RingInv
<1>2. QED
  BY <1>1, StreamInvariant, PTL

\* The contents are a sequence of Stored frames.
IsContents ==
    /\ Stream!Stored \in 0 .. buffsize
    /\ Stream!Contents \in Seq(0 .. MaxFrames) /\ Len(Stream!Contents) = Stream!Stored
    /\ \A i \in 1 .. Stream!Stored : Stream!Contents[i] = cf_buffer[Stream!SlotAt(i - 1)]

\* What the ring holds is a sequence of at most buffsize frames.
LEMMA ContentsType == RingInv => IsContents
<1> SUFFICES ASSUME RingInv PROVE IsContents
  OBVIOUS
<1> USE RingParameters DEF Stream!Parameters
<1>1. Stream!Stored \in 0 .. buffsize
  BY DEF RingInv, Stream!TypeOK, Stream!Slots, Stream!Stored
<1>2. ASSUME NEW i \in 1 .. Stream!Stored PROVE Stream!SlotAt(i - 1) \in Stream!Slots
  BY <1>1 DEF RingInv, Stream!TypeOK, Stream!Slots, Stream!SlotAt
<1>3. Stream!Contents \in [1 .. Stream!Stored -> 0 .. MaxFrames]
  BY <1>2 DEF Stream!Contents, RingInv, Stream!TypeOK
<1>4. QED
  BY <1>1, <1>2, <1>3 DEF Stream!Contents, IsContents

\* A put into a ring that is not full appends to its contents.
LEMMA PutStoredRefines ==
  ASSUME RingInv, NEW f \in 0 .. MaxFrames, Stream!PutStored(f)
  PROVE  Stream!Fifo!Put(f)
<1> USE RingParameters DEF Stream!Parameters
<1>0. RingInv'
  BY NextRingInv DEF Stream!Next, Stream!Put
<1>9. IsContents /\ IsContents'
  BY <1>0, ContentsType, PTL
<1>1. Stream!Stored < buffsize /\ Stream!Stored \in Nat
  BY DEF RingInv, Stream!TypeOK, Stream!LockInv, Stream!PutStored, Stream!Stored, Stream!Slots
<1>2. Stream!Stored' = Stream!Stored + 1
  <2>1. /\ ~write_lock /\ read_index' = read_index
        /\ write_index' = IF write_index + 1 = buffsize THEN 0 ELSE write_index + 1
        /\ read_index \in 0 .. buffsize - 1 /\ write_index \in 0 .. buffsize - 1
    BY Advance DEF RingInv, Stream!TypeOK, Stream!PutStored, Stream!Slots
  <2>2. write_lock' <=> write_index' = read_index
    BY DEF Stream!PutStored, Stream!LockAfterPut
  <2>3. CASE write_index' = read_index
    BY <2>1, <2>2, <2>3 DEF Stream!Stored
  <2>4. CASE write_index' # read_index
    BY <2>1, <2>2, <2>4 DEF Stream!Stored
  <2>5. QED
    BY <2>3, <2>4
<1>3. Stream!SlotAt(Stream!Stored) = write_index
  BY DEF RingInv, Stream!TypeOK, Stream!LockInv, Stream!PutStored, Stream!Stored,
         Stream!SlotAt, Stream!Slots
<1>4. ASSUME NEW i \in 0 .. Stream!Stored - 1
      PROVE  Stream!SlotAt(i) # write_index /\ Stream!SlotAt(i) \in Stream!Slots
  BY <1>1 DEF RingInv, Stream!TypeOK, Stream!LockInv, Stream!PutStored, Stream!Stored,
              Stream!SlotAt, Stream!Slots
<1>5. \A i \in 0 .. Stream!Stored : Stream!SlotAt(i)' = Stream!SlotAt(i)
  BY DEF Stream!PutStored, Stream!SlotAt
<1>6. Stream!Contents' = Append(Stream!Contents, f)
  <2>1. Stream!Contents' \in Seq(0 .. MaxFrames) /\ Len(Stream!Contents') = Stream!Stored + 1
    BY <1>9, <1>2 DEF IsContents
  <2>2. Stream!Contents \in Seq(0 .. MaxFrames) /\ Len(Stream!Contents) = Stream!Stored
    BY <1>9 DEF IsContents
  <2>3. /\ Append(Stream!Contents, f) \in Seq(0 .. MaxFrames)
        /\ Len(Append(Stream!Contents, f)) = Stream!Stored + 1
    BY <2>2
  <2>4. ASSUME NEW i \in 1 .. Stream!Stored + 1
        PROVE  Stream!Contents'[i] = Append(Stream!Contents, f)[i]
    <3>1. Stream!Contents'[i] = cf_buffer'[Stream!SlotAt(i - 1)']
      BY <1>9, <1>2 DEF IsContents
    <3>2. Stream!SlotAt(i - 1)' = Stream!SlotAt(i - 1)
      BY <1>1, <1>5
    <3>3. CASE i = Stream!Stored + 1
      <4>1. Stream!SlotAt(i - 1) = write_index
        BY <3>3, <1>1, <1>3
      <4>2. cf_buffer'[write_index] = f
        BY DEF Stream!PutStored, RingInv, Stream!TypeOK
      <4>3. Append(Stream!Contents, f)[i] = f
        BY <3>3, <2>2
      <4>4. QED
        BY <3>1, <3>2, <4>1, <4>2, <4>3
    <3>4. CASE i \in 1 .. Stream!Stored
      <4>1. cf_buffer'[Stream!SlotAt(i - 1)] = cf_buffer[Stream!SlotAt(i - 1)]
        BY <3>4, <1>1, <1>4 DEF Stream!PutStored, RingInv, Stream!TypeOK
      <4>2. Stream!Contents[i] = cf_buffer[Stream!SlotAt(i - 1)]
        BY <3>4, <1>9 DEF IsContents
      <4>3. Append(Stream!Contents, f)[i] = Stream!Contents[i]
        BY <3>4, <2>2
      <4>4. QED
        BY <3>1, <3>2, <4>1, <4>2, <4>3
    <3>5. i = Stream!Stored + 1 \/ i \in 1 .. Stream!Stored
      BY <1>1
    <3>6. QED
      BY <3>3, <3>4, <3>5, Zenon
  <2>5. QED
    BY <2>1, <2>3, <2>4, SeqEqual
<1>7. Len(Stream!Contents) < buffsize
  BY <1>1, <1>9 DEF IsContents
<1>8. QED
  BY <1>6, <1>7 DEF Stream!PutStored, Stream!Fifo!Put

\* A get from a ring that is not empty takes its oldest frame.
LEMMA GetFrameRefines ==
  ASSUME RingInv, Stream!GetFrame
  PROVE  Stream!Fifo!Get
<1> USE RingParameters DEF Stream!Parameters
<1>0. RingInv'
  BY NextRingInv DEF Stream!Next, Stream!Get
<1>1. IsContents /\ IsContents'
  BY <1>0, ContentsType, PTL
<1>2. /\ read_index' = IF read_index + 1 = buffsize THEN 0 ELSE read_index + 1
      /\ write_index' = write_index /\ ~write_lock' /\ cf_buffer' = cf_buffer
      /\ read_index \in 0 .. buffsize - 1 /\ write_index \in 0 .. buffsize - 1
      /\ out' = <<cf_buffer[read_index]>>
  BY Advance DEF RingInv, Stream!TypeOK, Stream!LockInv, Stream!GetFrame, Stream!HasFrame,
                 Stream!Slots
<1>3. Stream!Stored \in 1 .. buffsize /\ Stream!Stored' = Stream!Stored - 1
  <2>1. CASE write_lock
    BY <1>2, <2>1 DEF Stream!Stored, RingInv, Stream!LockInv
  <2>2. CASE ~write_lock /\ read_index # write_index
    BY <1>2, <2>2 DEF Stream!Stored
  <2>3. QED
    BY <2>1, <2>2 DEF Stream!GetFrame, Stream!HasFrame
<1>4. Stream!Contents # <<>> /\ Head(Stream!Contents) = cf_buffer[read_index]
  BY <1>1, <1>2, <1>3 DEF IsContents, Stream!SlotAt
<1>5. Stream!Contents' = Tail(Stream!Contents)
  <2>1. Stream!Contents' \in Seq(0 .. MaxFrames) /\ Len(Stream!Contents') = Stream!Stored - 1
    BY <1>1, <1>3 DEF IsContents
  <2>2. Stream!Contents \in Seq(0 .. MaxFrames) /\ Len(Stream!Contents) = Stream!Stored
    BY <1>1 DEF IsContents
  <2>3. /\ Tail(Stream!Contents) \in Seq(0 .. MaxFrames)
        /\ Len(Tail(Stream!Contents)) = Stream!Stored - 1
    BY <1>4, <2>2, HeadTailProperties
  <2>4. ASSUME NEW i \in 1 .. Stream!Stored - 1
        PROVE  Stream!Contents'[i] = Tail(Stream!Contents)[i]
    <3>1. i \in 1 .. Stream!Stored' /\ i + 1 \in 1 .. Stream!Stored
      BY <1>3
    <3>2. /\ Stream!Contents'[i] = cf_buffer[Stream!SlotAt(i - 1)']
          /\ Stream!Contents[i + 1] = cf_buffer[Stream!SlotAt(i + 1 - 1)]
      BY <1>1, <1>2, <3>1 DEF IsContents
    <3>3. Stream!SlotAt(i - 1)' = Stream!SlotAt(i + 1 - 1)
      BY <1>2, <1>3 DEF Stream!SlotAt
    <3>4. Tail(Stream!Contents)[i] = Stream!Contents[i + 1]
      BY <1>4, <2>2, <1>3, HeadTailProperties
    <3>5. QED
      BY <3>2, <3>3, <3>4
  <2>5. QED
    BY <2>1, <2>3, <2>4, SeqEqual
<1>6. QED
  BY <1>2, <1>4, <1>5 DEF Stream!Fifo!Get

\* The ring is empty at first.
LEMMA InitRefinesFifo ==
  ASSUME Stream!Init
  PROVE  Stream!Fifo!Init
<1>1. RingInv /\ IsContents
  BY InitRingInv, ContentsType
<1>2. Len(Stream!Contents) = 0
  BY <1>1 DEF IsContents, Stream!Init, Stream!Stored
<1>3. QED
  BY <1>1, <1>2 DEF IsContents, Stream!Init, Stream!Fifo!Init

\* Every call of the ring is a call of the queue.
LEMMA StepRefinesFifo ==
  ASSUME RingInv, [Stream!Next]_(Stream!vars)
  PROVE  [Stream!Fifo!Next]_(Stream!Fifo!vars)
<1> SUFFICES Stream!Fifo!Next \/ UNCHANGED Stream!Fifo!vars
  OBVIOUS
<1> USE RingParameters DEF Stream!Parameters
<1>0. IsContents
  BY ContentsType
<1>2. ASSUME UNCHANGED <<cf_buffer, read_index, write_index, write_lock>>
      PROVE  Stream!Contents' = Stream!Contents
  BY <1>2 DEF Stream!Contents, Stream!Stored, Stream!SlotAt
<1>3. ASSUME NEW f \in 0 .. MaxFrames, Stream!PutFull(f) PROVE Stream!Fifo!Put(f)
  <2>1. Stream!Contents' = Stream!Contents
    BY <1>2, <1>3 DEF Stream!PutFull
  <2>2. Len(Stream!Contents) = buffsize
    BY <1>0, <1>3 DEF IsContents, Stream!PutFull, Stream!Stored
  <2>3. QED
    BY <2>1, <2>2, <1>3 DEF Stream!PutFull, Stream!Fifo!Put
<1>4. ASSUME Stream!GetEmpty PROVE Stream!Fifo!Get
  <2>1. Stream!Contents' = Stream!Contents
    BY <1>2, <1>4 DEF Stream!GetEmpty, Stream!HasFrame
  <2>2. Stream!Contents = <<>>
    <3>1. Len(Stream!Contents) = 0
      BY <1>0, <1>4 DEF IsContents, Stream!GetEmpty, Stream!HasFrame, Stream!Stored, RingInv,
                        Stream!TypeOK, Stream!Slots
    <3>2. QED
      BY <3>1, <1>0 DEF IsContents
  <2>3. QED
    BY <2>1, <2>2, <1>4 DEF Stream!GetEmpty, Stream!HasFrame, Stream!Fifo!Get
<1>5. CASE UNCHANGED Stream!vars
  BY <1>5, <1>2 DEF Stream!vars, Stream!Fifo!vars
<1>6. QED
  BY <1>3, <1>4, <1>5, PutStoredRefines, GetFrameRefines
  DEF Stream!Next, Stream!Put, Stream!Get, Stream!Fifo!Next

(***************************************************************************)
(* can_frame_stream is a bounded first-in first-out queue, for every       *)
(* buffsize: nothing accepted is lost, reordered or returned twice.        *)
(***************************************************************************)
THEOREM RingImplementsFifo == Stream!Spec => Stream!ImplementsFifo
<1>1. Stream!Init => Stream!Fifo!Init
  BY InitRefinesFifo
<1>2. RingInv /\ [Stream!Next]_(Stream!vars) => [Stream!Fifo!Next]_(Stream!Fifo!vars)
  BY StepRefinesFifo
<1>3. QED
  BY <1>1, <1>2, StreamInvariant, PTL DEF Stream!Spec, Stream!ImplementsFifo, Stream!Fifo!Spec

----------------------------------------------------------------------------
\* What irqHandler and loop() do to the ring are puts and gets.
LEMMA StepIsRingStep ==
  ASSUME ReceiveInv, [Next]_vars
  PROVE  [Stream!Next]_(Stream!vars)
<1>1. ASSUME NEW f \in 0 .. MaxFrames, Stream!Put(f) PROVE Stream!Next
  BY <1>1 DEF Stream!Next
<1>2. Stream!GetFrame \/ Stream!GetEmpty => Stream!Next
  BY DEF Stream!Next, Stream!Get
<1>3. UNCHANGED streamVars => UNCHANGED Stream!vars
  BY DEF streamVars, Stream!vars
<1>4. ASSUME NEW b \in {0, 1}, NEW from, NEW to, CheckBuffer(b, from, to)
      PROVE  Stream!Next \/ UNCHANGED streamVars
  <2>1. rx[b] \in 0 .. MaxFrames
    BY DEF ReceiveInv, ReceiveType
  <2>2. QED
    BY <1>1, <1>4, <2>1 DEF CheckBuffer
<1>5. IrqHandler => Stream!Next \/ UNCHANGED streamVars
  BY <1>4 DEF IrqHandler, IrqEnter, GetInterrupts, ClearOverflow, Notify
<1>6. Loop => Stream!Next \/ UNCHANGED streamVars
  BY <1>2 DEF Loop, DrainsStream, StreamEmpty
<1>7. FrameArrives \/ BusError => UNCHANGED streamVars
  BY DEF FrameArrives, BusError
<1>8. UNCHANGED vars => UNCHANGED streamVars
  BY DEF vars
<1>9. QED
  BY <1>3, <1>5, <1>6, <1>7, <1>8 DEF Next

\* The receive path keeps the invariant of the ring.
LEMMA RingInvariant == Spec => []RingInv
<1>1. Init => RingInv
  BY InitRingInv DEF Init
<1>2. ReceiveInv /\ RingInv /\ [Next]_vars => RingInv'
  BY StepIsRingStep, NextRingInv
<1>3. QED
  BY <1>1, <1>2, InitReceiveInv, NextReceiveInv, PTL DEF Spec

(***************************************************************************)
(* The ring that irqHandler and loop() share is a bounded first-in         *)
(* first-out queue, for every size and however they interleave.            *)
(***************************************************************************)
THEOREM ReceiveImplementsFifo == Spec => ImplementsFifo
<1>1. Init => Stream!Fifo!Init
  BY InitRefinesFifo DEF Init
<1>2. ReceiveInv /\ RingInv /\ [Next]_vars => [Stream!Fifo!Next]_(Stream!Fifo!vars)
  BY StepIsRingStep, StepRefinesFifo
<1>3. QED
  BY <1>1, <1>2, RingInvariant, InitReceiveInv, NextReceiveInv, PTL
  DEF Spec, ImplementsFifo, Stream!ImplementsFifo, Stream!Fifo!Spec

\* What the type invariant says beyond the two invariants above.
RestType ==
    /\ ovr \in BOOLEAN
    /\ irqPc \in {"off", "flags0", "buffer0", "flags1", "buffer1", "errors", "notify"}
    /\ loopPc \in {"top", "clear", "drain"}
    /\ processed \in Seq(0 .. MaxFrames)

\* Every step keeps the rest of the types.
LEMMA NextRestType ==
  ASSUME ReceiveInv, RingInv', RestType, [Next]_vars
  PROVE  RestType'
<1>1. CASE FrameArrives \/ BusError
  BY <1>1 DEF FrameArrives, BusError, RestType
<1>2. CASE IrqHandler
  BY <1>2 DEF IrqHandler, IrqEnter, GetInterrupts, CheckBuffer, ClearOverflow, Notify,
              chipVars, RestType
<1>3. CASE Loop
  <2>1. ovr' = ovr /\ irqPc' = irqPc
    BY <1>3 DEF Loop, chipVars
  <2>2. CASE SeesInterrupt \/ ClearsInterrupt \/ StreamEmpty
    BY <1>3, <2>1, <2>2 DEF Loop, SeesInterrupt, ClearsInterrupt, StreamEmpty, DrainsStream,
                            RestType
  <2>3. CASE DrainsStream
    <3>1. out' \in Seq(0 .. MaxFrames)
      <4>1. out' \in {<<>>} \union {<<f>> : f \in 0 .. MaxFrames}
        BY DEF RingInv, Stream!TypeOK
      <4>2. \A f \in 0 .. MaxFrames : <<f>> \in Seq(0 .. MaxFrames)
        OBVIOUS
      <4>3. <<>> \in Seq(0 .. MaxFrames)
        OBVIOUS
      <4>4. QED
        BY <4>1, <4>2, <4>3, Zenon
    <3>2. QED
      BY <2>1, <2>3, <3>1 DEF DrainsStream, TriesAgain, RestType
  <2>4. QED
    BY <1>3, <2>2, <2>3 DEF Loop
<1>4. CASE UNCHANGED vars
  BY <1>4 DEF vars, chipVars, RestType
<1>5. QED
  BY <1>1, <1>2, <1>3, <1>4 DEF Next

(***************************************************************************)
(* The indices of the ring and the state of the handler and loop() keep    *)
(* their types, for every size of the ring.                                *)
(***************************************************************************)
THEOREM ReceiveTypeOK == Spec => []TypeOK
<1>1. Init => RestType
  BY DEF Init, RestType
<1>2. ReceiveInv /\ RingInv' /\ RestType /\ [Next]_vars => RestType'
  BY NextRestType
<1>3. ReceiveInv /\ RingInv /\ RestType => TypeOK
  BY DEF ReceiveInv, ReceiveType, RestType, RingInv, TypeOK
<1>4. QED
  BY <1>1, <1>2, <1>3, RingInvariant, InitReceiveInv, NextReceiveInv, PTL DEF Spec

----------------------------------------------------------------------------
(***************************************************************************)
(* A frame goes through the buffers, the ring and received() once.         *)
(***************************************************************************)
Contents == Stream!Contents

\* The frames of s are different and none is newer than the last that arrived.
Distinct(s) ==
    /\ \A i, j \in 1 .. Len(s) : i # j => s[i] # s[j]
    /\ \A i \in 1 .. Len(s) : s[i] <= arrived

Disjoint(s, t) == \A i \in 1 .. Len(s), j \in 1 .. Len(t) : s[i] # t[j]

\* No frame of s is in a receive buffer.
NotWaiting(s) ==
    \A b \in {0, 1} : rx[b] # None => \A i \in 1 .. Len(s) : s[i] # rx[b]

(***************************************************************************)
(* The frames in each place are different, the places share none, and the  *)
(* handler reads a buffer only while it holds a frame.                     *)
(***************************************************************************)
OnceInv ==
    /\ Distinct(Contents) /\ Distinct(processed) /\ Disjoint(Contents, processed)
    /\ NotWaiting(Contents) /\ NotWaiting(processed)
    /\ \A b \in {0, 1} : rx[b] <= arrived /\ (rx[b] # None => rx[1 - b] # rx[b])
    /\ irqPc \in {"buffer0", "buffer1"} => \A b \in irq : rx[b] # None

\* What the proofs below know of the state.
Base == ReceiveInv /\ RingInv /\ RestType

\* The sequences a frame goes through, and the buffers, are of numbers of frames.
LEMMA SequenceTypes ==
  ASSUME Base
  PROVE  /\ Contents \in Seq(0 .. MaxFrames) /\ processed \in Seq(0 .. MaxFrames)
         /\ arrived \in Nat /\ rx \in [{0, 1} -> 0 .. MaxFrames]
<1>1. Contents \in Seq(0 .. MaxFrames)
  BY ContentsType DEF Base, IsContents, Contents
<1>2. QED
  BY <1>1, MaxFramesAssumption DEF Base, RestType, ReceiveInv, ReceiveType

\* What a step that leaves the ring and received() alone keeps.
LEMMA PlacesKept ==
  ASSUME Base, OnceInv, UNCHANGED streamVars, processed' = processed,
         arrived' \in Nat, arrived <= arrived',
         \A b \in {0, 1} : rx'[b] # None => rx'[b] = rx[b] \/ rx'[b] > arrived
  PROVE  /\ Distinct(Contents)' /\ Distinct(processed)' /\ Disjoint(Contents, processed)'
         /\ NotWaiting(Contents)' /\ NotWaiting(processed)'
<1>1. Contents' = Contents
  BY DEF streamVars, Contents, Stream!Contents, Stream!Stored, Stream!SlotAt
<1>2. /\ \A i \in 1 .. Len(Contents) : Contents[i] \in Nat
      /\ \A i \in 1 .. Len(processed) : processed[i] \in Nat
      /\ arrived \in Nat
  BY SequenceTypes, ElementOfSeq, MaxFramesAssumption
<1> HIDE DEF Contents
<1>3. Distinct(Contents)' /\ Distinct(processed)' /\ Disjoint(Contents, processed)'
  BY <1>1, <1>2 DEF OnceInv, Distinct, Disjoint
<1>4. ASSUME NEW s, s \in {Contents, processed}, NEW b \in {0, 1}, rx'[b] # None,
             NEW i \in 1 .. Len(s)
      PROVE  s[i] # rx'[b]
  BY <1>2, <1>4 DEF OnceInv, Distinct, NotWaiting
<1>5. QED
  BY <1>1, <1>3, <1>4 DEF NotWaiting

\* put leaves the contents or appends the frame.
LEMMA PutContents ==
  ASSUME Base, NEW f \in 0 .. MaxFrames, Stream!Put(f)
  PROVE  Contents' = Contents \/ Contents' = Append(Contents, f)
<1>1. CASE Stream!PutFull(f)
  BY <1>1 DEF Stream!PutFull, Contents, Stream!Contents, Stream!Stored, Stream!SlotAt
<1>2. CASE Stream!PutStored(f)
  <2>1. Stream!Fifo!Put(f)
    BY <1>2, PutStoredRefines DEF Base
  <2>2. QED
    BY <2>1 DEF Stream!Fifo!Put, Contents
<1>3. QED
  BY <1>1, <1>2 DEF Stream!Put

\* get takes the first frame from the contents.
LEMMA GetContents ==
  ASSUME Base, Stream!GetFrame
  PROVE  Contents # <<>> /\ Contents' = Tail(Contents) /\ out' = <<Head(Contents)>>
<1>1. Stream!Fifo!Get
  BY GetFrameRefines DEF Base
<1>2. out' # <<>>
  BY DEF Stream!GetFrame
<1>3. QED
  BY <1>1, <1>2 DEF Stream!Fifo!Get, Contents

\* A frame that arrives is newer than all others.
LEMMA FrameArrivesOnce ==
  ASSUME Base, OnceInv, FrameArrives
  PROVE  OnceInv'
<1>1. /\ arrived \in Nat /\ arrived' = arrived + 1 /\ processed' = processed
      /\ rx \in [{0, 1} -> 0 .. MaxFrames] /\ UNCHANGED streamVars
      /\ irq' = irq /\ irqPc' = irqPc /\ irq \in SUBSET {0, 1}
  BY SequenceTypes DEF FrameArrives, Base, ReceiveInv, ReceiveType
<1>2. \A b \in {0, 1} : rx'[b] = rx[b] \/ (rx[b] = None /\ rx'[b] = arrived + 1)
  BY <1>1 DEF FrameArrives
<1>3. \A b \in {0, 1} : rx'[b] = arrived + 1 => rx'[1 - b] = rx[1 - b]
  <2>1. \A b \in {0, 1} : rx[b] <= arrived
    BY DEF OnceInv
  <2>2. QED
    BY <1>1, <2>1 DEF FrameArrives
<1>4. \A b \in {0, 1} : rx'[b] <= arrived' /\ (rx'[b] # None => rx'[1 - b] # rx'[b])
  BY <1>1, <1>2, <1>3 DEF OnceInv, None
<1>5. irqPc' \in {"buffer0", "buffer1"} => \A b \in irq' : rx'[b] # None
  BY <1>1, <1>2 DEF OnceInv, None
<1>6. /\ Distinct(Contents)' /\ Distinct(processed)' /\ Disjoint(Contents, processed)'
      /\ NotWaiting(Contents)' /\ NotWaiting(processed)'
  BY <1>1, <1>2, PlacesKept
<1>7. QED
  BY <1>4, <1>5, <1>6 DEF OnceInv

\* readMessage moves a frame from its buffer to the end of the ring.
LEMMA CheckBufferOnce ==
  ASSUME Base, OnceInv, NEW b \in {0, 1}, NEW from \in {"buffer0", "buffer1"},
         NEW to \in {"flags1", "errors"}, CheckBuffer(b, from, to)
  PROVE  OnceInv'
<1>1. /\ arrived \in Nat /\ arrived' = arrived /\ processed' = processed
      /\ rx \in [{0, 1} -> 0 .. MaxFrames] /\ irqPc = from /\ irqPc' = to
  BY SequenceTypes DEF CheckBuffer, chipVars
<1>2. \A c \in {0, 1} : rx'[c] # None => rx'[c] = rx[c]
  BY <1>1 DEF CheckBuffer, FrameTakenFrom, chipVars
<1>3. \A c \in {0, 1} : rx'[c] <= arrived /\ (rx'[c] # None => rx'[1 - c] # rx'[c])
  <2>1. \A c \in {0, 1} : rx'[c] = None \/ rx'[c] = rx[c]
    BY <1>2
  <2>2. QED
    BY <1>1, <2>1 DEF OnceInv, None
<1>4. CASE UNCHANGED streamVars
  <2>1. /\ Distinct(Contents)' /\ Distinct(processed)' /\ Disjoint(Contents, processed)'
        /\ NotWaiting(Contents)' /\ NotWaiting(processed)'
    BY <1>1, <1>2, <1>4, PlacesKept
  <2>2. QED
    BY <1>1, <1>3, <2>1 DEF OnceInv
<1>5. CASE b \in irq /\ Stream!Put(rx[b]) /\ rx' = [rx EXCEPT ![b] = None]
  <2> DEFINE f == rx[b]
             C == Contents
  <2>1. f \in 0 .. MaxFrames /\ f # None /\ f <= arrived /\ rx[1 - b] # f /\ f \in Nat
    BY <1>1, <1>5, MaxFramesAssumption DEF OnceInv
  <2>2. /\ C \in Seq(0 .. MaxFrames) /\ processed \in Seq(0 .. MaxFrames)
    BY SequenceTypes
  <2>3. C' = C \/ C' = Append(C, f)
    BY <1>5, <2>1, PutContents
  <2>4. /\ Distinct(C) /\ Distinct(processed) /\ Disjoint(C, processed)
        /\ NotWaiting(C) /\ NotWaiting(processed)
    BY DEF OnceInv
  <2> HIDE DEF C
  <2>5. /\ Len(C) \in Nat
        /\ \A i \in 1 .. Len(C) : C[i] # f /\ C[i] <= arrived
        /\ \A i \in 1 .. Len(processed) : processed[i] # f
    BY <2>1, <2>2, <2>4 DEF NotWaiting, Distinct
  <2>6. \A i \in 1 .. Len(C') : (i \in 1 .. Len(C) /\ C'[i] = C[i]) \/ (i = Len(C) + 1 /\ C'[i] = f)
    BY <2>2, <2>3, <2>5
  <2>7. Distinct(C)'
    BY <1>1, <2>1, <2>4, <2>5, <2>6 DEF Distinct
  <2>8. Distinct(processed)' /\ Disjoint(C, processed)'
    BY <1>1, <2>4, <2>5, <2>6 DEF Distinct, Disjoint
  <2>9. \A c \in {0, 1} : rx'[c] # None => c = 1 - b /\ rx'[c] = rx[c] /\ rx[c] # f
    BY <1>1, <1>5, <2>1
  <2>10. NotWaiting(C)' /\ NotWaiting(processed)'
    BY <1>1, <2>4, <2>6, <2>9 DEF NotWaiting
  <2>11. QED
    BY <1>1, <1>3, <2>7, <2>8, <2>10 DEF OnceInv, C
<1>6. QED
  BY <1>4, <1>5 DEF CheckBuffer, ReadsBuffer, FrameTakenFrom

\* loop() moves the first frame of the ring to received().
LEMMA DrainsStreamOnce ==
  ASSUME Base, OnceInv, DrainsStream, UNCHANGED <<chipVars, edge, irqPc, irq>>
  PROVE  OnceInv'
<1> DEFINE C == Contents
           P == processed
<1>1. C # <<>> /\ C' = Tail(C) /\ P' = P \o <<Head(C)>>
  BY GetContents DEF DrainsStream
<1>2. C \in Seq(0 .. MaxFrames) /\ P \in Seq(0 .. MaxFrames)
  BY SequenceTypes
<1>3. /\ Distinct(C) /\ Distinct(P) /\ Disjoint(C, P) /\ NotWaiting(C) /\ NotWaiting(P)
      /\ rx' = rx /\ arrived' = arrived
  BY DEF OnceInv, chipVars
<1> HIDE DEF C, P
<1>4. /\ Len(C) \in Nat \ {0} /\ Len(C') = Len(C) - 1
      /\ \A i \in 1 .. Len(C') : i + 1 \in 2 .. Len(C) /\ C'[i] = C[i + 1]
  BY <1>1, <1>2, HeadTailProperties, EmptySeq
<1>5. /\ Len(P) \in Nat
      /\ \A i \in 1 .. Len(P') : \/ i \in 1 .. Len(P) /\ P'[i] = P[i]
                                 \/ i = Len(P) + 1 /\ P'[i] = C[1]
  <2>1. Head(C) = C[1] /\ Head(C) \in 0 .. MaxFrames
    <3>1. 1 \in 1 .. Len(C)
      BY <1>4
    <3>2. C[1] \in 0 .. MaxFrames
      BY <3>1, <1>2, ElementOfSeq
    <3>3. QED
      BY <1>2, <1>4, <3>2, HeadTailProperties, EmptySeq
  <2>2. P' = Append(P, Head(C))
    BY <1>1, <1>2, <2>1
  <2>3. QED
    BY <1>2, <2>1, <2>2
<1>6. 1 \in 1 .. Len(C)
  BY <1>4
<1>7. Distinct(C)'
  BY <1>3, <1>4 DEF Distinct
<1>8. Distinct(P)'
  BY <1>3, <1>5, <1>6 DEF Distinct, Disjoint
<1>9. Disjoint(C, P)'
  <2> SUFFICES ASSUME NEW i \in 1 .. Len(C'), NEW j \in 1 .. Len(P') PROVE C'[i] # P'[j]
    BY DEF Disjoint
  <2>1. i + 1 \in 1 .. Len(C) /\ i + 1 # 1 /\ C'[i] = C[i + 1]
    BY <1>4
  <2>2. C[i + 1] # C[1]
    BY <2>1, <1>6, <1>3 DEF Distinct
  <2>3. \A k \in 1 .. Len(P) : C[i + 1] # P[k]
    BY <2>1, <1>3 DEF Disjoint
  <2>4. QED
    BY <2>1, <2>2, <2>3, <1>5
<1>10. NotWaiting(C)'
  <2>1. \A i \in 1 .. Len(C') : i + 1 \in 1 .. Len(C) /\ C'[i] = C[i + 1]
    BY <1>4
  <2>2. QED
    BY <2>1, <1>3 DEF NotWaiting
<1>11. NotWaiting(P)'
  BY <1>3, <1>5, <1>6 DEF NotWaiting
<1>12. QED
  BY <1>7, <1>8, <1>9, <1>10, <1>11 DEF OnceInv, chipVars, C, P

\* No step duplicates a frame.
LEMMA NextOnceInv ==
  ASSUME Base, OnceInv, [Next]_vars
  PROVE  OnceInv'
<1>1. arrived \in Nat
  BY SequenceTypes
<1>2. ASSUME UNCHANGED <<arrived, rx, streamVars, processed>>,
             irqPc' \in {"buffer0", "buffer1"} => \A b \in irq' : rx[b] # None
      PROVE  OnceInv'
  BY <1>1, <1>2, PlacesKept DEF OnceInv
<1>3. CASE FrameArrives
  BY <1>3, FrameArrivesOnce
<1>8. CASE BusError
  BY <1>2, <1>8 DEF BusError, OnceInv
<1>4. CASE IrqHandler
  <2>1. CASE IrqEnter
    BY <1>2, <2>1 DEF IrqEnter, chipVars
  <2>2. ASSUME NEW from, NEW to, GetInterrupts(from, to) PROVE OnceInv'
    BY <1>2, <2>2 DEF GetInterrupts, chipVars
  <2>3. CASE ClearOverflow \/ Notify
    BY <1>2, <2>3 DEF ClearOverflow, Notify, chipVars
  <2>4. QED
    BY <1>4, <2>1, <2>2, <2>3, CheckBufferOnce DEF IrqHandler
<1>5. CASE Loop
  <2>1. CASE DrainsStream
    BY <1>5, <2>1, DrainsStreamOnce DEF Loop
  <2>2. CASE StreamEmpty
    <3>1. Contents' = Contents
      BY <2>2 DEF StreamEmpty, Stream!GetEmpty, Contents, Stream!Contents, Stream!Stored,
                  Stream!SlotAt
    <3>2. UNCHANGED <<arrived, rx, irqPc, irq, processed>>
      BY <1>5, <2>2 DEF Loop, StreamEmpty, chipVars
    <3>3. QED
      BY <3>1, <3>2 DEF OnceInv, Distinct, Disjoint, NotWaiting
  <2>3. CASE (SeesInterrupt \/ ClearsInterrupt) /\ UNCHANGED <<streamVars, processed>>
    <3>1. irqPc' = irqPc /\ irq' = irq /\ arrived' = arrived /\ rx' = rx
      BY <1>5 DEF Loop, chipVars
    <3>2. QED
      BY <2>3, <3>1, <1>2 DEF OnceInv
  <2>4. QED
    BY <1>5, <2>1, <2>2, <2>3 DEF Loop
<1>6. CASE UNCHANGED vars
  BY <1>2, <1>6 DEF vars, chipVars, OnceInv
<1>7. QED
  BY <1>3, <1>4, <1>5, <1>6, <1>8 DEF Next

(***************************************************************************)
(* Every frame is processed once, for every size of the ring, every number *)
(* of frames and however they interleave with the handler and loop().      *)
(***************************************************************************)
THEOREM ReceiveProcessedOnce == Spec => []ProcessedOnce
<1>1. Init => OnceInv
  <2> SUFFICES ASSUME Init PROVE OnceInv
    OBVIOUS
  <2>1. Stream!Fifo!Init
    BY InitRefinesFifo DEF Init
  <2>2. Contents = <<>> /\ processed = <<>>
    BY <2>1 DEF Stream!Fifo!Init, Contents, Init
  <2> HIDE DEF Contents
  <2>3. Len(<<>>) = 0
    OBVIOUS
  <2>4. \A b \in {0, 1} : rx[b] = None
    BY DEF Init
  <2>5. QED
    BY <2>2, <2>3, <2>4 DEF Init, OnceInv, Distinct, Disjoint, NotWaiting, None
<1>2. Base /\ OnceInv => ProcessedOnce
  <2> SUFFICES ASSUME Base, OnceInv PROVE ProcessedOnce
    OBVIOUS
  <2> DEFINE taken == Contents \o processed
  <2>1. Stream!Contents = Contents
    BY DEF Contents
  <2>2. Contents \in Seq(0 .. MaxFrames) /\ processed \in Seq(0 .. MaxFrames)
    BY SequenceTypes
  <2> HIDE DEF Contents
  <2>3. /\ Len(Contents) \in Nat /\ Len(processed) \in Nat
        /\ Len(taken) = Len(Contents) + Len(processed)
        /\ \A i \in 1 .. Len(taken) :
             \/ i \in 1 .. Len(Contents) /\ taken[i] = Contents[i]
             \/ i - Len(Contents) \in 1 .. Len(processed)
                  /\ taken[i] = processed[i - Len(Contents)]
    BY <2>2
  <2> HIDE DEF taken
  <2>4. /\ Distinct(Contents) /\ Distinct(processed) /\ Disjoint(Contents, processed)
        /\ NotWaiting(Contents) /\ NotWaiting(processed)
    BY DEF OnceInv
  <2>5. ASSUME NEW i \in 1 .. Len(taken), NEW j \in 1 .. Len(taken), i # j
        PROVE  taken[i] # taken[j]
    <3>1. CASE i \in 1 .. Len(Contents) /\ taken[i] = Contents[i]
      BY <3>1, <2>3, <2>4, <2>5 DEF Distinct, Disjoint
    <3>2. CASE /\ i - Len(Contents) \in 1 .. Len(processed)
               /\ taken[i] = processed[i - Len(Contents)]
      <4>1. CASE j \in 1 .. Len(Contents) /\ taken[j] = Contents[j]
        BY <3>2, <4>1, <2>4 DEF Disjoint
      <4>2. CASE /\ j - Len(Contents) \in 1 .. Len(processed)
                 /\ taken[j] = processed[j - Len(Contents)]
        <5>1. i - Len(Contents) # j - Len(Contents)
          BY <2>3, <2>5
        <5>2. QED
          BY <3>2, <4>2, <5>1, <2>4 DEF Distinct
      <4>3. QED
        BY <4>1, <4>2, <2>3
    <3>3. QED
      BY <3>1, <3>2, <2>3
  <2>6. \A b \in {0, 1} : rx[b] # None => \A i \in 1 .. Len(taken) : taken[i] # rx[b]
    BY <2>3, <2>4 DEF NotWaiting
  <2>7. QED
    BY <2>1, <2>5, <2>6 DEF ProcessedOnce, OnceInv, taken
<1>3. Base /\ OnceInv /\ [Next]_vars => OnceInv'
  BY NextOnceInv
<1>4. Init => RestType
  BY DEF Init, RestType
<1>5. ReceiveInv /\ RingInv' /\ RestType /\ [Next]_vars => RestType'
  BY NextRestType
<1>6. Base <=> ReceiveInv /\ RingInv /\ RestType
  BY DEF Base
<1>7. QED
  BY <1>1, <1>2, <1>3, <1>4, <1>5, <1>6, RingInvariant, InitReceiveInv, NextReceiveInv, PTL
  DEF Spec

----------------------------------------------------------------------------
(***************************************************************************)
(* The optimisation.                                                       *)
(***************************************************************************)

\* The frames of a proposal.
Parts == 0 .. NumMessages - 1

\* The frame with part i of the proposal of m in iteration k of run r.
ProposalFrame(r, m, i, k) ==
    [type |-> "CONSENSUS", from |-> m, msgI |-> i, run |-> r, iter |-> k]

\* What n has to count in iteration k.
Awaited(r, n, k) == {ProposalFrame(r, m, i, k) : m \in Nodes \ {n}, i \in Parts}

\* A frame that sendConsensusDutyCycle sends.
IsProposal(f) == f.type = "CONSENSUS"

(***************************************************************************)
(* How far the nodes are: an exchange of proposals in run r, when node n   *)
(* has completed done[n] iterations and sent its proposals for sent[n];    *)
(* what waits in the buffers, what is in the path to n, and what n has     *)
(* counted in the iteration it is in.                                      *)
(***************************************************************************)
InStepWith(done, sent) ==
    \A n \in Nodes :
      /\ done[n] \in Nat /\ sent[n] \in {done[n], done[n] + 1}
      /\ \A m \in Nodes : done[m] <= sent[n]

\* Only a proposal that fits the transmit buffers arrives whole.
FitsBuffers(done) == \A n \in Nodes : done[n] > 0 /\ NumNodes > 1 => Parts \subseteq TXBuffers

\* What waits for the bus is of the last proposal, and no other node is past it.
LastWaits(r, done, sent, buffers) ==
    \A m \in Nodes, b \in TXBuffers : IsProposal(buffers[m][b]) =>
      /\ b \in Parts /\ sent[m] > 0
      /\ buffers[m][b] = ProposalFrame(r, m, b, sent[m] - 1)
      /\ \A n \in Nodes \ {m} : done[n] < sent[m]

\* A frame that has gone over the bus, and is of no iteration that n has completed.
Arrived(r, done, sent, buffers, n, f) ==
    /\ f = ProposalFrame(r, f.from, f.msgI, f.iter)
    /\ f.from \in Nodes \ {n} /\ f.msgI \in Parts \cap TXBuffers /\ f.iter \in Nat
    /\ done[n] <= f.iter /\ f.iter < sent[f.from]
    /\ buffers[f.from][f.msgI] # f

\* Such frames are what n has counted and what is in its path, each of them once.
ArrivedOnce(r, done, sent, buffers, path, got) ==
    \A n \in Nodes :
      /\ IsFiniteSet(got[n])
      /\ \A f \in got[n] : Arrived(r, done, sent, buffers, n, f)
      /\ \A p \in 1 .. Len(path[n]) : IsProposal(path[n][p]) =>
           /\ Arrived(r, done, sent, buffers, n, path[n][p])
           /\ path[n][p] \notin got[n]
           /\ \A q \in 1 .. Len(path[n]) : path[n][q] = path[n][p] => q = p

\* f is in the first frames of the path to n.
Within(path, n, last, f) == \E p \in 1 .. last : path[n][p] = f

\* Node n has counted f, or will.
Reached(path, got, n, f) == f \in got[n] \/ Within(path, n, Len(path[n]), f)

\* Every part that found a buffer has reached n or still waits for the bus.
NothingLost(r, done, sent, buffers, path, got) ==
    \A n \in Nodes : \A m \in Nodes \ {n} : \A i \in Parts \cap TXBuffers : \A k \in Nat :
      done[n] <= k /\ k < sent[m] =>
        \/ Reached(path, got, n, ProposalFrame(r, m, i, k))
        \/ buffers[m][i] = ProposalFrame(r, m, i, k)

\* A frame of the next iteration comes behind all of those of this one.
InOrder(r, done, path, got) ==
    \A n \in Nodes :
      /\ \A f \in got[n] : f.iter # done[n] => Awaited(r, n, done[n]) \subseteq got[n]
      /\ \A q \in 1 .. Len(path[n]) :
           IsProposal(path[n][q]) /\ path[n][q].iter # done[n] =>
             \A g \in Awaited(r, n, done[n]) : g \in got[n] \/ Within(path, n, q - 1, g)

\* A node that is ahead of n has had what n waits for, and so has n.
AheadHadAll(r, done, path, got) ==
    \A n, m \in Nodes : done[m] > done[n] =>
      \A g \in Awaited(r, n, done[n]) : g.from # m => Reached(path, got, n, g)

\* Frame f comes behind the others in the path to every node but a.
Appended(path, path2, a, f) ==
    /\ path2[a] = path[a]
    /\ \A n \in Nodes \ {a} :
         /\ Len(path[n]) \in Nat /\ Len(path2[n]) = Len(path[n]) + 1
         /\ path2[n][Len(path[n]) + 1] = f
         /\ \A p \in 1 .. Len(path[n]) : path2[n][p] = path[n][p]

\* The invariant of an exchange of proposals.
Exchange(r, done, sent, buffers, path, got) ==
    /\ InStepWith(done, sent)
    /\ FitsBuffers(done)
    /\ LastWaits(r, done, sent, buffers)
    /\ ArrivedOnce(r, done, sent, buffers, path, got)
    /\ NothingLost(r, done, sent, buffers, path, got)
    /\ InOrder(r, done, path, got)
    /\ AheadHadAll(r, done, path, got)

----------------------------------------------------------------------------
\* Node n has not taken up the latest run.
Behind(n) == run[n] # runs

\* The iterations of the latest run that n has completed.
Completed(n) ==
    IF Behind(n) THEN 0 ELSE IF consensusState[n] = "OFF" THEN MaxIter ELSE numIter[n]

\* The iterations for which it has sent its proposal.
Proposed(n) ==
    Completed(n) + IF ~Behind(n) /\ consensusState[n] = "WAITING" THEN 1 ELSE 0

\* Of every node.
doneNow == [n \in Nodes |-> Completed(n)]
sentNow == [n \in Nodes |-> Proposed(n)]

\* Part i of a vector has a value for its entry j.
Carries(i, j) == \E s \in 0 .. FrameSlots - 1 : i * FrameSlots + s = j

\* The count and the sums are those of the frames that a node got.
Counted(got) ==
    \A n \in Nodes :
      /\ numberOfMsgReceived[n] = Cardinality(got[n])
      /\ \A j \in Nodes : receivedDutyCycle[n][j] =
           {Entry(f.from, f.run, f.iter, j) : f \in {g \in got[n] : Carries(g.msgI, j)}}

\* A node that is OFF has an empty sum, and so has one that is behind.
OffInv ==
    \A n \in Nodes :
      /\ numIter[n] < MaxIter
      /\ Behind(n) => consensusState[n] = "OFF" /\ runs # 0 /\ run[n] = runs - 1
      /\ consensusState[n] = "OFF" =>
           /\ numIter[n] = 0 /\ numberOfMsgReceived[n] = 0
           /\ \A j \in Nodes : receivedDutyCycle[n][j] = {}

\* The set-point is of the latest run at nodes that have completed it.
SetPointInv ==
    \A n \in Nodes :
      /\ luxRefAfterConsensus[n] <= runs
      /\ luxRefAfterConsensus[n] = runs => ~Behind(n) /\ consensusState[n] = "OFF"

\* Before the first run nothing is on its way.
BeforeInv ==
    runs = 0 => \A n \in Nodes :
      run[n] = 0 /\ consensusState[n] = "OFF" /\ tx[n] = NothingPending /\ inbox[n] = <<>>

\* The frame that starts the latest run waits for the bus, and nothing else does.
Announcing(c) ==
    /\ runs > 1
    /\ tx[c] = [b \in TXBuffers |-> IF b = 0 THEN DoConsensus(runs) ELSE NoFrame]
    /\ ~Behind(c) /\ consensusState[c] = "ITERATE" /\ numIter[c] = 0
    /\ \A n \in Nodes : inbox[n] = <<>> /\ (n # c => Behind(n) /\ tx[n] = NothingPending)

\* A node that is behind in a later run has the frame that starts it in front.
StartInv ==
    /\ \A m \in Nodes, b \in TXBuffers : tx[m][b].type = "DO_CONSENSUS" => Announcing(m)
    /\ \A n \in Nodes : \A p \in 1 .. Len(inbox[n]) :
         inbox[n][p].type = "DO_CONSENSUS" =>
           runs > 1 /\ Behind(n) /\ p = 1 /\ inbox[n][p] = DoConsensus(runs)
    /\ runs > 1 => \A n \in Nodes : Behind(n) =>
         \/ \E c \in Nodes : Announcing(c)
         \/ inbox[n] # <<>> /\ inbox[n][1] = DoConsensus(runs)

\* The frames that the optimiser sends.
Messages ==
    {DoConsensus(r) : r \in Nat} \cup
    {ProposalFrame(r, m, i, k) : r \in Nat, m \in Nodes, i \in Nat, k \in Nat}

\* The types that the other invariants need.
Typed ==
    /\ consensusState \in [Nodes -> {"OFF", "ITERATE", "WAITING"}]
    /\ numIter \in [Nodes -> Nat] /\ numberOfMsgReceived \in [Nodes -> Nat]
    /\ receivedDutyCycle = [n \in Nodes |-> receivedDutyCycle[n]]
    /\ dutyCycleAv = [n \in Nodes |-> dutyCycleAv[n]]
    /\ luxRefAfterConsensus \in [Nodes -> Nat]
    /\ run \in [Nodes -> Nat] /\ runs \in Nat
    /\ tx \in [Nodes -> [TXBuffers -> Messages \cup {NoFrame}]]
    /\ inbox \in [Nodes -> Seq(Messages)]

\* The average is over one proposal of every node, of one run and iteration.
Pure(av) ==
    av.run # 0 => \A j \in Nodes : av.sum[j] = {Entry(m, av.run, av.iter, j) : m \in Nodes}

\* As AveragePure, unless frames are mixed or crowded.
PureInv == \A n \in Nodes : Pure(dutyCycleAv[n])

\* The nodes exchange the proposals of the latest run, and add up what they got.
ExchangeInv ==
    runs # 0 => \E got : Counted(got) /\ Exchange(runs, doneNow, sentNow, tx, inbox, got)

\* What holds as long as frames are neither mixed nor crowded.
Orderly ==
    Typed /\ OffInv /\ SetPointInv /\ BeforeInv /\ StartInv /\ PureInv /\ ExchangeInv

\* The inductive invariant.
OptimiserInv == ~mixed /\ ~crowded => Orderly

----------------------------------------------------------------------------
\* A vector has a first part, and a part for each of its entries.
LEMMA PartsOfVector ==
  /\ NumMessages \in Nat \ {0} /\ 0 \in Parts
  /\ \A j \in Nodes : \E i \in Parts : Carries(i, j)
<1> DEFINE F == FrameSlots
           last == NumNodes - 1
<1>1. F \in Nat \ {0} /\ last \in Nat
  BY ConsensusConstants
<1> HIDE DEF F, last
<1>2. ASSUME NEW j \in Nat
      PROVE  j \div F \in Nat /\ j % F \in 0 .. F - 1 /\ (j \div F) * F + (j % F) = j
  BY <1>1, Z3
<1>3. ASSUME NEW j \in Nat, j <= last PROVE j \div F <= last \div F
  BY <1>1, <1>3, Z3
<1>4. NumMessages = last \div F + 1 /\ last \div F \in Nat
  BY <1>1, <1>2 DEF NumMessages, F, last
<1>5. ASSUME NEW j \in Nodes PROVE \E i \in Parts : Carries(i, j)
  <2>1. j \in Nat /\ j <= last
    BY ConsensusConstants DEF Nodes, last
  <2> DEFINE i == j \div F
             s == j % F
  <2>2. i \in Nat /\ i <= last \div F /\ s \in 0 .. F - 1 /\ i * F + s = j
    BY <2>1, <1>2, <1>3
  <2> HIDE DEF i, s
  <2>3. i \in Parts
    BY <2>2, <1>4 DEF Parts
  <2>4. Carries(i, j)
    BY <2>2 DEF Carries, F
  <2>5. QED
    BY <2>3, <2>4
<1>6. QED
  BY <1>4, <1>5 DEF Parts

\* What a node has to count is as many frames as it expects.
LEMMA AwaitedCount ==
  ASSUME NEW n \in Nodes, NEW r, NEW k
  PROVE  /\ IsFiniteSet(Awaited(r, n, k))
         /\ Cardinality(Awaited(r, n, k)) = NumberOfMsgExpected
<1> DEFINE others == Nodes \ {n}
           pairs == others \X Parts
           frame == [x \in pairs |-> ProposalFrame(r, x[1], x[2], k)]
<1>1. IsFiniteSet(Nodes) /\ Cardinality(Nodes) = NumNodes
  BY FS_Interval, ConsensusConstants DEF Nodes
<1>2. IsFiniteSet(others) /\ Cardinality(others) = NumNodes - 1
  BY <1>1, FS_RemoveElement
<1>3. IsFiniteSet(Parts) /\ Cardinality(Parts) = NumMessages
  BY FS_Interval, PartsOfVector DEF Parts
<1>4. IsFiniteSet(pairs) /\ Cardinality(pairs) = (NumNodes - 1) * NumMessages
  BY <1>2, <1>3, FS_Product
<1>5. frame \in Bijection(pairs, Awaited(r, n, k))
  <2>1. frame \in [pairs -> Awaited(r, n, k)]
    BY DEF Awaited
  <2>2. ASSUME NEW x \in pairs, NEW y \in pairs, frame[x] = frame[y] PROVE x = y
    BY <2>2 DEF ProposalFrame
  <2>3. \A f \in Awaited(r, n, k) : \E x \in pairs : frame[x] = f
    <3> SUFFICES ASSUME NEW m \in others, NEW i \in Parts
                 PROVE  \E x \in pairs : frame[x] = ProposalFrame(r, m, i, k)
      BY DEF Awaited
    <3>1. <<m, i>> \in pairs /\ frame[<<m, i>>] = ProposalFrame(r, m, i, k)
      OBVIOUS
    <3>2. QED
      BY <3>1
  <2>4. QED
    BY <2>1, <2>2, <2>3 DEF Bijection, Injection, Surjection, IsInjective
<1>6. ExistsBijection(pairs, Awaited(r, n, k))
  BY <1>5 DEF ExistsBijection
<1>7. IsFiniteSet(Awaited(r, n, k)) /\ Cardinality(Awaited(r, n, k)) = Cardinality(pairs)
  BY <1>4, <1>6, FS_Bijection
<1>8. (NumNodes - 1) * NumMessages = NumMessages * (NumNodes - 1)
  BY PartsOfVector, ConsensusConstants
<1>9. QED
  BY <1>4, <1>7, <1>8 DEF NumberOfMsgExpected

\* What is awaited, by the fields of a frame.
LEMMA AwaitedFields ==
  ASSUME NEW r, NEW n, NEW k, NEW f
  PROVE  f \in Awaited(r, n, k) <=>
           /\ f = ProposalFrame(r, f.from, f.msgI, k)
           /\ f.from \in Nodes \ {n} /\ f.msgI \in Parts /\ f.iter = k
  BY DEF Awaited, ProposalFrame

----------------------------------------------------------------------------
\* A node that counted as many frames as it expects has those of its iteration.
LEMMA CountedAll ==
  ASSUME NEW r, NEW done, NEW sent, NEW buffers, NEW path, NEW got, NEW a \in Nodes,
         Exchange(r, done, sent, buffers, path, got),
         Cardinality(got[a]) = NumberOfMsgExpected
  PROVE  got[a] = Awaited(r, a, done[a])
<1> DEFINE all == Awaited(r, a, done[a])
<1>1. IsFiniteSet(all) /\ Cardinality(all) = NumberOfMsgExpected
  BY AwaitedCount
<1>2. IsFiniteSet(got[a]) /\ \A f \in got[a] : Arrived(r, done, sent, buffers, a, f)
  BY DEF Exchange, ArrivedOnce
<1>3. CASE \A f \in got[a] : f.iter = done[a]
  <2>1. got[a] \in SUBSET all
    BY <1>2, <1>3, AwaitedFields DEF Arrived
  <2>2. QED
    BY <1>1, <2>1, FS_Subset
<1>4. CASE \E f \in got[a] : f.iter # done[a]
  <2>1. all \in SUBSET got[a]
    BY <1>4 DEF Exchange, InOrder
  <2>2. QED
    BY <1>1, <1>2, <2>1, FS_Subset
<1>5. QED
  BY <1>3, <1>4

\* Node a completes an iteration.
LEMMA UpdateKeeps ==
  ASSUME NEW r, NEW done, NEW done2, NEW sent, NEW buffers, NEW path, NEW got, NEW got2,
         NEW a \in Nodes,
         Exchange(r, done, sent, buffers, path, got),
         got[a] = Awaited(r, a, done[a]), sent[a] = done[a] + 1,
         done2[a] = done[a] + 1, got2[a] = {},
         \A n \in Nodes \ {a} : done2[n] = done[n] /\ got2[n] = got[n]
  PROVE  Exchange(r, done2, sent, buffers, path, got2)
<1> DEFINE k == done[a]
<1>1. /\ InStepWith(done, sent) /\ FitsBuffers(done)
      /\ LastWaits(r, done, sent, buffers)
      /\ ArrivedOnce(r, done, sent, buffers, path, got)
      /\ NothingLost(r, done, sent, buffers, path, got)
      /\ InOrder(r, done, path, got) /\ AheadHadAll(r, done, path, got)
  BY DEF Exchange
<1>2. k \in Nat /\ \A n \in Nodes : done[n] \in Nat /\ sent[n] \in Nat
  BY <1>1 DEF InStepWith
\* What the others have proposed of this iteration has arrived.
<1>3. ASSUME NEW m \in Nodes \ {a}, NEW i \in Parts
      PROVE  /\ ProposalFrame(r, m, i, k) \in got[a]
             /\ i \in TXBuffers /\ k < sent[m] /\ buffers[m][i] # ProposalFrame(r, m, i, k)
  <2>1. ProposalFrame(r, m, i, k) \in got[a]
    BY <1>3 DEF Awaited
  <2>2. Arrived(r, done, sent, buffers, a, ProposalFrame(r, m, i, k))
    BY <1>1, <2>1 DEF ArrivedOnce
  <2>3. QED
    BY <2>1, <2>2 DEF Arrived, ProposalFrame
<1>4. InStepWith(done2, sent)
  <2>1. ASSUME NEW n \in Nodes PROVE done2[a] <= sent[n]
    <3>1. CASE n = a
      BY <3>1, <1>2
    <3>2. CASE n # a
      BY <3>2, <1>2, <1>3, PartsOfVector
    <3>3. QED
      BY <3>1, <3>2
  <2>2. QED
    BY <2>1, <1>1, <1>2 DEF InStepWith
<1>5. FitsBuffers(done2)
  <2>1. NumNodes > 1 => Parts \subseteq TXBuffers
    <3> SUFFICES ASSUME NumNodes > 1 PROVE Parts \subseteq TXBuffers
      OBVIOUS
    <3>1. PICK m \in Nodes : m # a
      <4>1. 0 \in Nodes /\ 1 \in Nodes
        BY ConsensusConstants DEF Nodes
      <4>2. QED
        BY <4>1
    <3>2. QED
      BY <3>1, <1>3
  <2>2. QED
    BY <2>1 DEF FitsBuffers
<1>6. LastWaits(r, done2, sent, buffers)
  <2> SUFFICES ASSUME NEW m \in Nodes, NEW b \in TXBuffers, IsProposal(buffers[m][b])
               PROVE  /\ b \in Parts /\ sent[m] > 0
                      /\ buffers[m][b] = ProposalFrame(r, m, b, sent[m] - 1)
                      /\ \A n \in Nodes \ {m} : done2[n] < sent[m]
    BY DEF LastWaits
  <2>1. /\ b \in Parts /\ sent[m] > 0
        /\ buffers[m][b] = ProposalFrame(r, m, b, sent[m] - 1)
        /\ \A n \in Nodes \ {m} : done[n] < sent[m]
    BY <1>1 DEF LastWaits
  <2>2. m # a => done2[a] < sent[m]
    <3> SUFFICES ASSUME m # a PROVE done2[a] < sent[m]
      OBVIOUS
    <3>1. k < sent[m] /\ buffers[m][b] # ProposalFrame(r, m, b, k)
      BY <2>1, <1>3
    <3>2. sent[m] - 1 # k
      BY <3>1, <2>1
    <3>3. QED
      BY <3>1, <3>2, <1>2
  <2>3. QED
    BY <2>1, <2>2
<1>7. ArrivedOnce(r, done2, sent, buffers, path, got2)
  <2>1. ASSUME NEW n \in Nodes \ {a}
        PROVE  \A f : Arrived(r, done2, sent, buffers, n, f)
                        <=> Arrived(r, done, sent, buffers, n, f)
    BY <2>1 DEF Arrived
  <2>2. ASSUME NEW p \in 1 .. Len(path[a]), IsProposal(path[a][p])
        PROVE  Arrived(r, done2, sent, buffers, a, path[a][p])
    <3>1. Arrived(r, done, sent, buffers, a, path[a][p]) /\ path[a][p] \notin got[a]
      BY <1>1, <2>2 DEF ArrivedOnce
    <3>2. path[a][p].iter # k
      BY <3>1, <1>3 DEF Arrived
    <3>3. QED
      BY <3>1, <3>2, <1>2 DEF Arrived
  <2>3. IsFiniteSet({})
    BY FS_EmptySet
  <2>4. ASSUME NEW n \in Nodes
        PROVE  /\ IsFiniteSet(got2[n])
               /\ \A f \in got2[n] : Arrived(r, done2, sent, buffers, n, f)
               /\ \A p \in 1 .. Len(path[n]) : IsProposal(path[n][p]) =>
                    /\ Arrived(r, done2, sent, buffers, n, path[n][p])
                    /\ path[n][p] \notin got2[n]
                    /\ \A q \in 1 .. Len(path[n]) : path[n][q] = path[n][p] => q = p
    <3>1. CASE n = a
      BY <3>1, <2>2, <2>3, <1>1 DEF ArrivedOnce
    <3>2. CASE n # a
      BY <3>2, <2>1, <1>1 DEF ArrivedOnce
    <3>3. QED
      BY <3>1, <3>2
  <2>5. QED
    BY <2>4 DEF ArrivedOnce
<1>8. ASSUME NEW n \in Nodes, NEW f, n = a => f.iter # k, Reached(path, got, n, f)
      PROVE  Reached(path, got2, n, f)
  BY <1>8, AwaitedFields DEF Reached
<1>9. NothingLost(r, done2, sent, buffers, path, got2)
  <2> SUFFICES ASSUME NEW n \in Nodes, NEW m \in Nodes \ {n}, NEW i \in Parts \cap TXBuffers,
                      NEW kk \in Nat, done2[n] <= kk, kk < sent[m]
               PROVE  \/ Reached(path, got2, n, ProposalFrame(r, m, i, kk))
                      \/ buffers[m][i] = ProposalFrame(r, m, i, kk)
    BY DEF NothingLost
  <2>1. done[n] <= kk /\ (n = a => kk # k)
    BY <1>2
  <2>2. \/ Reached(path, got, n, ProposalFrame(r, m, i, kk))
        \/ buffers[m][i] = ProposalFrame(r, m, i, kk)
    BY <2>1, <1>1 DEF NothingLost
  <2>3. ProposalFrame(r, m, i, kk).iter = kk
    BY DEF ProposalFrame
  <2>4. QED
    BY <2>1, <2>2, <2>3, <1>8
<1>10. InOrder(r, done2, path, got2)
  <2>1. ASSUME NEW q \in 1 .. Len(path[a]), IsProposal(path[a][q])
        PROVE  path[a][q].iter = done2[a]
    <3> DEFINE f == path[a][q]
    <3>1. Arrived(r, done2, sent, buffers, a, f)
      BY <1>7, <2>1 DEF ArrivedOnce
    <3>2. f.iter \in Nat /\ done2[a] <= f.iter /\ f.iter < sent[f.from] /\ f.from \in Nodes
      BY <3>1 DEF Arrived
    <3>3. sent[f.from] <= done[f.from] + 1 /\ done[f.from] <= sent[a]
      BY <3>2, <1>1, <1>2 DEF InStepWith
    <3>4. QED
      BY <3>2, <3>3, <1>2
  <2>2. QED
    BY <2>1, <1>1 DEF InOrder
<1>11. AheadHadAll(r, done2, path, got2)
  <2> SUFFICES ASSUME NEW n \in Nodes, NEW m \in Nodes, done2[m] > done2[n],
                      NEW g \in Awaited(r, n, done2[n]), g.from # m
               PROVE  Reached(path, got2, n, g)
    BY DEF AheadHadAll
  <2>1. n # a
    <3>1. done2[m] <= sent[a]
      BY <1>4 DEF InStepWith
    <3>2. QED
      BY <3>1, <1>2, <1>4 DEF InStepWith
  <2>2. done2[n] = done[n] /\ got2[n] = got[n]
    BY <2>1
  <2>3. CASE done[m] > done[n]
    BY <2>1, <2>2, <2>3, <1>1 DEF AheadHadAll, Reached
  <2>4. CASE ~(done[m] > done[n])
    <3>1. m = a /\ done[n] = k
      BY <2>4, <2>2, <1>2
    <3>2. /\ g = ProposalFrame(r, g.from, g.msgI, k)
          /\ g.from \in Nodes \ {a} /\ g.from # n /\ g.msgI \in Parts
      BY <3>1, <2>2, AwaitedFields
    <3>3. /\ g.msgI \in Parts \cap TXBuffers /\ k < sent[g.from]
          /\ buffers[g.from][g.msgI] # ProposalFrame(r, g.from, g.msgI, k)
      BY <3>2, <1>3
    <3>4. Reached(path, got, n, ProposalFrame(r, g.from, g.msgI, k))
      BY <3>1, <3>2, <3>3, <1>1, <1>2 DEF NothingLost
    <3>5. QED
      BY <3>2, <3>4, <2>2 DEF Reached
  <2>5. QED
    BY <2>3, <2>4
<1>12. QED
  BY <1>4, <1>5, <1>6, <1>7, <1>9, <1>10, <1>11 DEF Exchange

\* Node a puts its next proposal into empty buffers.
LEMMA SendKeeps ==
  ASSUME NEW r, NEW done, NEW sent, NEW sent2, NEW buffers, NEW buffers2, NEW path, NEW got,
         NEW a \in Nodes,
         Exchange(r, done, sent, buffers, path, got),
         sent[a] = done[a], sent2[a] = done[a] + 1,
         \A b \in TXBuffers : ~IsProposal(buffers[a][b]),
         \A b \in TXBuffers \cap Parts : buffers2[a][b] = ProposalFrame(r, a, b, done[a]),
         \A b \in TXBuffers \ Parts : ~IsProposal(buffers2[a][b]),
         \A n \in Nodes \ {a} : sent2[n] = sent[n] /\ buffers2[n] = buffers[n]
  PROVE  Exchange(r, done, sent2, buffers2, path, got)
<1> DEFINE k == done[a]
<1>1. /\ InStepWith(done, sent) /\ FitsBuffers(done)
      /\ LastWaits(r, done, sent, buffers)
      /\ ArrivedOnce(r, done, sent, buffers, path, got)
      /\ NothingLost(r, done, sent, buffers, path, got)
      /\ InOrder(r, done, path, got) /\ AheadHadAll(r, done, path, got)
  BY DEF Exchange
<1>2. k \in Nat /\ \A n \in Nodes : done[n] \in Nat /\ sent[n] \in Nat
  BY <1>1 DEF InStepWith
<1>3. InStepWith(done, sent2)
  BY <1>1, <1>2 DEF InStepWith
<1>4. LastWaits(r, done, sent2, buffers2)
  <2> SUFFICES ASSUME NEW m \in Nodes, NEW b \in TXBuffers, IsProposal(buffers2[m][b])
               PROVE  /\ b \in Parts /\ sent2[m] > 0
                      /\ buffers2[m][b] = ProposalFrame(r, m, b, sent2[m] - 1)
                      /\ \A n \in Nodes \ {m} : done[n] < sent2[m]
    BY DEF LastWaits
  <2>1. CASE m = a
    <3>1. b \in TXBuffers \cap Parts /\ buffers2[a][b] = ProposalFrame(r, a, b, k)
      BY <2>1
    <3>2. \A n \in Nodes : done[n] < sent2[a]
      BY <1>1, <1>2 DEF InStepWith
    <3>3. sent2[a] > 0 /\ sent2[a] - 1 = k
      BY <1>2
    <3>4. QED
      BY <2>1, <3>1, <3>2, <3>3
  <2>2. CASE m # a
    BY <2>2, <1>1 DEF LastWaits
  <2>3. QED
    BY <2>1, <2>2
<1>5. ASSUME NEW n \in Nodes, NEW f, Arrived(r, done, sent, buffers, n, f)
      PROVE  Arrived(r, done, sent2, buffers2, n, f)
  <2>1. CASE f.from = a
    <3>1. f.iter < k /\ f.msgI \in TXBuffers \cap Parts /\ f.iter \in Nat
      BY <1>5, <2>1 DEF Arrived
    <3>2. /\ buffers2[a][f.msgI] = ProposalFrame(r, a, f.msgI, k)
          /\ ProposalFrame(r, a, f.msgI, k).iter = k
      BY <3>1 DEF ProposalFrame
    <3>3. buffers2[a][f.msgI] # f /\ f.iter < sent2[a]
      BY <3>1, <3>2, <1>2
    <3>4. QED
      BY <1>5, <2>1, <3>3 DEF Arrived
  <2>2. CASE f.from # a
    BY <1>5, <2>2 DEF Arrived
  <2>3. QED
    BY <2>1, <2>2
<1>6. ArrivedOnce(r, done, sent2, buffers2, path, got)
  BY <1>1, <1>5 DEF ArrivedOnce
<1>7. NothingLost(r, done, sent2, buffers2, path, got)
  <2> SUFFICES ASSUME NEW n \in Nodes, NEW m \in Nodes \ {n}, NEW i \in Parts \cap TXBuffers,
                      NEW kk \in Nat, done[n] <= kk, kk < sent2[m]
               PROVE  \/ Reached(path, got, n, ProposalFrame(r, m, i, kk))
                      \/ buffers2[m][i] = ProposalFrame(r, m, i, kk)
    BY DEF NothingLost
  <2>1. CASE m = a /\ kk = k
    BY <2>1
  <2>2. CASE m = a /\ kk # k
    <3>1. kk < sent[a]
      BY <2>2, <1>2
    <3>2. ~IsProposal(buffers[a][i]) /\ IsProposal(ProposalFrame(r, m, i, kk))
      BY DEF IsProposal, ProposalFrame
    <3>3. QED
      BY <2>2, <3>1, <3>2, <1>1 DEF NothingLost
  <2>3. CASE m # a
    BY <2>3, <1>1 DEF NothingLost
  <2>4. QED
    BY <2>1, <2>2, <2>3
<1>8. QED
  BY <1>1, <1>3, <1>4, <1>6, <1>7 DEF Exchange

\* The frame in buffer b of node a goes over the bus.
LEMMA BusKeeps ==
  ASSUME NEW r, NEW done, NEW sent, NEW buffers, NEW buffers2, NEW path, NEW path2, NEW got,
         NEW a \in Nodes, NEW b \in TXBuffers,
         Exchange(r, done, sent, buffers, path, got),
         IsProposal(buffers[a][b]), ~IsProposal(buffers2[a][b]),
         \A c \in TXBuffers \ {b} : buffers2[a][c] = buffers[a][c],
         \A n \in Nodes \ {a} : buffers2[n] = buffers[n],
         Appended(path, path2, a, buffers[a][b])
  PROVE  Exchange(r, done, sent, buffers2, path2, got)
<1> USE DEF Appended
<1> DEFINE k == sent[a] - 1
           new == buffers[a][b]
<1>1. /\ InStepWith(done, sent) /\ FitsBuffers(done)
      /\ LastWaits(r, done, sent, buffers)
      /\ ArrivedOnce(r, done, sent, buffers, path, got)
      /\ NothingLost(r, done, sent, buffers, path, got)
      /\ InOrder(r, done, path, got) /\ AheadHadAll(r, done, path, got)
  BY DEF Exchange
<1>2. \A n \in Nodes : done[n] \in Nat /\ sent[n] \in Nat
  BY <1>1 DEF InStepWith
<1>3. /\ b \in Parts /\ k \in Nat /\ k < sent[a] /\ new = ProposalFrame(r, a, b, k)
      /\ \A n \in Nodes \ {a} : done[n] <= k
  BY <1>1, <1>2 DEF LastWaits
<1>4. /\ new.from = a /\ new.msgI = b /\ new.iter = k
  BY <1>3 DEF ProposalFrame
<1>5. LastWaits(r, done, sent, buffers2)
  <2> SUFFICES ASSUME NEW m \in Nodes, NEW c \in TXBuffers, IsProposal(buffers2[m][c])
               PROVE  buffers2[m][c] = buffers[m][c]
    BY <1>1 DEF LastWaits
  <2>1. QED
    OBVIOUS
<1>6. ASSUME NEW n \in Nodes, NEW f, Arrived(r, done, sent, buffers, n, f)
      PROVE  Arrived(r, done, sent, buffers2, n, f)
  <2>1. CASE f.from = a /\ f.msgI = b
    <3>1. IsProposal(f)
      BY <1>6 DEF Arrived, ProposalFrame, IsProposal
    <3>2. QED
      BY <1>6, <2>1, <3>1 DEF Arrived
  <2>2. CASE ~(f.from = a /\ f.msgI = b)
    <3>1. f.from \in Nodes /\ f.msgI \in TXBuffers
      BY <1>6 DEF Arrived
    <3>2. buffers2[f.from][f.msgI] = buffers[f.from][f.msgI]
      BY <2>2, <3>1
    <3>3. QED
      BY <1>6, <3>2 DEF Arrived
  <2>3. QED
    BY <2>1, <2>2
<1>7. ASSUME NEW n \in Nodes \ {a}
      PROVE  /\ Arrived(r, done, sent, buffers2, n, new)
             /\ ~Arrived(r, done, sent, buffers, n, new)
  BY <1>3, <1>4 DEF Arrived, IsProposal
<1>8. ASSUME NEW n \in Nodes, NEW p \in 1 .. Len(path2[n])
      PROVE  \/ p \in 1 .. Len(path[n]) /\ path2[n][p] = path[n][p]
             \/ n # a /\ p = Len(path[n]) + 1 /\ path2[n][p] = new
  BY <1>8
<1>9. ArrivedOnce(r, done, sent, buffers2, path2, got)
  <2>1. ASSUME NEW n \in Nodes, NEW p \in 1 .. Len(path2[n]), IsProposal(path2[n][p])
        PROVE  /\ Arrived(r, done, sent, buffers2, n, path2[n][p])
               /\ path2[n][p] \notin got[n]
               /\ \A q \in 1 .. Len(path2[n]) : path2[n][q] = path2[n][p] => q = p
    <3>1. CASE p \in 1 .. Len(path[n]) /\ path2[n][p] = path[n][p]
      <4>1. /\ Arrived(r, done, sent, buffers, n, path2[n][p])
            /\ path2[n][p] \notin got[n]
            /\ \A q \in 1 .. Len(path[n]) : path[n][q] = path2[n][p] => q = p
        BY <2>1, <3>1, <1>1 DEF ArrivedOnce
      <4>2. ASSUME NEW q \in 1 .. Len(path2[n]), path2[n][q] = path2[n][p] PROVE q = p
        BY <4>1, <4>2, <1>7, <1>8
      <4>3. QED
        BY <4>1, <4>2, <1>6
    <3>2. CASE n # a /\ p = Len(path[n]) + 1 /\ path2[n][p] = new
      <4>1. /\ Arrived(r, done, sent, buffers2, n, new) /\ new \notin got[n]
        BY <3>2, <1>1, <1>7 DEF ArrivedOnce
      <4>2. ASSUME NEW q \in 1 .. Len(path2[n]), path2[n][q] = new PROVE q = p
        <5>1. ~(q \in 1 .. Len(path[n]) /\ path[n][q] = new)
          BY <3>2, <1>1, <1>7 DEF ArrivedOnce
        <5>2. QED
          BY <5>1, <4>2, <3>2, <1>8
      <4>3. QED
        BY <3>2, <4>1, <4>2
    <3>3. QED
      BY <3>1, <3>2, <1>8
  <2>2. QED
    BY <2>1, <1>1, <1>6 DEF ArrivedOnce
<1>10. ASSUME NEW n \in Nodes, NEW f, Reached(path, got, n, f)
       PROVE  Reached(path2, got, n, f)
  <2>1. CASE n = a
    BY <1>10, <2>1 DEF Reached, Within
  <2>2. CASE n # a
    <3>1. \A p \in 1 .. Len(path[n]) : p \in 1 .. Len(path2[n]) /\ path2[n][p] = path[n][p]
      BY <2>2
    <3>2. QED
      BY <3>1, <1>10 DEF Reached, Within
  <2>3. QED
    BY <2>1, <2>2
<1>11. NothingLost(r, done, sent, buffers2, path2, got)
  <2> SUFFICES ASSUME NEW n \in Nodes, NEW m \in Nodes \ {n}, NEW i \in Parts \cap TXBuffers,
                      NEW kk \in Nat, done[n] <= kk, kk < sent[m]
               PROVE  \/ Reached(path2, got, n, ProposalFrame(r, m, i, kk))
                      \/ buffers2[m][i] = ProposalFrame(r, m, i, kk)
    BY DEF NothingLost
  <2>1. \/ Reached(path, got, n, ProposalFrame(r, m, i, kk))
        \/ buffers[m][i] = ProposalFrame(r, m, i, kk)
    BY <1>1 DEF NothingLost
  <2>2. CASE m = a /\ i = b /\ new = ProposalFrame(r, m, i, kk)
    BY <2>2 DEF Reached, Within
  <2>3. CASE m = a /\ i # b
    BY <2>1, <2>3, <1>10
  <2>4. CASE m # a
    BY <2>1, <2>4, <1>10
  <2>5. CASE m = a /\ i = b /\ new # ProposalFrame(r, m, i, kk)
    BY <2>1, <2>5, <1>10
  <2>6. QED
    BY <2>2, <2>3, <2>4, <2>5
<1>12. InOrder(r, done, path2, got)
  <2> SUFFICES ASSUME NEW n \in Nodes, NEW q \in 1 .. Len(path2[n]), IsProposal(path2[n][q]),
                      path2[n][q].iter # done[n], NEW g \in Awaited(r, n, done[n])
               PROVE  g \in got[n] \/ Within(path2, n, q - 1, g)
    BY <1>1 DEF InOrder
  <2>1. CASE q \in 1 .. Len(path[n]) /\ path2[n][q] = path[n][q]
    <3>1. g \in got[n] \/ Within(path, n, q - 1, g)
      BY <2>1, <1>1 DEF InOrder
    <3>2. \A p \in 1 .. q - 1 : p \in 1 .. Len(path[n])
      BY <2>1, <1>8
    <3>3. \A p \in 1 .. q - 1 : path2[n][p] = path[n][p]
      BY <3>2
    <3>4. QED
      BY <3>1, <3>3 DEF Within
  <2>2. CASE n # a /\ q = Len(path[n]) + 1 /\ path2[n][q] = new
    <3>1. done[n] \in Nat /\ done[n] < k
      BY <2>2, <1>2, <1>3, <1>4
    <3>2. done[a] > done[n]
      BY <3>1, <1>1, <1>2 DEF InStepWith
    <3>3. /\ g = ProposalFrame(r, g.from, g.msgI, done[n])
          /\ g.from \in Nodes \ {n} /\ g.msgI \in Parts
      BY AwaitedFields
    <3>4. Reached(path, got, n, g)
      <4>1. CASE g.from # a
        BY <4>1, <3>2, <1>1 DEF AheadHadAll
      <4>2. CASE g.from = a
        <5>1. NumNodes > 1
          BY <2>2, ConsensusConstants DEF Nodes
        <5>2. g.msgI \in Parts \cap TXBuffers
          BY <5>1, <3>1, <3>2, <3>3, <1>1, <1>2 DEF FitsBuffers
        <5>3. buffers[a][g.msgI] # g
          <6>0. IsProposal(g)
            BY <3>3 DEF IsProposal, ProposalFrame
          <6>1. buffers[a][g.msgI] = g => g = ProposalFrame(r, a, g.msgI, k)
            BY <5>2, <6>0, <1>1 DEF LastWaits
          <6>2. g.iter # k
            BY <3>1, AwaitedFields
          <6>3. QED
            BY <6>1, <6>2 DEF ProposalFrame
        <5>4. done[n] < sent[a]
          BY <3>1, <1>2, <1>3
        <5>5. QED
          BY <4>2, <5>2, <5>3, <5>4, <3>3, <3>1, <1>1 DEF NothingLost
      <4>3. QED
        BY <4>1, <4>2
    <3>5. \A p \in 1 .. Len(path[n]) : path2[n][p] = path[n][p]
      BY <2>2
    <3>6. q - 1 = Len(path[n])
      BY <2>2
    <3>7. QED
      BY <3>4, <3>5, <3>6 DEF Reached, Within
  <2>3. QED
    BY <2>1, <2>2, <1>8
<1>13. AheadHadAll(r, done, path2, got)
  BY <1>1, <1>10 DEF AheadHadAll
<1>14. QED
  BY <1>1, <1>5, <1>9, <1>11, <1>12, <1>13 DEF Exchange

\* Node a counts the first frame in its path.
LEMMA CountKeeps ==
  ASSUME NEW r, NEW done, NEW sent, NEW buffers, NEW path, NEW path2, NEW got, NEW got2,
         NEW a \in Nodes,
         Exchange(r, done, sent, buffers, path, got),
         Len(path[a]) \in Nat \ {0}, IsProposal(path[a][1]),
         Len(path2[a]) = Len(path[a]) - 1,
         \A p \in 1 .. Len(path2[a]) : path2[a][p] = path[a][p + 1],
         got2[a] = got[a] \cup {path[a][1]},
         \A n \in Nodes \ {a} : path2[n] = path[n] /\ got2[n] = got[n]
  PROVE  Exchange(r, done, sent, buffers, path2, got2)
<1> DEFINE first == path[a][1]
<1>1. /\ InStepWith(done, sent) /\ FitsBuffers(done)
      /\ LastWaits(r, done, sent, buffers)
      /\ ArrivedOnce(r, done, sent, buffers, path, got)
      /\ NothingLost(r, done, sent, buffers, path, got)
      /\ InOrder(r, done, path, got) /\ AheadHadAll(r, done, path, got)
  BY DEF Exchange
<1>2. 1 \in 1 .. Len(path[a])
  OBVIOUS
<1>3. ASSUME NEW p \in 1 .. Len(path2[a])
      PROVE  p \in Nat /\ p + 1 \in 2 .. Len(path[a]) /\ path2[a][p] = path[a][p + 1]
  OBVIOUS
<1>4. ASSUME NEW p \in 1 .. Len(path[a]), p # 1
      PROVE  p - 1 \in 1 .. Len(path2[a]) /\ path2[a][p - 1] = path[a][p]
  <2>1. p - 1 \in 1 .. Len(path2[a]) /\ (p - 1) + 1 = p
    BY <1>4
  <2>2. QED
    BY <2>1
<1>5. Arrived(r, done, sent, buffers, a, first)
  BY <1>1, <1>2 DEF ArrivedOnce
<1>6. ArrivedOnce(r, done, sent, buffers, path2, got2)
  <2>1. IsFiniteSet(got2[a])
    BY <1>1, FS_AddElement DEF ArrivedOnce
  <2>2. ASSUME NEW p \in 1 .. Len(path2[a]), IsProposal(path2[a][p])
        PROVE  /\ Arrived(r, done, sent, buffers, a, path2[a][p])
               /\ path2[a][p] \notin got2[a]
               /\ \A q \in 1 .. Len(path2[a]) : path2[a][q] = path2[a][p] => q = p
    <3>1. p + 1 \in 1 .. Len(path[a]) /\ path2[a][p] = path[a][p + 1]
      BY <1>3
    <3>2. /\ Arrived(r, done, sent, buffers, a, path[a][p + 1])
          /\ path[a][p + 1] \notin got[a]
          /\ \A q \in 1 .. Len(path[a]) : path[a][q] = path[a][p + 1] => q = p + 1
      BY <2>2, <3>1, <1>1 DEF ArrivedOnce
    <3>3. path[a][p + 1] # first
      BY <3>2, <1>2
    <3>4. ASSUME NEW q \in 1 .. Len(path2[a]), path2[a][q] = path2[a][p] PROVE q = p
      <4>1. q + 1 \in 1 .. Len(path[a]) /\ path[a][q + 1] = path[a][p + 1]
        BY <3>1, <3>4, <1>3
      <4>2. q + 1 = p + 1
        BY <4>1, <3>2
      <4>3. QED
        BY <4>2
    <3>5. QED
      BY <3>1, <3>2, <3>3, <3>4
  <2>3. \A f \in got2[a] : Arrived(r, done, sent, buffers, a, f)
    BY <1>1, <1>5 DEF ArrivedOnce
  <2>4. ASSUME NEW n \in Nodes
        PROVE  /\ IsFiniteSet(got2[n])
               /\ \A f \in got2[n] : Arrived(r, done, sent, buffers, n, f)
               /\ \A p \in 1 .. Len(path2[n]) : IsProposal(path2[n][p]) =>
                    /\ Arrived(r, done, sent, buffers, n, path2[n][p])
                    /\ path2[n][p] \notin got2[n]
                    /\ \A q \in 1 .. Len(path2[n]) : path2[n][q] = path2[n][p] => q = p
    <3>1. CASE n = a
      BY <3>1, <2>1, <2>2, <2>3
    <3>2. CASE n # a
      BY <3>2, <1>1 DEF ArrivedOnce
    <3>3. QED
      BY <3>1, <3>2
  <2>5. QED
    BY <2>4 DEF ArrivedOnce
<1>7. ASSUME NEW n \in Nodes, NEW f, Reached(path, got, n, f)
      PROVE  Reached(path2, got2, n, f)
  <2>1. CASE n = a
    <3>1. CASE f \in got[a]
      BY <2>1, <3>1 DEF Reached
    <3>2. CASE \E p \in 1 .. Len(path[a]) : path[a][p] = f
      BY <2>1, <3>2, <1>4 DEF Reached, Within
    <3>3. QED
      BY <2>1, <3>1, <3>2, <1>7 DEF Reached, Within
  <2>2. CASE n # a
    BY <2>2, <1>7 DEF Reached, Within
  <2>3. QED
    BY <2>1, <2>2
<1>8. NothingLost(r, done, sent, buffers, path2, got2)
  BY <1>1, <1>7 DEF NothingLost
<1>9. AheadHadAll(r, done, path2, got2)
  BY <1>1, <1>7 DEF AheadHadAll
<1>10. InOrder(r, done, path2, got2)
  <2>1. ASSUME first.iter # done[a] PROVE Awaited(r, a, done[a]) \subseteq got[a]
    <3>1. \A g \in Awaited(r, a, done[a]) : g \in got[a] \/ Within(path, a, 1 - 1, g)
      BY <2>1, <1>1, <1>2 DEF InOrder
    <3>2. QED
      BY <3>1 DEF Within
  <2>2. \A f \in got2[a] : f.iter # done[a] => Awaited(r, a, done[a]) \subseteq got2[a]
    BY <2>1, <1>1 DEF InOrder
  <2>3. ASSUME NEW q \in 1 .. Len(path2[a]), IsProposal(path2[a][q]),
               path2[a][q].iter # done[a], NEW g \in Awaited(r, a, done[a])
        PROVE  g \in got2[a] \/ Within(path2, a, q - 1, g)
    <3>1. q + 1 \in 1 .. Len(path[a]) /\ path2[a][q] = path[a][q + 1] /\ (q + 1) - 1 = q
      BY <1>3
    <3>2. g \in got[a] \/ Within(path, a, q, g)
      BY <2>3, <3>1, <1>1 DEF InOrder
    <3>3. CASE g \in got[a]
      BY <3>3
    <3>4. CASE Within(path, a, q, g)
      <4>1. PICK p \in 1 .. q : path[a][p] = g
        BY <3>4 DEF Within
      <4>2. CASE p = 1
        BY <4>1, <4>2
      <4>3. CASE p # 1
        <5>1. p \in 1 .. Len(path[a]) /\ p - 1 \in 1 .. q - 1
          BY <4>3, <3>1
        <5>2. path2[a][p - 1] = g
          BY <5>1, <4>1, <4>3, <1>4
        <5>3. QED
          BY <5>1, <5>2 DEF Within
      <4>4. QED
        BY <4>2, <4>3
    <3>5. QED
      BY <3>2, <3>3, <3>4
  <2>4. ASSUME NEW n \in Nodes
        PROVE  /\ \A f \in got2[n] : f.iter # done[n] => Awaited(r, n, done[n]) \subseteq got2[n]
               /\ \A q \in 1 .. Len(path2[n]) :
                    IsProposal(path2[n][q]) /\ path2[n][q].iter # done[n] =>
                      \A g \in Awaited(r, n, done[n]) :
                        g \in got2[n] \/ Within(path2, n, q - 1, g)
    <3>1. CASE n = a
      BY <3>1, <2>2, <2>3, Zenon
    <3>2. CASE n # a
      <4>1. path2[n] = path[n] /\ got2[n] = got[n]
        BY <3>2
      <4>2. \A q, g : Within(path2, n, q, g) <=> Within(path, n, q, g)
        BY <4>1 DEF Within
      <4>3. QED
        BY <4>1, <4>2, <1>1 DEF InOrder
    <3>3. QED
      BY <3>1, <3>2, Zenon
  <2>5. QED
    BY <2>4 DEF InOrder
<1>11. QED
  BY <1>1, <1>6, <1>8, <1>9, <1>10 DEF Exchange

(***************************************************************************)
(* An exchange is not about the frames that start a run: another one, with *)
(* the same proposals in the buffers and in the paths, is like it.         *)
(***************************************************************************)
LEMMA StartTaken ==
  ASSUME NEW r, NEW done, NEW sent, NEW buffers, NEW path, NEW path2, NEW got, NEW a \in Nodes,
         Exchange(r, done, sent, buffers, path, got),
         Len(path[a]) \in Nat \ {0}, ~IsProposal(path[a][1]),
         Len(path2[a]) = Len(path[a]) - 1,
         \A p \in 1 .. Len(path2[a]) : path2[a][p] = path[a][p + 1],
         \A n \in Nodes \ {a} : path2[n] = path[n]
  PROVE  Exchange(r, done, sent, buffers, path2, got)
<1>1. /\ InStepWith(done, sent) /\ FitsBuffers(done)
      /\ LastWaits(r, done, sent, buffers)
      /\ ArrivedOnce(r, done, sent, buffers, path, got)
      /\ NothingLost(r, done, sent, buffers, path, got)
      /\ InOrder(r, done, path, got) /\ AheadHadAll(r, done, path, got)
  BY DEF Exchange
<1>2. ASSUME NEW p \in 1 .. Len(path2[a])
      PROVE  p \in Nat /\ p + 1 \in 1 .. Len(path[a]) /\ path2[a][p] = path[a][p + 1]
  OBVIOUS
<1>3. ASSUME NEW p \in 1 .. Len(path[a]), p # 1
      PROVE  p - 1 \in 1 .. Len(path2[a]) /\ path2[a][p - 1] = path[a][p]
  <2>1. p - 1 \in 1 .. Len(path2[a]) /\ (p - 1) + 1 = p
    BY <1>3
  <2>2. QED
    BY <2>1
<1>4. ArrivedOnce(r, done, sent, buffers, path2, got)
  <2>1. ASSUME NEW n \in Nodes, NEW p \in 1 .. Len(path2[n]), IsProposal(path2[n][p])
        PROVE  /\ Arrived(r, done, sent, buffers, n, path2[n][p])
               /\ path2[n][p] \notin got[n]
               /\ \A q \in 1 .. Len(path2[n]) : path2[n][q] = path2[n][p] => q = p
    <3>1. CASE n = a
      <4>1. p \in Nat /\ p + 1 \in 1 .. Len(path[a]) /\ path2[a][p] = path[a][p + 1]
        BY <3>1, <2>1, <1>2
      <4>2. /\ Arrived(r, done, sent, buffers, a, path[a][p + 1])
            /\ path[a][p + 1] \notin got[a]
            /\ \A q \in 1 .. Len(path[a]) : path[a][q] = path[a][p + 1] => q = p + 1
        BY <2>1, <3>1, <4>1, <1>1 DEF ArrivedOnce
      <4>3. ASSUME NEW q \in 1 .. Len(path2[a]), path2[a][q] = path2[a][p] PROVE q = p
        <5>1. q \in Nat /\ q + 1 \in 1 .. Len(path[a]) /\ path[a][q + 1] = path[a][p + 1]
          BY <4>1, <4>3, <1>2
        <5>2. q + 1 = p + 1
          BY <5>1, <4>2
        <5>3. QED
          BY <5>1, <5>2, <4>1
      <4>4. QED
        BY <3>1, <4>1, <4>2, <4>3
    <3>2. CASE n # a
      BY <2>1, <3>2, <1>1 DEF ArrivedOnce
    <3>3. QED
      BY <3>1, <3>2
  <2>2. QED
    BY <2>1, <1>1 DEF ArrivedOnce
<1>5. ASSUME NEW n \in Nodes, NEW f, IsProposal(f), Reached(path, got, n, f)
      PROVE  Reached(path2, got, n, f)
  <2>1. CASE n = a /\ \E p \in 1 .. Len(path[a]) : path[a][p] = f
    <3>1. PICK p \in 1 .. Len(path[a]) : path[a][p] = f
      BY <2>1
    <3>2. p # 1
      BY <3>1, <1>5
    <3>3. p - 1 \in 1 .. Len(path2[a]) /\ path2[a][p - 1] = f
      BY <3>1, <3>2, <1>3
    <3>4. QED
      BY <2>1, <3>3 DEF Reached, Within
  <2>2. CASE ~(n = a /\ \E p \in 1 .. Len(path[a]) : path[a][p] = f)
    BY <2>2, <1>5 DEF Reached, Within
  <2>3. QED
    BY <2>1, <2>2
<1>6. NothingLost(r, done, sent, buffers, path2, got)
  <2>1. \A m, i, k : IsProposal(ProposalFrame(r, m, i, k))
    BY DEF IsProposal, ProposalFrame
  <2>2. QED
    BY <2>1, <1>1, <1>5 DEF NothingLost
<1>7. \A n, k : \A g \in Awaited(r, n, k) : IsProposal(g)
  BY DEF Awaited, IsProposal, ProposalFrame
<1>8. AheadHadAll(r, done, path2, got)
  BY <1>1, <1>5, <1>7 DEF AheadHadAll
<1>9. InOrder(r, done, path2, got)
  <2>1. ASSUME NEW n \in Nodes, NEW q \in 1 .. Len(path2[n]), IsProposal(path2[n][q]),
               path2[n][q].iter # done[n], NEW g \in Awaited(r, n, done[n])
        PROVE  g \in got[n] \/ Within(path2, n, q - 1, g)
    <3>1. CASE n = a
      <4>1. /\ q \in Nat /\ q + 1 \in 1 .. Len(path[a]) /\ path2[a][q] = path[a][q + 1]
            /\ (q + 1) - 1 = q
        BY <3>1, <2>1, <1>2
      <4>2. g \in got[a] \/ Within(path, a, q, g)
        BY <2>1, <3>1, <4>1, <1>1 DEF InOrder
      <4>3. ASSUME NEW p \in 1 .. q, path[a][p] = g PROVE Within(path2, a, q - 1, g)
        <5>1. p # 1
          BY <4>3, <2>1, <3>1, <1>7
        <5>2. p \in 1 .. Len(path[a]) /\ p - 1 \in 1 .. q - 1
          BY <5>1, <4>1
        <5>3. path2[a][p - 1] = g
          BY <5>1, <5>2, <4>3, <1>3
        <5>4. QED
          BY <5>2, <5>3 DEF Within
      <4>4. QED
        BY <3>1, <4>2, <4>3 DEF Within
    <3>2. CASE n # a
      BY <2>1, <3>2, <1>1, SMTT(30) DEF InOrder, Within
    <3>3. QED
      BY <3>1, <3>2
  <2>2. QED
    BY <2>1, <1>1 DEF InOrder
<1>10. QED
  BY <1>1, <1>4, <1>6, <1>8, <1>9 DEF Exchange

\* Before the first proposal of a run is sent, whoever is told of it.
LEMMA FreshExchange ==
  ASSUME NEW r, NEW done, NEW sent, NEW buffers, NEW path, NEW got,
         \A n \in Nodes : done[n] = 0 /\ sent[n] = 0 /\ got[n] = {},
         \A n \in Nodes, b \in TXBuffers : ~IsProposal(buffers[n][b]),
         \A n \in Nodes : \A p \in 1 .. Len(path[n]) : ~IsProposal(path[n][p])
  PROVE  Exchange(r, done, sent, buffers, path, got)
<1>1. IsFiniteSet({})
  BY FS_EmptySet
<1>2. InStepWith(done, sent) /\ FitsBuffers(done)
  BY DEF InStepWith, FitsBuffers
<1>3. LastWaits(r, done, sent, buffers) /\ ArrivedOnce(r, done, sent, buffers, path, got)
  BY <1>1 DEF LastWaits, ArrivedOnce
<1>4. NothingLost(r, done, sent, buffers, path, got)
  BY DEF NothingLost
<1>5. InOrder(r, done, path, got) /\ AheadHadAll(r, done, path, got)
  BY DEF InOrder, AheadHadAll
<1>6. QED
  BY <1>2, <1>3, <1>4, <1>5 DEF Exchange

----------------------------------------------------------------------------
\* sendFrame, one frame after the other, fills empty buffers from the first.
LEMMA BuffersFilled ==
  ASSUME NEW frames, Len(frames) \in Nat,
         \A i \in 1 .. Len(frames) : frames[i] # NoFrame
  PROVE  SendFrames(NothingPending, frames) =
           [b \in TXBuffers |-> IF b < Len(frames) THEN frames[b + 1] ELSE NoFrame]
<1> DEFINE full(k) == [b \in TXBuffers |->
                         IF b < k /\ b < Len(frames) THEN frames[b + 1] ELSE NoFrame]
<1>1. ASSUME NEW k \in TXBuffers PROVE SendFrameAt(full(k), frames, k + 1) = full(k + 1)
  <2>0. k \in Nat /\ k \in 0 .. 2
    BY DEF TXBuffers
  <2>1. CASE k < Len(frames)
    <3>1. \A b \in TXBuffers : full(k)[b] # NoFrame <=> b < k
      BY <2>0, <2>1 DEF TXBuffers
    <3>2. Pending(full(k)) = {b \in TXBuffers : b < k}
      BY <3>1 DEF Pending
    <3>3. k \in TXBuffers \ Pending(full(k)) /\ \A b \in TXBuffers \ Pending(full(k)) : k <= b
      BY <3>2 DEF TXBuffers
    <3> DEFINE free == TXBuffers \ Pending(full(k))
    <3>4. Min(free) = k
      <4>1. \E x \in free : \A y \in free : x <= y
        BY <3>3
      <4>2. Min(free) \in free /\ \A y \in free : Min(free) <= y
        BY <4>1 DEF Min
      <4>3. QED
        BY <4>2, <3>3 DEF TXBuffers
    <3>5. ~AllTxBusy(full(k))
      BY <3>3 DEF AllTxBusy
    <3>6. SendFrame(full(k), frames[k + 1]) = [full(k) EXCEPT ![k] = frames[k + 1]]
      BY <3>4, <3>5 DEF SendFrame
    <3>7. [full(k) EXCEPT ![k] = frames[k + 1]] = full(k + 1)
      <4> DEFINE next == [full(k) EXCEPT ![k] = frames[k + 1]]
      <4>1. ASSUME NEW b \in TXBuffers PROVE next[b] = full(k + 1)[b]
        <5>1. CASE b = k
          BY <5>1, <2>0, <2>1
        <5>2. CASE b # k
          <6>1. b < k + 1 <=> b < k
            BY <2>0, <5>2 DEF TXBuffers
          <6>2. next[b] = full(k)[b]
            BY <5>2
          <6>3. QED
            BY <6>1, <6>2
        <5>3. QED
          BY <5>1, <5>2
      <4>2. /\ next = [b \in TXBuffers |-> next[b]]
            /\ full(k + 1) = [b \in TXBuffers |-> full(k + 1)[b]]
        OBVIOUS
      <4> HIDE DEF next, full
      <4>3. QED
        BY <4>1, <4>2 DEF next
    <3> HIDE DEF full
    <3>8. k + 1 <= Len(frames)
      BY <2>0, <2>1
    <3>9. QED
      BY <3>6, <3>7, <3>8 DEF SendFrameAt
  <2>2. CASE ~(k < Len(frames))
    <3>1. full(k + 1) = full(k)
      BY <2>0, <2>2 DEF TXBuffers
    <3>2. ~(k + 1 <= Len(frames))
      BY <2>0, <2>2
    <3> HIDE DEF full
    <3>3. QED
      BY <3>1, <3>2 DEF SendFrameAt
  <2>3. QED
    BY <2>1, <2>2
<1>2. NothingPending = full(0)
  BY DEF NothingPending, TXBuffers
<1>3. /\ SendFrameAt(full(0), frames, 1) = full(1)
      /\ SendFrameAt(full(1), frames, 2) = full(2)
      /\ SendFrameAt(full(2), frames, 3) = full(3)
  <2>1. 0 \in TXBuffers /\ 1 \in TXBuffers /\ 2 \in TXBuffers
    BY DEF TXBuffers
  <2>2. QED
    BY <2>1, <1>1
<1>4. full(3) = [b \in TXBuffers |-> IF b < Len(frames) THEN frames[b + 1] ELSE NoFrame]
  BY DEF TXBuffers
<1> HIDE DEF full
<1>5. QED
  BY <1>2, <1>3, <1>4 DEF SendFrames

\* A node with nothing pending has empty buffers.
LEMMA BuffersEmpty ==
  ASSUME Typed, NEW n \in Nodes
  PROVE  Pending(tx[n]) = {} <=> tx[n] = NothingPending
<1>1. tx[n] \in [TXBuffers -> Messages \cup {NoFrame}]
  BY DEF Typed
<1>2. ASSUME Pending(tx[n]) = {} PROVE tx[n] = NothingPending
  BY <1>1, <1>2 DEF Pending, NothingPending
<1>3. Pending(NothingPending) = {}
  BY DEF Pending, NothingPending
<1>4. QED
  BY <1>2, <1>3

\* A frame starts a run or carries a part of a proposal.
LEMMA TwoMessages ==
  /\ NoFrame \notin Messages /\ ~IsProposal(NoFrame) /\ NoFrame.type # "DO_CONSENSUS"
  /\ \A f \in Messages : f.type # "DO_CONSENSUS" <=> IsProposal(f)
  /\ \A r : ~IsProposal(DoConsensus(r)) /\ DoConsensus(r).type = "DO_CONSENSUS"
  /\ \A r, m, i, k : IsProposal(ProposalFrame(r, m, i, k))
                     /\ ProposalFrame(r, m, i, k).type # "DO_CONSENSUS"
<1>1. \A r : DoConsensus(r).type = "DO_CONSENSUS"
  BY DEF DoConsensus
<1>2. \A r, m, i, k : ProposalFrame(r, m, i, k).type = "CONSENSUS"
  BY DEF ProposalFrame
<1>3. NoFrame.type = "none"
  BY DEF NoFrame
<1>4. \A f \in Messages : f.type \in {"DO_CONSENSUS", "CONSENSUS"}
  BY <1>1, <1>2 DEF Messages
<1>5. QED
  BY <1>1, <1>2, <1>3, <1>4 DEF IsProposal

\* How far a node is, in the values of its variables.
LEMMA ProgressType ==
  ASSUME Typed, OffInv, NEW n \in Nodes
  PROVE  /\ doneNow[n] = Completed(n) /\ sentNow[n] = Proposed(n)
         /\ Completed(n) \in 0 .. MaxIter
         /\ Proposed(n) \in {Completed(n), Completed(n) + 1} /\ Proposed(n) <= MaxIter
         /\ Behind(n) => Completed(n) = 0 /\ Proposed(n) = 0
<1>1. numIter[n] \in Nat /\ numIter[n] < MaxIter /\ MaxIter \in Nat \ {0}
  BY ConsensusConstants DEF Typed, OffInv
<1>2. QED
  BY <1>1 DEF Completed, Proposed, doneNow, sentNow

\* What a node has counted while it is OFF, or behind, is nothing.
LEMMA NothingCounted ==
  ASSUME NEW got, Counted(got), NEW sent, NEW done, NEW buffers, NEW path, NEW r,
         Exchange(r, done, sent, buffers, path, got), NEW n \in Nodes,
         numberOfMsgReceived[n] = 0
  PROVE  got[n] = {}
  BY FS_EmptySet DEF Counted, Exchange, ArrivedOnce

\* Consensus::init() in the values of the variables.
LEMMA RestartEffect ==
  ASSUME Typed, NEW a \in Nodes, NEW r \in Nat, ConsensusInit(a, r)
  PROVE  /\ consensusState' \in [Nodes -> {"OFF", "ITERATE", "WAITING"}]
         /\ numIter' \in [Nodes -> Nat] /\ numberOfMsgReceived' \in [Nodes -> Nat]
         /\ receivedDutyCycle' = [n \in Nodes |-> receivedDutyCycle'[n]]
         /\ dutyCycleAv' = [n \in Nodes |-> dutyCycleAv'[n]]
         /\ luxRefAfterConsensus' = luxRefAfterConsensus /\ run' \in [Nodes -> Nat]
         /\ consensusState'[a] = "ITERATE" /\ numIter'[a] = 0 /\ numberOfMsgReceived'[a] = 0
         /\ dutyCycleAv'[a] = NoAverage /\ run'[a] = r
         /\ \A j \in Nodes : receivedDutyCycle'[a][j] = {}
         /\ \A n \in Nodes \ {a} :
              /\ consensusState'[n] = consensusState[n] /\ numIter'[n] = numIter[n]
              /\ numberOfMsgReceived'[n] = numberOfMsgReceived[n]
              /\ receivedDutyCycle'[n] = receivedDutyCycle[n]
              /\ dutyCycleAv'[n] = dutyCycleAv[n] /\ run'[n] = run[n]
<1>1. \A j \in Nodes : j \in 0 .. NumNodes
  BY ConsensusConstants DEF Nodes
<1>2. receivedDutyCycle' = [n \in Nodes |-> receivedDutyCycle'[n]]
      /\ (\A j \in Nodes : receivedDutyCycle'[a][j] = {})
      /\ \A n \in Nodes \ {a} : receivedDutyCycle'[n] = receivedDutyCycle[n]
  BY <1>1 DEF Typed, ConsensusInit
<1>3. QED
  BY <1>2 DEF Typed, ConsensusInit

\* The sums of a node that starts over are those of no frames.
LEMMA CountedReset ==
  ASSUME Typed, NEW a \in Nodes, NEW r \in Nat, ConsensusInit(a, r),
         NEW got, Counted(got), got[a] = {}
  PROVE  Counted(got)'
<1> SUFFICES ASSUME NEW n \in Nodes
             PROVE  /\ numberOfMsgReceived'[n] = Cardinality(got[n])
                    /\ \A j \in Nodes : receivedDutyCycle'[n][j] =
                         {Entry(f.from, f.run, f.iter, j) :
                            f \in {g \in got[n] : Carries(g.msgI, j)}}
  BY DEF Counted
<1>1. CASE n = a
  <2>1. numberOfMsgReceived'[a] = 0 /\ \A j \in Nodes : receivedDutyCycle'[a][j] = {}
    BY RestartEffect
  <2>2. Cardinality(got[a]) = 0
    BY FS_EmptySet
  <2>3. \A j \in Nodes : {Entry(f.from, f.run, f.iter, j) :
                            f \in {g \in got[a] : Carries(g.msgI, j)}} = {}
    OBVIOUS
  <2>4. QED
    BY <1>1, <2>1, <2>2, <2>3
<1>2. CASE n # a
  <2>1. /\ numberOfMsgReceived'[n] = numberOfMsgReceived[n]
        /\ receivedDutyCycle'[n] = receivedDutyCycle[n]
    BY <1>2, RestartEffect
  <2>2. QED
    BY <2>1 DEF Counted
<1>3. QED
  BY <1>1, <1>2

\* A node that was told of no run has an average of none.
LEMMA NoAveragePure == Pure(NoAverage)
  BY DEF Pure, NoAverage

\* The first run: nobody has sent anything.
LEMMA FirstRunKeeps ==
  ASSUME Orderly, NEW a \in Nodes, CalibrationDone(a), runs = 0
  PROVE  Orderly'
<1>0. Typed /\ OffInv /\ SetPointInv /\ BeforeInv /\ StartInv /\ PureInv
  BY DEF Orderly
<1>1. /\ ConsensusInit(a, 1) /\ runs' = 1 /\ tx' = tx /\ inbox' = inbox
  BY DEF CalibrationDone
<1>2. \A n \in Nodes : run[n] = 0 /\ consensusState[n] = "OFF"
                       /\ tx[n] = NothingPending /\ inbox[n] = <<>>
  BY <1>0 DEF BeforeInv
<1>e. /\ consensusState'[a] = "ITERATE" /\ numIter'[a] = 0 /\ numberOfMsgReceived'[a] = 0
      /\ dutyCycleAv'[a] = NoAverage /\ run'[a] = 1
      /\ \A j \in Nodes : receivedDutyCycle'[a][j] = {}
      /\ luxRefAfterConsensus' = luxRefAfterConsensus
      /\ \A n \in Nodes \ {a} :
           /\ consensusState'[n] = consensusState[n] /\ numIter'[n] = numIter[n]
           /\ numberOfMsgReceived'[n] = numberOfMsgReceived[n]
           /\ receivedDutyCycle'[n] = receivedDutyCycle[n]
           /\ dutyCycleAv'[n] = dutyCycleAv[n] /\ run'[n] = run[n]
  BY <1>0, <1>1, RestartEffect
<1>3. Typed'
  BY <1>0, <1>1, RestartEffect DEF Typed
<1>4. OffInv'
  BY <1>0, <1>2, <1>e, <1>1, ConsensusConstants DEF OffInv, Behind
<1>5. SetPointInv'
  BY <1>0, <1>1, <1>e DEF SetPointInv, Typed
<1>6. BeforeInv' /\ PureInv'
  BY <1>0, <1>1, <1>e, NoAveragePure DEF BeforeInv, PureInv
<1>7. ~IsProposal(NoFrame) /\ NoFrame.type # "DO_CONSENSUS"
  BY TwoMessages
<1>8. \A n \in Nodes, b \in TXBuffers : tx[n][b] = NoFrame
  BY <1>2 DEF NothingPending
<1>9. StartInv'
  BY <1>1, <1>2, <1>7, <1>8 DEF StartInv
<1>10. ExchangeInv'
  <2> DEFINE got == [n \in Nodes |-> {}]
  <2>1. \A n \in Nodes : Completed(n)' = 0 /\ Proposed(n)' = 0
    BY <1>e, <1>1, <1>2 DEF Completed, Proposed, Behind
  <2>2. \A n \in Nodes : doneNow'[n] = 0 /\ sentNow'[n] = 0
    BY <2>1 DEF doneNow, sentNow
  <2>3. \A n \in Nodes : got[n] = {}
    OBVIOUS
  <2>4. Counted(got)'
    <3>1. \A n \in Nodes : numberOfMsgReceived'[n] = 0
                           /\ \A j \in Nodes : receivedDutyCycle'[n][j] = {}
      BY <1>0, <1>2, <1>e DEF OffInv
    <3>2. QED
      BY <3>1, FS_EmptySet DEF Counted
  <2> HIDE DEF got
  <2>5. \A n \in Nodes : \A p \in 1 .. Len(inbox'[n]) : ~IsProposal(inbox'[n][p])
    BY <1>1, <1>2
  <2>6. Exchange(runs', doneNow', sentNow', tx', inbox', got)
    BY <2>2, <2>3, <2>5, <1>1, <1>7, <1>8, FreshExchange
  <2>7. QED
    BY <2>4, <2>6 DEF ExchangeInv
<1>11. QED
  BY <1>3, <1>4, <1>5, <1>6, <1>9, <1>10 DEF Orderly

(***************************************************************************)
(* A node that is behind takes up the run: what it had counted and sent is *)
(* nothing, before and after.                                              *)
(***************************************************************************)
LEMMA CatchUpKeeps ==
  ASSUME Orderly, NEW a \in Nodes, Behind(a), ConsensusInit(a, runs), runs' = runs
  PROVE  /\ OffInv' /\ SetPointInv' /\ PureInv' /\ doneNow' = doneNow /\ sentNow' = sentNow
         /\ runs # 0 /\ ~Behind(a)' /\ \A n \in Nodes \ {a} : Behind(n)' <=> Behind(n)
         /\ \A got, done, sent, buffers, path, r :
              Counted(got) /\ Exchange(r, done, sent, buffers, path, got) => Counted(got)'
<1>0. Typed /\ OffInv /\ SetPointInv /\ PureInv /\ runs \in Nat
  BY DEF Orderly, Typed
<1>e. /\ consensusState'[a] = "ITERATE" /\ numIter'[a] = 0 /\ numberOfMsgReceived'[a] = 0
      /\ dutyCycleAv'[a] = NoAverage /\ run'[a] = runs
      /\ luxRefAfterConsensus' = luxRefAfterConsensus
      /\ \A n \in Nodes \ {a} :
           /\ consensusState'[n] = consensusState[n] /\ numIter'[n] = numIter[n]
           /\ numberOfMsgReceived'[n] = numberOfMsgReceived[n]
           /\ receivedDutyCycle'[n] = receivedDutyCycle[n]
           /\ dutyCycleAv'[n] = dutyCycleAv[n] /\ run'[n] = run[n]
  BY <1>0, RestartEffect
<1>1. runs # 0 /\ consensusState[a] = "OFF" /\ numberOfMsgReceived[a] = 0
  BY <1>0 DEF OffInv
<1>2. ~Behind(a)' /\ \A n \in Nodes \ {a} : Behind(n)' <=> Behind(n)
  BY <1>e DEF Behind
<1>3. OffInv'
  BY <1>0, <1>2, <1>e, ConsensusConstants DEF OffInv
<1>4. SetPointInv'
  BY <1>0, <1>2, <1>e DEF SetPointInv
<1>5. PureInv'
  BY <1>0, <1>e, NoAveragePure DEF PureInv
<1>6. \A n \in Nodes : Completed(n)' = Completed(n) /\ Proposed(n)' = Proposed(n)
  BY <1>2, <1>e DEF Completed, Proposed
<1>7. doneNow' = doneNow /\ sentNow' = sentNow
  BY <1>6 DEF doneNow, sentNow
<1>8. ASSUME NEW got, NEW done, NEW sent, NEW buffers, NEW path, NEW r,
             Counted(got), Exchange(r, done, sent, buffers, path, got)
      PROVE  Counted(got)'
  <2>1. got[a] = {}
    BY <1>1, <1>8, NothingCounted
  <2>2. QED
    BY <2>1, <1>0, <1>8, CountedReset
<1>9. QED
  BY <1>1, <1>2, <1>3, <1>4, <1>5, <1>7, <1>8

\* The first run at a node whose calibration ends later.
LEMMA LaterCalibrationKeeps ==
  ASSUME Orderly, NEW a \in Nodes, CalibrationDone(a), runs # 0
  PROVE  Orderly'
<1>0. Typed /\ OffInv /\ SetPointInv /\ BeforeInv /\ StartInv /\ PureInv /\ ExchangeInv
  BY DEF Orderly
<1>1. /\ ConsensusInit(a, 1) /\ runs' = runs /\ tx' = tx /\ inbox' = inbox /\ run[a] = 0
  BY DEF CalibrationDone
<1>2. Behind(a) /\ runs = 1
  BY <1>0, <1>1 DEF OffInv, Behind, Typed
<1>3. /\ OffInv' /\ SetPointInv' /\ PureInv' /\ doneNow' = doneNow /\ sentNow' = sentNow
      /\ \A got, done, sent, buffers, path, r :
           Counted(got) /\ Exchange(r, done, sent, buffers, path, got) => Counted(got)'
  BY <1>1, <1>2, CatchUpKeeps
<1>4. Typed'
  BY <1>0, <1>1, RestartEffect DEF Typed
<1>5. BeforeInv'
  BY <1>1, <1>2 DEF BeforeInv
<1>6. StartInv'
  BY <1>0, <1>1, <1>2 DEF StartInv, Announcing
<1>7. ExchangeInv'
  <2>1. PICK got : Counted(got) /\ Exchange(runs, doneNow, sentNow, tx, inbox, got)
    BY <1>0, <1>2 DEF ExchangeInv
  <2>2. Counted(got)'
    BY <2>1, <1>3
  <2>3. Exchange(runs', doneNow', sentNow', tx', inbox', got)
    BY <2>1, <1>1, <1>3
  <2>4. QED
    BY <2>2, <2>3 DEF ExchangeInv
<1>8. QED
  BY <1>3, <1>4, <1>5, <1>6, <1>7 DEF Orderly

\* A command: every node has finished the run before, and nothing is on its way.
LEMMA CommandKeeps ==
  ASSUME Orderly, NEW a \in Nodes, Command(a), ~mixed'
  PROVE  Orderly'
<1>0. Typed /\ OffInv /\ SetPointInv /\ BeforeInv /\ StartInv /\ PureInv /\ ExchangeInv
  BY DEF Orderly
<1>1. /\ ConsensusInit(a, runs + 1) /\ runs' = runs + 1 /\ inbox' = inbox /\ runs + 1 \in Nat
      /\ tx' = [tx EXCEPT ![a] = SendFrames(tx[a], <<DoConsensus(runs + 1)>>)]
      /\ Idle /\ run[a] # 0
  <2>1. Idle
    BY Zenon DEF Command
  <2>2. runs + 1 \in Nat
    BY <1>0 DEF Typed
  <2>3. tx' = [tx EXCEPT ![a] = SendFrames(tx[a], <<DoConsensus(runs + 1)>>)]
    BY Zenon DEF Command, Broadcast
  <2>4. QED
    BY <2>1, <2>2, <2>3, Zenon DEF Command
<1>2. \A n \in Nodes : consensusState[n] = "OFF" /\ run[n] # 0
                       /\ tx[n] = NothingPending /\ inbox[n] = <<>>
  BY <1>0, <1>1, BuffersEmpty DEF Idle
<1>3. ASSUME NEW n \in Nodes PROVE ~Behind(n)
  <2>1. ASSUME NEW c \in Nodes PROVE ~Announcing(c)
    <3>1. tx[c][0] = NoFrame
      BY <1>2 DEF NothingPending, TXBuffers
    <3>2. NoFrame # DoConsensus(runs)
      BY TwoMessages
    <3>3. QED
      BY <3>1, <3>2 DEF Announcing, TXBuffers
  <2>2. runs > 1 => ~Behind(n)
    BY <2>1, <1>0, <1>2 DEF StartInv
  <2>3. Behind(n) => runs > 1
    BY <1>0, <1>2 DEF OffInv, Typed
  <2>4. QED
    BY <2>2, <2>3
<1>4. \A n \in Nodes : run[n] = runs
  BY <1>3 DEF Behind
<1>5. runs \in Nat /\ runs >= 1
  BY <1>0, <1>1, <1>4 DEF Typed
<1>e. /\ consensusState'[a] = "ITERATE" /\ numIter'[a] = 0 /\ numberOfMsgReceived'[a] = 0
      /\ dutyCycleAv'[a] = NoAverage /\ run'[a] = runs + 1
      /\ \A j \in Nodes : receivedDutyCycle'[a][j] = {}
      /\ luxRefAfterConsensus' = luxRefAfterConsensus
      /\ \A n \in Nodes \ {a} :
           /\ consensusState'[n] = consensusState[n] /\ numIter'[n] = numIter[n]
           /\ numberOfMsgReceived'[n] = numberOfMsgReceived[n]
           /\ receivedDutyCycle'[n] = receivedDutyCycle[n]
           /\ dutyCycleAv'[n] = dutyCycleAv[n] /\ run'[n] = run[n]
  BY <1>0, <1>1, RestartEffect
<1>6. ~Behind(a)' /\ \A n \in Nodes \ {a} : Behind(n)'
  BY <1>1, <1>4, <1>5, <1>e DEF Behind
<1>7. SendFrames(tx[a], <<DoConsensus(runs + 1)>>)
        = [b \in TXBuffers |-> IF b = 0 THEN DoConsensus(runs + 1) ELSE NoFrame]
  <2> DEFINE frames == <<DoConsensus(runs + 1)>>
  <2>1. Len(frames) = 1 /\ frames[1] = DoConsensus(runs + 1) /\ frames[1] # NoFrame
    BY TwoMessages
  <2> HIDE DEF frames
  <2>2. SendFrames(NothingPending, frames)
          = [b \in TXBuffers |-> IF b < Len(frames) THEN frames[b + 1] ELSE NoFrame]
    BY <2>1, BuffersFilled
  <2>3. \A b \in TXBuffers : (b < 1 <=> b = 0) /\ 0 + 1 = 1
    BY DEF TXBuffers
  <2>4. QED
    BY <2>1, <2>2, <2>3, <1>2 DEF frames
<1>8. /\ tx'[a] = [b \in TXBuffers |-> IF b = 0 THEN DoConsensus(runs') ELSE NoFrame]
      /\ \A n \in Nodes \ {a} : tx'[n] = NothingPending
      /\ tx' = [n \in Nodes |-> tx'[n]]
  BY <1>0, <1>1, <1>2, <1>7 DEF Typed
<1>9. Typed'
  <2>1. DoConsensus(runs') \in Messages
    BY <1>1 DEF Messages
  <2>2. tx' \in [Nodes -> [TXBuffers -> Messages \cup {NoFrame}]]
    BY <2>1, <1>8 DEF NothingPending
  <2>3. QED
    BY <2>2, <1>0, <1>1, RestartEffect DEF Typed
<1>10. OffInv'
  BY <1>0, <1>1, <1>2, <1>4, <1>5, <1>6, <1>e, ConsensusConstants DEF OffInv
<1>11. SetPointInv'
  BY <1>0, <1>1, <1>5, <1>e DEF SetPointInv, Typed
<1>12. BeforeInv' /\ PureInv'
  BY <1>0, <1>1, <1>5, <1>e, NoAveragePure DEF BeforeInv, PureInv
<1>13. Announcing(a)'
  BY <1>1, <1>2, <1>5, <1>6, <1>8, <1>e DEF Announcing
<1>14. StartInv'
  <2>1. \A m \in Nodes, b \in TXBuffers : tx'[m][b].type = "DO_CONSENSUS" => m = a
    BY <1>8, TwoMessages DEF NothingPending
  <2>2. \A n \in Nodes : 1 .. Len(inbox'[n]) = {}
    BY <1>1, <1>2
  <2>3. QED
    BY <2>1, <2>2, <1>13 DEF StartInv
<1>15. ExchangeInv'
  <2> DEFINE got == [n \in Nodes |-> {}]
  <2>1. \A n \in Nodes : Completed(n)' = 0 /\ Proposed(n)' = 0
    BY <1>e, <1>6 DEF Completed, Proposed
  <2>2. \A n \in Nodes : doneNow'[n] = 0 /\ sentNow'[n] = 0
    BY <2>1 DEF doneNow, sentNow
  <2>3. \A n \in Nodes : got[n] = {}
    OBVIOUS
  <2>4. Counted(got)'
    <3>1. \A n \in Nodes : numberOfMsgReceived'[n] = 0
                           /\ \A j \in Nodes : receivedDutyCycle'[n][j] = {}
      BY <1>0, <1>2, <1>e DEF OffInv
    <3>2. QED
      BY <3>1, FS_EmptySet DEF Counted
  <2> HIDE DEF got
  <2>5. \A n \in Nodes : \A p \in 1 .. Len(inbox'[n]) : ~IsProposal(inbox'[n][p])
    BY <1>1, <1>2
  <2>6. \A n \in Nodes, b \in TXBuffers : ~IsProposal(tx'[n][b])
    BY <1>8, TwoMessages DEF NothingPending
  <2>7. Exchange(runs', doneNow', sentNow', tx', inbox', got)
    BY <2>2, <2>3, <2>5, <2>6, FreshExchange
  <2>8. QED
    BY <2>4, <2>7 DEF ExchangeInv
<1>16. QED
  BY <1>9, <1>10, <1>11, <1>12, <1>14, <1>15 DEF Orderly

\* The rest of a path.
LEMMA PathTail ==
  ASSUME Typed, NEW a \in Nodes, inbox[a] # <<>>, inbox' = [inbox EXCEPT ![a] = Tail(@)]
  PROVE  /\ Len(inbox[a]) \in Nat \ {0} /\ Head(inbox[a]) = inbox[a][1]
         /\ inbox[a][1] \in Messages
         /\ inbox' \in [Nodes -> Seq(Messages)]
         /\ Len(inbox'[a]) = Len(inbox[a]) - 1
         /\ \A p \in 1 .. Len(inbox'[a]) :
              p + 1 \in 2 .. Len(inbox[a]) /\ inbox'[a][p] = inbox[a][p + 1]
         /\ \A n \in Nodes \ {a} : inbox'[n] = inbox[n]
<1>1. inbox[a] \in Seq(Messages) /\ inbox'[a] = Tail(inbox[a])
  BY DEF Typed
<1>2. /\ Tail(inbox[a]) \in Seq(Messages) /\ Len(Tail(inbox[a])) = Len(inbox[a]) - 1
      /\ Len(inbox[a]) \in Nat \ {0} /\ Head(inbox[a]) = inbox[a][1]
      /\ \A p \in 1 .. Len(inbox[a]) - 1 : Tail(inbox[a])[p] = inbox[a][p + 1]
  BY <1>1
<1>3. inbox[a][1] \in Messages
  BY <1>1, <1>2
<1>4. \A p \in 1 .. Len(inbox'[a]) : p + 1 \in 2 .. Len(inbox[a])
  <2>1. \A k \in Nat : \A p \in 1 .. k - 1 : p + 1 \in 2 .. k
    OBVIOUS
  <2>2. Len(inbox'[a]) = Len(inbox[a]) - 1
    BY <1>1, <1>2
  <2>3. QED
    BY <2>1, <2>2, <1>2
<1>5. QED
  BY <1>1, <1>2, <1>3, <1>4 DEF Typed

\* While a node has something in its path, no run is being announced.
LEMMA NoneAnnouncing ==
  ASSUME NEW a \in Nodes, inbox[a] # <<>>
  PROVE  \A c \in Nodes : ~Announcing(c)
  BY DEF Announcing

\* A node learns of the latest run.
LEMMA StartKeeps ==
  ASSUME Orderly, NEW a \in Nodes, ReceiveDoConsensus(a)
  PROVE  Orderly'
<1>0. Typed /\ OffInv /\ SetPointInv /\ BeforeInv /\ StartInv /\ PureInv /\ ExchangeInv
  BY DEF Orderly
<1>1. /\ inbox[a] # <<>> /\ Head(inbox[a]).type = "DO_CONSENSUS"
      /\ inbox' = [inbox EXCEPT ![a] = Tail(@)]
      /\ ConsensusInit(a, Head(inbox[a]).run) /\ runs' = runs /\ tx' = tx
  BY DEF ReceiveDoConsensus, Receives
<1>2. /\ Len(inbox[a]) \in Nat \ {0} /\ Head(inbox[a]) = inbox[a][1]
      /\ inbox[a][1] \in Messages
      /\ inbox' \in [Nodes -> Seq(Messages)]
      /\ Len(inbox'[a]) = Len(inbox[a]) - 1
      /\ \A p \in 1 .. Len(inbox'[a]) :
           p + 1 \in 2 .. Len(inbox[a]) /\ inbox'[a][p] = inbox[a][p + 1]
      /\ \A n \in Nodes \ {a} : inbox'[n] = inbox[n]
  BY <1>0, <1>1, PathTail
<1>3. runs > 1 /\ Behind(a) /\ inbox[a][1] = DoConsensus(runs)
  BY <1>0, <1>1, <1>2 DEF StartInv
<1>4. ConsensusInit(a, runs) /\ runs \in Nat
  BY <1>0, <1>1, <1>2, <1>3 DEF DoConsensus, Typed
<1>5. /\ OffInv' /\ SetPointInv' /\ PureInv' /\ doneNow' = doneNow /\ sentNow' = sentNow
      /\ runs # 0 /\ ~Behind(a)' /\ \A n \in Nodes \ {a} : Behind(n)' <=> Behind(n)
      /\ \A got, done, sent, buffers, path, r :
           Counted(got) /\ Exchange(r, done, sent, buffers, path, got) => Counted(got)'
  BY <1>1, <1>3, <1>4, CatchUpKeeps
<1>6. Typed'
  BY <1>0, <1>1, <1>2, <1>4, RestartEffect, SMTT(30) DEF Typed
<1>7. BeforeInv'
  BY <1>1, <1>5 DEF BeforeInv
<1>8. \A c \in Nodes : ~Announcing(c)
  BY <1>1, NoneAnnouncing
<1>9. StartInv'
  <2>1. \A m \in Nodes, b \in TXBuffers : tx'[m][b].type # "DO_CONSENSUS"
    BY <1>0, <1>1, <1>8 DEF StartInv
  <2>2. \A p \in 1 .. Len(inbox'[a]) : inbox'[a][p].type # "DO_CONSENSUS"
    BY <1>0, <1>2 DEF StartInv
  <2>3. ASSUME NEW n \in Nodes \ {a}
        PROVE  /\ \A p \in 1 .. Len(inbox'[n]) : inbox'[n][p].type = "DO_CONSENSUS" =>
                    runs' > 1 /\ Behind(n)' /\ p = 1 /\ inbox'[n][p] = DoConsensus(runs')
               /\ Behind(n)' => inbox'[n] # <<>> /\ inbox'[n][1] = DoConsensus(runs')
    BY <1>0, <1>1, <1>2, <1>3, <1>5, <1>8 DEF StartInv
  <2>4. QED
    BY <2>1, <2>2, <2>3, <1>5 DEF StartInv
<1>10. ExchangeInv'
  <2>1. PICK got : Counted(got) /\ Exchange(runs, doneNow, sentNow, tx, inbox, got)
    BY <1>0, <1>5 DEF ExchangeInv
  <2>2. Counted(got)'
    BY <2>1, <1>5
  <2>3. ~IsProposal(inbox[a][1])
    BY <1>3, TwoMessages
  <2>4. Exchange(runs, doneNow, sentNow, tx, inbox', got)
    BY <2>1, <2>3, <1>2, StartTaken
  <2>5. Exchange(runs', doneNow', sentNow', tx', inbox', got)
    BY <2>4, <1>1, <1>5
  <2>6. QED
    BY <2>2, <2>5 DEF ExchangeInv
<1>11. QED
  BY <1>5, <1>6, <1>7, <1>9, <1>10 DEF Orderly

\* What a frame adds to the sum of entry j is that entry of its proposal.
LEMMA EntriesAdded ==
  ASSUME NEW f, NEW j \in Nodes
  PROVE  {Entry(f.from, f.run, f.iter, EntryInSlot(f.msgI, i)) :
            i \in {s \in SlotsRead(f.msgI) : f.msgI * FrameSlots + s = j}}
         = IF Carries(f.msgI, j) THEN {Entry(f.from, f.run, f.iter, j)} ELSE {}
<1> DEFINE slots == {s \in SlotsRead(f.msgI) : f.msgI * FrameSlots + s = j}
<1>1. j < NumNodes /\ j <= NumNodes
  BY ConsensusConstants DEF Nodes
<1>2. \A i \in slots : EntryInSlot(f.msgI, i) = j
  BY <1>1 DEF EntryInSlot
<1>3. Carries(f.msgI, j) <=> slots # {}
  BY <1>1 DEF Carries, SlotsRead
<1> HIDE DEF slots
<1>4. CASE slots = {}
  BY <1>3, <1>4 DEF slots
<1>5. CASE slots # {}
  <2>1. PICK i \in slots : TRUE
    BY <1>5
  <2>2. {Entry(f.from, f.run, f.iter, EntryInSlot(f.msgI, s)) : s \in slots}
          = {Entry(f.from, f.run, f.iter, j)}
    BY <2>1, <1>2
  <2>3. QED
    BY <2>2, <1>3, <1>5 DEF slots
<1>6. QED
  BY <1>4, <1>5

\* A node that has finished the run has nothing to count.
LEMMA CountsInRun ==
  ASSUME Orderly, NEW a \in Nodes, inbox[a] # <<>>, IsProposal(Head(inbox[a])), run[a] # 0
  PROVE  runs # 0 /\ ~Behind(a) /\ consensusState[a] # "OFF"
<1>0. Typed /\ OffInv /\ BeforeInv /\ StartInv /\ ExchangeInv
  BY DEF Orderly
<1>1. /\ Len(inbox[a]) \in Nat \ {0} /\ Head(inbox[a]) = inbox[a][1]
      /\ 1 \in 1 .. Len(inbox[a])
  <2>1. inbox[a] \in Seq(Messages)
    BY <1>0 DEF Typed
  <2>2. QED
    BY <2>1
<1>2. runs # 0
  BY <1>0 DEF BeforeInv
<1>3. ~Behind(a)
  <2>1. \A c \in Nodes : ~Announcing(c)
    BY NoneAnnouncing
  <2>2. Behind(a) => runs > 1
    BY <1>0 DEF OffInv, Typed
  <2>3. inbox[a][1] # DoConsensus(runs)
    BY <1>1, TwoMessages
  <2>4. QED
    BY <2>1, <2>2, <2>3, <1>0 DEF StartInv
<1>4. consensusState[a] # "OFF"
  <2>1. PICK got : Counted(got) /\ Exchange(runs, doneNow, sentNow, tx, inbox, got)
    BY <1>0, <1>2 DEF ExchangeInv
  <2> DEFINE f == inbox[a][1]
  <2>2. Arrived(runs, doneNow, sentNow, tx, a, f)
    BY <2>1, <1>1 DEF Exchange, ArrivedOnce
  <2>3. f.from \in Nodes /\ f.iter \in Nat /\ doneNow[a] <= f.iter /\ f.iter < sentNow[f.from]
    BY <2>2 DEF Arrived
  <2> HIDE DEF f
  <2>4. sentNow[f.from] <= MaxIter /\ sentNow[f.from] \in Nat
    <3>1. /\ sentNow[f.from] = Proposed(f.from) /\ Proposed(f.from) <= MaxIter
          /\ Completed(f.from) \in 0 .. MaxIter
          /\ Proposed(f.from) \in {Completed(f.from), Completed(f.from) + 1}
      BY <2>3, <1>0, ProgressType
    <3>2. QED
      BY <3>1
  <2>5. doneNow[a] < MaxIter
    BY <2>3, <2>4, <1>0, ProgressType, ConsensusConstants
  <2>6. consensusState[a] = "OFF" => doneNow[a] = MaxIter
    BY <1>3 DEF doneNow, Completed
  <2>7. QED
    BY <2>5, <2>6, ConsensusConstants
<1>5. QED
  BY <1>2, <1>3, <1>4

\* A node counts a frame, and adds up what it carries.
LEMMA CountedMore ==
  ASSUME NEW a \in Nodes, NEW f, NEW got, NEW got2, Typed, Counted(got),
         f \notin got[a], IsFiniteSet(got[a]), got2[a] = got[a] \cup {f},
         \A n \in Nodes \ {a} : got2[n] = got[n],
         numberOfMsgReceived' = [numberOfMsgReceived EXCEPT ![a] = @ + 1],
         receivedDutyCycle' = [receivedDutyCycle EXCEPT ![a] =
           [j \in 0 .. NumNodes |->
              @[j] \union {Entry(f.from, f.run, f.iter, EntryInSlot(f.msgI, i)) :
                             i \in {s \in SlotsRead(f.msgI) : f.msgI * FrameSlots + s = j}}]]
  PROVE  Counted(got2)'
<1> DEFINE sum(g, j) == {Entry(h.from, h.run, h.iter, j) : h \in {x \in g : Carries(x.msgI, j)}}
<1>1. \A j \in Nodes : j \in 0 .. NumNodes
  BY ConsensusConstants DEF Nodes
<1>2. ASSUME NEW j \in Nodes
      PROVE  receivedDutyCycle'[a][j] = sum(got2[a], j)
  <2>1. receivedDutyCycle'[a][j] = receivedDutyCycle[a][j] \cup
          {Entry(f.from, f.run, f.iter, EntryInSlot(f.msgI, i)) :
             i \in {s \in SlotsRead(f.msgI) : f.msgI * FrameSlots + s = j}}
    BY <1>1 DEF Typed
  <2>2. receivedDutyCycle[a][j] = sum(got[a], j)
    BY DEF Counted
  <2> DEFINE added == {Entry(f.from, f.run, f.iter, EntryInSlot(f.msgI, i)) :
                         i \in {s \in SlotsRead(f.msgI) : f.msgI * FrameSlots + s = j}}
  <2>3. added = IF Carries(f.msgI, j) THEN {Entry(f.from, f.run, f.iter, j)} ELSE {}
    BY EntriesAdded
  <2>4. receivedDutyCycle'[a][j] = sum(got[a], j) \cup added
    BY <2>1, <2>2
  <2> HIDE DEF added
  <2>5. CASE Carries(f.msgI, j)
    <3>1. receivedDutyCycle'[a][j] = sum(got[a], j) \cup {Entry(f.from, f.run, f.iter, j)}
      BY <2>3, <2>4, <2>5
    <3>2. sum(got[a] \cup {f}, j) = sum(got[a], j) \cup {Entry(f.from, f.run, f.iter, j)}
      BY <2>5
    <3>3. QED
      BY <3>1, <3>2
  <2>6. CASE ~Carries(f.msgI, j)
    <3>1. receivedDutyCycle'[a][j] = sum(got[a], j)
      BY <2>3, <2>4, <2>6
    <3>2. sum(got[a] \cup {f}, j) = sum(got[a], j)
      BY <2>6
    <3>3. QED
      BY <3>1, <3>2
  <2>7. QED
    BY <2>5, <2>6
<1>3. numberOfMsgReceived'[a] = Cardinality(got2[a])
  <2>1. numberOfMsgReceived'[a] = numberOfMsgReceived[a] + 1
    BY DEF Typed
  <2>2. numberOfMsgReceived[a] = Cardinality(got[a])
    BY DEF Counted
  <2>3. Cardinality(got[a] \cup {f}) = Cardinality(got[a]) + 1
    BY FS_AddElement
  <2>4. QED
    BY <2>1, <2>2, <2>3
<1>4. ASSUME NEW n \in Nodes \ {a}
      PROVE  /\ numberOfMsgReceived'[n] = Cardinality(got2[n])
             /\ \A j \in Nodes : receivedDutyCycle'[n][j] = sum(got2[n], j)
  <2>1. /\ numberOfMsgReceived'[n] = numberOfMsgReceived[n]
        /\ receivedDutyCycle'[n] = receivedDutyCycle[n] /\ got2[n] = got[n]
    BY DEF Typed
  <2>2. QED
    BY <2>1 DEF Counted
<1>5. QED
  BY <1>2, <1>3, <1>4 DEF Counted

\* A node counts the first frame in its path.
LEMMA ReceiveKeeps ==
  ASSUME Orderly, NEW a \in Nodes, ReceiveDutyCycle(a), ~mixed'
  PROVE  Orderly'
<1>0. Typed /\ OffInv /\ SetPointInv /\ BeforeInv /\ StartInv /\ PureInv /\ ExchangeInv
  BY DEF Orderly
<1> DEFINE f == Head(inbox[a])
<1>1. /\ inbox[a] # <<>> /\ f.type = "CONSENSUS" /\ run[a] # 0
      /\ inbox' = [inbox EXCEPT ![a] = Tail(@)]
      /\ numberOfMsgReceived' = [numberOfMsgReceived EXCEPT ![a] = @ + 1]
      /\ consensusState' = consensusState /\ numIter' = numIter /\ dutyCycleAv' = dutyCycleAv
      /\ luxRefAfterConsensus' = luxRefAfterConsensus
      /\ tx' = tx /\ run' = run /\ runs' = runs
  BY Zenon DEF ReceiveDutyCycle, Receives
<1>2. receivedDutyCycle' = [receivedDutyCycle EXCEPT ![a] =
           [j \in 0 .. NumNodes |->
              @[j] \union {Entry(f.from, f.run, f.iter, EntryInSlot(f.msgI, i)) :
                             i \in {s \in SlotsRead(f.msgI) : f.msgI * FrameSlots + s = j}}]]
  BY Zenon DEF ReceiveDutyCycle
<1>3. /\ Len(inbox[a]) \in Nat \ {0} /\ f = inbox[a][1] /\ inbox[a][1] \in Messages
      /\ inbox' \in [Nodes -> Seq(Messages)]
      /\ Len(inbox'[a]) = Len(inbox[a]) - 1
      /\ \A p \in 1 .. Len(inbox'[a]) :
           p + 1 \in 2 .. Len(inbox[a]) /\ inbox'[a][p] = inbox[a][p + 1]
      /\ \A n \in Nodes \ {a} : inbox'[n] = inbox[n]
  BY <1>0, <1>1, PathTail
<1>4. IsProposal(f)
  BY <1>1 DEF IsProposal
<1>5. runs # 0 /\ ~Behind(a) /\ consensusState[a] # "OFF"
  BY <1>1, <1>4, CountsInRun
<1>6. \A n \in Nodes : /\ Behind(n)' <=> Behind(n)
                       /\ Completed(n)' = Completed(n) /\ Proposed(n)' = Proposed(n)
  BY <1>1 DEF Behind, Completed, Proposed
<1>7. doneNow' = doneNow /\ sentNow' = sentNow
  BY <1>6 DEF doneNow, sentNow
<1>8. /\ numberOfMsgReceived' \in [Nodes -> Nat]
      /\ receivedDutyCycle' = [n \in Nodes |-> receivedDutyCycle'[n]]
  <2> HIDE DEF f
  <2>1. numberOfMsgReceived' \in [Nodes -> Nat]
    BY <1>0, <1>1 DEF Typed
  <2>2. receivedDutyCycle' = [n \in Nodes |-> receivedDutyCycle'[n]]
    BY <1>0, <1>2 DEF Typed
  <2>3. QED
    BY <2>1, <2>2
<1>9. Typed'
  BY <1>0, <1>1, <1>3, <1>8 DEF Typed
<1>10. \A n \in Nodes \ {a} : numberOfMsgReceived'[n] = numberOfMsgReceived[n]
                              /\ receivedDutyCycle'[n] = receivedDutyCycle[n]
  BY <1>0, <1>1, <1>2 DEF Typed
<1>11. OffInv'
  BY <1>0, <1>1, <1>5, <1>6, <1>10 DEF OffInv
<1>12. SetPointInv' /\ BeforeInv' /\ PureInv'
  BY <1>0, <1>1, <1>5, <1>6 DEF SetPointInv, BeforeInv, PureInv
<1>13. \A c \in Nodes : ~Announcing(c)
  BY <1>1, NoneAnnouncing
<1>14. StartInv'
  <2>1. \A m \in Nodes, b \in TXBuffers : tx'[m][b].type # "DO_CONSENSUS"
    BY <1>0, <1>1, <1>13 DEF StartInv
  <2>2. \A p \in 1 .. Len(inbox'[a]) : inbox'[a][p].type # "DO_CONSENSUS"
    BY <1>0, <1>3, <1>5 DEF StartInv
  <2>3. ASSUME NEW n \in Nodes \ {a}
        PROVE  /\ \A p \in 1 .. Len(inbox'[n]) : inbox'[n][p].type = "DO_CONSENSUS" =>
                    runs' > 1 /\ Behind(n)' /\ p = 1 /\ inbox'[n][p] = DoConsensus(runs')
               /\ runs' > 1 /\ Behind(n)' =>
                    inbox'[n] # <<>> /\ inbox'[n][1] = DoConsensus(runs')
    BY <1>0, <1>1, <1>3, <1>6, <1>13 DEF StartInv
  <2>4. QED
    BY <2>1, <2>2, <2>3, <1>5, <1>6 DEF StartInv
<1>15. ExchangeInv'
  <2>1. PICK got : Counted(got) /\ Exchange(runs, doneNow, sentNow, tx, inbox, got)
    BY <1>0, <1>5 DEF ExchangeInv
  <2>2. PICK g, got2 : /\ g = f
                       /\ got2 = [n \in Nodes |-> IF n = a THEN got[a] \cup {g} ELSE got[n]]
    OBVIOUS
  <2>3. got2[a] = got[a] \cup {g} /\ \A n \in Nodes \ {a} : got2[n] = got[n]
    BY <2>2
  <2>4. g \notin got[a] /\ IsFiniteSet(got[a])
    <3>1. 1 \in 1 .. Len(inbox[a])
      BY <1>3
    <3>2. QED
      BY <3>1, <2>1, <2>2, <1>3, <1>4 DEF Exchange, ArrivedOnce
  <2>5. Counted(got2)'
    <3>1. receivedDutyCycle' = [receivedDutyCycle EXCEPT ![a] =
           [j \in 0 .. NumNodes |->
              @[j] \union {Entry(g.from, g.run, g.iter, EntryInSlot(g.msgI, i)) :
                             i \in {s \in SlotsRead(g.msgI) : g.msgI * FrameSlots + s = j}}]]
      BY <1>2, <2>2, Zenon
    <3>2. numberOfMsgReceived' = [numberOfMsgReceived EXCEPT ![a] = @ + 1]
      BY <1>1
    <3>3. Counted(got) /\ Typed
      BY <2>1, <1>0
    <3> HIDE DEF f
    <3>4. QED
      BY <2>3, <2>4, <3>1, <3>2, <3>3, CountedMore
  <2>6. \A p \in 1 .. Len(inbox'[a]) : inbox'[a][p] = inbox[a][p + 1]
    BY <1>3
  <2>7. Exchange(runs, doneNow, sentNow, tx, inbox', got2)
    <3>1. IsProposal(inbox[a][1]) /\ got2[a] = got[a] \cup {inbox[a][1]}
      BY <1>3, <1>4, <2>2, <2>3
    <3>2. \A n \in Nodes \ {a} : inbox'[n] = inbox[n] /\ got2[n] = got[n]
      BY <1>3, <2>3
    <3>3. QED
      BY <3>1, <3>2, <2>1, <2>6, <1>3, CountKeeps
  <2>8. Exchange(runs, doneNow, sentNow, tx, inbox, got2)'
    BY <2>7, <1>1, <1>7
  <2>9. Counted(got2)' /\ Exchange(runs, doneNow, sentNow, tx, inbox, got2)'
    BY <2>5, <2>8
  <2>10. QED
    BY <2>9, Zenon DEF ExchangeInv
<1>16. QED
  BY <1>9, <1>11, <1>12, <1>14, <1>15 DEF Orderly

----------------------------------------------------------------------------
\* The update state in the values of the variables.
LEMMA UpdateEffect ==
  ASSUME Typed, NEW a \in Nodes, Update(a)
  PROVE  /\ consensusState' \in [Nodes -> {"OFF", "ITERATE", "WAITING"}]
         /\ numIter' \in [Nodes -> Nat] /\ numberOfMsgReceived' \in [Nodes -> Nat]
         /\ receivedDutyCycle' = [n \in Nodes |-> receivedDutyCycle'[n]]
         /\ dutyCycleAv' = [n \in Nodes |-> dutyCycleAv'[n]]
         /\ luxRefAfterConsensus' \in [Nodes -> Nat]
         /\ numberOfMsgReceived'[a] = 0
         /\ \A j \in Nodes : receivedDutyCycle'[a][j] = {}
         /\ dutyCycleAv'[a] = [run |-> run[a], iter |-> numIter[a],
              sum |-> [j \in Nodes |-> receivedDutyCycle[a][j]
                                         \union {Entry(a, run[a], numIter[a], j)}],
              div |-> numberOfMsgReceived[a] + 1]
         /\ IF numIter[a] + 1 = MaxIter
            THEN consensusState'[a] = "OFF" /\ numIter'[a] = 0
                 /\ luxRefAfterConsensus'[a] = run[a]
            ELSE consensusState'[a] = "ITERATE" /\ numIter'[a] = numIter[a] + 1
                 /\ luxRefAfterConsensus'[a] = luxRefAfterConsensus[a]
         /\ \A n \in Nodes \ {a} :
              /\ consensusState'[n] = consensusState[n] /\ numIter'[n] = numIter[n]
              /\ numberOfMsgReceived'[n] = numberOfMsgReceived[n]
              /\ receivedDutyCycle'[n] = receivedDutyCycle[n]
              /\ dutyCycleAv'[n] = dutyCycleAv[n]
              /\ luxRefAfterConsensus'[n] = luxRefAfterConsensus[n]
<1>1. \A j \in Nodes : j \in 0 .. NumNodes
  BY ConsensusConstants DEF Nodes
<1>2. /\ receivedDutyCycle' = [n \in Nodes |-> receivedDutyCycle'[n]]
      /\ \A j \in Nodes : receivedDutyCycle'[a][j] = {}
      /\ \A n \in Nodes \ {a} : receivedDutyCycle'[n] = receivedDutyCycle[n]
  <2>1. receivedDutyCycle' = [receivedDutyCycle EXCEPT ![a] = SumCleared(a)]
    BY DEF Update
  <2>2. \A j \in Nodes : SumCleared(a)[j] = {}
    BY <1>1 DEF SumCleared
  <2>3. QED
    BY <2>1, <2>2 DEF Typed
<1>3. /\ numberOfMsgReceived' \in [Nodes -> Nat] /\ numberOfMsgReceived'[a] = 0
      /\ \A n \in Nodes \ {a} : numberOfMsgReceived'[n] = numberOfMsgReceived[n]
  BY DEF Update, Typed
<1>4. /\ dutyCycleAv' = [n \in Nodes |-> dutyCycleAv'[n]]
      /\ dutyCycleAv'[a] = [run |-> run[a], iter |-> numIter[a],
              sum |-> [j \in Nodes |-> receivedDutyCycle[a][j]
                                         \union {Entry(a, run[a], numIter[a], j)}],
              div |-> numberOfMsgReceived[a] + 1]
      /\ \A n \in Nodes \ {a} : dutyCycleAv'[n] = dutyCycleAv[n]
  <2> DEFINE av == [run |-> run[a], iter |-> numIter[a],
              sum |-> [j \in Nodes |-> receivedDutyCycle[a][j]
                                         \union {Entry(a, run[a], numIter[a], j)}],
              div |-> numberOfMsgReceived[a] + 1]
  <2>1. dutyCycleAv' = [dutyCycleAv EXCEPT ![a] = av]
    BY Zenon DEF Update
  <2> HIDE DEF av
  <2>2. dutyCycleAv'[a] = av
    BY <2>1 DEF Typed
  <2>3. /\ dutyCycleAv' = [n \in Nodes |-> dutyCycleAv'[n]]
        /\ \A n \in Nodes \ {a} : dutyCycleAv'[n] = dutyCycleAv[n]
    BY <2>1 DEF Typed
  <2>4. QED
    BY <2>2, <2>3 DEF av
<1>5. /\ consensusState' \in [Nodes -> {"OFF", "ITERATE", "WAITING"}]
      /\ numIter' \in [Nodes -> Nat] /\ luxRefAfterConsensus' \in [Nodes -> Nat]
      /\ IF numIter[a] + 1 = MaxIter
         THEN consensusState'[a] = "OFF" /\ numIter'[a] = 0
              /\ luxRefAfterConsensus'[a] = run[a]
         ELSE consensusState'[a] = "ITERATE" /\ numIter'[a] = numIter[a] + 1
              /\ luxRefAfterConsensus'[a] = luxRefAfterConsensus[a]
      /\ \A n \in Nodes \ {a} : /\ consensusState'[n] = consensusState[n]
                                /\ numIter'[n] = numIter[n]
                                /\ luxRefAfterConsensus'[n] = luxRefAfterConsensus[n]
  <2>1. CASE LastIteration(a)
    <3>1. /\ consensusState' = [consensusState EXCEPT ![a] = "OFF"]
          /\ numIter' = [numIter EXCEPT ![a] = 0]
          /\ luxRefAfterConsensus' = [luxRefAfterConsensus EXCEPT ![a] = run[a]]
          /\ numIter[a] + 1 = MaxIter
      BY <2>1, Zenon DEF Update, LastIteration
    <3>2. QED
      BY <3>1 DEF Typed
  <2>2. CASE ~LastIteration(a)
    <3>1. /\ consensusState' = [consensusState EXCEPT ![a] = "ITERATE"]
          /\ numIter' = [numIter EXCEPT ![a] = @ + 1]
          /\ luxRefAfterConsensus' = luxRefAfterConsensus
          /\ numIter[a] + 1 # MaxIter
      BY <2>2, Zenon DEF Update, LastIteration
    <3>2. QED
      BY <3>1 DEF Typed
  <2>3. QED
    BY <2>1, <2>2
<1>6. \A n \in Nodes \ {a} :
        /\ consensusState'[n] = consensusState[n] /\ numIter'[n] = numIter[n]
        /\ numberOfMsgReceived'[n] = numberOfMsgReceived[n]
        /\ receivedDutyCycle'[n] = receivedDutyCycle[n]
        /\ dutyCycleAv'[n] = dutyCycleAv[n]
        /\ luxRefAfterConsensus'[n] = luxRefAfterConsensus[n]
  BY <1>2, <1>3, <1>4, <1>5, Zenon
<1>7. QED
  BY <1>2, <1>3, <1>4, <1>5, <1>6, Zenon

\* An update completes the iteration of this node, and no other.
LEMMA UpdateCompletes ==
  ASSUME Typed, OffInv, SetPointInv, NEW a \in Nodes, Update(a), run' = run, runs' = runs,
         ~Behind(a), consensusState[a] # "OFF"
  PROVE  /\ OffInv' /\ SetPointInv'
         /\ \A n \in Nodes : Behind(n)' <=> Behind(n)
         /\ doneNow[a] = numIter[a] /\ doneNow'[a] = numIter[a] + 1
         /\ sentNow'[a] = numIter[a] + 1
         /\ \A n \in Nodes \ {a} : doneNow'[n] = doneNow[n] /\ sentNow'[n] = sentNow[n]
<1>e. /\ numberOfMsgReceived'[a] = 0
      /\ \A j \in Nodes : receivedDutyCycle'[a][j] = {}
      /\ IF numIter[a] + 1 = MaxIter
         THEN consensusState'[a] = "OFF" /\ numIter'[a] = 0
              /\ luxRefAfterConsensus'[a] = run[a]
         ELSE consensusState'[a] = "ITERATE" /\ numIter'[a] = numIter[a] + 1
              /\ luxRefAfterConsensus'[a] = luxRefAfterConsensus[a]
      /\ \A n \in Nodes \ {a} :
           /\ consensusState'[n] = consensusState[n] /\ numIter'[n] = numIter[n]
           /\ numberOfMsgReceived'[n] = numberOfMsgReceived[n]
           /\ receivedDutyCycle'[n] = receivedDutyCycle[n]
           /\ luxRefAfterConsensus'[n] = luxRefAfterConsensus[n]
  BY UpdateEffect
<1>1. numIter[a] \in Nat /\ numIter[a] < MaxIter /\ MaxIter \in Nat \ {0} /\ run[a] = runs
  BY ConsensusConstants DEF Typed, OffInv, Behind
<1>2. \A n \in Nodes : Behind(n)' <=> Behind(n)
  BY DEF Behind
<1>3. OffInv'
  <2>1. numIter'[a] < MaxIter
    BY <1>e, <1>1
  <2>2. QED
    BY <2>1, <1>e, <1>1, <1>2 DEF OffInv
<1>4. SetPointInv'
  <2>1. /\ luxRefAfterConsensus'[a] <= runs
        /\ luxRefAfterConsensus'[a] = runs => consensusState'[a] = "OFF"
    BY <1>e, <1>1 DEF SetPointInv, Typed
  <2>2. QED
    BY <2>1, <1>e, <1>2 DEF SetPointInv
<1>5. Completed(a) = numIter[a]
  BY DEF Completed
<1>6. Completed(a)' = numIter[a] + 1 /\ Proposed(a)' = numIter[a] + 1
  BY <1>e, <1>1, <1>2 DEF Completed, Proposed
<1>7. \A n \in Nodes \ {a} : Completed(n)' = Completed(n) /\ Proposed(n)' = Proposed(n)
  BY <1>e, <1>2 DEF Completed, Proposed
<1>8. QED
  BY <1>2, <1>3, <1>4, <1>5, <1>6, <1>7 DEF doneNow, sentNow

\* The average is over the proposals of this iteration, the node's own among them.
LEMMA UpdatePure ==
  ASSUME Typed, NEW a \in Nodes, Update(a), run[a] = runs, NEW got, Counted(got),
         got[a] = Awaited(runs, a, numIter[a])
  PROVE  Pure(dutyCycleAv'[a])
<1> DEFINE k == numIter[a]
<1>1. /\ dutyCycleAv'[a].run = runs /\ dutyCycleAv'[a].iter = k
      /\ \A j \in Nodes : dutyCycleAv'[a].sum[j] =
           receivedDutyCycle[a][j] \union {Entry(a, runs, k, j)}
  <2>1. dutyCycleAv'[a] = [run |-> run[a], iter |-> numIter[a],
              sum |-> [j \in Nodes |-> receivedDutyCycle[a][j]
                                         \union {Entry(a, run[a], numIter[a], j)}],
              div |-> numberOfMsgReceived[a] + 1]
    BY UpdateEffect, Zenon
  <2>2. QED
    BY <2>1
<1>2. ASSUME NEW j \in Nodes
      PROVE  dutyCycleAv'[a].sum[j] = {Entry(m, runs, k, j) : m \in Nodes}
  <2> DEFINE counted == {Entry(f.from, f.run, f.iter, j) :
                           f \in {g \in got[a] : Carries(g.msgI, j)}}
  <2>1. counted \subseteq {Entry(m, runs, k, j) : m \in Nodes \ {a}}
    <3> SUFFICES ASSUME NEW f \in got[a]
                 PROVE  /\ f.from \in Nodes \ {a}
                        /\ Entry(f.from, f.run, f.iter, j) = Entry(f.from, runs, k, j)
      OBVIOUS
    <3>1. f = ProposalFrame(runs, f.from, f.msgI, k) /\ f.from \in Nodes \ {a}
      BY AwaitedFields
    <3>2. f.run = runs /\ f.iter = k
      BY <3>1 DEF ProposalFrame
    <3>3. QED
      BY <3>1, <3>2
  <2>2. ASSUME NEW m \in Nodes \ {a} PROVE Entry(m, runs, k, j) \in counted
    <3>1. PICK i \in Parts : Carries(i, j)
      BY PartsOfVector
    <3> DEFINE f == ProposalFrame(runs, m, i, k)
    <3>2. f.from = m /\ f.msgI = i /\ f.run = runs /\ f.iter = k
      BY DEF ProposalFrame
    <3>3. f \in got[a]
      BY DEF Awaited
    <3> HIDE DEF f
    <3>4. QED
      BY <3>1, <3>2, <3>3
  <2>3. receivedDutyCycle[a][j] = counted
    BY DEF Counted
  <2> HIDE DEF counted
  <2>4. counted = {Entry(m, runs, k, j) : m \in Nodes \ {a}}
    BY <2>1, <2>2
  <2>5. QED
    BY <2>3, <2>4, <1>1
<1>3. QED
  BY <1>1, <1>2 DEF Pure

\* A node that has counted the frames of its iteration completes it.
LEMMA CompletionKeeps ==
  ASSUME Typed, OffInv, SetPointInv, NEW a \in Nodes, Update(a), AllReceived(a),
         run' = run, runs' = runs, ~Behind(a), consensusState[a] # "OFF",
         NEW sent, NEW buffers, NEW path, NEW got, Counted(got),
         Exchange(runs, doneNow, sent, buffers, path, got), sent[a] = numIter[a] + 1
  PROVE  /\ Pure(dutyCycleAv'[a])
         /\ \E got2 : Counted(got2)' /\ Exchange(runs, doneNow', sent, buffers, path, got2)
<1>1. /\ doneNow[a] = numIter[a] /\ doneNow'[a] = numIter[a] + 1
      /\ \A n \in Nodes \ {a} : doneNow'[n] = doneNow[n]
  BY UpdateCompletes
<1>2. Cardinality(got[a]) = NumberOfMsgExpected
  BY DEF Counted, AllReceived
<1>3. got[a] = Awaited(runs, a, doneNow[a])
  BY <1>2, CountedAll
<1>4. run[a] = runs
  BY DEF Behind
<1>5. Pure(dutyCycleAv'[a])
  BY <1>1, <1>3, <1>4, UpdatePure
<1>6. PICK got2 : got2 = [n \in Nodes |-> IF n = a THEN {} ELSE got[n]]
  OBVIOUS
<1>7. got2[a] = {} /\ \A n \in Nodes \ {a} : got2[n] = got[n]
  BY <1>6
<1>8. Exchange(runs, doneNow', sent, buffers, path, got2)
  BY <1>1, <1>3, <1>7, UpdateKeeps
<1>9. Counted(got2)'
  <2>1. /\ numberOfMsgReceived'[a] = 0 /\ \A j \in Nodes : receivedDutyCycle'[a][j] = {}
        /\ \A n \in Nodes \ {a} : /\ numberOfMsgReceived'[n] = numberOfMsgReceived[n]
                                  /\ receivedDutyCycle'[n] = receivedDutyCycle[n]
    BY UpdateEffect
  <2> SUFFICES ASSUME NEW n \in Nodes
               PROVE  /\ numberOfMsgReceived'[n] = Cardinality(got2[n])
                      /\ \A j \in Nodes : receivedDutyCycle'[n][j] =
                           {Entry(f.from, f.run, f.iter, j) :
                              f \in {g \in got2[n] : Carries(g.msgI, j)}}
    BY DEF Counted
  <2>2. CASE n = a
    <3>1. Cardinality(got2[a]) = 0
      BY <1>7, FS_EmptySet
    <3>2. \A j \in Nodes : {Entry(f.from, f.run, f.iter, j) :
                              f \in {g \in got2[a] : Carries(g.msgI, j)}} = {}
      BY <1>7
    <3>3. QED
      BY <2>1, <2>2, <3>1, <3>2
  <2>3. CASE n # a
    BY <2>1, <2>3, <1>7 DEF Counted
  <2>4. QED
    BY <2>2, <2>3
<1>10. QED
  BY <1>5, <1>8, <1>9

----------------------------------------------------------------------------
\* A node that takes part in the latest run iterates when no run is being announced.
LEMMA InTheRun ==
  ASSUME Orderly, NEW a \in Nodes, consensusState[a] # "OFF",
         consensusState[a] = "ITERATE" => tx[a] = NothingPending
  PROVE  /\ ~Behind(a) /\ runs # 0 /\ run[a] = runs
         /\ \A c \in Nodes : ~Announcing(c)
<1>0. OffInv /\ BeforeInv
  BY DEF Orderly
<1>1. ~Behind(a) /\ runs # 0
  BY <1>0 DEF OffInv, BeforeInv
<1>2. run[a] = runs
  BY <1>1 DEF Behind
<1>3. ASSUME NEW c \in Nodes, Announcing(c) PROVE FALSE
  <2>1. c = a /\ consensusState[a] = "ITERATE"
    BY <1>1, <1>3 DEF Announcing
  <2>2. tx[a][0] = NoFrame
    BY <2>1 DEF NothingPending, TXBuffers
  <2>3. tx[a][0] = DoConsensus(runs)
    BY <2>1, <1>3 DEF Announcing, TXBuffers
  <2>4. QED
    BY <2>2, <2>3, TwoMessages
<1>4. QED
  BY <1>1, <1>2, <1>3

\* A proposal that is put into empty buffers: the first parts of it.
LEMMA ProposalLoaded ==
  ASSUME Typed, NEW a \in Nodes, run[a] = runs, tx[a] = NothingPending,
         tx' = [tx EXCEPT ![a] = SendFrames(tx[a], DutyCycleFrames(a))]
  PROVE  /\ tx' \in [Nodes -> [TXBuffers -> Messages \cup {NoFrame}]]
         /\ \A b \in TXBuffers \cap Parts : tx'[a][b] = ProposalFrame(runs, a, b, numIter[a])
         /\ \A b \in TXBuffers \ Parts : tx'[a][b] = NoFrame
         /\ \A n \in Nodes \ {a} : tx'[n] = tx[n]
<1> DEFINE frames == DutyCycleFrames(a)
<1>0. NumMessages \in Nat \ {0} /\ runs \in Nat /\ numIter[a] \in Nat
  BY PartsOfVector DEF Typed
<1>1. /\ Len(frames) = NumMessages
      /\ \A i \in 1 .. NumMessages : frames[i] = ProposalFrame(runs, a, i - 1, numIter[a])
  BY <1>0 DEF DutyCycleFrames, ProposalFrame
<1> HIDE DEF frames
<1>2. \A i \in 1 .. Len(frames) : frames[i] # NoFrame
  BY <1>1, TwoMessages
<1>3. SendFrames(NothingPending, frames) =
        [b \in TXBuffers |-> IF b < Len(frames) THEN frames[b + 1] ELSE NoFrame]
  BY <1>0, <1>1, <1>2, BuffersFilled
<1>4. tx'[a] = SendFrames(NothingPending, frames) /\ tx' = [n \in Nodes |-> tx'[n]]
      /\ \A n \in Nodes \ {a} : tx'[n] = tx[n]
  BY DEF Typed, frames
<1>5. \A b \in TXBuffers :
        tx'[a][b] = IF b < NumMessages THEN frames[b + 1] ELSE NoFrame
  BY <1>1, <1>3, <1>4
<1>6. ASSUME NEW b \in TXBuffers
      PROVE  IF b \in Parts THEN tx'[a][b] = ProposalFrame(runs, a, b, numIter[a])
             ELSE tx'[a][b] = NoFrame
  <2>1. b \in Nat
    BY DEF TXBuffers
  <2>2. b \in Parts <=> b < NumMessages
    BY <2>1, <1>0 DEF Parts
  <2>3. CASE b < NumMessages
    <3>1. b + 1 \in 1 .. NumMessages /\ (b + 1) - 1 = b
      BY <2>1, <2>3, <1>0
    <3>2. frames[b + 1] = ProposalFrame(runs, a, (b + 1) - 1, numIter[a])
      BY <3>1, <1>1
    <3>3. frames[b + 1] = ProposalFrame(runs, a, b, numIter[a])
      BY <3>1, <3>2
    <3>4. QED
      BY <3>3, <2>2, <2>3, <1>5
  <2>4. CASE ~(b < NumMessages)
    BY <2>2, <2>4, <1>5
  <2>5. QED
    BY <2>3, <2>4
<1>7. \A b \in TXBuffers : ProposalFrame(runs, a, b, numIter[a]) \in Messages
  <2>1. \A b \in TXBuffers : b \in Nat
    BY DEF TXBuffers
  <2>2. \A r, k, i \in Nat : ProposalFrame(r, a, i, k) \in Messages
    BY DEF Messages
  <2>3. QED
    BY <2>1, <2>2, <1>0
<1>8. tx'[a] \in [TXBuffers -> Messages \cup {NoFrame}]
  <2>1. tx'[a] = [b \in TXBuffers |-> tx'[a][b]]
    BY <1>3, <1>4
  <2>2. \A b \in TXBuffers : tx'[a][b] \in Messages \cup {NoFrame}
    BY <1>6, <1>7
  <2>3. QED
    BY <2>1, <2>2
<1>9. tx' \in [Nodes -> [TXBuffers -> Messages \cup {NoFrame}]]
  BY <1>4, <1>8 DEF Typed
<1>10. QED
  BY <1>4, <1>6, <1>9

\* No frame that starts a run appears where none is being announced.
LEMMA NoStartKeeps ==
  ASSUME StartInv, \A c \in Nodes : ~Announcing(c), inbox' = inbox, runs' = runs,
         \A n \in Nodes : Behind(n)' <=> Behind(n),
         \A m \in Nodes, b \in TXBuffers :
           tx'[m][b].type = "DO_CONSENSUS" => tx'[m][b] = tx[m][b]
  PROVE  StartInv'
  BY DEF StartInv

\* A node computes and sends its proposal.
LEMMA IterateKeeps ==
  ASSUME Orderly, NEW a \in Nodes, IterateAndSend(a), ~crowded'
  PROVE  Orderly'
<1>0. Typed /\ OffInv /\ SetPointInv /\ BeforeInv /\ StartInv /\ PureInv /\ ExchangeInv
  BY DEF Orderly
<1>1. /\ consensusState[a] = "ITERATE"
      /\ tx' = [tx EXCEPT ![a] = SendFrames(tx[a], DutyCycleFrames(a))]
      /\ Pending(tx[a]) = {}
      /\ inbox' = inbox /\ run' = run /\ runs' = runs
  <2>1. tx' = [tx EXCEPT ![a] = SendFrames(tx[a], DutyCycleFrames(a))]
    BY Zenon DEF IterateAndSend, Broadcast
  <2>2. Pending(tx[a]) = {}
    BY Zenon DEF IterateAndSend, Broadcast
  <2>3. QED
    BY <2>1, <2>2, Zenon DEF IterateAndSend
<1>2. tx[a] = NothingPending
  BY <1>0, <1>1, BuffersEmpty
<1>3. /\ ~Behind(a) /\ runs # 0 /\ run[a] = runs
      /\ \A c \in Nodes : ~Announcing(c)
  BY <1>1, <1>2, InTheRun
<1>4. /\ tx' \in [Nodes -> [TXBuffers -> Messages \cup {NoFrame}]]
      /\ \A b \in TXBuffers \cap Parts : tx'[a][b] = ProposalFrame(runs, a, b, numIter[a])
      /\ \A b \in TXBuffers \ Parts : tx'[a][b] = NoFrame
      /\ \A n \in Nodes \ {a} : tx'[n] = tx[n]
  BY <1>0, <1>1, <1>2, <1>3, ProposalLoaded
<1>5. \A n \in Nodes : Behind(n)' <=> Behind(n)
  BY <1>1 DEF Behind
<1>6. StartInv'
  <2>1. \A m \in Nodes, b \in TXBuffers :
          tx'[m][b].type = "DO_CONSENSUS" => tx'[m][b] = tx[m][b]
    BY <1>4, TwoMessages
  <2>2. QED
    BY <2>1, <1>0, <1>1, <1>3, <1>5, NoStartKeeps
<1>7. BeforeInv'
  BY <1>1, <1>3 DEF BeforeInv
<1>8. doneNow[a] = numIter[a] /\ sentNow[a] = numIter[a] /\ numIter[a] \in Nat
  BY <1>0, <1>1, <1>3 DEF doneNow, sentNow, Completed, Proposed, Typed
<1>9. PICK got : Counted(got) /\ Exchange(runs, doneNow, sentNow, tx, inbox, got)
  BY <1>0, <1>3 DEF ExchangeInv
<1>10. PICK sent : sent = [n \in Nodes |-> IF n = a THEN numIter[a] + 1 ELSE sentNow[n]]
  OBVIOUS
<1>11. sent[a] = numIter[a] + 1 /\ \A n \in Nodes \ {a} : sent[n] = sentNow[n]
  BY <1>10
<1>12. Exchange(runs, doneNow, sent, tx', inbox, got)
  <2>1. \A b \in TXBuffers : ~IsProposal(tx[a][b])
    BY <1>2, TwoMessages DEF NothingPending
  <2>2. \A b \in TXBuffers \ Parts : ~IsProposal(tx'[a][b])
    BY <1>4, TwoMessages
  <2>3. /\ sent[a] = doneNow[a] + 1 /\ sentNow[a] = doneNow[a]
        /\ \A b \in TXBuffers \cap Parts : tx'[a][b] = ProposalFrame(runs, a, b, doneNow[a])
        /\ \A n \in Nodes \ {a} : sent[n] = sentNow[n] /\ tx'[n] = tx[n]
    BY <1>4, <1>8, <1>11
  <2>4. QED
    BY <2>1, <2>2, <2>3, <1>9, SendKeeps
<1>13. CASE AllReceived(a) /\ Update(a)
  <2>1. /\ OffInv' /\ SetPointInv' /\ sentNow'[a] = numIter[a] + 1
        /\ \A n \in Nodes \ {a} : sentNow'[n] = sentNow[n]
    BY <1>0, <1>1, <1>3, <1>13, UpdateCompletes
  <2>2. sentNow' = sent
    BY <2>1, <1>10 DEF sentNow
  <2>3. /\ Pure(dutyCycleAv'[a])
        /\ \E got2 : Counted(got2)' /\ Exchange(runs, doneNow', sent, tx', inbox, got2)
    BY <1>0, <1>1, <1>3, <1>9, <1>11, <1>12, <1>13, CompletionKeeps
  <2>4. PureInv'
    <3>1. \A n \in Nodes \ {a} : dutyCycleAv'[n] = dutyCycleAv[n]
      BY <1>0, <1>13, UpdateEffect
    <3>2. QED
      BY <3>1, <2>3, <1>0 DEF PureInv
  <2>5. ExchangeInv'
    BY <2>2, <2>3, <1>1 DEF ExchangeInv
  <2>6. Typed'
    BY <1>0, <1>1, <1>4, <1>13, UpdateEffect DEF Typed
  <2>7. QED
    BY <2>1, <2>4, <2>5, <2>6, <1>6, <1>7 DEF Orderly
<1>14. CASE /\ consensusState' = [consensusState EXCEPT ![a] = "WAITING"]
            /\ numIter' = numIter /\ numberOfMsgReceived' = numberOfMsgReceived
            /\ receivedDutyCycle' = receivedDutyCycle /\ dutyCycleAv' = dutyCycleAv
            /\ luxRefAfterConsensus' = luxRefAfterConsensus
  <2>1. /\ consensusState' \in [Nodes -> {"OFF", "ITERATE", "WAITING"}]
        /\ consensusState'[a] = "WAITING"
        /\ \A n \in Nodes \ {a} : consensusState'[n] = consensusState[n]
    BY <1>0, <1>14 DEF Typed
  <2>2. Typed'
    BY <2>1, <1>0, <1>1, <1>4, <1>14 DEF Typed
  <2>3. OffInv'
    BY <2>1, <1>0, <1>1, <1>3, <1>5, <1>14 DEF OffInv
  <2>4. SetPointInv' /\ PureInv'
    BY <2>1, <1>0, <1>1, <1>3, <1>5, <1>14 DEF SetPointInv, PureInv
  <2>5. /\ \A n \in Nodes : Completed(n)' = Completed(n)
        /\ \A n \in Nodes \ {a} : Proposed(n)' = Proposed(n)
        /\ Proposed(a)' = numIter[a] + 1
    BY <2>1, <1>1, <1>3, <1>5, <1>14 DEF Completed, Proposed
  <2>6. doneNow' = doneNow /\ sentNow' = sent
    BY <2>5, <1>10 DEF doneNow, sentNow
  <2>7. Counted(got)'
    BY <1>9, <1>14 DEF Counted
  <2>8. Exchange(runs, doneNow, sentNow, tx, inbox, got)'
    BY <2>6, <1>1, <1>12
  <2>9. ExchangeInv'
    BY <2>7, <2>8 DEF ExchangeInv
  <2>10. QED
    BY <2>2, <2>3, <2>4, <2>9, <1>6, <1>7 DEF Orderly
<1>15. \/ AllReceived(a) /\ Update(a)
       \/ /\ consensusState' = [consensusState EXCEPT ![a] = "WAITING"]
          /\ numIter' = numIter /\ numberOfMsgReceived' = numberOfMsgReceived
          /\ receivedDutyCycle' = receivedDutyCycle /\ dutyCycleAv' = dutyCycleAv
          /\ luxRefAfterConsensus' = luxRefAfterConsensus
  BY Zenon DEF IterateAndSend
<1>16. QED
  BY <1>13, <1>14, <1>15

\* A node that waited has the proposals of all.
LEMMA WaitKeeps ==
  ASSUME Orderly, NEW a \in Nodes, WaitAndUpdate(a)
  PROVE  Orderly'
<1>0. Typed /\ OffInv /\ SetPointInv /\ BeforeInv /\ StartInv /\ PureInv /\ ExchangeInv
  BY DEF Orderly
<1>1. /\ consensusState[a] = "WAITING" /\ AllReceived(a) /\ Update(a)
      /\ tx' = tx /\ inbox' = inbox /\ run' = run /\ runs' = runs
  BY Zenon DEF WaitAndUpdate
<1>2. /\ ~Behind(a) /\ runs # 0 /\ run[a] = runs
      /\ \A c \in Nodes : ~Announcing(c)
  BY <1>1, InTheRun
<1>3. sentNow[a] = numIter[a] + 1
  BY <1>1, <1>2 DEF sentNow, Completed, Proposed
<1>4. /\ OffInv' /\ SetPointInv' /\ sentNow'[a] = numIter[a] + 1
      /\ \A n \in Nodes : Behind(n)' <=> Behind(n)
      /\ \A n \in Nodes \ {a} : sentNow'[n] = sentNow[n]
  BY <1>0, <1>1, <1>2, UpdateCompletes
<1>5. sentNow' = sentNow
  BY <1>3, <1>4 DEF sentNow
<1>6. PICK got : Counted(got) /\ Exchange(runs, doneNow, sentNow, tx, inbox, got)
  BY <1>0, <1>2 DEF ExchangeInv
<1>7. /\ Pure(dutyCycleAv'[a])
      /\ \E got2 : Counted(got2)' /\ Exchange(runs, doneNow', sentNow, tx, inbox, got2)
  BY <1>0, <1>1, <1>2, <1>3, <1>6, CompletionKeeps
<1>8. PureInv'
  <2>1. \A n \in Nodes \ {a} : dutyCycleAv'[n] = dutyCycleAv[n]
    BY <1>0, <1>1, UpdateEffect
  <2>2. QED
    BY <2>1, <1>7, <1>0 DEF PureInv
<1>9. ExchangeInv'
  BY <1>1, <1>5, <1>7 DEF ExchangeInv
<1>10. Typed'
  BY <1>0, <1>1, UpdateEffect DEF Typed
<1>11. StartInv'
  BY <1>0, <1>1, <1>2, <1>4, NoStartKeeps
<1>12. BeforeInv'
  BY <1>1, <1>2 DEF BeforeInv
<1>13. QED
  BY <1>4, <1>8, <1>9, <1>10, <1>11, <1>12 DEF Orderly

----------------------------------------------------------------------------
\* The frame in buffer b of node a goes over the bus to the other nodes.
FrameMoves(a, b) ==
    /\ tx' = [tx EXCEPT ![a] = AfterSending(@, b)]
    /\ inbox' = [m \in Nodes |-> IF m = a THEN inbox[m] ELSE Append(inbox[m], tx[a][b])]

\* The buffers and the paths when the frame in buffer b of node a goes over the bus.
LEMMA BusEffect ==
  ASSUME Typed, NEW a \in Nodes, NEW b \in TXBuffers, tx[a][b] # NoFrame,
         FrameMoves(a, b)
  PROVE  /\ tx[a][b] \in Messages
         /\ tx' \in [Nodes -> [TXBuffers -> Messages \cup {NoFrame}]]
         /\ inbox' \in [Nodes -> Seq(Messages)]
         /\ tx'[a][b] = NoFrame
         /\ \A c \in TXBuffers \ {b} : tx'[a][c] = tx[a][c]
         /\ \A n \in Nodes \ {a} : tx'[n] = tx[n]
         /\ Appended(inbox, inbox', a, tx[a][b])
<1>0. /\ tx' = [tx EXCEPT ![a] = AfterSending(@, b)]
      /\ inbox' = [m \in Nodes |-> IF m = a THEN inbox[m] ELSE Append(inbox[m], tx[a][b])]
  BY DEF FrameMoves
<1>1. tx[a][b] \in Messages
  BY DEF Typed
<1>2. /\ tx'[a] = [tx[a] EXCEPT ![b] = NoFrame]
      /\ tx' = [n \in Nodes |-> tx'[n]]
      /\ \A n \in Nodes \ {a} : tx'[n] = tx[n]
  BY <1>0 DEF Typed, AfterSending
<1>3. /\ tx'[a] \in [TXBuffers -> Messages \cup {NoFrame}]
      /\ tx'[a][b] = NoFrame /\ \A c \in TXBuffers \ {b} : tx'[a][c] = tx[a][c]
  <2>1. tx[a] \in [TXBuffers -> Messages \cup {NoFrame}]
    BY DEF Typed
  <2>2. QED
    BY <2>1, <1>2
<1>4. tx' \in [Nodes -> [TXBuffers -> Messages \cup {NoFrame}]]
  <2>1. \A n \in Nodes : tx'[n] \in [TXBuffers -> Messages \cup {NoFrame}]
    BY <1>2, <1>3 DEF Typed
  <2>2. QED
    BY <2>1, <1>2
<1>5. inbox'[a] = inbox[a] /\ inbox[a] \in Seq(Messages)
  BY <1>0 DEF Typed
<1>6. ASSUME NEW n \in Nodes \ {a}
      PROVE  /\ inbox'[n] \in Seq(Messages)
             /\ Len(inbox[n]) \in Nat /\ Len(inbox'[n]) = Len(inbox[n]) + 1
             /\ inbox'[n][Len(inbox[n]) + 1] = tx[a][b]
             /\ \A p \in 1 .. Len(inbox[n]) : inbox'[n][p] = inbox[n][p]
  <2>1. inbox[n] \in Seq(Messages) /\ inbox'[n] = Append(inbox[n], tx[a][b])
    BY <1>0 DEF Typed
  <2>2. QED
    BY <2>1, <1>1, AppendProperties
<1>7. inbox' \in [Nodes -> Seq(Messages)]
  <2>1. \A n \in Nodes : inbox'[n] \in Seq(Messages)
    BY <1>5, <1>6
  <2>2. inbox' = [n \in Nodes |-> inbox'[n]]
    BY <1>0
  <2>3. QED
    BY <2>1, <2>2
<1>8. Appended(inbox, inbox', a, tx[a][b])
  BY <1>5, <1>6 DEF Appended
<1>9. QED
  BY <1>1, <1>2, <1>3, <1>4, <1>7, <1>8

\* What a frame on the bus leaves as it is.
LEMMA BusLeaves ==
  ASSUME OffInv, SetPointInv, PureInv,
         consensusState' = consensusState, numIter' = numIter,
         numberOfMsgReceived' = numberOfMsgReceived, receivedDutyCycle' = receivedDutyCycle,
         dutyCycleAv' = dutyCycleAv, luxRefAfterConsensus' = luxRefAfterConsensus,
         run' = run, runs' = runs
  PROVE  /\ OffInv' /\ SetPointInv' /\ PureInv'
         /\ doneNow' = doneNow /\ sentNow' = sentNow
         /\ \A n \in Nodes : Behind(n)' <=> Behind(n)
         /\ \A got : Counted(got) => Counted(got)'
<1>1. \A n \in Nodes : Behind(n)' <=> Behind(n)
  BY DEF Behind
<1>2. \A n \in Nodes : Completed(n)' = Completed(n)
  BY <1>1 DEF Completed
<1>3. \A n \in Nodes : Proposed(n)' = Proposed(n)
  BY <1>1, <1>2 DEF Proposed
<1>4. doneNow' = doneNow /\ sentNow' = sentNow
  BY <1>2, <1>3 DEF doneNow, sentNow
<1>5. OffInv' /\ SetPointInv' /\ PureInv'
  BY <1>1 DEF OffInv, SetPointInv, PureInv
<1>6. \A got : Counted(got) => Counted(got)'
  BY DEF Counted
<1>7. QED
  BY <1>1, <1>4, <1>5, <1>6

\* The frame that starts a run reaches the other nodes, which are all behind.
LEMMA StartOverBus ==
  ASSUME Orderly, NEW a \in Nodes, NEW b \in TXBuffers, tx[a][b].type = "DO_CONSENSUS",
         FrameMoves(a, b),
         consensusState' = consensusState, numIter' = numIter,
         numberOfMsgReceived' = numberOfMsgReceived, receivedDutyCycle' = receivedDutyCycle,
         dutyCycleAv' = dutyCycleAv, luxRefAfterConsensus' = luxRefAfterConsensus,
         run' = run, runs' = runs
  PROVE  Orderly'
<1>0. Typed /\ OffInv /\ SetPointInv /\ BeforeInv /\ StartInv /\ PureInv /\ ExchangeInv
  BY DEF Orderly
<1>1. Announcing(a)
  BY <1>0 DEF StartInv
<1>2. /\ runs > 1 /\ ~Behind(a) /\ runs \in Nat
      /\ consensusState[a] = "ITERATE" /\ numIter[a] = 0
      /\ \A n \in Nodes : inbox[n] = <<>>
      /\ \A n \in Nodes \ {a} : Behind(n) /\ tx[n] = NothingPending
      /\ \A c \in TXBuffers : tx[a][c] = IF c = 0 THEN DoConsensus(runs) ELSE NoFrame
  BY <1>0, <1>1 DEF Announcing, Typed
<1>3. b = 0 /\ tx[a][b] = DoConsensus(runs) /\ tx[a][b] # NoFrame
  BY <1>2, TwoMessages
<1>4. /\ tx' \in [Nodes -> [TXBuffers -> Messages \cup {NoFrame}]]
      /\ inbox' \in [Nodes -> Seq(Messages)]
      /\ tx'[a][b] = NoFrame
      /\ \A c \in TXBuffers \ {b} : tx'[a][c] = tx[a][c]
      /\ \A n \in Nodes \ {a} : tx'[n] = tx[n]
      /\ Appended(inbox, inbox', a, tx[a][b])
  BY <1>0, <1>3, BusEffect
<1>5. \A m \in Nodes, c \in TXBuffers : tx'[m][c] = NoFrame
  BY <1>2, <1>3, <1>4, SMTT(30) DEF NothingPending
<1>6. /\ inbox'[a] = <<>>
      /\ \A n \in Nodes \ {a} : Len(inbox'[n]) = 1 /\ inbox'[n][1] = DoConsensus(runs)
                                /\ inbox'[n] # <<>>
  <2>1. inbox'[a] = <<>>
    BY <1>2, <1>4 DEF Appended
  <2>2. ASSUME NEW n \in Nodes \ {a}
        PROVE  Len(inbox'[n]) = 1 /\ inbox'[n][1] = DoConsensus(runs) /\ inbox'[n] # <<>>
    <3>1. Len(inbox[n]) = 0
      BY <1>2
    <3>2. Len(inbox'[n]) = Len(inbox[n]) + 1 /\ inbox'[n][Len(inbox[n]) + 1] = tx[a][b]
      BY <1>4 DEF Appended
    <3>3. QED
      BY <3>1, <3>2, <1>3
  <2>3. QED
    BY <2>1, <2>2
<1>7. /\ OffInv' /\ SetPointInv' /\ PureInv'
      /\ doneNow' = doneNow /\ sentNow' = sentNow
      /\ \A n \in Nodes : Behind(n)' <=> Behind(n)
      /\ \A got : Counted(got) => Counted(got)'
  BY <1>0, BusLeaves
<1>8. Typed'
  BY <1>0, <1>4 DEF Typed
<1>9. BeforeInv'
  BY <1>2 DEF BeforeInv
<1>10. StartInv'
  <2>1. \A m \in Nodes, c \in TXBuffers : tx'[m][c].type # "DO_CONSENSUS"
    BY <1>5, TwoMessages
  <2>2. \A n \in Nodes : \A p \in 1 .. Len(inbox'[n]) :
          n # a /\ p = 1 /\ inbox'[n][p] = DoConsensus(runs)
    <3>1. 1 .. Len(inbox'[a]) = {}
      BY <1>6
    <3>2. \A n \in Nodes \ {a} : 1 .. Len(inbox'[n]) = {1}
      <4>1. 1 .. 1 = {1}
        OBVIOUS
      <4>2. QED
        BY <4>1, <1>6
    <3>3. QED
      BY <3>1, <3>2, <1>6
  <2>3. QED
    BY <2>1, <2>2, <1>2, <1>6, <1>7 DEF StartInv
<1>11. ExchangeInv'
  <2>1. PICK got : Counted(got) /\ Exchange(runs, doneNow, sentNow, tx, inbox, got)
    BY <1>0, <1>2 DEF ExchangeInv
  <2>2. \A n \in Nodes : sentNow[n] = 0 /\ doneNow[n] = 0
    <3>1. Completed(a) = 0 /\ Proposed(a) = 0
      BY <1>2 DEF Completed, Proposed
    <3>2. \A n \in Nodes \ {a} : Completed(n) = 0 /\ Proposed(n) = 0
      BY <1>2 DEF Completed, Proposed
    <3>3. QED
      BY <3>1, <3>2 DEF doneNow, sentNow
  <2>3. \A n \in Nodes : got[n] = {}
    <3> SUFFICES ASSUME NEW n \in Nodes, NEW f \in got[n] PROVE FALSE
      OBVIOUS
    <3>1. Arrived(runs, doneNow, sentNow, tx, n, f)
      BY <2>1 DEF Exchange, ArrivedOnce
    <3>2. f.from \in Nodes /\ f.iter \in Nat /\ f.iter < sentNow[f.from]
      BY <3>1 DEF Arrived
    <3>3. sentNow[f.from] = 0
      BY <3>2, <2>2
    <3>4. QED
      BY <3>2, <3>3
  <2>4. \A n \in Nodes, c \in TXBuffers : ~IsProposal(tx'[n][c])
    BY <1>5, TwoMessages
  <2>5. \A n \in Nodes : \A p \in 1 .. Len(inbox'[n]) : ~IsProposal(inbox'[n][p])
    <3>1. 1 .. Len(inbox'[a]) = {}
      BY <1>6
    <3>2. \A n \in Nodes \ {a} : 1 .. Len(inbox'[n]) = {1}
      <4>1. 1 .. 1 = {1}
        OBVIOUS
      <4>2. QED
        BY <4>1, <1>6
    <3>3. QED
      BY <3>1, <3>2, <1>6, TwoMessages
  <2>6. Exchange(runs, doneNow, sentNow, tx', inbox', got)
    BY <2>2, <2>3, <2>4, <2>5, FreshExchange
  <2>7. Exchange(runs, doneNow, sentNow, tx, inbox, got)'
    BY <2>6, <1>7
  <2>8. Counted(got)'
    BY <2>1, <1>7
  <2>9. QED
    BY <2>7, <2>8 DEF ExchangeInv
<1>12. QED
  BY <1>7, <1>8, <1>9, <1>10, <1>11 DEF Orderly

\* A part of a proposal reaches the other nodes.
LEMMA ProposalOverBus ==
  ASSUME Orderly, NEW a \in Nodes, NEW b \in TXBuffers, tx[a][b] # NoFrame,
         tx[a][b].type # "DO_CONSENSUS",
         FrameMoves(a, b),
         consensusState' = consensusState, numIter' = numIter,
         numberOfMsgReceived' = numberOfMsgReceived, receivedDutyCycle' = receivedDutyCycle,
         dutyCycleAv' = dutyCycleAv, luxRefAfterConsensus' = luxRefAfterConsensus,
         run' = run, runs' = runs
  PROVE  Orderly'
<1>0. Typed /\ OffInv /\ SetPointInv /\ BeforeInv /\ StartInv /\ PureInv /\ ExchangeInv
  BY DEF Orderly
<1>1. /\ tx[a][b] \in Messages
      /\ tx' \in [Nodes -> [TXBuffers -> Messages \cup {NoFrame}]]
      /\ inbox' \in [Nodes -> Seq(Messages)]
      /\ tx'[a][b] = NoFrame
      /\ \A c \in TXBuffers \ {b} : tx'[a][c] = tx[a][c]
      /\ \A n \in Nodes \ {a} : tx'[n] = tx[n]
      /\ Appended(inbox, inbox', a, tx[a][b])
  BY <1>0, BusEffect
<1>2. IsProposal(tx[a][b]) /\ ~IsProposal(tx'[a][b])
  BY <1>1, TwoMessages
<1>3. runs # 0
  BY <1>0 DEF BeforeInv, NothingPending
<1>4. ASSUME NEW c \in Nodes PROVE ~Announcing(c)
  <2>1. ASSUME Announcing(c) PROVE tx[a][b] \in {NoFrame, DoConsensus(runs)}
    BY <2>1 DEF Announcing, NothingPending
  <2>2. QED
    BY <2>1, <1>2, TwoMessages
<1>5. /\ OffInv' /\ SetPointInv' /\ PureInv'
      /\ doneNow' = doneNow /\ sentNow' = sentNow
      /\ \A n \in Nodes : Behind(n)' <=> Behind(n)
      /\ \A got : Counted(got) => Counted(got)'
  BY <1>0, BusLeaves
<1>6. Typed'
  BY <1>0, <1>1 DEF Typed
<1>7. BeforeInv'
  BY <1>3 DEF BeforeInv
<1>8. StartInv'
  <2>1. \A m \in Nodes, c \in TXBuffers : tx'[m][c].type # "DO_CONSENSUS"
    <3>1. \A m \in Nodes, c \in TXBuffers : tx[m][c].type # "DO_CONSENSUS"
      BY <1>0, <1>4 DEF StartInv
    <3>2. QED
      BY <3>1, <1>1, TwoMessages, SMTT(30)
  <2>2. ASSUME NEW n \in Nodes
        PROVE  /\ \A p \in 1 .. Len(inbox'[n]) : inbox'[n][p].type = "DO_CONSENSUS" =>
                    p \in 1 .. Len(inbox[n]) /\ inbox'[n][p] = inbox[n][p]
               /\ inbox[n] # <<>> => inbox'[n] # <<>> /\ inbox'[n][1] = inbox[n][1]
    <3>1. CASE n = a
      BY <3>1, <1>1 DEF Appended
    <3>2. CASE n # a
      <4>1. ASSUME NEW p \in 1 .. Len(inbox'[n]), inbox'[n][p].type = "DO_CONSENSUS"
            PROVE  p \in 1 .. Len(inbox[n]) /\ inbox'[n][p] = inbox[n][p]
        <5>1. p # Len(inbox[n]) + 1
          BY <4>1, <3>2, <1>1 DEF Appended
        <5>2. p \in 1 .. Len(inbox[n])
          BY <5>1, <3>2, <1>1 DEF Appended
        <5>3. QED
          BY <5>2, <3>2, <1>1 DEF Appended
      <4>2. ASSUME inbox[n] # <<>>
            PROVE  inbox'[n] # <<>> /\ inbox'[n][1] = inbox[n][1]
        <5>1. inbox[n] \in Seq(Messages)
          BY <1>0 DEF Typed
        <5>2. 1 \in 1 .. Len(inbox[n])
          BY <5>1, <4>2
        <5>3. Len(inbox'[n]) # 0
          BY <5>2, <3>2, <1>1 DEF Appended
        <5>4. QED
          BY <5>2, <5>3, <3>2, <1>1 DEF Appended
      <4>3. QED
        BY <4>1, <4>2
    <3>3. QED
      BY <3>1, <3>2
  <2>3. QED
    BY <2>1, <2>2, <1>0, <1>4, <1>5 DEF StartInv
<1>9. ExchangeInv'
  <2>1. PICK got : Counted(got) /\ Exchange(runs, doneNow, sentNow, tx, inbox, got)
    BY <1>0, <1>3 DEF ExchangeInv
  <2>2. Exchange(runs, doneNow, sentNow, tx', inbox', got)
    BY <2>1, <1>1, <1>2, BusKeeps
  <2>3. Exchange(runs, doneNow, sentNow, tx, inbox, got)'
    BY <2>2, <1>5
  <2>4. Counted(got)'
    BY <2>1, <1>5
  <2>5. QED
    BY <2>3, <2>4 DEF ExchangeInv
<1>10. QED
  BY <1>5, <1>6, <1>7, <1>8, <1>9 DEF Orderly

\* A frame goes over the bus.
LEMMA OverBusKeeps ==
  ASSUME Orderly, NEW a \in Nodes, GoesOverBus(a)
  PROVE  Orderly'
<1>1. PICK b \in Pending(tx[a]) : FrameMoves(a, b)
  BY Zenon DEF GoesOverBus, FrameMoves
<1>2. b \in TXBuffers /\ tx[a][b] # NoFrame
  BY DEF Pending
<1>3. /\ consensusState' = consensusState /\ numIter' = numIter
      /\ numberOfMsgReceived' = numberOfMsgReceived /\ receivedDutyCycle' = receivedDutyCycle
      /\ dutyCycleAv' = dutyCycleAv /\ luxRefAfterConsensus' = luxRefAfterConsensus
      /\ run' = run /\ runs' = runs
  BY Zenon DEF GoesOverBus
<1>4. CASE tx[a][b].type = "DO_CONSENSUS"
  BY <1>1, <1>2, <1>3, <1>4, StartOverBus
<1>5. CASE tx[a][b].type # "DO_CONSENSUS"
  BY <1>1, <1>2, <1>3, <1>5, ProposalOverBus
<1>6. QED
  BY <1>4, <1>5

----------------------------------------------------------------------------
\* Before the first calibration is done nothing has happened.
LEMMA OptimiserInitially ==
  ASSUME OptimiserInit
  PROVE  Orderly
<1> USE DEF OptimiserInit
<1>1. \A n \in Nodes, b \in TXBuffers : tx[n][b] = NoFrame
  BY DEF NothingPending
<1>2. \A n \in Nodes : 1 .. Len(inbox[n]) = {}
  OBVIOUS
<1>3. \A j \in Nodes : j \in 0 .. NumNodes
  BY ConsensusConstants DEF Nodes
<1>4. Typed
  <2>1. NothingPending \in [TXBuffers -> Messages \cup {NoFrame}]
    BY DEF NothingPending
  <2>2. tx \in [Nodes -> [TXBuffers -> Messages \cup {NoFrame}]]
    BY <2>1
  <2>3. inbox \in [Nodes -> Seq(Messages)]
    OBVIOUS
  <2>4. QED
    BY <2>2, <2>3 DEF Typed
<1>5. OffInv
  BY <1>3, ConsensusConstants DEF OffInv, Behind
<1>6. SetPointInv
  BY DEF SetPointInv, Behind
<1>7. BeforeInv
  BY DEF BeforeInv
<1>8. StartInv
  BY <1>1, <1>2, TwoMessages DEF StartInv
<1>9. PureInv
  BY NoAveragePure DEF PureInv
<1>10. ExchangeInv
  BY DEF ExchangeInv
<1>11. QED
  BY <1>4, <1>5, <1>6, <1>7, <1>8, <1>9, <1>10 DEF Orderly

\* What is of no interest to the invariant may change.
LEMMA OrderlyUnchanged ==
  ASSUME Orderly, UNCHANGED optimiserVars
  PROVE  Orderly'
<1>1. /\ consensusState' = consensusState /\ numIter' = numIter
      /\ numberOfMsgReceived' = numberOfMsgReceived /\ receivedDutyCycle' = receivedDutyCycle
      /\ dutyCycleAv' = dutyCycleAv /\ luxRefAfterConsensus' = luxRefAfterConsensus
      /\ run' = run /\ runs' = runs /\ tx' = tx /\ inbox' = inbox
  BY DEF optimiserVars
<1>2. Typed /\ OffInv /\ SetPointInv /\ BeforeInv /\ StartInv /\ PureInv /\ ExchangeInv
  BY DEF Orderly
<1>3. /\ OffInv' /\ SetPointInv' /\ PureInv'
      /\ doneNow' = doneNow /\ sentNow' = sentNow
      /\ \A n \in Nodes : Behind(n)' <=> Behind(n)
      /\ \A got : Counted(got) => Counted(got)'
  BY <1>1, <1>2, BusLeaves
<1>4. Typed' /\ BeforeInv'
  BY <1>1, <1>2 DEF Typed, BeforeInv
<1>5. \A c \in Nodes : Announcing(c)' <=> Announcing(c)
  BY <1>1, <1>3 DEF Announcing
<1>6. StartInv'
  BY <1>1, <1>2, <1>3, <1>5 DEF StartInv
<1>7. ASSUME runs' # 0
      PROVE  \E got : Counted(got)' /\ Exchange(runs, doneNow, sentNow, tx, inbox, got)'
  <2>1. PICK got : Counted(got) /\ Exchange(runs, doneNow, sentNow, tx, inbox, got)
    BY <1>1, <1>2, <1>7 DEF ExchangeInv
  <2>2. Counted(got)' /\ Exchange(runs, doneNow, sentNow, tx, inbox, got)'
    BY <2>1, <1>1, <1>3
  <2>3. QED
    BY <2>2
<1>8. ExchangeInv'
  BY <1>7 DEF ExchangeInv
<1>9. QED
  BY <1>3, <1>4, <1>6, <1>8 DEF Orderly

\* Every step keeps the exchange orderly, or mixes or crowds the frames.
LEMMA OptimiserStep ==
  ASSUME OptimiserInv, [OptimiserNext]_optimiserVars
  PROVE  OptimiserInv'
<1> SUFFICES ASSUME ~mixed', ~crowded'
             PROVE  Orderly'
  BY Zenon DEF OptimiserInv
<1>1. CASE OptimiserNext
  <2>1. Orderly
    BY <1>1, Zenon DEF OptimiserNext, OptimiserInv
  <2>2. PICK a \in Nodes : Step(a) \/ Command(a)
    BY <1>1, Zenon DEF OptimiserNext
  <2>3. CASE CalibrationDone(a)
    BY <2>1, <2>3, FirstRunKeeps, LaterCalibrationKeeps
  <2>4. CASE ReceiveDoConsensus(a)
    BY <2>1, <2>4, StartKeeps
  <2>5. CASE ReceiveDutyCycle(a)
    BY <2>1, <2>5, ReceiveKeeps
  <2>6. CASE IterateAndSend(a)
    BY <2>1, <2>6, IterateKeeps
  <2>7. CASE WaitAndUpdate(a)
    BY <2>1, <2>7, WaitKeeps
  <2>8. CASE GoesOverBus(a)
    BY <2>1, <2>8, OverBusKeeps
  <2>9. CASE Command(a)
    BY <2>1, <2>9, CommandKeeps
  <2>10. QED
    BY <2>2, <2>3, <2>4, <2>5, <2>6, <2>7, <2>8, <2>9, Zenon DEF Step
<1>2. CASE UNCHANGED optimiserVars
  <2>1. mixed' = mixed /\ crowded' = crowded
    BY <1>2 DEF optimiserVars
  <2>2. Orderly
    BY <2>1, Zenon DEF OptimiserInv
  <2>3. QED
    BY <2>2, <1>2, OrderlyUnchanged
<1>3. QED
  BY <1>1, <1>2

(***************************************************************************)
(* As long as frames are neither mixed nor crowded, the nodes exchange     *)
(* their proposals in order, for every number of nodes, of entries in a    *)
(* frame, of iterations and of runs.                                       *)
(***************************************************************************)
THEOREM OptimiserHolds == OptimiserSpec => []OptimiserInv
<1>1. OptimiserInit => OptimiserInv
  BY OptimiserInitially DEF OptimiserInv
<1>2. OptimiserInv /\ [OptimiserNext]_optimiserVars => OptimiserInv'
  BY OptimiserStep
<1>3. QED
  BY <1>1, <1>2, PTL DEF OptimiserSpec

\* Every average is over exactly one proposal of every node (AveragePure).
THEOREM OptimiserAveragePure == OptimiserSpec => []AveragePure
<1>1. OptimiserInv => AveragePure
  <2> SUFFICES ASSUME OptimiserInv, ~mixed, ~crowded
               PROVE  PureInv
    BY Zenon DEF AveragePure, PureInv, Pure
  <2>1. QED
    BY Zenon DEF OptimiserInv, Orderly
<1>2. QED
  BY <1>1, OptimiserHolds, PTL

(***************************************************************************)
(* When a node adopts the set-point of a run, the others are in that run   *)
(* and have sent their last proposal (AdoptedTogether).                    *)
(***************************************************************************)
THEOREM OptimiserAdoptedTogether == OptimiserSpec => []AdoptedTogether
<1>1. ASSUME Orderly, NEW m \in Nodes, NEW n \in Nodes
      PROVE  /\ luxRefAfterConsensus[m] <= run[n]
             /\ luxRefAfterConsensus[m] = run[n] /\ consensusState[n] # "OFF" =>
                  consensusState[n] = "WAITING" /\ numIter[n] = MaxIter - 1
  <2>0. Typed /\ OffInv /\ SetPointInv /\ BeforeInv /\ ExchangeInv
    BY <1>1 DEF Orderly
  <2>1. /\ run[n] \in Nat /\ runs \in Nat /\ luxRefAfterConsensus[m] \in Nat
        /\ numIter[n] \in Nat /\ numIter[n] < MaxIter /\ MaxIter \in Nat \ {0}
        /\ consensusState[n] \in {"OFF", "ITERATE", "WAITING"}
    BY <2>0, ConsensusConstants DEF Typed, OffInv
  <2>2. CASE luxRefAfterConsensus[m] = runs /\ runs # 0
    <3>1. PICK got : Exchange(runs, doneNow, sentNow, tx, inbox, got)
      BY <2>0, <2>2 DEF ExchangeInv
    <3>2. doneNow[m] = MaxIter
      BY <2>0, <2>2 DEF SetPointInv, doneNow, Completed
    <3>3. MaxIter <= sentNow[n]
      BY <3>1, <3>2 DEF Exchange, InStepWith
    <3>4. MaxIter <= Proposed(n)
      BY <3>3 DEF sentNow
    <3>5. ~Behind(n) /\ (consensusState[n] # "OFF" =>
            consensusState[n] = "WAITING" /\ numIter[n] = MaxIter - 1)
      BY <3>4, <2>1 DEF Proposed, Completed
    <3>6. QED
      BY <3>5, <2>1, <2>2 DEF Behind
  <2>3. CASE luxRefAfterConsensus[m] < runs
    <3>1. run[n] = runs \/ (consensusState[n] = "OFF" /\ run[n] = runs - 1)
      BY <2>0 DEF OffInv, Behind
    <3>2. luxRefAfterConsensus[m] <= run[n]
      BY <3>1, <2>1, <2>3
    <3>3. luxRefAfterConsensus[m] = run[n] => consensusState[n] = "OFF"
      BY <3>1, <2>1, <2>3
    <3>4. QED
      BY <3>2, <3>3
  <2>4. CASE runs = 0
    BY <2>0, <2>1, <2>4 DEF BeforeInv, SetPointInv
  <2>5. QED
    BY <2>0, <2>1, <2>2, <2>3, <2>4 DEF SetPointInv
<1>2. OptimiserInv => AdoptedTogether
  <2> SUFFICES ASSUME OptimiserInv, ~mixed, ~crowded, NEW m \in Nodes, NEW n \in Nodes
               PROVE  /\ luxRefAfterConsensus[m] <= run[n]
                      /\ luxRefAfterConsensus[m] = run[n] /\ consensusState[n] # "OFF" =>
                           consensusState[n] = "WAITING" /\ numIter[n] = MaxIter - 1
    BY Zenon DEF AdoptedTogether
  <2>1. Orderly
    BY Zenon DEF OptimiserInv
  <2>2. QED
    BY <2>1, <1>1
<1>3. QED
  BY <1>2, OptimiserHolds, PTL

=============================================================================
