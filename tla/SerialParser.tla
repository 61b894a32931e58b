---------------------------- MODULE SerialParser ----------------------------
(***************************************************************************)
(* The server's end of the serial line: async_read_until, handle_read_     *)
(* serial and what it does with each message of the hub (Server.cpp).      *)
(*                                                                         *)
(* The hub writes whole messages, each with the sync byte 255 first, and   *)
(* lines of debug text between them; a byte 255 may also occur in the data *)
(* of a message.  The bytes reach the server in chunks of any size.  The   *)
(* handler is called when a chunk with a 255 came in, with everything read *)
(* so far, and keeps a message that is cut by the end for the next call.   *)
(* One step of Scan is one turn of the handler's loop.                     *)
(*                                                                         *)
(* What the handler calls: frequent data go to the last minute buffer (the *)
(* module of that name), responses to the command queue and frequent data  *)
(* to the streams (CommandQueue and ClientSessions: here only recorded).   *)
(***************************************************************************)
EXTENDS Integers, Sequences, SequencesExt

CONSTANTS
    NodeIds,        \* ids of the nodes, below 64
    DataBytes,      \* values of the bytes of a pwm, an illuminance, a response
    Minute, MaxTime, Garbage,   \* of LastMinuteBuffer
    MaxMessages     \* bound on the messages and text the hub writes

ASSUME BytesAssumption == NodeIds \cup DataBytes \subseteq 0 .. 255

SyncByte == 255

\* The character codes of the kinds of messages, and one of debug text.
F == 70     R == 82     D == 68     L == 76     Text == 46

VARIABLES
    wire,           \* bytes the hub has written and the server has not read
    serial_stm_buff,            \* bytes read since the last call of the handler
    unfinishedSerialString,     \* the cut message kept for the next call
    scanning,       \* the handler is running
    line, offset,   \* its local variables
    nodeIds,        \* the nodes the server knows
    sent,           \* history: the messages the hub wrote
    delivered,      \* history: the messages the handler acted on whole
    cuts,           \* history: messages cut where the handler does not see it
    written         \* messages and text written so far, to bound them

VARIABLES lastMinuteBuffer, lastTimeAddedEntry, clock, adding, everAdded

LMB == INSTANCE LastMinuteBuffer WITH Readings <- DataBytes

ASSUME ClockAssumption == LMB!Parameters

parserVars == <<wire, serial_stm_buff, unfinishedSerialString, scanning, line,
                offset, nodeIds, sent, delivered, cuts, written>>
lmbVars == <<lastMinuteBuffer, lastTimeAddedEntry, clock, adding, everAdded>>
vars == <<parserVars, lmbVars>>

----------------------------------------------------------------------------
(***************************************************************************)
(* The hub's side: Communication::received and sendOnSerial ('F'),         *)
(* sendResponse ('R'), sendPCDiscovery ('D') and sendListNodesToPC ('L').  *)
(* An illuminance stays below 6528 lux, so its high byte is never 255; its *)
(* low byte and the pwm may be.                                            *)
(***************************************************************************)
FrequentData == {<<SyncByte, F, n, b, 0, b>> : n \in NodeIds, b \in DataBytes}

Responses == {<<SyncByte, R, 0, 0, 0, b>> : b \in DataBytes}

Discovery == {<<SyncByte, D>>}

\* A list is ascending and has the node itself at least.
AscendingLists ==
    {s \in BoundedSeq(NodeIds, Cardinality(NodeIds)) \ {<<>>} :
       \A i, j \in DOMAIN s : i < j => s[i] < s[j]}

NodeLists == {<<SyncByte, L, Len(s)>> \o s : s \in AscendingLists}

Messages == FrequentData \cup Responses \cup Discovery \cup NodeLists

Init ==
    /\ wire = <<>> /\ serial_stm_buff = <<>> /\ unfinishedSerialString = <<>>
    /\ scanning = FALSE /\ line = <<>> /\ offset = 0
    /\ nodeIds = <<>>
    /\ sent = <<>> /\ delivered = <<>> /\ cuts = 0 /\ written = 0
    /\ LMB!InitBuffer

\* The hub writes a message.
Write(m) ==
    /\ written < MaxMessages
    /\ written' = written + 1
    /\ wire' = wire \o m
    /\ sent' = Append(sent, m)
    /\ UNCHANGED <<serial_stm_buff, unfinishedSerialString, scanning, line, offset,
                   nodeIds, delivered, cuts, lmbVars>>

\* The hub prints text (Serial.print in its own code).
WriteText ==
    /\ written < MaxMessages
    /\ written' = written + 1
    /\ wire' = Append(wire, Text)
    /\ UNCHANGED <<serial_stm_buff, unfinishedSerialString, scanning, line, offset,
                   nodeIds, sent, delivered, cuts, lmbVars>>

----------------------------------------------------------------------------
Contains255(bytes) == \E i \in DOMAIN bytes : bytes[i] = SyncByte

(***************************************************************************)
(* async_read_until: reads what is there, a chunk at a time, until the     *)
(* stream buffer has a 255.  The chunk that has it may have more after it. *)
(***************************************************************************)
ReadSome(k) ==
    /\ ~scanning /\ ~Contains255(serial_stm_buff)
    /\ k \in 1 .. Len(wire)
    /\ serial_stm_buff' = serial_stm_buff \o SubSeq(wire, 1, k)
    /\ wire' = SubSeq(wire, k + 1, Len(wire))
    /\ UNCHANGED <<unfinishedSerialString, scanning, line, offset, nodeIds, sent,
                   delivered, cuts, written, lmbVars>>

\* Mutant: the kept part of a message is put behind what was read.
JoinedBehind == serial_stm_buff \o unfinishedSerialString

\* line.insert(0, unfinishedSerialString)
Joined == unfinishedSerialString \o serial_stm_buff

\* The handler is called: takes everything read, after what it had kept.
HandleReadSerial ==
    /\ ~scanning /\ Contains255(serial_stm_buff)
    /\ scanning' = TRUE
    /\ line' = Joined
    /\ offset' = 0
    /\ serial_stm_buff' = <<>>
    /\ unfinishedSerialString' = <<>>
    /\ UNCHANGED <<wire, nodeIds, sent, delivered, cuts, written, lmbVars>>

SyncPositions == {i \in offset + 1 .. Len(line) : line[i] = SyncByte}

\* syncBytePos, counted from 1: the first 255 from offset on.
SyncBytePos == CHOOSE i \in SyncPositions : \A j \in SyncPositions : i <= j

\* The line from the sync byte on.
Rest == SubSeq(line, SyncBytePos, Len(line))

\* Mutant: the sync byte of a response is counted twice.
SizeWithSyncTwice(msg) ==
    CASE msg[2] = F -> 6
      [] msg[2] = R -> 7
      [] msg[2] = L -> IF Len(msg) < 3 THEN 3 ELSE 3 + msg[3]
      [] OTHER -> 2

\* sizeMsg: a response counts five bytes, though it has six.
SizeMsg(msg) ==
    CASE msg[2] = F -> 6
      [] msg[2] = R -> 5
      [] msg[2] = L -> IF Len(msg) < 3 THEN 3 ELSE 3 + msg[3]
      [] OTHER -> 2

(***************************************************************************)
(* The message as the handler takes it.  The last byte of a response is    *)
(* read past sizeMsg: at the end of the string it is the terminating 0.    *)
(***************************************************************************)
Taken(msg) ==
    IF msg[2] = R THEN SubSeq(msg, 1, 5) \o <<IF Len(msg) > 5 THEN msg[6] ELSE 0>>
    ELSE SubSeq(msg, 1, SizeMsg(msg))

\* A response whose last byte is not there yet, or will be taken for a sync byte.
ResponseCut(msg) == msg[2] = R /\ (Len(msg) = 5 \/ msg[6] = SyncByte)

\* What the branch of the message's kind does.  A response that is cut is acted on
\* too, with a byte that is not its own: it counts as a cut, not as delivered.
Deliver(msg) ==
    /\ delivered' = IF msg[2] \in {F, R, D, L} /\ ~ResponseCut(msg)
                    THEN Append(delivered, Taken(msg)) ELSE delivered
    /\ nodeIds' = IF msg[2] = L THEN SubSeq(msg, 4, 3 + msg[3]) ELSE nodeIds
    /\ IF msg[2] = F THEN LMB!AddToLastMinuteBuffer(msg[3], msg[6])
       ELSE UNCHANGED lmbVars

\* A turn of the loop: the sync byte is the last byte of the line, and is dropped.
ScanLoneSync ==
    /\ scanning /\ adding = LMB!Idle /\ SyncPositions # {}
    /\ Len(Rest) < 2
    /\ offset' = Len(line) + 1
    /\ cuts' = cuts + 1
    /\ UNCHANGED <<wire, serial_stm_buff, unfinishedSerialString, scanning, line,
                   nodeIds, sent, delivered, written, lmbVars>>

\* Mutant: the cut message is thrown away.
NothingKept == <<>>

\* line.substr(syncBytePos)
Kept == Rest

\* A turn of the loop: the message is cut by the end of the line, and is kept.
ScanUnfinished ==
    /\ scanning /\ adding = LMB!Idle /\ SyncPositions # {}
    /\ Len(Rest) >= 2 /\ Len(Rest) < SizeMsg(Rest)
    /\ unfinishedSerialString' = Kept
    /\ offset' = SyncBytePos - 1 + SizeMsg(Rest)
    /\ UNCHANGED <<wire, serial_stm_buff, scanning, line, nodeIds, sent, delivered,
                   cuts, written, lmbVars>>

\* A turn of the loop: the message is complete.
ScanMessage ==
    /\ scanning /\ adding = LMB!Idle /\ SyncPositions # {}
    /\ Len(Rest) >= 2 /\ Len(Rest) >= SizeMsg(Rest)
    /\ Deliver(Rest)
    /\ offset' = SyncBytePos - 1 + SizeMsg(Rest)
    /\ cuts' = IF ResponseCut(Rest) THEN cuts + 1 ELSE cuts
    /\ UNCHANGED <<wire, serial_stm_buff, unfinishedSerialString, scanning, line,
                   sent, written>>

\* No sync byte is left: start_read_serial.
ScanDone ==
    /\ scanning /\ adding = LMB!Idle /\ SyncPositions = {}
    /\ scanning' = FALSE
    /\ line' = <<>> /\ offset' = 0
    /\ UNCHANGED <<wire, serial_stm_buff, unfinishedSerialString, nodeIds, sent,
                   delivered, cuts, written, lmbVars>>

Scan == ScanLoneSync \/ ScanUnfinished \/ ScanMessage \/ ScanDone

\* The rest of addToLastMinuteBuffer.
Add ==
    /\ LMB!RemoveOldLastMinuteBufferEntries \/ LMB!PushBack
    /\ UNCHANGED parserVars

Tick == LMB!Tick /\ UNCHANGED parserVars

Next ==
    \/ \E m \in Messages : Write(m)
    \/ WriteText
    \/ \E k \in 1 .. Len(wire) : ReadSome(k)
    \/ HandleReadSerial \/ Scan \/ Add
    \/ Tick

(***************************************************************************)
(* The server keeps reading: asio completes the read when there are bytes, *)
(* and its threads run the handler and the calls it makes.                 *)
(***************************************************************************)
Spec ==
    /\ Init /\ [][Next]_vars
    /\ WF_vars(\E k \in 1 .. Len(wire) : ReadSome(k))
    /\ WF_vars(HandleReadSerial) /\ WF_vars(Scan) /\ WF_vars(Add)

----------------------------------------------------------------------------
Bytes == 0 .. 255

TypeOK ==
    /\ wire \in Seq(Bytes) /\ serial_stm_buff \in Seq(Bytes)
    /\ unfinishedSerialString \in Seq(Bytes) /\ line \in Seq(Bytes)
    /\ scanning \in BOOLEAN /\ offset \in Nat
    /\ nodeIds \in Seq(Bytes)
    /\ sent \in Seq(Messages) /\ delivered \in Seq(Seq(Bytes))
    /\ cuts \in Nat /\ written \in 0 .. MaxMessages
    /\ LMB!BufferTypeOK

(***************************************************************************)
(* As long as no read ended right after a sync byte or before the last     *)
(* byte of a response, and no response ended in 255, the handler acts on   *)
(* the messages of the hub, all of them, once and in order: however else   *)
(* the reads cut them, whatever 255s are in their data, and with text      *)
(* between them.                                                           *)
(***************************************************************************)
Faithful == cuts = 0 => IsPrefix(delivered, sent)

\* Each message that was delivered is one that was sent, in the order they were sent in.
InOrder ==
    \E place \in [DOMAIN delivered -> DOMAIN sent] :
      /\ \A i \in DOMAIN delivered : delivered[i] = sent[place[i]]
      /\ \A i, j \in DOMAIN delivered : i < j => place[i] < place[j]

\* Every byte written has been through the handler, and no message is kept.
LineQuiet ==
    wire \o serial_stm_buff \o unfinishedSerialString = <<>> /\ ~scanning

\* No byte of a message but its first can be taken for a sync byte.
NoSyncInData == \A i \in DOMAIN sent : ~Contains255(Tail(sent[i]))

(***************************************************************************)
(* A cut costs the message that is cut and no other, when no data byte is  *)
(* 255: the handler finds the next message, acts on nothing that was not   *)
(* sent, the order is kept, and every other message is acted on.           *)
(***************************************************************************)
NoCascade ==
    NoSyncInData =>
      /\ InOrder
      /\ LineQuiet => Len(sent) = Len(delivered) + cuts

(***************************************************************************)
(* No reading that the parser delivered in the last minute is missing from *)
(* the buffer, in the middle of an addition or when a second passes in it. *)
(***************************************************************************)
KeepsLastMinute == LMB!KeepsLastMinute

(***************************************************************************)
(* After the parser added a reading, no reading of any node is left that   *)
(* was more than a minute old when it came.                                *)
(***************************************************************************)
PurgedWhenAdded == LMB!PurgedWhenAdded

(***************************************************************************)
(* The handler always catches up: every message that another one follows   *)
(* is acted on, and does not stay in the string that is kept, nor in the   *)
(* stream buffer, unless a cut came first.  (The last message may wait     *)
(* there for the next 255.)                                                *)
(***************************************************************************)
FollowedIsDelivered == []<>(Len(delivered) >= Len(sent) - 1 \/ cuts > 0)
=============================================================================
