# A verification of the distributed lighting control

TLA+ models of the program in this repository: the firmware of the luminaires (`src/src`,
`src/include`) and the PC server (`src/SCDTR-PC`). Each module models one component, the `.cfg`
files check it with TLC on small instances, and the modules named `*Proofs` hold theorems that TLAPS
proves for every value of the constants. `PROJECT.json` maps every definition to the lines it
models.

    tlc -config calib_barriers.cfg Calibration.tla      # one run; see "The runs"
    tlapm CalibrationProofs.tla                         # one module of proofs

## 1. The system and its parts

Several luminaires, each an Arduino with a LED, a light sensor and an MCP2515 CAN controller,
calibrate themselves together, then optimise their set-points together. One of them, the hub, is
connected to a PC by a serial line. The PC server queues commands from a console and TCP clients and
sends them to the hub.

A node runs one `loop()`, interrupted by `irqHandler` when a frame arrives. Nodes share nothing but
broadcast CAN frames, which carry neither a sequence number nor the phase they belong to. The server
runs the handlers of one `io_context` on four threads.

| Component | State | Operations | Interacts by |
|---|---|---|---|
| Start-up, registry (`main.cpp`, `mainFSM.cpp`) | `nodesList`, `nodeIndexOnGainMatrix`, FSM state and time | `setup`, `runStateInit`, `runStateWakeupWait`, `registerNewNode`, `resetGlob` | WAKEUP and COMMAND_REQUEST frames; starts the calibration |
| Calibration (`calibrationFSM.cpp`) | FSM state, READY count, LED index, readings, gain matrix | the four `runState...`, `receivedGainOrResidual`, `incrementNodesReady` | READY and LED_ON frames, light; starts the optimisation |
| Consensus (`consensus.cpp`) | iteration, frame count, sums, average | `init`, `consensus_main`, reception of proposals | CONSENSUS and DO_CONSENSUS frames; sets the controller's reference |
| CAN receive path (`main.cpp`, `can_frame_stream.h`, MCP2515) | receive buffers, INT pin, ring buffer, `interrupt` flag | `irqHandler`, `loop`, `put`, `get` | interrupt against `loop()`; calls `Communication::received` |
| Hub routing (`serialComm.cpp`, `communication.cpp`) | running total and its missing results | `readSerial`, `executeCommand`, `receivedCommandResponseFromCAN` | serial line, request and response frames |
| PC command queue (`Server.cpp`) | `commandsQueue`, timer, acknowledgement counts | add, execute, time-out, response | threads, serial line, clients |
| CAN transmit path (`communication.cpp`, MCP2515) | three transmit buffers | `sendFrame` | frames on the bus |
| Hub discovery (`serialComm.cpp`, `communication.cpp`) | `hubNode`, `pcDiscoveryHadResponse`; the server's `nodeIds` | `sendPCDiscovery`, answer, IS_HUB, NO_LONGER_HUB, `sendListNodesToPC` | serial line, frames |
| Serial parser (`Server.cpp`) | stream buffer, `unfinishedSerialString`, a position in the line | `start_read_serial`, `handle_read_serial` | serial line; feeds the queue, the buffer and the streams |
| Last-minute buffer (`LastMinuteBuffer.cpp`) | readings by node and second | add, remove the old, print | called by the parser and by clients |
| Client sessions (`ServerConnection.cpp`, `Server.cpp`) | `clientSessions`, `activeStreams`, outstanding reads and writes, three mutexes | accept, read, write, error, remove, stream | threads, sockets, the queue |
| Luminaire, controller, filter, simulator, metrics | floating-point control state | one step per sampling period | own sensor and LED |

What is hard in it, and what makes each part correct:

* **Calibration.** Nodes meet `2*NumNodes + 1` times, using one counter for all the meetings. Nodes
  have different speeds, and a frame of the next meeting may arrive before a node has tested the
  count of this one. No node may be ahead of one that is not ready, no reading may see the light of
  another LED, each value must be filed where it belongs, and everybody must finish.
* **Consensus.** Iterations are counted by frames; frames of a fast node arrive an iteration early.
  An average must be over one proposal of each node, all of one iteration of one run.
* **Receive path.** An interrupt handler and a loop share a flag and a ring; frames arrive inside
  the handler. No frame may be forgotten or processed twice.
* **Start-up.** Nodes are turned on at different times, reset, and lose power. Before they calibrate
  they must hold the same sorted list, because an index names a node.
* **Hub.** Responses do not name their command. A lost one must not spoil what follows.
* **Command queue.** Four threads, a timer that races the response, clients that leave. A command is
  to be sent once, get its own answer, and never block the queue.
* **Transmit path.** Three buffers; a fourth frame is dropped and two that wait may be swapped. A
  vector takes up to three frames.
* **Hub discovery.** The PC is moved from node to node, nodes and server restart, and goodbyes of an
  old hub cross the announcement of a new one. There must be one hub, known to all, and the server
  must have its list.
* **Serial parser.** Messages are cut by the reads, have the sync byte in their data, and have text
  between them. What the hub wrote must be acted on once, in order, and a cut must cost no more than
  the message it cuts.
* **Last-minute buffer.** Two readings of the clock and two critical sections in one addition.
  Nothing of the last minute may be missing, and nothing older may stay.
* **Client sessions.** Read and write handlers on raw pointers, two errors for one client, three
  mutexes taken in pairs. A session must be removed once, not used after that, and never be left
  without a read.

## 2. The modules

| Module | Models | Uses |
|---|---|---|
| `Barrier` | abstract: a counting barrier over an ordered broadcast | |
| `Calibration` | the calibration FSM of every node and its frames | refines `Barrier` |
| `CanTransmit` | the transmit buffers of a node: operators, no state of its own | |
| `Consensus` | the iterations and frames of the optimisation | `CanTransmit` |
| `BoundedFifo` | abstract: a queue of bounded size | |
| `FrameStream` | the ring buffer | refines `BoundedFifo` |
| `CanReceive` | chip buffers, interrupt handler, `loop()` | composes with `FrameStream`, refines `BoundedFifo` |
| `CommandQueue` | the server's queue on several threads | |
| `Startup` | how nodes learn of each other | |
| `SerialHub` | gets, totals and resets through the hub | stands on the queue's protocol |
| `LastMinuteBuffer` | the samples of the last minute | |
| `SerialParser` | the server's end of the serial line | composes with `LastMinuteBuffer` |
| `ClientSessions` | sessions, streams and mutexes of the server | |
| `HubDiscovery` | which node is the hub, and which list the server has | `CanTransmit` |
| `BarrierProofs`, `CalibrationProofs`, `NodeProofs`, `CommandQueueProofs`, `StartupProofs`, `SerialHubProofs`, `ServerProofs`, `HubDiscoveryProofs` | the theorems | |

**Conventions.** One variable of the code is one variable of the model, with the code's name, a
function of the node where every node has it. One action is one handler or one call of a state
function, with everything it calls. A step is what no other actor can interrupt: a call from
`loop()` on a node (its interrupt handler only touches the ring), a critical section of
`mtxCommandsQueue` or a call between two of them on the server, an SPI transaction in `irqHandler`.
A broadcast puts the frame in the path of every other node at once (`inbox`), because a CAN bus
carries one frame at a time and every controller sees it. Each node takes frames from its path at
its own speed. In `Consensus` and `HubDiscovery` a frame first waits in a transmit buffer (`tx`); in
`Calibration` it finds one free, and `Receivable` says which two frames of a sender the chip may
have swapped. History variables are marked as such where they are declared, and no guard of the code
reads them. Operators with the comment `Mutant:` are plausible mistakes used to test the properties;
no specification uses them.

**Calibration.** A reading is abstracted to the set of LEDs lit when it is taken, with their levels,
and the cell that line 123 subtracts from it, a gain to who measured it, for which LED, and its sign
(the code takes a negative one for "no value"). `Passed(n)` and `Sent(n)` are the barriers a node
has gone through and announced, computed from `state`, `nodeLedOn`, `luxReadNum` and `done`; they
form the refinement mapping to `Barrier`. `Init` starts from what `resetCalib` and the constructor
leave, with a stale `nodeLedOn`: 0 on a fresh node, `NumNodes` on one that has calibrated before.
The arrays have `MaxNumNodes` cells, and none of the accesses is tested by the code: `SetGain`
writes where a column past the last one lies (the next row, or `residualArray`, the member behind
the matrix), and `Subtracted` reads `residualArray` with a node id, of which the ids from
`MaxNumNodes` on read something `Unknown` behind the array. A node is its place in `nodesList`, any
list of ascending ids; the ids matter for that access only. `Spec` lets a second pass at any time
for any node (a node may be stalled by `readSerial`, which blocks); `TimelySpec` lets it pass only
when every loop has done what it can.

**Consensus.** A proposal is known by its author, run and iteration; the arithmetic of
`consensus_iterate` is left out. Kept are the frames of a vector, what the slots of its last frame
hold, which slots a receiver reads (`<=`, one more than the sender fills), the count, the sums with
the entry past the last node, and what starts a run. `FrameSlots` is 3 in the code. The frames go
through the transmit buffers of `CanTransmit` and over the bus, where the lowest sender id wins
(`WinsBus`, from the layout of the frame id). `late`, `mixed` and `crowded` record what the code
relies on not happening: that a node iterates while another has not caught up, that a command or a
calibration that ended early mixes frames of two runs, and that a vector is sent while a frame still
waits in a buffer. A behaviour stops when it is `mixed` or `crowded`.

**CanTransmit.** `SendFrame` is `sendFrame` with the driver's `sendMessage`: the first free buffer,
or the frame is dropped. `SendFrames` is that for the frames of a vector, one after the other; the
fourth finds no free buffer, whatever was free before. Which of the waiting buffers is sent next is
the chip's doing (external): the highest number of equal priority.

**CanReceive.** The ring is that of `FrameStream`, whose operations the handler and `loop()` call.
Frames arrive (`FrameArrives`) between any two steps of the handler, fill RXB0, then RXB1, then
overflow. `edge` is the interrupt that the processor remembers; it is set when the INT pin falls.
The pin is low while a buffer is full or an error flag is set. An error of the bus (`BusError`,
external) sets ERRIF or MERRF at any moment, an overflow sets ERRIF, and nobody clears either.
`loop()` does not run while the handler does. `disturbed` records an overflow or an arrival during
the handler.

**CommandQueue.** A thread that runs a handler is in one of the places of
`executeNextInCommandQueue` between its critical sections (`pc`). `waits` counts asynchronous waits
on the timer, `fired` those whose handler is queued and can no longer be cancelled. The hub is
external: it answers a command or not, a reset up to once per node, whatever the server expects.
What the server expects is the size of the last list of nodes that it was sent, which may be any
(`NodeIdsSizes`): empty before the first list, the hub alone right after a reset. `miscounted`
records a reset that expected fewer answers than there are nodes. `pop()` of an empty `std::queue`
is undefined, so a behaviour ends there. The model says nothing about what a program does after
that. `overlapped` records that two threads were inside the queue's code at once, `late` that the
timer expired before an answer came; `Observe` updates both in every step.

**Startup.** Time is in ticks, `Delay` of them in the two seconds of Init and of WakeupWait; a tick
passes when no loop has anything to do that takes less. `raced` records a reset sent while a frame
was on its way or a node was due. `nodesList` has `MaxNumNodes` slots. A registration that finds
them taken pushes the last id out of the array (`RegisterPastEnd`); the slots hold what the code
leaves in them, and what is overwritten behind them is not modelled: `overflowed` records the node
until it is turned on again.

**SerialHub.** The PC has one command under way. A total is the set of its terms. A reset ends with
as many acknowledgements as the PC's list of nodes has entries (`NodeIdsSizes`). `hasty` records a
command sent between a reset and the wakeups that follow it, and a reset sent when the PC's list was
shorter than the network.

**LastMinuteBuffer.** The map from node and second to readings is a function; an entry that was
erased is the empty sequence. One addition is up to three steps: the first reading of the clock, the
purge (with the second reading) and the push. `lastTimeAddedEntry` starts with any value of
`Garbage`, since no constructor sets it. `everAdded` is what the buffer would hold without purging.

**SerialParser.** Bytes are numbers; a message of the hub is one of `Messages`, text is one byte.
`ReadSome` moves any number of bytes into the stream buffer until it has a 255 (that is what
`async_read_until` promises), and a turn of the handler's loop is one of `ScanLoneSync`,
`ScanUnfinished`, `ScanMessage` and `ScanDone`. `cuts` counts the places where the handler does not
see that a message is cut: after a lone sync byte, and before the last byte of a response. Such a
response is acted on with a last byte that is not its own; it counts as a cut, and `delivered` has
the messages acted on whole.

**ClientSessions.** A handler on a thread is a `call`; it takes a step wherever it takes a mutex,
and a mutex held while another is taken is in `mutex`. `Alive` is the reference count: a session
lives while the list, a stream's key, the queue or the arguments of a running call hold a
`shared_ptr`. A handler that runs on a session that is destroyed, and the `erase(end())` of a
session that is not in the list, are `undefined`. `writtenToGone` records the clients that a write
was outstanding for, or was started for, when they had gone. The streams of one node and one
quantity stand for all.

**HubDiscovery.** One PC, plugged into a node or none. The serial lines carry discoveries, their
answers and lists; frames go through `CanTransmit`. An `Event` is what is not routine: a frame lost
to an overflow, a registration, a reset, a restart of a node or of the server, the PC moved, a
message cut. `disturbed` records that a hub frame was lost, or waited with another in the buffers,
or that a node restarted when there was a hub or a frame; it ends when a node becomes the hub on a
quiet bus. `unnoticed` records that the server was restarted, or replugged into the node that still
takes itself for the hub, or that a list was cut; it ends with the next hub.

## 3. The runs

Each of them finishes within four minutes on two cores. Only `startup` checks for deadlock. In the
others the system really may stop: a calibration finishes (or, with slow nodes, waits above the
count), the bounded commands, frames, messages and clients are used up, or the behaviour ends at
undefined behaviour or at a mixed run.

| Run | Instance | Shows |
|---|---|---|
| `calib_barriers` | 2 nodes of any speed in arrays of 2, one id inside the array and one past it, fresh or reset in any combination, gains of either sign | nodes stay in step (`BarrierSafety`), the cell subtracted by mistake cancels out of a gain (`ResidualCancels`), gains are filed under the right pair (`GainsFiled`), the FSM implements the barrier (`ImplementsBarrier`), and only one cause can stop it (`CompletesOrOvercounts`) |
| `calib_timely` | 3 timely nodes | every node finishes, and no reading sees a foreign LED |
| `calib_residuals` | 2 timely nodes, violation | a residual that arrives early is filed as a gain; see section 6 |
| `can_receive` | 3 slots, 8 frames, errors of the bus at any moment | no lost wakeup, no frame twice, buffers watched, ring drains, and the ring used from both sides is a bounded queue (`ImplementsFifo`) |
| `command_queue_races` | 2 threads, 1 client that may leave, 2 commands, 2 nodes and a list of 0 to 2 at a reset, late and lost answers | the queue always has somebody left to serve it, and drains; sent once unless threads overlap; answered by its own response unless threads overlap, the hub is late or a reset was miscounted; timed out only if sent unless threads overlap or the hub is late |
| `command_queue_sent_twice` | 2 threads, violation | a command is written to the serial port twice; see section 6 |
| `consensus` | 3 nodes of any speed, 2 frames per vector, 2 iterations, 2 runs | no average mixes iterations or misses a node, nodes change set-point together, a run ends unless a node was late or a buffer crowded |
| `startup` | 3 nodes, lists of 4 slots, 2 ticks of delay, 1 reset, 2 power cycles | sorted list with right indices until it overflows; complete when the calibration starts; everybody gets there |
| `hub` | 3 nodes, 3 commands, a lost response, the PC's list complete or of the hub alone | the right answer, a reset acknowledged by every node, an open total waits for exactly what is missing, nothing blocks |
| `serial_parser` | 1 node, data bytes 1 and 255, 3 messages or texts, cut anywhere, 3 seconds with a minute of one | the handler acts on what was written, in order (`Faithful`), a cut costs one message (`NoCascade`), the handler catches up, and the buffer holds the last minute, no less and no more |
| `client_sessions` | 2 threads, 2 clients with a line each, 1 outstanding write for a stream | a session is removed twice or used when destroyed only if it was written to when it had gone, every client is heard and forgotten, no circular wait |
| `hub_discovery` | 3 nodes, 3 events | one hub, agreement on it in the end, and the server's list is the hub's |

Each module states a `TypeOK`. The runs check that of `Calibration`, which says that whatever the
code indexes the arrays keep their sizes and hold residuals and gains; those of the other modules
are documentation of the state, hold on the same instances when they are added to a `.cfg`, and are
proved for `CanReceive`, the ring and `HubDiscovery` (`DiscoveryType`).

**Why the bounds are enough.** *Nodes.* With two nodes each is owner and observer in turn; with
three there are two observers with different speeds, a node that is neither first nor last, and
READYs of two others to miscount. The proofs cover every number for the barrier and its users.
*FrameSlots = 2 with 3 nodes* makes a vector take two frames, the last partly filled and padded with
stale slots, and makes the receiver read the slot past the last node. In the code that takes four to
six nodes and three slots; the two frames of a vector meet a third one in the three transmit
buffers. *Two iterations* are enough for an early frame of the next iteration and for the last one;
*two runs* for a command against a run. *Three slots* and eight frames let the ring wrap with every
fill level (the code has ten) and overflow it and both chip buffers. *Two threads* are all that a
race between two critical sections needs (and a circular wait: every pair of mutexes ends with that
of the sessions, so a third thread cannot make a circle that two do not); two commands let one wait
while the other is answered or times out. *Delay and MaxSkew of two ticks* let wakeups come in the
middle of the wait and at both of its ends; nodes turned on more than two seconds apart are outside
what the code promises. *MaxNumNodes = 2* in `calib_barriers` makes a full network of two nodes, so
that a stale `nodeLedOn` is past a row; *ids 1 and 9* are one that reads a cell of another node and
one that reads past the array. *MaxNumNodes = 4* in `startup` lets a list of three nodes take one
duplicate and overflow with the next; the second power cycle gives both, with the reset at any
moment between. *NodeIdsSizes = {1, 3}* in `hub` are the list right after a reset and the complete
one, the other sizes end in between. *MaxLost = 1* leaves a total open, and three commands let two
more meet it. *Three messages* give one before and one after the message that is cut, *DataBytes* a
byte that is the sync byte and one that is not. *Minute = 1* scales the sixty seconds down: with
three seconds of clock an entry can be of this second, exactly a minute old, and older. *Two
clients* let the removal of one hit the other. *MaxEvents = 3* lets the PC be moved, a node restart
and a frame be lost in any order; four events were checked as well, in five minutes.

**Conditional properties.** `RegistryComplete` holds for behaviours that are `Undisturbed` (no reset
crossed a wakeup, no node restarted), as do `AnswerRight` and `WaitingForRest` (no response lost, no
hasty command), and `CommandAnswered` with them, `AveragePure` and `AdoptedTogether` (neither
`mixed` nor `crowded`), `RunEnds` (nor `late`), `BuffersWatched` (not `disturbed`, no error flag),
`AnsweredByOwnResponse` (not `overlapped`, not `late`, not `miscounted`), `TimedOutWasSent` (not
`overlapped`, not `late`), `ResidualCancels` (the nodes whose id is below `MaxNumNodes`),
`ListSorted` and `AllCalibrate` (the nodes that have not `overflowed`), `Faithful` (no `cuts`),
`OneHub` and `Agreement` (not `disturbed`) and `ListCurrent` (not `unnoticed`). `Consensus` stops
where its condition does; otherwise the same run also explores the disturbed behaviours and checks
of them what still holds: `ListSorted` and `AllCalibrate`; `CommandEnds`; `NoLostWakeup`,
`ProcessedOnce` and `StreamDrains`; `NoStall` and `QueueDrains`; `NoCascade` (when no byte of the
data is 255); `NoCircularWait`. Section 6 says what fails otherwise, where in the code, and why.

## 4. Fairness

* A node calls `loop()` for ever, and a frame in its path is eventually handled: weak fairness of a
  node's steps. A second, or a tick, passes: weak fairness of `SecondPasses` and `Tick`. A node that
  should be on is turned on.
* The processor runs the interrupt handler when it is due and `loop()` otherwise. That is weak
  fairness of each; a frame is never obliged to arrive.
* The operating system runs every thread, an idle thread takes a handler that is ready, and the
  timer expires. No fairness is assumed of the hub, of clients or of the user: `QueueDrains` holds
  although no command is ever answered.
* In `SerialHub` frames that are on their way are delivered (`Deliver`) unless they are lost, and
  the PC's timer runs.
* In `Consensus` and `HubDiscovery` the bus carries what waits in a transmit buffer. In
  `HubDiscovery` `sendPCDiscovery` runs again and again, because `loop()` calls it every two
  seconds, and the server reads its port. No event is ever obliged to happen.
* In `SerialParser` the port delivers what was written and the handler runs to its end. Nobody is
  obliged to write.
* In `ClientSessions` a thread that waits for a mutex gets it if it is free again and again, and the
  handler of a completed read is called in the end although other handlers are ready as well: strong
  fairness, which is what a mutex and the queue of an `io_context` that does not starve promise.
  Clients are not obliged to send or to close.
* `TimelySpec` of `Calibration` assumes that a loop turns around within the second of a reading (it
  takes milliseconds). The run without this assumption is `calib_barriers`.

## 5. What is proved

The constants are assumed to be no more than what their `ASSUME` says: `NumNodes`, `buffsize`,
`FrameSlots`, `MaxIter` positive, `NumNodes` of `Calibration` at most `MaxNumNodes`, node ids as
long as the arrays they index, `StaleLedOn` a set of indices, the set of threads not empty, bounds
natural numbers. Some theorems have a hypothesis of their own. `RegistryComplete` needs a slot of
`nodesList` for every node, and `MaxSkew <= Delay`: the nodes are turned on within the two seconds
that Init waits (`mainFSM.cpp:23`). It is tight: with a `MaxSkew` of 3 and a `Delay` of 2 TLC finds
a node that calibrates without a neighbour. `AnswerRight` and `WaitingForRest` need `NumNodes <=
256`: the hub's counter of the terms that a total waits for is a `uint8_t`, and so are the node ids,
so there are no more nodes than that.

* **The counting barrier** (`BarrierInStep`). `InStep` is not inductive: that a node does not go on
  too early depends on what its counter has counted, so on which READYs are still under way to it.
  `BarrierInv` adds `SentInv` (a node has announced the round it stands at or is about to),
  `FrameInv` and `OrderInv` (a READY under way was sent, is of a round its receiver has not left, is
  unique, and travels behind those of earlier rounds) and `CountInv`: the counter is exactly the
  number of nodes whose READY for this round arrived, or it is above the number of nodes and the
  node never goes on. The last disjunct is the flaw of the algorithm (section 6). It makes the
  barrier safe but not live.
* **The calibration** (`CalibrationTypeOK`, `CalibrationImplementsBarrier`,
  `CalibrationBarrierSafety`, `CalibrationResidualInDark`, `CalibrationResidualCancels`,
  `CalibrationInRow`). `LocalInv` ties the FSM state of a node to its LED index, reading number and
  flag; with `TypeOK` it is inductive and says which cells the code indexes. `CalibrationInRow` says
  when the index of a gain stays in its row: with fewer nodes than `MAX_NUM_NODES` always, and with
  as many as long as nobody starts with the `nodeLedOn` of a finished calibration. `GainsFiled` is
  proved for any arrays, as what a stale index files past a row comes before the gain of the cell
  that it hits. `ResidualCancels` rests on the barrier: a residual is filed by a receiver that has
  not gone through the first barrier, so before either reading of a LED. With `SeqInv` (a bus
  position names one frame) every step of `Calibration` is a step or stutter of `Barrier` under the
  mapping `CB`; the barrier's theorem then gives `BarrierSafety`, and that a LED is only lit after
  the first barrier gives `ResidualInDark`. `CountInv`, translated by the same mapping, says of the
  calibration that its counter is exact unless it is above `NumNodes` (`CalibrationCountersExact`).
  What the barrier knows of the READYs under way (`Barriers`) gives `GainsFiled`
  (`CalibrationGainsFiled`): `GainInv` says that a READY carries what its sender measured before
  that barrier (`ValueOfRound`), that a node past the second barrier of a LED has its gain
  (`Computed`), and that a gain is on its way, filed, or negative (`Filed`). For `TimelySpec`,
  `Timely` says that a READY under way is of the round its receiver stands at, that no counter is
  above `NumNodes` (`CalibrationNeverOvercounts`), and that a node whose second has passed stands
  where all others do: a second passes only when nothing else can be done. With `LedOfTurn` a
  reading then sees no LED but that of its turn (`CalibrationNoForeignLight`).
* **The ring** (`RingTypeOK`, `RingImplementsFifo`, of the ring as `CanReceive` uses it). `RingInv`
  is `TypeOK` with "locked implies that the indices meet". Under it `Contents` is a sequence of
  `Stored` frames; `put` appends to it and `get` takes its head.
* **The receive path** (`ReceiveNoLostWakeup`, `ReceiveBuffersWatched`, `ReceiveProcessedOnce`,
  `ReceiveTypeOK`, `ReceiveImplementsFifo`). `ReceiveInv` adds to the first two properties what the
  handler has achieved at each of its places (`HandlerProgress`) in an undisturbed run without
  errors of the bus. The lemmas on `put` and `get` of the ring then carry over: every step of the
  handler or of `loop()` is a step or stutter of `BoundedFifo`. For `ProcessedOnce`, `OnceInv` says
  that the frames in the ring are different, as are those processed, that no two of the chip
  buffers, the ring and the processed frames share one, and that the handler reads a buffer only
  while it holds a frame.
* **The optimisation** (`OptimiserHolds`, `OptimiserAveragePure`, `OptimiserAdoptedTogether`; in
  `NodeProofs`, which extends `CanReceive` and `Consensus`: they have no state in common, and
  `OptimiserSpec` and the like are named apart). A frame says neither its run nor its iteration, so
  that a node averages the right ones rests on a count. `OptimiserInv` says that as long as frames
  are neither mixed nor crowded the nodes are `Orderly`. Its core is `Exchange`, about numbers only:
  how many iterations a node has completed (`done`) and sent its proposal for (`sent`), what waits
  in the buffers, what is in its path, and the set of frames it has counted. Nobody is more than one
  iteration ahead of what another has sent (`InStepWith`); what waits is of the last proposal of its
  node (`LastWaits`); what was counted or is in the path has gone over the bus, is of no completed
  iteration, and is there once (`ArrivedOnce`); every part that found a buffer is there or still
  waits (`NothingLost`); a frame of the next iteration comes behind all of those of this one
  (`InOrder`), because its sender had them all before it went on (`AheadHadAll`). Then a node that
  has counted as many frames as it expects has exactly those of its iteration (`CountedAll`): a set
  of that size which includes them, or is included in them, is equal to them. That a vector has at
  most three parts is not assumed: a longer one loses its last parts, no node counts enough, and
  nobody completes an iteration (`FitsBuffers`). `Counted` ties the set to the counter and the sums
  of the code, of which the entry past the last node is free. `StartInv` says of a run that starts
  with a frame that this frame is the first in the path of every node that is behind, and that
  nothing else is sent before it. `SetPointInv` and `InStepWith` then give `AdoptedTogether`.
* **The command queue** (`CommandQueueNoStall`, `CommandQueueSentOnce`,
  `CommandQueueAnsweredByOwnResponse`, `CommandQueueTimedOutWasSent`). `QueueInv` is `NoStall` with
  the types it needs: a thread that leaves `executeNextInCommandQueue` leaves an empty queue or a
  wait behind, and a response or a timeout that takes a wait away puts a thread inside. `SendInv`
  adds, as long as no two threads overlapped (`Tidy`): the numbers in the queue rise, nothing that
  was sent is behind the front of the queue, and the front itself has not been sent while a thread
  is about to execute or write it (`HeadNotSent`, `LocalNotSent`). `ServedInv` adds, as long as the
  hub is not late either, that one command at a time is served, the front of the queue (`Served`).
  `Timed` is about the timer, which runs for that command only and is idle when a thread executes
  the next one, and holds whatever number of answers a reset expects. `Answered` is about the port,
  as long as no reset was miscounted: it carries that command or its responses, no more
  acknowledgements than a reset still waits for, and nothing when a thread executes the next
  command.
* **The last-minute buffer** (`ParserKeepsLastMinute`, `ParserPurgedWhenAdded`, and `BufferAlone`
  for the buffer by itself). The parser adds to the buffer in the steps in which its scan meets
  frequent data, so the invariant is proved of the parser's specification. `BufferInv` adds to the
  two properties what holds in the middle of an addition (`PurgedBeforePush`: nothing too old is
  left when the push comes, whether the purge was done or skipped) and that the uninitialized second
  is there only while the buffer is empty (`GarbageWhileEmpty`); a purge skipped because of it has
  nothing to remove.
* **The parser** (`ParserFaithful`, `ParserNoCascade`). That the delivered messages are those sent
  so far says nothing of the bytes still to come, so the invariant is about these. `Unread` puts
  them together: what the handler kept, the rest of its line, the stream buffer and the wire.
  `StreamInv` says that they carry (`Carries`) the messages that were sent and are not done with
  (`Done`: neither delivered nor cut), each of them whole, one behind the other, and that a sync
  byte outside of them does not occur. Then the first sync byte that the handler finds starts the
  next message (`AtSyncByte`, `MessageFirst`), whatever 255s the data has. A whole message is taken
  as it was sent (`MessageTaken`); of a response the sixth byte is left behind, which does no harm
  as long as it is not 255. A message cut by the end of the line is kept and comes first when the
  next line is joined to it, and reading moves bytes from one of the four places to the next without
  changing `Unread`. Where the handler does not see the cut it goes past the first part of the next
  message (`CutPreserves`); what is left of that message has no sync byte if only the first byte of
  a message is one, and is text from then on. `ParserInv` therefore asks for `StreamInv` until the
  first cut whatever the data, and after it if no data byte is 255. When the line is quiet nothing
  waits (`NothingCarried`), so that every message sent was delivered or cut, and by
  `DeliveredInOrder` those that were delivered are in the order they were sent in.
* **Client sessions** (`RemovesOnce`, `ClientsHeard`, `NobodyWaitsInACircle`; in `ServerProofs`,
  which extends `SerialParser` and `ClientSessions`: they have no state in common, and
  `SessionsSpec` and the like are named apart from the parser's). A thread `Serves` a client while
  its handler will start the client's next read or remove it. `UnwrittenInv` says that as long as no
  write can fail, a client that has a read outstanding or is served is in the list, is served by one
  thread, and never both; so an error handler finds its session alive and removes it once. It needs
  that only a client that has gone is removed (`RemovalInv`), that nothing refers to a client that
  has not connected (`KnownInv`) and that the list has a session once (`ListedOnce`). `HeardInv` is
  `ClientHeard` in the same words. `LockInv` says where a mutex is held from one step to the next:
  never that of the sessions, so whoever holds another and waits for it can go on. That a handler
  with its mutexes can take a step is ENABLED, which `NoCircularWait` checks with TLC.
* **The hub** (`HubAnswerRight`, `HubWaitingForRest`). Both hold of behaviours in which no response
  is lost, no command is sent between a reset and its wakeups and no reset before the PC's list is
  complete, so `HubInv` says: unless disturbed, `Quiet`. `Quiet` says, for each kind of command of
  the PC, what is under way. Nothing is when the PC is idle (`IdleInv`), and else only requests for
  its command and answers to it, one of a node (`FlightInv`); a get has exactly one request,
  response or answer (`GetInv`); the acknowledgements of a reset and what is under way make up the
  nodes (`ResetInv`); and while a total is open its terms are in the sum or under way, never both,
  and the counter is the number of those under way (`TotalInv`).
* **One hub** (`DiscoveryOneHub`, `DiscoveryListCurrent`). `OneHub` alone is not inductive: it says
  nothing of the order of frames. `HubInv` says that, unless disturbed, there is a node p that
  everything follows (`Follows(p)`): any other node that takes itself for the hub has still to
  handle p's IS_HUB, which is in p's buffers or in its inbox. The p of the next state is the node
  that becomes the hub, and else the same. `OwnFrames` and `FramesOfOthers` say whose frames a
  buffer and an inbox hold. For `ListCurrent`, `ListInv` says that as long as nothing went unnoticed
  the last list on the serial line is that of the hub, and if the line has none the server's own is.
* **The registry** (`StartupListSorted`, `StartupRegistryComplete`). `RegistryInv` says of every
  node that its slots are ascending (`Ascending`), and of one that has not overflowed that they hold
  the node itself (`Holds`) and that the recorded index of each known node is a place of the list
  with its id (`Indexed`). A node is inserted before the first larger id, which keeps the order; the
  indices are computed anew from the list, so each is a place where the id is. For
  `RegistryComplete`, `StartInv` says that no node is further ahead of another than a delay
  (`Together`), so that when one leaves WakeupWait all have left Init; that a wakeup under way is of
  a node that has just left it, and comes for the first time (`WakeupsNew`); and that a node knows
  exactly those that are awake, or is about to handle their wakeup (`AwakeKnown`), which no tick
  leaves behind. The list is then strictly ascending, with exact indices, and complete when the node
  calibrates (`ListExact`); as it misses the node that it is about to register, it is shorter than
  there are nodes, and the new id finds a slot (`SlotLeft`).

**Only model-checked.** Everything about liveness (`CompletesOrOvercounts`, `CalibrationCompletes`,
`StreamDrains`, `QueueDrains`, `RunEnds`, `AllCalibrate`, `CommandAnswered`, `CommandEnds`,
`FollowedIsDelivered`, `GoneForgotten`, `Agreement`), which is out of the prover's reach; and the
part of `NoCircularWait` that is stated with ENABLED, unknown to the prover. Every other invariant
and action property of the passing runs is a theorem.

## 6. Where the guarantees end

Two disagreements with the code's own comments are shown by runs that TLC finds violated:

* `calib_residuals`: `receivedGainOrResidual` (`calibrationFSM.cpp:184`) decides by `nodeLedOn ==
  -1`, which only `runStateInit` sets. A READY that comes before that is filed in the gain matrix,
  and the residual is missing.
* `command_queue_sent_twice`: a response pops its command and unlocks, a command added at that
  moment finds the queue empty and executes itself, and the responding thread executes it as well
  (`Server.cpp:344` and `:453`).

The others are limits that the models contain and the properties exclude by name:

* `calibrationFSM.cpp:64`: `runStateWaitReady` turns the LED off on every call. The owner's second
  starts first, so it may darken the scene before the others have read. Whether they read light or
  darkness depends on the time of one frame, so no property says that the lit LED is seen;
  `NoForeignLight` says that no other is.
* `calibrationFSM.cpp:66`: a READY of the next barrier counted before the test for equality stops
  the node for ever, and all others with it (`CompletesOrOvercounts`). It takes a node that stalls
  for a second.
* `communication.cpp:91`: a negative gain is taken for "no value" and its cell stays 0 on the other
  nodes (`GainsFiled` excludes it).
* `consensus.cpp:221`: the sum is divided by the number of frames plus one. That is the number of
  nodes only while a vector fits in one frame, so for up to three nodes.
* `communication.cpp:173`: the receiver reads one slot more than the vector has; with seven nodes
  that is past the array. With fewer it adds to an entry that nobody uses
  (`receivedDutyCycle[n][NumNodes]` in the model, never cleared).
* `communication.cpp:187`, `mainFSM.cpp:79`: a new run, or a first run that starts before the
  neighbour's calibration is done, mixes frames of two runs, as frames do not say which run they are
  of (`mixed`).
* `consensus.cpp:212`: a node that is an iteration behind may count a frame too early or lose it
  when it clears its count, and then waits until the next command (`late`).
* `main.cpp:229`: a frame that arrives while the handler has passed its buffer keeps the INT pin
  low, and so do ERRIF and MERRF, which nobody clears: no further falling edge comes (`disturbed`,
  `errors`). `mcp2515.cpp:51` enables both, so one corrupted frame on the bus, or an error counter
  that reaches its warning level, is enough.
* `calibrationFSM.cpp:123`: `residualArray` has a cell for each place in the list of nodes and is
  filled so (line 187), but is read with the node id: what is subtracted is the residual of another
  node, 0, or, for an id of 7 and more (they go up to 20), whatever lies behind the array. Both
  readings of a LED are taken after the last residual, so it cancels out of the gain
  (`ResidualCancels`), unless what lies behind the array changes in between.
* `calibrationFSM.cpp:200`: `setGain` does not test its indices. With seven nodes, after a
  calibration `nodeLedOn` is 7, `resetCalib` keeps it, and a residual that comes before
  `runStateInit` is filed one past a row, or past the matrix (`CalibrationInRow`).
* `Server.cpp:498`: a reset "should received as many ACKs as there are nodes" (line 496), but
  `nodeIds.size()` is that of the last list read: 0 before the first, 1 if a second reset comes
  before the wakeups of the first. All nodes answer, and the surplus is taken for the answer of the
  next command (`miscounted`, `hasty`).
* `main.cpp:152`: `registerNewNode` does not test whether `nodesList` has a slot left. Every node
  that loses power and comes back takes another slot in the lists of all others; the wakeup that
  finds seven taken pushes the last id behind the array (`overflowed`). A reset empties the list,
  but not what was overwritten.
* `Server.cpp:270`, `:587`: a response later than its timeout is given to the next command, and a
  timeout handler that is already queued removes whatever is at the front, or pops an empty queue.
* `main.cpp:144`, `:188`, `mainFSM.cpp:91`: a reset keeps the time of the last transition, so the
  wait of Init is skipped, and a wakeup that crosses a reset is erased; a node that restarts is in
  the lists twice.
* `serialComm.cpp:254`, `:46`: a lost result leaves the total open, and the next response is
  swallowed; a total right after a reset waits for the nodes known at that moment only.
* `communication.cpp:306`: with the three transmit buffers pending `sendFrame` prints an error and
  forgets the frame, and the chip may swap two frames that wait. A vector that is sent while a frame
  of its node still waits is then incomplete or out of order, and the average is over fewer
  proposals: `AveragePure` fails without the condition `crowded`.
* `Server.cpp:145`: a sync byte that ends the read is dropped, and its message with it, contrary to
  the comment at lines 140-142 ("the unfinished part must be stored"); `:175`: a response has six
  bytes and is taken with five, its last byte read as 0 or left for the next scan; `:175` also means
  that a last byte of 255 is taken for a sync byte (`cuts`). With 255 in the data the rest of a cut
  message may look like a message, and more than one is lost or misread. `:260`: the last message
  waits for the 255 of the next one. `:117`: the error of a read is not looked at.
* `Server.cpp:359`: a session is removed by its read and by its write; the second finds nothing, and
  `erase(end())` removes another client's session (in libstdc++ the last one).
  `ServerConnection.cpp:61`: the handlers hold a raw pointer, and one that comes after the removal
  runs on a destroyed session. Both take a write to a client that has gone (`writtenToGone`).
* `Server.cpp:95`: the error of an accept is not looked at; a connection that failed makes its first
  read fail, as a client does that leaves at once, which is how the model has it.
* `Server.cpp:507`, `ServerConnection.cpp:38`: `async_write` is given a buffer of the caller's stack
  or a string of the caller, which may be dead when the bytes are written.
* `main.cpp:14`: a node that restarts does not know the hub until one is made anew, and sends no
  frequent data meanwhile. `serialComm.cpp:34`: the list is sent to the PC when a node becomes the
  hub and when the list changes; a server that restarts, or a cable that is replugged before the hub
  notices, gets none (`unnoticed`), and then `Server.cpp:498` expects no acknowledgement of a reset;
  it also reads `nodeIds` outside its mutex.
* `serialComm.cpp:297`: two PCs at two nodes make both of them hubs in turn, for ever; the model has
  one PC.
* `lpf.cpp:41`: `resetLPF` writes `lpfSamples[LPF_TOTAL_SAMPLES]`, one past the array; the filter is
  not modelled.

## 7. What is not modelled

The optimiser, controller, filter, simulator and metrics are floating-point computations of one node
without concurrency. The wording and parsing of commands and of console input is left out, as are
the `Client` program (it copies text between a socket and a terminal), `resetConsensus`, and sending
in chunks. What `print` shows of the last-minute buffer is the buffer between two steps. The
MCP2515, the timer, sockets and serial port of boost::asio, the power supply and the line between PC
and hub are external: they are modelled from how the code uses them. Three simplifications reach
into modelled code. Loss of frames is modelled in `CanReceive`, `SerialHub`, `Consensus` and
`HubDiscovery` but not in `Calibration` and `Startup`: there a frame finds a free transmit buffer
and is delivered. In `Consensus` only the sender loses frames. And in `SerialParser` the two bytes
of frequent data that may be 255 have the same value, and a response has one byte that may be.

## 8. Plan

Done, in this order: `Calibration` with `Barrier`, `FrameStream` with `BoundedFifo`, `CanReceive`,
`CommandQueue`, `Consensus`, `Startup`, `SerialHub`; then `CanReceive` on the ring itself,
`LastMinuteBuffer`, `SerialParser`, `ClientSessions`, `CanTransmit` under `Consensus`,
`HubDiscovery`; and the proofs of section 5.

What remains, modules first:

1. `CommandQueue` with `SerialHub` in place of the external hub: the acknowledgements of a reset
   against its real responses.
2. `Calibration` and `Startup` on `CanTransmit` and with lost frames: a WAKEUP or READY that is lost
   is never repeated.
3. The mode switches of the controller (`controller.cpp`, `luminaire.cpp`) when a run ends and a
   command comes.
