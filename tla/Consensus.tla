----------------------------- MODULE Consensus -----------------------------
(***************************************************************************)
(* The distributed optimisation of the set-points (consensus.cpp, with the *)
(* CAN_CONSENSUS and CAN_DO_CONSENSUS branches of Communication::received, *)
(* sendConsensusDutyCycle, and what starts a run: the end of the           *)
(* calibration in MainFSM::loop and the commands O, U, c and o).           *)
(*                                                                         *)
(* In every iteration a node computes its proposal dutyCycleBest (a vector *)
(* with one entry per node), sends it in frames of three entries, adds up  *)
(* what it receives, and averages when it has counted as many frames as it *)
(* expects.  Frames say neither which iteration nor which run they are of, *)
(* and leave through the three transmit buffers of CanTransmit, which may  *)
(* swap them and drop those that find no room.                             *)
(*                                                                         *)
(* The optimiser is abstracted: a proposal is known by who made it, in     *)
(* which run and iteration.  run and iter are history, read by no guard of *)
(* the code.                                                               *)
(***************************************************************************)
EXTENDS Integers, FiniteSets, Sequences, CanTransmit

CONSTANTS
    NumNodes,       \* numTotalNodes
    FrameSlots,     \* entries in a frame, 3 in the code
    MaxIter,        \* maxIter, 50 in the code
    MaxRuns         \* bound on the number of runs

ASSUME ConsensusConstants ==
    /\ NumNodes \in Nat \ {0} /\ FrameSlots \in Nat \ {0}
    /\ MaxIter \in Nat \ {0} /\ MaxRuns \in Nat

Nodes == 0 .. NumNodes - 1

VARIABLES
    consensusState,         \* OFF, ITERATE or WAITING between two calls
    numIter,                \* completed iterations of this run
    numberOfMsgReceived,    \* frames counted in this iteration
    receivedDutyCycle,      \* what was added to each entry of the sum
    dutyCycleAv,            \* the last average of a node
    luxRefAfterConsensus,   \* the run the set-point of a node comes from
    tx,                     \* transmit buffers of each node
    inbox,                  \* frames that have reached a node, oldest first
    run,                    \* the run a node takes part in, 0 before the first
    runs,                   \* runs started so far
    late,                   \* history: a node iterated while another was behind
    mixed,                  \* history: a frame met a node of another run, see AveragePure
    crowded                 \* history: frames met older ones in the transmit buffers

optimiserVars == <<consensusState, numIter, numberOfMsgReceived, receivedDutyCycle,
                   dutyCycleAv, luxRefAfterConsensus, tx, inbox, run, runs, late,
                   mixed, crowded>>

----------------------------------------------------------------------------
\* Each frame carries FrameSlots entries; a vector takes this many frames.
NumMessages == (NumNodes - 1) \div FrameSlots + 1

NumberOfMsgExpected == NumMessages * (NumNodes - 1)

(***************************************************************************)
(* Which entry of the sender's vector is in slot i of frame msgI.  The     *)
(* sender stops filling at the end of the vector, so the last slots still  *)
(* hold what the frame before put there.                                   *)
(***************************************************************************)
EntryInSlot(msgI, i) ==
    IF msgI * FrameSlots + i < NumNodes THEN msgI * FrameSlots + i
    ELSE (msgI - 1) * FrameSlots + i

\* The slots of frame msgI that a receiver adds to its vector.
SlotsRead(msgI) == {i \in 0 .. FrameSlots - 1 : msgI * FrameSlots + i <= NumNodes}

\* One entry of a proposal: who made it, in which run and iteration.
Entry(m, r, k, j) == [by |-> m, run |-> r, iter |-> k, entry |-> j]

NoAverage == [run |-> 0, iter |-> 0, sum |-> [j \in Nodes |-> {}], div |-> 1]

\* A proposal of n, one frame for each part of it.
DutyCycleFrames(n) ==
    [i \in 1 .. NumMessages |->
       [type |-> "CONSENSUS", from |-> n, msgI |-> i - 1, run |-> run[n], iter |-> numIter[n]]]

DoConsensus(r) == [type |-> "DO_CONSENSUS", run |-> r]

\* n puts frames on the bus, one after the other.
Broadcast(n, frames) ==
    /\ tx' = [tx EXCEPT ![n] = SendFrames(@, frames)]
    /\ crowded' = (crowded \/ Pending(tx[n]) # {})

\* External, from the layout of canMessageId: the lowest sender wins the bus.
WinsBus(n) == Pending(tx[n]) # {} /\ \A m \in Nodes : m < n => Pending(tx[m]) = {}

(***************************************************************************)
(* External: a frame of n goes over the bus to every other node.  It may   *)
(* be any of a vector: one may have left before the next is loaded.        *)
(***************************************************************************)
GoesOverBus(n) ==
    /\ WinsBus(n)
    /\ \E b \in Pending(tx[n]) :
         /\ tx' = [tx EXCEPT ![n] = AfterSending(@, b)]
         /\ inbox' = [m \in Nodes |-> IF m = n THEN inbox[m] ELSE Append(inbox[m], tx[n][b])]
    /\ UNCHANGED <<consensusState, numIter, numberOfMsgReceived, receivedDutyCycle,
                   dutyCycleAv, luxRefAfterConsensus, run, runs, late, mixed, crowded>>

\* Node n takes the oldest frame that it has not handled, one of this type.
Receives(n, type) ==
    /\ inbox[n] # <<>> /\ Head(inbox[n]).type = type
    /\ inbox' = [inbox EXCEPT ![n] = Tail(@)]

----------------------------------------------------------------------------
OptimiserInit ==
    /\ consensusState = [n \in Nodes |-> "OFF"]
    /\ numIter = [n \in Nodes |-> 0]
    /\ numberOfMsgReceived = [n \in Nodes |-> 0]
    /\ receivedDutyCycle = [n \in Nodes |-> [j \in 0 .. NumNodes |-> {}]]
    /\ dutyCycleAv = [n \in Nodes |-> NoAverage]
    /\ luxRefAfterConsensus = [n \in Nodes |-> 0]
    /\ tx = [n \in Nodes |-> NothingPending]
    /\ inbox = [n \in Nodes |-> <<>>]
    /\ run = [n \in Nodes |-> 0]
    /\ runs = 0
    /\ late = FALSE
    /\ mixed = FALSE
    /\ crowded = FALSE

\* Consensus::init(): the node starts over, as part of run r.
ConsensusInit(n, r) ==
    /\ consensusState' = [consensusState EXCEPT ![n] = "ITERATE"]
    /\ numIter' = [numIter EXCEPT ![n] = 0]
    /\ numberOfMsgReceived' = [numberOfMsgReceived EXCEPT ![n] = 0]
    /\ dutyCycleAv' = [dutyCycleAv EXCEPT ![n] = NoAverage]
    /\ receivedDutyCycle' = [receivedDutyCycle EXCEPT
                               ![n] = [j \in 0 .. NumNodes |-> IF j \in Nodes THEN {} ELSE @[j]]]
    /\ run' = [run EXCEPT ![n] = r]
    /\ UNCHANGED luxRefAfterConsensus

\* The calibration of n is done: the first run starts, without a frame.
CalibrationDone(n) ==
    /\ run[n] = 0
    /\ ConsensusInit(n, 1)
    /\ runs' = IF runs = 0 THEN 1 ELSE runs
    /\ UNCHANGED <<tx, inbox, late, mixed, crowded>>

\* Nothing is running and no frame is on its way.
Idle ==
    \A n \in Nodes :
      consensusState[n] = "OFF" /\ run[n] # 0 /\ Pending(tx[n]) = {} /\ inbox[n] = <<>>

\* A command changes the reference, the cost or the occupancy of n.
Command(n) ==
    /\ run[n] # 0
    /\ runs < MaxRuns
    /\ runs' = runs + 1
    /\ ConsensusInit(n, runs + 1)
    /\ Broadcast(n, <<DoConsensus(runs + 1)>>)
    /\ mixed' = (mixed \/ ~Idle)
    /\ UNCHANGED <<inbox, late>>

ReceiveDoConsensus(n) ==
    /\ Receives(n, "DO_CONSENSUS")
    /\ ConsensusInit(n, Head(inbox[n]).run)
    /\ UNCHANGED <<tx, runs, late, mixed, crowded>>

\* Adds the entries of a frame to the sums and counts the frame.
ReceiveDutyCycle(n) ==
    /\ Receives(n, "CONSENSUS")
    /\ LET f == Head(inbox[n]) IN
         receivedDutyCycle' = [receivedDutyCycle EXCEPT ![n] =
           [j \in 0 .. NumNodes |->
              @[j] \union {Entry(f.from, f.run, f.iter, EntryInSlot(f.msgI, i)) :
                             i \in {s \in SlotsRead(f.msgI) : f.msgI * FrameSlots + s = j}}]]
    /\ numberOfMsgReceived' = [numberOfMsgReceived EXCEPT ![n] = @ + 1]
    /\ mixed' = (mixed \/ run[n] = 0)
    /\ UNCHANGED <<consensusState, numIter, dutyCycleAv, luxRefAfterConsensus,
                   tx, run, runs, late, crowded>>

\* Mutant: the sum is not cleared for the next iteration.
SumKept(n) == receivedDutyCycle[n]

\* The sums after an update: cleared, but for the entry past the end.
SumCleared(n) == [j \in 0 .. NumNodes |-> IF j \in Nodes THEN {} ELSE receivedDutyCycle[n][j]]

\* The test numIter == maxIter, on the count this update leaves.
LastIteration(n) == numIter[n] + 1 = MaxIter

(***************************************************************************)
(* The update state: averages, clears the sums and the count, and goes on  *)
(* to the next iteration or, after the last one, sets the new set-point.   *)
(***************************************************************************)
Update(n) ==
    /\ dutyCycleAv' = [dutyCycleAv EXCEPT ![n] =
         [run |-> run[n], iter |-> numIter[n],
          sum |-> [j \in Nodes |-> receivedDutyCycle[n][j]
                                     \union {Entry(n, run[n], numIter[n], j)}],
          div |-> numberOfMsgReceived[n] + 1]]
    /\ numberOfMsgReceived' = [numberOfMsgReceived EXCEPT ![n] = 0]
    /\ receivedDutyCycle' = [receivedDutyCycle EXCEPT ![n] = SumCleared(n)]
    /\ \/ /\ ~LastIteration(n)
          /\ consensusState' = [consensusState EXCEPT ![n] = "ITERATE"]
          /\ numIter' = [numIter EXCEPT ![n] = @ + 1]
          /\ UNCHANGED luxRefAfterConsensus
       \/ /\ LastIteration(n)
          /\ consensusState' = [consensusState EXCEPT ![n] = "OFF"]
          /\ numIter' = [numIter EXCEPT ![n] = 0]
          /\ luxRefAfterConsensus' = [luxRefAfterConsensus EXCEPT ![n] = run[n]]

\* Mutant: the frames of one node are not waited for.
AllReceivedButOne(n) == numberOfMsgReceived[n] >= NumberOfMsgExpected - NumMessages

\* The count that ends an iteration.
AllReceived(n) == numberOfMsgReceived[n] = NumberOfMsgExpected

(***************************************************************************)
(* A node that keeps up: it turns loop() around (calibration barrier,      *)
(* receive and update) in less time than an iteration takes to compute.    *)
(***************************************************************************)
CaughtUp(n) ==
    /\ run[n] # 0 /\ Pending(tx[n]) = {}
    /\ consensusState[n] = "ITERATE"
       \/ (inbox[n] = <<>> /\ ~(consensusState[n] = "WAITING" /\ AllReceived(n)))

\* consensus_main() in ITERATE: computes, sends, and updates if it can.
IterateAndSend(n) ==
    /\ consensusState[n] = "ITERATE"
    /\ Broadcast(n, DutyCycleFrames(n))
    /\ \/ AllReceived(n) /\ Update(n)
       \/ /\ ~AllReceived(n)
          /\ consensusState' = [consensusState EXCEPT ![n] = "WAITING"]
          /\ UNCHANGED <<numIter, numberOfMsgReceived, receivedDutyCycle,
                         dutyCycleAv, luxRefAfterConsensus>>
    /\ late' = (late \/ \E m \in Nodes \ {n} : ~CaughtUp(m))
    /\ UNCHANGED <<inbox, run, runs, mixed>>

\* consensus_main() while it waits for the frames of the others.
WaitAndUpdate(n) ==
    /\ consensusState[n] = "WAITING"
    /\ AllReceived(n)
    /\ Update(n)
    /\ UNCHANGED <<tx, inbox, run, runs, late, mixed, crowded>>

----------------------------------------------------------------------------
Step(n) ==
    \/ CalibrationDone(n)
    \/ ReceiveDoConsensus(n)
    \/ ReceiveDutyCycle(n)
    \/ IterateAndSend(n)
    \/ WaitAndUpdate(n)
    \/ GoesOverBus(n)

\* Nothing is claimed once frames are mixed or crowded, so the model stops there.
OptimiserNext == ~mixed /\ ~crowded /\ \E n \in Nodes : Step(n) \/ Command(n)

\* Every node runs its loop(); nobody need give a command.
OptimiserSpec ==
    /\ OptimiserInit /\ [][OptimiserNext]_optimiserVars
    /\ \A n \in Nodes : WF_optimiserVars(~mixed /\ ~crowded /\ Step(n))

----------------------------------------------------------------------------
Entries == [by : Nodes, run : 0 .. MaxRuns, iter : 0 .. MaxIter - 1,
            entry : -FrameSlots .. NumNodes]

ConsensusFrames ==
    {DoConsensus(r) : r \in 1 .. MaxRuns} \cup
    [type : {"CONSENSUS"}, from : Nodes, msgI : 0 .. NumMessages - 1, run : 1 .. MaxRuns,
     iter : 0 .. MaxIter - 1]

\* numIter stays below maxIter, and what is summed are entries of proposals.
OptimiserTypeOK ==
    /\ consensusState \in [Nodes -> {"OFF", "ITERATE", "WAITING"}]
    /\ numIter \in [Nodes -> 0 .. MaxIter - 1]
    /\ numberOfMsgReceived \in [Nodes -> Nat]
    /\ receivedDutyCycle \in [Nodes -> [0 .. NumNodes -> SUBSET Entries]]
    /\ \A n \in Nodes :
         dutyCycleAv[n].sum \in [Nodes -> SUBSET Entries] /\ dutyCycleAv[n].div \in Nat \ {0}
    /\ luxRefAfterConsensus \in [Nodes -> 0 .. MaxRuns]
    /\ run \in [Nodes -> 0 .. MaxRuns]
    /\ runs \in 0 .. MaxRuns
    /\ late \in BOOLEAN
    /\ mixed \in BOOLEAN /\ crowded \in BOOLEAN
    /\ tx \in [Nodes -> [TXBuffers -> ConsensusFrames \cup {NoFrame}]]
    /\ inbox \in [Nodes -> Seq(ConsensusFrames)]

(***************************************************************************)
(* Every average a node takes is over exactly one proposal of every node,  *)
(* all of the run and the iteration the node is in: no frame of another    *)
(* iteration or run is mixed in, none is missing, however slow the nodes   *)
(* are.  (Three cases are known to break it: a command while a run is      *)
(* under way, a node that gets its first frames before its own calibration *)
(* is done, both recorded by mixed; and frames that are sent while older   *)
(* ones of their node wait for the bus, recorded by crowded: the chip may  *)
(* let them pass the older ones, or they find the buffers full.)           *)
(***************************************************************************)
AveragePure ==
    ~mixed /\ ~crowded => \A n \in Nodes : dutyCycleAv[n].run # 0 => \A j \in Nodes :
      dutyCycleAv[n].sum[j] = {Entry(m, dutyCycleAv[n].run, dutyCycleAv[n].iter, j) : m \in Nodes}

(***************************************************************************)
(* When a node adopts the set-point of a run, every other node takes part  *)
(* in that run and has sent its last proposal: no luminaire changes its    *)
(* set-point while another is iterations behind.                           *)
(***************************************************************************)
AdoptedTogether ==
    ~mixed /\ ~crowded => \A m, n \in Nodes :
      /\ luxRefAfterConsensus[m] <= run[n]
      /\ luxRefAfterConsensus[m] = run[n] /\ consensusState[n] # "OFF" =>
           consensusState[n] = "WAITING" /\ numIter[n] = MaxIter - 1

(***************************************************************************)
(* Whenever nodes iterate, all of them finish the run in the end,          *)
(* unless frames were mixed or crowded, or some node iterated before       *)
(* another had caught up with it: then a frame may be lost, counted too    *)
(* early or cleared, and the test for equality leaves the node waiting.    *)
(***************************************************************************)
RunEnds ==
    []<>((\A n \in Nodes : consensusState[n] = "OFF") \/ late \/ mixed \/ crowded)
=============================================================================
