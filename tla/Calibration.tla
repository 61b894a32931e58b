---------------------------- MODULE Calibration ----------------------------
(***************************************************************************)
(* The distributed calibration of the luminaires (calibrationFSM.cpp, with *)
(* the CAN_CALIB_READY and CAN_CALIB_LED_ON branches of                    *)
(* Communication::received and their senders).                             *)
(*                                                                         *)
(* Every node runs the same FSM from loop().  The nodes meet at barriers:  *)
(* each broadcasts a READY frame and goes on when it has counted as many   *)
(* READYs as there are nodes (its own included).  Barrier 0 follows the    *)
(* residual reading; then, for each LED in turn and for each of the two    *)
(* PWM levels, the owner lights its LED, everybody waits a second, reads   *)
(* the light, and meets again: 2*NumNodes + 1 barriers in all.             *)
(*                                                                         *)
(* A node is named by its index in nodesList, which is sorted, so it is    *)
(* also its nodeIndexOnGainMatrix and the place of its turn to light; the  *)
(* node ids matter at line 123 only, which indexes an array with one.      *)
(* A reading is abstracted to the set of LEDs lit when it is taken and the *)
(* cell subtracted from it, a gain to who measured it for which LED and    *)
(* its sign.                                                               *)
(***************************************************************************)
EXTENDS Integers, FiniteSets

CONSTANTS
    NumNodes,       \* numTotalNodes, once every node knows every other
    MaxNumNodes,    \* MAX_NUM_NODES, the size of the arrays
    NodeIds,        \* the ids of the nodes, from their EEPROM
    StaleLedOn,     \* what nodeLedOn may hold before runStateInit
    NegativeGains   \* the values of "the measured gain is below zero"

Nodes == 0 .. NumNodes - 1

Slots == 0 .. MaxNumNodes - 1

\* The lists of distinct ids in ascending order.
SortedLists ==
    {list \in [Nodes -> NodeIds] : \A i, j \in Nodes : i < j => list[i] < list[j]}

ASSUME NumNodesAssumption == NumNodes \in Nat \ {0}
ASSUME MaxNumNodesAssumption == MaxNumNodes \in Nat /\ NumNodes <= MaxNumNodes
ASSUME NodeIdsAssumption == NodeIds \in SUBSET (0 .. 20) /\ SortedLists # {}
ASSUME StaleLedOnAssumption == StaleLedOn \in SUBSET (0 .. NumNodes)
ASSUME NegativeGainsAssumption == NegativeGains \in SUBSET BOOLEAN

nodesList == CHOOSE list \in SortedLists : TRUE

CalibrationState == {"CalibInit", "WaitReady", "WaitLedOn", "WaitTransient"}

\* The two PWM levels a LED is lit at, one for each luxReadNum.
pwm == [r \in 0 .. 1 |-> IF r = 0 THEN 20 ELSE 240]

Levels == {0, 20, 240}

(***************************************************************************)
(* What a READY carries and a matrix cell holds: a residual, a gain, or    *)
(* nothing (0 in a cell, a negative number in a frame).                    *)
(***************************************************************************)
NoValue == [kind |-> "none"]

Residual(n) == [kind |-> "residual", by |-> n]

\* Mutant: the gain is filed under the LED after the one it was measured for.
GainOfNextLed(n, j, neg) ==
    [kind |-> "gain", by |-> n, led |-> j + 1, negative |-> neg]

Gain(n, j, neg) == [kind |-> "gain", by |-> n, led |-> j, negative |-> neg]

Values == {NoValue}
          \union [kind : {"residual"}, by : Nodes]
          \union [kind : {"gain"}, by : Nodes, led : Nodes, negative : BOOLEAN]

(***************************************************************************)
(* A frame in the receive path of a node.  seq is its place on the bus,    *)
(* round (read by no action) the barrier its sender stood at.              *)
(***************************************************************************)
Frames == [seq : Nat, from : Nodes, type : {"READY", "LED_ON"}, val : Values,
           round : Nat]

\* What lies beyond residualArray: some value, and not twice the same.
Unknown == [kind |-> "unknown"]

\* A reading: the LEDs lit when it is taken, less the cell subtracted from it.
Readings == [lit : SUBSET (Nodes \X Levels), less : Values \union {Unknown}]

VARIABLES
    state,          \* CalibrationFSM::state of every node
    done,           \* CalibrationFSM::done
    nodeLedOn,      \* index of the node whose LED is on, -1 for none
    luxReadNum,     \* readings taken for the current LED
    luxReads,       \* the two readings for the current LED
    numNodesReady,  \* READYs counted, the node's own included
    otherNodeLedOn, \* the event "a LED_ON frame was received"
    led,            \* PWM level on the LED pin
    gainMatrix,     \* gainMatrix[n][i][j] on node n, LED j seen by node i
    residualArray,  \* residualArray[n][i] on node n, residual of node i
    inbox,          \* frames on their way to a node: CAN, MCP2515, cf_stream
    busSeq,         \* frames put on the bus so far
    elapsed         \* nodes for which a second passed since setState

nodeVars == <<state, done, nodeLedOn, luxReadNum, luxReads, numNodesReady,
              otherNodeLedOn, led, gainMatrix, residualArray>>
vars == <<state, done, nodeLedOn, luxReadNum, luxReads, numNodesReady,
          otherNodeLedOn, led, gainMatrix, residualArray, inbox, busSeq,
          elapsed>>

----------------------------------------------------------------------------
\* The LEDs that are lit, with their level: what a sensor sees.
Lit == {<<m, led[m]>> : m \in {k \in Nodes : led[k] # 0}}

(***************************************************************************)
(* The barriers node n has gone through, and the READYs it has sent.  They *)
(* are functions of the FSM's own variables.                               *)
(***************************************************************************)
Passed(n) ==
    IF state[n] = "CalibInit" \/ nodeLedOn[n] = -1 THEN 0
    ELSE IF done[n] THEN 2 * NumNodes + 1
    ELSE 2 * nodeLedOn[n] + luxReadNum[n] + (IF state[n] = "WaitReady" THEN 0 ELSE 1)

Sent(n) ==
    IF state[n] = "CalibInit" THEN 0
    ELSE IF state[n] = "WaitReady" /\ ~done[n] THEN Passed(n) + 1
    ELSE Passed(n)

(***************************************************************************)
(* A broadcast reaches the receive path of every other node at once: the   *)
(* CAN bus carries one frame at a time and every controller sees it.       *)
(***************************************************************************)
Broadcast(n, type, val) ==
    /\ inbox' = [m \in Nodes |->
                   IF m = n THEN inbox[m]
                   ELSE inbox[m] \union {[seq |-> busSeq, from |-> n,
                                          type |-> type, val |-> val,
                                          round |-> Passed(n)]}]
    /\ busSeq' = busSeq + 1

(***************************************************************************)
(* Frames are received in bus order, but of two frames pending in one      *)
(* controller the MCP2515 sends the one in the higher buffer first, so a   *)
(* LED_ON may overtake the READY its sender queued just before it.         *)
(***************************************************************************)
Receivable(n, f) ==
    /\ f \in inbox[n]
    /\ \A g \in inbox[n] :
         g.seq < f.seq => f.type = "LED_ON" /\ g.from = f.from

----------------------------------------------------------------------------
(***************************************************************************)
(* nodeLedOn is not initialised by the constructor and not reset by        *)
(* resetCalib(): it is 0 on a node that was powered on (a static object)   *)
(* and NumNodes on one that has calibrated before (StaleLedOn).            *)
(***************************************************************************)
Init ==
    /\ state = [n \in Nodes |-> "CalibInit"]
    /\ done = [n \in Nodes |-> FALSE]
    /\ nodeLedOn \in [Nodes -> StaleLedOn]
    /\ luxReadNum = [n \in Nodes |-> 0]
    /\ luxReads = [n \in Nodes |-> [r \in 0 .. 1 |-> [lit |-> {}, less |-> NoValue]]]
    /\ numNodesReady = [n \in Nodes |-> 0]
    /\ otherNodeLedOn = [n \in Nodes |-> FALSE]
    /\ led = [n \in Nodes |-> 0]
    /\ gainMatrix = [n \in Nodes |-> [i \in Slots |-> [j \in Slots |-> NoValue]]]
    /\ residualArray = [n \in Nodes |-> [i \in Slots |-> NoValue]]
    /\ inbox = [n \in Nodes |-> {}]
    /\ busSeq = 0
    /\ elapsed = {}

\* Reads the residual, sends it with the READY of barrier 0, and counts itself.
RunStateInit(n) ==
    /\ state[n] = "CalibInit"
    /\ residualArray' = [residualArray EXCEPT ![n][n] = Residual(n)]
    /\ Broadcast(n, "READY", Residual(n))
    /\ numNodesReady' = [numNodesReady EXCEPT ![n] = @ + 1]
    /\ nodeLedOn' = [nodeLedOn EXCEPT ![n] = -1]
    /\ state' = [state EXCEPT ![n] = "WaitReady"]
    /\ UNCHANGED <<done, luxReadNum, luxReads, otherNodeLedOn, led, gainMatrix,
                   elapsed>>

\* Mutant: a barrier that does not count the node itself.
AllReadyButOne(n) == numNodesReady[n] >= NumNodes - 1

\* The test of runStateWaitReady.
AllReady(n) == numNodesReady[n] = NumNodes

\* Not every node is ready: runStateWaitReady only turns the LED off.
WaitReadyNotAll(n) ==
    /\ state[n] = "WaitReady" /\ ~done[n]
    /\ ~AllReady(n)
    /\ led' = [led EXCEPT ![n] = 0]
    /\ UNCHANGED <<state, done, nodeLedOn, luxReadNum, luxReads, numNodesReady,
                   otherNodeLedOn, gainMatrix, residualArray, inbox, busSeq,
                   elapsed>>

\* The LED whose turn it is after the barrier, and the number of the reading.
TurnOver(n) == nodeLedOn[n] = -1 \/ luxReadNum[n] = 2

NextLed(n) == IF TurnOver(n) THEN nodeLedOn[n] + 1 ELSE nodeLedOn[n]

NextRead(n) == IF TurnOver(n) THEN 0 ELSE luxReadNum[n]

\* Mutant: the LED is turned off only while the barrier is closed.
LedLeftOn(n) == IF NextLed(n) = n THEN pwm[NextRead(n)] ELSE led[n]

\* The PWM level a node leaves an open barrier with.
LedAfter(n) == IF NextLed(n) = n THEN pwm[NextRead(n)] ELSE 0

(***************************************************************************)
(* Every node is ready: resets the count, moves on to the next reading or  *)
(* the next LED, and finishes, lights the LED or waits for its owner.      *)
(***************************************************************************)
WaitReadyAll(n) ==
    /\ state[n] = "WaitReady" /\ ~done[n]
    /\ AllReady(n)
    /\ numNodesReady' = [numNodesReady EXCEPT ![n] = 0]
    /\ nodeLedOn' = [nodeLedOn EXCEPT ![n] = NextLed(n)]
    /\ luxReadNum' = [luxReadNum EXCEPT ![n] = NextRead(n)]
    /\ led' = [led EXCEPT ![n] = LedAfter(n)]
    /\ \/ /\ NextLed(n) >= NumNodes
          /\ done' = [done EXCEPT ![n] = TRUE]
          /\ UNCHANGED <<state, inbox, busSeq>>
       \/ /\ NextLed(n) = n
          /\ Broadcast(n, "LED_ON", NoValue)
          /\ state' = [state EXCEPT ![n] = "WaitTransient"]
          /\ UNCHANGED done
       \/ /\ NextLed(n) \in Nodes \ {n}
          /\ state' = [state EXCEPT ![n] = "WaitLedOn"]
          /\ UNCHANGED <<done, inbox, busSeq>>
    /\ UNCHANGED <<luxReads, otherNodeLedOn, gainMatrix, residualArray, elapsed>>

RunStateWaitLedOn(n) ==
    /\ state[n] = "WaitLedOn"
    /\ otherNodeLedOn[n]
    /\ otherNodeLedOn' = [otherNodeLedOn EXCEPT ![n] = FALSE]
    /\ state' = [state EXCEPT ![n] = "WaitTransient"]
    /\ UNCHANGED <<done, nodeLedOn, luxReadNum, luxReads, numNodesReady, led,
                   gainMatrix, residualArray, inbox, busSeq, elapsed>>

(***************************************************************************)
(* setGain(i, j) has no test of j.  A row has MaxNumNodes columns: the one *)
(* past a row is the first of the next row, the one past the last row the  *)
(* first cell of residualArray, the next member of the object.             *)
(***************************************************************************)
SetGain(n, i, j, val) ==
    \/ /\ j < MaxNumNodes
       /\ gainMatrix' = [gainMatrix EXCEPT ![n][i][j] = val]
       /\ UNCHANGED residualArray
    \/ /\ j = MaxNumNodes /\ i + 1 < MaxNumNodes
       /\ gainMatrix' = [gainMatrix EXCEPT ![n][i + 1][0] = val]
       /\ UNCHANGED residualArray
    \/ /\ j = MaxNumNodes /\ i + 1 = MaxNumNodes
       /\ residualArray' = [residualArray EXCEPT ![n][0] = val]
       /\ UNCHANGED gainMatrix

\* residualArray[nodeId] of line 123: the cell of another node, of none, or none at all.
Subtracted(n) ==
    IF nodesList[n] \in Slots THEN residualArray[n][nodesList[n]] ELSE Unknown

(***************************************************************************)
(* A second after the transition: takes the reading and sends READY; after *)
(* the second reading it computes the gain, files it and sends it along.   *)
(***************************************************************************)
RunStateWaitTransient(n) ==
    /\ state[n] = "WaitTransient"
    /\ n \in elapsed
    /\ luxReads' = [luxReads EXCEPT ![n][luxReadNum[n]] =
                                        [lit |-> Lit, less |-> Subtracted(n)]]
    /\ luxReadNum' = [luxReadNum EXCEPT ![n] = @ + 1]
    /\ \/ /\ luxReadNum[n] = 0
          /\ Broadcast(n, "READY", NoValue)
          /\ UNCHANGED <<gainMatrix, residualArray>>
       \/ /\ luxReadNum[n] = 1
          /\ \E neg \in NegativeGains :
               /\ SetGain(n, n, nodeLedOn[n], Gain(n, nodeLedOn[n], neg))
               /\ Broadcast(n, "READY", Gain(n, nodeLedOn[n], neg))
    /\ numNodesReady' = [numNodesReady EXCEPT ![n] = @ + 1]
    /\ state' = [state EXCEPT ![n] = "WaitReady"]
    /\ elapsed' = elapsed \ {n}
    /\ UNCHANGED <<done, nodeLedOn, otherNodeLedOn, led>>

\* The test gainValue >= 0 of Communication::received.
CarriesValue(val) ==
    val.kind = "residual" \/ (val.kind = "gain" /\ ~val.negative)

\* Mutant: row and column of the matrix exchanged.
FiledTransposed(n, sender, val) ==
    IF nodeLedOn[n] = -1
    THEN /\ residualArray' = [residualArray EXCEPT ![n][sender] = val]
         /\ UNCHANGED gainMatrix
    ELSE SetGain(n, nodeLedOn[n], sender, val)

\* Mutant: a READY of the turn of the first LED is taken for a residual.
FiledLate(n, sender, val) ==
    IF nodeLedOn[n] <= 0
    THEN /\ residualArray' = [residualArray EXCEPT ![n][sender] = val]
         /\ UNCHANGED gainMatrix
    ELSE SetGain(n, sender, nodeLedOn[n], val)

\* Files what a READY carries: a residual while no LED is on, else a gain.
ReceivedGainOrResidual(n, sender, val) ==
    IF nodeLedOn[n] = -1
    THEN /\ residualArray' = [residualArray EXCEPT ![n][sender] = val]
         /\ UNCHANGED gainMatrix
    ELSE SetGain(n, sender, nodeLedOn[n], val)

ReceiveReady(n) ==
    \E f \in inbox[n] :
      /\ Receivable(n, f)
      /\ f.type = "READY"
      /\ inbox' = [inbox EXCEPT ![n] = @ \ {f}]
      /\ IF CarriesValue(f.val)
         THEN ReceivedGainOrResidual(n, f.from, f.val)
         ELSE UNCHANGED <<gainMatrix, residualArray>>
      /\ numNodesReady' = [numNodesReady EXCEPT ![n] = @ + 1]
      /\ UNCHANGED <<state, done, nodeLedOn, luxReadNum, luxReads,
                     otherNodeLedOn, led, busSeq, elapsed>>

\* Mutant: the event is dropped unless the node already waits for it.
UnlatchedLedOn(n) == otherNodeLedOn[n] \/ state[n] = "WaitLedOn"

\* otherNodeLedOn after a LED_ON frame: the event is latched in every state.
LatchedLedOn(n) == TRUE

ReceiveLedOn(n) ==
    \E f \in inbox[n] :
      /\ Receivable(n, f)
      /\ f.type = "LED_ON"
      /\ inbox' = [inbox EXCEPT ![n] = @ \ {f}]
      /\ otherNodeLedOn' = [otherNodeLedOn EXCEPT ![n] = LatchedLedOn(n)]
      /\ UNCHANGED <<state, done, nodeLedOn, luxReadNum, luxReads,
                     numNodesReady, led, gainMatrix, residualArray, busSeq,
                     elapsed>>

Waiting == {n \in Nodes : state[n] = "WaitTransient"} \ elapsed

\* A second passes for the waiting nodes S: timeSinceLastTransition > 1000000.
SecondPasses(S) ==
    /\ S # {} /\ S \subseteq Waiting
    /\ elapsed' = elapsed \union S
    /\ UNCHANGED <<nodeVars, inbox, busSeq>>

----------------------------------------------------------------------------
NodeStep(n) ==
    \/ RunStateInit(n)
    \/ WaitReadyNotAll(n)
    \/ WaitReadyAll(n)
    \/ RunStateWaitLedOn(n)
    \/ RunStateWaitTransient(n)
    \/ ReceiveReady(n)
    \/ ReceiveLedOn(n)

Next ==
    \/ \E n \in Nodes : NodeStep(n)
    \/ \E n \in Nodes : SecondPasses({n})

\* Nodes of any speed: a node may stall (readSerial blocks) past a second.
Spec == Init /\ [][Next]_vars

\* Every node keeps calling loop() and every second ends.
FairSpec ==
    /\ Spec
    /\ \A n \in Nodes : WF_vars(NodeStep(n)) /\ WF_vars(SecondPasses({n}))

(***************************************************************************)
(* Timely nodes: loop() turns around and frames arrive within milliseconds,*)
(* so all that can be done at once is done before a second passes.         *)
(***************************************************************************)
Quiet ==
    \A n \in Nodes :
      /\ inbox[n] = {}
      /\ state[n] # "CalibInit"
      /\ state[n] = "WaitReady" /\ ~done[n] => ~AllReady(n) /\ led[n] = 0
      /\ ~(state[n] = "WaitLedOn" /\ otherNodeLedOn[n])
      /\ n \notin elapsed

TimelyNext ==
    \/ \E n \in Nodes : NodeStep(n)
    \/ Quiet /\ SecondPasses(Waiting)

TimelySpec ==
    /\ Init /\ [][TimelyNext]_vars
    /\ \A n \in Nodes : WF_vars(NodeStep(n))
    /\ WF_vars(Quiet /\ SecondPasses(Waiting))

----------------------------------------------------------------------------
(***************************************************************************)
(* The variables hold values of their C++ types, and the arrays have the   *)
(* sizes of calibrationFSM.h.  It does not say that the FSM stays inside   *)
(* them: SetGain and Subtracted go past a row and past residualArray.      *)
(***************************************************************************)
TypeOK ==
    /\ state \in [Nodes -> CalibrationState]
    /\ done \in [Nodes -> BOOLEAN]
    /\ nodeLedOn \in [Nodes -> -1 .. NumNodes]
    /\ luxReadNum \in [Nodes -> 0 .. 2]
    /\ luxReads \in [Nodes -> [0 .. 1 -> Readings]]
    /\ numNodesReady \in [Nodes -> Nat]
    /\ otherNodeLedOn \in [Nodes -> BOOLEAN]
    /\ led \in [Nodes -> Levels]
    /\ gainMatrix \in [Nodes -> [Slots -> [Slots -> Values]]]
    /\ residualArray \in [Nodes -> [Slots -> Values]]
    /\ inbox \in [Nodes -> SUBSET Frames]
    /\ busSeq \in Nat
    /\ elapsed \in SUBSET Nodes

(***************************************************************************)
(* runStateWaitReady opens a barrier only when every node has sent the     *)
(* READY of that barrier, however slow the nodes are and however the READY *)
(* frames of consecutive barriers mix in the receivers.                    *)
(***************************************************************************)
BarrierSafety == \A m, n \in Nodes : Passed(m) <= Sent(n)

(***************************************************************************)
(* Every residual is read in the dark: no LED is lit by the calibration as *)
(* long as some node has still to run runStateInit.                        *)
(***************************************************************************)
ResidualInDark ==
    (\E m \in Nodes : led[m] # 0) => \A n \in Nodes : state[n] # "CalibInit"

(***************************************************************************)
(* A node that has finished has filed, for every node i and LED j, the     *)
(* very gain that i computed for j (unless it was negative and could not   *)
(* be sent): receivedGainOrResidual never files a gain under the LED of    *)
(* another round.                                                          *)
(***************************************************************************)
GainsFiled ==
    \A n \in Nodes : done[n] =>
      \A i, j \in Nodes :
        /\ gainMatrix[i][i][j].kind = "gain"
        /\ gainMatrix[i][i][j].by = i /\ gainMatrix[i][i][j].led = j
        /\ ~gainMatrix[i][i][j].negative => gainMatrix[n][i][j] = gainMatrix[i][i][j]

(***************************************************************************)
(* The cell that line 123 subtracts by mistake cancels out of the gain: on *)
(* a node with an id below MAX_NUM_NODES both readings of a LED are less   *)
(* the same value, whatever residual or gain arrives between them.  Nothing*)
(* is claimed of the ids from MAX_NUM_NODES on, which read past the array. *)
(***************************************************************************)
ResidualCancels ==
    \A n \in Nodes :
      luxReadNum[n] = 2 /\ nodesList[n] \in Slots
        => luxReads[n][0].less = luxReads[n][1].less

(***************************************************************************)
(* At most one LED is lit at a time: runStateWaitReady turns a node's LED  *)
(* off before the next node lights its own and anybody measures it.        *)
(***************************************************************************)
ForeignLight(n, r) == luxReads[n][r].lit \ {<<nodeLedOn[n], pwm[r]>>}

NoForeignLight ==
    \A n \in Nodes, r \in 0 .. 1 :
      r < luxReadNum[n] /\ ~done[n] => ForeignLight(n, r) = {}

(***************************************************************************)
(* Every node reaches Run: no node is left waiting at a barrier, and no    *)
(* LED_ON is missed or left over for a later turn.                         *)
(***************************************************************************)
CalibrationCompletes == <>(\A n \in Nodes : done[n])

(***************************************************************************)
(* With nodes of any speed the calibration stops for one reason only: a    *)
(* node that was late counted a READY of the next barrier before it tested *)
(* the count for equality, and waits above numTotalNodes.  No other order  *)
(* of the frames deadlocks the nodes.                                      *)
(***************************************************************************)
CompletesOrOvercounts ==
    <>((\A n \in Nodes : done[n]) \/ (\E n \in Nodes : numNodesReady[n] > NumNodes))

(***************************************************************************)
(* Comment of runStateInit: the residual goes to every node, which saves   *)
(* it on its residualArray.                                                *)
(***************************************************************************)
ResidualsFiled ==
    \A n, m \in Nodes : done[n] => residualArray[n][m] = Residual(m)

----------------------------------------------------------------------------
(***************************************************************************)
(* The calibration as a counting barrier: READYs in flight without what    *)
(* they carry.                                                             *)
(***************************************************************************)
ReadyFrame(f) == [seq |-> f.seq, from |-> f.from, round |-> f.round]

ReadyInbox(n) == {ReadyFrame(f) : f \in {g \in inbox[n] : g.type = "READY"}}

CB == INSTANCE Barrier WITH
        N <- NumNodes,
        Rounds <- 2 * NumNodes + 1,
        passed <- [n \in Nodes |-> Passed(n)],
        sent <- [n \in Nodes |-> Sent(n)],
        count <- numNodesReady,
        inbox <- [n \in Nodes |-> ReadyInbox(n)],
        busSeq <- busSeq

(***************************************************************************)
(* The calibration FSM implements the counting barrier: every step of a    *)
(* node announces a round, counts a READY, goes through, or leaves the     *)
(* barrier alone.                                                          *)
(***************************************************************************)
ImplementsBarrier == CB!Spec

(***************************************************************************)
(* The inductive invariant of the barrier, of the FSM's own counters and   *)
(* frames: numNodesReady is the number of nodes whose READY of this round  *)
(* arrived, or the READY of a later round took it past numTotalNodes.      *)
(***************************************************************************)
CountersExact == CB!BarrierInv
=============================================================================
