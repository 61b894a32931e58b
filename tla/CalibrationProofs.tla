------------------------- MODULE CalibrationProofs -------------------------
(***************************************************************************)
(* Theorems about the calibration, for every number of nodes.              *)
(***************************************************************************)
EXTENDS Calibration, FiniteSetTheorems, TLAPS

(***************************************************************************)
(* How the variables of one node go together: which LED and which reading  *)
(* each state of the FSM is about.                                         *)
(***************************************************************************)
Local(n) ==
    /\ state[n] = "CalibInit" => luxReadNum[n] = 0 /\ ~done[n] /\ led[n] = 0
    /\ state[n] # "CalibInit" /\ nodeLedOn[n] = -1 =>
         state[n] = "WaitReady" /\ luxReadNum[n] = 0 /\ ~done[n] /\ led[n] = 0
    /\ state[n] = "WaitReady" /\ nodeLedOn[n] # -1 /\ ~done[n] =>
         luxReadNum[n] \in {1, 2} /\ nodeLedOn[n] \in Nodes
    /\ state[n] \in {"WaitLedOn", "WaitTransient"} =>
         luxReadNum[n] \in {0, 1} /\ nodeLedOn[n] \in Nodes /\ ~done[n]
    /\ done[n] => state[n] = "WaitReady" /\ nodeLedOn[n] = NumNodes /\ luxReadNum[n] = 0
    /\ n \in elapsed => state[n] = "WaitTransient"

LocalInv == \A n \in Nodes : Local(n)

\* The place of a frame on the bus identifies it.
SeqInv ==
    \A n \in Nodes : \A f \in inbox[n] :
      f.seq < busSeq /\ \A g \in inbox[n] : f.seq = g.seq => f = g

CalibInv == TypeOK /\ LocalInv

FullInv == CalibInv /\ SeqInv

\* The values that travel in READY frames are of their type.
LEMMA ValueTypes ==
  /\ NoValue \in Values
  /\ \A n \in Nodes : Residual(n) \in Values
  /\ \A n, j \in Nodes, neg \in BOOLEAN : Gain(n, j, neg) \in Values
  BY DEF NoValue, Residual, Gain, Values

\* What a sensor sees is a set of nodes with levels.
LEMMA LitType ==
  ASSUME TypeOK
  PROVE  Lit \in SUBSET (Nodes \X Levels)
  BY DEF TypeOK, Lit

\* The slots of the arrays are numbers, and the nodes are among them.
LEMMA SlotTypes ==
  /\ Nodes \subseteq Slots /\ 0 \in Slots
  /\ MaxNumNodes \in Nat /\ NumNodes \in Nat \ {0} /\ NumNodes <= MaxNumNodes
  BY NumNodesAssumption, MaxNumNodesAssumption DEF Nodes, Slots

\* setGain writes one cell of the matrix or of the residuals, wherever it points.
LEMMA SetGainType ==
  ASSUME TypeOK, NEW n \in Nodes, NEW i \in Nodes, NEW j \in 0 .. NumNodes,
         NEW val \in Values, SetGain(n, i, j, val)
  PROVE  /\ gainMatrix' \in [Nodes -> [Slots -> [Slots -> Values]]]
         /\ residualArray' \in [Nodes -> [Slots -> Values]]
<1> USE SlotTypes
<1>1. i \in Slots
  OBVIOUS
<1>2. CASE j < MaxNumNodes
  <2>1. j \in Slots
    BY <1>2 DEF Slots
  <2>2. /\ gainMatrix' = [gainMatrix EXCEPT ![n][i][j] = val]
        /\ UNCHANGED residualArray
    BY <1>2 DEF SetGain
  <2>3. QED
    BY <1>1, <2>1, <2>2 DEF TypeOK
<1>3. CASE j = MaxNumNodes /\ i + 1 < MaxNumNodes
  <2>1. i + 1 \in Slots
    BY <1>3 DEF Nodes, Slots
  <2>2. /\ gainMatrix' = [gainMatrix EXCEPT ![n][i + 1][0] = val]
        /\ UNCHANGED residualArray
    BY <1>3 DEF SetGain
  <2>3. QED
    BY <2>1, <2>2 DEF TypeOK
<1>4. CASE j = MaxNumNodes /\ i + 1 = MaxNumNodes
  <2>1. /\ residualArray' = [residualArray EXCEPT ![n][0] = val]
        /\ UNCHANGED gainMatrix
    BY <1>4 DEF SetGain
  <2>2. QED
    BY <2>1 DEF TypeOK
<1>5. QED
  BY <1>2, <1>3, <1>4 DEF SetGain

\* In the turn of a LED setGain stays in its row.
LEMMA SetGainInRow ==
  ASSUME NEW n, NEW i, NEW j \in Nodes, NEW val, SetGain(n, i, j, val)
  PROVE  /\ gainMatrix' = [gainMatrix EXCEPT ![n][i][j] = val]
         /\ UNCHANGED residualArray
<1>1. j < MaxNumNodes /\ j # MaxNumNodes
  BY SlotTypes DEF Nodes
<1>2. QED
  BY <1>1 DEF SetGain

\* What line 123 subtracts is a value, or unknown.
LEMMA SubtractedType ==
  ASSUME TypeOK, NEW n \in Nodes
  PROVE  Subtracted(n) \in Values \union {Unknown}
  BY DEF Subtracted, TypeOK

\* The constructor and resetCalib() leave a well-typed FSM.
LEMMA InitCalibInv == Init => CalibInv
<1> SUFFICES ASSUME Init PROVE CalibInv
  OBVIOUS
<1>1. gainMatrix \in [Nodes -> [Slots -> [Slots -> Values]]]
  BY ValueTypes DEF Init
<1>2. residualArray \in [Nodes -> [Slots -> Values]]
  BY ValueTypes DEF Init
<1>3. nodeLedOn \in [Nodes -> -1 .. NumNodes]
  <2>1. StaleLedOn \subseteq -1 .. NumNodes
    BY NumNodesAssumption, StaleLedOnAssumption
  <2>2. nodeLedOn \in [Nodes -> StaleLedOn]
    BY DEF Init
  <2>3. QED
    BY <2>1, <2>2
<1>4. luxReads \in [Nodes -> [0 .. 1 -> Readings]]
  <2>1. [lit |-> {}, less |-> NoValue] \in Readings
    BY ValueTypes DEF Readings
  <2>2. QED
    BY <2>1 DEF Init
<1>5. TypeOK
  <2>1. /\ state \in [Nodes -> CalibrationState]
        /\ led \in [Nodes -> Levels]
    BY DEF Init, CalibrationState, Levels
  <2>2. /\ done \in [Nodes -> BOOLEAN] /\ luxReadNum \in [Nodes -> 0 .. 2]
        /\ numNodesReady \in [Nodes -> Nat] /\ otherNodeLedOn \in [Nodes -> BOOLEAN]
        /\ inbox \in [Nodes -> SUBSET Frames] /\ busSeq \in Nat
        /\ elapsed \in SUBSET Nodes
    BY DEF Init
  <2>3. QED
    BY <1>1, <1>2, <1>3, <1>4, <2>1, <2>2 DEF TypeOK
<1>6. LocalInv
  BY DEF Init, LocalInv, Local
<1>7. QED
  BY <1>5, <1>6 DEF CalibInv

\* Passed counts barriers.
LEMMA PassedType ==
  ASSUME NEW n \in Nodes, CalibInv
  PROVE  Passed(n) \in Nat
<1>1. Local(n) /\ state[n] \in CalibrationState /\ nodeLedOn[n] \in -1 .. NumNodes
  BY DEF CalibInv, LocalInv, TypeOK
<1>2. CASE state[n] = "CalibInit" \/ nodeLedOn[n] = -1
  BY <1>2 DEF Passed
<1>3. CASE state[n] # "CalibInit" /\ nodeLedOn[n] # -1 /\ done[n]
  BY <1>3, NumNodesAssumption DEF Passed
<1>4. CASE state[n] # "CalibInit" /\ nodeLedOn[n] # -1 /\ ~done[n]
  <2>1. nodeLedOn[n] \in Nat /\ luxReadNum[n] \in Nat
    BY <1>1, <1>4, NumNodesAssumption DEF Local, Nodes, CalibrationState
  <2>2. QED
    BY <2>1, <1>4 DEF Passed
<1>5. QED
  BY <1>2, <1>3, <1>4

\* A broadcast adds one well-formed frame to the other inboxes.
LEMMA BroadcastType ==
  ASSUME NEW n \in Nodes, NEW type \in {"READY", "LED_ON"}, NEW val \in Values,
         CalibInv, Broadcast(n, type, val)
  PROVE  inbox' \in [Nodes -> SUBSET Frames] /\ busSeq' \in Nat
<1>1. Passed(n) \in Nat
  BY PassedType
<1>2. [seq |-> busSeq, from |-> n, type |-> type, val |-> val, round |-> Passed(n)] \in Frames
  BY <1>1 DEF Frames, CalibInv, TypeOK
<1>3. QED
  BY <1>2 DEF Broadcast, CalibInv, TypeOK

\* runStateInit: the residual it files and sends is a value of the model.
LEMMA RunStateInitInv ==
  ASSUME NEW n \in Nodes, CalibInv, RunStateInit(n)
  PROVE  CalibInv'
<1>1. inbox' \in [Nodes -> SUBSET Frames] /\ busSeq' \in Nat
  BY BroadcastType, ValueTypes DEF RunStateInit
<1>2. residualArray' \in [Nodes -> [Slots -> Values]]
  BY ValueTypes, SlotTypes DEF RunStateInit, CalibInv, TypeOK
<1>3. TypeOK'
  BY <1>1, <1>2, NumNodesAssumption
  DEF RunStateInit, CalibInv, TypeOK, CalibrationState
<1>4. LocalInv'
  BY NumNodesAssumption DEF RunStateInit, CalibInv, TypeOK, LocalInv, Local
<1>5. QED
  BY <1>3, <1>4 DEF CalibInv

\* runStateWaitReady below the count touches only the LED.
LEMMA WaitReadyNotAllInv ==
  ASSUME NEW n \in Nodes, CalibInv, WaitReadyNotAll(n)
  PROVE  CalibInv'
  BY DEF WaitReadyNotAll, CalibInv, TypeOK, LocalInv, Local, Levels

\* runStateWaitReady at the count: nodeLedOn stays within 0 .. NumNodes.
LEMMA WaitReadyAllInv ==
  ASSUME NEW n \in Nodes, CalibInv, WaitReadyAll(n)
  PROVE  CalibInv'
<1> USE NumNodesAssumption
<1>1. inbox' \in [Nodes -> SUBSET Frames] /\ busSeq' \in Nat
  BY BroadcastType, ValueTypes DEF WaitReadyAll, CalibInv, TypeOK
<1>2. NextLed(n) \in 0 .. NumNodes /\ NextRead(n) \in {0, 1}
  <2>1. state[n] = "WaitReady" /\ ~done[n] /\ Local(n)
    BY DEF WaitReadyAll, CalibInv, LocalInv
  <2>2. nodeLedOn[n] = -1 \/ (luxReadNum[n] \in {1, 2} /\ nodeLedOn[n] \in Nodes)
    BY <2>1, Zenon DEF Local
  <2>3. CASE nodeLedOn[n] = -1
    BY <2>3 DEF NextLed, NextRead, TurnOver
  <2>4. CASE luxReadNum[n] \in {1, 2} /\ nodeLedOn[n] \in Nodes
    BY <2>4 DEF NextLed, NextRead, TurnOver, Nodes
  <2>5. QED
    BY <2>2, <2>3, <2>4
<1>3. LedAfter(n) \in Levels
  BY <1>2 DEF LedAfter, pwm, Levels
<1>4. /\ state' \in [Nodes -> CalibrationState]
      /\ done' \in [Nodes -> BOOLEAN]
      /\ nodeLedOn' \in [Nodes -> -1 .. NumNodes]
      /\ luxReadNum' \in [Nodes -> 0 .. 2]
      /\ numNodesReady' \in [Nodes -> Nat]
      /\ led' \in [Nodes -> Levels]
  <2>1. state' \in [Nodes -> CalibrationState] /\ done' \in [Nodes -> BOOLEAN]
    BY DEF WaitReadyAll, CalibInv, TypeOK, CalibrationState
  <2>2. nodeLedOn' \in [Nodes -> -1 .. NumNodes] /\ luxReadNum' \in [Nodes -> 0 .. 2]
    BY <1>2 DEF WaitReadyAll, CalibInv, TypeOK
  <2>3. numNodesReady' \in [Nodes -> Nat] /\ led' \in [Nodes -> Levels]
    BY <1>3 DEF WaitReadyAll, CalibInv, TypeOK
  <2>4. QED
    BY <2>1, <2>2, <2>3
<1>5. TypeOK'
  BY <1>1, <1>4 DEF WaitReadyAll, CalibInv, TypeOK
<1>6. LocalInv'
  <2> SUFFICES ASSUME NEW k \in Nodes PROVE Local(k)'
    BY DEF LocalInv
  <2>1. CASE k # n
    BY <2>1 DEF WaitReadyAll, CalibInv, TypeOK, LocalInv, Local
  <2>2. CASE k = n
    <3>1. n \notin elapsed'
      BY DEF WaitReadyAll, CalibInv, LocalInv, Local
    <3>2. nodeLedOn'[n] = NextLed(n) /\ luxReadNum'[n] = NextRead(n)
      BY DEF WaitReadyAll, CalibInv, TypeOK
    <3>3. NextLed(n) >= NumNodes => NextLed(n) = NumNodes /\ NextRead(n) = 0
      BY <1>2 DEF WaitReadyAll, NextLed, NextRead, TurnOver, CalibInv, TypeOK, LocalInv,
                  Local, Nodes
    <3>4. CASE NextLed(n) >= NumNodes /\ state' = state /\ done' = [done EXCEPT ![n] = TRUE]
      BY <2>2, <3>1, <3>2, <3>3, <3>4 DEF WaitReadyAll, CalibInv, TypeOK, Local
    <3>5. CASE /\ NextLed(n) \in Nodes /\ done' = done
               /\ \/ state' = [state EXCEPT ![n] = "WaitTransient"]
                  \/ state' = [state EXCEPT ![n] = "WaitLedOn"]
      BY <1>2, <2>2, <3>1, <3>2, <3>5 DEF WaitReadyAll, CalibInv, TypeOK, Local, Nodes
    <3>6. QED
      BY <3>4, <3>5 DEF WaitReadyAll
  <2>3. QED
    BY <2>1, <2>2
<1>7. QED
  BY <1>5, <1>6 DEF CalibInv

\* runStateWaitLedOn consumes the event and changes state.
LEMMA RunStateWaitLedOnInv ==
  ASSUME NEW n \in Nodes, CalibInv, RunStateWaitLedOn(n)
  PROVE  CalibInv'
  BY DEF RunStateWaitLedOn, CalibInv, TypeOK, LocalInv, Local, CalibrationState

\* runStateWaitTrasient: luxReadNum stays below 2 before it is used as an index.
LEMMA RunStateWaitTransientInv ==
  ASSUME NEW n \in Nodes, CalibInv, RunStateWaitTransient(n)
  PROVE  CalibInv'
<1> USE NumNodesAssumption
<1>1. nodeLedOn[n] \in Nodes /\ nodeLedOn[n] \in 0 .. NumNodes /\ luxReadNum[n] \in {0, 1}
  BY DEF RunStateWaitTransient, CalibInv, LocalInv, Local, Nodes
<1>2. inbox' \in [Nodes -> SUBSET Frames] /\ busSeq' \in Nat
  BY <1>1, BroadcastType, ValueTypes, NegativeGainsAssumption DEF RunStateWaitTransient
<1>3. /\ gainMatrix' \in [Nodes -> [Slots -> [Slots -> Values]]]
      /\ residualArray' \in [Nodes -> [Slots -> Values]]
  <2>1. CASE UNCHANGED <<gainMatrix, residualArray>>
    BY <2>1 DEF CalibInv, TypeOK
  <2>2. ASSUME NEW neg \in NegativeGains,
               SetGain(n, n, nodeLedOn[n], Gain(n, nodeLedOn[n], neg))
        PROVE  /\ gainMatrix' \in [Nodes -> [Slots -> [Slots -> Values]]]
               /\ residualArray' \in [Nodes -> [Slots -> Values]]
    <3>1. Gain(n, nodeLedOn[n], neg) \in Values
      BY <1>1, ValueTypes, NegativeGainsAssumption
    <3>2. QED
      BY <2>2, <3>1, <1>1, SetGainType DEF CalibInv
  <2>3. QED
    BY <2>1, <2>2 DEF RunStateWaitTransient
<1>4. luxReads' \in [Nodes -> [0 .. 1 -> Readings]]
  <2>1. [lit |-> Lit, less |-> Subtracted(n)] \in Readings
    BY LitType, SubtractedType DEF CalibInv, Readings
  <2>2. QED
    BY <1>1, <2>1 DEF RunStateWaitTransient, CalibInv, TypeOK
<1>5. TypeOK'
  <2>1. TypeOK /\ luxReadNum[n] + 1 \in 0 .. 2 /\ "WaitReady" \in CalibrationState
    BY <1>1 DEF CalibInv, CalibrationState
  <2>2. /\ state' \in [Nodes -> CalibrationState]
        /\ luxReadNum' \in [Nodes -> 0 .. 2]
        /\ numNodesReady' \in [Nodes -> Nat]
        /\ elapsed' \in SUBSET Nodes
    BY <2>1 DEF RunStateWaitTransient, TypeOK
  <2>3. UNCHANGED <<done, nodeLedOn, otherNodeLedOn, led>>
    BY DEF RunStateWaitTransient
  <2>4. QED
    BY <1>2, <1>3, <1>4, <2>1, <2>2, <2>3 DEF TypeOK
<1>6. LocalInv'
  <2> SUFFICES ASSUME NEW k \in Nodes PROVE Local(k)'
    BY DEF LocalInv
  <2>1. CASE k # n
    BY <2>1 DEF RunStateWaitTransient, CalibInv, TypeOK, LocalInv, Local
  <2>2. CASE k = n
    <3>1. /\ state'[n] = "WaitReady" /\ luxReadNum'[n] \in {1, 2}
          /\ nodeLedOn' = nodeLedOn /\ done' = done /\ n \notin elapsed'
      BY <1>1 DEF RunStateWaitTransient, CalibInv, TypeOK
    <3>2. ~done[n] /\ nodeLedOn[n] # -1
      BY <1>1 DEF RunStateWaitTransient, CalibInv, LocalInv, Local
    <3>3. QED
      BY <1>1, <2>2, <3>1, <3>2 DEF Local
  <2>3. QED
    BY <2>1, <2>2
<1>7. QED
  BY <1>5, <1>6 DEF CalibInv

\* A READY is filed in a cell that exists, whatever nodeLedOn holds.
LEMMA ReceiveReadyInv ==
  ASSUME NEW n \in Nodes, CalibInv, ReceiveReady(n)
  PROVE  CalibInv'
<1>1. PICK f \in inbox[n] :
        /\ inbox' = [inbox EXCEPT ![n] = @ \ {f}]
        /\ IF CarriesValue(f.val)
           THEN ReceivedGainOrResidual(n, f.from, f.val)
           ELSE UNCHANGED <<gainMatrix, residualArray>>
        /\ numNodesReady' = [numNodesReady EXCEPT ![n] = @ + 1]
        /\ UNCHANGED <<state, done, nodeLedOn, luxReadNum, luxReads,
                       otherNodeLedOn, led, busSeq, elapsed>>
  BY DEF ReceiveReady
<1>2. f.from \in Nodes /\ f.val \in Values
  BY DEF CalibInv, TypeOK, Frames
<1>3. /\ gainMatrix' \in [Nodes -> [Slots -> [Slots -> Values]]]
      /\ residualArray' \in [Nodes -> [Slots -> Values]]
  <2>1. CASE UNCHANGED <<gainMatrix, residualArray>>
    BY <2>1 DEF CalibInv, TypeOK
  <2>2. CASE /\ residualArray' = [residualArray EXCEPT ![n][f.from] = f.val]
             /\ UNCHANGED gainMatrix
    BY <2>2, <1>2, SlotTypes DEF CalibInv, TypeOK
  <2>3. CASE /\ nodeLedOn[n] # -1
             /\ SetGain(n, f.from, nodeLedOn[n], f.val)
    <3>1. nodeLedOn[n] \in 0 .. NumNodes
      BY <2>3, NumNodesAssumption DEF CalibInv, TypeOK
    <3>2. QED
      BY <2>3, <3>1, <1>2, SetGainType DEF CalibInv
  <2>4. QED
    BY <1>1, <2>1, <2>2, <2>3 DEF ReceivedGainOrResidual
<1>4. inbox' \in [Nodes -> SUBSET Frames] /\ numNodesReady' \in [Nodes -> Nat]
  BY <1>1 DEF CalibInv, TypeOK
<1>5. TypeOK'
  BY <1>1, <1>3, <1>4 DEF CalibInv, TypeOK
<1>6. LocalInv'
  BY <1>1 DEF CalibInv, LocalInv, Local
<1>7. QED
  BY <1>5, <1>6 DEF CalibInv

\* A LED_ON only latches the event.
LEMMA ReceiveLedOnInv ==
  ASSUME NEW n \in Nodes, CalibInv, ReceiveLedOn(n)
  PROVE  CalibInv'
  BY DEF ReceiveLedOn, LatchedLedOn, CalibInv, TypeOK, LocalInv, Local

\* The passing of a second changes no variable of a node.
LEMMA SecondPassesInv ==
  ASSUME NEW S, CalibInv, SecondPasses(S)
  PROVE  CalibInv'
  BY DEF SecondPasses, Waiting, nodeVars, CalibInv, TypeOK, LocalInv, Local

\* The invariant is preserved by every step.
LEMMA NextCalibInv == CalibInv /\ [Next]_vars => CalibInv'
<1> SUFFICES ASSUME CalibInv, [Next]_vars PROVE CalibInv'
  OBVIOUS
<1>1. ASSUME NEW n \in Nodes, NodeStep(n) PROVE CalibInv'
  BY <1>1, RunStateInitInv, WaitReadyNotAllInv, WaitReadyAllInv, RunStateWaitLedOnInv,
     RunStateWaitTransientInv, ReceiveReadyInv, ReceiveLedOnInv DEF NodeStep
<1>2. ASSUME NEW n \in Nodes, SecondPasses({n}) PROVE CalibInv'
  BY <1>2, SecondPassesInv
<1>3. CASE UNCHANGED vars
  BY <1>3 DEF vars, CalibInv, TypeOK, LocalInv, Local
<1>4. QED
  BY <1>1, <1>2, <1>3 DEF Next

(***************************************************************************)
(* Type correctness, for any number of nodes up to the size of the arrays  *)
(* and any ids: whatever setGain and line 123 index, gainMatrix and        *)
(* residualArray keep the sizes of calibrationFSM.h and hold readings and  *)
(* gains, and luxReads and pwm are indexed inside their two cells.         *)
(***************************************************************************)
THEOREM CalibrationTypeOK == Spec => []TypeOK
<1>1. CalibInv => TypeOK
  BY DEF CalibInv
<1>2. QED
  BY <1>1, InitCalibInv, NextCalibInv, PTL DEF Spec

\* Frames keep the place they were given.
LEMMA BroadcastSeq ==
  ASSUME NEW n \in Nodes, NEW type, NEW val, FullInv, Broadcast(n, type, val)
  PROVE  SeqInv'
<1> DEFINE new == [seq |-> busSeq, from |-> n, type |-> type, val |-> val,
                   round |-> Passed(n)]
<1>1. \A k \in Nodes : \A f \in inbox[k] : f.seq \in Nat /\ f.seq < busSeq
  BY DEF FullInv, SeqInv, CalibInv, TypeOK, Frames
<1>2. busSeq' = busSeq + 1 /\ busSeq \in Nat /\ new.seq = busSeq
  BY DEF Broadcast, FullInv, CalibInv, TypeOK
<1>3. \A k \in Nodes : inbox'[k] \subseteq inbox[k] \union {new}
  BY DEF Broadcast
<1> HIDE DEF new
<1>4. QED
  BY <1>1, <1>2, <1>3 DEF SeqInv, FullInv

\* Taking frames out of the receive paths keeps them in bus order.
LEMMA SeqShrinks ==
  ASSUME FullInv, busSeq' = busSeq, \A k \in Nodes : inbox'[k] \subseteq inbox[k]
  PROVE  SeqInv'
  BY DEF FullInv, SeqInv

\* Every step keeps one frame per place on the bus.
LEMMA NextSeqInv == FullInv /\ [Next]_vars => SeqInv'
<1> SUFFICES ASSUME FullInv, [Next]_vars PROVE SeqInv'
  OBVIOUS
<1>1. ASSUME NEW n \in Nodes, NEW type, NEW val, Broadcast(n, type, val) PROVE SeqInv'
  BY <1>1, BroadcastSeq
<1>2. CASE inbox' = inbox /\ busSeq' = busSeq
  BY <1>2, SeqShrinks
<1>3. ASSUME NEW n \in Nodes, ReceiveReady(n) \/ ReceiveLedOn(n) PROVE SeqInv'
  <2>1. \E f \in inbox[n] : inbox' = [inbox EXCEPT ![n] = @ \ {f}] /\ busSeq' = busSeq
    BY <1>3 DEF ReceiveReady, ReceiveLedOn
  <2>2. \A k \in Nodes : inbox'[k] \subseteq inbox[k]
    BY <2>1 DEF FullInv, CalibInv, TypeOK
  <2>3. QED
    BY <2>1, <2>2, SeqShrinks
<1>4. ASSUME NEW n \in Nodes, NodeStep(n) PROVE SeqInv'
  BY <1>4, <1>1, <1>2, <1>3 DEF NodeStep, RunStateInit, WaitReadyNotAll, WaitReadyAll,
       RunStateWaitLedOn, RunStateWaitTransient
<1>5. QED
  BY <1>2, <1>4 DEF Next, SecondPasses, vars

\* The invariant the refinement needs.
LEMMA FullInvariant == Spec => []FullInv
<1>1. Init => FullInv
  BY InitCalibInv DEF Init, FullInv, SeqInv
<1>2. FullInv /\ [Next]_vars => FullInv'
  BY NextCalibInv, NextSeqInv DEF FullInv
<1>3. QED
  BY <1>1, <1>2, PTL DEF Spec

----------------------------------------------------------------------------
(***************************************************************************)
(* The calibration implements the counting barrier.                        *)
(***************************************************************************)
LEMMA NodesFinite == IsFiniteSet(Nodes) /\ Cardinality(Nodes) = NumNodes
  BY NumNodesAssumption, FS_Interval DEF Nodes

\* A step that leaves the FSM of k alone leaves its barriers alone.
LEMMA SameNode ==
  ASSUME NEW k \in Nodes,
         state'[k] = state[k], done'[k] = done[k], nodeLedOn'[k] = nodeLedOn[k],
         luxReadNum'[k] = luxReadNum[k]
  PROVE  Passed(k)' = Passed(k) /\ Sent(k)' = Sent(k)
  BY DEF Passed, Sent

\* A READY broadcast is an announcement, seen from the receivers.
LEMMA ReadyBroadcast ==
  ASSUME NEW n \in Nodes, NEW val, NEW m \in Nodes, Broadcast(n, "READY", val)
  PROVE  ReadyInbox(m)' = IF m = n THEN ReadyInbox(m)
                          ELSE ReadyInbox(m) \union
                               {[seq |-> busSeq, from |-> n, round |-> Passed(n)]}
<1> DEFINE new == [seq |-> busSeq, from |-> n, type |-> "READY", val |-> val,
                   round |-> Passed(n)]
<1>1. CASE m = n
  BY <1>1 DEF Broadcast, ReadyInbox
<1>2. CASE m # n
  <2>1. inbox'[m] = inbox[m] \union {new}
    BY <1>2 DEF Broadcast
  <2>2. {g \in inbox'[m] : g.type = "READY"} = {g \in inbox[m] : g.type = "READY"} \union {new}
    BY <2>1
  <2>3. ReadyFrame(new) = [seq |-> busSeq, from |-> n, round |-> Passed(n)]
    BY DEF ReadyFrame
  <2>4. ReadyInbox(m)' = ReadyInbox(m) \union {ReadyFrame(new)}
    <3> HIDE DEF new
    <3> QED
      BY <2>2 DEF ReadyInbox
  <2>5. QED
    BY <1>2, <2>3, <2>4
<1>3. QED
  BY <1>1, <1>2

\* A LED_ON broadcast adds no READY.
LEMMA LedOnBroadcast ==
  ASSUME NEW n \in Nodes, NEW val, NEW m \in Nodes, Broadcast(n, "LED_ON", val)
  PROVE  ReadyInbox(m)' = ReadyInbox(m)
  BY DEF Broadcast, ReadyInbox, ReadyFrame

\* A step that broadcasts READY and counts the sender announces its round.
LEMMA Announces ==
  ASSUME NEW n \in Nodes, NEW val,
         \A k \in Nodes \ {n} : Passed(k)' = Passed(k) /\ Sent(k)' = Sent(k),
         Sent(n) = Passed(n), Passed(n)' = Passed(n), Sent(n)' = Sent(n) + 1,
         Passed(n) < 2 * NumNodes + 1,
         Broadcast(n, "READY", val),
         numNodesReady' = [numNodesReady EXCEPT ![n] = @ + 1]
  PROVE  CB!Announce(n)
<1> DEFINE passed == [k \in Nodes |-> Passed(k)]
           sent == [k \in Nodes |-> Sent(k)]
           ready == [k \in Nodes |-> ReadyInbox(k)]
<1>1. sent[n] = passed[n]
  OBVIOUS
<1>2. passed[n] < 2 * NumNodes + 1
  OBVIOUS
<1>3. sent' = [sent EXCEPT ![n] = @ + 1]
  OBVIOUS
<1>4. UNCHANGED passed
  OBVIOUS
<1>5. numNodesReady' = [numNodesReady EXCEPT ![n] = numNodesReady[n] + 1]
  OBVIOUS
<1>6. ready' = [m \in CB!Nodes |->
                  IF m = n THEN ready[m]
                  ELSE ready[m] \union
                       {[seq |-> busSeq, from |-> n, round |-> passed[n]]}]
  BY ReadyBroadcast DEF CB!Nodes, Nodes
<1>7. busSeq' = busSeq + 1
  BY DEF Broadcast
<1>8. QED
  BY <1>1, <1>2, <1>3, <1>4, <1>5, <1>6, <1>7 DEF CB!Announce

\* runStateInit announces barrier 0.
LEMMA RunStateInitAnnounces ==
  ASSUME NEW n \in Nodes, CalibInv, RunStateInit(n)
  PROVE  CB!Announce(n)
<1> USE NumNodesAssumption
<1>1. \A k \in Nodes \ {n} : Passed(k)' = Passed(k) /\ Sent(k)' = Sent(k)
  BY SameNode DEF RunStateInit, CalibInv, TypeOK
<1>2. Passed(n) = 0 /\ Sent(n) = 0 /\ Passed(n)' = 0 /\ Sent(n)' = 1
  BY DEF RunStateInit, CalibInv, TypeOK, LocalInv, Local, Passed, Sent
<1>3. /\ Sent(n) = Passed(n) /\ Passed(n)' = Passed(n) /\ Sent(n)' = Sent(n) + 1
      /\ Passed(n) < 2 * NumNodes + 1
  BY <1>2
<1>4. /\ Broadcast(n, "READY", Residual(n))
      /\ numNodesReady' = [numNodesReady EXCEPT ![n] = @ + 1]
  BY DEF RunStateInit
<1>5. QED
  BY <1>1, <1>3, <1>4, Announces, Zenon

\* A reading announces the barrier the node stands at.
LEMMA RunStateWaitTransientAnnounces ==
  ASSUME NEW n \in Nodes, CalibInv, RunStateWaitTransient(n)
  PROVE  CB!Announce(n)
<1> USE NumNodesAssumption
<1>1. \A k \in Nodes \ {n} : Passed(k)' = Passed(k) /\ Sent(k)' = Sent(k)
  BY SameNode DEF RunStateWaitTransient, CalibInv, TypeOK
<1>2. /\ nodeLedOn[n] \in 0 .. NumNodes - 1 /\ luxReadNum[n] \in {0, 1}
      /\ ~done[n] /\ state[n] = "WaitTransient"
  BY DEF RunStateWaitTransient, CalibInv, LocalInv, Local, Nodes
<1>3. /\ nodeLedOn'[n] = nodeLedOn[n] /\ luxReadNum'[n] = luxReadNum[n] + 1
      /\ ~done'[n] /\ state'[n] = "WaitReady"
  BY <1>2 DEF RunStateWaitTransient, CalibInv, TypeOK
<1>4. Passed(n) = 2 * nodeLedOn[n] + luxReadNum[n] + 1 /\ Sent(n) = Passed(n)
  BY <1>2 DEF Passed, Sent
<1>5. Passed(n)' = 2 * nodeLedOn[n] + luxReadNum[n] + 1 /\ Sent(n)' = Passed(n)' + 1
  BY <1>2, <1>3 DEF Passed, Sent
<1>6. Passed(n) < 2 * NumNodes + 1 /\ Passed(n) \in Nat
  BY <1>2, <1>4
<1>7. \E val : Broadcast(n, "READY", val)
  BY DEF RunStateWaitTransient
<1>8. QED
  BY <1>1, <1>4, <1>5, <1>6, <1>7, Announces DEF RunStateWaitTransient

\* runStateWaitReady at the count goes through the barrier.
LEMMA WaitReadyAllGoesThrough ==
  ASSUME NEW n \in Nodes, CalibInv, WaitReadyAll(n)
  PROVE  CB!GoThrough(n)
<1> USE NumNodesAssumption
<1>1. \A k \in Nodes \ {n} : Passed(k)' = Passed(k) /\ Sent(k)' = Sent(k)
  BY SameNode DEF WaitReadyAll, CalibInv, TypeOK
<1>2. /\ nodeLedOn[n] \in -1 .. NumNodes - 1 /\ luxReadNum[n] \in {0, 1, 2}
      /\ ~done[n] /\ state[n] = "WaitReady"
      /\ nodeLedOn[n] = -1 <=> luxReadNum[n] = 0
  <2>1. state[n] = "WaitReady" /\ ~done[n] /\ Local(n)
    BY DEF WaitReadyAll, CalibInv, LocalInv
  <2>2. /\ nodeLedOn[n] = -1 => luxReadNum[n] = 0
        /\ nodeLedOn[n] # -1 => luxReadNum[n] \in {1, 2} /\ nodeLedOn[n] \in Nodes
    BY <2>1, Zenon DEF Local
  <2>3. QED
    BY <2>1, <2>2 DEF Nodes
<1>3. /\ nodeLedOn'[n] = NextLed(n) /\ luxReadNum'[n] = NextRead(n)
      /\ NextLed(n) \in 0 .. NumNodes /\ NextRead(n) \in {0, 1}
      /\ 2 * NextLed(n) + NextRead(n) = IF nodeLedOn[n] = -1 THEN 0
                                        ELSE 2 * nodeLedOn[n] + luxReadNum[n]
      /\ NextLed(n) = NumNodes => NextRead(n) = 0
  BY <1>2 DEF WaitReadyAll, CalibInv, TypeOK, NextLed, NextRead, TurnOver
<1>4. Sent(n) = Passed(n) + 1
  BY <1>2 DEF Sent
<1>5. Passed(n) = 2 * NextLed(n) + NextRead(n)
  BY <1>2, <1>3 DEF Passed
<1>6. Passed(n)' = Passed(n) + 1 /\ Sent(n)' = Sent(n)
  <2>1. CASE NextLed(n) >= NumNodes /\ state'[n] = "WaitReady" /\ done'[n]
    BY <2>1, <1>3, <1>4, <1>5 DEF Passed, Sent
  <2>2. CASE NextLed(n) \in Nodes /\ ~done'[n] /\ state'[n] \in {"WaitTransient", "WaitLedOn"}
    BY <2>2, <1>3, <1>4, <1>5 DEF Passed, Sent, Nodes
  <2>3. QED
    BY <2>1, <2>2, <1>2 DEF WaitReadyAll, CalibInv, TypeOK
<1>7. \A m \in Nodes : ReadyInbox(m)' = ReadyInbox(m)
  <2>1. CASE inbox' = inbox
    BY <2>1 DEF ReadyInbox
  <2>2. CASE Broadcast(n, "LED_ON", NoValue)
    BY <2>2, LedOnBroadcast
  <2>3. QED
    BY <2>1, <2>2 DEF WaitReadyAll
<1>8. busSeq' \in {busSeq, busSeq + 1}
  BY DEF WaitReadyAll, Broadcast
<1>9. numNodesReady[n] = NumNodes /\ numNodesReady' = [numNodesReady EXCEPT ![n] = 0]
  BY DEF WaitReadyAll, AllReady
<1> DEFINE passed == [k \in Nodes |-> Passed(k)]
           sent == [k \in Nodes |-> Sent(k)]
           ready == [k \in Nodes |-> ReadyInbox(k)]
<1>10. sent[n] = passed[n] + 1
  BY <1>4
<1>11. passed' = [passed EXCEPT ![n] = @ + 1]
  BY <1>1, <1>6
<1>12. UNCHANGED sent
  BY <1>1, <1>6
<1>13. UNCHANGED ready
  BY <1>7
<1>14. CB!Opens(n)
  BY <1>9 DEF CB!Opens
<1>15. UNCHANGED <<sent, ready>>
  BY <1>12, <1>13
<1>16. QED
  BY <1>8, <1>9, <1>10, <1>11, <1>14, <1>15, Zenon DEF CB!GoThrough

\* The CAN_CALIB_READY branch hears one announcement.
LEMMA ReceiveReadyHears ==
  ASSUME NEW n \in Nodes, FullInv, ReceiveReady(n)
  PROVE  CB!Hear(n)
<1>1. PICK f \in inbox[n] :
        /\ Receivable(n, f) /\ f.type = "READY"
        /\ inbox' = [inbox EXCEPT ![n] = @ \ {f}]
        /\ numNodesReady' = [numNodesReady EXCEPT ![n] = @ + 1]
        /\ UNCHANGED <<state, done, nodeLedOn, luxReadNum, busSeq>>
  BY DEF ReceiveReady
<1>2. \A k \in Nodes : Passed(k)' = Passed(k) /\ Sent(k)' = Sent(k)
  BY <1>1, SameNode
<1>3. ReadyFrame(f) \in ReadyInbox(n)
  BY <1>1 DEF ReadyInbox
<1>4. \A g \in ReadyInbox(n) : g.seq >= ReadyFrame(f).seq
  BY <1>1 DEF ReadyInbox, ReadyFrame, Receivable, FullInv, CalibInv, TypeOK, Frames
<1>5. ReadyInbox(n)' = ReadyInbox(n) \ {ReadyFrame(f)}
  <2>1. inbox'[n] = inbox[n] \ {f}
    BY <1>1 DEF FullInv, CalibInv, TypeOK
  <2>2. \A g \in inbox[n] : ReadyFrame(g) = ReadyFrame(f) => g = f
    BY DEF ReadyFrame, FullInv, SeqInv
  <2>3. QED
    BY <1>1, <2>1, <2>2 DEF ReadyInbox
<1>6. \A k \in Nodes \ {n} : ReadyInbox(k)' = ReadyInbox(k)
  BY <1>1 DEF ReadyInbox, FullInv, CalibInv, TypeOK
<1> DEFINE passed == [k \in Nodes |-> Passed(k)]
           sent == [k \in Nodes |-> Sent(k)]
           ready == [k \in Nodes |-> ReadyInbox(k)]
<1>7. ready' = [ready EXCEPT ![n] = @ \ {ReadyFrame(f)}]
  BY <1>5, <1>6
<1>8. UNCHANGED <<passed, sent, busSeq>>
  BY <1>1, <1>2
<1>9. ReadyFrame(f) \in ready[n] /\ \A g \in ready[n] : g.seq >= ReadyFrame(f).seq
  BY <1>3, <1>4
<1>10. numNodesReady' = [numNodesReady EXCEPT ![n] = @ + 1]
  BY <1>1
<1>11. QED
  BY <1>7, <1>8, <1>9, <1>10 DEF CB!Hear

\* Every other step leaves the barrier alone.
LEMMA OtherSteps ==
  ASSUME UNCHANGED <<state, done, nodeLedOn, luxReadNum, numNodesReady, busSeq>>,
         \A k \in Nodes : ReadyInbox(k)' = ReadyInbox(k)
  PROVE  UNCHANGED CB!vars
<1> DEFINE passed == [k \in Nodes |-> Passed(k)]
           sent == [k \in Nodes |-> Sent(k)]
           ready == [k \in Nodes |-> ReadyInbox(k)]
<1>1. \A k \in Nodes : Passed(k)' = Passed(k) /\ Sent(k)' = Sent(k)
  BY SameNode
<1>2. UNCHANGED passed /\ UNCHANGED sent
  BY <1>1
<1>3. UNCHANGED ready
  OBVIOUS
<1>4. QED
  BY <1>2, <1>3 DEF CB!vars

\* A LED_ON frame is invisible to the barriers.
LEMMA ReceiveLedOnStutters ==
  ASSUME NEW n \in Nodes, CalibInv, ReceiveLedOn(n)
  PROVE  UNCHANGED CB!vars
<1>1. PICK f \in inbox[n] :
        /\ f.type = "LED_ON"
        /\ inbox' = [inbox EXCEPT ![n] = @ \ {f}]
        /\ UNCHANGED <<state, done, nodeLedOn, luxReadNum, numNodesReady, busSeq>>
  BY DEF ReceiveLedOn
<1>2. ASSUME NEW k \in Nodes PROVE ReadyInbox(k)' = ReadyInbox(k)
  BY <1>1 DEF ReadyInbox, CalibInv, TypeOK
<1>3. QED
  BY <1>1, <1>2, OtherSteps

\* Starting the wait of a second is invisible to the barriers.
LEMMA RunStateWaitLedOnStutters ==
  ASSUME NEW n \in Nodes, CalibInv, RunStateWaitLedOn(n)
  PROVE  UNCHANGED CB!vars
<1> DEFINE passed == [k \in Nodes |-> Passed(k)]
           sent == [k \in Nodes |-> Sent(k)]
           ready == [k \in Nodes |-> ReadyInbox(k)]
<1>1. \A k \in Nodes \ {n} : Passed(k)' = Passed(k) /\ Sent(k)' = Sent(k)
  BY SameNode DEF RunStateWaitLedOn, CalibInv, TypeOK
<1>2. ~done[n] /\ state[n] = "WaitLedOn" /\ state'[n] = "WaitTransient"
  BY DEF RunStateWaitLedOn, CalibInv, TypeOK, LocalInv, Local
<1>3. Passed(n)' = Passed(n) /\ Sent(n)' = Sent(n)
  BY <1>2 DEF RunStateWaitLedOn, Passed, Sent
<1>4. UNCHANGED passed /\ UNCHANGED sent
  BY <1>1, <1>3
<1>5. UNCHANGED ready
  BY DEF RunStateWaitLedOn, ReadyInbox
<1>6. QED
  BY <1>4, <1>5 DEF CB!vars, RunStateWaitLedOn

\* Every step of the calibration is a step of the barrier or leaves it alone.
LEMMA StepRefines == FullInv /\ [Next]_vars => [CB!Next]_(CB!vars)
<1> SUFFICES ASSUME FullInv, [Next]_vars PROVE CB!Next \/ UNCHANGED CB!vars
  OBVIOUS
<1>0. CalibInv
  BY DEF FullInv
<1>1. ASSUME NEW n \in Nodes, CB!Announce(n) \/ CB!Hear(n) \/ CB!GoThrough(n)
      PROVE  CB!Next
  <2>1. n \in CB!Nodes
    BY DEF CB!Nodes, Nodes
  <2>2. QED
    BY <1>1, <2>1 DEF CB!Next
<1>2. CASE UNCHANGED <<state, done, nodeLedOn, luxReadNum, numNodesReady, inbox, busSeq>>
  BY <1>2, OtherSteps DEF ReadyInbox
<1>3. ASSUME NEW n \in Nodes, NodeStep(n) PROVE CB!Next \/ UNCHANGED CB!vars
  <2>1. CASE RunStateInit(n)
    BY <2>1, <1>0, <1>1, RunStateInitAnnounces
  <2>2. CASE WaitReadyNotAll(n)
    BY <2>2, <1>2 DEF WaitReadyNotAll
  <2>3. CASE WaitReadyAll(n)
    BY <2>3, <1>0, <1>1, WaitReadyAllGoesThrough
  <2>4. CASE RunStateWaitLedOn(n)
    BY <2>4, <1>0, RunStateWaitLedOnStutters
  <2>5. CASE RunStateWaitTransient(n)
    BY <2>5, <1>0, <1>1, RunStateWaitTransientAnnounces
  <2>6. CASE ReceiveReady(n)
    BY <2>6, <1>1, ReceiveReadyHears
  <2>7. CASE ReceiveLedOn(n)
    BY <2>7, <1>0, ReceiveLedOnStutters
  <2>8. QED
    BY <1>3, <2>1, <2>2, <2>3, <2>4, <2>5, <2>6, <2>7 DEF NodeStep
<1>4. CASE \E n \in Nodes : SecondPasses({n})
  BY <1>4, <1>2 DEF SecondPasses, nodeVars
<1>5. CASE UNCHANGED vars
  BY <1>5, <1>2 DEF vars
<1>6. QED
  BY <1>3, <1>4, <1>5 DEF Next

\* The FSMs start where the barriers start.
LEMMA InitRefines == Init => CB!Init
<1> SUFFICES ASSUME Init PROVE CB!Init
  OBVIOUS
<1> DEFINE passed == [k \in Nodes |-> Passed(k)]
           sent == [k \in Nodes |-> Sent(k)]
           ready == [k \in Nodes |-> ReadyInbox(k)]
<1>1. Nodes = CB!Nodes
  BY DEF CB!Nodes, Nodes
<1>2. \A k \in Nodes : Passed(k) = 0 /\ Sent(k) = 0 /\ ReadyInbox(k) = {}
  BY DEF Init, Passed, Sent, ReadyInbox
<1>3. passed = [k \in CB!Nodes |-> 0] /\ sent = [k \in CB!Nodes |-> 0]
  BY <1>1, <1>2
<1>4. ready = [k \in CB!Nodes |-> {}]
  BY <1>1, <1>2
<1>5. numNodesReady = [k \in CB!Nodes |-> 0] /\ busSeq = 0
  BY <1>1 DEF Init
<1>6. QED
  BY <1>3, <1>4, <1>5 DEF CB!Init

(***************************************************************************)
(* The calibration FSM implements the counting barrier, for every number   *)
(* of nodes.                                                               *)
(***************************************************************************)
THEOREM CalibrationImplementsBarrier == Spec => ImplementsBarrier
  BY FullInvariant, InitRefines, StepRefines, PTL DEF Spec, ImplementsBarrier, CB!Spec

----------------------------------------------------------------------------
(***************************************************************************)
(* The theorems about the barrier, for the barrier of the calibration.     *)
(***************************************************************************)
CBP == INSTANCE BarrierProofs WITH
        N <- NumNodes,
        Rounds <- 2 * NumNodes + 1,
        passed <- [n \in Nodes |-> Passed(n)],
        sent <- [n \in Nodes |-> Sent(n)],
        count <- numNodesReady,
        inbox <- [n \in Nodes |-> ReadyInbox(n)],
        busSeq <- busSeq

\* The FSMs start with exact counters.
LEMMA InitBarriers == Init => CBP!BarrierInv
<1>1. CBP!Parameters
  BY NumNodesAssumption DEF CBP!Parameters
<1>2. CB!Init => CBP!Init
  BY DEF CB!Init, CBP!Init, CB!Nodes, CBP!Nodes
<1>3. QED
  BY <1>1, <1>2, InitRefines, CBP!InitBarrierInv

\* Every step of the FSMs keeps the barriers' invariant.
LEMMA NextBarriers == FullInv /\ CBP!BarrierInv /\ [Next]_vars => CBP!BarrierInv'
<1>1. CBP!Parameters
  BY NumNodesAssumption DEF CBP!Parameters
<1>2. [CB!Next]_(CB!vars) => [CBP!Next]_(CBP!vars)
  BY DEF CB!Next, CBP!Next, CB!vars, CBP!vars, CB!Nodes, CBP!Nodes, CB!Announce,
     CBP!Announce, CB!Hear, CBP!Hear, CB!GoThrough, CBP!GoThrough, CB!Opens, CBP!Opens
<1>3. QED
  BY <1>1, <1>2, StepRefines, CBP!NextBarrierInv

\* What is proved of the barriers holds of the FSMs that implement them.
LEMMA BarrierInvariant == Spec => []CBP!BarrierInv
  BY InitBarriers, NextBarriers, FullInvariant, PTL DEF Spec

(***************************************************************************)
(* The counter of every node is exact or past the number of nodes, and the *)
(* READYs in flight are of the right rounds, for every number of nodes.    *)
(***************************************************************************)
THEOREM CalibrationCountersExact == Spec => []CountersExact
<1>1. CBP!BarrierInv => CountersExact
  <2>1. CBP!Nodes = CB!Nodes
    BY DEF CBP!Nodes, CB!Nodes
  <2>2. CBP!TypeOK => CB!TypeOK
    BY <2>1 DEF CBP!TypeOK, CB!TypeOK, CBP!ReadyFrames, CB!ReadyFrames
  <2>3. CBP!InStep /\ CBP!SentInv => CB!InStep /\ CB!SentInv
    BY <2>1 DEF CBP!InStep, CB!InStep, CBP!SentInv, CB!SentInv
  <2>4. CBP!FrameInv /\ CBP!OrderInv => CB!FrameInv /\ CB!OrderInv
    BY <2>1 DEF CBP!FrameInv, CB!FrameInv, CBP!OrderInv, CB!OrderInv
  <2>5. \A n, m, r : CBP!InFlight(n, m, r) = CB!InFlight(n, m, r)
    BY DEF CBP!InFlight, CB!InFlight
  <2>6. \A n \in CB!Nodes : CBP!Arrived(n) = CB!Arrived(n)
    BY <2>1, <2>5 DEF CBP!Arrived, CB!Arrived
  <2>7. \A n \in CB!Nodes : CBP!CountExact(n) => CB!CountExact(n)
    <3>1. \A S : CBP!Cardinality(S) = CB!Cardinality(S)
      BY DEF CBP!Cardinality, CB!Cardinality, CBP!IsFiniteSet, CB!IsFiniteSet
    <3>2. QED
      BY <2>1, <2>5, <2>6, <3>1 DEF CBP!CountExact, CB!CountExact
  <2>8. CBP!CountInv => CB!CountInv
    BY <2>1, <2>7 DEF CBP!CountInv, CB!CountInv
  <2>9. QED
    BY <2>2, <2>3, <2>4, <2>8 DEF CBP!BarrierInv, CB!BarrierInv, CountersExact
<1>2. QED
  BY <1>1, BarrierInvariant, PTL

(***************************************************************************)
(* No node goes through a calibration barrier before every node has sent   *)
(* its READY for it, for every number of nodes and at any speed of theirs. *)
(***************************************************************************)
THEOREM CalibrationBarrierSafety == Spec => []BarrierSafety
<1>1. CBP!BarrierInv => BarrierSafety
  BY DEF CBP!BarrierInv, CBP!InStep, BarrierSafety, CBP!Nodes, Nodes
<1>2. QED
  BY <1>1, BarrierInvariant, PTL

(***************************************************************************)
(* The cells that the readings go by.                                      *)
(***************************************************************************)

\* The readings of the turn of a LED are less the cell as it is now.
LessNow ==
    \A n \in Nodes : nodesList[n] \in Slots =>
      \A r \in 0 .. 1 : r < luxReadNum[n]
        => luxReads[n][r].less = residualArray[n][nodesList[n]]

\* A node that has taken a reading files in the row of the LED of its turn.
LEMMA ReadingInTurn ==
  ASSUME CalibInv, NEW n \in Nodes, luxReadNum[n] > 0
  PROVE  nodeLedOn[n] \in Nodes /\ ~done[n] /\ state[n] # "CalibInit"
  BY DEF CalibInv, TypeOK, CalibrationState, LocalInv, Local

\* A step that changes no reading, no residual and does not raise the count keeps LessNow.
LEMMA LessKept ==
  ASSUME CalibInv, LessNow,
         UNCHANGED <<luxReads, residualArray>>,
         \A n \in Nodes : luxReadNum'[n] \in {0, luxReadNum[n]}
  PROVE  LessNow'
<1> SUFFICES ASSUME NEW n \in Nodes, nodesList[n] \in Slots, NEW r \in 0 .. 1,
                    r < luxReadNum'[n]
             PROVE  luxReads[n][r].less = residualArray[n][nodesList[n]]
  BY DEF LessNow
<1>1. luxReadNum'[n] \in {0, luxReadNum[n]}
  OBVIOUS
<1>2. r < luxReadNum[n]
  BY <1>1
<1>3. QED
  BY <1>2 DEF LessNow

\* runStateWaitTrasient takes one more reading, less the same cell.
LEMMA RunStateWaitTransientLess ==
  ASSUME CalibInv, LessNow, NEW n \in Nodes, RunStateWaitTransient(n)
  PROVE  LessNow'
<1>1. nodeLedOn[n] \in Nodes /\ luxReadNum[n] \in 0 .. 1
  BY DEF RunStateWaitTransient, CalibInv, LocalInv, Local
<1>2. UNCHANGED residualArray
  BY <1>1, SetGainInRow DEF RunStateWaitTransient
<1>3. /\ luxReads' = [luxReads EXCEPT ![n][luxReadNum[n]] =
                                         [lit |-> Lit, less |-> Subtracted(n)]]
      /\ luxReadNum' = [luxReadNum EXCEPT ![n] = @ + 1]
  BY DEF RunStateWaitTransient
<1> SUFFICES ASSUME NEW k \in Nodes, nodesList[k] \in Slots, NEW r \in 0 .. 1,
                    r < luxReadNum'[k]
             PROVE  luxReads'[k][r].less = residualArray[k][nodesList[k]]
  BY <1>2 DEF LessNow
<1>4. CASE k # n
  BY <1>3, <1>4 DEF LessNow, CalibInv, TypeOK
<1>5. CASE k = n /\ r = luxReadNum[n]
  <2>1. luxReads'[n][r] = [lit |-> Lit, less |-> Subtracted(n)]
    BY <1>1, <1>3, <1>5 DEF CalibInv, TypeOK
  <2>2. QED
    BY <1>5, <2>1 DEF Subtracted
<1>6. CASE k = n /\ r # luxReadNum[n]
  <2>1. luxReads'[n][r] = luxReads[n][r] /\ r < luxReadNum[n]
    BY <1>1, <1>3, <1>6 DEF CalibInv, TypeOK
  <2>2. QED
    BY <1>6, <2>1 DEF LessNow
<1>7. QED
  BY <1>4, <1>5, <1>6

\* A READY is filed in another cell, or before the first reading.
LEMMA ReceiveReadyLess ==
  ASSUME CalibInv, LessNow, NEW n \in Nodes, ReceiveReady(n)
  PROVE  LessNow'
<1>1. PICK f \in inbox[n] :
        /\ IF CarriesValue(f.val)
           THEN ReceivedGainOrResidual(n, f.from, f.val)
           ELSE UNCHANGED <<gainMatrix, residualArray>>
        /\ UNCHANGED <<luxReadNum, luxReads>>
  BY DEF ReceiveReady
<1>2. luxReadNum[n] > 0 => UNCHANGED residualArray
  <2>1. luxReadNum[n] > 0 => nodeLedOn[n] \in Nodes /\ nodeLedOn[n] # -1
    BY ReadingInTurn DEF Nodes
  <2>2. QED
    BY <1>1, <2>1, SetGainInRow DEF ReceivedGainOrResidual
<1>3. \A k \in Nodes \ {n} : residualArray'[k] = residualArray[k]
  <2>1. CASE UNCHANGED residualArray
    BY <2>1
  <2>2. CASE \E i : residualArray' = [residualArray EXCEPT ![n][i] = f.val]
    BY <2>2 DEF CalibInv, TypeOK
  <2>3. QED
    BY <1>1, <2>1, <2>2 DEF ReceivedGainOrResidual, SetGain
<1>4. CASE luxReadNum[n] > 0
  BY <1>1, <1>2, <1>4 DEF LessNow
<1>5. CASE ~(luxReadNum[n] > 0)
  <2>1. luxReadNum[n] = 0
    <3>1. luxReadNum[n] \in {0, 1, 2}
      BY DEF CalibInv, TypeOK
    <3>2. QED
      BY <1>5, <3>1
  <2>2. \A r \in 0 .. 1 : ~(r < luxReadNum'[n])
    BY <1>1, <2>1
  <2>3. QED
    BY <1>1, <1>3, <2>2 DEF LessNow
<1>6. QED
  BY <1>4, <1>5

\* runStateInit runs before the first reading of its node.
LEMMA RunStateInitLess ==
  ASSUME CalibInv, LessNow, NEW n \in Nodes, RunStateInit(n)
  PROVE  LessNow'
<1>1. /\ luxReadNum[n] = 0 /\ UNCHANGED <<luxReadNum, luxReads>>
      /\ \A k \in Nodes \ {n} : residualArray'[k] = residualArray[k]
  BY DEF RunStateInit, CalibInv, TypeOK, LocalInv, Local
<1>2. \A r \in 0 .. 1 : ~(r < luxReadNum[n])
  BY <1>1
<1>3. QED
  BY <1>1, <1>2 DEF LessNow

\* Every step keeps the readings of a turn less the same cell.
LEMMA NextLess == CalibInv /\ LessNow /\ [Next]_vars => LessNow'
<1> SUFFICES ASSUME CalibInv, LessNow, [Next]_vars PROVE LessNow'
  OBVIOUS
<1>1. ASSUME NEW n \in Nodes, NodeStep(n) PROVE LessNow'
  <2>1. CASE RunStateInit(n)
    BY <2>1, RunStateInitLess
  <2>2. CASE RunStateWaitTransient(n)
    BY <2>2, RunStateWaitTransientLess
  <2>3. CASE ReceiveReady(n)
    BY <2>3, ReceiveReadyLess
  <2>4. CASE WaitReadyAll(n)
    <3>1. UNCHANGED <<luxReads, residualArray>>
          /\ luxReadNum' = [luxReadNum EXCEPT ![n] = NextRead(n)]
      BY <2>4 DEF WaitReadyAll
    <3>2. NextRead(n) \in {0, luxReadNum[n]}
      BY DEF NextRead
    <3>3. \A k \in Nodes : luxReadNum'[k] \in {0, luxReadNum[k]}
      BY <3>1, <3>2 DEF CalibInv, TypeOK
    <3>4. QED
      BY <3>1, <3>3, LessKept
  <2>5. CASE WaitReadyNotAll(n) \/ RunStateWaitLedOn(n) \/ ReceiveLedOn(n)
    BY <2>5, LessKept DEF WaitReadyNotAll, RunStateWaitLedOn, ReceiveLedOn
  <2>6. QED
    BY <1>1, <2>1, <2>2, <2>3, <2>4, <2>5 DEF NodeStep
<1>2. ASSUME NEW S, SecondPasses(S) PROVE LessNow'
  BY <1>2, LessKept DEF SecondPasses, nodeVars
<1>3. CASE UNCHANGED vars
  BY <1>3, LessKept DEF vars
<1>4. QED
  BY <1>1, <1>2, <1>3 DEF Next

(***************************************************************************)
(* For any ids: on a node whose id is below MAX_NUM_NODES what line 123    *)
(* subtracts from the two readings of a LED is the same and cancels out of *)
(* the gain, although it is not the residual of the node: no residual is   *)
(* filed between the two.                                                  *)
(***************************************************************************)
THEOREM CalibrationResidualCancels == Spec => []ResidualCancels
<1>1. Init => LessNow
  BY DEF Init, LessNow
<1>2. LessNow => ResidualCancels
  BY DEF LessNow, ResidualCancels
<1>3. QED
  BY <1>1, <1>2, InitCalibInv, NextCalibInv, NextLess, PTL DEF Spec

(***************************************************************************)
(* No LED is lit by the calibration while some node has still to read its  *)
(* residual, for every number of nodes.                                    *)
(***************************************************************************)
THEOREM CalibrationResidualInDark == Spec => []ResidualInDark
<1>1. CalibInv /\ BarrierSafety => ResidualInDark
  <2> SUFFICES ASSUME CalibInv, BarrierSafety, NEW m \in Nodes, led[m] # 0, NEW n \in Nodes
               PROVE  state[n] # "CalibInit"
    BY DEF ResidualInDark
  <2> USE NumNodesAssumption
  <2>1. state[m] # "CalibInit" /\ nodeLedOn[m] # -1
    BY DEF CalibInv, LocalInv, Local
  <2>2. Passed(m) >= 1
    <3>1. CASE done[m]
      BY <2>1, <3>1 DEF Passed
    <3>2. CASE ~done[m]
      <4>1. nodeLedOn[m] \in Nat
        BY <2>1 DEF CalibInv, TypeOK
      <4>2. \/ state[m] = "WaitReady" /\ luxReadNum[m] \in {1, 2}
            \/ state[m] # "WaitReady" /\ luxReadNum[m] \in {0, 1}
        BY <2>1, <3>2 DEF CalibInv, TypeOK, CalibrationState, LocalInv, Local
      <4>3. CASE state[m] = "WaitReady" /\ luxReadNum[m] \in {1, 2}
        BY <2>1, <3>2, <4>1, <4>3 DEF Passed
      <4>4. CASE state[m] # "WaitReady" /\ luxReadNum[m] \in {0, 1}
        <5>1. Passed(m) = 2 * nodeLedOn[m] + luxReadNum[m] + 1
          BY <2>1, <3>2, <4>4 DEF Passed
        <5>2. QED
          BY <4>1, <4>4, <5>1
      <4>5. QED
        BY <4>2, <4>3, <4>4
    <3>3. QED
      BY <3>1, <3>2
  <2>3. Passed(m) <= Sent(n) /\ Passed(m) \in Nat
    BY PassedType DEF BarrierSafety
  <2>4. QED
    BY <2>2, <2>3 DEF Sent
<1>2. QED
  BY <1>1, CalibrationBarrierSafety, FullInvariant, PTL DEF FullInv

----------------------------------------------------------------------------
(***************************************************************************)
(* The gains: each is filed where it belongs, whatever the speeds.         *)
(***************************************************************************)

(***************************************************************************)
(* What the barrier says of the READYs on their way, in terms of the FSM.  *)
(***************************************************************************)
Barriers ==
    /\ BarrierSafety
    /\ \A n \in Nodes : Sent(n) \in {Passed(n), Passed(n) + 1}
    /\ \A n \in Nodes : \A f \in inbox[n] : f.type = "READY" =>
         f.from # n /\ Passed(n) <= f.round /\ f.round < Sent(f.from)
    /\ \A n \in Nodes : \A f, g \in inbox[n] :
         /\ f.type = "READY" /\ g.type = "READY"
         /\ f.from = g.from /\ f.round = g.round
         => f = g

\* A READY of node i for round r is on its way to n.
UnderWay(n, i, r) ==
    \E f \in inbox[n] : f.type = "READY" /\ f.from = i /\ f.round = r

\* What a READY carries is what its sender measured before that barrier.
ValueOfRound ==
    \A n \in Nodes : \A f \in inbox[n] : f.type = "READY" =>
      \A j \in Nodes :
        /\ f.round = 2 * j + 1 => f.val = NoValue
        /\ f.round = 2 * j + 2 => f.val = gainMatrix[f.from][f.from][j]

\* A node that went past the second barrier of LED j has computed its gain.
Computed ==
    \A i, j \in Nodes : Sent(i) > 2 * j + 2 =>
      \E neg \in BOOLEAN : gainMatrix[i][i][j] = Gain(i, j, neg)

\* A gain that was sent is on its way, filed, or was negative.
Filed ==
    \A n, i, j \in Nodes :
      /\ Sent(i) > 2 * j + 2
      /\ ~UnderWay(n, i, 2 * j + 2)
      /\ ~gainMatrix[i][i][j].negative
      => gainMatrix[n][i][j] = gainMatrix[i][i][j]

GainInv == ValueOfRound /\ Computed /\ Filed

\* The facts about the barriers, translated.
LEMMA BarriersHold == FullInv /\ CBP!BarrierInv => Barriers
<1> SUFFICES ASSUME FullInv, CBP!BarrierInv PROVE Barriers
  OBVIOUS
<1> DEFINE ready == [k \in Nodes |-> ReadyInbox(k)]
<1>1. CBP!Nodes = Nodes
  BY DEF CBP!Nodes, Nodes
<1>2. BarrierSafety
  BY <1>1 DEF CBP!BarrierInv, CBP!InStep, BarrierSafety
<1>3. \A n \in Nodes : Sent(n) \in {Passed(n), Passed(n) + 1}
  BY <1>1 DEF CBP!BarrierInv, CBP!SentInv
<1>4. ASSUME NEW n \in Nodes, NEW f \in inbox[n], f.type = "READY"
      PROVE  /\ ReadyFrame(f) \in ReadyInbox(n)
             /\ f.from \in Nodes /\ f.round \in Nat
             /\ f.from # n /\ Passed(n) <= f.round /\ f.round < Sent(f.from)
  <2>1. ReadyFrame(f) \in ReadyInbox(n) /\ f.from \in Nodes /\ f.round \in Nat
    BY <1>4 DEF ReadyInbox, FullInv, CalibInv, TypeOK, Frames
  <2>2. ReadyFrame(f).from = f.from /\ ReadyFrame(f).round = f.round
    BY DEF ReadyFrame
  <2>3. \A g \in ReadyInbox(n) : g.from # n /\ Passed(n) <= g.round
                                 /\ g.round < [k \in Nodes |-> Sent(k)][g.from]
    BY <1>1 DEF CBP!BarrierInv, CBP!FrameInv
  <2>4. QED
    BY <2>1, <2>2, <2>3
<1>5. ASSUME NEW n \in Nodes, NEW f \in inbox[n], NEW g \in inbox[n],
             f.type = "READY", g.type = "READY", f.from = g.from, f.round = g.round
      PROVE  f = g
  <2>1. \A a, b \in ReadyInbox(n) : a.from = b.from /\ a.round = b.round => a = b
    BY <1>1 DEF CBP!BarrierInv, CBP!OrderInv
  <2>2. ReadyFrame(f) = ReadyFrame(g)
    BY <2>1, <1>4, <1>5 DEF ReadyFrame
  <2>3. f.seq = g.seq
    BY <2>2 DEF ReadyFrame
  <2>4. QED
    BY <2>3 DEF FullInv, SeqInv
<1>6. QED
  BY <1>2, <1>3, <1>4, <1>5 DEF Barriers

\* A node that is about to file a READY, or its own gain, stays in a row of the matrix.
InRow ==
    \A n \in Nodes :
      state[n] = "WaitTransient" \/ (\E f \in inbox[n] : f.type = "READY")
        => nodeLedOn[n] < MaxNumNodes

\* Until runStateInit nodeLedOn is what an earlier calibration left.
StaleKept == \A n \in Nodes : state[n] = "CalibInit" => nodeLedOn[n] \in StaleLedOn

\* The turn of LED j lies between the barriers 2j and 2j + 2.
LEMMA TurnOfLed ==
  ASSUME FullInv, NEW n \in Nodes, NEW j \in Nodes
  PROVE  Passed(n) \in {2 * j + 1, 2 * j + 2}
           <=> state[n] # "CalibInit" /\ nodeLedOn[n] = j
<1> USE NumNodesAssumption
<1>1. Local(n) /\ state[n] \in CalibrationState /\ nodeLedOn[n] \in -1 .. NumNodes
  BY DEF FullInv, CalibInv, LocalInv, TypeOK
<1>2. j \in 0 .. NumNodes - 1
  BY DEF Nodes
<1>3. CASE state[n] = "CalibInit" \/ nodeLedOn[n] = -1
  BY <1>1, <1>2, <1>3 DEF Passed
<1>4. CASE state[n] # "CalibInit" /\ nodeLedOn[n] # -1 /\ done[n]
  BY <1>1, <1>2, <1>4 DEF Passed, Local
<1>5. CASE state[n] # "CalibInit" /\ nodeLedOn[n] # -1 /\ ~done[n]
  <2>1. nodeLedOn[n] \in 0 .. NumNodes - 1
    BY <1>1, <1>5 DEF Local, Nodes, CalibrationState
  <2>2. Passed(n) \in {2 * nodeLedOn[n] + 1, 2 * nodeLedOn[n] + 2}
    <3>1. CASE state[n] = "WaitReady"
      <4>1. luxReadNum[n] \in {1, 2}
        BY <3>1, <1>1, <1>5 DEF Local
      <4>2. QED
        BY <3>1, <4>1, <2>1, <1>5 DEF Passed
    <3>2. CASE state[n] # "WaitReady"
      <4>1. luxReadNum[n] \in {0, 1}
        BY <3>2, <1>1, <1>5 DEF Local, CalibrationState
      <4>2. QED
        BY <3>2, <4>1, <2>1, <1>5 DEF Passed
    <3>3. QED
      BY <3>1, <3>2
  <2>3. QED
    BY <2>1, <2>2, <1>2, <1>5
<1>6. QED
  BY <1>3, <1>4, <1>5

\* No node is ahead of another by more than one barrier.
LEMMA Spread ==
  ASSUME FullInv, Barriers, NEW n \in Nodes, NEW i \in Nodes
  PROVE  /\ Passed(n) \in Nat /\ Sent(n) \in Nat /\ Sent(n) <= 2 * NumNodes + 1
         /\ Sent(i) <= Passed(n) + 2 /\ Sent(i) <= Sent(n) + 1
<1>1. Passed(n) \in Nat /\ Passed(i) \in Nat
  BY PassedType DEF FullInv
<1>2. /\ Sent(n) \in {Passed(n), Passed(n) + 1}
      /\ Sent(i) \in {Passed(i), Passed(i) + 1}
      /\ Passed(i) <= Sent(n)
  BY DEF Barriers, BarrierSafety
<1>3. Sent(n) <= 2 * NumNodes + 1
  <2> USE NumNodesAssumption
  <2>1. Local(n) /\ state[n] \in CalibrationState /\ nodeLedOn[n] \in -1 .. NumNodes
        /\ luxReadNum[n] \in 0 .. 2
    BY DEF FullInv, CalibInv, LocalInv, TypeOK
  <2>2. CASE state[n] = "CalibInit" \/ nodeLedOn[n] = -1
    BY <2>2, <1>1 DEF Sent, Passed
  <2>3. CASE state[n] # "CalibInit" /\ nodeLedOn[n] # -1 /\ done[n]
    BY <2>3 DEF Sent, Passed
  <2>4. CASE state[n] # "CalibInit" /\ nodeLedOn[n] # -1 /\ ~done[n]
    <3>1. nodeLedOn[n] \in 0 .. NumNodes - 1
      BY <2>1, <2>4 DEF Local, Nodes, CalibrationState
    <3>2. CASE state[n] = "WaitReady"
      BY <3>1, <3>2, <2>1, <2>4 DEF Sent, Passed
    <3>3. CASE state[n] # "WaitReady"
      <4>1. luxReadNum[n] \in {0, 1}
        BY <3>3, <2>1, <2>4 DEF Local, CalibrationState
      <4>2. QED
        BY <3>1, <3>3, <4>1, <2>4 DEF Sent, Passed
    <3>4. QED
      BY <3>2, <3>3
  <2>5. QED
    BY <2>2, <2>3, <2>4
<1>4. QED
  BY <1>1, <1>2, <1>3

\* A step that sends and files nothing keeps every gain where it is.
LEMMA GainsUntouched ==
  ASSUME GainInv,
         gainMatrix' = gainMatrix,
         \A k \in Nodes : Sent(k)' = Sent(k),
         \A k \in Nodes : \A f : f.type = "READY" => (f \in inbox'[k] <=> f \in inbox[k])
  PROVE  GainInv'
<1>1. ValueOfRound'
  BY DEF GainInv, ValueOfRound
<1>2. Computed'
  BY DEF GainInv, Computed
<1>3. \A n, i \in Nodes : \A r : UnderWay(n, i, r)' <=> UnderWay(n, i, r)
  BY DEF UnderWay
<1>4. Filed'
  BY <1>3 DEF GainInv, Filed
<1>5. QED
  BY <1>1, <1>2, <1>4 DEF GainInv

\* A frame on its way stays there when another is broadcast.
LEMMA BroadcastFrames ==
  ASSUME FullInv, NEW n \in Nodes, NEW val, Broadcast(n, "READY", val)
  PROVE  /\ \A k \in Nodes : \A f \in inbox'[k] :
              \/ f \in inbox[k]
              \/ f.type = "READY" /\ f.from = n /\ f.val = val /\ f.round = Passed(n)
         /\ \A k, i \in Nodes : \A r : UnderWay(k, i, r) => UnderWay(k, i, r)'
         /\ \A k \in Nodes \ {n} : \A r : r = Passed(n) => UnderWay(k, n, r)'
<1> DEFINE new == [seq |-> busSeq, from |-> n, type |-> "READY", val |-> val,
                   round |-> Passed(n)]
<1>1. \A k \in Nodes : inbox'[k] = IF k = n THEN inbox[k] ELSE inbox[k] \union {new}
  BY DEF Broadcast
<1>2. new.type = "READY" /\ new.from = n /\ new.val = val /\ new.round = Passed(n)
  OBVIOUS
<1> HIDE DEF new
<1>3. \A k \in Nodes : \A f \in inbox'[k] : f \in inbox[k] \/ f = new
  BY <1>1
<1>4. \A k \in Nodes : inbox[k] \subseteq inbox'[k] /\ (k # n => new \in inbox'[k])
  BY <1>1
<1>5. \A k, i \in Nodes : \A r : UnderWay(k, i, r) => UnderWay(k, i, r)'
  BY <1>4 DEF UnderWay
<1>6. \A k \in Nodes \ {n} : \A r : r = Passed(n) => UnderWay(k, n, r)'
  BY <1>2, <1>4 DEF UnderWay
<1>7. QED
  BY <1>2, <1>3, <1>5, <1>6

\* runStateInit: a residual is no gain, and barrier 0 is before all gains.
LEMMA RunStateInitGains ==
  ASSUME FullInv, Barriers, GainInv, NEW n \in Nodes, RunStateInit(n)
  PROVE  GainInv'
<1>1. CB!Announce(n) /\ CalibInv
  BY RunStateInitAnnounces DEF FullInv
<1>2. /\ \A k \in Nodes \ {n} : Sent(k)' = Sent(k)
      /\ Passed(n) = 0 /\ Sent(n)' = 1 /\ gainMatrix' = gainMatrix
  BY SameNode DEF RunStateInit, FullInv, CalibInv, TypeOK, LocalInv, Local, Passed, Sent
<1>3. Broadcast(n, "READY", Residual(n))
  BY DEF RunStateInit
<1>4. ValueOfRound'
  <2> SUFFICES ASSUME NEW k \in Nodes, NEW f \in inbox'[k], f.type = "READY", NEW j \in Nodes
               PROVE  /\ f.round = 2 * j + 1 => f.val = NoValue
                      /\ f.round = 2 * j + 2 => f.val = gainMatrix[f.from][f.from][j]
    BY <1>2 DEF ValueOfRound
  <2>1. CASE f \in inbox[k]
    BY <2>1 DEF GainInv, ValueOfRound
  <2>2. CASE f.round = 0
    BY <2>2 DEF Nodes
  <2>3. QED
    BY <2>1, <2>2, <1>2, <1>3, BroadcastFrames
<1>5. Computed'
  BY <1>2, NumNodesAssumption DEF GainInv, Computed, Nodes
<1>6. Filed'
  <2> SUFFICES ASSUME NEW k \in Nodes, NEW i \in Nodes, NEW j \in Nodes,
                      Sent(i)' > 2 * j + 2, ~UnderWay(k, i, 2 * j + 2)',
                      ~gainMatrix[i][i][j].negative
               PROVE  gainMatrix[k][i][j] = gainMatrix[i][i][j]
    BY <1>2 DEF Filed
  <2>1. i # n
    BY <1>2 DEF Nodes
  <2>2. Sent(i) > 2 * j + 2
    BY <1>2, <2>1
  <2>3. ~UnderWay(k, i, 2 * j + 2)
    BY <1>3, BroadcastFrames
  <2>4. QED
    BY <2>2, <2>3 DEF GainInv, Filed
<1>7. QED
  BY <1>4, <1>5, <1>6 DEF GainInv

\* runStateWaitReady files nothing and puts no READY on the bus.
LEMMA WaitReadyAllGains ==
  ASSUME FullInv, Barriers, GainInv, NEW n \in Nodes, WaitReadyAll(n)
  PROVE  GainInv'
<1>1. \A k \in Nodes : Sent(k)' = Sent(k)
  <2>1. [k \in Nodes |-> Sent(k)]' = [k \in Nodes |-> Sent(k)]
    BY WaitReadyAllGoesThrough DEF FullInv, CB!GoThrough
  <2>2. QED
    BY <2>1
<1>2. \A k \in Nodes : \A f : f.type = "READY" => (f \in inbox'[k] <=> f \in inbox[k])
  BY DEF WaitReadyAll, Broadcast
<1>3. gainMatrix' = gainMatrix
  BY DEF WaitReadyAll
<1>4. QED
  BY <1>1, <1>2, <1>3, GainsUntouched

\* The readings: the first sends nothing, the second sends the gain it files.
LEMMA RunStateWaitTransientGains ==
  ASSUME FullInv, Barriers, GainInv, NEW n \in Nodes, RunStateWaitTransient(n)
  PROVE  GainInv'
<1> DEFINE l == nodeLedOn[n]
<1> USE NumNodesAssumption
<1>1. /\ l \in Nodes /\ luxReadNum[n] \in {0, 1} /\ ~done[n] /\ state[n] = "WaitTransient"
      /\ nodeLedOn'[n] = l /\ luxReadNum'[n] = luxReadNum[n] + 1
      /\ ~done'[n] /\ state'[n] = "WaitReady"
  BY DEF RunStateWaitTransient, FullInv, CalibInv, TypeOK, LocalInv, Local
<1>2. \A k \in Nodes \ {n} : Passed(k)' = Passed(k) /\ Sent(k)' = Sent(k)
  BY SameNode DEF RunStateWaitTransient, FullInv, CalibInv, TypeOK
<1> HIDE DEF l
<1>3. l \in 0 .. NumNodes - 1 /\ l # -1 /\ l = nodeLedOn[n]
  BY <1>1 DEF Nodes, l
<1>4. /\ Passed(n) = 2 * l + luxReadNum[n] + 1 /\ Sent(n) = Passed(n)
      /\ Sent(n)' = Sent(n) + 1
  BY <1>1, <1>3 DEF Passed, Sent
<1>6. \A i, j \in Nodes : Sent(i)' > 2 * j + 2 /\ ~(i = n /\ j = l) => Sent(i) > 2 * j + 2
  BY <1>1, <1>2, <1>3, <1>4 DEF Nodes
<1>7. \A j \in Nodes : Sent(n) > 2 * j + 2 => j # l
  BY <1>1, <1>3, <1>4
<1>8. CASE luxReadNum[n] = 0
  <2>1. Broadcast(n, "READY", NoValue) /\ gainMatrix' = gainMatrix
    BY <1>8 DEF RunStateWaitTransient
  <2>2. \A i, j \in Nodes : Sent(i)' > 2 * j + 2 => Sent(i) > 2 * j + 2
    BY <1>2, <1>3, <1>4, <1>8 DEF Nodes
  <2>3. ValueOfRound'
    <3> SUFFICES ASSUME NEW k \in Nodes, NEW f \in inbox'[k], f.type = "READY", NEW j \in Nodes
                 PROVE  /\ f.round = 2 * j + 1 => f.val = NoValue
                        /\ f.round = 2 * j + 2 => f.val = gainMatrix[f.from][f.from][j]
      BY <2>1 DEF ValueOfRound
    <3>1. CASE f \in inbox[k]
      BY <3>1 DEF GainInv, ValueOfRound
    <3>2. CASE f.val = NoValue /\ f.round = 2 * l + 1
      BY <3>2, <1>3 DEF Nodes
    <3>3. QED
      BY <3>1, <3>2, <2>1, <1>4, <1>8, <1>3, BroadcastFrames
  <2>4. Computed'
    BY <2>1, <2>2 DEF GainInv, Computed
  <2>5. Filed'
    <3>1. \A k, i \in Nodes : \A r : UnderWay(k, i, r) => UnderWay(k, i, r)'
      BY <2>1, BroadcastFrames
    <3>2. QED
      BY <3>1, <2>1, <2>2 DEF GainInv, Filed
  <2>6. QED
    BY <2>3, <2>4, <2>5 DEF GainInv
<1>9. ASSUME luxReadNum[n] = 1, NEW neg \in NegativeGains,
             SetGain(n, n, nodeLedOn[n], Gain(n, nodeLedOn[n], neg)),
             Broadcast(n, "READY", Gain(n, nodeLedOn[n], neg))
      PROVE  GainInv'
  <2>0. gainMatrix' = [gainMatrix EXCEPT ![n][n][l] = Gain(n, l, neg)]
    <3>1. l \in Nodes /\ SetGain(n, n, l, Gain(n, l, neg))
      BY <1>1, <1>3, <1>9
    <3>2. l < MaxNumNodes /\ l # MaxNumNodes
      BY <3>1, SlotTypes DEF Nodes
    <3>3. QED
      BY <3>1, <3>2 DEF SetGain
  <2>1. /\ gainMatrix'[n][n][l] = Gain(n, l, neg) /\ neg \in BOOLEAN
        /\ \A k, i, j \in Nodes : ~(k = n /\ i = n /\ j = l)
              => gainMatrix'[k][i][j] = gainMatrix[k][i][j]
    BY <2>0, <1>1, NegativeGainsAssumption, SlotTypes DEF FullInv, CalibInv, TypeOK
  <2>2. ValueOfRound'
    <3> SUFFICES ASSUME NEW k \in Nodes, NEW f \in inbox'[k], f.type = "READY", NEW j \in Nodes
                 PROVE  /\ f.round = 2 * j + 1 => f.val = NoValue
                        /\ f.round = 2 * j + 2 => f.val = gainMatrix'[f.from][f.from][j]
      BY DEF ValueOfRound
    <3>1. CASE f \in inbox[k]
      <4>1. f.from \in Nodes /\ f.round < Sent(f.from)
        BY <3>1 DEF Barriers, FullInv, CalibInv, TypeOK, Frames
      <4>2. f.round = 2 * j + 2 => ~(f.from = n /\ j = l)
        BY <4>1, <1>3, <1>4, <1>9
      <4>3. /\ f.round = 2 * j + 1 => f.val = NoValue
            /\ f.round = 2 * j + 2 => f.val = gainMatrix[f.from][f.from][j]
        BY <3>1 DEF GainInv, ValueOfRound
      <4>4. QED
        BY <4>1, <4>2, <4>3, <2>1
    <3>2. CASE f.from = n /\ f.val = Gain(n, l, neg) /\ f.round = 2 * l + 2
      <4>1. j \in Int /\ l \in Int
        BY <1>3 DEF Nodes
      <4>2. f.round # 2 * j + 1 /\ (f.round = 2 * j + 2 => j = l)
        BY <3>2, <4>1
      <4>3. QED
        BY <3>2, <4>2, <2>1
    <3>3. QED
      BY <3>1, <3>2, <1>3, <1>4, <1>9, BroadcastFrames
  <2>3. Computed'
    <3> SUFFICES ASSUME NEW i \in Nodes, NEW j \in Nodes, Sent(i)' > 2 * j + 2
                 PROVE  \E b \in BOOLEAN : gainMatrix'[i][i][j] = Gain(i, j, b)
      BY DEF Computed
    <3>1. CASE i = n /\ j = l
      BY <3>1, <2>1
    <3>2. CASE ~(i = n /\ j = l)
      BY <3>2, <2>1, <1>6 DEF GainInv, Computed
    <3>3. QED
      BY <3>1, <3>2
  <2>4. Filed'
    <3> SUFFICES ASSUME NEW k \in Nodes, NEW i \in Nodes, NEW j \in Nodes,
                        Sent(i)' > 2 * j + 2, ~UnderWay(k, i, 2 * j + 2)',
                        ~gainMatrix'[i][i][j].negative
                 PROVE  gainMatrix'[k][i][j] = gainMatrix'[i][i][j]
      BY DEF Filed
    <3>1. CASE k = i
      BY <3>1
    <3>2. CASE k # i /\ i = n /\ j = l
      <4>1. \A r : r = Passed(n) => UnderWay(k, n, r)'
        BY <3>2, <1>9, BroadcastFrames
      <4>2. 2 * j + 2 = Passed(n)
        BY <3>2, <1>3, <1>4, <1>9
      <4>3. QED
        BY <3>2, <4>1, <4>2
    <3>3. CASE k # i /\ ~(i = n /\ j = l)
      <4>1. Sent(i) > 2 * j + 2
        BY <3>3, <1>6
      <4>2. ~UnderWay(k, i, 2 * j + 2)
        BY <1>9, BroadcastFrames
      <4>3. gainMatrix'[k][i][j] = gainMatrix[k][i][j] /\ gainMatrix'[i][i][j] = gainMatrix[i][i][j]
        BY <3>3, <2>1
      <4>4. QED
        BY <4>1, <4>2, <4>3 DEF GainInv, Filed
    <3>4. QED
      BY <3>1, <3>2, <3>3
  <2>5. QED
    BY <2>2, <2>3, <2>4 DEF GainInv
<1>10. QED
  BY <1>1, <1>8, <1>9 DEF RunStateWaitTransient

(***************************************************************************)
(* A READY is filed in the turn it is counted in.  What it carries belongs *)
(* there: a node counts, in the turn of LED j, READYs of the two barriers  *)
(* of that turn or of the first barrier after it, and of these only the    *)
(* second carries a value, the gain for j.                                 *)
(***************************************************************************)
LEMMA ReceiveReadyGains ==
  ASSUME FullInv, Barriers, GainInv, NEW n \in Nodes, ReceiveReady(n)
  PROVE  GainInv'
<1> USE NumNodesAssumption
<1>1. PICK f \in inbox[n] :
        /\ f.type = "READY"
        /\ inbox' = [inbox EXCEPT ![n] = @ \ {f}]
        /\ IF CarriesValue(f.val)
           THEN ReceivedGainOrResidual(n, f.from, f.val)
           ELSE UNCHANGED <<gainMatrix, residualArray>>
        /\ UNCHANGED <<state, done, nodeLedOn, luxReadNum>>
  BY DEF ReceiveReady
<1>2. /\ f.from \in Nodes \ {n} /\ f.round \in Nat /\ f.val \in Values
      /\ Passed(n) <= f.round /\ f.round < Sent(f.from)
  BY <1>1 DEF Barriers, FullInv, CalibInv, TypeOK, Frames
<1>3. \A k \in Nodes : Sent(k)' = Sent(k)
  BY <1>1, SameNode
<1>4. /\ inbox'[n] = inbox[n] \ {f}
      /\ \A k \in Nodes \ {n} : inbox'[k] = inbox[k]
  BY <1>1 DEF FullInv, CalibInv, TypeOK
\* All READYs of the last barrier were handled before it opened.
<1>13. ~done[n]
  <2>1. Sent(f.from) <= 2 * NumNodes + 1 /\ Sent(f.from) \in Nat
    BY <1>2, Spread
  <2>2. done[n] => Passed(n) = 2 * NumNodes + 1
    BY DEF FullInv, CalibInv, LocalInv, Local, Passed
  <2>3. QED
    BY <2>1, <2>2, <1>2
\* Only a node that has yet to run runStateInit points past a row.
<1>14. state[n] # "CalibInit" /\ nodeLedOn[n] # -1 => nodeLedOn[n] \in Nodes
  BY <1>13 DEF FullInv, CalibInv, TypeOK, LocalInv, Local, CalibrationState
<1>15. state[n] = "CalibInit" => Sent(n) = 0
  BY DEF Sent
\* The cell that is written, and only if the frame carries a value.
<1>6. CarriesValue(f.val) /\ nodeLedOn[n] # -1 /\ state[n] # "CalibInit"
        => gainMatrix' = [gainMatrix EXCEPT ![n][f.from][nodeLedOn[n]] = f.val]
  BY <1>1, <1>14, SetGainInRow DEF ReceivedGainOrResidual
<1>16. \/ gainMatrix' = gainMatrix
       \/ \E row, column \in Slots : gainMatrix' = [gainMatrix EXCEPT ![n][row][column] = f.val]
  <2>1. CASE nodeLedOn[n] = -1 \/ ~CarriesValue(f.val)
    BY <2>1, <1>1 DEF ReceivedGainOrResidual
  <2>2. CASE nodeLedOn[n] # -1 /\ CarriesValue(f.val)
    <3>1. nodeLedOn[n] \in 0 .. NumNodes
      BY <2>2 DEF FullInv, CalibInv, TypeOK
    <3>2. SetGain(n, f.from, nodeLedOn[n], f.val)
      BY <2>2, <1>1 DEF ReceivedGainOrResidual
    <3>3. f.from \in Slots /\ 0 \in Slots
          /\ (nodeLedOn[n] < MaxNumNodes => nodeLedOn[n] \in Slots)
          /\ (f.from + 1 < MaxNumNodes => f.from + 1 \in Slots)
      BY <1>2, <3>1, SlotTypes DEF Nodes, Slots
    <3>4. QED
      BY <3>2, <3>3 DEF SetGain
  <2>3. QED
    BY <2>1, <2>2
<1>17. \A k \in Nodes \ {n} : gainMatrix'[k] = gainMatrix[k]
  BY <1>16 DEF FullInv, CalibInv, TypeOK
<1>5. \A k, i, j \in Nodes : k # n \/ state[n] # "CalibInit" =>
        \/ gainMatrix'[k][i][j] = gainMatrix[k][i][j]
        \/ /\ k = n /\ i = f.from /\ nodeLedOn[n] = j /\ CarriesValue(f.val)
  <2>1. CASE state[n] = "CalibInit"
    BY <2>1, <1>17
  <2>2. CASE nodeLedOn[n] = -1 \/ ~CarriesValue(f.val)
    <3>1. gainMatrix' = gainMatrix
      BY <2>2, <1>1 DEF ReceivedGainOrResidual
    <3>2. QED
      BY <3>1
  <2>3. CASE state[n] # "CalibInit" /\ nodeLedOn[n] # -1 /\ CarriesValue(f.val)
    <3>1. f.from \in Slots /\ nodeLedOn[n] \in Slots /\ Nodes \subseteq Slots
      BY <2>3, <1>2, <1>14, SlotTypes
    <3>2. QED
      BY <2>3, <3>1, <1>6 DEF FullInv, CalibInv, TypeOK
  <2>4. QED
    BY <2>1, <2>2, <2>3
<1>7. \A i, j \in Nodes : i # n \/ state[n] # "CalibInit" =>
        gainMatrix'[i][i][j] = gainMatrix[i][i][j]
  BY <1>2, <1>5
<1>8. \A i, j \in Nodes : UnderWay(n, i, 2 * j + 2) =>
        UnderWay(n, i, 2 * j + 2)' \/ (f.from = i /\ f.round = 2 * j + 2)
  BY <1>4 DEF UnderWay
<1>9. ValueOfRound'
  <2> SUFFICES ASSUME NEW k \in Nodes, NEW g \in inbox'[k], g.type = "READY", NEW j \in Nodes
               PROVE  /\ g.round = 2 * j + 1 => g.val = NoValue
                      /\ g.round = 2 * j + 2 => g.val = gainMatrix'[g.from][g.from][j]
    BY DEF ValueOfRound
  <2>1. g \in inbox[k] /\ g.from \in Nodes
    <3>1. g \in inbox[k]
      BY <1>4
    <3>2. QED
      BY <3>1 DEF FullInv, CalibInv, TypeOK, Frames
  <2>2. /\ g.round = 2 * j + 1 => g.val = NoValue
        /\ g.round = 2 * j + 2 => g.val = gainMatrix[g.from][g.from][j]
    BY <2>1 DEF GainInv, ValueOfRound
  <2>3. g.from # n \/ state[n] # "CalibInit"
    <3>1. g.round \in Nat /\ g.round < Sent(g.from)
      BY <2>1 DEF Barriers, FullInv, CalibInv, TypeOK, Frames
    <3>2. QED
      BY <3>1, <1>15
  <2>4. QED
    BY <2>1, <2>2, <2>3, <1>7
<1>10. Computed'
  <2> SUFFICES ASSUME NEW i \in Nodes, NEW j \in Nodes, Sent(i) > 2 * j + 2
               PROVE  \E neg \in BOOLEAN : gainMatrix'[i][i][j] = Gain(i, j, neg)
    BY <1>3 DEF Computed
  <2>1. i # n \/ state[n] # "CalibInit"
    BY <1>15 DEF Nodes
  <2>2. QED
    BY <2>1, <1>7 DEF GainInv, Computed
<1>11. Filed'
  <2> SUFFICES ASSUME NEW k \in Nodes, NEW i \in Nodes, NEW j \in Nodes,
                      Sent(i) > 2 * j + 2, ~UnderWay(k, i, 2 * j + 2)',
                      ~gainMatrix'[i][i][j].negative
               PROVE  gainMatrix'[k][i][j] = gainMatrix'[i][i][j]
    BY <1>3 DEF Filed
  <2>0. j \in 0 .. NumNodes - 1
    BY DEF Nodes
  \* A gain was sent: no node is still to run runStateInit.
  <2>5. state[n] # "CalibInit"
    <3>1. Sent(i) \in Nat /\ Sent(i) <= Sent(n) + 1
      BY Spread
    <3>2. QED
      BY <3>1, <2>0, <1>15
  <2>6. gainMatrix'[i][i][j] = gainMatrix[i][i][j] /\ ~gainMatrix[i][i][j].negative
    BY <2>5, <1>7
  <2> SUFFICES gainMatrix'[k][i][j] = gainMatrix[i][i][j]
    BY <2>6
  <2>1. CASE k # n
    <3>1. ~UnderWay(k, i, 2 * j + 2)
      BY <2>1, <1>4 DEF UnderWay
    <3>2. gainMatrix[k][i][j] = gainMatrix[i][i][j]
      BY <3>1, <2>6 DEF GainInv, Filed
    <3>3. QED
      BY <3>2, <2>1, <1>5
  \* The gain was filed before: a frame with a value cannot overwrite it.
  <2>2. CASE k = n /\ ~UnderWay(n, i, 2 * j + 2)
    <3>1. gainMatrix[n][i][j] = gainMatrix[i][i][j]
      BY <2>2, <2>6 DEF GainInv, Filed
    <3>2. ASSUME i = f.from, nodeLedOn[n] = j, CarriesValue(f.val)
          PROVE  FALSE
      <4>1. /\ Passed(n) \in Nat /\ Sent(n) \in Nat
            /\ Sent(i) <= Passed(n) + 2 /\ Sent(i) <= Sent(n) + 1
            /\ Sent(i) \in Nat /\ Sent(i) <= 2 * NumNodes + 1
        BY Spread
      <4>2. state[n] # "CalibInit"
        <5>1. state[n] = "CalibInit" => Sent(n) = 0
          BY DEF Sent
        <5>2. QED
          BY <5>1, <4>1, <2>0
      <4>3. Passed(n) \in {2 * j + 1, 2 * j + 2}
        BY <4>2, <3>2, TurnOfLed
      <4>4. f.round \in {2 * j + 1, 2 * j + 2, 2 * j + 3}
        BY <4>1, <4>3, <3>2, <1>2, <2>0
      <4>5. f.val # NoValue
        BY <3>2 DEF CarriesValue, NoValue
      <4>6. f.round # 2 * j + 1
        BY <4>5, <1>1 DEF GainInv, ValueOfRound
      <4>7. f.round # 2 * j + 2
        BY <3>2, <2>2, <1>1 DEF UnderWay
      <4>8. f.round # 2 * j + 3
        <5>1. CASE j = NumNodes - 1
          BY <5>1, <4>1, <3>2, <1>2, <2>0
        <5>2. CASE j # NumNodes - 1
          <6>1. j + 1 \in Nodes
            BY <5>2, <2>0 DEF Nodes
          <6>2. f.round # 2 * (j + 1) + 1
            BY <6>1, <4>5, <1>1 DEF GainInv, ValueOfRound
          <6>3. QED
            BY <6>2, <2>0
        <5>3. QED
          BY <5>1, <5>2
      <4>9. QED
        BY <4>4, <4>6, <4>7, <4>8
    <3>3. QED
      BY <2>2, <2>5, <3>1, <3>2, <1>5
  \* The frame counted now is the one: it is filed under its own LED.
  <2>3. CASE k = n /\ UnderWay(n, i, 2 * j + 2)
    <3>1. f.from = i /\ f.round = 2 * j + 2
      BY <2>3, <1>8
    <3>2. f.val = gainMatrix[i][i][j]
      BY <3>1, <1>1 DEF GainInv, ValueOfRound
    <3>3. CarriesValue(f.val)
      <4>1. PICK neg \in BOOLEAN : gainMatrix[i][i][j] = Gain(i, j, neg)
        BY DEF GainInv, Computed
      <4>2. QED
        BY <4>1, <3>2, <2>6 DEF Gain, CarriesValue
    <3>4. nodeLedOn[n] = j
      <4>1. /\ Passed(n) \in Nat /\ Sent(i) <= Passed(n) + 2 /\ Sent(i) \in Nat
        BY Spread
      <4>2. Passed(n) \in {2 * j + 1, 2 * j + 2}
        BY <4>1, <3>1, <1>2, <2>0
      <4>3. QED
        BY <4>2, TurnOfLed
    <3>5. gainMatrix' = [gainMatrix EXCEPT ![n][f.from][nodeLedOn[n]] = f.val]
      BY <3>3, <3>4, <2>0, <2>5, <1>6
    <3>6. gainMatrix'[n][i][j] = f.val
      BY <3>1, <3>4, <3>5, SlotTypes DEF FullInv, CalibInv, TypeOK
    <3>7. QED
      BY <2>3, <3>2, <3>6
  <2>4. QED
    BY <2>1, <2>2, <2>3
<1>12. QED
  BY <1>9, <1>10, <1>11 DEF GainInv

\* Only runStateInit leaves its state, and writes -1.
LEMMA NextStaleKept == CalibInv /\ StaleKept /\ [Next]_vars => StaleKept'
<1> SUFFICES ASSUME CalibInv, StaleKept, [Next]_vars, NEW n \in Nodes, state'[n] = "CalibInit"
             PROVE  state[n] = "CalibInit" /\ nodeLedOn'[n] = nodeLedOn[n]
  BY DEF StaleKept
<1>1. ASSUME NEW m \in Nodes, NodeStep(m)
      PROVE  state[n] = "CalibInit" /\ nodeLedOn'[n] = nodeLedOn[n]
  BY <1>1 DEF NodeStep, RunStateInit, WaitReadyNotAll, WaitReadyAll, RunStateWaitLedOn,
              RunStateWaitTransient, ReceiveReady, ReceiveLedOn, CalibInv, TypeOK
<1>2. ASSUME NEW S, SecondPasses(S)
      PROVE  state[n] = "CalibInit" /\ nodeLedOn'[n] = nodeLedOn[n]
  BY <1>2 DEF SecondPasses, nodeVars
<1>3. CASE UNCHANGED vars
  BY <1>3 DEF vars
<1>4. QED
  BY <1>1, <1>2, <1>3 DEF Next

(***************************************************************************)
(* When setGain(i, nodeLedOn) stays inside gainMatrix: with fewer nodes    *)
(* than MAX_NUM_NODES always, and with as many as long as no node starts   *)
(* with the nodeLedOn of a finished calibration.  The last READYs are all  *)
(* handled before a node finishes, so that none is filed with the          *)
(* nodeLedOn = numTotalNodes that it then has.                             *)
(***************************************************************************)
THEOREM CalibrationInRow ==
  ASSUME NumNodes < MaxNumNodes \/ NumNodes \notin StaleLedOn
  PROVE  Spec => []InRow
<1>1. Init => StaleKept
  BY DEF Init, StaleKept
<1>2. FullInv /\ CBP!BarrierInv /\ StaleKept => InRow
  <2> SUFFICES ASSUME FullInv, CBP!BarrierInv, StaleKept, NEW n \in Nodes,
                      state[n] = "WaitTransient" \/ (\E f \in inbox[n] : f.type = "READY")
               PROVE  nodeLedOn[n] < MaxNumNodes
    BY DEF InRow
  <2>1. Barriers /\ nodeLedOn[n] \in -1 .. NumNodes
    BY BarriersHold DEF FullInv, CalibInv, TypeOK
  <2>2. state[n] = "CalibInit" => nodeLedOn[n] \in StaleLedOn
    BY DEF StaleKept
  <2>3. ~done[n]
    <3>1. CASE state[n] = "WaitTransient"
      BY <3>1 DEF FullInv, CalibInv, LocalInv, Local
    <3>2. CASE \E f \in inbox[n] : f.type = "READY"
      <4>1. PICK f \in inbox[n] : f.type = "READY"
        BY <3>2
      <4>2. f.from \in Nodes /\ f.round \in Nat
            /\ Passed(n) <= f.round /\ f.round < Sent(f.from)
        BY <4>1, <2>1 DEF Barriers, FullInv, CalibInv, TypeOK, Frames
      <4>3. Sent(f.from) <= 2 * NumNodes + 1 /\ Sent(f.from) \in Nat
        BY <4>2, <2>1, Spread
      <4>4. done[n] => Passed(n) = 2 * NumNodes + 1
        BY DEF FullInv, CalibInv, LocalInv, Local, Passed
      <4>5. QED
        BY <4>2, <4>3, <4>4, SlotTypes
    <3>3. QED
      BY <3>1, <3>2
  <2>4. state[n] # "CalibInit" => nodeLedOn[n] = -1 \/ nodeLedOn[n] \in Nodes
    BY <2>3 DEF FullInv, CalibInv, TypeOK, LocalInv, Local, CalibrationState
  <2>5. QED
    BY <2>1, <2>2, <2>4, SlotTypes DEF Nodes
<1>3. CalibInv /\ StaleKept /\ [Next]_vars => StaleKept'
  BY NextStaleKept
<1>4. QED
  BY <1>1, <1>2, <1>3, FullInvariant, BarrierInvariant, PTL DEF Spec, FullInv

\* Every step keeps the gains where they belong.
LEMMA NextGainInv ==
  ASSUME FullInv, Barriers, GainInv, [Next]_vars
  PROVE  GainInv'
<1>1. ASSUME UNCHANGED <<state, done, nodeLedOn, luxReadNum, gainMatrix>>,
             \A k \in Nodes : \A f : f.type = "READY" => (f \in inbox'[k] <=> f \in inbox[k])
      PROVE  GainInv'
  BY <1>1, SameNode, GainsUntouched
<1>2. CASE UNCHANGED <<state, done, nodeLedOn, luxReadNum, gainMatrix, inbox>>
  BY <1>1, <1>2
<1>3. ASSUME NEW n \in Nodes, RunStateWaitLedOn(n) PROVE GainInv'
  <2>1. \A k \in Nodes : Sent(k)' = Sent(k)
    <3>1. \A k \in Nodes \ {n} : Sent(k)' = Sent(k)
      BY <1>3, SameNode DEF RunStateWaitLedOn, FullInv, CalibInv, TypeOK
    <3>2. state[n] = "WaitLedOn" /\ state'[n] = "WaitTransient"
      BY <1>3 DEF RunStateWaitLedOn, FullInv, CalibInv, TypeOK
    <3>3. Sent(n)' = Sent(n)
      BY <1>3, <3>2 DEF RunStateWaitLedOn, Passed, Sent
    <3>4. QED
      BY <3>1, <3>3
  <2>2. QED
    BY <2>1, <1>3, GainsUntouched DEF RunStateWaitLedOn
<1>4. ASSUME NEW n \in Nodes, ReceiveLedOn(n) PROVE GainInv'
  <2>1. PICK f \in inbox[n] : f.type = "LED_ON" /\ inbox' = [inbox EXCEPT ![n] = @ \ {f}]
    BY <1>4 DEF ReceiveLedOn
  <2>2. \A k \in Nodes : \A g : g.type = "READY" => (g \in inbox'[k] <=> g \in inbox[k])
    BY <2>1 DEF FullInv, CalibInv, TypeOK
  <2>3. QED
    BY <2>2, <1>4, <1>1 DEF ReceiveLedOn
<1>5. ASSUME NEW n \in Nodes, NodeStep(n) PROVE GainInv'
  <2>1. CASE RunStateInit(n)
    BY <2>1, RunStateInitGains
  <2>2. CASE WaitReadyNotAll(n)
    BY <2>2, <1>2 DEF WaitReadyNotAll
  <2>3. CASE WaitReadyAll(n)
    BY <2>3, WaitReadyAllGains
  <2>4. CASE RunStateWaitTransient(n)
    BY <2>4, RunStateWaitTransientGains
  <2>5. CASE ReceiveReady(n)
    BY <2>5, ReceiveReadyGains
  <2>6. QED
    BY <1>3, <1>4, <1>5, <2>1, <2>2, <2>3, <2>4, <2>5 DEF NodeStep
<1>6. QED
  BY <1>2, <1>5 DEF Next, SecondPasses, nodeVars, vars

(***************************************************************************)
(* Every gain is filed under the node that measured it and the LED it was  *)
(* measured for, on every node, for every number of nodes and at any speed *)
(* of theirs.                                                              *)
(***************************************************************************)
THEOREM CalibrationGainsFiled == Spec => []GainsFiled
<1>1. Init => GainInv
  <2> SUFFICES ASSUME Init PROVE GainInv
    OBVIOUS
  <2>1. \A n \in Nodes : inbox[n] = {} /\ Sent(n) = 0
    BY DEF Init, Sent
  <2>2. QED
    BY <2>1, NumNodesAssumption DEF GainInv, ValueOfRound, Computed, Filed, Nodes
<1>2. FullInv /\ CBP!BarrierInv /\ GainInv /\ [Next]_vars => GainInv'
  BY BarriersHold, NextGainInv
<1>3. FullInv /\ CBP!BarrierInv /\ GainInv => GainsFiled
  <2> SUFFICES ASSUME FullInv, Barriers, GainInv, NEW n \in Nodes, done[n],
                      NEW i \in Nodes, NEW j \in Nodes
               PROVE  /\ gainMatrix[i][i][j].kind = "gain"
                      /\ gainMatrix[i][i][j].by = i /\ gainMatrix[i][i][j].led = j
                      /\ ~gainMatrix[i][i][j].negative
                            => gainMatrix[n][i][j] = gainMatrix[i][i][j]
    BY BarriersHold DEF GainsFiled
  <2>1. j \in 0 .. NumNodes - 1 /\ NumNodes \in Nat
    BY NumNodesAssumption DEF Nodes
  <2>2. Passed(n) = 2 * NumNodes + 1
    BY NumNodesAssumption DEF Passed, FullInv, CalibInv, LocalInv, Local
  <2>3. Sent(i) \in Nat /\ Sent(i) >= 2 * NumNodes + 1
    BY <2>2, Spread DEF Barriers, BarrierSafety
  <2>4. ~UnderWay(n, i, 2 * j + 2)
    BY <2>1, <2>2 DEF UnderWay, Barriers
  <2>5. PICK neg \in BOOLEAN : gainMatrix[i][i][j] = Gain(i, j, neg)
    BY <2>1, <2>3 DEF GainInv, Computed
  <2>6. ~gainMatrix[i][i][j].negative => gainMatrix[n][i][j] = gainMatrix[i][i][j]
    BY <2>1, <2>3, <2>4 DEF GainInv, Filed
  <2>7. QED
    BY <2>5, <2>6 DEF Gain
<1>4. QED
  BY <1>1, <1>2, <1>3, FullInvariant, BarrierInvariant, PTL DEF Spec

----------------------------------------------------------------------------
(***************************************************************************)
(* Timely nodes.  A second passes only when nothing else can be done, so   *)
(* when a reading is due every node has gone through the same barriers;    *)
(* then every READY is counted at the barrier it was sent for, and no      *)
(* counter goes past the number of nodes.                                  *)
(***************************************************************************)
RoundOfReceiver ==
    \A n \in Nodes : \A f \in inbox[n] : f.type = "READY" => f.round = Passed(n)

NoneOver == \A n \in Nodes : numNodesReady[n] <= NumNodes

Together == \A n \in elapsed : \A k \in Nodes : Passed(k) = Passed(n)

Timely == RoundOfReceiver /\ NoneOver /\ Together

\* The one node that lights its LED does so in its turn, at the level of the reading.
LedOfTurn ==
    \A n \in Nodes : led[n] # 0 =>
      /\ nodeLedOn[n] = n /\ ~done[n]
      /\ \/ state[n] = "WaitTransient" /\ led[n] = pwm[luxReadNum[n]]
         \/ state[n] = "WaitReady" /\ led[n] = pwm[luxReadNum[n] - 1]

\* The counter equals the number of nodes when every READY has been counted.
LEMMA CounterMeaning ==
  ASSUME FullInv, CBP!BarrierInv, NoneOver, NEW n \in Nodes
  PROVE  numNodesReady[n] = NumNodes <=>
           \A m \in Nodes : Sent(m) > Passed(n) /\ ~UnderWay(n, m, Passed(n))
<1>1. CBP!Parameters /\ CBP!Nodes = Nodes
  BY NumNodesAssumption DEF CBP!Parameters, CBP!Nodes, Nodes
<1>2. CBP!CountExact(n)
  <2>1. numNodesReady[n] > NumNodes \/ CBP!CountExact(n)
    BY <1>1 DEF CBP!BarrierInv, CBP!CountInv
  <2>2. numNodesReady[n] <= NumNodes /\ numNodesReady[n] \in Nat
    BY DEF NoneOver, FullInv, CalibInv, TypeOK
  <2>3. QED
    BY <2>1, <2>2, NumNodesAssumption
<1>3. numNodesReady[n] = CBP!Cardinality(CBP!Arrived(n))
  BY <1>2 DEF CBP!CountExact
<1>4. \A m \in Nodes : CBP!InFlight(n, m, Passed(n)) <=> UnderWay(n, m, Passed(n))
  <2>1. ASSUME NEW m, NEW r
        PROVE  (\E f \in ReadyInbox(n) : f.from = m /\ f.round = r) <=> UnderWay(n, m, r)
    <3>1. \A g : ReadyFrame(g).from = g.from /\ ReadyFrame(g).round = g.round
      BY DEF ReadyFrame
    <3>2. QED
      BY <3>1 DEF UnderWay, ReadyInbox
  <2>2. QED
    BY <2>1 DEF CBP!InFlight
<1>5. CBP!Arrived(n) = {m \in Nodes : Sent(m) > Passed(n) /\ ~UnderWay(n, m, Passed(n))}
  BY <1>1, <1>4 DEF CBP!Arrived
<1>6. numNodesReady[n] = NumNodes => CBP!Arrived(n) = Nodes
  BY <1>1, <1>3, <1>5, CBP!FullSet
<1>7. CBP!Arrived(n) = Nodes => numNodesReady[n] = NumNodes
  BY <1>1, <1>3, CBP!NodesCount
<1>8. QED
  BY <1>5, <1>6, <1>7

\* A READY that has yet to be counted leaves room for it.
LEMMA RoomToCount ==
  ASSUME FullInv, CBP!BarrierInv, NoneOver, NEW n \in Nodes, NEW m \in Nodes,
         ~(Sent(m) > Passed(n)) \/ UnderWay(n, m, Passed(n)),
         numNodesReady' = [numNodesReady EXCEPT ![n] = @ + 1]
  PROVE  NoneOver'
<1>1. numNodesReady \in [Nodes -> Nat] /\ \A k \in Nodes : numNodesReady[k] <= NumNodes
  BY DEF NoneOver, FullInv, CalibInv, TypeOK
<1>2. numNodesReady[n] # NumNodes
  BY CounterMeaning
<1>3. QED
  BY <1>1, <1>2, NumNodesAssumption DEF NoneOver

\* The FSM after a step: the barriers each has gone through.
LEMMA NodeStepPassed ==
  ASSUME FullInv, NEW n \in Nodes, NodeStep(n)
  PROVE  /\ ~WaitReadyAll(n) => \A k \in Nodes : Passed(k)' = Passed(k)
         /\ WaitReadyAll(n) => /\ Passed(n)' = Passed(n) + 1
                               /\ \A k \in Nodes \ {n} : Passed(k)' = Passed(k)
<1>0. CalibInv
  BY DEF FullInv
<1>1. ASSUME CB!Announce(n) \/ CB!Hear(n) PROVE \A k \in Nodes : Passed(k)' = Passed(k)
  <2>1. [k \in Nodes |-> Passed(k)]' = [k \in Nodes |-> Passed(k)]
    BY <1>1 DEF CB!Announce, CB!Hear
  <2>2. QED
    BY <2>1
<1>2. ASSUME UNCHANGED CB!vars PROVE \A k \in Nodes : Passed(k)' = Passed(k)
  <2>1. [k \in Nodes |-> Passed(k)]' = [k \in Nodes |-> Passed(k)]
    BY <1>2 DEF CB!vars
  <2>2. QED
    BY <2>1
<1>3. ASSUME WaitReadyAll(n)
      PROVE  /\ Passed(n)' = Passed(n) + 1
             /\ \A k \in Nodes \ {n} : Passed(k)' = Passed(k)
  <2> DEFINE passed == [k \in Nodes |-> Passed(k)]
  <2>1. passed' = [passed EXCEPT ![n] = @ + 1]
    BY <1>0, <1>3, WaitReadyAllGoesThrough DEF CB!GoThrough
  <2>2. QED
    BY <2>1
<1>4. ASSUME WaitReadyNotAll(n) PROVE \A k \in Nodes : Passed(k)' = Passed(k)
  BY <1>4, SameNode DEF WaitReadyNotAll
<1>5. QED
  BY <1>0, <1>1, <1>2, <1>3, <1>4, RunStateInitAnnounces, RunStateWaitLedOnStutters,
     RunStateWaitTransientAnnounces, ReceiveReadyHears, ReceiveLedOnStutters DEF NodeStep

\* The READYs in a receive path after a step.
LEMMA NodeStepFrames ==
  ASSUME FullInv, NEW n \in Nodes, NodeStep(n), NEW k \in Nodes, NEW f \in inbox'[k],
         f.type = "READY"
  PROVE  \/ f \in inbox[k]
         \/ k # n /\ f.round = Passed(n) /\ (RunStateInit(n) \/ RunStateWaitTransient(n))
<1>1. ASSUME NEW type, NEW val, Broadcast(n, type, val)
      PROVE  f \in inbox[k] \/ (k # n /\ f.round = Passed(n) /\ type = "READY")
  BY <1>1 DEF Broadcast
<1>2. CASE inbox' = inbox
  BY <1>2
<1>3. ASSUME NEW g, inbox' = [inbox EXCEPT ![n] = @ \ {g}] PROVE f \in inbox[k]
  BY <1>3 DEF FullInv, CalibInv, TypeOK
<1>4. CASE RunStateInit(n)
  BY <1>1, <1>4 DEF RunStateInit
<1>5. CASE WaitReadyAll(n)
  BY <1>1, <1>2, <1>5 DEF WaitReadyAll
<1>6. CASE RunStateWaitTransient(n)
  BY <1>1, <1>6 DEF RunStateWaitTransient
<1>7. CASE ReceiveReady(n) \/ ReceiveLedOn(n)
  BY <1>3, <1>7 DEF ReceiveReady, ReceiveLedOn
<1>8. CASE WaitReadyNotAll(n) \/ RunStateWaitLedOn(n)
  BY <1>2, <1>8 DEF WaitReadyNotAll, RunStateWaitLedOn
<1>9. QED
  BY <1>4, <1>5, <1>6, <1>7, <1>8 DEF NodeStep

\* Every step of a node keeps timely nodes together.
LEMMA NodeStepTimely ==
  ASSUME FullInv, CBP!BarrierInv, Timely, NEW n \in Nodes, NodeStep(n)
  PROVE  Timely'
<1>0. /\ RoundOfReceiver /\ NoneOver /\ Together /\ Barriers
      /\ \A k \in Nodes : Passed(k) \in Nat /\ Sent(k) \in {Passed(k), Passed(k) + 1}
      /\ \A k, m \in Nodes : Passed(k) <= Sent(m)
  BY BarriersHold, PassedType DEF FullInv, Timely, Barriers, BarrierSafety
\* What a node that steps on a full count finds.
<1>1. ASSUME WaitReadyAll(n)
      PROVE  /\ \A f \in inbox[n] : f.type # "READY"
             /\ elapsed = {}
  <2>1. \A m \in Nodes : Sent(m) > Passed(n) /\ ~UnderWay(n, m, Passed(n))
    BY <1>0, <1>1, CounterMeaning DEF WaitReadyAll, AllReady
  <2>2. ASSUME NEW f \in inbox[n], f.type = "READY" PROVE FALSE
    <3>1. f.from \in Nodes
      BY DEF FullInv, CalibInv, TypeOK, Frames
    <3>2. QED
      BY <3>1, <2>1, <2>2, <1>0 DEF UnderWay, RoundOfReceiver
  <2>3. ASSUME NEW k \in elapsed PROVE FALSE
    <3>1. k \in Nodes /\ state[k] = "WaitTransient"
      BY DEF FullInv, CalibInv, TypeOK, LocalInv, Local
    <3>2. Sent(k) = Passed(k)
      BY <3>1 DEF Sent
    <3>3. Passed(n) = Passed(k)
      BY <1>0 DEF Together
    <3>4. QED
      BY <3>1, <3>2, <3>3, <2>1, <1>0
  <2>4. QED
    BY <2>2, <2>3
<1>2. elapsed' \subseteq elapsed
  BY DEF NodeStep, RunStateInit, WaitReadyNotAll, WaitReadyAll, RunStateWaitLedOn,
         RunStateWaitTransient, ReceiveReady, ReceiveLedOn
<1>3. Together'
  <2>1. CASE WaitReadyAll(n)
    BY <2>1, <1>1, <1>2 DEF Together
  <2>2. CASE ~WaitReadyAll(n)
    <3>1. \A k \in Nodes : Passed(k)' = Passed(k)
      BY <2>2, NodeStepPassed
    <3>2. elapsed \subseteq Nodes
      BY DEF FullInv, CalibInv, TypeOK
    <3>3. QED
      BY <3>1, <3>2, <1>0, <1>2 DEF Together
  <2>3. QED
    BY <2>1, <2>2
<1>4. RoundOfReceiver'
  <2> SUFFICES ASSUME NEW k \in Nodes, NEW f \in inbox'[k], f.type = "READY"
               PROVE  f.round = Passed(k)'
    BY DEF RoundOfReceiver
  <2>1. CASE WaitReadyAll(n)
    <3>1. f \in inbox[k]
      BY <2>1 DEF WaitReadyAll, Broadcast
    <3>2. f.round = Passed(k)
      BY <3>1, <1>0 DEF RoundOfReceiver
    <3>3. k # n
      BY <3>1, <2>1, <1>1
    <3>4. QED
      BY <3>2, <3>3, <2>1, NodeStepPassed
  <2>2. CASE ~WaitReadyAll(n) /\ f \in inbox[k]
    BY <2>2, <1>0, NodeStepPassed DEF RoundOfReceiver
  <2>3. CASE RunStateInit(n) /\ f.round = Passed(n)
    <3>1. Sent(n) = 0 /\ Passed(n) = 0
      BY <2>3 DEF RunStateInit, Sent, Passed
    <3>2. Passed(k) = 0
      BY <3>1, <1>0
    <3>3. ~WaitReadyAll(n)
      BY <2>3 DEF RunStateInit, WaitReadyAll
    <3>4. QED
      BY <3>1, <3>2, <3>3, <2>3, NodeStepPassed
  <2>4. CASE RunStateWaitTransient(n) /\ f.round = Passed(n)
    <3>1. Passed(k) = Passed(n)
      BY <2>4, <1>0 DEF RunStateWaitTransient, Together
    <3>2. ~WaitReadyAll(n)
      BY <2>4 DEF RunStateWaitTransient, WaitReadyAll
    <3>3. QED
      BY <3>1, <3>2, <2>4, NodeStepPassed
  <2>5. QED
    BY <2>1, <2>2, <2>3, <2>4, NodeStepFrames
<1>5. NoneOver'
  <2>1. CASE numNodesReady' = numNodesReady
    BY <2>1, <1>0 DEF NoneOver
  <2>2. CASE numNodesReady' = [numNodesReady EXCEPT ![n] = 0]
    BY <2>2, <1>0, NumNodesAssumption DEF NoneOver, FullInv, CalibInv, TypeOK
  <2>3. CASE /\ RunStateInit(n) \/ RunStateWaitTransient(n)
             /\ numNodesReady' = [numNodesReady EXCEPT ![n] = @ + 1]
    <3>1. Sent(n) = Passed(n)
      BY <2>3 DEF RunStateInit, RunStateWaitTransient, Sent, Passed
    <3>2. ~(Sent(n) > Passed(n))
      BY <3>1, <1>0
    <3>3. QED
      BY <3>2, <2>3, <1>0, RoomToCount
  <2>4. CASE ReceiveReady(n) /\ numNodesReady' = [numNodesReady EXCEPT ![n] = @ + 1]
    <3>1. PICK f \in inbox[n] : f.type = "READY"
      BY <2>4 DEF ReceiveReady
    <3>2. f.from \in Nodes
      BY DEF FullInv, CalibInv, TypeOK, Frames
    <3>3. UnderWay(n, f.from, Passed(n))
      BY <3>1, <1>0 DEF RoundOfReceiver, UnderWay
    <3>4. QED
      BY <3>2, <3>3, <2>4, <1>0, RoomToCount
  <2>5. QED
    BY <2>1, <2>2, <2>3, <2>4 DEF NodeStep, RunStateInit, WaitReadyNotAll, WaitReadyAll,
       RunStateWaitLedOn, RunStateWaitTransient, ReceiveReady, ReceiveLedOn
<1>6. QED
  BY <1>3, <1>4, <1>5 DEF Timely

\* When nothing else can be done, no node is a barrier behind one that waits.
LEMMA QuietTimely ==
  ASSUME FullInv, CBP!BarrierInv, Timely, Quiet, SecondPasses(Waiting)
  PROVE  Timely'
<1>0. /\ RoundOfReceiver /\ NoneOver /\ Barriers
      /\ \A k \in Nodes : Passed(k) \in Nat /\ Sent(k) \in {Passed(k), Passed(k) + 1}
      /\ \A k, m \in Nodes : Passed(k) <= Sent(m)
  BY BarriersHold, PassedType DEF FullInv, Timely, Barriers, BarrierSafety
<1>1. UNCHANGED <<state, done, nodeLedOn, luxReadNum, numNodesReady, inbox>>
  BY DEF SecondPasses, nodeVars
<1>2. \A k \in Nodes : Passed(k)' = Passed(k)
  BY <1>1, SameNode
<1>3. elapsed' = Waiting
  BY DEF SecondPasses, Quiet, Waiting, FullInv, CalibInv, TypeOK
<1>4. ASSUME NEW n \in Waiting, NEW k \in Nodes
      PROVE  Passed(k) = Passed(n)
  <2>1. n \in Nodes /\ Sent(n) = Passed(n)
    BY DEF Waiting, Sent
  <2>2. Passed(k) <= Passed(n) /\ Passed(n) <= Sent(k)
    BY <2>1, <1>0
  <2>3. ASSUME Passed(k) # Passed(n) PROVE FALSE
    <3>1. Sent(k) = Passed(k) + 1 /\ Sent(k) = Passed(n)
      BY <2>1, <2>2, <2>3, <1>0
    <3>2. state[k] = "WaitReady" /\ ~done[k]
      BY <3>1, <1>0 DEF Sent
    <3>3. numNodesReady[k] # NumNodes /\ inbox[k] = {}
      BY <3>2 DEF Quiet, AllReady
    <3>4. \A m \in Nodes : Sent(m) > Passed(k) /\ ~UnderWay(k, m, Passed(k))
      BY <3>1, <3>3, <2>1, <1>0 DEF UnderWay
    <3>5. QED
      BY <3>3, <3>4, <1>0, CounterMeaning
  <2>4. QED
    BY <2>3
<1>5. Together'
  BY <1>2, <1>3, <1>4 DEF Together, Waiting
<1>6. RoundOfReceiver' /\ NoneOver'
  BY <1>0, <1>1, <1>2 DEF RoundOfReceiver, NoneOver
<1>7. QED
  BY <1>5, <1>6 DEF Timely

\* The owner of the turn is the only node that may have its LED on.
LEMMA NodeStepLed ==
  ASSUME FullInv, LedOfTurn, NEW n \in Nodes, NodeStep(n)
  PROVE  LedOfTurn'
<1> SUFFICES ASSUME NEW k \in Nodes, led'[k] # 0
             PROVE  /\ nodeLedOn'[k] = k /\ ~done'[k]
                    /\ \/ state'[k] = "WaitTransient" /\ led'[k] = pwm[luxReadNum'[k]]
                       \/ state'[k] = "WaitReady" /\ led'[k] = pwm[luxReadNum'[k] - 1]
  BY DEF LedOfTurn
<1>0. TypeOK /\ Local(n)
  BY DEF FullInv, CalibInv, LocalInv
<1>1. CASE /\ led'[k] = led[k] /\ nodeLedOn'[k] = nodeLedOn[k] /\ done'[k] = done[k]
           /\ state'[k] = state[k] /\ luxReadNum'[k] = luxReadNum[k]
  BY <1>1 DEF LedOfTurn
<1>2. CASE RunStateInit(n)
  BY <1>0, <1>1, <1>2 DEF RunStateInit, TypeOK, Local
<1>3. CASE WaitReadyNotAll(n)
  BY <1>0, <1>1, <1>3 DEF WaitReadyNotAll, TypeOK
<1>4. CASE WaitReadyAll(n)
  <2>1. CASE k # n
    BY <2>1, <1>0, <1>1, <1>4 DEF WaitReadyAll, TypeOK
  <2>2. CASE k = n
    <3>1. led'[n] = LedAfter(n) /\ nodeLedOn'[n] = NextLed(n) /\ luxReadNum'[n] = NextRead(n)
      BY <1>0, <1>4 DEF WaitReadyAll, TypeOK
    <3>2. NextLed(n) = n /\ LedAfter(n) = pwm[NextRead(n)]
      BY <2>2, <3>1 DEF LedAfter
    <3>3. state'[n] = "WaitTransient" /\ ~done'[n]
      BY <3>2, <1>0, <1>4, NumNodesAssumption DEF WaitReadyAll, TypeOK, Nodes
    <3>4. QED
      BY <2>2, <3>1, <3>2, <3>3
  <2>3. QED
    BY <2>1, <2>2
<1>5. CASE RunStateWaitLedOn(n)
  BY <1>0, <1>1, <1>5 DEF RunStateWaitLedOn, TypeOK, LedOfTurn
<1>6. CASE RunStateWaitTransient(n)
  <2>1. CASE k # n
    BY <2>1, <1>0, <1>1, <1>6 DEF RunStateWaitTransient, TypeOK
  <2>2. CASE k = n
    <3>1. /\ led'[n] = led[n] /\ nodeLedOn'[n] = nodeLedOn[n] /\ done'[n] = done[n]
          /\ state[n] = "WaitTransient" /\ state'[n] = "WaitReady"
          /\ luxReadNum'[n] = luxReadNum[n] + 1 /\ luxReadNum[n] \in 0 .. 2
      BY <1>0, <1>6 DEF RunStateWaitTransient, TypeOK
    <3>2. led[n] = pwm[luxReadNum[n]] /\ nodeLedOn[n] = n /\ ~done[n]
      BY <2>2, <3>1 DEF LedOfTurn
    <3>3. luxReadNum'[n] - 1 = luxReadNum[n]
      BY <3>1
    <3>4. QED
      BY <2>2, <3>1, <3>2, <3>3
  <2>3. QED
    BY <2>1, <2>2
<1>7. CASE ReceiveReady(n) \/ ReceiveLedOn(n)
  BY <1>1, <1>7 DEF ReceiveReady, ReceiveLedOn
<1>8. QED
  BY <1>2, <1>3, <1>4, <1>5, <1>6, <1>7 DEF NodeStep

\* At the time of a reading the LEDs that are lit are those of the turn.
LEMMA LitInTurn ==
  ASSUME FullInv, Timely, LedOfTurn, NEW n \in elapsed
  PROVE  Lit \subseteq {<<nodeLedOn[n], pwm[luxReadNum[n]]>>}
<1> SUFFICES ASSUME NEW m \in Nodes, led[m] # 0
             PROVE  m = nodeLedOn[n] /\ led[m] = pwm[luxReadNum[n]]
  BY DEF Lit
<1>1. n \in Nodes /\ state[n] = "WaitTransient"
  BY DEF FullInv, CalibInv, TypeOK, LocalInv, Local
<1>2. nodeLedOn[n] \in Nodes /\ luxReadNum[n] \in {0, 1} /\ ~done[n]
  BY <1>1 DEF FullInv, CalibInv, LocalInv, Local
<1>3. Passed(m) = Passed(n)
  BY DEF Timely, Together
<1>4. nodeLedOn[m] = m /\ ~done[m] /\ state[m] \in {"WaitTransient", "WaitReady"}
  BY DEF LedOfTurn
<1>5. Passed(n) \in {2 * nodeLedOn[n] + 1, 2 * nodeLedOn[n] + 2}
  BY <1>1, <1>2, TurnOfLed
<1>6. m = nodeLedOn[n]
  BY <1>2, <1>3, <1>4, <1>5, TurnOfLed
<1>7. m # -1 /\ m \in Int
  BY NumNodesAssumption DEF Nodes
<1>8. Passed(n) = 2 * m + luxReadNum[n] + 1
  BY <1>1, <1>2, <1>6, <1>7 DEF Passed
<1>9. CASE state[m] = "WaitTransient" /\ led[m] = pwm[luxReadNum[m]]
  <2>1. Passed(m) = 2 * m + luxReadNum[m] + 1
    BY <1>4, <1>7, <1>9 DEF Passed
  <2>2. luxReadNum[m] \in 0 .. 2
    BY DEF FullInv, CalibInv, TypeOK
  <2>3. luxReadNum[m] = luxReadNum[n]
    BY <2>1, <2>2, <1>2, <1>3, <1>7, <1>8
  <2>4. QED
    BY <2>3, <1>6, <1>9
<1>10. CASE state[m] = "WaitReady" /\ led[m] = pwm[luxReadNum[m] - 1]
  <2>1. Passed(m) = 2 * m + luxReadNum[m]
    <3>1. luxReadNum[m] \in 0 .. 2
      BY DEF FullInv, CalibInv, TypeOK
    <3>2. QED
      BY <3>1, <1>4, <1>7, <1>10 DEF Passed
  <2>2. luxReadNum[m] \in 0 .. 2
    BY DEF FullInv, CalibInv, TypeOK
  <2>3. luxReadNum[m] - 1 = luxReadNum[n]
    BY <2>1, <2>2, <1>2, <1>3, <1>7, <1>8
  <2>4. QED
    BY <2>3, <1>6, <1>10
<1>11. QED
  BY <1>9, <1>10 DEF LedOfTurn

\* A reading sees the LED of its turn; the readings go with the turn.
LEMMA NodeStepLight ==
  ASSUME FullInv, Timely, LedOfTurn, NoForeignLight, NEW n \in Nodes, NodeStep(n)
  PROVE  NoForeignLight'
<1> SUFFICES ASSUME NEW k \in Nodes, NEW r \in 0 .. 1, r < luxReadNum'[k], ~done'[k]
             PROVE  luxReads'[k][r].lit \subseteq {<<nodeLedOn'[k], pwm[r]>>}
  BY DEF NoForeignLight, ForeignLight
<1>0. /\ TypeOK /\ Local(n)
      /\ r < luxReadNum[k] /\ ~done[k] => luxReads[k][r].lit \subseteq {<<nodeLedOn[k], pwm[r]>>}
  BY DEF FullInv, CalibInv, LocalInv, NoForeignLight, ForeignLight
<1>1. CASE /\ luxReads'[k] = luxReads[k] /\ nodeLedOn'[k] = nodeLedOn[k]
           /\ luxReadNum'[k] = luxReadNum[k] /\ done'[k] = done[k]
  BY <1>0, <1>1
<1>2. CASE RunStateInit(n)
  BY <1>0, <1>1, <1>2 DEF RunStateInit, TypeOK, Local
<1>3. CASE WaitReadyAll(n)
  <2>1. CASE k # n
    BY <2>1, <1>0, <1>1, <1>3 DEF WaitReadyAll, TypeOK
  <2>2. CASE k = n
    <3>1. /\ nodeLedOn'[n] = NextLed(n) /\ luxReadNum'[n] = NextRead(n)
          /\ luxReads' = luxReads /\ ~done[n]
      BY <1>0, <1>3 DEF WaitReadyAll, TypeOK
    <3>2. ~TurnOver(n)
      BY <2>2, <3>1 DEF NextRead
    <3>3. nodeLedOn'[n] = nodeLedOn[n] /\ luxReadNum'[n] = luxReadNum[n]
      BY <3>1, <3>2 DEF NextLed, NextRead
    <3>4. QED
      BY <2>2, <3>1, <3>3, <1>0
  <2>3. QED
    BY <2>1, <2>2
<1>4. CASE RunStateWaitTransient(n)
  <2>1. CASE k # n
    BY <2>1, <1>0, <1>1, <1>4 DEF RunStateWaitTransient, TypeOK
  <2>2. CASE k = n
    <3>1. /\ luxReadNum'[n] = luxReadNum[n] + 1 /\ nodeLedOn' = nodeLedOn /\ done' = done
          /\ luxReadNum[n] \in 0 .. 1 /\ n \in elapsed
      BY <1>0, <1>4 DEF RunStateWaitTransient, TypeOK, Local
    <3>2. luxReads'[n][r].lit = IF r = luxReadNum[n] THEN Lit ELSE luxReads[n][r].lit
      <4>1. luxReads'[n] = [luxReads[n] EXCEPT ![luxReadNum[n]] =
                                [lit |-> Lit, less |-> Subtracted(n)]]
        BY <1>0, <1>4 DEF RunStateWaitTransient, TypeOK
      <4>2. luxReads[n] \in [0 .. 1 -> Readings]
        BY <1>0 DEF TypeOK
      <4>3. QED
        BY <3>1, <4>1, <4>2
    <3>3. CASE r = luxReadNum[n]
      BY <2>2, <3>1, <3>2, <3>3, LitInTurn
    <3>4. CASE r # luxReadNum[n]
      <4>1. r < luxReadNum[n] /\ ~done[n]
        BY <2>2, <3>1, <3>4
      <4>2. QED
        BY <2>2, <3>1, <3>2, <3>4, <4>1, <1>0
    <3>5. QED
      BY <3>3, <3>4
  <2>3. QED
    BY <2>1, <2>2
<1>5. QED
  BY <1>1, <1>2, <1>3, <1>4 DEF NodeStep, WaitReadyNotAll, RunStateWaitLedOn, ReceiveReady,
     ReceiveLedOn

TimelyInv ==
    FullInv /\ CBP!BarrierInv /\ Timely /\ LedOfTurn /\ NoForeignLight

\* The passing of seconds is no step of the barriers and moves no frame.
LEMMA SecondsKeep ==
  ASSUME FullInv, CBP!BarrierInv, LedOfTurn, NoForeignLight, NEW S, SecondPasses(S)
  PROVE  FullInv' /\ CBP!BarrierInv' /\ LedOfTurn' /\ NoForeignLight'
<1>1. UNCHANGED <<nodeVars, inbox, busSeq>>
  BY DEF SecondPasses
<1>2. FullInv'
  BY <1>1, SecondPassesInv DEF FullInv, SeqInv
<1>3. CBP!BarrierInv'
  <2>1. UNCHANGED CB!vars
    BY <1>1, OtherSteps DEF nodeVars, ReadyInbox
  <2>2. UNCHANGED CBP!vars
    BY <2>1 DEF CB!vars, CBP!vars
  <2>3. CBP!Parameters
    BY NumNodesAssumption DEF CBP!Parameters
  <2>4. QED
    BY <2>2, <2>3, CBP!NextBarrierInv
<1>4. LedOfTurn' /\ NoForeignLight'
  BY <1>1 DEF nodeVars, LedOfTurn, NoForeignLight, ForeignLight
<1>5. QED
  BY <1>2, <1>3, <1>4

\* Timely nodes stay timely.
LEMMA TimelyInvariant == TimelySpec => []TimelyInv
<1>1. Init => TimelyInv
  <2> SUFFICES ASSUME Init PROVE TimelyInv
    OBVIOUS
  <2>1. FullInv
    BY InitCalibInv DEF Init, FullInv, SeqInv
  <2>2. CBP!BarrierInv
    BY InitBarriers
  <2>3. Timely /\ LedOfTurn /\ NoForeignLight
    BY NumNodesAssumption
    DEF Init, Timely, RoundOfReceiver, NoneOver, Together, LedOfTurn, NoForeignLight
  <2>4. QED
    BY <2>1, <2>2, <2>3 DEF TimelyInv
<1>2. TimelyInv /\ [TimelyNext]_vars => TimelyInv'
  <2> SUFFICES ASSUME TimelyInv, [TimelyNext]_vars PROVE TimelyInv'
    OBVIOUS
  <2>0. FullInv /\ CBP!BarrierInv /\ Timely /\ LedOfTurn /\ NoForeignLight
    BY DEF TimelyInv
  <2>1. ASSUME NEW n \in Nodes, NodeStep(n) PROVE TimelyInv'
    <3>1. [Next]_vars
      BY <2>1 DEF Next
    <3>2. FullInv'
      BY <2>0, <3>1, NextCalibInv, NextSeqInv DEF FullInv
    <3>3. CBP!BarrierInv'
      BY <2>0, <3>1, NextBarriers
    <3>4. Timely' /\ LedOfTurn' /\ NoForeignLight'
      BY <2>0, <2>1, NodeStepTimely, NodeStepLed, NodeStepLight
    <3>5. QED
      BY <3>2, <3>3, <3>4 DEF TimelyInv
  <2>2. CASE Quiet /\ SecondPasses(Waiting)
    BY <2>0, <2>2, QuietTimely, SecondsKeep DEF TimelyInv
  <2>3. CASE UNCHANGED vars
    <3>1. [Next]_vars
      BY <2>3
    <3>2. FullInv' /\ CBP!BarrierInv'
      BY <2>0, <3>1, NextCalibInv, NextSeqInv, NextBarriers DEF FullInv
    <3>3. \A k \in Nodes : Passed(k)' = Passed(k)
      BY <2>3, SameNode DEF vars
    <3>4. Timely'
      BY <2>0, <2>3, <3>3 DEF vars, Timely, RoundOfReceiver, NoneOver, Together, FullInv,
         CalibInv, TypeOK
    <3>5. LedOfTurn' /\ NoForeignLight'
      BY <2>0, <2>3 DEF vars, LedOfTurn, NoForeignLight, ForeignLight
    <3>6. QED
      BY <3>2, <3>4, <3>5 DEF TimelyInv
  <2>4. QED
    BY <2>1, <2>2, <2>3 DEF TimelyNext
<1>3. QED
  BY <1>1, <1>2, PTL DEF TimelySpec

(***************************************************************************)
(* With timely nodes every reading is of the one LED whose turn it is, at  *)
(* the level of that reading, for every number of nodes.                   *)
(***************************************************************************)
THEOREM CalibrationNoForeignLight == TimelySpec => []NoForeignLight
<1>1. TimelyInv => NoForeignLight
  BY DEF TimelyInv
<1>2. QED
  BY <1>1, TimelyInvariant, PTL

(***************************************************************************)
(* With timely nodes no counter goes past numTotalNodes, so the test for   *)
(* equality in runStateWaitReady never misses it: the one way the          *)
(* calibration can stop is closed.                                         *)
(***************************************************************************)
THEOREM CalibrationNeverOvercounts == TimelySpec => []NoneOver
<1>1. TimelyInv => NoneOver
  BY DEF TimelyInv, Timely
<1>2. QED
  BY <1>1, TimelyInvariant, PTL
=============================================================================
