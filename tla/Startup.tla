------------------------------ MODULE Startup ------------------------------
(***************************************************************************)
(* How the nodes get to know each other: setup(), the states Init and      *)
(* WakeupWait of MainFSM, registerNewNode, and the reset command, which    *)
(* starts all over.  The calibration that follows counts on every node     *)
(* holding the same sorted list of all the nodes.                          *)
(*                                                                         *)
(* Time is in ticks, Delay of them in the two seconds of a state.  loop()  *)
(* runs hundreds of times in a tick, so no tick passes before every frame  *)
(* is handled and every node that is due has moved.  Frames reach a node   *)
(* in the order of the bus; a node that is off misses them.                *)
(*                                                                         *)
(* A node that comes back registers a second time with all the others, and *)
(* nothing counts the slots of nodesList: the wakeup that finds them all   *)
(* taken is written past the array.                                        *)
(***************************************************************************)
EXTENDS Integers, Sequences, FiniteSets, SequencesExt

CONSTANTS
    MaxNumNodes,    \* MAX_NUM_NODES: the slots of nodesList
    MaxNodeId,      \* MAX_NODE_ID: nodeIndexOnGainMatrix has an entry for each id up to it
    NodeIds,        \* the node ids, from the EEPROMs
    Delay,          \* ticks in the two seconds of Init and of WakeupWait
    MaxSkew,        \* the ticks in which all nodes are turned on
    MaxResets,      \* bound: how many reset commands the PC sends
    MaxPowerCycles  \* bound: how often a node loses power and comes back

ASSUME StartupConstants ==
    /\ MaxNumNodes \in Nat \ {0} /\ MaxNodeId \in Nat
    /\ NodeIds \subseteq 1 .. MaxNodeId /\ NodeIds # {}
    /\ Delay \in Nat /\ MaxSkew \in Nat /\ MaxResets \in Nat /\ MaxPowerCycles \in Nat

VARIABLES
    on,             \* the nodes that have run setup()
    state,          \* MainFSM's state
    elapsed,        \* ticks since lastTransitionTime, at most Delay + 1
    nodesList,      \* the first numTotalNodes entries of nodesList
    nodeIndexOnGainMatrix,
    overflowed,     \* the nodes that have written past nodesList since they were turned on
    inbox,          \* frames on their way to a node
    clock,          \* ticks until all nodes are on, at most MaxSkew
    resets,         \* resets sent so far
    powerCycles,    \* power cycles so far
    raced           \* history: a reset was sent while a frame or a node was due

vars == <<on, state, elapsed, nodesList, nodeIndexOnGainMatrix, overflowed,
          inbox, clock, resets, powerCycles, raced>>

Frames == [type : {"wakeup", "reset"}, sender : NodeIds]

Wakeup(n) == [type |-> "wakeup", sender |-> n]
ResetRequest(n) == [type |-> "reset", sender |-> n]

\* A broadcast reaches every other node that is on.
Broadcast(n, frame, boxes) ==
    [m \in NodeIds |-> IF m \in on \ {n} THEN Append(boxes[m], frame) ELSE boxes[m]]

----------------------------------------------------------------------------
\* Mutant: the new id goes to the end of the list.
AppendedId(list, id) == Append(list, id)

\* registerNewNode: before the first larger id, or into the first free entry.
SortedInsert(list, id) ==
    LET greater == {i \in 1 .. Len(list) : list[i] > id}
        place == IF greater = {} THEN Len(list) + 1
                 ELSE CHOOSE i \in greater : \A j \in greater : i <= j
    IN  InsertAt(list, place, id)

\* The index of every id in the list; the ids that are not keep theirs.
IndexAfter(index, list) ==
    [id \in NodeIds |->
        IF \E i \in 1 .. Len(list) : list[i] = id
        THEN (CHOOSE i \in 1 .. Len(list) :
                list[i] = id /\ \A j \in 1 .. Len(list) : list[j] = id => j <= i) - 1
        ELSE index[id]]

RegisterInSlot(n, id) ==
    /\ Len(nodesList[n]) < MaxNumNodes
    /\ nodesList' = [nodesList EXCEPT ![n] = SortedInsert(@, id)]
    /\ nodeIndexOnGainMatrix' =
         [nodeIndexOnGainMatrix EXCEPT ![n] = IndexAfter(@, nodesList'[n])]
    /\ UNCHANGED overflowed

\* The last id, which may be the node's own, is pushed out of nodesList.  What it
\* overwrites there is undefined from now on, and its index lies outside the gain matrix.
RegisterPastEnd(n, id) ==
    LET pushed == SortedInsert(nodesList[n], id)
    IN  /\ Len(nodesList[n]) >= MaxNumNodes
        /\ nodesList' = [nodesList EXCEPT ![n] = SubSeq(pushed, 1, MaxNumNodes)]
        /\ nodeIndexOnGainMatrix' =
             [nodeIndexOnGainMatrix EXCEPT ![n] = IndexAfter(@, pushed)]
        /\ overflowed' = overflowed \union {n}

RegisterNewNode(n, id) == RegisterInSlot(n, id) \/ RegisterPastEnd(n, id)

\* resetGlob, and setup() for a node that is turned on: only its own id is known.
ResetGlob(n) ==
    /\ nodesList' = [nodesList EXCEPT ![n] = <<n>>]
    /\ nodeIndexOnGainMatrix' =
         [nodeIndexOnGainMatrix EXCEPT ![n] = [id \in NodeIds |-> 0]]

SetState(n, s) ==
    /\ state' = [state EXCEPT ![n] = s]
    /\ elapsed' = [elapsed EXCEPT ![n] = 0]

Init ==
    /\ on = {}
    /\ state = [n \in NodeIds |-> "Init"]
    /\ elapsed = [n \in NodeIds |-> 0]
    /\ nodesList = [n \in NodeIds |-> <<>>]
    /\ nodeIndexOnGainMatrix = [n \in NodeIds |-> [id \in NodeIds |-> 0]]
    /\ overflowed = {}
    /\ inbox = [n \in NodeIds |-> <<>>]
    /\ clock = 0
    /\ resets = 0
    /\ powerCycles = 0
    /\ raced = FALSE

----------------------------------------------------------------------------
\* A node is turned on: setup() registers the node itself.
PowerOn(n) ==
    /\ n \notin on
    /\ on' = on \union {n}
    /\ SetState(n, "Init")
    /\ ResetGlob(n)
    /\ overflowed' = overflowed \ {n}
    /\ inbox' = [inbox EXCEPT ![n] = <<>>]
    /\ UNCHANGED <<clock, resets, powerCycles, raced>>

\* Mutant: the time is tested for equality.
DelayReached(n) == elapsed[n] = Delay

\* timeSinceLastTransition > 2000000.
DelayPassed(n) == elapsed[n] > Delay

RunStateInit(n) ==
    /\ n \in on /\ state[n] = "Init"
    /\ DelayPassed(n)
    /\ inbox' = Broadcast(n, Wakeup(n), inbox)
    /\ SetState(n, "WakeupWait")
    /\ UNCHANGED <<on, nodesList, nodeIndexOnGainMatrix, overflowed, clock, resets,
                   powerCycles, raced>>

RunStateWakeupWait(n) ==
    /\ n \in on /\ state[n] = "WakeupWait"
    /\ DelayPassed(n)
    /\ SetState(n, "Calibrate")
    /\ UNCHANGED <<on, nodesList, nodeIndexOnGainMatrix, overflowed, inbox, clock, resets,
                   powerCycles, raced>>

----------------------------------------------------------------------------
\* Communication::received, CAN_WAKEUP_BROADCAST.
ReceiveWakeup(n) ==
    /\ n \in on /\ inbox[n] # <<>> /\ Head(inbox[n]).type = "wakeup"
    /\ RegisterNewNode(n, Head(inbox[n]).sender)
    /\ inbox' = [inbox EXCEPT ![n] = Tail(@)]
    /\ UNCHANGED <<on, state, elapsed, clock, resets, powerCycles, raced>>

\* executeCommand('r'): lastTransitionTime stays as it is.
ExecuteReset(n) ==
    /\ ResetGlob(n)
    /\ state' = [state EXCEPT ![n] = "Init"]

\* Communication::received, CAN_COMMANDS_REQUEST with a reset.
ReceiveReset(n) ==
    /\ n \in on /\ inbox[n] # <<>> /\ Head(inbox[n]).type = "reset"
    /\ ExecuteReset(n)
    /\ inbox' = [inbox EXCEPT ![n] = Tail(@)]
    /\ UNCHANGED <<on, elapsed, overflowed, clock, resets, powerCycles, raced>>

\* Nothing that takes less than a tick is left to do.
Quiet ==
    \A n \in on : inbox[n] = <<>> /\ (state[n] # "Calibrate" => ~DelayPassed(n))

\* readSerial: the hub executes the reset, then broadcasts it.
ReadSerialReset(hub) ==
    /\ hub \in on /\ resets < MaxResets
    /\ resets' = resets + 1
    /\ ExecuteReset(hub)
    /\ inbox' = Broadcast(hub, ResetRequest(hub), inbox)
    /\ raced' = (raced \/ ~Quiet)
    /\ UNCHANGED <<on, elapsed, overflowed, clock, powerCycles>>

\* A node that is past its start loses power; PowerOn brings it back.
PowerCycle(n) ==
    /\ n \in on /\ state[n] = "Calibrate" /\ powerCycles < MaxPowerCycles
    /\ powerCycles' = powerCycles + 1
    /\ on' = on \ {n}
    /\ UNCHANGED <<state, elapsed, nodesList, nodeIndexOnGainMatrix, overflowed, inbox,
                   clock, resets, raced>>

----------------------------------------------------------------------------
\* Ticks of a counter that is not looked at beyond Delay + 1.
Later(ticks) == IF ticks > Delay THEN ticks ELSE ticks + 1

Tick ==
    /\ Quiet
    /\ clock = MaxSkew => on = NodeIds
    /\ clock' = IF clock = MaxSkew THEN clock ELSE clock + 1
    /\ elapsed' = [n \in NodeIds |-> IF n \in on THEN Later(elapsed[n]) ELSE elapsed[n]]
    /\ UNCHANGED <<on, state, nodesList, nodeIndexOnGainMatrix, overflowed, inbox, resets,
                   powerCycles, raced>>

NodeStep(n) ==
    RunStateInit(n) \/ RunStateWakeupWait(n) \/ ReceiveWakeup(n) \/ ReceiveReset(n)

Next ==
    \/ \E n \in NodeIds : PowerOn(n) \/ NodeStep(n) \/ ReadSerialReset(n) \/ PowerCycle(n)
    \/ Tick

\* Nodes are turned on, their loops run, and time passes.
Spec ==
    /\ Init /\ [][Next]_vars
    /\ WF_vars(Tick)
    /\ \A n \in NodeIds : WF_vars(NodeStep(n)) /\ WF_vars(PowerOn(n))

----------------------------------------------------------------------------
\* The type invariant: lists and frames hold ids of nodes.
TypeOK ==
    /\ on \subseteq NodeIds
    /\ state \in [NodeIds -> {"Init", "WakeupWait", "Calibrate"}]
    /\ elapsed \in [NodeIds -> 0 .. Delay + 1]
    /\ nodesList \in [NodeIds -> Seq(NodeIds)]
    /\ \A n \in NodeIds : Len(nodesList[n]) <= MaxNumNodes
    /\ overflowed \subseteq NodeIds
    /\ nodeIndexOnGainMatrix \in [NodeIds -> [NodeIds -> Nat]]
    /\ inbox \in [NodeIds -> Seq(Frames)]
    /\ clock \in 0 .. MaxSkew
    /\ resets \in 0 .. MaxResets
    /\ powerCycles \in 0 .. MaxPowerCycles
    /\ raced \in BOOLEAN

(***************************************************************************)
(* registerNewNode "keeps it sorted ascending" and "nodeIndexOnGainMatrix  *)
(* pointing to where each node belongs": in every order of wakeups, resets *)
(* and power cycles a node that is on finds itself and every node it knows *)
(* of at its index in a sorted list, unless nodesList has overflowed since *)
(* the node was turned on.  A reset does not repair what was overwritten.  *)
(***************************************************************************)
ListSorted ==
    \A n \in on \ overflowed :
      LET list == nodesList[n]
          known == {list[i] : i \in 1 .. Len(list)}
      IN  /\ \A i, j \in 1 .. Len(list) : i < j => list[i] <= list[j]
          /\ n \in known
          /\ \A id \in known : list[nodeIndexOnGainMatrix[n][id] + 1] = id

\* No reset has crossed a wakeup (it erases the node just registered), no node restarted.
Undisturbed == ~raced /\ powerCycles = 0

(***************************************************************************)
(* A node starts to calibrate only when its list holds every node once, in *)
(* ascending order, with the index of each; so all nodes agree on          *)
(* numTotalNodes, on whose turn it is and on the rows of the gain matrix.  *)
(* It holds after resets too.                                              *)
(***************************************************************************)
RegistryComplete ==
    Undisturbed => \A n \in on : state[n] = "Calibrate" =>
      LET list == nodesList[n]
      IN  /\ {list[i] : i \in 1 .. Len(list)} = NodeIds
          /\ \A i, j \in 1 .. Len(list) : i < j => list[i] < list[j]
          /\ \A i \in 1 .. Len(list) : nodeIndexOnGainMatrix[n][list[i]] = i - 1

(***************************************************************************)
(* Every node gets to the calibration and stays there until it is reset,   *)
(* unless its list has overflowed.                                         *)
(***************************************************************************)
AllCalibrate == <>[](\A n \in NodeIds \ overflowed : state[n] = "Calibrate")
=============================================================================
