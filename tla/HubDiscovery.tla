---------------------------- MODULE HubDiscovery ----------------------------
(***************************************************************************)
(* How the nodes find out which of them has the PC.  Every two seconds a   *)
(* node asks on its serial port whether a PC is there (sendPCDiscovery).   *)
(* The node that gets an answer becomes the hub, tells the others and      *)
(* sends the PC the list of nodes; a hub whose last question was not       *)
(* answered gives up and tells the others (SerialComm, Communication,      *)
(* registerNewNode, and handle_read_serial of the server).                 *)
(*                                                                         *)
(* There is one PC, plugged into one node or none.  The frames go through  *)
(* the transmit buffers of CanTransmit.  Two seconds are long enough for   *)
(* what is on the serial line to be handled, and plugging the PC into      *)
(* another node takes longer than what is on the bus.                      *)
(***************************************************************************)
EXTENDS Integers, Sequences, CanTransmit

CONSTANTS
    NodeIds,        \* ids of the nodes
    MaxEvents       \* bound: how often something happens that is not routine

ASSUME HubConstants == NodeIds \subseteq Nat \ {0} /\ MaxEvents \in Nat

VARIABLES
    hubNode,                \* each node's hubNode, 0 for none
    pcDiscoveryHadResponse, \* of each node
    nodesList,              \* the nodes that each node has registered
    tx,                     \* transmit buffers of each node
    inbox,                  \* frames that have reached a node, oldest first
    pc,                     \* the node that the PC is plugged into, or 0
    nodeIds,                \* the server's list of nodes
    toPC,                   \* messages on the serial line to the PC
    fromPC,                 \* answers to discoveries on their way to the node
    events,                 \* events so far
    disturbed,              \* history: some node may have missed a hub frame
    unnoticed               \* history: the PC may have missed a list

nodeVars == <<hubNode, pcDiscoveryHadResponse, nodesList>>
busVars == <<tx, inbox>>
pcVars == <<pc, nodeIds, toPC, fromPC>>
vars == <<nodeVars, busVars, pcVars, events, disturbed, unnoticed>>

NoNode == 0
Discovery == [type |-> "D"]
ListNodes(ids) == [type |-> "L", ids |-> ids]
IsHubNode(n) == [type |-> "is hub", sender |-> n]
NoLongerIsHubNode(n) == [type |-> "no longer hub", sender |-> n]

\* setup() of a node that has been turned on, and Server::Server.
Init ==
    /\ hubNode = [n \in NodeIds |-> NoNode]
    /\ pcDiscoveryHadResponse = [n \in NodeIds |-> FALSE]
    /\ nodesList = [n \in NodeIds |-> {n}]
    /\ tx = [n \in NodeIds |-> NothingPending]
    /\ inbox = [n \in NodeIds |-> <<>>]
    /\ pc = NoNode /\ nodeIds = {} /\ toPC = <<>> /\ fromPC = 0
    /\ events = 0 /\ disturbed = FALSE /\ unnoticed = FALSE

BusQuiet == \A n \in NodeIds : Pending(tx[n]) = {} /\ inbox[n] = <<>>

SerialQuiet == toPC = <<>> /\ fromPC = 0

\* What node n writes to its serial port reaches the PC if that is where it is.
WriteSerial(n, messages) == toPC' = IF n = pc THEN toPC \o messages ELSE toPC

\* Something that is not routine happens.
Event == events < MaxEvents /\ events' = events + 1

----------------------------------------------------------------------------
(***************************************************************************)
(* A broadcast of node n.  It waits with others if the bus was busy: the   *)
(* chip may swap them, and with three waiting it is dropped.               *)
(***************************************************************************)
Broadcast(n, frame) ==
    /\ tx' = [tx EXCEPT ![n] = SendFrame(@, frame)]
    /\ disturbed' = (disturbed \/ Pending(tx[n]) # {})

\* A hub decides that the PC is gone.
GivesUp(n) == hubNode[n] = n /\ ~pcDiscoveryHadResponse[n]

\* sendPCDiscovery, every two seconds.
SendPCDiscovery(n) ==
    /\ n = pc => SerialQuiet
    /\ IF GivesUp(n)
       THEN /\ hubNode' = [hubNode EXCEPT ![n] = NoNode]
            /\ Broadcast(n, NoLongerIsHubNode(n))
       ELSE UNCHANGED <<hubNode, tx, disturbed>>
    /\ pcDiscoveryHadResponse' = [pcDiscoveryHadResponse EXCEPT ![n] = FALSE]
    /\ WriteSerial(n, <<Discovery>>)
    /\ UNCHANGED <<nodesList, inbox, pc, nodeIds, fromPC, events, unnoticed>>

\* The answer to a discovery, when the node is the hub already.
KeepsHub(n) ==
    /\ hubNode[n] = n
    /\ UNCHANGED <<hubNode, tx, toPC, disturbed, unnoticed>>

\* Mutant: the others are not told.
NotTold(n) == UNCHANGED tx

\* communication.sendBroadcastIsHubNode
TellsOthers(n) == tx' = [tx EXCEPT ![n] = SendFrame(@, IsHubNode(n))]

(***************************************************************************)
(* The answer to a discovery makes n the hub.  If nothing else is on the   *)
(* bus, every node is going to know, whatever it missed before.            *)
(***************************************************************************)
BecomesHub(n) ==
    /\ hubNode[n] # n
    /\ hubNode' = [hubNode EXCEPT ![n] = n]
    /\ TellsOthers(n)
    /\ disturbed' = (~BusQuiet /\ (disturbed \/ Pending(tx[n]) # {}))
    /\ WriteSerial(n, <<ListNodes(nodesList[n])>>)
    /\ unnoticed' = FALSE

\* readSerial, command D.
ReadSerial(n) ==
    /\ n = pc /\ fromPC > 0
    /\ fromPC' = fromPC - 1
    /\ pcDiscoveryHadResponse' = [pcDiscoveryHadResponse EXCEPT ![n] = TRUE]
    /\ KeepsHub(n) \/ BecomesHub(n)
    /\ UNCHANGED <<nodesList, inbox, pc, nodeIds, events>>

----------------------------------------------------------------------------
\* External: a frame of n goes over the bus to every other node.
GoesOverBus(n) ==
    /\ Pending(tx[n]) # {}
    /\ tx' = [tx EXCEPT ![n] = AfterSending(@, NextOnBus(@))]
    /\ inbox' = [m \in NodeIds |-> IF m = n THEN inbox[m]
                                   ELSE Append(inbox[m], tx[n][NextOnBus(tx[n])])]
    /\ UNCHANGED <<nodeVars, pcVars, events, disturbed, unnoticed>>

\* External: node m loses a frame, to an overflow of its buffers.
Overflow(m) ==
    /\ Event
    /\ inbox[m] # <<>>
    /\ inbox' = [inbox EXCEPT ![m] = Tail(@)]
    /\ disturbed' = TRUE
    /\ UNCHANGED <<nodeVars, tx, pcVars, unnoticed>>

\* Mutant: any node's frame clears hubNode.
AnyClearsHub(n, frame) == TRUE

\* Communication::received: only the hub's own frame clears hubNode.
ClearsHub(n, frame) == hubNode[n] = frame.sender

\* Communication::received
Received(n) ==
    /\ inbox[n] # <<>>
    /\ inbox' = [inbox EXCEPT ![n] = Tail(@)]
    /\ LET frame == Head(inbox[n]) IN
         hubNode' = [hubNode EXCEPT ![n] =
                       IF frame.type = "is hub" THEN frame.sender
                       ELSE IF ClearsHub(n, frame) THEN NoNode ELSE @]
    /\ UNCHANGED <<pcDiscoveryHadResponse, nodesList, tx, pcVars, events, disturbed, unnoticed>>

----------------------------------------------------------------------------
\* Mutant: the hub does not tell the PC about a new node.
ListNotSent(n) == UNCHANGED toPC

\* The end of registerNewNode: a hub sends the list that it has now.
SendsListIfHub(n) ==
    WriteSerial(n, IF hubNode[n] = n THEN <<ListNodes(nodesList'[n])>> ELSE <<>>)

\* registerNewNode, at the wakeup of node k.
RegisterNewNode(n, k) ==
    /\ Event
    /\ k \notin nodesList[n]
    /\ nodesList' = [nodesList EXCEPT ![n] = @ \cup {k}]
    /\ SendsListIfHub(n)
    /\ UNCHANGED <<hubNode, pcDiscoveryHadResponse, busVars, pc, nodeIds, fromPC,
                   disturbed, unnoticed>>

\* The nodes that a reset leaves in the list: registerNewNode(nodeId).
KnowsItself(n) == {n}

\* resetGlob, at a reset command.
ResetGlob(n) ==
    /\ Event
    /\ nodesList' = [nodesList EXCEPT ![n] = KnowsItself(n)]
    /\ SendsListIfHub(n)
    /\ UNCHANGED <<hubNode, pcDiscoveryHadResponse, busVars, pc, nodeIds, fromPC,
                   disturbed, unnoticed>>

\* A node loses power and runs setup() again: it does not know the hub any more.
Restart(n) ==
    /\ Event
    /\ hubNode' = [hubNode EXCEPT ![n] = NoNode]
    /\ pcDiscoveryHadResponse' = [pcDiscoveryHadResponse EXCEPT ![n] = FALSE]
    /\ nodesList' = [nodesList EXCEPT ![n] = {n}]
    /\ tx' = [tx EXCEPT ![n] = NothingPending]
    /\ inbox' = [inbox EXCEPT ![n] = <<>>]
    /\ toPC' = IF n = pc THEN <<>> ELSE toPC
    /\ fromPC' = IF n = pc THEN 0 ELSE fromPC
    /\ disturbed' = (disturbed \/ ~BusQuiet \/ \E m \in NodeIds : hubNode[m] = m)
    /\ UNCHANGED <<pc, nodeIds, unnoticed>>

----------------------------------------------------------------------------
\* The PC is unplugged, or plugged into node p, which may still be the hub.
PlugPC(p) ==
    /\ Event
    /\ p # pc /\ BusQuiet
    /\ pc' = p /\ toPC' = <<>> /\ fromPC' = 0
    /\ unnoticed' = (p # NoNode /\ hubNode[p] = p)
    /\ UNCHANGED <<nodeVars, busVars, nodeIds, disturbed>>

\* The server is started again: it knows no nodes.
RestartServer ==
    /\ Event
    /\ pc # NoNode
    /\ nodeIds' = {} /\ toPC' = <<>> /\ fromPC' = 0
    /\ unnoticed' = TRUE
    /\ UNCHANGED <<nodeVars, busVars, pc, disturbed>>

\* handle_read_serial: answers a discovery, takes over a list.
HandleReadSerial ==
    /\ toPC # <<>>
    /\ toPC' = Tail(toPC)
    /\ IF Head(toPC) = Discovery
       THEN fromPC' = fromPC + 1 /\ UNCHANGED nodeIds
       ELSE nodeIds' = Head(toPC).ids /\ UNCHANGED fromPC
    /\ UNCHANGED <<nodeVars, busVars, pc, events, disturbed, unnoticed>>

\* handle_read_serial: the message is cut where it does not see it (SerialParser).
MissesMessage ==
    /\ Event
    /\ toPC # <<>>
    /\ toPC' = Tail(toPC)
    /\ unnoticed' = (unnoticed \/ Head(toPC) # Discovery)
    /\ UNCHANGED <<nodeVars, busVars, pc, nodeIds, fromPC, disturbed>>

----------------------------------------------------------------------------
Next ==
    \/ \E n \in NodeIds :
         \/ SendPCDiscovery(n) \/ ReadSerial(n) \/ Received(n) \/ GoesOverBus(n)
         \/ Overflow(n) \/ ResetGlob(n) \/ Restart(n)
         \/ \E k \in NodeIds : RegisterNewNode(n, k)
    \/ \E p \in NodeIds \cup {NoNode} : PlugPC(p)
    \/ RestartServer \/ HandleReadSerial \/ MissesMessage

(***************************************************************************)
(* loop() of every node keeps running, the bus carries what waits, and the *)
(* server reads its serial port.                                           *)
(***************************************************************************)
Spec ==
    /\ Init /\ [][Next]_vars
    /\ \A n \in NodeIds :
         /\ WF_vars(SendPCDiscovery(n)) /\ WF_vars(ReadSerial(n))
         /\ WF_vars(Received(n)) /\ WF_vars(GoesOverBus(n))
    /\ WF_vars(HandleReadSerial)

----------------------------------------------------------------------------
HubFrames == {IsHubNode(n) : n \in NodeIds} \cup {NoLongerIsHubNode(n) : n \in NodeIds}

TypeOK ==
    /\ hubNode \in [NodeIds -> NodeIds \cup {NoNode}]
    /\ pcDiscoveryHadResponse \in [NodeIds -> BOOLEAN]
    /\ nodesList \in [NodeIds -> SUBSET NodeIds]
    /\ \A n \in NodeIds : n \in nodesList[n]
    /\ tx \in [NodeIds -> [TXBuffers -> HubFrames \cup {NoFrame}]]
    /\ inbox \in [NodeIds -> Seq(HubFrames)]
    /\ pc \in NodeIds \cup {NoNode} /\ nodeIds \subseteq NodeIds
    /\ toPC \in Seq({Discovery} \cup {ListNodes(ids) : ids \in SUBSET NodeIds})
    /\ fromPC \in Nat /\ events \in 0 .. MaxEvents
    /\ disturbed \in BOOLEAN /\ unnoticed \in BOOLEAN

\* Node m has still to be told, by another one, that the hub is not m.
Underway(m) ==
    \E n \in NodeIds \ {m} :
      \/ \E b \in TXBuffers : tx[n][b] = IsHubNode(n)
      \/ \E i \in DOMAIN inbox[m] : inbox[m][i] = IsHubNode(n)

(***************************************************************************)
(* Two nodes take themselves for the hub only as long as the frame IS_HUB  *)
(* that makes one of them give way is under way, if none was lost.         *)
(***************************************************************************)
OneHub ==
    ~disturbed =>
      \A n, m \in NodeIds :
        n # m /\ hubNode[n] = n /\ hubNode[m] = m => Underway(n) \/ Underway(m)

(***************************************************************************)
(* The nodes agree in the end on the node that has the PC, or on none,     *)
(* wherever it was before and in whatever order the old hub's goodbye and  *)
(* the new hub's frame arrive; a frame missed before the PC was plugged in *)
(* does not matter.                                                        *)
(***************************************************************************)
Agreement == <>[](disturbed \/ \A n \in NodeIds : hubNode[n] = pc)

(***************************************************************************)
(* The server's list is the hub's, when nothing is on the serial line and  *)
(* neither the server was restarted nor its cable replugged so quickly     *)
(* that the hub did not notice: then the list is not sent again.           *)
(***************************************************************************)
ListCurrent ==
    pc # NoNode /\ SerialQuiet /\ ~unnoticed =>
      (hubNode[pc] = pc => nodeIds = nodesList[pc])
=============================================================================
