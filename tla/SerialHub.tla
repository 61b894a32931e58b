----------------------------- MODULE SerialHub -----------------------------
(***************************************************************************)
(* Commands from the PC through the hub node: SerialComm::readSerial, the  *)
(* CAN_COMMANDS_REQUEST and CAN_COMMANDS_RESPONSE branches of              *)
(* Communication::received, and the totals the hub adds up.  No frame says *)
(* which command it belongs to.                                            *)
(*                                                                         *)
(* The PC has one command under way and sends the next when it has its     *)
(* response (a reset: one from every node in the PC's list) or when three  *)
(* seconds passed; CommandQueue models how.  A value is abstracted to the  *)
(* command it answers and the node it comes from, a total to the set of    *)
(* its terms.                                                              *)
(***************************************************************************)
EXTENDS Integers, Sequences, FiniteSets

CONSTANTS
    NumNodes,       \* how many nodes there are
    Kinds,          \* the commands the PC sends: "get", "total", "reset"
    NodeIdsSizes,   \* bound: the sizes of the lists of nodes that the PC has
    MaxCommands,    \* bound: how many commands the PC sends
    MaxLost         \* bound: how many response frames are lost

ASSUME HubConstants ==
    /\ NumNodes \in Nat \ {0}
    /\ NodeIdsSizes \subseteq 0 .. NumNodes
    /\ Kinds \subseteq {"get", "total", "reset"}
    /\ MaxCommands \in Nat /\ MaxLost \in Nat

Nodes == 0 .. NumNodes - 1
hub == 0
Others == Nodes \ {hub}

VARIABLES
    current,                \* the PC's command under way, or NoCommand
    numCommands,            \* commands sent so far, each gets a number
    missingACKs,            \* of the reset under way, expectedNumberOfResetACK
                            \* minus numberOfResetACKReceived
    known,                  \* the nodes in the hub's nodesList
    runningTotalCommand,
    numNodesWaitingResult,
    totalCommandResult,     \* the terms added so far
    requests,               \* requests on their way to a node
    responses,              \* responses on their way to the hub
    serial,                 \* responses on their way to the PC
    lost,                   \* response frames lost so far
    accepted,               \* history: the commands the PC saw answered, and how
    hasty                   \* history: a command came before a wakeup after a reset,
                            \* or a reset before the PC's list was complete

hubVars == <<runningTotalCommand, numNodesWaitingResult, totalCommandResult>>
pcVars == <<current, numCommands, missingACKs, accepted>>
vars == <<pcVars, known, hubVars, requests, responses, serial, lost, hasty>>

Command == [id : 1 .. MaxCommands, kind : {"get", "total", "reset"}, dest : Nodes]
NoCommand == [id |-> 0, kind |-> "none", dest |-> hub]

\* The value that node n returns for a command.
Value(id, n) == <<id, n>>
Values == (1 .. MaxCommands) \X Nodes

Init ==
    /\ current = NoCommand
    /\ numCommands = 0
    /\ missingACKs = 0
    /\ known = Nodes
    /\ runningTotalCommand = FALSE
    /\ numNodesWaitingResult = 0
    /\ totalCommandResult = {}
    /\ requests = [n \in Nodes |-> <<>>]
    /\ responses = <<>>
    /\ serial = <<>>
    /\ lost = 0
    /\ accepted = {}
    /\ hasty = FALSE

----------------------------------------------------------------------------
\* The nodes that still have to send their result.
NodesToWaitFor == Cardinality(known) - 1

\* Mutant: the total goes out one result early.
AllButOneReceived(waiting) == waiting <= 1

\* numNodesWaitingResult == 0.
AllReceived(waiting) == waiting = 0

\* sendTotalIfAllValueForTotalReceived, with what the caller leaves in the state.
SendTotalIfAll(waiting, running, total) ==
    /\ numNodesWaitingResult' = waiting
    /\ totalCommandResult' = total
    /\ IF AllReceived(waiting)
       THEN serial' = Append(serial, total) /\ runningTotalCommand' = FALSE
       ELSE UNCHANGED serial /\ runningTotalCommand' = running

\* sendCommandRequest(0, command): every other node, known or not, receives it.
RequestAll(id) == requests' = [n \in Nodes |-> IF n = hub THEN requests[n]
                                               ELSE Append(requests[n], id)]

\* readSerial, destination 0: the hub's own value first, then the broadcast.
ReadTotal(id) ==
    /\ SendTotalIfAll(NodesToWaitFor, TRUE, {Value(id, hub)})
    /\ RequestAll(id)
    /\ UNCHANGED <<known, responses>>

\* A reset has destination 0 too: resetSerialComm and resetGlob come before the sum.
ReadReset(id) ==
    /\ SendTotalIfAll(0, FALSE, {Value(id, hub)})
    /\ known' = {hub}
    /\ RequestAll(id)
    /\ UNCHANGED responses

\* readSerial, destination this node.
ReadOwn(id) ==
    /\ serial' = Append(serial, {Value(id, hub)})
    /\ UNCHANGED <<known, hubVars, requests, responses>>

\* readSerial, destination another node: forwarded if checkIfNodeExists.
ReadOther(id, n) ==
    /\ requests' = IF n \in known THEN [requests EXCEPT ![n] = Append(@, id)] ELSE requests
    /\ UNCHANGED <<known, hubVars, responses, serial>>

\* The PC's reset expects fewer answers than there are nodes.
ListShort(kind, size) == kind = "reset" /\ size < NumNodes

(***************************************************************************)
(* The PC sends a command and the hub reads it.  A reset expects as many   *)
(* answers as the PC's list has entries, which may be an older and shorter *)
(* one than the hub's: the last that the PC has read from the serial line. *)
(***************************************************************************)
SendCommand(kind, dest) ==
    /\ current = NoCommand /\ numCommands < MaxCommands
    /\ kind \in Kinds
    /\ kind # "get" => dest = hub
    /\ numCommands' = numCommands + 1
    /\ current' = [id |-> numCommands', kind |-> kind, dest |-> dest]
    /\ \E size \in NodeIdsSizes :
         /\ missingACKs' = IF kind = "reset" THEN size ELSE 0
         /\ hasty' = (hasty \/ known # Nodes \/ ListShort(kind, size))
    /\ \/ kind = "total" /\ ReadTotal(numCommands')
       \/ kind = "reset" /\ ReadReset(numCommands')
       \/ kind = "get" /\ dest = hub /\ ReadOwn(numCommands')
       \/ kind = "get" /\ dest # hub /\ ReadOther(numCommands', dest)
    /\ UNCHANGED <<lost, accepted>>

----------------------------------------------------------------------------
\* CAN_COMMANDS_REQUEST at a node: executeCommand, then the response to the sender.
ExecuteRequest(n) ==
    /\ requests[n] # <<>>
    /\ requests' = [requests EXCEPT ![n] = Tail(@)]
    /\ responses' = Append(responses, Value(Head(requests[n]), n))
    /\ UNCHANGED <<pcVars, known, hubVars, serial, lost, hasty>>

\* Mutant: a term of the total is counted and not added.
TermDropped(value) == totalCommandResult

\* totalCommandResult += the value received.
TotalWith(value) == totalCommandResult \union {value}

\* receivedCommandResponseFromCAN; numNodesWaitingResult is a uint8_t.
ReceiveResponse ==
    /\ responses # <<>>
    /\ responses' = Tail(responses)
    /\ IF runningTotalCommand
       THEN SendTotalIfAll((numNodesWaitingResult + 255) % 256, TRUE, TotalWith(Head(responses)))
       ELSE /\ serial' = Append(serial, {Head(responses)})
            /\ UNCHANGED hubVars
    /\ UNCHANGED <<pcVars, known, requests, lost, hasty>>

\* A wakeup after a reset, behind the node's response: registerNewNode at the hub.
Register(n) ==
    /\ n \in Others \ known /\ requests[n] = <<>>
    /\ \A i \in 1 .. Len(responses) : responses[i][2] # n
    /\ known' = known \union {n}
    /\ UNCHANGED <<pcVars, hubVars, requests, responses, serial, lost, hasty>>

\* A response frame is lost: no transmit buffer is free, or a receive buffer overflows.
LoseResponse ==
    /\ responses # <<>> /\ lost < MaxLost
    /\ lost' = lost + 1
    /\ responses' = Tail(responses)
    /\ UNCHANGED <<pcVars, known, hubVars, requests, serial, hasty>>

----------------------------------------------------------------------------
\* Mutant: the first acknowledgement ends a reset.
FirstAckEnds == FALSE

\* A reset that has one acknowledgement more needs others and keeps waiting.
MoreACKsNeeded == current.kind = "reset" /\ missingACKs > 1

\* The PC takes a response as one for the command under way.
PCReceives ==
    /\ serial # <<>>
    /\ serial' = Tail(serial)
    /\ IF current = NoCommand
       THEN UNCHANGED pcVars
       ELSE /\ accepted' = accepted \union {[command |-> current, value |-> Head(serial)]}
            /\ IF MoreACKsNeeded
               THEN missingACKs' = missingACKs - 1 /\ UNCHANGED current
               ELSE missingACKs' = 0 /\ current' = NoCommand
            /\ UNCHANGED numCommands
    /\ UNCHANGED <<known, hubVars, requests, responses, lost, hasty>>

\* Nothing is on its way.
Silent == responses = <<>> /\ serial = <<>> /\ \A n \in Nodes : requests[n] = <<>>

\* Mutant: the PC gives up a total only.
GivesUpTotals == current.kind = "total" /\ Silent

\* The command under way has had no response in three seconds.
NoResponse == current # NoCommand /\ Silent

\* Three seconds pass, in which everything that was on its way has arrived.
PCTimesOut ==
    /\ NoResponse
    /\ current' = NoCommand
    /\ missingACKs' = 0
    /\ UNCHANGED <<numCommands, accepted, known, hubVars, requests, responses, serial,
                   lost, hasty>>

Deliver == (\E n \in Nodes : ExecuteRequest(n) \/ Register(n)) \/ ReceiveResponse \/ PCReceives

Next ==
    \/ \E kind \in Kinds, dest \in Nodes : SendCommand(kind, dest)
    \/ Deliver
    \/ LoseResponse
    \/ PCTimesOut

\* Frames are delivered, by the loops of the nodes, and the PC's timer runs.
Spec == Init /\ [][Next]_vars /\ WF_vars(Deliver) /\ WF_vars(PCTimesOut)

(***************************************************************************)
(* No response was lost, and no command was sent in the moment between a   *)
(* reset and the wakeups of the other nodes that follow it, nor a reset    *)
(* before the PC's list has all of them again.                             *)
(***************************************************************************)
Undisturbed == lost = 0 /\ ~hasty

----------------------------------------------------------------------------
\* The type invariant; what the hub adds up are values of commands.
TypeOK ==
    /\ current \in Command \union {NoCommand}
    /\ numCommands \in 0 .. MaxCommands
    /\ missingACKs \in 0 .. NumNodes
    /\ known \subseteq Nodes /\ hub \in known
    /\ runningTotalCommand \in BOOLEAN
    /\ numNodesWaitingResult \in 0 .. NumNodes - 1
    /\ totalCommandResult \subseteq Values
    /\ requests \in [Nodes -> Seq(1 .. MaxCommands)]
    /\ responses \in Seq(Values)
    /\ serial \in Seq(SUBSET Values)
    /\ lost \in 0 .. MaxLost
    /\ accepted \subseteq [command : Command, value : SUBSET Values]
    /\ hasty \in BOOLEAN

\* What the PC should be told for a command.
RightAnswers(c) ==
    CASE c.kind = "get" -> {{Value(c.id, c.dest)}}
      [] c.kind = "total" -> {{Value(c.id, n) : n \in Nodes}}
      [] c.kind = "reset" -> {{Value(c.id, n)} : n \in Nodes}

(***************************************************************************)
(* What the PC shows for a command is the answer to it: the value of the   *)
(* node asked, or the total over all nodes, each counted once.  (A lost    *)
(* result leaves the total open, and the next response goes into it.)      *)
(***************************************************************************)
AnswerRight == Undisturbed => \A a \in accepted : a.value \in RightAnswers(a.command)

(***************************************************************************)
(* While a total is open the hub waits for as many results as there are    *)
(* requests and responses under way, and has the others.                   *)
(***************************************************************************)
WaitingForRest ==
    Undisturbed /\ runningTotalCommand =>
      /\ numNodesWaitingResult =
           Len(responses) + Cardinality({n \in Nodes : requests[n] # <<>>})
      /\ Cardinality(totalCommandResult) = NumNodes - numNodesWaitingResult

\* The PC saw every answer to the command before it ended the command.
AnsweredByAll(c) ==
    \A value \in RightAnswers(c) : [command |-> c, value |-> value] \in accepted

\* A command sent is answered, without the timeout; a reset by every node.
CommandAnswered ==
    \A id \in 1 .. MaxCommands :
      (current.id = id) ~>
        (~Undisturbed \/ \E a \in accepted : a.command.id = id /\ AnsweredByAll(a.command))

(***************************************************************************)
(* Whatever is lost, a command does not block the ones after it: the PC    *)
(* gives it up when nothing more will come.                                *)
(***************************************************************************)
CommandEnds ==
    \A id \in 1 .. MaxCommands : (current.id = id) ~> (current.id # id)
=============================================================================
