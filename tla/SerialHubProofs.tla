--------------------------- MODULE SerialHubProofs ---------------------------
(***************************************************************************)
(* What the PC is told for a command is the answer to it, for any number   *)
(* of nodes and of commands, unless a response was lost or a command was   *)
(* sent before the wakeups that follow a reset: though no frame says which *)
(* command it belongs to, all that is under way belongs to the one command *)
(* that the PC waits for.                                                  *)
(***************************************************************************)
EXTENDS SerialHub, FiniteSetTheorems, FunctionTheorems, SequenceTheorems, TLAPS

\* The nodes that have still to execute a request.
Asked == {n \in Nodes : requests[n] # <<>>}

\* The values of all nodes for a command.
AllValues(id) == {Value(id, n) : n \in Nodes}

\* All requests and responses under way.
Outstanding == Len(serial) + Len(responses) + Cardinality(Asked)

\* The part of the type invariant that the argument needs.
HubType ==
    /\ numCommands \in Nat /\ missingACKs \in Nat /\ numNodesWaitingResult \in Nat
    /\ runningTotalCommand \in BOOLEAN
    /\ requests \in [Nodes -> Seq(Nat)]
    /\ responses \in Seq(Nat \X Nodes)
    /\ serial \in Seq(SUBSET (Nat \X Nodes))
    /\ totalCommandResult \in SUBSET (Nat \X Nodes)

\* Nothing is under way without a command,
IdleInv == current = NoCommand => Silent /\ ~runningTotalCommand

\* and nothing but requests for the command, and answers to it that a node sends once.
FlightInv ==
    current # NoCommand =>
      /\ current.kind \in {"get", "total", "reset"} /\ current.dest \in Nodes
      /\ current.id \in Nat
      /\ \A n \in Nodes : requests[n] \in {<<>>, <<current.id>>}
      /\ \A i \in 1 .. Len(responses) :
           /\ responses[i] \in AllValues(current.id)
           /\ \A n \in Asked : responses[i] # Value(current.id, n)
      /\ \A i, j \in 1 .. Len(responses) : responses[i] = responses[j] => i = j
      /\ \A i \in 1 .. Len(serial) : serial[i] \in RightAnswers(current)

\* The value of one node is one request or one response under way.
GetInv ==
    current.kind = "get" =>
      /\ Outstanding = 1 /\ ~runningTotalCommand
      /\ \A n \in Asked : n = current.dest
      /\ \A i \in 1 .. Len(responses) : responses[i] = Value(current.id, current.dest)

\* The acknowledgements that a reset still waits for are under way.
ResetInv ==
    current.kind = "reset" =>
      ~runningTotalCommand /\ missingACKs = Outstanding /\ Outstanding >= 1

\* What is not in the total is under way, until the total is.
TotalInv ==
    current.kind = "total" =>
      IF runningTotalCommand
      THEN /\ serial = <<>> /\ numNodesWaitingResult = Outstanding
           /\ numNodesWaitingResult >= 1
           /\ totalCommandResult \subseteq AllValues(current.id)
           /\ Cardinality(totalCommandResult) + numNodesWaitingResult = NumNodes
           /\ \A i \in 1 .. Len(responses) : responses[i] \notin totalCommandResult
           /\ \A n \in Asked : Value(current.id, n) \notin totalCommandResult
      ELSE Len(serial) = 1 /\ responses = <<>> /\ Asked = {}

AnswersInv == \A a \in accepted : a.value \in RightAnswers(a.command)

Quiet == HubType /\ IdleInv /\ FlightInv /\ GetInv /\ ResetInv /\ TotalInv /\ AnswersInv

\* The inductive invariant.
HubInv == lost \in Nat /\ hasty \in BOOLEAN /\ (Undisturbed => Quiet)

----------------------------------------------------------------------------
\* There are NumNodes nodes, and the hub is one of them.
LEMMA NodesCounted ==
  /\ NumNodes \in Nat /\ NumNodes >= 1 /\ hub \in Nodes
  /\ IsFiniteSet(Nodes) /\ Cardinality(Nodes) = NumNodes
  /\ IsFiniteSet(Others) /\ Cardinality(Others) = NumNodes - 1
<1>1. NumNodes \in Nat /\ NumNodes >= 1 /\ hub \in Nodes
  BY HubConstants DEF Nodes, hub
<1>2. IsFiniteSet(Nodes) /\ Cardinality(Nodes) = NumNodes
  <2>1. /\ 0 \in Int /\ NumNodes - 1 \in Int
        /\ ~(0 > NumNodes - 1) /\ (NumNodes - 1) - 0 + 1 = NumNodes
    BY <1>1
  <2>2. /\ IsFiniteSet(0 .. NumNodes - 1)
        /\ Cardinality(0 .. NumNodes - 1) =
             IF 0 > NumNodes - 1 THEN 0 ELSE (NumNodes - 1) - 0 + 1
    BY <2>1, FS_Interval
  <2>3. QED
    BY <2>1, <2>2 DEF Nodes
<1>3. IsFiniteSet(Others) /\ Cardinality(Others) = NumNodes - 1
  BY <1>1, <1>2, FS_RemoveElement DEF Others
<1>4. QED
  BY <1>1, <1>2, <1>3

\* A set of nodes can be counted.
LEMMA NodesSubset ==
  ASSUME NEW S \in SUBSET Nodes
  PROVE  /\ IsFiniteSet(S) /\ Cardinality(S) \in Nat
         /\ Cardinality(S) = 0 <=> S = {}
BY NodesCounted, FS_Subset, FS_CardinalityType, FS_EmptySet

\* A command sends each node a value of its own.
LEMMA ValuesCounted ==
  ASSUME NEW id
  PROVE  /\ IsFiniteSet(AllValues(id)) /\ Cardinality(AllValues(id)) = NumNodes
         /\ \A n, m \in Nodes : Value(id, n) = Value(id, m) => n = m
<1>1. \A n, m \in Nodes : Value(id, n) = Value(id, m) => n = m
  BY DEF Value
<1> DEFINE f == [n \in Nodes |-> Value(id, n)]
<1>2. f \in Bijection(Nodes, AllValues(id))
  <2>1. f \in [Nodes -> AllValues(id)] /\ \A v \in AllValues(id) : \E n \in Nodes : f[n] = v
    BY DEF AllValues
  <2>2. \A n, m \in Nodes : f[n] = f[m] => n = m
    BY <1>1
  <2>3. QED
    BY <2>1, <2>2, Fun_IsBij
<1>3. ExistsBijection(Nodes, AllValues(id))
  BY <1>2 DEF ExistsBijection
<1>4. QED
  BY <1>1, <1>3, NodesCounted, FS_Bijection

\* Nothing is under way if and only if nothing is outstanding.
LEMMA SilentMeans ==
  ASSUME HubType
  PROVE  /\ Outstanding \in Nat /\ Len(serial) \in Nat /\ Len(responses) \in Nat
         /\ Cardinality(Asked) \in Nat
         /\ Silent => Asked = {} /\ serial = <<>> /\ responses = <<>>
         /\ Silent <=> Outstanding = 0
<1>1. Len(serial) \in Nat /\ Len(responses) \in Nat
      /\ (Len(serial) = 0 <=> serial = <<>>) /\ (Len(responses) = 0 <=> responses = <<>>)
  BY DEF HubType
<1>2. Asked \in SUBSET Nodes /\ (Asked = {} <=> \A n \in Nodes : requests[n] = <<>>)
  BY DEF Asked
<1>3. Cardinality(Asked) \in Nat /\ (Cardinality(Asked) = 0 <=> Asked = {})
  BY <1>2, NodesSubset
<1>4. QED
  BY <1>1, <1>2, <1>3 DEF Silent, Outstanding

\* A queue with an entry more,
LEMMA AppendIs ==
  ASSUME NEW S, NEW s \in Seq(S), NEW v \in S
  PROVE  /\ Append(s, v) \in Seq(S) /\ Len(Append(s, v)) = Len(s) + 1
         /\ \A i \in 1 .. Len(s) : Append(s, v)[i] = s[i]
         /\ Append(s, v)[Len(s) + 1] = v
BY AppendProperties

\* and one without its first.
LEMMA TailIs ==
  ASSUME NEW S, NEW s \in Seq(S), s # <<>>
  PROVE  /\ Tail(s) \in Seq(S) /\ Len(Tail(s)) = Len(s) - 1 /\ Len(s) >= 1 /\ Len(s) \in Nat
         /\ \A i \in 1 .. Len(s) - 1 : Tail(s)[i] = s[i + 1]
         /\ Head(s) = s[1] /\ Head(s) \in S
BY HeadTailProperties

\* The first entry of an empty queue.
LEMMA OnlyEntry ==
  ASSUME NEW v
  PROVE  Append(<<>>, v) = <<v>> /\ Len(<<v>>) = 1 /\ <<v>>[1] = v /\ <<v>> # <<>>
         /\ \A i \in 1 .. 1 : i = 1
OBVIOUS

----------------------------------------------------------------------------
\* Nothing is under way at the start.
LEMMA InitHubInv == Init => HubInv
<1> SUFFICES ASSUME Init PROVE HubInv
  OBVIOUS
<1>1. HubType
  <2>1. requests \in [Nodes -> Seq(Nat)]
    <3>1. <<>> \in Seq(Nat)
      OBVIOUS
    <3>2. QED
      BY <3>1 DEF Init
  <2>2. responses \in Seq(Nat \X Nodes) /\ serial \in Seq(SUBSET (Nat \X Nodes))
    BY DEF Init
  <2>3. QED
    BY <2>1, <2>2 DEF Init, HubType
<1>2. Silent /\ current = NoCommand /\ ~runningTotalCommand /\ accepted = {}
      /\ lost \in Nat /\ hasty \in BOOLEAN
  BY DEF Init, Silent
<1>3. NoCommand.kind = "none"
  BY DEF NoCommand
<1>4. QED
  BY <1>1, <1>2, <1>3 DEF HubInv, Quiet, IdleInv, FlightInv, GetInv, ResetInv, TotalInv, AnswersInv
----------------------------------------------------------------------------
\* What the PC should be told, by the kind of command.
LEMMA RightAnswersAre ==
  ASSUME NEW c
  PROVE  /\ c.kind = "get" => RightAnswers(c) = {{Value(c.id, c.dest)}}
         /\ c.kind = "total" => RightAnswers(c) = {AllValues(c.id)}
         /\ c.kind = "reset" => RightAnswers(c) = {{Value(c.id, n)} : n \in Nodes}
BY DEF RightAnswers, AllValues

\* A broadcast when nothing is under way leaves every other node one request.
LEMMA RequestAllIs ==
  ASSUME NEW id \in Nat, \A n \in Nodes : requests[n] = <<>>, RequestAll(id)
  PROVE  /\ requests' \in [Nodes -> Seq(Nat)]
         /\ \A n \in Nodes : requests'[n] \in {<<>>, <<id>>}
         /\ Asked' = Others /\ Cardinality(Asked') = NumNodes - 1
<1>1. requests' = [n \in Nodes |-> IF n = hub THEN <<>> ELSE <<id>>]
  <2>1. \A n \in Nodes : Append(requests[n], id) = <<id>>
    BY OnlyEntry
  <2>2. QED
    BY <2>1 DEF RequestAll
<1>2. <<>> \in Seq(Nat) /\ <<id>> \in Seq(Nat) /\ <<id>> # <<>>
  OBVIOUS
<1>3. /\ requests' \in [Nodes -> Seq(Nat)]
      /\ \A n \in Nodes : requests'[n] = IF n = hub THEN <<>> ELSE <<id>>
  BY <1>1, <1>2
<1>4. Asked' = Others
  <2>1. \A n \in Nodes : requests'[n] # <<>> <=> n # hub
    BY <1>2, <1>3
  <2>2. Asked' = {n \in Nodes : requests'[n] # <<>>}
    BY DEF Asked
  <2>3. QED
    BY <2>1, <2>2 DEF Others
<1>5. QED
  BY <1>3, <1>4, NodesCounted

\* A command sent when nothing is under way has all that is under way to itself.
LEMMA SendCommandQuiet ==
  ASSUME Quiet, NEW kind \in Kinds, NEW dest \in Nodes, SendCommand(kind, dest), known = Nodes,
         ~hasty'
  PROVE  Quiet'
<1> DEFINE id == numCommands + 1
           c == [id |-> id, kind |-> kind, dest |-> dest]
<1>1. /\ numCommands \in Nat /\ current = NoCommand /\ Silent /\ ~runningTotalCommand
      /\ HubType
  BY DEF Quiet, HubType, IdleInv, SendCommand
<1>2. /\ serial = <<>> /\ responses = <<>> /\ Asked = {} /\ \A n \in Nodes : requests[n] = <<>>
  BY <1>1, SilentMeans DEF Silent
<1>3. /\ numCommands' = id /\ current' = c /\ accepted' = accepted
      /\ kind # "get" => dest = hub
  BY DEF SendCommand
<1>4. /\ id \in Nat /\ c.id = id /\ c.kind = kind /\ c.dest = dest
      /\ kind \in {"get", "total", "reset"} /\ c # NoCommand
  <2>1. id \in Nat /\ id # 0
    BY <1>1
  <2>2. c.id = id /\ NoCommand.id = 0
    BY DEF NoCommand
  <2>3. kind \in {"get", "total", "reset"}
    BY HubConstants
  <2>4. QED
    BY <2>1, <2>2, <2>3
<1> HIDE DEF id, c
<1>5. AnswersInv' /\ IdleInv'
  BY <1>3, <1>4 DEF Quiet, AnswersInv, IdleInv, RightAnswers, Value
<1>6. Value(id, hub) \in Nat \X Nodes /\ {Value(id, hub)} \in SUBSET (Nat \X Nodes)
  BY <1>4, NodesCounted DEF Value
<1>7. /\ Append(<<>>, {Value(id, hub)}) \in Seq(SUBSET (Nat \X Nodes))
      /\ Append(<<>>, {Value(id, hub)}) = <<{Value(id, hub)}>>
      /\ Len(<<{Value(id, hub)}>>) = 1 /\ <<{Value(id, hub)}>>[1] = {Value(id, hub)}
      /\ \A i \in 1 .. 1 : i = 1
  BY <1>6, OnlyEntry
<1>8. <<>> \in Seq(Nat \X Nodes) /\ <<>> \in Seq(SUBSET (Nat \X Nodes))
      /\ Len(<<>>) = 0 /\ 1 .. 0 = {}
  OBVIOUS
<1>9. NumNodes \in Nat /\ NumNodes >= 1 /\ hub \in Nodes /\ NodesToWaitFor = NumNodes - 1
  BY NodesCounted DEF NodesToWaitFor
<1>10. missingACKs' \in Nat /\ (kind = "reset" => missingACKs' = NumNodes)
  <2>1. PICK size \in NodeIdsSizes :
          /\ missingACKs' = IF kind = "reset" THEN size ELSE 0
          /\ hasty' = (hasty \/ known # Nodes \/ ListShort(kind, size))
    BY DEF SendCommand
  <2>2. ~ListShort(kind, size)
    BY <2>1, Zenon
  <2>3. size \in 0 .. NumNodes /\ NumNodes \in Nat
    BY HubConstants
  <2>4. kind = "reset" => size = NumNodes
    BY <2>2, <2>3 DEF ListShort
  <2>5. QED
    BY <2>1, <2>3, <2>4
<1>11. CASE kind = "total"
  <2>1. SendTotalIfAll(NumNodes - 1, TRUE, {Value(id, hub)}) /\ RequestAll(id)
        /\ responses' = <<>>
    BY <1>2, <1>3, <1>9, <1>11 DEF SendCommand, ReadTotal
  <2>2. /\ requests' \in [Nodes -> Seq(Nat)] /\ \A n \in Nodes : requests'[n] \in {<<>>, <<id>>}
        /\ Asked' = Others /\ Cardinality(Asked') = NumNodes - 1
    BY <1>2, <1>4, <2>1, RequestAllIs
  <2>3. /\ numNodesWaitingResult' = NumNodes - 1 /\ totalCommandResult' = {Value(id, hub)}
        /\ IF NumNodes - 1 = 0
           THEN serial' = <<{Value(id, hub)}>> /\ runningTotalCommand' = FALSE
           ELSE serial' = <<>> /\ runningTotalCommand' = TRUE
    BY <1>2, <1>7, <2>1 DEF SendTotalIfAll, AllReceived
  <2>4. HubType'
    <3>1. serial' \in Seq(SUBSET (Nat \X Nodes)) /\ runningTotalCommand' \in BOOLEAN
      BY <1>7, <1>8, <2>3
    <3>2. numNodesWaitingResult' \in Nat /\ totalCommandResult' \in SUBSET (Nat \X Nodes)
      BY <1>6, <1>9, <2>3
    <3>3. QED
      BY <1>3, <1>4, <1>8, <1>10, <2>1, <2>2, <3>1, <3>2 DEF HubType
  <2>5. RightAnswers(c) = {AllValues(id)}
    BY <1>4, <1>11, RightAnswersAre
  <2>6. CASE NumNodes - 1 = 0
    <3>1. Nodes = {hub} /\ Others = {}
      BY <1>9, <2>6 DEF Nodes, Others, hub
    <3>2. AllValues(id) = {Value(id, hub)}
      BY <3>1 DEF AllValues
    <3>3. FlightInv'
      BY <1>3, <1>4, <1>7, <1>8, <2>1, <2>2, <2>3, <2>5, <2>6, <3>2 DEF FlightInv
    <3>4. GetInv' /\ ResetInv' /\ TotalInv'
      BY <1>3, <1>4, <1>7, <1>11, <2>1, <2>2, <2>3, <2>6, <3>1 DEF GetInv, ResetInv, TotalInv
    <3>5. QED
      BY <1>5, <2>4, <3>3, <3>4 DEF Quiet
  <2>7. CASE NumNodes - 1 # 0
    <3>1. FlightInv'
      BY <1>3, <1>4, <1>8, <2>1, <2>2, <2>3, <2>7 DEF FlightInv
    <3>2. Outstanding' = NumNodes - 1
      BY <1>8, <1>9, <2>1, <2>2, <2>3, <2>7 DEF Outstanding
    <3>3. Cardinality({Value(id, hub)}) = 1
      BY FS_Singleton
    <3>4. {Value(id, hub)} \subseteq AllValues(id)
          /\ \A n \in Others : Value(id, n) \notin {Value(id, hub)}
      BY <1>9, ValuesCounted DEF AllValues, Others
    <3>5. TotalInv'
      BY <1>3, <1>4, <1>8, <1>9, <2>1, <2>2, <2>3, <2>7, <3>2, <3>3, <3>4 DEF TotalInv
    <3>6. GetInv' /\ ResetInv'
      BY <1>3, <1>4, <1>11 DEF GetInv, ResetInv
    <3>7. QED
      BY <1>5, <2>4, <3>1, <3>5, <3>6 DEF Quiet
  <2>8. QED
    BY <2>6, <2>7
<1>12. CASE kind = "reset"
  <2>1. SendTotalIfAll(0, FALSE, {Value(id, hub)}) /\ RequestAll(id) /\ responses' = <<>>
    BY <1>2, <1>3, <1>12 DEF SendCommand, ReadReset
  <2>2. /\ requests' \in [Nodes -> Seq(Nat)] /\ \A n \in Nodes : requests'[n] \in {<<>>, <<id>>}
        /\ Asked' = Others /\ Cardinality(Asked') = NumNodes - 1
    BY <1>2, <1>4, <2>1, RequestAllIs
  <2>3. /\ numNodesWaitingResult' = 0 /\ totalCommandResult' = {Value(id, hub)}
        /\ serial' = <<{Value(id, hub)}>> /\ runningTotalCommand' = FALSE
    BY <1>2, <1>7, <2>1 DEF SendTotalIfAll, AllReceived
  <2>4. HubType'
    BY <1>3, <1>4, <1>6, <1>7, <1>8, <1>10, <2>1, <2>2, <2>3 DEF HubType
  <2>5. {Value(id, hub)} \in RightAnswers(c)
    BY <1>4, <1>9, <1>12, RightAnswersAre
  <2>6. FlightInv'
    BY <1>3, <1>4, <1>7, <1>8, <2>1, <2>2, <2>3, <2>5 DEF FlightInv
  <2>7. Outstanding' = NumNodes
    BY <1>7, <1>8, <1>9, <2>1, <2>2, <2>3 DEF Outstanding
  <2>8. GetInv' /\ ResetInv' /\ TotalInv'
    BY <1>3, <1>4, <1>9, <1>12, <1>10, <2>3, <2>7 DEF GetInv, ResetInv, TotalInv
  <2>9. QED
    BY <1>5, <2>4, <2>6, <2>8 DEF Quiet
<1>13. CASE kind = "get" /\ dest = hub
  <2>1. /\ serial' = <<{Value(id, hub)}>> /\ responses' = <<>>
        /\ UNCHANGED <<hubVars, requests>>
    BY <1>2, <1>3, <1>7, <1>13 DEF SendCommand, ReadOwn
  <2>2. HubType' /\ Asked' = {} /\ ~runningTotalCommand'
    BY <1>1, <1>2, <1>3, <1>4, <1>7, <1>8, <1>10, <2>1 DEF HubType, Asked, hubVars
  <2>3. {Value(id, hub)} \in RightAnswers(c)
    BY <1>4, <1>13, RightAnswersAre
  <2>4. FlightInv'
    BY <1>2, <1>3, <1>4, <1>7, <1>8, <2>1, <2>3 DEF FlightInv
  <2>5. Outstanding' = 1
    BY <1>7, <1>8, <2>1, <2>2, FS_EmptySet DEF Outstanding
  <2>6. GetInv' /\ ResetInv' /\ TotalInv'
    BY <1>3, <1>4, <1>8, <1>13, <2>1, <2>2, <2>5 DEF GetInv, ResetInv, TotalInv
  <2>7. QED
    BY <1>5, <2>2, <2>4, <2>6 DEF Quiet
<1>14. CASE kind = "get" /\ dest # hub
  <2>1. /\ requests' = [requests EXCEPT ![dest] = Append(@, id)]
        /\ serial' = <<>> /\ responses' = <<>> /\ UNCHANGED hubVars
    BY <1>2, <1>3, <1>14 DEF SendCommand, ReadOther
  <2>2. Append(requests[dest], id) = <<id>> /\ <<id>> \in Seq(Nat) /\ <<id>> # <<>>
    <3>1. requests[dest] = <<>> /\ <<id>> \in Seq(Nat)
      BY <1>2, <1>4
    <3>2. QED
      BY <3>1, OnlyEntry
  <2>3. /\ requests' \in [Nodes -> Seq(Nat)]
        /\ \A n \in Nodes : requests'[n] = IF n = dest THEN <<id>> ELSE <<>>
    BY <1>1, <1>2, <2>1, <2>2 DEF HubType
  <2>4. HubType' /\ ~runningTotalCommand'
    BY <1>1, <1>3, <1>4, <1>8, <1>10, <2>1, <2>3 DEF HubType, hubVars
  <2>5. Asked' = {dest} /\ Cardinality({dest}) = 1
    <3>1. \A n \in Nodes : requests'[n] # <<>> <=> n = dest
      BY <2>2, <2>3
    <3>2. Asked' = {n \in Nodes : requests'[n] # <<>>}
      BY DEF Asked
    <3>3. QED
      BY <3>1, <3>2, FS_Singleton
  <2>6. FlightInv'
    BY <1>3, <1>4, <1>8, <2>1, <2>3 DEF FlightInv
  <2>7. Outstanding' = 1
    BY <1>8, <2>1, <2>5 DEF Outstanding
  <2>8. GetInv' /\ ResetInv' /\ TotalInv'
    BY <1>3, <1>4, <1>8, <1>14, <2>1, <2>4, <2>5, <2>7 DEF GetInv, ResetInv, TotalInv
  <2>9. QED
    BY <1>5, <2>4, <2>6, <2>8 DEF Quiet
<1>15. QED
  BY <1>4, <1>11, <1>12, <1>13, <1>14
----------------------------------------------------------------------------
\* A request becomes the response to it.
LEMMA ExecuteRequestQuiet ==
  ASSUME Quiet, NEW n \in Nodes, ExecuteRequest(n)
  PROVE  Quiet'
<1> DEFINE id == current.id
           v == Value(id, n)
<1>1. /\ HubType /\ requests[n] # <<>> /\ n \in Asked
      /\ requests' = [requests EXCEPT ![n] = Tail(@)]
      /\ UNCHANGED <<numCommands, current, missingACKs, accepted, hubVars, serial>>
  BY DEF Quiet, ExecuteRequest, pcVars, Asked
<1>2. current # NoCommand
  BY <1>1 DEF Quiet, IdleInv, Silent
<1>3. /\ id \in Nat /\ requests[n] = <<id>>
      /\ \A i \in 1 .. Len(responses) : responses[i] \in AllValues(id)
                                        /\ \A m \in Asked : responses[i] # Value(id, m)
      /\ \A i, j \in 1 .. Len(responses) : responses[i] = responses[j] => i = j
  BY <1>1, <1>2 DEF Quiet, FlightInv
<1>4. Head(<<id>>) = id /\ Tail(<<id>>) = <<>> /\ <<>> \in Seq(Nat)
  BY <1>3
<1>5. responses' = Append(responses, v) /\ v \in Nat \X Nodes /\ v \in AllValues(id)
  BY <1>3, <1>4 DEF ExecuteRequest, Value, AllValues
<1> HIDE DEF id, v
<1>6. /\ requests' \in [Nodes -> Seq(Nat)] /\ requests'[n] = <<>>
      /\ \A m \in Nodes : m # n => requests'[m] = requests[m]
  BY <1>1, <1>3, <1>4 DEF HubType
<1>7. /\ responses \in Seq(Nat \X Nodes) /\ Len(responses) \in Nat
      /\ responses' \in Seq(Nat \X Nodes) /\ Len(responses') = Len(responses) + 1
      /\ \A i \in 1 .. Len(responses) : responses'[i] = responses[i]
      /\ responses'[Len(responses) + 1] = v
  <2>1. responses \in Seq(Nat \X Nodes)
    BY <1>1 DEF HubType
  <2>2. QED
    BY <2>1, <1>5, AppendIs
<1>8. \A i \in 1 .. Len(responses') :
        \/ i \in 1 .. Len(responses) /\ responses'[i] = responses[i]
        \/ i = Len(responses) + 1 /\ responses'[i] = v
  BY <1>7
<1>9. Asked' = Asked \ {n} /\ Asked \in SUBSET Nodes
  <2>1. \A m \in Nodes : requests'[m] # <<>> <=> requests[m] # <<>> /\ m # n
    BY <1>6
  <2>2. Asked' = {m \in Nodes : requests'[m] # <<>>}
    BY DEF Asked
  <2>3. QED
    BY <2>1, <2>2 DEF Asked
<1>10. Cardinality(Asked') = Cardinality(Asked) - 1 /\ Cardinality(Asked) \in Nat
  BY <1>1, <1>9, NodesSubset, FS_RemoveElement
<1>11. Outstanding' = Outstanding
  <2>1. Len(serial) \in Nat
    BY <1>1 DEF HubType
  <2>2. QED
    BY <2>1, <1>1, <1>7, <1>10 DEF Outstanding
<1>12. HubType'
  BY <1>1, <1>6, <1>7 DEF HubType, hubVars
<1>13. v = Value(id, n) /\ \A m \in Asked' : v # Value(id, m)
  BY <1>9, ValuesCounted DEF v
<1>14. FlightInv'
  <2>1. /\ current.kind \in {"get", "total", "reset"} /\ current.dest \in Nodes
        /\ \A i \in 1 .. Len(serial) : serial[i] \in RightAnswers(current)
        /\ \A m \in Nodes : requests[m] \in {<<>>, <<id>>}
    BY <1>2 DEF Quiet, FlightInv, id
  <2>2. \A m \in Nodes : requests'[m] \in {<<>>, <<id>>}
    BY <2>1, <1>6
  <2>3. \A i \in 1 .. Len(responses') : responses'[i] \in AllValues(id)
                                        /\ \A m \in Asked' : responses'[i] # Value(id, m)
    BY <1>3, <1>5, <1>8, <1>9, <1>13
  <2>4. ASSUME NEW i \in 1 .. Len(responses'), NEW j \in 1 .. Len(responses'),
               responses'[i] = responses'[j]
        PROVE  i = j
    <3>1. \A k \in 1 .. Len(responses) : responses[k] # v
      BY <1>1, <1>3, <1>13
    <3>2. QED
      BY <2>4, <3>1, <1>3, <1>8
  <2>5. QED
    BY <2>1, <2>2, <2>3, <2>4, <1>1, <1>3 DEF FlightInv, id
<1>15. GetInv'
  <2> SUFFICES ASSUME current.kind = "get"
               PROVE  /\ Outstanding' = 1 /\ ~runningTotalCommand'
                      /\ \A m \in Asked' : m = current.dest
                      /\ \A i \in 1 .. Len(responses') : responses'[i] = Value(id, current.dest)
    BY <1>1 DEF GetInv, id
  <2>1. /\ Outstanding = 1 /\ ~runningTotalCommand /\ \A m \in Asked : m = current.dest
        /\ \A i \in 1 .. Len(responses) : responses[i] = Value(id, current.dest)
    BY DEF Quiet, GetInv, id
  <2>2. v = Value(id, current.dest)
    BY <2>1, <1>1, <1>13
  <2>3. QED
    BY <2>1, <2>2, <1>1, <1>8, <1>9, <1>11 DEF hubVars
<1>16. ResetInv'
  BY <1>1, <1>11 DEF Quiet, ResetInv, hubVars
<1>17. TotalInv'
  <2> SUFFICES ASSUME current.kind = "total" PROVE TotalInv'
    BY <1>1 DEF TotalInv
  <2>1. runningTotalCommand
    BY <1>1 DEF Quiet, TotalInv
  <2>2. /\ serial = <<>> /\ numNodesWaitingResult = Outstanding /\ numNodesWaitingResult >= 1
        /\ totalCommandResult \subseteq AllValues(id)
        /\ Cardinality(totalCommandResult) + numNodesWaitingResult = NumNodes
        /\ \A i \in 1 .. Len(responses) : responses[i] \notin totalCommandResult
        /\ \A m \in Asked : Value(id, m) \notin totalCommandResult
    BY <2>1 DEF Quiet, TotalInv, id
  <2>3. /\ \A i \in 1 .. Len(responses') : responses'[i] \notin totalCommandResult
        /\ \A m \in Asked' : Value(id, m) \notin totalCommandResult
    BY <2>2, <1>1, <1>8, <1>9, <1>13
  <2>4. UNCHANGED <<runningTotalCommand, numNodesWaitingResult, totalCommandResult, serial>>
        /\ current'.id = id
    BY <1>1 DEF hubVars, id
  <2>5. QED
    BY <2>1, <2>2, <2>3, <2>4, <1>11 DEF TotalInv
<1>18. AnswersInv' /\ IdleInv'
  BY <1>1, <1>2 DEF Quiet, AnswersInv, IdleInv
<1>19. QED
  BY <1>12, <1>14, <1>15, <1>16, <1>17, <1>18 DEF Quiet

(***************************************************************************)
(* The hub passes a response on, or adds it to the total: the counter does *)
(* not wrap around, for no more than 256 nodes.                            *)
(***************************************************************************)
LEMMA ReceiveResponseQuiet ==
  ASSUME NumNodes <= 256, Quiet, ReceiveResponse
  PROVE  Quiet'
<1> DEFINE id == current.id
           v == Head(responses)
<1>1. /\ HubType /\ responses # <<>> /\ responses' = Tail(responses)
      /\ UNCHANGED <<numCommands, current, missingACKs, accepted, requests>>
  BY DEF Quiet, ReceiveResponse, pcVars
<1>2. current # NoCommand
  BY <1>1 DEF Quiet, IdleInv, Silent
<1>3. /\ id \in Nat /\ current.kind \in {"get", "total", "reset"}
      /\ \A i \in 1 .. Len(responses) : responses[i] \in AllValues(id)
                                        /\ \A m \in Asked : responses[i] # Value(id, m)
      /\ \A i, j \in 1 .. Len(responses) : responses[i] = responses[j] => i = j
      /\ \A i \in 1 .. Len(serial) : serial[i] \in RightAnswers(current)
  BY <1>2 DEF Quiet, FlightInv
<1>4. /\ responses' \in Seq(Nat \X Nodes) /\ Len(responses') = Len(responses) - 1
      /\ Len(responses) >= 1 /\ Len(responses) \in Nat
      /\ \A i \in 1 .. Len(responses) - 1 : responses'[i] = responses[i + 1]
      /\ v = responses[1] /\ v \in Nat \X Nodes
  BY <1>1, TailIs DEF HubType
<1> HIDE DEF id, v
<1>5. \A i \in 1 .. Len(responses') : i + 1 \in 1 .. Len(responses) /\ i + 1 # 1 /\ i \in Int
                                      /\ responses'[i] = responses[i + 1]
  BY <1>4
<1>6. /\ 1 \in 1 .. Len(responses) /\ v \in AllValues(id)
      /\ \A m \in Asked : v # Value(id, m)
      /\ \A i \in 1 .. Len(responses') : responses'[i] # v
  <2>1. 1 \in 1 .. Len(responses)
    BY <1>4
  <2>2. QED
    BY <2>1, <1>3, <1>4, <1>5
<1>7. Asked' = Asked /\ Cardinality(Asked) \in Nat /\ Len(serial) \in Nat
  BY <1>1, SilentMeans DEF Asked
<1>8. /\ \A i \in 1 .. Len(responses') : responses'[i] \in AllValues(id)
                                         /\ \A m \in Asked' : responses'[i] # Value(id, m)
      /\ \A i, j \in 1 .. Len(responses') : responses'[i] = responses'[j] => i = j
  <2>1. ASSUME NEW i \in 1 .. Len(responses'), NEW j \in 1 .. Len(responses'),
               responses'[i] = responses'[j]
        PROVE  i = j
    <3>1. i + 1 = j + 1 /\ i \in Int /\ j \in Int
      BY <2>1, <1>3, <1>5
    <3>2. QED
      BY <3>1
  <2>2. QED
    BY <2>1, <1>3, <1>5, <1>7
<1>9. FlightInv' \/ ~(\A i \in 1 .. Len(serial') : serial'[i] \in RightAnswers(current))
  BY <1>1, <1>2, <1>3, <1>8 DEF Quiet, FlightInv, id
<1>10. AnswersInv' /\ IdleInv'
  BY <1>1, <1>2 DEF Quiet, AnswersInv, IdleInv
<1>11. CASE ~runningTotalCommand
  <2>1. serial' = Append(serial, {v}) /\ UNCHANGED hubVars
    BY <1>11 DEF ReceiveResponse, v
  <2>2. {v} \in SUBSET (Nat \X Nodes) /\ serial \in Seq(SUBSET (Nat \X Nodes))
    BY <1>1, <1>4 DEF HubType
  <2>3. /\ serial' \in Seq(SUBSET (Nat \X Nodes)) /\ Len(serial') = Len(serial) + 1
        /\ \A i \in 1 .. Len(serial) : serial'[i] = serial[i]
        /\ serial'[Len(serial) + 1] = {v}
    BY <2>1, <2>2, AppendIs
  <2>4. current.kind # "total"
    BY <1>1, <1>11 DEF Quiet, TotalInv
  <2>5. {v} \in RightAnswers(current)
    <3>1. CASE current.kind = "get"
      BY <3>1, <1>4, <1>6, RightAnswersAre DEF Quiet, GetInv
    <3>2. CASE current.kind = "reset"
      BY <3>2, <1>6, RightAnswersAre DEF AllValues, id
    <3>3. QED
      BY <2>4, <3>1, <3>2, <1>3
  <2>6. \A i \in 1 .. Len(serial') : serial'[i] \in RightAnswers(current)
    <3>1. \A i \in 1 .. Len(serial') : i \in 1 .. Len(serial) \/ i = Len(serial) + 1
      BY <2>3, <1>7
    <3>2. QED
      BY <3>1, <2>3, <2>5, <1>3
  <2>7. Outstanding' = Outstanding
    BY <2>3, <1>4, <1>7 DEF Outstanding
  <2>8. HubType'
    BY <2>1, <2>3, <1>1, <1>4 DEF HubType, hubVars
  <2>9. GetInv' /\ ResetInv'
    BY <2>1, <2>7, <1>1, <1>5, <1>7, <1>11 DEF Quiet, GetInv, ResetInv, hubVars
  <2>10. TotalInv'
    BY <2>4, <1>1 DEF TotalInv
  <2>11. QED
    BY <2>6, <2>8, <2>9, <2>10, <1>9, <1>10 DEF Quiet
<1>12. CASE runningTotalCommand
  <2>1. current.kind = "total"
    BY <1>3, <1>12 DEF Quiet, GetInv, ResetInv
  <2>2. /\ serial = <<>> /\ numNodesWaitingResult = Outstanding
        /\ totalCommandResult \subseteq AllValues(id)
        /\ Cardinality(totalCommandResult) + numNodesWaitingResult = NumNodes
        /\ \A i \in 1 .. Len(responses) : responses[i] \notin totalCommandResult
        /\ \A m \in Asked : Value(id, m) \notin totalCommandResult
    BY <1>12, <2>1 DEF Quiet, TotalInv, id
  <2>3. /\ IsFiniteSet(totalCommandResult) /\ Cardinality(totalCommandResult) \in Nat
        /\ NumNodes \in Nat
    BY <2>2, ValuesCounted, FS_Subset, FS_CardinalityType, NodesCounted
  <2>4. numNodesWaitingResult = Len(responses) + Cardinality(Asked)
        /\ numNodesWaitingResult \in 1 .. 256
    <3>1. Len(serial) = 0
      BY <2>2
    <3>2. numNodesWaitingResult = Len(responses) + Cardinality(Asked)
      BY <2>2, <3>1, <1>4, <1>7 DEF Outstanding
    <3>3. numNodesWaitingResult \in Nat /\ numNodesWaitingResult >= 1
      BY <3>2, <1>4, <1>7
    <3>4. numNodesWaitingResult <= 256
      BY <3>3, <2>2, <2>3
    <3>5. \A w \in Nat : w >= 1 /\ w <= 256 => w \in 1 .. 256
      OBVIOUS
    <3>6. QED
      BY <3>2, <3>3, <3>4, <3>5
  <2>5. (numNodesWaitingResult + 255) % 256 = numNodesWaitingResult - 1
    <3>1. \A w \in 1 .. 256 : (w + 255) % 256 = w - 1
      OBVIOUS
    <3>2. QED
      BY <2>4, <3>1
  <2> DEFINE total == totalCommandResult \union {v}
             left == numNodesWaitingResult - 1
  <2>6. /\ numNodesWaitingResult' = left /\ totalCommandResult' = total
        /\ IF left = 0
           THEN serial' = Append(serial, total) /\ runningTotalCommand' = FALSE
           ELSE serial' = serial /\ runningTotalCommand' = TRUE
    <3>1. SendTotalIfAll(left, TRUE, total)
      BY <2>5, <1>12 DEF ReceiveResponse, TotalWith, v
    <3>2. QED
      BY <3>1 DEF SendTotalIfAll, AllReceived
  <2>7. v \notin totalCommandResult
    BY <2>2, <1>4, <1>6
  <2>8. total \subseteq AllValues(id) /\ Cardinality(total) = Cardinality(totalCommandResult) + 1
    BY <2>2, <2>3, <2>7, <1>6, FS_AddElement
  <2>9. left = Len(responses') + Cardinality(Asked) /\ left \in Nat
        /\ Cardinality(total) + left = NumNodes
    <3>1. left = Len(responses') + Cardinality(Asked)
      BY <2>4, <1>4, <1>7
    <3>2. left \in Nat
      <4>1. \A w \in 1 .. 256 : w - 1 \in Nat
        OBVIOUS
      <4>2. QED
        BY <4>1, <2>4
    <3>3. Cardinality(total) + left = NumNodes
      <4> HIDE DEF total
      <4>1. QED
        BY <2>2, <2>3, <2>4, <2>8
    <3>4. QED
      BY <3>1, <3>2, <3>3
  <2>10. total \in SUBSET (Nat \X Nodes)
    BY <1>1, <1>4 DEF HubType
  <2> HIDE DEF total, left
  <2>11. CASE left = 0
    <3>1. total = AllValues(id)
      <4>1. Cardinality(total) = NumNodes
        BY <2>9, <2>11, <2>3, <2>8
      <4>2. QED
        BY <4>1, <2>8, ValuesCounted, FS_Subset
    <3>2. serial' = <<total>> /\ Len(serial') = 1 /\ serial'[1] = total /\ ~runningTotalCommand'
          /\ \A i \in 1 .. 1 : i = 1
      BY <2>2, <2>6, <2>11, OnlyEntry
    <3>3. serial' \in Seq(SUBSET (Nat \X Nodes))
      BY <2>10, <3>2
    <3>4. responses' = <<>> /\ Asked' = {}
      <4>1. Len(responses') = 0 /\ Cardinality(Asked) = 0
        BY <2>9, <2>11, <1>4, <1>7
      <4>2. Asked \in SUBSET Nodes
        BY DEF Asked
      <4>3. QED
        BY <4>1, <4>2, <1>4, <1>7, NodesSubset
    <3>5. \A i \in 1 .. Len(serial') : serial'[i] \in RightAnswers(current)
      BY <2>1, <3>1, <3>2, RightAnswersAre DEF id
    <3>6. HubType'
      BY <2>6, <2>9, <2>10, <3>2, <3>3, <1>1, <1>4 DEF HubType
    <3>7. GetInv' /\ ResetInv' /\ TotalInv'
      BY <2>1, <3>2, <3>4, <1>1 DEF GetInv, ResetInv, TotalInv
    <3>8. QED
      BY <3>5, <3>6, <3>7, <1>9, <1>10 DEF Quiet
  <2>12. CASE left # 0
    <3>1. serial' = <<>> /\ runningTotalCommand' /\ runningTotalCommand' \in BOOLEAN
          /\ Len(<<>>) = 0 /\ <<>> \in Seq(SUBSET (Nat \X Nodes)) /\ 1 .. 0 = {}
      BY <2>2, <2>6, <2>12
    <3>2. \A i \in 1 .. Len(serial') : serial'[i] \in RightAnswers(current)
      BY <3>1
    <3>3. HubType'
      BY <2>6, <2>9, <2>10, <3>1, <1>1, <1>4 DEF HubType
    <3>4. Outstanding' = left /\ left >= 1
      BY <2>9, <2>12, <3>1, <1>4, <1>7 DEF Outstanding
    <3>5. /\ \A i \in 1 .. Len(responses') : responses'[i] \notin total
          /\ \A m \in Asked' : Value(id, m) \notin total
      BY <2>2, <1>5, <1>6, <1>7 DEF total
    <3>6. TotalInv'
      BY <2>1, <2>6, <2>8, <2>9, <3>1, <3>4, <3>5, <1>1 DEF TotalInv, id
    <3>7. GetInv' /\ ResetInv'
      BY <2>1, <1>1 DEF GetInv, ResetInv
    <3>8. QED
      BY <3>2, <3>3, <3>6, <3>7, <1>9, <1>10 DEF Quiet
  <2>13. QED
    BY <2>11, <2>12
<1>13. QED
  BY <1>11, <1>12

\* The PC takes a response, the last one for its command if nothing else is under way.
LEMMA PCReceivesQuiet ==
  ASSUME Quiet, PCReceives
  PROVE  Quiet'
<1> DEFINE v == Head(serial)
           a == [command |-> current, value |-> v]
<1>1. /\ HubType /\ serial # <<>> /\ serial' = Tail(serial)
      /\ UNCHANGED <<hubVars, requests, responses, numCommands>>
  BY DEF Quiet, PCReceives, pcVars
<1>2. current # NoCommand
  BY <1>1 DEF Quiet, IdleInv, Silent
<1>3. /\ accepted' = accepted \union {a}
      /\ IF current.kind = "reset" /\ missingACKs > 1
         THEN missingACKs' = missingACKs - 1 /\ current' = current
         ELSE missingACKs' = 0 /\ current' = NoCommand
  BY <1>2 DEF PCReceives, MoreACKsNeeded
<1>4. /\ serial' \in Seq(SUBSET (Nat \X Nodes)) /\ Len(serial') = Len(serial) - 1
      /\ Len(serial) >= 1 /\ Len(serial) \in Nat
      /\ \A i \in 1 .. Len(serial) - 1 : serial'[i] = serial[i + 1]
      /\ v = serial[1]
  BY <1>1, TailIs DEF HubType
<1>5. v \in RightAnswers(current)
      /\ \A i \in 1 .. Len(serial') : serial'[i] \in RightAnswers(current)
  <2>1. 1 \in 1 .. Len(serial) /\ \A i \in 1 .. Len(serial') : i + 1 \in 1 .. Len(serial)
    BY <1>4
  <2>2. \A i \in 1 .. Len(serial) : serial[i] \in RightAnswers(current)
    BY <1>2 DEF Quiet, FlightInv
  <2>3. QED
    BY <2>1, <2>2, <1>4
<1>6. AnswersInv'
  <2>1. a.command = current /\ a.value = v
    OBVIOUS
  <2> HIDE DEF a, v
  <2>2. QED
    BY <2>1, <1>3, <1>5 DEF Quiet, AnswersInv
<1> HIDE DEF a, v
<1>7. Asked' = Asked /\ Cardinality(Asked) \in Nat /\ Len(responses) \in Nat
      /\ Outstanding \in Nat
  BY <1>1, SilentMeans DEF Asked
<1>8. Outstanding' = Outstanding - 1
  BY <1>1, <1>4, <1>7 DEF Outstanding
<1>9. HubType'
  <2>1. missingACKs' \in Nat
    BY <1>1, <1>3 DEF HubType
  <2>2. QED
    BY <2>1, <1>1, <1>4 DEF HubType, hubVars
<1>10. current.kind \in {"get", "total", "reset"} /\ ~runningTotalCommand
  BY <1>1, <1>2 DEF Quiet, FlightInv, GetInv, ResetInv, TotalInv
<1>11. CASE current.kind = "reset" /\ missingACKs > 1
  <2>1. current' = current
    BY <1>3, <1>11
  <2>2. FlightInv'
    BY <2>1, <1>1, <1>5, <1>7 DEF Quiet, FlightInv
  <2>3. missingACKs = Outstanding
    BY <1>11 DEF Quiet, ResetInv
  <2>4. missingACKs' = Outstanding' /\ Outstanding' >= 1
    BY <2>3, <1>3, <1>7, <1>8, <1>11
  <2>5. GetInv' /\ ResetInv' /\ TotalInv' /\ IdleInv'
    BY <2>1, <2>4, <1>1, <1>2, <1>10, <1>11
       DEF GetInv, ResetInv, TotalInv, IdleInv, hubVars
  <2>6. QED
    BY <2>2, <2>5, <1>6, <1>9 DEF Quiet
<1>12. CASE ~(current.kind = "reset" /\ missingACKs > 1)
  <2>1. current' = NoCommand /\ NoCommand.kind = "none"
    BY <1>3, <1>12 DEF NoCommand
  <2>2. Outstanding' = 0
    <3>1. CASE current.kind = "get"
      BY <3>1, <1>7, <1>8 DEF Quiet, GetInv
    <3>2. CASE current.kind = "reset"
      <4>1. missingACKs = Outstanding /\ Outstanding >= 1
        BY <3>2 DEF Quiet, ResetInv
      <4>2. ~(missingACKs > 1)
        BY <1>12, <3>2
      <4>3. QED
        BY <4>1, <4>2, <1>7, <1>8
    <3>3. CASE current.kind = "total"
      <4>1. Len(serial) = 1 /\ responses = <<>> /\ Asked = {}
        BY <3>3, <1>10 DEF Quiet, TotalInv
      <4>2. Len(responses) = 0 /\ Cardinality(Asked) = 0
        BY <4>1, FS_EmptySet
      <4>3. Outstanding = 1
        BY <4>1, <4>2 DEF Outstanding
      <4>4. QED
        BY <4>3, <1>8
    <3>4. QED
      BY <3>1, <3>2, <3>3, <1>10
  <2>3. Silent'
    <3>1. Len(serial') \in Nat /\ (Len(serial') = 0 <=> serial' = <<>>)
      BY <1>4
    <3>2. Len(responses) = 0 <=> responses = <<>>
      BY <1>1 DEF HubType
    <3>3. Len(serial') + Len(responses) + Cardinality(Asked) = 0
      BY <2>2, <1>1, <1>7 DEF Outstanding
    <3>4. Len(serial') = 0 /\ Len(responses) = 0 /\ Cardinality(Asked) = 0
      BY <3>1, <3>3, <1>7
    <3>5. Asked = {}
      <4>1. Asked \in SUBSET Nodes
        BY DEF Asked
      <4>2. QED
        BY <3>4, <4>1, NodesSubset
    <3>6. QED
      BY <1>1, <3>1, <3>2, <3>4, <3>5 DEF Silent, Asked
  <2>4. IdleInv'
    BY <2>3, <1>1, <1>10 DEF IdleInv, hubVars
  <2>5. FlightInv' /\ GetInv' /\ ResetInv' /\ TotalInv'
    BY <2>1 DEF FlightInv, GetInv, ResetInv, TotalInv
  <2>6. QED
    BY <2>4, <2>5, <1>6, <1>9 DEF Quiet
<1>13. QED
  BY <1>11, <1>12

\* While nothing is disturbed, the PC has no command to give up.
LEMMA NeverTimesOut ==
  ASSUME Quiet
  PROVE  ~PCTimesOut
<1> SUFFICES ASSUME PCTimesOut PROVE FALSE
  OBVIOUS
<1>1. HubType /\ current # NoCommand /\ Silent
  BY DEF Quiet, PCTimesOut, NoResponse
<1>2. Outstanding = 0 /\ serial = <<>> /\ Len(<<>>) = 0
  BY <1>1, SilentMeans
<1>3. current.kind # "get"
  BY <1>2 DEF Quiet, GetInv
<1>4. current.kind # "reset"
  BY <1>2 DEF Quiet, ResetInv
<1>5. current.kind # "total"
  BY <1>2 DEF Quiet, TotalInv
<1>6. QED
  BY <1>1, <1>3, <1>4, <1>5 DEF Quiet, FlightInv

\* What a step that changes none of this leaves.
LEMMA SameQuiet ==
  ASSUME Quiet,
         UNCHANGED <<pcVars, hubVars, requests, responses, serial>>
  PROVE  Quiet'
<1>1. UNCHANGED <<current, numCommands, missingACKs, accepted, runningTotalCommand,
                  numNodesWaitingResult, totalCommandResult, requests, responses, serial>>
  BY DEF pcVars, hubVars
<1>2. Asked' = Asked /\ Outstanding' = Outstanding /\ Silent' = Silent
  BY <1>1 DEF Asked, Outstanding, Silent
<1>3. HubType' /\ IdleInv' /\ AnswersInv'
  BY <1>1, <1>2 DEF Quiet, HubType, IdleInv, AnswersInv
<1>4. FlightInv'
  BY <1>1, <1>2 DEF Quiet, FlightInv
<1>5. GetInv' /\ ResetInv' /\ TotalInv'
  BY <1>1, <1>2 DEF Quiet, GetInv, ResetInv, TotalInv
<1>6. QED
  BY <1>3, <1>4, <1>5 DEF Quiet

\* Every step keeps the invariant.
LEMMA StepHubInv ==
  ASSUME NumNodes <= 256, HubInv, [Next]_vars
  PROVE  HubInv'
<1>1. lost \in Nat /\ hasty \in BOOLEAN
  BY DEF HubInv
<1>2. ASSUME NEW kind \in Kinds, NEW dest \in Nodes, SendCommand(kind, dest) PROVE HubInv'
  <2>1. PICK size \in NodeIdsSizes : hasty' = (hasty \/ known # Nodes \/ ListShort(kind, size))
    BY <1>2 DEF SendCommand
  <2>2. lost' \in Nat /\ hasty' \in BOOLEAN
    <3>1. lost' = lost
      BY <1>2 DEF SendCommand
    <3>2. (hasty \/ known # Nodes \/ ListShort(kind, size)) \in BOOLEAN
      OBVIOUS
    <3>3. QED
      BY <2>1, <3>1, <3>2, <1>1
  <2>3. ASSUME Undisturbed' PROVE Quiet'
    <3>1. ~hasty' /\ lost' = 0 /\ lost' = lost
      BY <1>2, <2>3 DEF Undisturbed, SendCommand
    <3>2. ~hasty /\ known = Nodes
      BY <2>1, <3>1, Zenon
    <3>3. Undisturbed
      BY <3>1, <3>2 DEF Undisturbed
    <3>4. QED
      BY <3>1, <3>2, <3>3, <1>2, SendCommandQuiet DEF HubInv
  <2>4. QED
    BY <2>2, <2>3 DEF HubInv
<1>3. ASSUME NEW n \in Nodes, ExecuteRequest(n) PROVE HubInv'
  <2>1. UNCHANGED <<lost, hasty>>
    BY <1>3 DEF ExecuteRequest
  <2>2. QED
    BY <2>1, <1>3, ExecuteRequestQuiet DEF HubInv, Undisturbed
<1>4. ASSUME NEW n \in Nodes, Register(n) PROVE HubInv'
  <2>1. UNCHANGED <<lost, hasty, pcVars, hubVars, requests, responses, serial>>
    BY <1>4 DEF Register
  <2>2. QED
    BY <2>1, SameQuiet DEF HubInv, Undisturbed
<1>5. CASE ReceiveResponse
  <2>1. UNCHANGED <<lost, hasty>>
    BY <1>5 DEF ReceiveResponse
  <2>2. QED
    BY <2>1, <1>5, ReceiveResponseQuiet DEF HubInv, Undisturbed
<1>6. CASE PCReceives
  <2>1. UNCHANGED <<lost, hasty>>
    BY <1>6 DEF PCReceives
  <2>2. QED
    BY <2>1, <1>6, PCReceivesQuiet DEF HubInv, Undisturbed
<1>7. CASE LoseResponse
  <2>1. lost' = lost + 1 /\ hasty' = hasty
    BY <1>7 DEF LoseResponse
  <2>2. lost' \in Nat /\ lost' # 0
    BY <2>1, <1>1
  <2>3. QED
    BY <2>1, <2>2, <1>1 DEF HubInv, Undisturbed
<1>8. CASE PCTimesOut
  <2>1. UNCHANGED <<lost, hasty>>
    BY <1>8 DEF PCTimesOut
  <2>2. QED
    BY <2>1, <1>8, NeverTimesOut DEF HubInv, Undisturbed
<1>9. CASE UNCHANGED vars
  <2>1. UNCHANGED <<lost, hasty, pcVars, hubVars, requests, responses, serial>>
    BY <1>9 DEF vars
  <2>2. QED
    BY <2>1, SameQuiet DEF HubInv, Undisturbed
<1>10. QED
  BY <1>2, <1>3, <1>4, <1>5, <1>6, <1>7, <1>8, <1>9 DEF Next, Deliver

----------------------------------------------------------------------------
(***************************************************************************)
(* What the PC shows for a command is the answer to it: the value of the   *)
(* node asked, or the total over all nodes, unless a response was lost or  *)
(* a command was sent between a reset and the wakeups after it, or a reset *)
(* before the list of the PC was complete.  A node id is a uint8_t, so     *)
(* that there are no more than 256 nodes.                                  *)
(***************************************************************************)
THEOREM HubAnswerRight == ASSUME NumNodes <= 256 PROVE Spec => []AnswerRight
<1>1. Init => HubInv
  BY InitHubInv
<1>2. HubInv /\ [Next]_vars => HubInv'
  BY StepHubInv
<1>3. HubInv => AnswerRight
  BY DEF HubInv, Quiet, AnswersInv, AnswerRight
<1>4. QED
  BY <1>1, <1>2, <1>3, PTL DEF Spec

(***************************************************************************)
(* While a total is open the hub waits for as many results as there are    *)
(* requests and responses under way, and has added up the others: the      *)
(* uint8_t that counts them neither wraps around nor ends the sum early.   *)
(***************************************************************************)
THEOREM HubWaitingForRest == ASSUME NumNodes <= 256 PROVE Spec => []WaitingForRest
<1>1. Init => HubInv
  BY InitHubInv
<1>2. HubInv /\ [Next]_vars => HubInv'
  BY StepHubInv
<1>3. HubInv => WaitingForRest
  <2> SUFFICES ASSUME Quiet, runningTotalCommand
               PROVE  /\ numNodesWaitingResult = Len(responses) + Cardinality(Asked)
                      /\ Cardinality(totalCommandResult) = NumNodes - numNodesWaitingResult
    BY DEF HubInv, WaitingForRest, Asked
  <2>1. HubType /\ current # NoCommand
    BY DEF Quiet, IdleInv
  <2>2. current.kind = "total"
    BY <2>1 DEF Quiet, FlightInv, GetInv, ResetInv
  <2>3. /\ serial = <<>> /\ numNodesWaitingResult = Outstanding
        /\ totalCommandResult \subseteq AllValues(current.id)
        /\ Cardinality(totalCommandResult) + numNodesWaitingResult = NumNodes
    BY <2>2 DEF Quiet, TotalInv
  <2>4. /\ Outstanding \in Nat /\ Len(responses) \in Nat /\ Cardinality(Asked) \in Nat
        /\ Len(serial) = 0
    BY <2>1, <2>3, SilentMeans
  <2>5. Cardinality(totalCommandResult) \in Nat /\ NumNodes \in Nat
    BY <2>3, ValuesCounted, FS_Subset, FS_CardinalityType, NodesCounted
  <2>6. numNodesWaitingResult = Len(responses) + Cardinality(Asked)
    BY <2>3, <2>4 DEF Outstanding
  <2>7. QED
    BY <2>3, <2>4, <2>5, <2>6
<1>4. QED
  BY <1>1, <1>2, <1>3, PTL DEF Spec
=============================================================================
