------------------------- MODULE CommandQueueProofs -------------------------
(***************************************************************************)
(* The command queue never stalls, sends every command once and hands out  *)
(* every response to its own command, for any number of threads, clients,  *)
(* nodes and commands; the last two as long as no two threads overlap.     *)
(***************************************************************************)
EXTENDS CommandQueue, SequenceTheorems, TLAPS

\* The part of the type invariant that the argument needs.
QueueType ==
    /\ commandsQueue \in Seq(Element)
    /\ pc \in [Threads -> {"idle", "execute", "write", "expires", "wait"}]
    /\ waits \in Nat
    /\ fired \in Nat
    /\ numCommands \in Nat

\* The inductive invariant.
QueueInv == QueueType /\ NoStall

\* Nothing is queued and no thread is busy when the server starts.
LEMMA InitQueueInv == Init => QueueInv
  BY DEF Init, QueueInv, QueueType, NoStall

\* A thread that moves to a busy place keeps a queued command from being forgotten.
LEMMA BusyThread ==
  ASSUME NEW t \in Threads, NEW label \in {"execute", "write", "expires", "wait"},
         pc \in [Threads -> {"idle", "execute", "write", "expires", "wait"}], GoTo(t, label)
  PROVE  /\ pc' \in [Threads -> {"idle", "execute", "write", "expires", "wait"}]
         /\ \E u \in Threads : pc'[u] # "idle"
<1>1. pc'[t] = label /\ pc' \in [Threads -> {"idle", "execute", "write", "expires", "wait"}]
  BY DEF GoTo
<1>2. QED
  BY <1>1

\* addCommandToQueue leaves a command alone only behind another one.
LEMMA AddCommandInv ==
  ASSUME QueueInv, NEW t \in Threads, NEW client \in Senders, NEW cmd \in {"r", "g"},
         AddCommandToQueue(t, client, cmd)
  PROVE  QueueInv'
<1>1. [id |-> numCommands + 1, cmd |-> cmd, client |-> client] \in Element
  BY MaxCommandsAssumption DEF AddCommandToQueue, Element, QueueInv, QueueType
<1>2. commandsQueue' \in Seq(Element) /\ numCommands' \in Nat
  BY <1>1 DEF AddCommandToQueue, QueueInv, QueueType
<1>3. waits' = waits /\ fired' = fired
  BY DEF AddCommandToQueue, timerVars
<1>4. CASE OnlyCommandInQueue
  <2>1. GoTo(t, "execute")
    BY <1>4 DEF AddCommandToQueue, Run
  <2>2. QED
    BY <2>1, <1>2, <1>3, BusyThread DEF QueueInv, QueueType, NoStall
<1>5. CASE ~OnlyCommandInQueue
  <2>1. commandsQueue # <<>>
    BY <1>5 DEF OnlyCommandInQueue
  <2>2. pc' = pc
    BY <1>5 DEF AddCommandToQueue, Run, GoTo, Idle, QueueInv, QueueType
  <2>3. QED
    BY <2>1, <2>2, <1>2, <1>3 DEF QueueInv, QueueType, NoStall
<1>6. QED
  BY <1>4, <1>5

\* Inside executeNextInCommandQueue, up to the timer.
LEMMA ThreadStepInv ==
  ASSUME QueueInv, NEW t \in Threads, ThreadStep(t)
  PROVE  QueueInv'
<1>1. CASE ExecuteNothing(t)
  BY <1>1 DEF ExecuteNothing, GoTo, timerVars, QueueInv, QueueType, NoStall
<1>2. CASE ExecuteDisconnected(t)
  <2>1. commandsQueue' \in Seq(Element)
    BY <1>2, HeadTailProperties DEF ExecuteDisconnected, QueueInv, QueueType
  <2>2. pc' = pc /\ waits' = waits /\ fired' = fired /\ numCommands' = numCommands
    BY <1>2 DEF ExecuteDisconnected, threadVars, timerVars
  <2>3. pc[t] # "idle"
    BY <1>2 DEF ExecuteDisconnected
  <2>4. QED
    BY <2>1, <2>2, <2>3 DEF QueueInv, QueueType, NoStall
<1>3. CASE ExecuteNext(t)
  BY <1>3, BusyThread DEF ExecuteNext, timerVars, QueueInv, QueueType, NoStall
<1>4. CASE WriteToSerialPort(t)
  BY <1>4, BusyThread DEF WriteToSerialPort, timerVars, QueueInv, QueueType, NoStall
<1>5. CASE ExpiresAfter(t)
  BY <1>5, BusyThread DEF ExpiresAfter, QueueInv, QueueType, NoStall
<1>6. CASE AsyncWait(t)
  BY <1>6 DEF AsyncWait, GoTo, QueueInv, QueueType, NoStall
<1>7. QED
  BY <1>1, <1>2, <1>3, <1>4, <1>5, <1>6 DEF ThreadStep

\* A handler that takes a command out of the queue executes the next one.
LEMMA ThreadStartsInv ==
  ASSUME QueueInv, NEW t \in Threads, ThreadStarts(t)
  PROVE  QueueInv'
<1>1. CASE CommandTimedOut(t)
  <2>1. GoTo(t, "execute")
    BY <1>1 DEF CommandTimedOut, ExecuteAfterTimeout, Run
  <2>2. commandsQueue' \in Seq(Element)
    BY <1>1, HeadTailProperties DEF CommandTimedOut, QueueInv, QueueType
  <2>3. waits' = waits /\ fired' \in Nat /\ numCommands' = numCommands
    BY <1>1 DEF CommandTimedOut, QueueInv, QueueType
  <2>4. QED
    BY <2>1, <2>2, <2>3, BusyThread DEF QueueInv, QueueType, NoStall
<1>2. CASE ResponseIgnored(t)
  BY <1>2 DEF ResponseIgnored, threadVars, timerVars, QueueInv, QueueType, NoStall
<1>3. ASSUME NEW isOne \in BOOLEAN, ResetAckCounted(t, isOne)
      PROVE  QueueInv'
  BY <1>3 DEF ResetAckCounted, threadVars, timerVars, QueueInv, QueueType, NoStall
<1>4. ASSUME NEW isOne \in BOOLEAN, ReceivedCommandResponse(t, isOne)
      PROVE  QueueInv'
  <2>1. GoTo(t, "execute")
    BY <1>4 DEF ReceivedCommandResponse, Run
  <2>2. commandsQueue' \in Seq(Element)
    BY <1>4, HeadTailProperties DEF ReceivedCommandResponse, QueueInv, QueueType
  <2>3. waits' = 0 /\ fired' = fired /\ numCommands' = numCommands
    BY <1>4 DEF ReceivedCommandResponse, WaitsAfterResponse
  <2>4. QED
    BY <2>1, <2>2, <2>3, BusyThread DEF QueueInv, QueueType, NoStall
<1>5. QED
  BY <1>1, <1>2, <1>3, <1>4 DEF ThreadStarts

\* Every step keeps the inductive invariant.
LEMMA NextQueueInv == QueueInv /\ [Next]_vars => QueueInv'
<1> SUFFICES ASSUME QueueInv, [Next]_vars PROVE QueueInv'
  OBVIOUS
<1>1. CASE TimerExpires
  BY <1>1 DEF TimerExpires, threadVars, QueueInv, QueueType, NoStall
<1>2. CASE HubAnswers
  BY <1>2 DEF HubAnswers, threadVars, timerVars, QueueInv, QueueType, NoStall
<1>3. ASSUME NEW client \in Clients, RemoveClientSession(client) PROVE QueueInv'
  BY <1>3 DEF RemoveClientSession, threadVars, timerVars, QueueInv, QueueType, NoStall
<1>4. CASE UNCHANGED vars
  BY <1>4 DEF vars, progVars, threadVars, timerVars, QueueInv, QueueType, NoStall
<1>5. QED
  BY <1>1, <1>2, <1>3, <1>4, AddCommandInv, ThreadStepInv, ThreadStartsInv DEF Next, Step

(***************************************************************************)
(* However the threads of the server interleave, a queued command is       *)
(* always waited for: some thread is executing, or a timeout is to come.   *)
(***************************************************************************)
THEOREM CommandQueueNoStall == Spec => []NoStall
<1>1. QueueInv => NoStall
  BY DEF QueueInv
<1>2. QED
  BY <1>1, InitQueueInv, NextQueueInv, PTL DEF Spec

----------------------------------------------------------------------------
(***************************************************************************)
(* Each command is sent once, unless threads overlap.  The queue holds the *)
(* commands in the order of their numbers, so it is enough that what was   *)
(* sent is not behind what is queued: at most the front of the queue has   *)
(* been sent, and it has not while a thread is about to execute it.        *)
(***************************************************************************)

SendType ==
    /\ QueueType
    /\ sent \in Seq(Element)
    /\ local \in [Threads -> {<<>>} \union {<<e>> : e \in Element}]

Places == 1 .. Len(commandsQueue)

OneBusy == \A t, u \in Threads : pc[t] # "idle" /\ pc[u] # "idle" => t = u

QueueOrdered ==
    /\ \A i \in Places : commandsQueue[i].id <= numCommands
    /\ \A i, j \in Places : i < j => commandsQueue[i].id < commandsQueue[j].id

SentOld == \A k \in 1 .. Len(sent) : sent[k].id <= numCommands

SentBefore == \A k \in 1 .. Len(sent), i \in Places : sent[k].id <= commandsQueue[i].id

NoneSent == \A k \in 1 .. Len(sent), i \in Places : sent[k].id < commandsQueue[i].id

HeadNotSent == \A t \in Threads : pc[t] = "execute" => NoneSent

\* A command that a thread is about to write.
ToBeSent(e) ==
    /\ e.id <= numCommands
    /\ \A k \in 1 .. Len(sent) : sent[k].id < e.id
    /\ \A i \in Places : e.id <= commandsQueue[i].id

LocalNotSent ==
    \A t \in Threads : pc[t] = "write" => \E e \in Element : local[t] = <<e>> /\ ToBeSent(e)

Tidy ==
    /\ OneBusy /\ QueueOrdered /\ SentOld /\ SentBefore
    /\ HeadNotSent /\ LocalNotSent /\ SentOnce

\* The inductive invariant.
SendInv == QueueInv /\ SendType /\ (~overlapped => Tidy)

\* Numbers of commands are natural numbers.
LEMMA ElementId ==
  ASSUME NEW e \in Element
  PROVE  e.id \in Nat
  BY MaxCommandsAssumption DEF Element

\* Nothing has been sent when the server starts.
LEMMA InitSendInv == Init => SendInv
<1> SUFFICES ASSUME Init PROVE SendInv
  OBVIOUS
<1>1. SendType
  BY DEF Init, SendType, QueueType
<1>2. OneBusy /\ HeadNotSent /\ LocalNotSent
  BY DEF Init, OneBusy, HeadNotSent, LocalNotSent
<1>3. Len(commandsQueue) = 0 /\ Len(sent) = 0
  BY DEF Init
<1>4. QueueOrdered /\ SentOld /\ SentBefore /\ SentOnce
  BY <1>3 DEF QueueOrdered, SentOld, SentBefore, SentOnce, Places
<1>5. QED
  BY <1>1, <1>2, <1>4, InitQueueInv DEF SendInv, Tidy

\* When the front leaves, none of the others has been sent.
LEMMA FrontLeaves ==
  ASSUME SendType, QueueOrdered, SentOld, SentBefore, commandsQueue # <<>>,
         commandsQueue' = Tail(commandsQueue), UNCHANGED <<sent, numCommands>>
  PROVE  QueueOrdered' /\ SentOld' /\ SentBefore' /\ NoneSent'
<1>1. /\ Len(commandsQueue) \in Nat \ {0} /\ Len(commandsQueue') = Len(commandsQueue) - 1
      /\ \A i \in 1 .. Len(commandsQueue') : commandsQueue'[i] = commandsQueue[i + 1]
  BY HeadTailProperties, EmptySeq DEF SendType, QueueType
<1>2. \A i \in Places : commandsQueue[i].id \in Nat
  BY ElementId, ElementOfSeq DEF SendType, QueueType, Places
<1>3. \A k \in 1 .. Len(sent) : sent[k].id \in Nat
  BY ElementId, ElementOfSeq DEF SendType
<1>4. \A i \in Places' : /\ i + 1 \in Places /\ 1 \in Places /\ i \in Nat /\ 1 < i + 1
                         /\ commandsQueue'[i] = commandsQueue[i + 1]
  BY <1>1 DEF Places
<1>5. QueueOrdered' /\ SentOld'
  <2>1. SentOld'
    BY DEF SentOld
  <2>2. \A i \in Places' : commandsQueue'[i].id <= numCommands'
    BY <1>4 DEF QueueOrdered
  <2>3. ASSUME NEW i \in Places', NEW j \in Places', i < j
        PROVE  commandsQueue'[i].id < commandsQueue'[j].id
    <3>1. /\ i + 1 \in Places /\ i \in Nat /\ commandsQueue'[i] = commandsQueue[i + 1]
      BY <1>4
    <3>2. /\ j + 1 \in Places /\ j \in Nat /\ commandsQueue'[j] = commandsQueue[j + 1]
      BY <1>4
    <3>3. i + 1 < j + 1
      BY <3>1, <3>2, <2>3
    <3>4. commandsQueue[i + 1].id < commandsQueue[j + 1].id
      BY <3>1, <3>2, <3>3 DEF QueueOrdered
    <3>5. QED
      BY <3>1, <3>2, <3>4
  <2>4. QED
    BY <2>1, <2>2, <2>3 DEF QueueOrdered
<1>6. ASSUME NEW k \in 1 .. Len(sent), NEW i \in Places'
      PROVE  /\ sent[k].id < commandsQueue'[i].id
             /\ sent[k].id <= commandsQueue'[i].id
  <2>1. /\ i + 1 \in Places /\ 1 \in Places /\ 1 < i + 1
        /\ commandsQueue'[i] = commandsQueue[i + 1]
    BY <1>4
  <2>2. sent[k].id <= commandsQueue[1].id
    BY <2>1 DEF SentBefore
  <2>3. commandsQueue[1].id < commandsQueue[i + 1].id
    BY <2>1 DEF QueueOrdered
  <2>4. sent[k].id \in Nat /\ commandsQueue[1].id \in Nat /\ commandsQueue[i + 1].id \in Nat
    BY <2>1, <1>2, <1>3
  <2>5. /\ sent[k].id < commandsQueue[i + 1].id
        /\ sent[k].id <= commandsQueue[i + 1].id
    BY <2>2, <2>3, <2>4
  <2>6. QED
    BY <2>1, <2>5
<1>7. NoneSent' /\ SentBefore'
  BY <1>6 DEF NoneSent, SentBefore
<1>8. QED
  BY <1>5, <1>6, <1>7

\* A command that is added gets a number above all the others.
LEMMA CommandAdded ==
  ASSUME SendType, QueueOrdered, SentOld, SentBefore, NEW e \in Element,
         e.id = numCommands + 1, numCommands' = numCommands + 1,
         commandsQueue' = Append(commandsQueue, e), sent' = sent
  PROVE  /\ QueueOrdered' /\ SentOld' /\ SentBefore'
         /\ NoneSent \/ commandsQueue = <<>> => NoneSent'
         /\ \A f \in Element : ToBeSent(f) => ToBeSent(f)'
<1> DEFINE n == Len(commandsQueue)
<1>1. /\ n \in Nat /\ Len(commandsQueue') = n + 1 /\ commandsQueue'[n + 1] = e
      /\ \A i \in 1 .. n : commandsQueue'[i] = commandsQueue[i]
  BY DEF SendType, QueueType
<1>2. numCommands \in Nat
  BY DEF SendType, QueueType
<1>3. \A i \in Places : commandsQueue[i].id \in Nat
  BY ElementId, ElementOfSeq DEF SendType, QueueType, Places
<1>4. \A k \in 1 .. Len(sent) : sent[k].id \in Nat /\ sent[k].id <= numCommands
  BY ElementId, ElementOfSeq DEF SendType, SentOld
<1>5. ASSUME NEW i \in Places'
      PROVE  /\ i \in Nat /\ i <= n + 1
             /\ \/ i \in Places /\ i < n + 1 /\ commandsQueue'[i] = commandsQueue[i]
                \/ i = n + 1 /\ commandsQueue'[i] = e
  BY <1>1 DEF Places
<1>6. SentOld'
  BY <1>2, <1>4 DEF SentOld
<1>7. QueueOrdered'
  <2>1. ASSUME NEW i \in Places' PROVE commandsQueue'[i].id <= numCommands'
    <3>1. CASE i \in Places /\ commandsQueue'[i] = commandsQueue[i]
      <4>1. commandsQueue[i].id <= numCommands /\ commandsQueue[i].id \in Nat
        BY <3>1, <1>3 DEF QueueOrdered
      <4>2. QED
        BY <4>1, <3>1, <1>2
    <3>2. CASE commandsQueue'[i] = e
      BY <3>2, <1>2
    <3>3. QED
      BY <3>1, <3>2, <1>5
  <2>2. ASSUME NEW i \in Places', NEW j \in Places', i < j
        PROVE  commandsQueue'[i].id < commandsQueue'[j].id
    <3>1. i \in Places /\ commandsQueue'[i] = commandsQueue[i]
      <4>1. j \in Nat /\ j <= n + 1
        BY <1>5
      <4>2. i \in Nat /\ i # n + 1
        BY <4>1, <1>1, <1>5, <2>2
      <4>3. QED
        BY <4>2, <1>5
    <3>2. commandsQueue[i].id <= numCommands /\ commandsQueue[i].id \in Nat
      BY <3>1, <1>3 DEF QueueOrdered
    <3>3. CASE j \in Places /\ commandsQueue'[j] = commandsQueue[j]
      BY <2>2, <3>1, <3>3 DEF QueueOrdered
    <3>4. CASE commandsQueue'[j] = e
      BY <3>1, <3>2, <3>4, <1>2
    <3>5. QED
      BY <3>3, <3>4, <1>5
  <2>3. QED
    BY <2>1, <2>2 DEF QueueOrdered
<1>8. SentBefore'
  <2>1. ASSUME NEW k \in 1 .. Len(sent), NEW i \in Places'
        PROVE  sent[k].id <= commandsQueue'[i].id
    <3>1. CASE i \in Places /\ commandsQueue'[i] = commandsQueue[i]
      BY <3>1 DEF SentBefore
    <3>2. CASE commandsQueue'[i] = e
      BY <3>2, <1>2, <1>4
    <3>3. QED
      BY <3>1, <3>2, <1>5
  <2>2. QED
    BY <2>1 DEF SentBefore
<1>9. ASSUME NoneSent \/ commandsQueue = <<>> PROVE NoneSent'
  <2>1. ASSUME NEW k \in 1 .. Len(sent), NEW i \in Places'
        PROVE  sent[k].id < commandsQueue'[i].id
    <3>1. CASE i \in Places /\ commandsQueue'[i] = commandsQueue[i]
      <4>1. commandsQueue # <<>>
        BY <3>1 DEF Places
      <4>2. QED
        BY <3>1, <4>1, <1>9 DEF NoneSent
    <3>2. CASE commandsQueue'[i] = e
      BY <3>2, <1>2, <1>4
    <3>3. QED
      BY <3>1, <3>2, <1>5
  <2>2. QED
    BY <2>1 DEF NoneSent
<1>10. ASSUME NEW f \in Element, ToBeSent(f) PROVE ToBeSent(f)'
  <2>1. f.id \in Nat /\ f.id <= numCommands
    BY <1>10, ElementId DEF ToBeSent
  <2>2. ASSUME NEW i \in Places' PROVE f.id <= commandsQueue'[i].id
    <3>1. CASE i \in Places /\ commandsQueue'[i] = commandsQueue[i]
      BY <3>1, <1>10 DEF ToBeSent
    <3>2. CASE commandsQueue'[i] = e
      BY <3>2, <1>2, <2>1
    <3>3. QED
      BY <3>1, <3>2, <1>5
  <2>3. f.id <= numCommands' /\ \A k \in 1 .. Len(sent') : sent'[k].id < f.id
    BY <2>1, <1>2, <1>10 DEF ToBeSent
  <2>4. QED
    BY <2>2, <2>3 DEF ToBeSent
<1>11. QED
  BY <1>6, <1>7, <1>8, <1>9, <1>10

\* What no step does that leaves the queue and what was sent as they are.
LEMMA QueueUntouched ==
  ASSUME Tidy, UNCHANGED <<commandsQueue, numCommands, sent>>
  PROVE  /\ QueueOrdered' /\ SentOld' /\ SentBefore' /\ SentOnce'
         /\ NoneSent => NoneSent'
         /\ \A e \in Element : ToBeSent(e) => ToBeSent(e)'
<1>1. Places' = Places
  BY DEF Places
<1>2. QueueOrdered' /\ SentOld' /\ SentBefore' /\ SentOnce'
  BY <1>1 DEF Tidy, QueueOrdered, SentOld, SentBefore, SentOnce
<1>3. NoneSent => NoneSent'
  BY <1>1 DEF NoneSent
<1>4. \A e \in Element : ToBeSent(e) => ToBeSent(e)'
  BY <1>1 DEF ToBeSent
<1>5. QED
  BY <1>2, <1>3, <1>4

\* addCommandToQueue
LEMMA AddCommandTidy ==
  ASSUME SendType, Tidy, OneBusy', NEW t \in Threads, NEW client \in Senders,
         NEW cmd \in {"r", "g"}, AddCommandToQueue(t, client, cmd)
  PROVE  Tidy'
<1> DEFINE e == [id |-> numCommands + 1, cmd |-> cmd, client |-> client]
<1>1. e \in Element /\ e.id = numCommands + 1
  BY MaxCommandsAssumption DEF AddCommandToQueue, Element, SendType, QueueType
<1>2. /\ numCommands' = numCommands + 1 /\ commandsQueue' = Append(commandsQueue, e)
      /\ sent' = sent /\ local' = local /\ pc[t] = "idle"
      /\ pc' = [pc EXCEPT ![t] = IF OnlyCommandInQueue THEN "execute" ELSE "idle"]
  BY DEF AddCommandToQueue, Idle, Run, GoTo
<1> HIDE DEF e
<1>3. /\ QueueOrdered' /\ SentOld' /\ SentBefore'
      /\ NoneSent \/ commandsQueue = <<>> => NoneSent'
      /\ \A f \in Element : ToBeSent(f) => ToBeSent(f)'
  BY <1>1, <1>2, CommandAdded DEF Tidy
<1>4. SentOnce'
  BY <1>2 DEF Tidy, SentOnce
<1>5. \A u \in Threads : u # t => pc'[u] = pc[u]
  BY <1>2 DEF SendType, QueueType
<1>6. pc'[t] = IF OnlyCommandInQueue THEN "execute" ELSE "idle"
  BY <1>2 DEF SendType, QueueType
<1>7. HeadNotSent'
  <2>1. ASSUME NEW u \in Threads, pc'[u] = "execute" PROVE NoneSent'
    <3>1. CASE u # t
      BY <2>1, <3>1, <1>3, <1>5 DEF Tidy, HeadNotSent
    <3>2. CASE u = t
      <4>1. commandsQueue = <<>>
        BY <2>1, <3>2, <1>6, EmptySeq DEF OnlyCommandInQueue, SendType, QueueType
      <4>2. QED
        BY <4>1, <1>3
    <3>3. QED
      BY <3>1, <3>2
  <2>2. QED
    BY <2>1 DEF HeadNotSent
<1>8. LocalNotSent'
  <2>1. ASSUME NEW u \in Threads, pc'[u] = "write"
        PROVE  \E f \in Element : local'[u] = <<f>> /\ ToBeSent(f)'
    <3>1. pc[u] = "write"
      BY <2>1, <1>5, <1>6
    <3>2. QED
      BY <3>1, <1>2, <1>3 DEF Tidy, LocalNotSent
  <2>2. QED
    BY <2>1 DEF LocalNotSent
<1>9. QED
  BY <1>3, <1>4, <1>7, <1>8 DEF Tidy

\* A thread that was idle or executing and removes the front goes on executing.
LEMMA RemovesFrontTidy ==
  ASSUME SendType, Tidy, OneBusy', NEW t \in Threads,
         pc' = [pc EXCEPT ![t] = "execute"], commandsQueue # <<>>,
         commandsQueue' = Tail(commandsQueue), UNCHANGED <<sent, numCommands>>
  PROVE  Tidy'
<1>1. QueueOrdered' /\ SentOld' /\ SentBefore' /\ NoneSent'
  BY FrontLeaves DEF Tidy
<1>2. SentOnce'
  BY DEF Tidy, SentOnce
<1>3. pc'[t] = "execute"
  BY DEF SendType, QueueType
<1>4. \A u \in Threads : pc'[u] # "write"
  BY <1>3 DEF OneBusy
<1>5. QED
  BY <1>1, <1>2, <1>4 DEF Tidy, HeadNotSent, LocalNotSent

\* A thread that takes another place than execute or write, with the queue as it is.
LEMMA GoesElsewhereTidy ==
  ASSUME SendType, Tidy, OneBusy', NEW t \in Threads,
         NEW label \in {"idle", "expires", "wait"}, GoTo(t, label),
         \A u \in Threads \ {t} : local'[u] = local[u],
         UNCHANGED <<commandsQueue, numCommands, sent>>
  PROVE  Tidy'
<1>1. /\ QueueOrdered' /\ SentOld' /\ SentBefore' /\ SentOnce'
      /\ NoneSent => NoneSent'
      /\ \A e \in Element : ToBeSent(e) => ToBeSent(e)'
  BY QueueUntouched
<1>2. \A u \in Threads : pc'[u] \in {"execute", "write"} =>
                           pc'[u] = pc[u] /\ local'[u] = local[u]
  BY DEF GoTo, SendType, QueueType
<1>3. HeadNotSent'
  BY <1>1, <1>2 DEF Tidy, HeadNotSent
<1>4. LocalNotSent'
  BY <1>1, <1>2 DEF Tidy, LocalNotSent
<1>5. QED
  BY <1>1, <1>3, <1>4 DEF Tidy

\* A step of no thread, and one that changes no thread's place.
LEMMA NoneMovesTidy ==
  ASSUME Tidy, OneBusy', UNCHANGED <<pc, local, commandsQueue, numCommands, sent>>
  PROVE  Tidy'
<1>1. /\ QueueOrdered' /\ SentOld' /\ SentBefore' /\ SentOnce'
      /\ NoneSent => NoneSent'
      /\ \A e \in Element : ToBeSent(e) => ToBeSent(e)'
  BY QueueUntouched
<1>2. HeadNotSent' /\ LocalNotSent'
  BY <1>1 DEF Tidy, HeadNotSent, LocalNotSent
<1>3. QED
  BY <1>1, <1>2 DEF Tidy

\* executeNextInCommandQueue takes a copy of the front, which has not been sent.
LEMMA ExecuteNextTidy ==
  ASSUME SendType, Tidy, OneBusy', NEW t \in Threads, ExecuteNext(t)
  PROVE  Tidy'
<1>1. /\ UNCHANGED <<commandsQueue, numCommands, sent>>
      /\ pc[t] = "execute" /\ commandsQueue # <<>>
      /\ pc' = [pc EXCEPT ![t] = "write"]
      /\ local' = [local EXCEPT ![t] = <<Head(commandsQueue)>>]
  BY DEF ExecuteNext, GoTo
<1>2. PICK e \in Element : 1 \in Places /\ e = commandsQueue[1] /\ e = Head(commandsQueue)
  BY <1>1, HeadTailProperties, EmptySeq DEF SendType, QueueType, Places
<1>3. ToBeSent(e)
  <2>1. e.id <= numCommands
    BY <1>2 DEF Tidy, QueueOrdered
  <2>2. \A k \in 1 .. Len(sent) : sent[k].id < e.id
    BY <1>1, <1>2 DEF Tidy, HeadNotSent, NoneSent
  <2>3. ASSUME NEW i \in Places PROVE e.id <= commandsQueue[i].id
    <3>1. e.id \in Nat
      BY <1>2, ElementId
    <3>2. CASE i = 1
      BY <1>2, <3>1, <3>2
    <3>3. CASE i # 1
      <4>1. 1 < i
        BY <3>3 DEF Places
      <4>2. e.id < commandsQueue[i].id
        BY <1>2, <4>1 DEF Tidy, QueueOrdered
      <4>3. commandsQueue[i].id \in Nat
        BY ElementId, ElementOfSeq DEF SendType, QueueType, Places
      <4>4. QED
        BY <3>1, <4>2, <4>3
    <3>4. QED
      BY <3>2, <3>3
  <2>4. QED
    BY <2>1, <2>2, <2>3 DEF ToBeSent
<1>4. /\ QueueOrdered' /\ SentOld' /\ SentBefore' /\ SentOnce'
      /\ \A f \in Element : ToBeSent(f) => ToBeSent(f)'
  BY <1>1, QueueUntouched
<1>5. pc'[t] = "write" /\ local'[t] = <<e>>
  BY <1>1, <1>2 DEF SendType, QueueType
<1>6. \A u \in Threads : u # t => pc'[u] = "idle"
  BY <1>5 DEF OneBusy
<1>7. HeadNotSent'
  BY <1>5, <1>6 DEF HeadNotSent
<1>8. ToBeSent(e)'
  BY <1>2, <1>3, <1>4
<1>9. LocalNotSent'
  BY <1>2, <1>5, <1>6, <1>8 DEF LocalNotSent
<1>10. QED
  BY <1>4, <1>7, <1>9 DEF Tidy

\* writeToSerialPort: the copy is sent; nothing in the queue is older.
LEMMA WriteTidy ==
  ASSUME SendType, Tidy, OneBusy', NEW t \in Threads, WriteToSerialPort(t)
  PROVE  Tidy' /\ sent' \in Seq(Element)
<1> DEFINE n == Len(sent)
<1>1. /\ UNCHANGED <<commandsQueue, numCommands, local>>
      /\ pc[t] = "write" /\ pc' = [pc EXCEPT ![t] = "expires"]
      /\ sent' = sent \o local[t]
  BY DEF WriteToSerialPort, GoTo
<1>2. PICK e \in Element : local[t] = <<e>> /\ ToBeSent(e)
  BY <1>1 DEF Tidy, LocalNotSent
<1>3. /\ sent' \in Seq(Element) /\ n \in Nat /\ Len(sent') = n + 1 /\ sent'[n + 1] = e
      /\ \A k \in 1 .. n : sent'[k] = sent[k]
  <2>1. sent' = Append(sent, e)
    BY <1>1, <1>2 DEF SendType
  <2>2. QED
    BY <2>1 DEF SendType
<1>4. ASSUME NEW k \in 1 .. Len(sent')
      PROVE  \/ k \in 1 .. n /\ sent'[k] = sent[k]
             \/ k = n + 1 /\ sent'[k] = e
  BY <1>3
<1>5. Places' = Places
  BY <1>1 DEF Places
<1>6. SentOld'
  BY <1>1, <1>2, <1>4 DEF Tidy, SentOld, ToBeSent
<1>7. SentBefore'
  <2>1. ASSUME NEW k \in 1 .. Len(sent'), NEW i \in Places
        PROVE  sent'[k].id <= commandsQueue[i].id
    <3>1. CASE k \in 1 .. n /\ sent'[k] = sent[k]
      BY <3>1 DEF Tidy, SentBefore
    <3>2. CASE sent'[k] = e
      BY <3>2, <1>2 DEF ToBeSent
    <3>3. QED
      BY <3>1, <3>2, <1>4
  <2>2. QED
    BY <2>1, <1>1, <1>5 DEF SentBefore
<1>8. SentOnce'
  <2>1. \A k \in 1 .. n : sent[k].id # e.id
    BY <1>2, ElementId, ElementOfSeq DEF ToBeSent, SendType
  <2>2. ASSUME NEW i \in 1 .. Len(sent'), NEW j \in 1 .. Len(sent'), i # j
        PROVE  sent'[i].id # sent'[j].id
    <3>1. CASE i \in 1 .. n /\ sent'[i] = sent[i] /\ j \in 1 .. n /\ sent'[j] = sent[j]
      BY <2>2, <3>1 DEF Tidy, SentOnce
    <3>2. CASE i \in 1 .. n /\ sent'[i] = sent[i] /\ sent'[j] = e
      BY <2>1, <3>2
    <3>3. CASE j \in 1 .. n /\ sent'[j] = sent[j] /\ sent'[i] = e
      BY <2>1, <3>3
    <3>4. QED
      BY <2>2, <3>1, <3>2, <3>3, <1>4
  <2>3. QED
    BY <2>2 DEF SentOnce
<1>9. QueueOrdered'
  BY <1>1, <1>5 DEF Tidy, QueueOrdered
<1>10. pc'[t] = "expires"
  BY <1>1 DEF SendType, QueueType
<1>11. \A u \in Threads : pc'[u] # "execute" /\ pc'[u] # "write"
  BY <1>10 DEF OneBusy
<1>12. HeadNotSent' /\ LocalNotSent'
  BY <1>11 DEF HeadNotSent, LocalNotSent
<1>13. QED
  BY <1>3, <1>6, <1>7, <1>8, <1>9, <1>12 DEF Tidy

\* A step of a thread inside executeNextInCommandQueue.
LEMMA ThreadStepTidy ==
  ASSUME SendType, Tidy, OneBusy', NEW t \in Threads, ThreadStep(t)
  PROVE  Tidy'
<1>1. CASE ExecuteNothing(t)
  BY <1>1, GoesElsewhereTidy DEF ExecuteNothing
<1>2. CASE ExecuteDisconnected(t)
  <2>1. /\ commandsQueue # <<>> /\ commandsQueue' = Tail(commandsQueue)
        /\ UNCHANGED <<sent, numCommands>>
    BY <1>2 DEF ExecuteDisconnected
  <2>2. pc' = [pc EXCEPT ![t] = "execute"]
    BY <1>2 DEF ExecuteDisconnected, threadVars, SendType, QueueType
  <2>3. QED
    BY <2>1, <2>2, RemovesFrontTidy
<1>3. CASE ExpiresAfter(t)
  BY <1>3, GoesElsewhereTidy DEF ExpiresAfter
<1>4. CASE AsyncWait(t)
  <2>1. local' = [local EXCEPT ![t] = <<>>]
    BY <1>4 DEF AsyncWait
  <2>2. \A u \in Threads \ {t} : local'[u] = local[u]
    BY <2>1 DEF SendType
  <2>3. QED
    BY <1>4, <2>2, GoesElsewhereTidy DEF AsyncWait
<1>5. QED
  BY <1>1, <1>2, <1>3, <1>4, ExecuteNextTidy, WriteTidy DEF ThreadStep

\* A handler that an idle thread starts.
LEMMA ThreadStartsTidy ==
  ASSUME SendType, Tidy, OneBusy', NEW t \in Threads, ThreadStarts(t)
  PROVE  Tidy'
<1>1. CASE CommandTimedOut(t)
  <2>1. /\ pc' = [pc EXCEPT ![t] = "execute"] /\ pc'[t] = "execute"
        /\ UNCHANGED <<sent, numCommands, local>>
    BY <1>1 DEF CommandTimedOut, ExecuteAfterTimeout, Run, GoTo, SendType, QueueType
  <2>2. CASE commandsQueue = <<>>
    <3>1. UNCHANGED commandsQueue
      BY <1>1, <2>2 DEF CommandTimedOut
    <3>2. QueueOrdered' /\ SentOld' /\ SentBefore' /\ SentOnce'
      BY <2>1, <3>1, QueueUntouched
    <3>3. NoneSent'
      BY <2>2, <3>1, EmptySeq DEF NoneSent, Places
    <3>4. \A u \in Threads : pc'[u] # "write"
      BY <2>1 DEF OneBusy
    <3>5. QED
      BY <3>2, <3>3, <3>4 DEF Tidy, HeadNotSent, LocalNotSent
  <2>3. CASE commandsQueue # <<>>
    <3>1. commandsQueue' = Tail(commandsQueue)
      BY <1>1, <2>3 DEF CommandTimedOut
    <3>2. QED
      BY <2>1, <2>3, <3>1, RemovesFrontTidy
  <2>4. QED
    BY <2>2, <2>3
<1>2. CASE ResponseIgnored(t)
  BY <1>2, NoneMovesTidy DEF ResponseIgnored, threadVars
<1>3. ASSUME NEW isOne \in BOOLEAN, ResetAckCounted(t, isOne)
      PROVE  Tidy'
  BY <1>3, NoneMovesTidy DEF ResetAckCounted, threadVars
<1>4. ASSUME NEW isOne \in BOOLEAN, ReceivedCommandResponse(t, isOne)
      PROVE  Tidy'
  <2>1. /\ pc' = [pc EXCEPT ![t] = "execute"] /\ commandsQueue # <<>>
        /\ commandsQueue' = Tail(commandsQueue) /\ UNCHANGED <<sent, numCommands>>
    BY <1>4 DEF ReceivedCommandResponse, Run, GoTo
  <2>2. QED
    BY <2>1, RemovesFrontTidy
<1>5. QED
  BY <1>1, <1>2, <1>3, <1>4 DEF ThreadStarts

\* Every step keeps the types of what is sent and copied.
LEMMA NextSendType ==
  ASSUME SendType, QueueType', Step
  PROVE  SendType'
<1> DEFINE Copies == {<<>>} \union {<<e>> : e \in Element}
<1> SUFFICES sent' \in Seq(Element) /\ local' \in [Threads -> Copies]
  BY DEF SendType
<1>1. sent \in Seq(Element) /\ local \in [Threads -> Copies] /\ commandsQueue \in Seq(Element)
  BY DEF SendType, QueueType
<1>2. ASSUME NEW t \in Threads, WriteToSerialPort(t)
      PROVE  sent' \in Seq(Element) /\ local' \in [Threads -> Copies]
  <2>1. local[t] \in Seq(Element)
    <3>1. CASE local[t] = <<>>
      BY <3>1
    <3>2. CASE \E e \in Element : local[t] = <<e>>
      BY <3>2
    <3>3. QED
      BY <3>1, <3>2, <1>1
  <2>2. QED
    BY <1>1, <1>2, <2>1, ConcatProperties DEF WriteToSerialPort
<1>3. ASSUME NEW t \in Threads, ExecuteNext(t)
      PROVE  sent' \in Seq(Element) /\ local' \in [Threads -> Copies]
  <2>1. Head(commandsQueue) \in Element
    BY <1>1, <1>3, HeadTailProperties DEF ExecuteNext
  <2>2. QED
    BY <1>1, <1>3, <2>1 DEF ExecuteNext
<1>4. ASSUME NEW t \in Threads, ThreadStep(t)
      PROVE  sent' \in Seq(Element) /\ local' \in [Threads -> Copies]
  BY <1>1, <1>2, <1>3, <1>4
     DEF ThreadStep, ExecuteNothing, ExecuteDisconnected, ExpiresAfter, AsyncWait, threadVars
<1>5. ASSUME NEW t \in Threads, ThreadStarts(t)
      PROVE  sent' \in Seq(Element) /\ local' \in [Threads -> Copies]
  BY <1>1, <1>5
     DEF ThreadStarts, CommandTimedOut, ResponseIgnored, ResetAckCounted,
         ReceivedCommandResponse, threadVars
<1>6. ASSUME NEW t \in Threads, NEW client \in Senders, NEW cmd \in {"r", "g"},
             AddCommandToQueue(t, client, cmd)
      PROVE  sent' \in Seq(Element) /\ local' \in [Threads -> Copies]
  BY <1>1, <1>6 DEF AddCommandToQueue
<1>7. TimerExpires \/ HubAnswers \/ (\E client \in Clients : RemoveClientSession(client)) =>
        sent' \in Seq(Element) /\ local' \in [Threads -> Copies]
  BY <1>1 DEF TimerExpires, HubAnswers, RemoveClientSession, threadVars
<1>8. QED
  BY <1>4, <1>5, <1>6, <1>7 DEF Step

\* Every step keeps the inductive invariant.
LEMMA NextSendInv == SendInv /\ [Next]_vars => SendInv'
<1> SUFFICES ASSUME SendInv, [Next]_vars PROVE SendInv'
  OBVIOUS
<1>1. CASE UNCHANGED vars
  <2>1. UNCHANGED <<commandsQueue, numCommands, sent, pc, local, overlapped>>
    BY <1>1 DEF vars, progVars, threadVars
  <2>2. QueueInv' /\ QueueType'
    BY NextQueueInv, <1>1 DEF SendInv, QueueInv
  <2>3. SendType'
    BY <2>1, <2>2 DEF SendInv, SendType
  <2>4. Tidy => OneBusy'
    BY <2>1 DEF Tidy, OneBusy
  <2>5. QED
    BY <2>1, <2>2, <2>3, <2>4, NoneMovesTidy DEF SendInv
<1>2. CASE Next
  <2>1. QueueInv' /\ QueueType'
    BY <1>2, NextQueueInv DEF SendInv, QueueInv
  <2>2. SendType'
    BY <1>2, <2>1, NextSendType DEF SendInv, Next
  <2>3. ASSUME ~overlapped' PROVE Tidy'
    <3>1. OneBusy' /\ ~overlapped
      BY <1>2, <2>3 DEF Next, Observe, OneBusy
    <3>2. SendType /\ Tidy
      BY <3>1 DEF SendInv
    <3>3. CASE TimerExpires \/ HubAnswers \/ \E client \in Clients : RemoveClientSession(client)
      BY <3>1, <3>2, <3>3, NoneMovesTidy
         DEF TimerExpires, HubAnswers, RemoveClientSession, threadVars
    <3>4. QED
      BY <1>2, <3>1, <3>2, <3>3, AddCommandTidy, ThreadStepTidy, ThreadStartsTidy
         DEF Next, Step
  <2>4. QED
    BY <2>1, <2>2, <2>3 DEF SendInv
<1>3. QED
  BY <1>1, <1>2

(***************************************************************************)
(* However late or often the hub answers and whatever times out, a command *)
(* is written to the serial port once as long as no two threads are in the *)
(* code of the queue at once: for any threads, clients and commands.       *)
(***************************************************************************)
THEOREM CommandQueueSentOnce == Spec => []SentOnceUnlessOverlapped
<1>1. SendInv => SentOnceUnlessOverlapped
  BY DEF SendInv, Tidy, SentOnceUnlessOverlapped
<1>2. QED
  BY <1>1, InitSendInv, NextSendInv, PTL DEF Spec
----------------------------------------------------------------------------
(***************************************************************************)
(* A timeout removes a command that was sent, unless threads overlap or    *)
(* the hub is late: the timer is only ever set for the front, and nothing  *)
(* is on the port when it expires (Timed).  Every response is given to its *)
(* own command if besides every reset expects an answer of each node: the  *)
(* port then carries only the front or its responses, and is idle again    *)
(* when a thread is about to execute the next command (Answered).          *)
(***************************************************************************)

PortType ==
    /\ wire \in Seq(Element)
    /\ answers \in Seq(Element)
    /\ numberOfResetACKReceived \in Nat

PortIdle == wire = <<>> /\ answers = <<>>

NothingUnderWay == \A t \in Threads : pc[t] \in {"execute", "write"} => PortIdle

NoTimer == \A t \in Threads : pc[t] # "idle" => waits = 0 /\ fired = 0

TimerOfFront ==
    /\ waits + fired <= 1
    /\ waits + fired > 0 => commandsQueue # <<>>
    /\ fired > 0 => PortIdle

WasSent(id) == \E i \in 1 .. Len(sent) : sent[i].id = id

FrontSent ==
    commandsQueue # <<>> /\ (\A t \in Threads : pc[t] \notin {"execute", "write"}) =>
      WasSent(commandsQueue[1].id)

CopyOfFront == \A t \in Threads : pc[t] = "write" => local[t] = <<commandsQueue[1]>>

QueuedUntilServed ==
    \A t \in Threads : pc[t] \in {"write", "expires", "wait"} => commandsQueue # <<>>

TimeoutsSent == \A id \in timedOut : WasSent(id)

Timed ==
    /\ NoTimer /\ TimerOfFront /\ FrontSent /\ CopyOfFront /\ QueuedUntilServed
    /\ TimeoutsSent

\* The acknowledgements of a reset at the front are counted from zero, up to every node's.
CountsFromZero ==
    commandsQueue[1].cmd = "r" =>
      numberOfResetACKReceived = 0 /\ expectedNumberOfResetACK = NumNodes

CountsAtWrite == \A t \in Threads : pc[t] = "write" => CountsFromZero

RequestOfFront ==
    wire # <<>> =>
      /\ commandsQueue # <<>> /\ wire = <<commandsQueue[1]>>
      /\ answers = <<>> /\ CountsFromZero

\* No more acknowledgements are under way than the reset at the front waits for.
AnswersOfFront ==
    answers # <<>> =>
      /\ commandsQueue # <<>> /\ wire = <<>>
      /\ \A i \in 1 .. Len(answers) : answers[i] = commandsQueue[1]
      /\ commandsQueue[1].cmd = "g" => Len(answers) = 1
      /\ commandsQueue[1].cmd = "r" =>
           /\ expectedNumberOfResetACK = NumNodes
           /\ numberOfResetACKReceived + Len(answers) <= NumNodes

OwnAnswers == \A pair \in given : pair[1] = pair[2]

Answered ==
    /\ NothingUnderWay /\ CountsAtWrite /\ RequestOfFront /\ AnswersOfFront
    /\ OwnAnswers

\* The inductive invariant.
ServedInv ==
    /\ SendInv /\ PortType
    /\ ~overlapped /\ ~late => Timed
    /\ ~overlapped /\ ~late /\ ~miscounted => Answered

\* Nothing is served when the server starts.
LEMMA InitServedInv == Init => ServedInv
<1> SUFFICES ASSUME Init PROVE ServedInv
  OBVIOUS
<1>1. PortType
  BY DEF Init, PortType
<1>2. NothingUnderWay /\ NoTimer /\ CopyOfFront /\ CountsAtWrite /\ QueuedUntilServed
  BY DEF Init, NothingUnderWay, NoTimer, CopyOfFront, CountsAtWrite, QueuedUntilServed
<1>3. TimerOfFront /\ FrontSent /\ RequestOfFront /\ AnswersOfFront
  BY DEF Init, TimerOfFront, FrontSent, RequestOfFront, AnswersOfFront
<1>4. OwnAnswers /\ TimeoutsSent
  BY DEF Init, OwnAnswers, TimeoutsSent
<1>5. QED
  BY <1>1, <1>2, <1>3, <1>4, InitSendInv DEF ServedInv, Timed, Answered

\* Every step keeps the types of the port.
LEMMA NextPortType ==
  ASSUME SendType, PortType, Step
  PROVE  PortType'
<1>1. ASSUME NEW t \in Threads, WriteToSerialPort(t)
      PROVE  PortType'
  <2>1. local[t] \in Seq(Element)
    <3>1. CASE local[t] = <<>>
      BY <3>1
    <3>2. CASE \E e \in Element : local[t] = <<e>>
      BY <3>2
    <3>3. QED
      BY <3>1, <3>2 DEF SendType
  <2>2. QED
    BY <1>1, <2>1, ConcatProperties DEF WriteToSerialPort, PortType, serverVars
<1>2. ASSUME NEW t \in Threads, ThreadStep(t)
      PROVE  PortType'
  BY <1>1, <1>2
     DEF ThreadStep, ExecuteNothing, ExecuteDisconnected, ExecuteNext, ExpiresAfter, AsyncWait,
         serverVars, portVars, PortType
<1>3. ASSUME NEW t \in Threads, ThreadStarts(t)
      PROVE  PortType'
  <2>1. CASE CommandTimedOut(t)
    BY <2>1 DEF CommandTimedOut, serverVars, portVars, PortType
  <2>2. CASE ResponseIgnored(t)
    BY <2>2, HeadTailProperties DEF ResponseIgnored, serverVars, PortType
  <2>3. ASSUME NEW isOne \in BOOLEAN, ResetAckCounted(t, isOne) \/ ReceivedCommandResponse(t, isOne)
        PROVE  PortType'
    <3>1. answers # <<>> /\ answers' = Tail(answers) /\ wire' = wire
      BY <2>3 DEF ResetAckCounted, ReceivedCommandResponse
    <3>2. numberOfResetACKReceived' = AcksAfter(isOne)
      BY <2>3 DEF ResetAckCounted, ReceivedCommandResponse
    <3>3. AcksAfter(isOne) \in Nat
      BY DEF AcksAfter, PortType
    <3>4. QED
      BY <3>1, <3>2, <3>3, HeadTailProperties DEF PortType
  <2>4. QED
    BY <1>3, <2>1, <2>2, <2>3 DEF ThreadStarts
<1>4. ASSUME NEW t \in Threads, NEW client \in Senders, NEW cmd \in {"r", "g"},
             AddCommandToQueue(t, client, cmd)
      PROVE  PortType'
  BY <1>4 DEF AddCommandToQueue, serverVars, portVars, PortType
<1>5. CASE HubAnswers
  <2> DEFINE most == IF Head(wire).cmd = "r" THEN NumNodes ELSE 1
  <2>1. PICK n \in 0 .. most : answers' = answers \o [i \in 1 .. n |-> Head(wire)]
    BY <1>5 DEF HubAnswers
  <2>2. wire # <<>> /\ wire' = Tail(wire) /\ numberOfResetACKReceived' = numberOfResetACKReceived
    BY <1>5 DEF HubAnswers, serverVars
  <2>3. Head(wire) \in Element /\ wire' \in Seq(Element)
    BY <2>2, HeadTailProperties DEF PortType
  <2>4. [i \in 1 .. n |-> Head(wire)] \in Seq(Element)
    BY <2>3, NumNodesAssumption
  <2>5. QED
    BY <2>1, <2>2, <2>3, <2>4, ConcatProperties DEF PortType
<1>6. TimerExpires \/ (\E client \in Clients : RemoveClientSession(client)) => PortType'
  BY DEF TimerExpires, RemoveClientSession, serverVars, portVars, PortType
<1>7. QED
  BY <1>2, <1>3, <1>4, <1>5, <1>6 DEF Step

----------------------------------------------------------------------------
\* When one thread is about to execute the next command, no timer is set.
LEMMA TimedAtExecute ==
  ASSUME NEW t \in Threads, pc'[t] = "execute", OneBusy', waits' = 0, fired' = 0, TimeoutsSent'
  PROVE  Timed'
<1>1. \A u \in Threads : pc'[u] \notin {"write", "expires", "wait"}
  BY DEF OneBusy
<1>2. NoTimer' /\ CopyOfFront' /\ QueuedUntilServed'
  BY <1>1 DEF NoTimer, CopyOfFront, QueuedUntilServed
<1>3. TimerOfFront' /\ FrontSent'
  BY DEF TimerOfFront, FrontSent
<1>4. QED
  BY <1>2, <1>3 DEF Timed

\* A step of the port or of the counts, when no expired timer is queued or the port stays idle.
LEMMA TimedUntouched ==
  ASSUME Timed, fired > 0 => PortIdle',
         UNCHANGED <<commandsQueue, pc, local, waits, fired, sent, timedOut>>
  PROVE  Timed'
<1>1. NoTimer' /\ TimerOfFront'
  BY DEF Timed, NoTimer, TimerOfFront
<1>2. FrontSent' /\ CopyOfFront' /\ QueuedUntilServed' /\ TimeoutsSent'
  BY DEF Timed, FrontSent, CopyOfFront, QueuedUntilServed, TimeoutsSent, WasSent
<1>3. QED
  BY <1>1, <1>2 DEF Timed

\* addCommandToQueue: a command that is alone is executed, another one leaves the front.
LEMMA AddCommandTimed ==
  ASSUME SendType, Timed, OneBusy', NEW t \in Threads, NEW client \in Senders,
         NEW cmd \in {"r", "g"}, AddCommandToQueue(t, client, cmd)
  PROVE  Timed'
<1> DEFINE e == [id |-> numCommands + 1, cmd |-> cmd, client |-> client]
<1>1. /\ commandsQueue' = Append(commandsQueue, e)
      /\ pc' = [pc EXCEPT ![t] = IF OnlyCommandInQueue THEN "execute" ELSE "idle"]
      /\ pc[t] = "idle"
      /\ UNCHANGED <<local, waits, fired, wire, answers, sent, timedOut>>
  BY DEF AddCommandToQueue, Idle, Run, GoTo, timerVars, portVars
<1> HIDE DEF e
<1>2. TimeoutsSent'
  BY <1>1 DEF Timed, TimeoutsSent, WasSent
<1>3. CASE OnlyCommandInQueue
  <2>1. commandsQueue = <<>>
    BY <1>3, EmptySeq DEF OnlyCommandInQueue, SendType, QueueType
  <2>2. pc'[t] = "execute"
    BY <1>1, <1>3 DEF SendType, QueueType
  <2>3. waits' = 0 /\ fired' = 0
    BY <1>1, <2>1 DEF Timed, TimerOfFront, SendType, QueueType
  <2>4. QED
    BY <1>2, <2>2, <2>3, TimedAtExecute
<1>4. CASE ~OnlyCommandInQueue
  <2>1. commandsQueue # <<>> /\ Len(commandsQueue) \in Nat \ {0}
    BY <1>4, EmptySeq DEF OnlyCommandInQueue, SendType, QueueType
  <2>2. commandsQueue' # <<>> /\ commandsQueue'[1] = commandsQueue[1]
    BY <1>1, <2>1 DEF SendType, QueueType
  <2>3. pc' = pc
    BY <1>1, <1>4 DEF SendType, QueueType
  <2>4. NoTimer' /\ TimerOfFront'
    BY <1>1, <2>2, <2>3 DEF Timed, NoTimer, TimerOfFront, PortIdle
  <2>5. FrontSent' /\ CopyOfFront' /\ QueuedUntilServed'
    BY <1>1, <2>1, <2>2, <2>3 DEF Timed, FrontSent, CopyOfFront, QueuedUntilServed, WasSent
  <2>6. QED
    BY <1>2, <2>4, <2>5 DEF Timed
<1>5. QED
  BY <1>3, <1>4

\* executeNextInCommandQueue finds nothing, or the command of a client that has left.
LEMMA ExecuteSkipsTimed ==
  ASSUME SendType, Timed, OneBusy, OneBusy', NEW t \in Threads,
         ExecuteNothing(t) \/ ExecuteDisconnected(t)
  PROVE  Timed'
<1>1. pc[t] = "execute" /\ UNCHANGED <<local, waits, fired, sent, timedOut>>
  BY DEF ExecuteNothing, ExecuteDisconnected, threadVars, timerVars
<1>2. waits' = 0 /\ fired' = 0
  BY <1>1 DEF Timed, NoTimer
<1>3. TimeoutsSent'
  BY <1>1 DEF Timed, TimeoutsSent, WasSent
<1>4. CASE ExecuteDisconnected(t)
  <2>1. pc'[t] = "execute"
    BY <1>1, <1>4 DEF ExecuteDisconnected, threadVars
  <2>2. QED
    BY <2>1, <1>2, <1>3, TimedAtExecute
<1>5. CASE ExecuteNothing(t)
  <2>1. commandsQueue' = <<>> /\ pc' = [pc EXCEPT ![t] = "idle"]
    BY <1>5 DEF ExecuteNothing, GoTo
  <2>2. \A u \in Threads : pc'[u] = "idle"
    BY <1>1, <2>1 DEF OneBusy, SendType, QueueType
  <2>3. NoTimer' /\ CopyOfFront' /\ QueuedUntilServed'
    BY <2>2 DEF NoTimer, CopyOfFront, QueuedUntilServed
  <2>4. TimerOfFront' /\ FrontSent'
    BY <1>2, <2>1 DEF TimerOfFront, FrontSent
  <2>5. QED
    BY <1>3, <2>3, <2>4 DEF Timed
<1>6. QED
  BY <1>4, <1>5

\* executeNextInCommandQueue copies the front.
LEMMA ExecuteNextTimed ==
  ASSUME SendType, Timed, OneBusy', NEW t \in Threads, ExecuteNext(t)
  PROVE  Timed'
<1>1. /\ pc[t] = "execute" /\ pc' = [pc EXCEPT ![t] = "write"] /\ commandsQueue # <<>>
      /\ local' = [local EXCEPT ![t] = <<Head(commandsQueue)>>]
      /\ UNCHANGED <<commandsQueue, waits, fired, sent, timedOut>>
  BY DEF ExecuteNext, GoTo, timerVars
<1>2. Head(commandsQueue) = commandsQueue[1]
  BY <1>1, HeadTailProperties DEF SendType, QueueType
<1>3. pc'[t] = "write" /\ local'[t] = <<commandsQueue[1]>>
  BY <1>1, <1>2 DEF SendType, QueueType
<1>4. \A u \in Threads : pc'[u] # "idle" => u = t
  BY <1>3 DEF OneBusy
<1>5. waits' = 0 /\ fired' = 0
  BY <1>1 DEF Timed, NoTimer
<1>6. CopyOfFront'
  BY <1>1, <1>3, <1>4 DEF CopyOfFront
<1>7. NoTimer' /\ TimerOfFront' /\ QueuedUntilServed'
  BY <1>1, <1>5 DEF NoTimer, TimerOfFront, QueuedUntilServed
<1>8. FrontSent' /\ TimeoutsSent'
  BY <1>1, <1>3 DEF Timed, FrontSent, TimeoutsSent, WasSent
<1>9. QED
  BY <1>6, <1>7, <1>8 DEF Timed

\* writeToSerialPort: the front is sent now.
LEMMA WriteTimed ==
  ASSUME SendType, Timed, OneBusy', NEW t \in Threads, WriteToSerialPort(t)
  PROVE  Timed'
<1> DEFINE f == commandsQueue[1]
<1>1. /\ pc[t] = "write" /\ pc' = [pc EXCEPT ![t] = "expires"]
      /\ sent' = sent \o local[t]
      /\ UNCHANGED <<commandsQueue, local, waits, fired, timedOut>>
  BY DEF WriteToSerialPort, GoTo, timerVars
<1>2. local[t] = <<f>> /\ commandsQueue # <<>>
  BY <1>1 DEF Timed, CopyOfFront, QueuedUntilServed
<1>3. f \in Element
  BY <1>2, HeadTailProperties DEF SendType, QueueType
<1>4. waits' = 0 /\ fired' = 0
  BY <1>1 DEF Timed, NoTimer
<1> HIDE DEF f
<1>5. /\ Len(sent) \in Nat /\ Len(sent') = Len(sent) + 1 /\ sent'[Len(sent) + 1] = f
      /\ \A i \in 1 .. Len(sent) : sent'[i] = sent[i]
  <2>1. sent' = Append(sent, f)
    BY <1>1, <1>2, <1>3 DEF SendType
  <2>2. QED
    BY <2>1, <1>3 DEF SendType
<1>6. pc'[t] = "expires"
  BY <1>1 DEF SendType, QueueType
<1>7. \A u \in Threads : pc'[u] # "execute" /\ pc'[u] # "write"
  BY <1>6 DEF OneBusy
<1>8. NoTimer' /\ TimerOfFront' /\ QueuedUntilServed' /\ CopyOfFront'
  BY <1>1, <1>2, <1>4, <1>7 DEF NoTimer, TimerOfFront, QueuedUntilServed, CopyOfFront
<1>9. WasSent(f.id)'
  <2>1. Len(sent) + 1 \in 1 .. Len(sent')
    BY <1>5
  <2>2. QED
    BY <2>1, <1>5, <1>1 DEF WasSent, f
<1>10. FrontSent'
  BY <1>9, <1>1 DEF FrontSent, f
<1>11. TimeoutsSent'
  <2>1. ASSUME NEW id \in timedOut PROVE WasSent(id)'
    <3>1. PICK i \in 1 .. Len(sent) : sent[i].id = id
      BY DEF Timed, TimeoutsSent, WasSent
    <3>2. i \in 1 .. Len(sent') /\ sent'[i].id = id
      BY <3>1, <1>5
    <3>3. QED
      BY <3>2 DEF WasSent
  <2>2. QED
    BY <2>1, <1>1 DEF TimeoutsSent
<1>12. QED
  BY <1>8, <1>10, <1>11 DEF Timed

\* The timer is set for the front, by expires_after and then async_wait.
LEMMA TimerSetTimed ==
  ASSUME SendType, Timed, OneBusy', OneBusy, NEW t \in Threads, ExpiresAfter(t) \/ AsyncWait(t)
  PROVE  Timed'
<1>1. pc[t] \in {"expires", "wait"} /\ UNCHANGED <<commandsQueue, fired, sent, timedOut>>
  BY DEF ExpiresAfter, AsyncWait
<1>2. PICK label \in {"idle", "wait"} :
        /\ pc' = [pc EXCEPT ![t] = label]
        /\ label = "wait" => waits' = 0
        /\ waits' = 0 \/ waits' = waits + 1
  BY DEF ExpiresAfter, AsyncWait, GoTo
<1>3. pc'[t] = label /\ \A u \in Threads : u # t => pc[u] = "idle" /\ pc'[u] = "idle"
  BY <1>1, <1>2 DEF OneBusy, SendType, QueueType
<1>4. waits = 0 /\ fired = 0 /\ commandsQueue # <<>>
  BY <1>1 DEF Timed, NoTimer, QueuedUntilServed
<1>5. \A u \in Threads : /\ pc[u] # "execute" /\ pc[u] # "write"
                         /\ pc'[u] # "execute" /\ pc'[u] # "write"
  BY <1>1, <1>2, <1>3
<1>6. NoTimer' /\ CopyOfFront'
  BY <1>1, <1>2, <1>3, <1>4, <1>5 DEF NoTimer, CopyOfFront
<1>7. TimerOfFront'
  BY <1>1, <1>2, <1>4 DEF TimerOfFront
<1>8. FrontSent' /\ QueuedUntilServed' /\ TimeoutsSent'
  BY <1>1, <1>4, <1>5 DEF Timed, FrontSent, QueuedUntilServed, TimeoutsSent, WasSent
<1>9. QED
  BY <1>6, <1>7, <1>8 DEF Timed

\* Three seconds pass, when the hub is not late.
LEMMA TimerExpiresTimed ==
  ASSUME SendType, PortType, Timed, TimerExpires, ~(fired' > fired /\ wire \o answers # <<>>)
  PROVE  Timed' /\ PortIdle
<1>1. /\ waits > 0 /\ fired' = fired + waits /\ waits' = 0
      /\ UNCHANGED <<commandsQueue, pc, local, wire, answers, sent, timedOut>>
  BY DEF TimerExpires, threadVars, portVars
<1>2. waits \in Nat /\ fired \in Nat
  BY DEF SendType, QueueType
<1>3. fired' > fired
  BY <1>1, <1>2
<1>4. PortIdle
  BY <1>3, ConcatProperties, EmptySeq DEF PortIdle, PortType
<1>5. \A t \in Threads : pc[t] = "idle"
  BY <1>1, <1>2 DEF Timed, NoTimer
<1>6. NoTimer'
  BY <1>1, <1>5 DEF NoTimer
<1>7. TimerOfFront'
  BY <1>1, <1>2, <1>4 DEF Timed, TimerOfFront, PortIdle
<1>8. FrontSent' /\ CopyOfFront' /\ QueuedUntilServed' /\ TimeoutsSent'
  BY <1>1 DEF Timed, FrontSent, CopyOfFront, QueuedUntilServed, TimeoutsSent, WasSent
<1>9. QED
  BY <1>4, <1>6, <1>7, <1>8 DEF Timed

\* commandTimedOut removes the front, which was sent and to which no response is under way.
LEMMA CommandTimedOutTimed ==
  ASSUME SendType, Timed, OneBusy', NEW t \in Threads, CommandTimedOut(t)
  PROVE  Timed' /\ PortIdle /\ pc'[t] = "execute"
<1>1. /\ fired > 0 /\ fired' = fired - 1 /\ waits' = waits
      /\ pc' = [pc EXCEPT ![t] = "execute"] /\ sent' = sent
  BY DEF CommandTimedOut, ExecuteAfterTimeout, Run, GoTo
<1>2. waits \in Nat /\ fired \in Nat
  BY DEF SendType, QueueType
<1>3. waits' = 0 /\ fired' = 0 /\ commandsQueue # <<>> /\ PortIdle
  BY <1>1, <1>2 DEF Timed, TimerOfFront
<1>4. \A u \in Threads : pc[u] = "idle"
  BY <1>1, <1>2 DEF Timed, NoTimer
<1>5. WasSent(commandsQueue[1].id)
  BY <1>3, <1>4 DEF Timed, FrontSent
<1>6. timedOut' = timedOut \union {commandsQueue[1].id}
  BY <1>3, HeadTailProperties DEF CommandTimedOut, SendType, QueueType
<1>7. TimeoutsSent'
  <2>1. \A id \in timedOut' : WasSent(id)
    BY <1>5, <1>6 DEF Timed, TimeoutsSent
  <2>2. QED
    BY <2>1, <1>1 DEF TimeoutsSent, WasSent
<1>8. pc'[t] = "execute"
  BY <1>1 DEF SendType, QueueType
<1>9. QED
  BY <1>3, <1>7, <1>8, TimedAtExecute

\* A response at hand: no expired timer is queued, and an answered command stops the timer.
LEMMA ResponseTimed ==
  ASSUME SendType, Timed, OneBusy', NEW t \in Threads, NEW isOne \in BOOLEAN,
         ResponseIgnored(t) \/ ResetAckCounted(t, isOne) \/ ReceivedCommandResponse(t, isOne)
  PROVE  Timed'
<1>1. answers # <<>>
  BY DEF ResponseIgnored, ResetAckCounted, ReceivedCommandResponse
<1>2. ~(fired > 0) /\ fired = 0
  BY <1>1 DEF Timed, TimerOfFront, PortIdle, SendType, QueueType
<1>3. CASE ResponseIgnored(t) \/ ResetAckCounted(t, isOne)
  <2>1. UNCHANGED <<commandsQueue, pc, local, waits, fired, sent, timedOut>>
    BY <1>3 DEF ResponseIgnored, ResetAckCounted, threadVars, timerVars
  <2>2. QED
    BY <1>2, <2>1, TimedUntouched
<1>4. CASE ReceivedCommandResponse(t, isOne)
  <2>1. /\ waits' = 0 /\ fired' = 0 /\ pc' = [pc EXCEPT ![t] = "execute"]
        /\ UNCHANGED <<sent, timedOut>>
    BY <1>2, <1>4 DEF ReceivedCommandResponse, WaitsAfterResponse, Run, GoTo
  <2>2. pc'[t] = "execute"
    BY <2>1 DEF SendType, QueueType
  <2>3. TimeoutsSent'
    BY <2>1 DEF Timed, TimeoutsSent, WasSent
  <2>4. QED
    BY <2>1, <2>2, <2>3, TimedAtExecute
<1>5. QED
  BY <1>3, <1>4

\* Every step keeps it, unless threads overlap or the hub is late.
LEMMA StepTimed ==
  ASSUME SendType, PortType, Timed, OneBusy, OneBusy', Step,
         ~(fired' > fired /\ wire \o answers # <<>>)
  PROVE  Timed'
<1>1. ASSUME NEW t \in Threads, ThreadStep(t) PROVE Timed'
  BY <1>1, ExecuteSkipsTimed, ExecuteNextTimed, WriteTimed, TimerSetTimed DEF ThreadStep
<1>2. ASSUME NEW t \in Threads, ThreadStarts(t) PROVE Timed'
  BY <1>2, CommandTimedOutTimed, ResponseTimed DEF ThreadStarts
<1>3. CASE HubAnswers
  <2>1. wire # <<>> /\ UNCHANGED <<commandsQueue, pc, local, waits, fired, sent, timedOut>>
    BY <1>3 DEF HubAnswers, threadVars, timerVars
  <2>2. ~(fired > 0)
    BY <2>1 DEF Timed, TimerOfFront, PortIdle
  <2>3. QED
    BY <2>1, <2>2, TimedUntouched
<1>4. ASSUME NEW client \in Clients, RemoveClientSession(client) PROVE Timed'
  <2>1. UNCHANGED <<commandsQueue, pc, local, waits, fired, sent, timedOut, wire, answers>>
    BY <1>4 DEF RemoveClientSession, threadVars, timerVars, portVars
  <2>2. fired > 0 => PortIdle'
    BY <2>1 DEF Timed, TimerOfFront, PortIdle
  <2>3. QED
    BY <2>1, <2>2, TimedUntouched
<1>5. QED
  BY <1>1, <1>2, <1>3, <1>4, AddCommandTimed, TimerExpiresTimed DEF Step

----------------------------------------------------------------------------
\* When one thread is about to execute the next command, nothing is on the port.
LEMMA AnsweredAtExecute ==
  ASSUME NEW t \in Threads, pc'[t] = "execute", OneBusy', PortIdle', OwnAnswers'
  PROVE  Answered'
<1>1. \A u \in Threads : pc'[u] # "write"
  BY DEF OneBusy
<1>2. NothingUnderWay' /\ CountsAtWrite' /\ RequestOfFront' /\ AnswersOfFront'
  BY <1>1 DEF NothingUnderWay, CountsAtWrite, RequestOfFront, AnswersOfFront, PortIdle
<1>3. QED
  BY <1>2 DEF Answered

\* A step that leaves the port, the counts and the front as they are.
LEMMA AnsweredUntouched ==
  ASSUME Answered,
         \A u \in Threads : pc'[u] \in {"execute", "write"} => pc'[u] = pc[u],
         commandsQueue # <<>> => commandsQueue' # <<>> /\ commandsQueue'[1] = commandsQueue[1],
         UNCHANGED <<wire, answers, numberOfResetACKReceived, expectedNumberOfResetACK, given>>,
         \A u \in Threads : pc[u] = "write" => commandsQueue # <<>>
  PROVE  Answered'
<1>1. NothingUnderWay' /\ OwnAnswers'
  BY DEF Answered, NothingUnderWay, OwnAnswers, PortIdle
<1>2. CountsAtWrite'
  BY DEF Answered, CountsAtWrite, CountsFromZero
<1>3. RequestOfFront' /\ AnswersOfFront'
  BY DEF Answered, RequestOfFront, AnswersOfFront, CountsFromZero
<1>4. QED
  BY <1>1, <1>2, <1>3 DEF Answered

\* addCommandToQueue: a command that is alone is executed, another one leaves the front.
LEMMA AddCommandAnswered ==
  ASSUME SendType, Timed, Answered, OneBusy', NEW t \in Threads, NEW client \in Senders,
         NEW cmd \in {"r", "g"}, AddCommandToQueue(t, client, cmd)
  PROVE  Answered'
<1> DEFINE e == [id |-> numCommands + 1, cmd |-> cmd, client |-> client]
<1>1. /\ commandsQueue' = Append(commandsQueue, e)
      /\ pc' = [pc EXCEPT ![t] = IF OnlyCommandInQueue THEN "execute" ELSE "idle"]
      /\ UNCHANGED <<numberOfResetACKReceived, expectedNumberOfResetACK, wire, answers, given>>
  BY DEF AddCommandToQueue, Run, GoTo, serverVars, portVars
<1> HIDE DEF e
<1>2. CASE OnlyCommandInQueue
  <2>1. commandsQueue = <<>>
    BY <1>2, EmptySeq DEF OnlyCommandInQueue, SendType, QueueType
  <2>2. pc'[t] = "execute"
    BY <1>1, <1>2 DEF SendType, QueueType
  <2>3. PortIdle'
    BY <1>1, <2>1 DEF Answered, RequestOfFront, AnswersOfFront, PortIdle
  <2>4. OwnAnswers'
    BY <1>1 DEF Answered, OwnAnswers
  <2>5. QED
    BY <2>2, <2>3, <2>4, AnsweredAtExecute
<1>3. CASE ~OnlyCommandInQueue
  <2>1. commandsQueue # <<>> /\ Len(commandsQueue) \in Nat \ {0}
    BY <1>3, EmptySeq DEF OnlyCommandInQueue, SendType, QueueType
  <2>2. commandsQueue' # <<>> /\ commandsQueue'[1] = commandsQueue[1]
    BY <1>1, <2>1 DEF SendType, QueueType
  <2>3. \A u \in Threads : pc'[u] \in {"execute", "write"} => pc'[u] = pc[u]
    BY <1>1, <1>3 DEF SendType, QueueType
  <2>4. QED
    BY <1>1, <2>1, <2>2, <2>3, AnsweredUntouched
<1>4. QED
  BY <1>2, <1>3

\* executeNextInCommandQueue finds nothing, or the command of a client that has left.
LEMMA ExecuteSkipsAnswered ==
  ASSUME SendType, Answered, OneBusy, OneBusy', NEW t \in Threads,
         ExecuteNothing(t) \/ ExecuteDisconnected(t)
  PROVE  Answered'
<1>1. pc[t] = "execute" /\ UNCHANGED <<wire, answers, given>>
  BY DEF ExecuteNothing, ExecuteDisconnected, portVars
<1>2. PortIdle' /\ OwnAnswers'
  BY <1>1 DEF Answered, NothingUnderWay, PortIdle, OwnAnswers
<1>3. CASE ExecuteDisconnected(t)
  <2>1. pc'[t] = "execute"
    BY <1>1, <1>3 DEF ExecuteDisconnected, threadVars
  <2>2. QED
    BY <2>1, <1>2, AnsweredAtExecute
<1>4. CASE ExecuteNothing(t)
  <2>1. pc' = [pc EXCEPT ![t] = "idle"]
    BY <1>4 DEF ExecuteNothing, GoTo
  <2>2. \A u \in Threads : pc'[u] = "idle"
    BY <1>1, <2>1 DEF OneBusy, SendType, QueueType
  <2>3. NothingUnderWay' /\ CountsAtWrite' /\ RequestOfFront' /\ AnswersOfFront'
    BY <1>2, <2>2 DEF NothingUnderWay, CountsAtWrite, RequestOfFront, AnswersOfFront, PortIdle
  <2>4. QED
    BY <1>2, <2>3 DEF Answered
<1>5. QED
  BY <1>3, <1>4

\* executeNextInCommandQueue counts from zero, up to the nodes unless it miscounts.
LEMMA ExecuteNextAnswered ==
  ASSUME SendType, Answered, ~miscounted', NEW t \in Threads, ExecuteNext(t)
  PROVE  Answered'
<1>1. /\ pc[t] = "execute" /\ commandsQueue # <<>>
      /\ UNCHANGED <<commandsQueue, wire, answers, given>>
  BY DEF ExecuteNext, portVars
<1>2. ASSUME Head(commandsQueue).cmd = "r"
      PROVE  numberOfResetACKReceived' = 0 /\ expectedNumberOfResetACK' = NumNodes
  <2>1. PICK size \in NodeIdsSizes :
          /\ numberOfResetACKReceived' = 0
          /\ expectedNumberOfResetACK' = size
          /\ miscounted' = (miscounted \/ size < NumNodes)
    BY <1>2 DEF ExecuteNext
  <2>2. ~(size < NumNodes)
    BY <2>1, Zenon
  <2>3. size = NumNodes
    BY <2>2, NumNodesAssumption DEF NodeIdsSizes
  <2>4. QED
    BY <2>1, <2>3
<1>3. Head(commandsQueue) = commandsQueue[1]
  BY <1>1, HeadTailProperties DEF SendType, QueueType
<1>4. CountsFromZero' /\ CountsAtWrite'
  BY <1>1, <1>2, <1>3 DEF CountsFromZero, CountsAtWrite
<1>5. PortIdle'
  BY <1>1 DEF Answered, NothingUnderWay, PortIdle
<1>6. NothingUnderWay' /\ RequestOfFront' /\ AnswersOfFront' /\ OwnAnswers'
  BY <1>1, <1>5 DEF Answered, NothingUnderWay, RequestOfFront, AnswersOfFront, PortIdle, OwnAnswers
<1>7. QED
  BY <1>4, <1>6 DEF Answered

\* writeToSerialPort: the port carries the front.
LEMMA WriteAnswered ==
  ASSUME SendType, PortType, Timed, Answered, OneBusy', NEW t \in Threads, WriteToSerialPort(t)
  PROVE  Answered'
<1> DEFINE f == commandsQueue[1]
<1>1. /\ pc[t] = "write" /\ pc' = [pc EXCEPT ![t] = "expires"]
      /\ wire' = wire \o local[t]
      /\ UNCHANGED <<commandsQueue, numberOfResetACKReceived, expectedNumberOfResetACK, answers,
                     given>>
  BY DEF WriteToSerialPort, GoTo, serverVars
<1>2. local[t] = <<f>> /\ CountsFromZero /\ PortIdle /\ commandsQueue # <<>>
  BY <1>1 DEF Timed, Answered, CopyOfFront, CountsAtWrite, NothingUnderWay, QueuedUntilServed
<1>3. f \in Element
  BY <1>2, HeadTailProperties DEF SendType, QueueType
<1> HIDE DEF f
<1>4. wire' = <<f>> /\ answers' = <<>>
  BY <1>1, <1>2, <1>3 DEF PortIdle
<1>5. pc'[t] = "expires"
  BY <1>1 DEF SendType, QueueType
<1>6. \A u \in Threads : pc'[u] # "execute" /\ pc'[u] # "write"
  BY <1>5 DEF OneBusy
<1>7. NothingUnderWay' /\ CountsAtWrite'
  BY <1>6 DEF NothingUnderWay, CountsAtWrite
<1>8. CountsFromZero'
  BY <1>1, <1>2 DEF CountsFromZero
<1>9. RequestOfFront' /\ AnswersOfFront'
  BY <1>1, <1>2, <1>4, <1>8 DEF RequestOfFront, AnswersOfFront, f
<1>10. OwnAnswers'
  BY <1>1 DEF Answered, OwnAnswers
<1>11. QED
  BY <1>7, <1>9, <1>10 DEF Answered

\* Setting the timer, its expiry and a client that leaves change nothing of it.
LEMMA TimerSetAnswered ==
  ASSUME SendType, Timed, Answered, NEW t \in Threads, ExpiresAfter(t) \/ AsyncWait(t)
  PROVE  Answered'
<1>1. UNCHANGED <<commandsQueue, wire, answers, numberOfResetACKReceived,
                  expectedNumberOfResetACK, given>>
  BY DEF ExpiresAfter, AsyncWait, serverVars, portVars
<1>2. pc' = [pc EXCEPT ![t] = "wait"] \/ pc' = [pc EXCEPT ![t] = "idle"]
  BY DEF ExpiresAfter, AsyncWait, GoTo
<1>3. \A u \in Threads : pc'[u] \in {"execute", "write"} => pc'[u] = pc[u]
  BY <1>2 DEF SendType, QueueType
<1>4. \A u \in Threads : pc[u] = "write" => commandsQueue # <<>>
  BY DEF Timed, QueuedUntilServed
<1>5. QED
  BY <1>1, <1>3, <1>4, AnsweredUntouched

\* commandTimedOut: no response is under way when the next command is executed.
LEMMA CommandTimedOutAnswered ==
  ASSUME SendType, Timed, Answered, OneBusy', NEW t \in Threads, CommandTimedOut(t)
  PROVE  Answered'
<1>1. UNCHANGED <<wire, answers, given>>
  BY DEF CommandTimedOut, portVars
<1>2. PortIdle' /\ pc'[t] = "execute"
  BY <1>1, CommandTimedOutTimed DEF PortIdle
<1>3. OwnAnswers'
  BY <1>1 DEF Answered, OwnAnswers
<1>4. QED
  BY <1>2, <1>3, AnsweredAtExecute

\* What a response at hand says of the front, and what is left when it is taken.
LEMMA ResponseOfFront ==
  ASSUME SendType, PortType, Answered, answers # <<>>
  PROVE  /\ commandsQueue # <<>> /\ Head(commandsQueue) = commandsQueue[1]
         /\ Head(answers) = commandsQueue[1]
         /\ wire = <<>>
         /\ Tail(answers) \in Seq(Element) /\ Len(answers) \in Nat \ {0}
         /\ Len(Tail(answers)) = Len(answers) - 1
         /\ \A i \in 1 .. Len(Tail(answers)) : Tail(answers)[i] = commandsQueue[1]
<1>1. /\ commandsQueue # <<>> /\ wire = <<>>
      /\ \A i \in 1 .. Len(answers) : answers[i] = commandsQueue[1]
  BY DEF Answered, AnswersOfFront
<1>2. /\ Len(answers) \in Nat \ {0} /\ Head(answers) = answers[1]
      /\ Tail(answers) \in Seq(Element) /\ Len(Tail(answers)) = Len(answers) - 1
      /\ \A i \in 1 .. Len(Tail(answers)) : Tail(answers)[i] = answers[i + 1]
  BY HeadTailProperties, EmptySeq DEF PortType
<1>3. Head(commandsQueue) = commandsQueue[1]
  BY <1>1, HeadTailProperties DEF SendType, QueueType
<1>4. Head(answers) = commandsQueue[1]
  BY <1>1, <1>2
<1>5. \A i \in 1 .. Len(Tail(answers)) : Tail(answers)[i] = commandsQueue[1]
  <2>1. ASSUME NEW i \in 1 .. Len(Tail(answers))
        PROVE  i + 1 \in 1 .. Len(answers) /\ Tail(answers)[i] = answers[i + 1]
    BY <1>2
  <2>2. QED
    BY <2>1, <1>1
<1>6. QED
  BY <1>1, <1>2, <1>3, <1>4, <1>5

\* A reset waits for more acknowledgements: the one counted was under way before.
LEMMA ResetAckAnswered ==
  ASSUME SendType, PortType, Timed, Answered, NEW t \in Threads, NEW isOne \in BOOLEAN,
         ResetAckCounted(t, isOne)
  PROVE  Answered'
<1>1. /\ answers # <<>> /\ answers' = Tail(answers)
      /\ Head(answers).cmd = "r" => isOne
      /\ Head(commandsQueue).cmd = "r"
      /\ numberOfResetACKReceived' = AcksAfter(isOne)
      /\ UNCHANGED <<commandsQueue, pc, expectedNumberOfResetACK, wire, given>>
  BY DEF ResetAckCounted, ResetWaits, threadVars
<1>2. /\ commandsQueue # <<>> /\ Head(commandsQueue) = commandsQueue[1]
      /\ Head(answers) = commandsQueue[1] /\ wire = <<>>
      /\ Tail(answers) \in Seq(Element) /\ Len(answers) \in Nat \ {0}
      /\ Len(Tail(answers)) = Len(answers) - 1
      /\ \A i \in 1 .. Len(Tail(answers)) : Tail(answers)[i] = commandsQueue[1]
  BY <1>1, ResponseOfFront
<1>3. numberOfResetACKReceived' = numberOfResetACKReceived + 1
  BY <1>1, <1>2 DEF AcksAfter
<1>4. \A u \in Threads : pc[u] # "execute" /\ pc[u] # "write"
  BY <1>1 DEF Answered, NothingUnderWay, PortIdle
<1>5. AnswersOfFront'
  <2>1. commandsQueue[1].cmd = "r" /\ commandsQueue[1].cmd # "g"
    BY <1>1, <1>2
  <2>2. expectedNumberOfResetACK = NumNodes
    BY <1>1, <2>1 DEF Answered, AnswersOfFront
  <2>3. numberOfResetACKReceived + Len(answers) <= NumNodes
    BY <1>1, <2>1 DEF Answered, AnswersOfFront
  <2>4. numberOfResetACKReceived' + Len(answers') <= NumNodes
    BY <2>3, <1>1, <1>2, <1>3, NumNodesAssumption DEF PortType
  <2>5. QED
    BY <2>1, <2>2, <2>4, <1>1, <1>2 DEF AnswersOfFront
<1>6. RequestOfFront'
  BY <1>1, <1>2 DEF RequestOfFront
<1>7. NothingUnderWay' /\ CountsAtWrite' /\ OwnAnswers'
  BY <1>1, <1>4 DEF Answered, NothingUnderWay, CountsAtWrite, OwnAnswers
<1>8. QED
  BY <1>5, <1>6, <1>7 DEF Answered

\* receivedCommandResponse: the response is the last one of the front.
LEMMA ResponseAnswered ==
  ASSUME SendType, PortType, Timed, Answered, OneBusy', NEW t \in Threads,
         NEW isOne \in BOOLEAN, ReceivedCommandResponse(t, isOne)
  PROVE  Answered'
<1>1. /\ answers # <<>> /\ answers' = Tail(answers)
      /\ Head(answers).cmd = "r" => isOne
      /\ ~ResetWaits(isOne)
      /\ pc' = [pc EXCEPT ![t] = "execute"]
      /\ given' = given \union {<<Head(commandsQueue).id, Head(answers).id>>}
      /\ wire' = wire
  BY DEF ReceivedCommandResponse, Run, GoTo
<1>2. /\ commandsQueue # <<>> /\ Head(commandsQueue) = commandsQueue[1]
      /\ Head(answers) = commandsQueue[1] /\ wire = <<>>
      /\ Tail(answers) \in Seq(Element) /\ Len(answers) \in Nat \ {0}
      /\ Len(Tail(answers)) = Len(answers) - 1
  BY <1>1, ResponseOfFront
<1>3. Len(answers) = 1
  <2>1. CASE commandsQueue[1].cmd = "g"
    BY <1>1, <2>1 DEF Answered, AnswersOfFront
  <2>2. CASE commandsQueue[1].cmd = "r"
    <3>1. expectedNumberOfResetACK = NumNodes
      BY <1>1, <2>2 DEF Answered, AnswersOfFront
    <3>2. numberOfResetACKReceived + Len(answers) <= NumNodes
      BY <1>1, <2>2 DEF Answered, AnswersOfFront
    <3>3. AcksAfter(isOne) = numberOfResetACKReceived + 1
      BY <1>1, <1>2, <2>2 DEF AcksAfter
    <3>4. ~(numberOfResetACKReceived + 1 < NumNodes)
      BY <1>1, <1>2, <2>2, <3>1, <3>3 DEF ResetWaits
    <3>5. QED
      BY <3>2, <3>4, <1>2, NumNodesAssumption DEF PortType
  <2>3. commandsQueue[1] \in Element
    BY <1>2, HeadTailProperties DEF SendType, QueueType
  <2>4. QED
    BY <2>1, <2>2, <2>3 DEF Element
<1>4. PortIdle'
  BY <1>1, <1>2, <1>3, EmptySeq DEF PortIdle
<1>5. OwnAnswers'
  BY <1>1, <1>2 DEF Answered, OwnAnswers
<1>6. pc'[t] = "execute"
  BY <1>1 DEF SendType, QueueType
<1>7. QED
  BY <1>4, <1>5, <1>6, AnsweredAtExecute

\* The hub answers the front, a reset at most once for every node.
LEMMA HubAnswersAnswered ==
  ASSUME SendType, PortType, Answered, HubAnswers
  PROVE  Answered'
<1> DEFINE f == commandsQueue[1]
<1> DEFINE most == IF f.cmd = "r" THEN NumNodes ELSE 1
<1>1. /\ wire # <<>> /\ wire' = Tail(wire)
      /\ UNCHANGED <<commandsQueue, pc, numberOfResetACKReceived, expectedNumberOfResetACK, given>>
  BY DEF HubAnswers, threadVars, serverVars
<1>2. commandsQueue # <<>> /\ wire = <<f>> /\ answers = <<>> /\ CountsFromZero
  BY <1>1 DEF Answered, RequestOfFront
<1>3. f \in Element
  BY <1>2, HeadTailProperties DEF SendType, QueueType
<1>4. Head(wire) = f /\ wire' = <<>>
  BY <1>1, <1>2
<1>5. PICK n \in 0 .. most : answers' = answers \o [i \in 1 .. n |-> f]
  BY <1>4 DEF HubAnswers
<1> HIDE DEF f, most
<1>6. most \in Nat /\ n \in Nat /\ n <= most
  BY NumNodesAssumption DEF most
<1>7. [i \in 1 .. n |-> f] \in Seq(Element) /\ Len([i \in 1 .. n |-> f]) = n
  BY <1>3, <1>6
<1>8. answers' = [i \in 1 .. n |-> f] /\ answers' \in Seq(Element) /\ Len(answers') = n
  BY <1>2, <1>5, <1>7, ConcatEmptySeq
<1>9. \A i \in 1 .. Len(answers') : answers'[i] = f
  BY <1>8
<1>10. ASSUME answers' # <<>> PROVE n \in Nat \ {0}
  BY <1>10, <1>6, <1>8, EmptySeq
<1>11. AnswersOfFront'
  <2>1. ASSUME answers' # <<>>, f.cmd = "g" PROVE Len(answers') = 1
    BY <2>1, <1>6, <1>8, <1>10 DEF most
  <2>2. ASSUME f.cmd = "r"
        PROVE  /\ expectedNumberOfResetACK' = NumNodes
               /\ numberOfResetACKReceived' + Len(answers') <= NumNodes
    BY <2>2, <1>1, <1>2, <1>6, <1>8 DEF most, f, CountsFromZero
  <2>3. f = commandsQueue'[1] /\ commandsQueue' # <<>>
    BY <1>1, <1>2 DEF f
  <2>4. QED
    BY <2>1, <2>2, <2>3, <1>4, <1>9 DEF AnswersOfFront
<1>12. \A u \in Threads : pc[u] # "execute" /\ pc[u] # "write"
  BY <1>1 DEF Answered, NothingUnderWay, PortIdle
<1>13. NothingUnderWay' /\ CountsAtWrite' /\ RequestOfFront' /\ OwnAnswers'
  BY <1>1, <1>4, <1>12
     DEF Answered, NothingUnderWay, CountsAtWrite, RequestOfFront, OwnAnswers
<1>14. QED
  BY <1>11, <1>13 DEF Answered

\* Every step keeps it, unless threads overlap, the hub is late or a reset miscounts.
LEMMA StepAnswered ==
  ASSUME SendType, PortType, Timed, Answered, OneBusy, OneBusy', Step, ~miscounted'
  PROVE  Answered'
<1>1. ASSUME NEW t \in Threads, ThreadStep(t) PROVE Answered'
  BY <1>1, ExecuteSkipsAnswered, ExecuteNextAnswered, WriteAnswered, TimerSetAnswered
     DEF ThreadStep
<1>2. ASSUME NEW t \in Threads, ThreadStarts(t) PROVE Answered'
  <2>1. ~ResponseIgnored(t)
    BY DEF ResponseIgnored, Answered, AnswersOfFront
  <2>2. QED
    BY <1>2, <2>1, CommandTimedOutAnswered, ResetAckAnswered, ResponseAnswered DEF ThreadStarts
<1>3. CASE TimerExpires \/ \E client \in Clients : RemoveClientSession(client)
  <2>1. UNCHANGED <<commandsQueue, pc, wire, answers, numberOfResetACKReceived,
                    expectedNumberOfResetACK, given>>
    BY <1>3 DEF TimerExpires, RemoveClientSession, threadVars, serverVars, portVars
  <2>2. \A u \in Threads : pc[u] = "write" => commandsQueue # <<>>
    BY DEF Timed, QueuedUntilServed
  <2>3. QED
    BY <2>1, <2>2, AnsweredUntouched
<1>4. QED
  BY <1>1, <1>2, <1>3, AddCommandAnswered, HubAnswersAnswered DEF Step

\* A reset that was miscounted stays in the history.
LEMMA MiscountedStays ==
  ASSUME Step, miscounted
  PROVE  miscounted'
<1>1. ASSUME NEW t \in Threads, ExecuteNext(t) PROVE miscounted'
  BY <1>1 DEF ExecuteNext, serverVars
<1>2. ASSUME NEW t \in Threads, ThreadStep(t) PROVE miscounted'
  BY <1>1, <1>2
     DEF ThreadStep, ExecuteNothing, ExecuteDisconnected, WriteToSerialPort, ExpiresAfter,
         AsyncWait, serverVars
<1>3. ASSUME NEW t \in Threads, ThreadStarts(t) PROVE miscounted'
  BY <1>3
     DEF ThreadStarts, CommandTimedOut, ResponseIgnored, ResetAckCounted,
         ReceivedCommandResponse, serverVars
<1>4. QED
  BY <1>2, <1>3
     DEF Step, AddCommandToQueue, TimerExpires, HubAnswers, RemoveClientSession, serverVars

\* Every step keeps the inductive invariant.
LEMMA NextServedInv == ServedInv /\ [Next]_vars => ServedInv'
<1> SUFFICES ASSUME ServedInv, [Next]_vars PROVE ServedInv'
  OBVIOUS
<1>1. SendInv'
  BY NextSendInv DEF ServedInv
<1>2. CASE UNCHANGED vars
  <2>1. UNCHANGED <<commandsQueue, pc, local, waits, fired, numberOfResetACKReceived,
                    expectedNumberOfResetACK, miscounted, wire, answers, sent, given,
                    timedOut, overlapped, late>>
    BY <1>2 DEF vars, progVars, threadVars, timerVars, serverVars, portVars
  <2>2. PortType'
    BY <2>1 DEF ServedInv, PortType
  <2>3. Timed => Timed'
    BY <2>1, TimedUntouched DEF Timed, TimerOfFront, PortIdle
  <2>4. Timed /\ Answered => Answered'
    BY <2>1, AnsweredUntouched DEF Timed, QueuedUntilServed
  <2>5. QED
    BY <1>1, <2>1, <2>2, <2>3, <2>4 DEF ServedInv
<1>3. CASE Next
  <2>1. PortType'
    BY <1>3, NextPortType DEF ServedInv, SendInv, Next
  <2>2. ASSUME ~overlapped', ~late' PROVE Timed' /\ (~miscounted' => Answered')
    <3>1. ~overlapped /\ ~late /\ ~(fired' > fired /\ wire \o answers # <<>>)
      BY <1>3, <2>2, Zenon DEF Next, Observe
    <3>2. SendType /\ PortType /\ Timed /\ OneBusy /\ Step
      BY <1>3, <3>1 DEF ServedInv, SendInv, Tidy, Next
    <3>3. OneBusy'
      BY <1>1, <2>2 DEF SendInv, Tidy
    <3>4. Timed'
      BY <3>1, <3>2, <3>3, StepTimed
    <3>5. ASSUME ~miscounted' PROVE Answered'
      <4>1. ~miscounted
        BY <3>2, <3>5, MiscountedStays
      <4>2. Answered
        BY <3>1, <4>1 DEF ServedInv
      <4>3. QED
        BY <3>2, <3>3, <3>5, <4>2, StepAnswered
    <3>6. QED
      BY <3>4, <3>5
  <2>3. QED
    BY <1>1, <2>1, <2>2 DEF ServedInv
<1>4. QED
  BY <1>2, <1>3

(***************************************************************************)
(* A client is given the response to its own command, unless the hub takes *)
(* more than three seconds, two threads are in the code of the queue at    *)
(* once, or a reset was executed while the list of nodes was shorter than  *)
(* the nodes that answer it: for any threads, clients, nodes and commands  *)
(* receivedCommandResponse may otherwise trust the front of the queue.     *)
(***************************************************************************)
THEOREM CommandQueueAnsweredByOwnResponse == Spec => []AnsweredByOwnResponse
<1>1. ServedInv => AnsweredByOwnResponse
  BY DEF ServedInv, Answered, OwnAnswers, AnsweredByOwnResponse
<1>2. QED
  BY <1>1, InitServedInv, NextServedInv, PTL DEF Spec

(***************************************************************************)
(* Unless threads overlap or the hub is late, and however many answers a   *)
(* reset expects, commandTimedOut removes a command that was sent, never   *)
(* one that waits behind it, and never pops an empty queue.                *)
(***************************************************************************)
THEOREM CommandQueueTimedOutWasSent == Spec => []TimedOutWasSent
<1>1. ServedInv => TimedOutWasSent
  BY DEF ServedInv, Timed, TimeoutsSent, WasSent, TimedOutWasSent
<1>2. QED
  BY <1>1, InitServedInv, NextServedInv, PTL DEF Spec
=============================================================================
