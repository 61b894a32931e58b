---------------------------- MODULE CommandQueue ----------------------------
(***************************************************************************)
(* The PC server's queue of commands.  The console and the clients add     *)
(* commands; one at a time is written to the serial port and stays at the  *)
(* front of the queue until its response arrives or three seconds pass.    *)
(* Four threads run the handlers of one io_context.  Each access to the    *)
(* queue is under mtxCommandsQueue, so one step; everything a handler does *)
(* between two critical sections can interleave with the other threads.    *)
(* The hub and the serial line are external: a command written to the port *)
(* is answered late, or not at all.                                        *)
(***************************************************************************)
EXTENDS Integers, Sequences, FiniteSets

CONSTANTS
    Threads,        \* the threads that call io_context.run(), 4 in the code
    Clients,        \* the TCP clients
    NumNodes,       \* the nodes of the network, each acknowledges a reset
    MaxCommands     \* bound: how many commands are ever added

ASSUME ThreadsAssumption == Threads # {}
ASSUME ClientsAssumption == Clients \cap {"console", "serial", "timer"} = {}
ASSUME NumNodesAssumption == NumNodes \in Nat
ASSUME MaxCommandsAssumption == MaxCommands \in Nat

VARIABLES
    commandsQueue,              \* commands with the client that sent them
    numCommands,                \* commands added so far, each gets a number
    clientSessions,             \* the clients that are connected
    pc,                         \* where each thread is
    handler,                    \* the handler each busy thread runs
    local,                      \* commandQueueElement of executeNextInCommandQueue
    waits,                      \* async_waits pending on timerCommandTimeout
    fired,                      \* waits that expired, whose handler is to run
    numberOfResetACKReceived,
    expectedNumberOfResetACK,
    miscounted,                 \* history: a reset expected fewer answers than nodes
    wire,                       \* commands on the way to the hub
    answers,                    \* commands whose response is on the way back
    sent,                       \* history: the commands written, in order
    given,                      \* history: <<command, command answered>>
    timedOut,                   \* history: commands removed by a timeout
    overlapped,                 \* history: two threads were inside the queue's code
    late                        \* history: the timer expired before an answer came

serverVars == <<numberOfResetACKReceived, expectedNumberOfResetACK, miscounted>>
threadVars == <<pc, handler, local>>
timerVars == <<waits, fired>>
portVars == <<wire, answers>>
progVars == <<commandsQueue, numCommands, clientSessions, threadVars, timerVars,
              serverVars, portVars, sent, given, timedOut>>
vars == <<progVars, overlapped, late>>

\* The senders of commands; the console is the null client pointer.
Senders == Clients \union {"console"}

\* A command: 'r' waits for several acknowledgements, the others for one response.
Element == [id : 1 .. MaxCommands, cmd : {"r", "g"}, client : Senders]

\* No command has this number: it records a pop() of an empty queue.
NoCommand == 0

(***************************************************************************)
(* pop() of an empty std::queue is undefined behaviour, so the model stops *)
(* at that state.                                                          *)
(***************************************************************************)
Undefined == NoCommand \in timedOut

Idle(t) == pc[t] = "idle" /\ ~Undefined

\* The handler is not running: a reader starts again only when it returns.
NotRunning(h) == \A t \in Threads : pc[t] # "idle" => handler[t] # h

GoTo(t, label) == pc' = [pc EXCEPT ![t] = label]

Run(t, h, label) ==
    /\ GoTo(t, label)
    /\ handler' = [handler EXCEPT ![t] = h]

Init ==
    /\ commandsQueue = <<>>
    /\ numCommands = 0
    /\ clientSessions = Clients
    /\ pc = [t \in Threads |-> "idle"]
    /\ handler = [t \in Threads |-> "console"]
    /\ local \in [Threads -> {<<>>}]
    /\ waits = 0
    /\ fired = 0
    /\ numberOfResetACKReceived = 0
    /\ expectedNumberOfResetACK = 0
    /\ miscounted = FALSE
    /\ wire = <<>>
    /\ answers = <<>>
    /\ sent = <<>>
    /\ given = {}
    /\ timedOut = {}
    /\ overlapped = FALSE
    /\ late = FALSE

----------------------------------------------------------------------------
\* Mutant: every command is executed when it is added.
ExecutesAtOnce == TRUE

\* The command that is being added finds the queue empty.
OnlyCommandInQueue == Len(commandsQueue) = 0

\* addCommandToQueue, from the console or from a client that is connected.
AddCommandToQueue(t, client, cmd) ==
    /\ Idle(t) /\ NotRunning(client)
    /\ client \in clientSessions \union {"console"}
    /\ numCommands < MaxCommands
    /\ numCommands' = numCommands + 1
    /\ commandsQueue' = Append(commandsQueue,
                          [id |-> numCommands + 1, cmd |-> cmd, client |-> client])
    /\ Run(t, client, IF OnlyCommandInQueue THEN "execute" ELSE "idle")
    /\ UNCHANGED <<clientSessions, local, timerVars, serverVars, portVars,
                   sent, given, timedOut>>

----------------------------------------------------------------------------
\* executeNextInCommandQueue with nothing to execute.
ExecuteNothing(t) ==
    /\ pc[t] = "execute" /\ ~Undefined
    /\ commandsQueue = <<>>
    /\ GoTo(t, "idle")
    /\ UNCHANGED <<commandsQueue, numCommands, clientSessions, handler, local,
                   timerVars, serverVars, portVars, sent, given, timedOut>>

\* The client has disconnected: its command is dropped and the next one executed.
ExecuteDisconnected(t) ==
    /\ pc[t] = "execute" /\ ~Undefined
    /\ commandsQueue # <<>>
    /\ Head(commandsQueue).client \notin clientSessions \union {"console"}
    /\ commandsQueue' = Tail(commandsQueue)
    /\ UNCHANGED <<numCommands, clientSessions, threadVars, timerVars, serverVars,
                   portVars, sent, given, timedOut>>

(***************************************************************************)
(* nodeIds.size(), the list of the last 'L' message from the hub.  Another *)
(* handler clears and refills it at any moment, and the size is read       *)
(* without mtxNodeIds.  It is empty before the first message, and a reset  *)
(* makes the hub send a list of itself alone, then longer ones as the      *)
(* others register again.                                                  *)
(***************************************************************************)
NodeIdsSizes == 0 .. NumNodes

(***************************************************************************)
(* The critical section of a command that will be sent.  A reset expects   *)
(* as many answers as the list of nodes has entries at this moment.        *)
(***************************************************************************)
ExecuteNext(t) ==
    /\ pc[t] = "execute" /\ ~Undefined
    /\ commandsQueue # <<>>
    /\ Head(commandsQueue).client \in clientSessions \union {"console"}
    /\ local' = [local EXCEPT ![t] = <<Head(commandsQueue)>>]
    /\ IF Head(commandsQueue).cmd = "r"
       THEN \E size \in NodeIdsSizes :
              /\ numberOfResetACKReceived' = 0
              /\ expectedNumberOfResetACK' = size
              /\ miscounted' = (miscounted \/ size < NumNodes)
       ELSE UNCHANGED serverVars
    /\ GoTo(t, "write")
    /\ UNCHANGED <<commandsQueue, numCommands, clientSessions, handler, timerVars,
                   portVars, sent, given, timedOut>>

\* writeToSerialPort, after the queue is unlocked.
WriteToSerialPort(t) ==
    /\ pc[t] = "write" /\ ~Undefined
    /\ wire' = wire \o local[t]
    /\ sent' = sent \o local[t]
    /\ GoTo(t, "expires")
    /\ UNCHANGED <<commandsQueue, numCommands, clientSessions, handler, local,
                   timerVars, serverVars, answers, given, timedOut>>

\* timerCommandTimeout->expires_after(3 s), which cancels the pending waits.
ExpiresAfter(t) ==
    /\ pc[t] = "expires" /\ ~Undefined
    /\ waits' = 0
    /\ GoTo(t, "wait")
    /\ UNCHANGED <<commandsQueue, numCommands, clientSessions, handler, local, fired,
                   serverVars, portVars, sent, given, timedOut>>

\* Mutant: the timer is set but nobody waits for it.
NoWait(t) ==
    /\ pc[t] = "wait" /\ ~Undefined
    /\ GoTo(t, "idle")
    /\ local' = [local EXCEPT ![t] = <<>>]
    /\ UNCHANGED <<commandsQueue, numCommands, clientSessions, handler, waits,
                   fired, serverVars, portVars, sent, given, timedOut>>

\* timerCommandTimeout->async_wait(commandTimedOut).
AsyncWait(t) ==
    /\ pc[t] = "wait" /\ ~Undefined
    /\ waits' = waits + 1
    /\ GoTo(t, "idle")
    /\ local' = [local EXCEPT ![t] = <<>>]
    /\ UNCHANGED <<commandsQueue, numCommands, clientSessions, handler, fired,
                   serverVars, portVars, sent, given, timedOut>>

----------------------------------------------------------------------------
\* Three seconds pass: the pending waits complete without an error.
TimerExpires ==
    /\ waits > 0 /\ ~Undefined
    /\ fired' = fired + waits
    /\ waits' = 0
    /\ UNCHANGED <<commandsQueue, numCommands, clientSessions, threadVars, serverVars,
                   portVars, sent, given, timedOut>>

\* Mutant: the command is removed and the next one is left where it is.
TimedOutAndStops(t) == Run(t, "timer", "idle")

\* What commandTimedOut does once the command is removed.
ExecuteAfterTimeout(t) == Run(t, "timer", "execute")

\* commandTimedOut: removes the command at the front, whichever it is now.
CommandTimedOut(t) ==
    /\ Idle(t)
    /\ fired > 0
    /\ fired' = fired - 1
    /\ IF commandsQueue = <<>>
       THEN /\ timedOut' = timedOut \union {NoCommand}
            /\ UNCHANGED commandsQueue
       ELSE /\ timedOut' = timedOut \union {Head(commandsQueue).id}
            /\ commandsQueue' = Tail(commandsQueue)
    /\ ExecuteAfterTimeout(t)
    /\ UNCHANGED <<numCommands, clientSessions, local, waits, serverVars, portVars,
                   sent, given>>

----------------------------------------------------------------------------
\* A response when the queue is empty is ignored.
ResponseIgnored(t) ==
    /\ Idle(t) /\ NotRunning("serial")
    /\ answers # <<>> /\ commandsQueue = <<>>
    /\ answers' = Tail(answers)
    /\ UNCHANGED <<commandsQueue, numCommands, clientSessions, threadVars, timerVars,
                   serverVars, wire, sent, given, timedOut>>

\* The acknowledgements counted once this response is; an answer to a get may be 1 too.
AcksAfter(isOne) ==
    IF Head(commandsQueue).cmd = "r" /\ isOne
    THEN numberOfResetACKReceived + 1 ELSE numberOfResetACKReceived

\* A reset that needs more acknowledgements keeps waiting.
ResetWaits(isOne) ==
    /\ Head(commandsQueue).cmd = "r"
    /\ AcksAfter(isOne) < expectedNumberOfResetACK

ResetAckCounted(t, isOne) ==
    /\ Idle(t) /\ NotRunning("serial")
    /\ answers # <<>> /\ commandsQueue # <<>>
    /\ Head(answers).cmd = "r" => isOne
    /\ ResetWaits(isOne)
    /\ answers' = Tail(answers)
    /\ numberOfResetACKReceived' = AcksAfter(isOne)
    /\ UNCHANGED <<commandsQueue, numCommands, clientSessions, threadVars, timerVars,
                   expectedNumberOfResetACK, miscounted, wire, sent, given, timedOut>>

\* Mutant: the response does not cancel the timer.
TimerNotCancelled == waits

\* timerCommandTimeout->cancel() leaves no wait pending.
WaitsAfterResponse == 0

\* The response is handed to the command at the front, which leaves the queue.
ReceivedCommandResponse(t, isOne) ==
    /\ Idle(t) /\ NotRunning("serial")
    /\ answers # <<>> /\ commandsQueue # <<>>
    /\ Head(answers).cmd = "r" => isOne
    /\ ~ResetWaits(isOne)
    /\ answers' = Tail(answers)
    /\ numberOfResetACKReceived' = AcksAfter(isOne)
    /\ waits' = WaitsAfterResponse
    /\ given' = given \union {<<Head(commandsQueue).id, Head(answers).id>>}
    /\ commandsQueue' = Tail(commandsQueue)
    /\ Run(t, "serial", "execute")
    /\ UNCHANGED <<numCommands, clientSessions, local, fired, expectedNumberOfResetACK,
                   miscounted, wire, sent, timedOut>>

----------------------------------------------------------------------------
\* External: the hub answers a command, a reset once for every node whatever the
\* server's list says, or answers are lost.
HubAnswers ==
    /\ wire # <<>> /\ ~Undefined
    /\ wire' = Tail(wire)
    /\ \E n \in 0 .. (IF Head(wire).cmd = "r" THEN NumNodes ELSE 1) :
         answers' = answers \o [i \in 1 .. n |-> Head(wire)]
    /\ UNCHANGED <<commandsQueue, numCommands, clientSessions, threadVars, timerVars,
                   serverVars, sent, given, timedOut>>

\* removeClientSession, when a read or a write of the client's socket fails.
RemoveClientSession(client) ==
    /\ client \in clientSessions /\ ~Undefined
    /\ clientSessions' = clientSessions \ {client}
    /\ UNCHANGED <<commandsQueue, numCommands, threadVars, timerVars, serverVars,
                   portVars, sent, given, timedOut>>

\* A step of the thread's handler, once it has started.
ThreadStep(t) ==
    \/ ExecuteNothing(t) \/ ExecuteDisconnected(t) \/ ExecuteNext(t)
    \/ WriteToSerialPort(t) \/ ExpiresAfter(t) \/ AsyncWait(t)

\* An idle thread takes a handler that is ready.
ThreadStarts(t) ==
    \/ CommandTimedOut(t)
    \/ ResponseIgnored(t)
    \/ \E isOne \in BOOLEAN : ResetAckCounted(t, isOne) \/ ReceivedCommandResponse(t, isOne)

\* A step of the server, the hub or a client.
Step ==
    \/ \E t \in Threads :
         \/ ThreadStep(t)
         \/ ThreadStarts(t)
         \/ \E client \in Senders, cmd \in {"r", "g"} : AddCommandToQueue(t, client, cmd)
    \/ TimerExpires
    \/ HubAnswers
    \/ \E client \in Clients : RemoveClientSession(client)

(***************************************************************************)
(* Two threads between the pop() of a command, or the addition of one, and *)
(* the timer of the next; and a hub that takes more than three seconds.    *)
(***************************************************************************)
Observe ==
    /\ overlapped' = (overlapped \/ \E t, u \in Threads :
                                      t # u /\ pc'[t] # "idle" /\ pc'[u] # "idle")
    /\ late' = (late \/ (fired' > fired /\ wire \o answers # <<>>))

Next == Step /\ Observe

Spec == Init /\ [][Next]_vars

(***************************************************************************)
(* The operating system runs every thread, a thread that is free takes a   *)
(* handler that is ready, and three seconds pass.  Nothing is assumed of   *)
(* the hub, of the clients or of the user.                                 *)
(***************************************************************************)
Fairness ==
    /\ \A t \in Threads : WF_progVars(ThreadStep(t))
    /\ WF_progVars(\E t \in Threads : ThreadStarts(t))
    /\ WF_progVars(TimerExpires)

FairSpec == Spec /\ Fairness

----------------------------------------------------------------------------
\* The type invariant: thread-local commands are copies of commands that were queued.
TypeOK ==
    /\ commandsQueue \in Seq(Element)
    /\ numCommands \in 0 .. MaxCommands
    /\ clientSessions \subseteq Clients
    /\ pc \in [Threads -> {"idle", "execute", "write", "expires", "wait"}]
    /\ handler \in [Threads -> Senders \union {"serial", "timer"}]
    /\ local \in [Threads -> {<<>>} \union {<<e>> : e \in Element}]
    /\ waits \in Nat
    /\ fired \in Nat
    /\ numberOfResetACKReceived \in Nat
    /\ expectedNumberOfResetACK \in NodeIdsSizes
    /\ miscounted \in BOOLEAN
    /\ wire \in Seq(Element)
    /\ answers \in Seq(Element)
    /\ sent \in Seq(Element)
    /\ given \subseteq (1 .. MaxCommands) \X (1 .. MaxCommands)
    /\ timedOut \subseteq 0 .. MaxCommands
    /\ overlapped \in BOOLEAN /\ late \in BOOLEAN

(***************************************************************************)
(* While a command is queued somebody will execute it: a thread is inside  *)
(* executeNextInCommandQueue, or a timeout is pending that will call it.   *)
(* This is what the comment in addCommandToQueue relies on when it leaves  *)
(* a command that is not alone in the queue where it is.                   *)
(***************************************************************************)
NoStall ==
    commandsQueue # <<>> =>
      \/ \E t \in Threads : pc[t] # "idle"
      \/ waits > 0
      \/ fired > 0

(***************************************************************************)
(* A queue that has commands becomes empty, whatever the hub does: each    *)
(* command leaves by its response, by the timeout or because its client    *)
(* left.  (Undefined is the state after a pop() of an empty queue.)        *)
(***************************************************************************)
QueueDrains == (commandsQueue # <<>>) ~> (commandsQueue = <<>> \/ Undefined)

(***************************************************************************)
(* addCommandToQueue: a command behind another one waits because "another  *)
(* command is awaiting the response", so a command is written to the       *)
(* serial port once.                                                       *)
(***************************************************************************)
SentOnce ==
    \A i, j \in 1 .. Len(sent) : i # j => sent[i].id # sent[j].id

(***************************************************************************)
(* Unless two threads overlap in the queue's code, every command is        *)
(* written to the serial port once, however late the hub answers.          *)
(***************************************************************************)
SentOnceUnlessOverlapped == ~overlapped => SentOnce

(***************************************************************************)
(* receivedCommandResponse: unless threads overlap, the hub is late or a   *)
(* reset expected fewer answers than there are nodes (the next command     *)
(* takes the surplus for its own answer), the response at hand is the one  *)
(* of the command at the front of the queue.                               *)
(***************************************************************************)
AnsweredByOwnResponse ==
    ~overlapped /\ ~late /\ ~miscounted => \A pair \in given : pair[1] = pair[2]

(***************************************************************************)
(* commandTimedOut: unless threads overlap or the hub is late, the command *)
(* it removes is one that "went too long without a response", so one that  *)
(* was sent, and pop() is never called on an empty queue.                  *)
(***************************************************************************)
TimedOutWasSent ==
    ~overlapped /\ ~late => \A id \in timedOut : \E i \in 1 .. Len(sent) : sent[i].id = id
=============================================================================
