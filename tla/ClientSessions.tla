--------------------------- MODULE ClientSessions ---------------------------
(***************************************************************************)
(* The clients of the server: their sessions, from the accept to the       *)
(* removal, and what other parts of the server do with them: the streams   *)
(* they ask for, the commands they put in the queue and the text they are  *)
(* sent (Server.cpp, ServerConnection.cpp, commands.cpp).                  *)
(*                                                                         *)
(* Several threads run the io_context, so any two handlers may be running  *)
(* at once.  A handler is a call in progress on a thread; it takes a step  *)
(* wherever it takes a mutex.  A mutex that is held while another is taken *)
(* is in "mutex"; a critical section that takes no other is one step.      *)
(*                                                                         *)
(* The lambdas given to asio capture the raw pointer to the session, which *)
(* lives as long as a shared_ptr to it does: in clientSessions, in the     *)
(* keys of activeStreams, in the queue, or in a call in progress.          *)
(*                                                                         *)
(* The queue itself, its timer and the races of executeNextInCommandQueue  *)
(* are modelled in CommandQueue; here it is what keeps a session alive,    *)
(* writes to it and looks it up while it holds the mutex of the queue.     *)
(***************************************************************************)
EXTENDS Integers, Sequences, SequencesExt, FiniteSets

CONSTANTS
    Threads,        \* the threads that run the io_context
    Clients,        \* the connections that are made
    MaxInputs,      \* bound on the lines one client sends
    MaxWrites       \* bound on the writes outstanding when a stream adds one

NoThread == "no thread"

NoClient == "no client"

ASSUME SessionsAssumption ==
    NoThread \notin Threads /\ NoClient \notin Clients /\ MaxInputs \in Nat

Mutexes == {"ClientSessions", "StreamingActive", "CommandsQueue"}

\* What a line of a client is: s toggles a stream, a command goes to the hub,
\* anything else is answered with text at once.
Inputs == {"stream", "command", "text"}

VARIABLES
    peer,           \* the other end of a connection: away, connected or closed
    input,          \* the line a client has sent and the server has not read
    inputs,         \* lines sent so far
    clientSessions, \* the sessions of the connected clients, in order
    streamKeys,     \* sessions with an entry in activeStreams
    streamsOn,      \* those whose stream is on
    commandsQueue,  \* the clients of the queued commands
    awaiting,       \* a command was sent and its response is awaited
    reads,          \* sessions with a read outstanding
    writes,         \* writes outstanding of a session
    mutex,          \* who holds a mutex
    call            \* the handler a thread is running

\* History of what the invariants are about.
VARIABLES
    writtenToGone,  \* clients that were written to when they had gone
    undefined,      \* undefined behaviour was met
    halted          \* and left the server in no state to go on from

sessionVars == <<clientSessions, streamKeys, streamsOn, commandsQueue, awaiting>>
allSessionVars == <<peer, input, inputs, sessionVars, reads, writes, mutex, call,
                    writtenToGone, undefined, halted>>

\* A thread that runs no handler.
Idle == [at |-> "idle"]

Call(at, c, text) == [at |-> at, client |-> c, text |-> text]

Running(t, at) == ~halted /\ call[t].at = at

Free(m) == mutex[m] = NoThread

\* The mutexes that t does not hold any more.
Released(t) == [m \in Mutexes |-> IF mutex[m] = t THEN NoThread ELSE mutex[m]]

\* Calls whose arguments include a shared_ptr to the session.
HoldsReference == {"start", "remove", "unstream", "stream", "command"}

(***************************************************************************)
(* The session has not been destroyed.                                     *)
(***************************************************************************)
Alive(c) ==
    \/ c \in ToSet(clientSessions) \cup streamKeys \cup ToSet(commandsQueue)
    \/ \E t \in Threads : call[t].at \in HoldsReference /\ call[t].client = c

----------------------------------------------------------------------------
SessionsInit ==
    /\ peer = [c \in Clients |-> "away"]
    /\ input = [c \in Clients |-> "none"]
    /\ inputs = [c \in Clients |-> 0]
    /\ clientSessions = <<>> /\ streamKeys = {} /\ streamsOn = {}
    /\ commandsQueue = <<>> /\ awaiting = FALSE
    /\ reads = {} /\ writes = [c \in Clients |-> 0]
    /\ mutex = [m \in Mutexes |-> NoThread]
    /\ call = [t \in Threads |-> Idle]
    /\ writtenToGone = {} /\ undefined = FALSE /\ halted = FALSE

\* sendMessage: starts a write to every client of S.
SendMessage(S) ==
    /\ writes' = [c \in Clients |-> IF c \in S THEN writes[c] + 1 ELSE writes[c]]
    /\ writtenToGone' = writtenToGone \cup {c \in S : peer[c] = "closed"}

----------------------------------------------------------------------------
\* The other end.

\* A connected client sends a line; the next one when this one has been read.
PeerSends(c, line) ==
    /\ peer[c] = "connected" /\ input[c] = "none"
    /\ inputs[c] < MaxInputs
    /\ input' = [input EXCEPT ![c] = line]
    /\ inputs' = [inputs EXCEPT ![c] = @ + 1]
    /\ UNCHANGED <<peer, sessionVars, reads, writes, mutex, call, writtenToGone,
                   undefined, halted>>

\* The client goes away; a write that is outstanding may be lost.
PeerCloses(c) ==
    /\ peer[c] = "connected"
    /\ peer' = [peer EXCEPT ![c] = "closed"]
    /\ writtenToGone' = IF writes[c] > 0 THEN writtenToGone \cup {c} ELSE writtenToGone
    /\ UNCHANGED <<input, inputs, sessionVars, reads, writes, mutex, call, undefined,
                   halted>>

----------------------------------------------------------------------------
\* Accepting.

\* The accept handler: the session enters the list.  One accept is outstanding.
HandleAccept(t, c) ==
    /\ Running(t, "idle")
    /\ \A u \in Threads : call[u].at # "start"
    /\ peer[c] = "away" /\ Free("ClientSessions")
    /\ peer' = [peer EXCEPT ![c] = "connected"]
    /\ clientSessions' = Append(clientSessions, c)
    /\ call' = [call EXCEPT ![t] = Call("start", c, FALSE)]
    /\ UNCHANGED <<input, inputs, streamKeys, streamsOn, commandsQueue, awaiting, reads,
                   writes, mutex, writtenToGone, undefined, halted>>

\* start(): the welcome is written and the first read started.
Start(t) ==
    /\ Running(t, "start")
    /\ SendMessage({call[t].client})
    /\ reads' = reads \cup {call[t].client}
    /\ call' = [call EXCEPT ![t] = Idle]
    /\ UNCHANGED <<peer, input, inputs, sessionVars, mutex, undefined, halted>>

----------------------------------------------------------------------------
\* Reading.

\* The read handler, with a line.
HandleRead(t, c) ==
    /\ Running(t, "idle")
    /\ c \in reads /\ input[c] # "none" /\ Alive(c)
    /\ reads' = reads \ {c}
    /\ input' = [input EXCEPT ![c] = "none"]
    /\ call' = [call EXCEPT ![t] = IF input[c] = "text" THEN Call("reply", c, TRUE)
                                   ELSE Call(input[c], c, FALSE)]
    /\ UNCHANGED <<peer, inputs, sessionVars, writes, mutex, writtenToGone, undefined,
                   halted>>

\* The command s: toggles the stream, and acknowledges that it is off.
ToggleStream(t) ==
    /\ Running(t, "stream") /\ Free("StreamingActive")
    /\ LET c == call[t].client IN
         /\ streamKeys' = streamKeys \cup {c}
         /\ streamsOn' = IF c \in streamsOn THEN streamsOn \ {c} ELSE streamsOn \cup {c}
         /\ call' = [call EXCEPT ![t] = Call("reply", c, c \in streamsOn)]
    /\ UNCHANGED <<peer, input, inputs, clientSessions, commandsQueue, awaiting, reads,
                   writes, mutex, writtenToGone, undefined, halted>>

\* addCommandToQueue
AddCommandToQueue(t) ==
    /\ Running(t, "command") /\ Free("CommandsQueue")
    /\ commandsQueue' = Append(commandsQueue, call[t].client)
    /\ call' = [call EXCEPT ![t].at = IF commandsQueue = <<>> THEN "execute" ELSE "reply"]
    /\ UNCHANGED <<peer, input, inputs, clientSessions, streamKeys, streamsOn, awaiting,
                   reads, writes, mutex, writtenToGone, undefined, halted>>

\* Mutant: the next read is started only for a line that had no text answer.
NextReadUnlessText(c, text) == IF text THEN reads ELSE reads \cup {c}

\* start_receive_read
NextRead(c, text) == reads \cup {c}

\* The end of the read handler, on the raw pointer: answers, and reads on.
Reply(t) ==
    /\ Running(t, "reply")
    /\ LET c == call[t].client IN
         \/ /\ Alive(c)
            /\ SendMessage(IF call[t].text THEN {c} ELSE {})
            /\ reads' = NextRead(c, call[t].text)
            /\ UNCHANGED undefined
         \/ /\ ~Alive(c)
            /\ undefined' = TRUE
            /\ UNCHANGED <<reads, writes, writtenToGone>>
    /\ call' = [call EXCEPT ![t] = Idle]
    /\ UNCHANGED <<peer, input, inputs, sessionVars, mutex, halted>>

(***************************************************************************)
(* A handler called with an error removes the session; on a session that   *)
(* is destroyed it uses the pointer it captured.                           *)
(***************************************************************************)
HandleError(t, c) ==
    IF Alive(c) THEN /\ call' = [call EXCEPT ![t] = Call("remove", c, FALSE)]
                     /\ UNCHANGED undefined
    ELSE /\ undefined' = TRUE
         /\ UNCHANGED call

\* Mutant: the read is started again after an error, as after a line.
ReadsAfterRestart(c) == reads

\* With an error there is no length, and no new read.
ReadsAfterError(c) == reads \ {c}

\* The read handler, with an error: the client has closed, or the socket is.
HandleReadError(t, c) ==
    /\ Running(t, "idle")
    /\ c \in reads
    /\ (peer[c] = "closed" /\ input[c] = "none") \/ ~Alive(c)
    /\ reads' = ReadsAfterError(c)
    /\ HandleError(t, c)
    /\ UNCHANGED <<peer, input, inputs, sessionVars, writes, mutex, writtenToGone, halted>>

\* The write handler does nothing when the write was done.
HandleWrite(t, c) ==
    /\ Running(t, "idle")
    /\ writes[c] > 0
    /\ writes' = [writes EXCEPT ![c] = @ - 1]
    /\ UNCHANGED <<peer, input, inputs, sessionVars, reads, mutex, call, writtenToGone,
                   undefined, halted>>

HandleWriteError(t, c) ==
    /\ Running(t, "idle")
    /\ writes[c] > 0
    /\ peer[c] = "closed" \/ ~Alive(c)
    /\ writes' = [writes EXCEPT ![c] = @ - 1]
    /\ HandleError(t, c)
    /\ UNCHANGED <<peer, input, inputs, sessionVars, reads, mutex, writtenToGone, halted>>

----------------------------------------------------------------------------
\* Removing.

\* Mutant: the mutex of the sessions is kept until the streams are removed.
SessionsKept(t) == [mutex EXCEPT !["ClientSessions"] = t]

\* The mutex of the sessions is unlocked before the other is locked.
SessionsReleased(t) == mutex

(***************************************************************************)
(* removeClientSession, first part.  Of a session that is not in the list, *)
(* find returns end(), and erase(end()) is undefined: of libstdc++'s       *)
(* vector it destroys the last session, if there is one.                   *)
(***************************************************************************)
RemoveFromSessions(t) ==
    /\ Running(t, "remove") /\ Free("ClientSessions")
    /\ LET c == call[t].client IN
         \/ /\ c \in ToSet(clientSessions)
            /\ clientSessions' = RemoveFirst(clientSessions, c)
            /\ UNCHANGED <<undefined, halted>>
         \/ /\ c \notin ToSet(clientSessions) /\ clientSessions # <<>>
            /\ clientSessions' = Front(clientSessions)
            /\ undefined' = TRUE /\ UNCHANGED halted
         \/ /\ clientSessions = <<>>
            /\ undefined' = TRUE /\ halted' = TRUE
            /\ UNCHANGED clientSessions
    /\ mutex' = SessionsReleased(t)
    /\ call' = [call EXCEPT ![t].at = "unstream"]
    /\ UNCHANGED <<peer, input, inputs, streamKeys, streamsOn, commandsQueue, awaiting,
                   reads, writes, writtenToGone>>

\* activeStreams[node].erase
StreamsWithout(c) == streamsOn \ {c}

\* removeClientSession, second part: the client's streams.
RemoveFromStreams(t) ==
    /\ Running(t, "unstream") /\ Free("StreamingActive")
    /\ streamKeys' = streamKeys \ {call[t].client}
    /\ streamsOn' = StreamsWithout(call[t].client)
    /\ mutex' = Released(t)
    /\ call' = [call EXCEPT ![t] = Idle]
    /\ UNCHANGED <<peer, input, inputs, clientSessions, commandsQueue, awaiting, reads,
                   writes, writtenToGone, undefined, halted>>

----------------------------------------------------------------------------
\* What comes from the hub.  One thread at a time runs handle_read_serial.

SerialHandlers == {"stream to all", "execute next"}

NoSerialHandler == \A t \in Threads : call[t].at \notin SerialHandlers

\* receivedFrequentData, with the mutex of the streams.
ReceivedFrequentData(t) ==
    /\ Running(t, "idle") /\ NoSerialHandler
    /\ Free("StreamingActive")
    /\ \A c \in streamsOn : writes[c] < MaxWrites
    /\ mutex' = [mutex EXCEPT !["StreamingActive"] = t]
    /\ call' = [call EXCEPT ![t] = Call("stream to all", NoClient, FALSE)]
    /\ UNCHANGED <<peer, input, inputs, sessionVars, reads, writes, writtenToGone,
                   undefined, halted>>

\* With the mutex of the sessions as well, it writes to every stream that is on.
StreamToAll(t) ==
    /\ Running(t, "stream to all") /\ Free("ClientSessions")
    /\ SendMessage(streamsOn)
    /\ mutex' = Released(t)
    /\ call' = [call EXCEPT ![t] = Idle]
    /\ UNCHANGED <<peer, input, inputs, sessionVars, reads, undefined, halted>>

\* receivedCommandResponse: the front's client is written to, gone or not.
ReceivedCommandResponse(t) ==
    /\ Running(t, "idle") /\ NoSerialHandler
    /\ awaiting /\ commandsQueue # <<>> /\ Free("CommandsQueue")
    /\ SendMessage({Head(commandsQueue)})
    /\ commandsQueue' = Tail(commandsQueue)
    /\ awaiting' = FALSE
    /\ call' = [call EXCEPT ![t] = Call("execute next", NoClient, FALSE)]
    /\ UNCHANGED <<peer, input, inputs, clientSessions, streamKeys, streamsOn, reads,
                   mutex, undefined, halted>>

\* executeNextInCommandQueue takes the mutex of the queue, and may find it empty.
ExecuteNext(t) ==
    /\ Running(t, "execute") \/ Running(t, "execute next")
    /\ Free("CommandsQueue")
    /\ \/ /\ commandsQueue = <<>>
          /\ call' = [call EXCEPT ![t] = IF @.at = "execute" THEN [@ EXCEPT !.at = "reply"]
                                         ELSE Idle]
          /\ UNCHANGED mutex
       \/ /\ commandsQueue # <<>> /\ ~\E m \in Mutexes : mutex[m] = t
          /\ mutex' = [mutex EXCEPT !["CommandsQueue"] = t]
          /\ UNCHANGED call
    /\ UNCHANGED <<peer, input, inputs, sessionVars, reads, writes, writtenToGone,
                   undefined, halted>>

\* With the mutex of the sessions, it drops the command of a client that is gone,
\* or sends the command to the hub.
ExecuteFront(t) ==
    /\ ~halted /\ mutex["CommandsQueue"] = t /\ Free("ClientSessions")
    /\ \/ /\ Head(commandsQueue) \notin ToSet(clientSessions)
          /\ commandsQueue' = Tail(commandsQueue)
          /\ UNCHANGED <<awaiting, call>>
       \/ /\ Head(commandsQueue) \in ToSet(clientSessions)
          /\ awaiting' = TRUE
          /\ call' = [call EXCEPT ![t] = IF @.at = "execute" THEN [@ EXCEPT !.at = "reply"]
                                         ELSE Idle]
          /\ UNCHANGED commandsQueue
    /\ mutex' = Released(t)
    /\ UNCHANGED <<peer, input, inputs, clientSessions, streamKeys, streamsOn, reads, writes,
                   writtenToGone, undefined, halted>>

----------------------------------------------------------------------------
\* A thread goes on with the handler it is running.
GoOn(t) ==
    \/ Start(t) \/ ToggleStream(t) \/ AddCommandToQueue(t) \/ Reply(t)
    \/ RemoveFromSessions(t) \/ RemoveFromStreams(t)
    \/ StreamToAll(t) \/ ExecuteNext(t) \/ ExecuteFront(t)

\* A handler of client c is called on an idle thread.
Handle(t, c) ==
    \/ HandleRead(t, c) \/ HandleReadError(t, c)
    \/ HandleWrite(t, c) \/ HandleWriteError(t, c)

SessionsNext ==
    \/ \E c \in Clients : PeerCloses(c) \/ \E line \in Inputs : PeerSends(c, line)
    \/ \E t \in Threads :
         \/ GoOn(t)
         \/ ReceivedFrequentData(t) \/ ReceivedCommandResponse(t)
         \/ \E c \in Clients : HandleAccept(t, c) \/ Handle(t, c)

(***************************************************************************)
(* A thread that waits for a mutex gets it when it is free again and again,*)
(* and the handler of a completed read is called.                          *)
(***************************************************************************)
SessionsSpec ==
    /\ SessionsInit /\ [][SessionsNext]_allSessionVars
    /\ \A t \in Threads : SF_allSessionVars(GoOn(t))
    /\ \A c \in Clients :
         SF_allSessionVars(\E t \in Threads : HandleRead(t, c) \/ HandleReadError(t, c))

----------------------------------------------------------------------------
Calls ==
    {Idle} \cup [at : {"start", "reply", "remove", "unstream", "stream", "command",
                       "execute"}, client : Clients, text : BOOLEAN]
           \cup [at : SerialHandlers, client : {NoClient}, text : {FALSE}]

SessionsTypeOK ==
    /\ peer \in [Clients -> {"away", "connected", "closed"}]
    /\ input \in [Clients -> Inputs \cup {"none"}]
    /\ inputs \in [Clients -> 0 .. MaxInputs]
    /\ clientSessions \in Seq(Clients) /\ commandsQueue \in Seq(Clients)
    /\ streamsOn \subseteq streamKeys /\ streamKeys \subseteq Clients
    /\ awaiting \in BOOLEAN
    /\ reads \subseteq Clients /\ writes \in [Clients -> Nat]
    /\ mutex \in [Mutexes -> Threads \cup {NoThread}]
    /\ call \in [Threads -> Calls]
    /\ writtenToGone \subseteq Clients
    /\ undefined \in BOOLEAN /\ halted \in BOOLEAN

(***************************************************************************)
(* The removal of a session is safe as long as nothing is written to a     *)
(* client that has gone: no session is removed twice, and no handler runs  *)
(* on a session that is destroyed.  (With a write to a client that has     *)
(* gone, both the read and the write fail.)                                *)
(***************************************************************************)
RemovedOnce == undefined => writtenToGone # {}

(***************************************************************************)
(* A client in the list is heard: a read is outstanding, or its accept or  *)
(* read handler is running and will start one, or the session is about to  *)
(* be removed.                                                             *)
(***************************************************************************)
ClientHeard ==
    \A c \in ToSet(clientSessions) :
      ~undefined => \/ c \in reads
                    \/ \E t \in Threads :
                         call[t].at \in {"start", "stream", "command", "execute", "reply",
                                         "remove"} /\ call[t].client = c

(***************************************************************************)
(* The mutexes of the queue, the sessions and the streams are never waited *)
(* for in a circle: while handlers are running, one of them has those it   *)
(* is waiting for, and can go on.                                          *)
(***************************************************************************)
HasItsMutexes(t) ==
    \/ call[t].at \in {"start", "reply"}
    \/ call[t].at \in {"remove", "stream to all"} /\ Free("ClientSessions")
    \/ call[t].at \in {"stream", "unstream"} /\ Free("StreamingActive")
    \/ call[t].at \in {"command", "execute", "execute next"} /\ Free("CommandsQueue")
    \/ mutex["CommandsQueue"] = t /\ Free("ClientSessions")

SomebodyHasItsMutexes ==
    (\E t \in Threads : call[t].at # "idle") => \E t \in Threads : HasItsMutexes(t)

NoCircularWait ==
    ~halted => /\ SomebodyHasItsMutexes
               /\ \A t \in Threads : HasItsMutexes(t) => ENABLED GoOn(t)

(***************************************************************************)
(* A client that has gone is forgotten: its session leaves the list and    *)
(* the streams, whatever it was doing.                                     *)
(***************************************************************************)
GoneForgotten ==
    \A c \in Clients :
      peer[c] = "closed" ~>
        undefined \/ c \notin ToSet(clientSessions) \cup streamKeys
=============================================================================
