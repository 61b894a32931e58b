-------------------------- MODULE LastMinuteBuffer --------------------------
(***************************************************************************)
(* The readings of the last minute that the server keeps for the command b *)
(* (LastMinuteBuffer.cpp): for each node, the readings under the second    *)
(* they came in.  One thread adds (the handler of the serial port runs one *)
(* at a time); any thread prints, under the buffer's mutex, so what it     *)
(* prints is the buffer between two steps of this module.  Adding takes    *)
(* the mutex twice and reads the clock twice.                              *)
(***************************************************************************)
EXTENDS Integers, Sequences

CONSTANTS
    NodeIds,        \* the nodes whose readings come in
    Readings,       \* the values of FrequentDataValues
    Minute,         \* the age, in seconds, past which an entry is removed: 60
    MaxTime,        \* bound on the clock
    Garbage         \* times that the memory of a new buffer may hold

\* What the theorems need of the constants.
Parameters == Minute \in Nat /\ MaxTime \in Nat /\ Garbage \subseteq 0 .. MaxTime

VARIABLES
    lastMinuteBuffer,   \* readings of a node by the second they came in
    lastTimeAddedEntry, \* the second of the last entry added
    clock,              \* what time(0) returns
    adding,             \* the call of addToLastMinuteBuffer in progress
    everAdded           \* history: what was ever added, in the same shape

bufferVars == <<lastMinuteBuffer, lastTimeAddedEntry, clock, adding, everAdded>>

Times == 0 .. MaxTime

Idle == [at |-> "idle"]

(***************************************************************************)
(* No constructor sets lastTimeAddedEntry: it holds what the memory held,  *)
(* which may happen to be the current second.                              *)
(***************************************************************************)
InitBuffer ==
    /\ lastMinuteBuffer = [n \in NodeIds |-> [t \in Times |-> <<>>]]
    /\ everAdded = lastMinuteBuffer
    /\ lastTimeAddedEntry \in Garbage
    /\ clock = 0
    /\ adding = Idle

\* Mutant: lastTimeAddedEntry is set before it is compared.
PurgeDueAfterUpdate == LET last == clock IN clock # last

\* The first entry of a second purges the buffer.
PurgeDue == clock # lastTimeAddedEntry

\* The entry of addToLastMinuteBuffer: reads the clock, and decides to purge.
AddToLastMinuteBuffer(n, reading) ==
    /\ adding = Idle
    /\ adding' = [at |-> IF PurgeDue THEN "remove" ELSE "push",
                  timeNow |-> clock, node |-> n, reading |-> reading]
    /\ UNCHANGED <<lastMinuteBuffer, lastTimeAddedEntry, clock, everAdded>>

\* Mutant: an entry is removed as soon as it is a minute old.
TooOldAtAMinute(t) == t <= clock - Minute

\* Removed: older than a minute, by a second reading of the clock.
TooOld(t) == t < clock - Minute

\* removeOldLastMinuteBufferEntries, for every node, under the mutex.
RemoveOldLastMinuteBufferEntries ==
    /\ adding.at = "remove"
    /\ lastMinuteBuffer' = [n \in NodeIds |-> [t \in Times |->
                              IF TooOld(t) THEN <<>> ELSE lastMinuteBuffer[n][t]]]
    /\ adding' = [adding EXCEPT !.at = "push"]
    /\ UNCHANGED <<lastTimeAddedEntry, clock, everAdded>>

\* The push_back, under the mutex; the entry goes under the first clock reading.
PushBack ==
    /\ adding.at = "push"
    /\ LET With(buffer) == [buffer EXCEPT ![adding.node][adding.timeNow] =
                              Append(@, adding.reading)]
       IN  /\ lastMinuteBuffer' = With(lastMinuteBuffer)
           /\ everAdded' = With(everAdded)
    /\ lastTimeAddedEntry' = adding.timeNow
    /\ adding' = Idle
    /\ UNCHANGED clock

\* A second passes.
Tick ==
    /\ clock < MaxTime
    /\ clock' = clock + 1
    /\ UNCHANGED <<lastMinuteBuffer, lastTimeAddedEntry, adding, everAdded>>

\* Adding readings of any nodes, at any time.
BufferNext ==
    \/ \E n \in NodeIds, reading \in Readings : AddToLastMinuteBuffer(n, reading)
    \/ RemoveOldLastMinuteBufferEntries
    \/ PushBack
    \/ Tick

BufferSpec == InitBuffer /\ [][BufferNext]_bufferVars

----------------------------------------------------------------------------
Histories == [NodeIds -> [Times -> Seq(Readings)]]

BufferTypeOK ==
    /\ lastMinuteBuffer \in Histories
    /\ everAdded \in Histories
    /\ lastTimeAddedEntry \in Times
    /\ clock \in Times
    /\ \/ adding = Idle
       \/ adding \in [at : {"remove", "push"}, timeNow : Times, node : NodeIds,
                      reading : Readings]

(***************************************************************************)
(* No reading of the last minute is missing, of any node, whenever b       *)
(* prints: between the purge and the push, and after a second passed       *)
(* between the two readings of the clock.                                  *)
(***************************************************************************)
KeepsLastMinute ==
    \A n \in NodeIds, t \in Times :
      t >= clock - Minute => lastMinuteBuffer[n][t] = everAdded[n][t]

(***************************************************************************)
(* After a reading of any node was added, no reading of any node is left   *)
(* that was more than a minute old when it came: the test on the second of *)
(* the last entry skips no purge that matters.                             *)
(***************************************************************************)
PurgedWhenAdded ==
    adding = Idle =>
      \A n \in NodeIds, t \in Times :
        (\E m \in NodeIds : everAdded[m][lastTimeAddedEntry] # <<>>)
          /\ t < lastTimeAddedEntry - Minute => lastMinuteBuffer[n][t] = <<>>
=============================================================================
