------------------------------ MODULE Barrier ------------------------------
(***************************************************************************)
(* What the calibration relies on to keep the nodes in step: a counting    *)
(* barrier over an ordered broadcast, as incrementNodesReady,              *)
(* sendCalibReady and the test numNodesReady == numTotalNodes make it.     *)
(*                                                                         *)
(* A node announces every round with one READY broadcast, counts the       *)
(* READYs it sees (not whose, and not of which round) and goes on when the *)
(* count equals the number of nodes.  There is one counter for all rounds, *)
(* so a READY of the next round that is counted too early leaves the node  *)
(* stuck above the number of nodes; it never lets it through too soon.     *)
(***************************************************************************)
EXTENDS Integers, FiniteSets

CONSTANTS
    N,          \* the number of nodes: numTotalNodes
    Rounds      \* the number of barriers

\* What the invariant below needs of the constants.
Parameters == N \in Nat /\ Rounds \in Nat

Nodes == 0 .. N - 1

VARIABLES
    passed,     \* the barriers a node has gone through
    sent,       \* the READYs a node has broadcast
    count,      \* the READYs a node has counted since it last went through
    inbox,      \* the READYs on their way to a node
    busSeq      \* frames put on the bus so far

vars == <<passed, sent, count, inbox, busSeq>>

ReadyFrames == [seq : Nat, from : Nodes, round : Nat]

Init ==
    /\ passed = [n \in Nodes |-> 0]
    /\ sent = [n \in Nodes |-> 0]
    /\ count = [n \in Nodes |-> 0]
    /\ inbox = [n \in Nodes |-> {}]
    /\ busSeq = 0

\* A node announces the round it stands at and counts itself.
Announce(n) ==
    /\ sent[n] = passed[n]
    /\ passed[n] < Rounds
    /\ sent' = [sent EXCEPT ![n] = @ + 1]
    /\ count' = [count EXCEPT ![n] = @ + 1]
    /\ inbox' = [m \in Nodes |->
                   IF m = n THEN inbox[m]
                   ELSE inbox[m] \union {[seq |-> busSeq, from |-> n, round |-> passed[n]]}]
    /\ busSeq' = busSeq + 1
    /\ UNCHANGED passed

\* A node counts the oldest READY in its receive path.
Hear(n) ==
    \E f \in inbox[n] :
      /\ \A g \in inbox[n] : g.seq >= f.seq
      /\ inbox' = [inbox EXCEPT ![n] = @ \ {f}]
      /\ count' = [count EXCEPT ![n] = @ + 1]
      /\ UNCHANGED <<passed, sent, busSeq>>

\* The count that opens the barrier.
Opens(n) == count[n] = N

\* A node goes through; it may put another frame on the bus as it does.
GoThrough(n) ==
    /\ sent[n] = passed[n] + 1
    /\ Opens(n)
    /\ passed' = [passed EXCEPT ![n] = @ + 1]
    /\ count' = [count EXCEPT ![n] = 0]
    /\ busSeq' \in {busSeq, busSeq + 1}
    /\ UNCHANGED <<sent, inbox>>

Next == \E n \in Nodes : Announce(n) \/ Hear(n) \/ GoThrough(n)

Spec == Init /\ [][Next]_vars

----------------------------------------------------------------------------
\* The counters and the frames have the types a barrier of N nodes gives them.
TypeOK ==
    /\ passed \in [Nodes -> 0 .. Rounds]
    /\ sent \in [Nodes -> 0 .. Rounds]
    /\ count \in [Nodes -> Nat]
    /\ inbox \in [Nodes -> SUBSET ReadyFrames]
    /\ busSeq \in Nat

(***************************************************************************)
(* No node goes through a barrier before every node has announced it.      *)
(***************************************************************************)
InStep == \A m, n \in Nodes : passed[m] <= sent[n]

----------------------------------------------------------------------------
(***************************************************************************)
(* The inductive invariant.  A READY in flight was sent, is not of a round *)
(* its receiver has left, is unique, and READYs of earlier rounds are      *)
(* earlier on the bus.                                                     *)
(***************************************************************************)
SentInv ==
    \A n \in Nodes : sent[n] \in {passed[n], passed[n] + 1}

FrameInv ==
    \A n \in Nodes : \A f \in inbox[n] :
      /\ f.from # n
      /\ passed[n] <= f.round /\ f.round < sent[f.from]
      /\ f.seq < busSeq

OrderInv ==
    \A n \in Nodes : \A f, g \in inbox[n] :
      /\ f.from = g.from /\ f.round = g.round => f = g
      /\ f.round < g.round => f.seq < g.seq

\* A READY of m for round r is on its way to n.
InFlight(n, m, r) == \E f \in inbox[n] : f.from = m /\ f.round = r

\* The nodes whose READY for the round n stands at has been counted by n.
Arrived(n) == {m \in Nodes : sent[m] > passed[n] /\ ~InFlight(n, m, passed[n])}

(***************************************************************************)
(* The counter of a node is the number of nodes whose READY for this round *)
(* arrived, and no READY of a later round was counted; or it is past the   *)
(* number of nodes, and the node never goes on.                            *)
(***************************************************************************)
CountExact(n) ==
    /\ count[n] = Cardinality(Arrived(n))
    /\ \A m \in Nodes \ {n} : \A r \in 0 .. Rounds :
         passed[n] < r /\ r < sent[m] => InFlight(n, m, r)

CountInv == \A n \in Nodes : count[n] > N \/ CountExact(n)

BarrierInv == TypeOK /\ InStep /\ SentInv /\ FrameInv /\ OrderInv /\ CountInv
=============================================================================
