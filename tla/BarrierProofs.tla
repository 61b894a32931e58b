--------------------------- MODULE BarrierProofs ---------------------------
(***************************************************************************)
(* The counting barrier is safe for every finite set of nodes and every    *)
(* number of rounds.                                                       *)
(***************************************************************************)
EXTENDS Barrier, FiniteSetTheorems, TLAPS

\* There are N nodes.
LEMMA NodesCount ==
  ASSUME Parameters
  PROVE  N \in Nat /\ IsFiniteSet(Nodes) /\ Cardinality(Nodes) = N
  BY FS_Interval DEF Nodes, Parameters

\* A set of nodes as large as all the nodes holds every node.
LEMMA FullSet ==
  ASSUME Parameters, NEW S \in SUBSET Nodes, Cardinality(S) = N
  PROVE  S = Nodes
  BY NodesCount, FS_Subset

\* Initially every counter is exact: nobody has announced anything.
LEMMA InitBarrierInv ==
  ASSUME Parameters, Init
  PROVE  BarrierInv
<1> USE DEF Parameters
<1>1. TypeOK /\ InStep /\ SentInv /\ FrameInv /\ OrderInv
  BY DEF Init, TypeOK, InStep, SentInv, FrameInv, OrderInv, ReadyFrames
<1>2. ASSUME NEW n \in Nodes PROVE CountExact(n)
  <2>1. Arrived(n) = {}
    BY DEF Init, Arrived
  <2>2. Cardinality(Arrived(n)) = 0
    BY <2>1, FS_EmptySet
  <2>3. QED
    BY <2>2 DEF Init, CountExact
<1>3. QED
  BY <1>1, <1>2 DEF BarrierInv, CountInv

(***************************************************************************)
(* Announcing a round: the new frame is the latest and of the latest round.*)
(***************************************************************************)
LEMMA AnnouncePreserves ==
  ASSUME Parameters, NEW n \in Nodes, BarrierInv, Announce(n)
  PROVE  BarrierInv'
<1> DEFINE new == [seq |-> busSeq, from |-> n, round |-> passed[n]]
<1> USE DEF Parameters
<1>0. TypeOK /\ InStep /\ SentInv /\ FrameInv /\ OrderInv /\ CountInv
  BY DEF BarrierInv
<1>1. /\ new \in ReadyFrames
      /\ inbox' = [m \in Nodes |-> IF m = n THEN inbox[m] ELSE inbox[m] \union {new}]
      /\ sent' = [sent EXCEPT ![n] = passed[n] + 1]
      /\ sent[n] = passed[n] /\ passed' = passed
      /\ count' = [count EXCEPT ![n] = count[n] + 1]
      /\ busSeq' = busSeq + 1
      /\ passed[n] + 1 \in 0 .. Rounds
  BY <1>0 DEF Announce, TypeOK, ReadyFrames
<1>2. TypeOK'
  BY <1>0, <1>1 DEF TypeOK
<1>3. InStep' /\ SentInv'
  BY <1>0, <1>1 DEF TypeOK, InStep, SentInv
<1>4. ASSUME NEW k \in Nodes, NEW f \in inbox[k]
      PROVE  f.round <= passed[n] /\ f \in ReadyFrames /\ f.round < sent[f.from]
             /\ f.seq < busSeq /\ passed[k] <= f.round /\ f.from # k
  BY <1>0, <1>1 DEF TypeOK, InStep, SentInv, FrameInv, ReadyFrames
<1>5. FrameInv'
  <2> SUFFICES ASSUME NEW k \in Nodes, NEW f \in inbox'[k]
               PROVE  /\ f.from # k
                      /\ passed'[k] <= f.round /\ f.round < sent'[f.from]
                      /\ f.seq < busSeq'
    BY DEF FrameInv
  <2>1. CASE f \in inbox[k]
    BY <2>1, <1>0, <1>1, <1>4 DEF TypeOK, ReadyFrames
  <2>2. CASE f = new /\ k # n
    BY <2>2, <1>0, <1>1 DEF TypeOK, InStep
  <2>3. QED
    BY <2>1, <2>2, <1>1
<1>6. OrderInv'
  <2> SUFFICES ASSUME NEW k \in Nodes, NEW f \in inbox'[k], NEW g \in inbox'[k]
               PROVE  /\ f.from = g.from /\ f.round = g.round => f = g
                      /\ f.round < g.round => f.seq < g.seq
    BY DEF OrderInv
  <2>1. CASE f \in inbox[k] /\ g \in inbox[k]
    BY <2>1, <1>0 DEF OrderInv
  <2>2. CASE f \in inbox[k] /\ g = new
    BY <2>2, <1>4, <1>1, <1>0 DEF TypeOK, ReadyFrames
  <2>3. CASE f = new /\ g \in inbox[k]
    BY <2>3, <1>4, <1>1, <1>0 DEF TypeOK, ReadyFrames
  <2>4. CASE f = new /\ g = new
    BY <2>4, <1>0, <1>1 DEF TypeOK
  <2>5. QED
    BY <2>1, <2>2, <2>3, <2>4, <1>1
<1>7. ASSUME NEW k \in Nodes \ {n}, CountExact(k)
      PROVE  CountExact(k)'
  <2>1. ASSUME NEW m \in Nodes, NEW r \in Nat
        PROVE  InFlight(k, m, r)' <=> InFlight(k, m, r) \/ (m = n /\ r = passed[n])
    BY <1>1 DEF InFlight
  <2>2. passed[k] <= sent[n]
    BY <1>0 DEF InStep
  <2>3. ~InFlight(k, n, passed[n])
    BY <1>0, <1>1 DEF InFlight, FrameInv, TypeOK
  <2>4. Arrived(k)' = Arrived(k)
    BY <2>1, <2>2, <2>3, <1>0, <1>1 DEF Arrived, TypeOK
  <2>5. ASSUME NEW m \in Nodes \ {k}, NEW r \in 0 .. Rounds,
               passed'[k] < r, r < sent'[m]
        PROVE  InFlight(k, m, r)'
    <3>1. CASE m = n /\ r = passed[n]
      BY <3>1, <2>1
    <3>2. CASE r < sent[m]
      BY <3>2, <2>1, <2>5, <1>1, <1>7 DEF CountExact
    <3>3. QED
      BY <3>1, <3>2, <2>5, <1>0, <1>1 DEF TypeOK
  <2>6. QED
    BY <2>4, <2>5, <1>7, <1>1, <1>0 DEF CountExact, TypeOK
<1>8. ASSUME CountExact(n)
      PROVE  CountExact(n)'
  <2>1. ASSUME NEW m \in Nodes, NEW r \in Nat
        PROVE  InFlight(n, m, r)' <=> InFlight(n, m, r)
    BY <1>1 DEF InFlight
  <2>2. ~InFlight(n, n, passed[n])
    BY <1>0 DEF InFlight, FrameInv
  <2>3. Arrived(n)' = Arrived(n) \union {n} /\ n \notin Arrived(n)
    BY <2>1, <2>2, <1>0, <1>1 DEF Arrived, TypeOK
  <2>4. IsFiniteSet(Arrived(n))
    BY NodesCount, FS_Subset DEF Arrived
  <2>5. Cardinality(Arrived(n)') = Cardinality(Arrived(n)) + 1
    BY <2>3, <2>4, FS_AddElement
  <2>6. ASSUME NEW m \in Nodes \ {n}, NEW r \in 0 .. Rounds,
               passed'[n] < r, r < sent'[m]
        PROVE  InFlight(n, m, r)'
    BY <2>6, <2>1, <1>1, <1>8, <1>0 DEF CountExact, TypeOK
  <2>7. QED
    BY <2>5, <2>6, <1>8, <1>1, <1>0 DEF CountExact, TypeOK
<1>9. CountInv'
  <2> SUFFICES ASSUME NEW k \in Nodes PROVE count'[k] > N \/ CountExact(k)'
    BY DEF CountInv
  <2>1. CASE CountExact(k)
    BY <2>1, <1>7, <1>8
  <2>2. CASE count[k] > N
    BY <2>2, <1>0, <1>1, NodesCount DEF TypeOK
  <2>3. QED
    BY <2>1, <2>2, <1>0 DEF CountInv
<1>10. QED
  BY <1>2, <1>3, <1>5, <1>6, <1>9 DEF BarrierInv

(***************************************************************************)
(* Counting a READY.  Frames come in the order of their rounds, so one of  *)
(* a later round comes only after the READYs of all nodes for this round:  *)
(* it takes the counter past N, where it stays.                            *)
(***************************************************************************)
LEMMA HearPreserves ==
  ASSUME Parameters, NEW n \in Nodes, BarrierInv, Hear(n)
  PROVE  BarrierInv'
<1> USE DEF Parameters
<1>0. TypeOK /\ InStep /\ SentInv /\ FrameInv /\ OrderInv /\ CountInv
  BY DEF BarrierInv
<1>1. PICK f \in inbox[n] :
        /\ \A g \in inbox[n] : g.seq >= f.seq
        /\ inbox' = [inbox EXCEPT ![n] = @ \ {f}]
        /\ count' = [count EXCEPT ![n] = @ + 1]
        /\ UNCHANGED <<passed, sent, busSeq>>
  BY DEF Hear
<1>2. TypeOK'
  BY <1>0, <1>1 DEF TypeOK
<1>3. InStep' /\ SentInv'
  BY <1>0, <1>1 DEF InStep, SentInv
<1>4. \A k \in Nodes : inbox'[k] \subseteq inbox[k]
  BY <1>0, <1>1 DEF TypeOK
<1>5. FrameInv' /\ OrderInv'
  BY <1>0, <1>1, <1>4 DEF FrameInv, OrderInv
<1>6. ASSUME NEW k \in Nodes \ {n}, CountExact(k)
      PROVE  CountExact(k)'
  <2>1. inbox'[k] = inbox[k] /\ count'[k] = count[k]
    BY <1>0, <1>1 DEF TypeOK
  <2>2. \A m, r : InFlight(k, m, r)' <=> InFlight(k, m, r)
    BY <2>1 DEF InFlight
  <2>3. Arrived(k)' = Arrived(k)
    BY <2>2, <1>1 DEF Arrived
  <2>4. QED
    BY <2>1, <2>2, <2>3, <1>1, <1>6 DEF CountExact
<1>7. f \in ReadyFrames /\ f.from # n /\ passed[n] <= f.round /\ f.round < sent[f.from]
  BY <1>0, <1>1 DEF FrameInv, TypeOK
<1>8. ASSUME CountExact(n), f.round = passed[n]
      PROVE  CountExact(n)'
  <2>1. ASSUME NEW m \in Nodes, NEW r \in Nat
        PROVE  InFlight(n, m, r)' <=> InFlight(n, m, r) /\ ~(m = f.from /\ r = f.round)
    BY <1>0, <1>1 DEF InFlight, OrderInv, TypeOK
  <2>2. InFlight(n, f.from, passed[n])
    BY <1>8 DEF InFlight
  <2>3. Arrived(n)' = Arrived(n) \union {f.from} /\ f.from \notin Arrived(n)
    BY <2>1, <2>2, <1>0, <1>1, <1>7, <1>8 DEF Arrived, TypeOK, ReadyFrames
  <2>4. IsFiniteSet(Arrived(n))
    BY NodesCount, FS_Subset DEF Arrived
  <2>5. Cardinality(Arrived(n)') = Cardinality(Arrived(n)) + 1
    BY <2>3, <2>4, FS_AddElement
  <2>6. ASSUME NEW m \in Nodes \ {n}, NEW r \in 0 .. Rounds,
               passed'[n] < r, r < sent'[m]
        PROVE  InFlight(n, m, r)'
    BY <2>6, <2>1, <1>1, <1>8, <1>0 DEF CountExact, TypeOK
  <2>7. QED
    BY <2>5, <2>6, <1>8, <1>1, <1>0 DEF CountExact, TypeOK
<1>9. ASSUME CountExact(n), f.round # passed[n]
      PROVE  count'[n] > N
  <2>1. f.round > passed[n]
    BY <1>9, <1>7, <1>0 DEF TypeOK, ReadyFrames
  <2>2. ASSUME NEW m \in Nodes PROVE sent[m] > passed[n]
    <3>1. passed[f.from] >= f.round /\ passed[f.from] <= sent[m]
      BY <1>7, <1>0 DEF SentInv, InStep, TypeOK, ReadyFrames
    <3>2. QED
      BY <3>1, <2>1, <1>7, <1>0 DEF TypeOK, ReadyFrames
  <2>3. ASSUME NEW m \in Nodes PROVE ~InFlight(n, m, passed[n])
    BY <2>1, <1>0, <1>1 DEF InFlight, OrderInv, TypeOK, ReadyFrames
  <2>4. Arrived(n) = Nodes
    BY <2>2, <2>3 DEF Arrived
  <2>5. count[n] = N
    BY <2>4, <1>9, NodesCount DEF CountExact
  <2>6. QED
    BY <2>5, <1>1, <1>0, NodesCount DEF TypeOK
<1>10. CountInv'
  <2> SUFFICES ASSUME NEW k \in Nodes PROVE count'[k] > N \/ CountExact(k)'
    BY DEF CountInv
  <2>1. CASE CountExact(k)
    BY <2>1, <1>6, <1>8, <1>9
  <2>2. CASE count[k] > N
    BY <2>2, <1>0, <1>1, NodesCount DEF TypeOK
  <2>3. QED
    BY <2>1, <2>2, <1>0 DEF CountInv
<1>11. QED
  BY <1>2, <1>3, <1>5, <1>10 DEF BarrierInv

(***************************************************************************)
(* Going through: the counter equals N, so it is exact and the READY of    *)
(* every node for this round arrived.                                      *)
(***************************************************************************)
LEMMA GoThroughPreserves ==
  ASSUME Parameters, NEW n \in Nodes, BarrierInv, GoThrough(n)
  PROVE  BarrierInv'
<1> USE DEF Parameters
<1>0. TypeOK /\ InStep /\ SentInv /\ FrameInv /\ OrderInv /\ CountInv
  BY DEF BarrierInv
<1>1. /\ sent[n] = passed[n] + 1 /\ count[n] = N
      /\ passed' = [passed EXCEPT ![n] = @ + 1]
      /\ count' = [count EXCEPT ![n] = 0]
      /\ busSeq' \in {busSeq, busSeq + 1}
      /\ sent' = sent /\ inbox' = inbox
  BY DEF GoThrough, Opens
<1>2. CountExact(n)
  BY <1>0, <1>1, NodesCount DEF CountInv
<1>3. Arrived(n) = Nodes
  <2>1. Arrived(n) \in SUBSET Nodes /\ Cardinality(Arrived(n)) = N
    BY <1>1, <1>2 DEF Arrived, CountExact
  <2>2. QED
    BY <2>1, FullSet
<1>4. \A m \in Nodes : sent[m] > passed[n] /\ ~InFlight(n, m, passed[n])
  BY <1>3 DEF Arrived
<1>5. TypeOK'
  BY <1>0, <1>1 DEF TypeOK
<1>6. InStep' /\ SentInv'
  BY <1>0, <1>1, <1>4 DEF TypeOK, InStep, SentInv
<1>7. FrameInv'
  <2> SUFFICES ASSUME NEW k \in Nodes, NEW f \in inbox[k]
               PROVE  f.from # k /\ passed'[k] <= f.round /\ f.round < sent[f.from]
                      /\ f.seq < busSeq'
    BY <1>1 DEF FrameInv
  <2>1. /\ f \in ReadyFrames /\ f.from # k /\ f.round < sent[f.from]
        /\ f.seq < busSeq /\ passed[k] <= f.round
    BY <1>0 DEF FrameInv, TypeOK
  <2>2. k = n => f.round # passed[n]
    BY <2>1, <1>4 DEF InFlight, ReadyFrames
  <2>3. QED
    BY <2>1, <2>2, <1>0, <1>1 DEF TypeOK, ReadyFrames
<1>8. OrderInv'
  BY <1>0, <1>1 DEF OrderInv
<1>9. \A k, m, r : InFlight(k, m, r)' <=> InFlight(k, m, r)
  BY <1>1 DEF InFlight
<1>10. ASSUME NEW k \in Nodes \ {n}, CountExact(k)
       PROVE  CountExact(k)'
  <2>1. passed'[k] = passed[k] /\ count'[k] = count[k]
    BY <1>0, <1>1 DEF TypeOK
  <2>2. Arrived(k)' = Arrived(k)
    BY <2>1, <1>9, <1>1 DEF Arrived
  <2>3. QED
    BY <2>1, <2>2, <1>9, <1>1, <1>10 DEF CountExact
<1>11. CountExact(n)'
  <2>1. passed'[n] = passed[n] + 1 /\ count'[n] = 0
    BY <1>0, <1>1 DEF TypeOK
  <2>2. ASSUME NEW m \in Nodes, sent[m] > passed[n] + 1
        PROVE  InFlight(n, m, passed[n] + 1)
    BY <2>2, <1>0, <1>1, <1>2 DEF CountExact, TypeOK
  <2>3. Arrived(n)' = {}
    BY <2>1, <2>2, <1>1, <1>9 DEF Arrived
  <2>4. ASSUME NEW m \in Nodes \ {n}, NEW r \in 0 .. Rounds,
               passed'[n] < r, r < sent'[m]
        PROVE  InFlight(n, m, r)'
    BY <2>4, <2>1, <1>0, <1>1, <1>2, <1>9 DEF CountExact, TypeOK
  <2>5. QED
    BY <2>1, <2>3, <2>4, FS_EmptySet DEF CountExact
<1>12. CountInv'
  <2> SUFFICES ASSUME NEW k \in Nodes PROVE count'[k] > N \/ CountExact(k)'
    BY DEF CountInv
  <2>1. CASE k = n
    BY <2>1, <1>11
  <2>2. CASE k # n /\ CountExact(k)
    BY <2>2, <1>10
  <2>3. CASE k # n /\ count[k] > N
    BY <2>3, <1>0, <1>1 DEF TypeOK
  <2>4. QED
    BY <2>1, <2>2, <2>3, <1>0 DEF CountInv
<1>13. QED
  BY <1>5, <1>6, <1>7, <1>8, <1>12 DEF BarrierInv

\* The invariant is inductive.
LEMMA NextBarrierInv ==
  ASSUME Parameters, BarrierInv, [Next]_vars
  PROVE  BarrierInv'
<1>1. ASSUME NEW n \in Nodes, Announce(n) PROVE BarrierInv'
  BY <1>1, AnnouncePreserves
<1>2. ASSUME NEW n \in Nodes, Hear(n) PROVE BarrierInv'
  BY <1>2, HearPreserves
<1>3. ASSUME NEW n \in Nodes, GoThrough(n) PROVE BarrierInv'
  BY <1>3, GoThroughPreserves
<1>4. CASE UNCHANGED vars
  BY <1>4 DEF vars, BarrierInv, TypeOK, InStep, SentInv, FrameInv, OrderInv,
              CountInv, CountExact, Arrived, InFlight
<1>5. QED
  BY <1>1, <1>2, <1>3, <1>4 DEF Next

(***************************************************************************)
(* The counting barrier never lets a node through before every node has    *)
(* announced the round, for any number of nodes and rounds.                *)
(***************************************************************************)
THEOREM BarrierInStep ==
  ASSUME Parameters
  PROVE  Spec => []InStep
<1>1. BarrierInv => InStep
  BY DEF BarrierInv
<1>2. Init => BarrierInv
  BY InitBarrierInv
<1>3. BarrierInv /\ [Next]_vars => BarrierInv'
  BY NextBarrierInv
<1>4. QED
  BY <1>1, <1>2, <1>3, PTL DEF Spec

\* The barrier's variables stay in their types.
THEOREM BarrierTypeOK ==
  ASSUME Parameters
  PROVE  Spec => []TypeOK
<1>1. BarrierInv => TypeOK
  BY DEF BarrierInv
<1>2. Init => BarrierInv
  BY InitBarrierInv
<1>3. BarrierInv /\ [Next]_vars => BarrierInv'
  BY NextBarrierInv
<1>4. QED
  BY <1>1, <1>2, <1>3, PTL DEF Spec
=============================================================================
