---------------------------- MODULE StartupProofs ----------------------------
(***************************************************************************)
(* As long as it has not overflowed, the list of nodes stays sorted and    *)
(* the index of every node right, for any ids and any number of slots,     *)
(* nodes, resets and power cycles, and in whatever order the wakeups come. *)
(* And if there is a slot for every node and they are turned on within one *)
(* delay, no node starts to calibrate before it knows all of them.         *)
(***************************************************************************)
EXTENDS Startup, SequenceTheorems, FiniteSetTheorems, WellFoundedInduction, TLAPS

\* What ListSorted says of one node, part by part.
Ascending(list) == \A i, j \in 1 .. Len(list) : i < j => list[i] <= list[j]

Holds(list, id) == \E i \in 1 .. Len(list) : list[i] = id

Indexed(list, index) == \A i \in 1 .. Len(list) : list[index[list[i]] + 1] = list[i]

\* The part of the type invariant that the argument needs.
RegistryType ==
    /\ on \subseteq NodeIds
    /\ nodesList \in [NodeIds -> Seq(NodeIds)]
    /\ nodeIndexOnGainMatrix \in [NodeIds -> [NodeIds -> Nat]]
    /\ inbox \in [NodeIds -> Seq(Frames)]

NodeListed(n) ==
    /\ Ascending(nodesList[n])
    /\ Holds(nodesList[n], n)
    /\ Indexed(nodesList[n], nodeIndexOnGainMatrix[n])

\* The inductive invariant: what is in the slots stays in order even after an overflow.
RegistryInv ==
    /\ RegistryType
    /\ \A n \in on : Ascending(nodesList[n])
    /\ \A n \in on \ overflowed : NodeListed(n)

----------------------------------------------------------------------------
\* A set of natural numbers that is not empty has a least element.
LEMMA LeastElement ==
  ASSUME NEW T \in SUBSET Nat, T # {}
  PROVE  \E x \in T : \A y \in T : x <= y
<1> DEFINE R == OpToRel(<, Nat)
<1>1. IsWellFoundedOn(R, Nat)
  BY NatLessThanWellFounded
<1>2. \A x, y \in Nat : y < x => <<y, x>> \in R
  BY DEF OpToRel
<1> HIDE DEF R
<1>3. PICK x \in T : \A y \in T : ~(<<y, x>> \in R)
  BY <1>1, WFMin
<1>4. ASSUME NEW y \in T PROVE x <= y
  <2>1. x \in Nat /\ y \in Nat
    OBVIOUS
  <2>2. ~(y < x)
    BY <2>1, <1>2, <1>3
  <2>3. QED
    BY <2>1, <2>2
<1>5. QED
  BY <1>4

\* And one that is bounded has a greatest.
LEMMA GreatestElement ==
  ASSUME NEW L \in Nat, NEW T \in SUBSET (1 .. L), T # {}
  PROVE  \E x \in T : \A y \in T : y <= x
<1> DEFINE U == {L - i : i \in T}
<1>1. U \in SUBSET Nat /\ U # {}
  <2>1. ASSUME NEW i \in T PROVE L - i \in Nat
    <3>1. i \in 1 .. L
      OBVIOUS
    <3>2. QED
      BY <3>1
  <2>2. PICK i \in T : TRUE
    OBVIOUS
  <2>3. QED
    BY <2>1, <2>2
<1> HIDE DEF U
<1>2. PICK u \in U : \A v \in U : u <= v
  BY <1>1, LeastElement
<1>3. PICK x \in T : u = L - x
  BY <1>2 DEF U
<1>4. ASSUME NEW y \in T PROVE y <= x
  <2>1. L - y \in U
    BY DEF U
  <2>2. L - x <= L - y
    BY <2>1, <1>2, <1>3
  <2>3. x \in 1 .. L /\ y \in 1 .. L
    OBVIOUS
  <2>4. QED
    BY <2>2, <2>3
<1>5. QED
  BY <1>4

----------------------------------------------------------------------------
\* registerNewNode makes room for the new id before the first larger one.
LEMMA SortedInsertPlace ==
  ASSUME NEW list \in Seq(NodeIds), NEW id \in NodeIds, Ascending(list)
  PROVE  \E place \in 1 .. Len(list) + 1 :
           /\ \A i \in 1 .. Len(list) : i < place => list[i] <= id
           /\ \A i \in 1 .. Len(list) : i >= place => list[i] >= id
           /\ SortedInsert(list, id) \in Seq(NodeIds)
           /\ Len(SortedInsert(list, id)) = Len(list) + 1
           /\ \A i \in 1 .. Len(list) + 1 :
                SortedInsert(list, id)[i] =
                  IF i < place THEN list[i] ELSE IF i = place THEN id ELSE list[i - 1]
<1> DEFINE greater == {i \in 1 .. Len(list) : list[i] > id}
           place == IF greater = {} THEN Len(list) + 1
                    ELSE CHOOSE i \in greater : \A j \in greater : i <= j
           new == SortedInsert(list, id)
<1>1. Len(list) \in Nat /\ list \in [1 .. Len(list) -> NodeIds] /\ NodeIds \subseteq Nat
  BY StartupConstants
<1>2. /\ place \in 1 .. Len(list) + 1
      /\ \A i \in 1 .. Len(list) : i < place => list[i] <= id
      /\ \A i \in 1 .. Len(list) : i >= place => list[i] >= id
  <2>1. CASE greater = {}
    <3>1. place = Len(list) + 1
      BY <2>1
    <3>2. ASSUME NEW i \in 1 .. Len(list) PROVE list[i] <= id
      <4>1. ~(list[i] > id)
        BY <2>1
      <4>2. list[i] \in Nat /\ id \in Nat
        BY <1>1
      <4>3. QED
        BY <4>1, <4>2
    <3> HIDE DEF place
    <3>3. QED
      BY <3>1, <3>2, <1>1
  <2>2. CASE greater # {}
    <3>1. greater \in SUBSET Nat
      BY <1>1
    <3>2. \E i \in greater : \A j \in greater : i <= j
      <4> HIDE DEF greater
      <4> QED BY <3>1, <2>2, LeastElement
    <3>3. place \in greater /\ \A j \in greater : place <= j
      BY <3>2, <2>2
    <3> HIDE DEF place
    <3>4. place \in 1 .. Len(list) /\ list[place] > id
      BY <3>3
    <3>5. ASSUME NEW i \in 1 .. Len(list), i < place PROVE list[i] <= id
      <4>1. i \notin greater
        BY <3>3, <3>4, <3>5, <1>1
      <4>2. ~(list[i] > id)
        BY <4>1
      <4>3. list[i] \in Nat /\ id \in Nat
        BY <1>1
      <4>4. QED
        BY <4>2, <4>3
    <3>6. ASSUME NEW i \in 1 .. Len(list), i >= place PROVE list[i] >= id
      <4>1. list[i] \in Nat /\ list[place] \in Nat /\ id \in Nat
        BY <3>4, <1>1
      <4>2. list[place] <= list[i]
        BY <3>4, <3>6, <4>1, <1>1 DEF Ascending
      <4>3. QED
        BY <3>4, <4>1, <4>2
    <3>7. QED
      BY <3>4, <3>5, <3>6, <1>1
  <2>3. QED
    BY <2>1, <2>2
<1>3. new = SubSeq(list, 1, place - 1) \o <<id>> \o SubSeq(list, place, Len(list))
  BY DEF SortedInsert, InsertAt
<1> HIDE DEF greater, place, new
<1>4. /\ new \in Seq(NodeIds) /\ Len(new) = Len(list) + 1
      /\ \A i \in 1 .. Len(list) + 1 :
           new[i] = IF i < place THEN list[i] ELSE IF i = place THEN id ELSE list[i - 1]
  <2> DEFINE below == SubSeq(list, 1, place - 1)
             above == SubSeq(list, place, Len(list))
  <2>1. /\ below \in Seq(NodeIds) /\ Len(below) = place - 1
        /\ \A i \in 1 .. place - 1 : below[i] = list[i]
    BY <1>1, <1>2, SubSeqProperties
  <2>2. /\ above \in Seq(NodeIds) /\ Len(above) = Len(list) + 1 - place
        /\ \A i \in 1 .. Len(list) + 1 - place : above[i] = list[place + i - 1]
    BY <1>1, <1>2, SubSeqProperties
  <2> HIDE DEF below, above
  <2>3. <<id>> \in Seq(NodeIds) /\ Len(<<id>>) = 1 /\ <<id>>[1] = id
    OBVIOUS
  <2>4. /\ below \o <<id>> \in Seq(NodeIds) /\ Len(below \o <<id>>) = place
        /\ \A i \in 1 .. place - 1 : (below \o <<id>>)[i] = list[i]
        /\ (below \o <<id>>)[place] = id
    BY <2>1, <2>3, <1>2, <1>1, ConcatProperties
  <2>5. new = (below \o <<id>>) \o above
    BY <1>3 DEF below, above
  <2>6. /\ new \in Seq(NodeIds) /\ Len(new) = Len(list) + 1
        /\ \A i \in 1 .. Len(list) + 1 :
             new[i] = IF i <= place THEN (below \o <<id>>)[i] ELSE above[i - place]
    BY <2>2, <2>4, <2>5, <1>1, <1>2, ConcatProperties
  <2>7. ASSUME NEW i \in 1 .. Len(list) + 1
        PROVE  new[i] = IF i < place THEN list[i] ELSE IF i = place THEN id ELSE list[i - 1]
    <3>1. CASE i < place
      BY <3>1, <2>4, <2>6, <1>1, <1>2
    <3>2. CASE i = place
      BY <3>2, <2>4, <2>6, <1>1, <1>2
    <3>3. CASE i > place
      <4>1. i - place \in 1 .. Len(list) + 1 - place /\ place + (i - place) - 1 = i - 1
        BY <3>3, <1>1, <1>2
      <4>2. above[i - place] = list[i - 1]
        BY <4>1, <2>2
      <4>3. new[i] = above[i - place] /\ ~(i < place) /\ i # place
        BY <3>3, <2>6, <1>1, <1>2
      <4>4. QED
        BY <4>2, <4>3
    <3>4. QED
      BY <3>1, <3>2, <3>3, <1>1, <1>2
  <2>8. QED
    BY <2>6, <2>7
<1>5. QED
  BY <1>2, <1>4 DEF new

\* It keeps the entries, in order, and adds the new id among them.
LEMMA SortedInsertKeepsOrder ==
  ASSUME NEW list \in Seq(NodeIds), NEW id \in NodeIds, Ascending(list)
  PROVE  /\ SortedInsert(list, id) \in Seq(NodeIds)
         /\ Ascending(SortedInsert(list, id))
         /\ Holds(SortedInsert(list, id), id)
         /\ \A k \in NodeIds : Holds(list, k) => Holds(SortedInsert(list, id), k)
<1> DEFINE new == SortedInsert(list, id)
<1>1. Len(list) \in Nat /\ list \in [1 .. Len(list) -> NodeIds] /\ NodeIds \subseteq Nat
  BY StartupConstants
<1> HIDE DEF new
<1>0. PICK place \in 1 .. Len(list) + 1 :
        /\ \A i \in 1 .. Len(list) : i < place => list[i] <= id
        /\ \A i \in 1 .. Len(list) : i >= place => list[i] >= id
        /\ new \in Seq(NodeIds) /\ Len(new) = Len(list) + 1
        /\ \A i \in 1 .. Len(list) + 1 :
             new[i] = IF i < place THEN list[i] ELSE IF i = place THEN id ELSE list[i - 1]
  BY SortedInsertPlace DEF new
<1>2. /\ place \in 1 .. Len(list) + 1
      /\ \A i \in 1 .. Len(list) : i < place => list[i] <= id
      /\ \A i \in 1 .. Len(list) : i >= place => list[i] >= id
  BY <1>0
<1>4. /\ new \in Seq(NodeIds) /\ Len(new) = Len(list) + 1
      /\ \A i \in 1 .. Len(list) + 1 :
           new[i] = IF i < place THEN list[i] ELSE IF i = place THEN id ELSE list[i - 1]
  BY <1>0
<1>5. Ascending(new)
  <2> SUFFICES ASSUME NEW i \in 1 .. Len(new), NEW j \in 1 .. Len(new), i < j
               PROVE  new[i] <= new[j]
    BY DEF Ascending
  <2>0. i \in 1 .. Len(list) + 1 /\ j \in 1 .. Len(list) + 1
    BY <1>4
  <2>1. CASE j < place
    BY <2>0, <2>1, <1>1, <1>2, <1>4 DEF Ascending
  <2>2. CASE j = place
    BY <2>0, <2>2, <1>1, <1>2, <1>4
  <2>3. CASE j > place /\ i < place
    <3>1. i \in 1 .. Len(list) /\ j - 1 \in 1 .. Len(list) /\ j - 1 >= place
      BY <2>0, <2>3, <1>1, <1>2
    <3>2. list[i] <= id /\ list[j - 1] >= id
      BY <3>1, <2>3, <1>2
    <3>3. new[i] = list[i] /\ new[j] = list[j - 1]
      BY <2>0, <2>3, <1>1, <1>2, <1>4
    <3>4. list[i] \in Nat /\ list[j - 1] \in Nat /\ id \in Nat
      BY <3>1, <1>1
    <3>5. QED
      BY <3>2, <3>3, <3>4
  <2>4. CASE j > place /\ i = place
    <3>1. j - 1 \in 1 .. Len(list) /\ j - 1 >= place
      BY <2>0, <2>4, <1>1, <1>2
    <3>2. new[i] = id /\ new[j] = list[j - 1]
      BY <2>0, <2>4, <1>1, <1>2, <1>4
    <3>3. list[j - 1] >= id
      BY <3>1, <1>2
    <3>4. list[j - 1] \in Nat /\ id \in Nat
      BY <3>1, <1>1
    <3>5. QED
      BY <3>2, <3>3, <3>4
  <2>5. CASE j > place /\ i > place
    <3>1. i - 1 \in 1 .. Len(list) /\ j - 1 \in 1 .. Len(list) /\ i - 1 < j - 1
      BY <2>0, <2>5, <1>1, <1>2
    <3>2. new[i] = list[i - 1] /\ new[j] = list[j - 1]
      BY <2>0, <2>5, <1>1, <1>2, <1>4
    <3>3. QED
      BY <3>1, <3>2 DEF Ascending
  <2>6. QED
    BY <2>0, <2>1, <2>2, <2>3, <2>4, <2>5, <1>1, <1>2
<1>6. Holds(new, id)
  BY <1>2, <1>4 DEF Holds
<1>7. ASSUME NEW k \in NodeIds, Holds(list, k) PROVE Holds(new, k)
  <2>1. PICK i \in 1 .. Len(list) : list[i] = k
    BY <1>7 DEF Holds
  <2>2. CASE i < place
    BY <2>1, <2>2, <1>1, <1>4 DEF Holds
  <2>3. CASE i >= place
    <3>1. i + 1 \in 1 .. Len(new) /\ new[i + 1] = k
      BY <2>1, <2>3, <1>1, <1>2, <1>4
    <3>2. QED
      BY <3>1 DEF Holds
  <2>4. QED
    BY <2>2, <2>3, <1>1, <1>2
<1>8. QED
  BY <1>4, <1>5, <1>6, <1>7 DEF new

\* The loop over the list leaves the index of every id in it.
LEMMA IndexAfterPoints ==
  ASSUME NEW list \in Seq(NodeIds), NEW index \in [NodeIds -> Nat]
  PROVE  /\ IndexAfter(index, list) \in [NodeIds -> Nat]
         /\ Indexed(list, IndexAfter(index, list))
         /\ \A i \in 1 .. Len(list) : IndexAfter(index, list)[list[i]] + 1 \in 1 .. Len(list)
<1> DEFINE at(id) == {i \in 1 .. Len(list) : list[i] = id}
           last(id) == CHOOSE i \in 1 .. Len(list) :
                         list[i] = id /\ \A j \in 1 .. Len(list) : list[j] = id => j <= i
           after == IndexAfter(index, list)
<1>1. Len(list) \in Nat /\ list \in [1 .. Len(list) -> NodeIds]
  OBVIOUS
<1>2. ASSUME NEW id \in NodeIds, \E i \in 1 .. Len(list) : list[i] = id
      PROVE  last(id) \in 1 .. Len(list) /\ list[last(id)] = id
  <2>1. at(id) \in SUBSET (1 .. Len(list)) /\ at(id) # {}
    BY <1>2
  <2>2. \E i \in at(id) : \A j \in at(id) : j <= i
    <3> HIDE DEF at
    <3> QED BY <2>1, <1>1, GreatestElement
  <2>3. \E i \in 1 .. Len(list) :
          list[i] = id /\ \A j \in 1 .. Len(list) : list[j] = id => j <= i
    BY <2>2
  <2>4. QED
    BY <2>3
<1>3. after = [id \in NodeIds |-> IF \E i \in 1 .. Len(list) : list[i] = id
                                  THEN last(id) - 1 ELSE index[id]]
  BY DEF IndexAfter
<1> HIDE DEF at, last, after
<1>4. after \in [NodeIds -> Nat]
  BY <1>1, <1>2, <1>3
<1>5. ASSUME NEW i \in 1 .. Len(list)
      PROVE  list[after[list[i]] + 1] = list[i] /\ after[list[i]] + 1 \in 1 .. Len(list)
  <2>1. list[i] \in NodeIds
    BY <1>1
  <2>2. last(list[i]) \in 1 .. Len(list) /\ list[last(list[i])] = list[i]
    BY <2>1, <1>2
  <2>3. after[list[i]] = last(list[i]) - 1
    BY <2>1, <1>3
  <2>4. after[list[i]] + 1 = last(list[i])
    BY <2>2, <2>3, <1>1
  <2>5. QED
    BY <2>2, <2>4
<1>6. QED
  BY <1>4, <1>5 DEF Indexed, after

----------------------------------------------------------------------------
\* Nothing is on before the first node is turned on.
LEMMA InitRegistryInv == Init => RegistryInv
  BY StartupConstants DEF Init, RegistryInv, RegistryType, NodeListed

\* A broadcast puts frames of nodes into boxes of frames.
LEMMA BroadcastType ==
  ASSUME NEW n \in NodeIds, NEW frame \in Frames, NEW boxes \in [NodeIds -> Seq(Frames)]
  PROVE  Broadcast(n, frame, boxes) \in [NodeIds -> Seq(Frames)]
  BY DEF Broadcast

\* A node that starts over knows itself, at index 0.
LEMMA ResetGlobListed ==
  ASSUME RegistryType, NEW n \in NodeIds, ResetGlob(n)
  PROVE  /\ nodesList' \in [NodeIds -> Seq(NodeIds)]
         /\ nodeIndexOnGainMatrix' \in [NodeIds -> [NodeIds -> Nat]]
         /\ NodeListed(n)' /\ Ascending(nodesList'[n])
         /\ \A m \in NodeIds \ {n} : NodeListed(m) => NodeListed(m)'
         /\ \A m \in NodeIds \ {n} : nodesList'[m] = nodesList[m]
<1>1. /\ nodesList' = [nodesList EXCEPT ![n] = <<n>>]
      /\ nodeIndexOnGainMatrix' = [nodeIndexOnGainMatrix EXCEPT ![n] = [id \in NodeIds |-> 0]]
  BY DEF ResetGlob
<1>2. <<n>> \in Seq(NodeIds) /\ Len(<<n>>) = 1 /\ <<n>>[1] = n
  OBVIOUS
<1>3. /\ nodesList' \in [NodeIds -> Seq(NodeIds)]
      /\ nodeIndexOnGainMatrix' \in [NodeIds -> [NodeIds -> Nat]]
  BY <1>1, <1>2 DEF RegistryType
<1>4. nodesList'[n] = <<n>> /\ nodeIndexOnGainMatrix'[n] = [id \in NodeIds |-> 0]
  BY <1>1 DEF RegistryType
<1>5. Ascending(<<n>>) /\ Holds(<<n>>, n) /\ Indexed(<<n>>, [id \in NodeIds |-> 0])
  BY <1>2 DEF Ascending, Holds, Indexed
<1>6. ASSUME NEW m \in NodeIds \ {n}
      PROVE  nodesList'[m] = nodesList[m] /\ nodeIndexOnGainMatrix'[m] = nodeIndexOnGainMatrix[m]
  BY <1>1 DEF RegistryType
<1>7. QED
  BY <1>3, <1>4, <1>5, <1>6 DEF NodeListed

\* A node that registers another one keeps what it knew, if it has a slot for it.
LEMMA RegisterNewNodeListed ==
  ASSUME RegistryType, NEW n \in NodeIds, NEW id \in NodeIds, Ascending(nodesList[n]),
         RegisterNewNode(n, id)
  PROVE  /\ nodesList' \in [NodeIds -> Seq(NodeIds)]
         /\ nodeIndexOnGainMatrix' \in [NodeIds -> [NodeIds -> Nat]]
         /\ Ascending(nodesList'[n])
         /\ n \notin overflowed' /\ NodeListed(n) => NodeListed(n)'
         /\ overflowed' \in {overflowed, overflowed \union {n}}
         /\ \A m \in NodeIds \ {n} : NodeListed(m) => NodeListed(m)'
         /\ \A m \in NodeIds \ {n} : nodesList'[m] = nodesList[m]
<1> DEFINE list == nodesList[n]
           new == SortedInsert(list, id)
           index == nodeIndexOnGainMatrix[n]
           after == IndexAfter(index, new)
           kept == SubSeq(new, 1, MaxNumNodes)
<1>1. list \in Seq(NodeIds) /\ index \in [NodeIds -> Nat] /\ Ascending(list)
  BY DEF RegistryType
<1>2. \/ /\ nodesList' = [nodesList EXCEPT ![n] = new]
         /\ nodeIndexOnGainMatrix' = [nodeIndexOnGainMatrix EXCEPT ![n] = after]
         /\ overflowed' = overflowed
      \/ /\ nodesList' = [nodesList EXCEPT ![n] = kept] /\ Len(list) >= MaxNumNodes
         /\ nodeIndexOnGainMatrix' = [nodeIndexOnGainMatrix EXCEPT ![n] = after]
         /\ overflowed' = overflowed \union {n}
  <2>1. CASE RegisterInSlot(n, id)
    <3>1. nodesList' = [nodesList EXCEPT ![n] = new] /\ nodesList'[n] = new
      BY <2>1 DEF RegisterInSlot, RegistryType
    <3>2. QED
      BY <2>1, <3>1 DEF RegisterInSlot
  <2>2. CASE RegisterPastEnd(n, id)
    BY <2>2 DEF RegisterPastEnd
  <2>3. QED
    BY <2>1, <2>2 DEF RegisterNewNode
<1> HIDE DEF list, new, index, after, kept
<1>3. /\ new \in Seq(NodeIds) /\ Ascending(new) /\ Len(new) = Len(list) + 1
      /\ \A k \in NodeIds : Holds(list, k) => Holds(new, k)
  BY <1>1, SortedInsertKeepsOrder, SortedInsertPlace DEF new
<1>4. after \in [NodeIds -> Nat] /\ Indexed(new, after)
  BY <1>1, <1>3, IndexAfterPoints DEF after
<1>5. nodeIndexOnGainMatrix' \in [NodeIds -> [NodeIds -> Nat]]
      /\ nodeIndexOnGainMatrix'[n] = after
  BY <1>2, <1>4 DEF RegistryType
<1>6. ASSUME NEW m \in NodeIds \ {n}
      PROVE  nodesList'[m] = nodesList[m] /\ nodeIndexOnGainMatrix'[m] = nodeIndexOnGainMatrix[m]
  BY <1>2 DEF RegistryType
<1>7. CASE nodesList' = [nodesList EXCEPT ![n] = new] /\ overflowed' = overflowed
  <2>1. nodesList' \in [NodeIds -> Seq(NodeIds)] /\ nodesList'[n] = new
    BY <1>3, <1>7 DEF RegistryType
  <2>2. NodeListed(n) => Holds(new, n)
    BY <1>3 DEF NodeListed, list
  <2>3. QED
    BY <1>3, <1>4, <1>5, <1>6, <1>7, <2>1, <2>2 DEF NodeListed
<1>8. CASE /\ nodesList' = [nodesList EXCEPT ![n] = kept] /\ Len(list) >= MaxNumNodes
           /\ overflowed' = overflowed \union {n}
  <2>1. MaxNumNodes \in 1 .. Len(new) /\ MaxNumNodes \in Nat /\ Len(new) \in Nat
    BY <1>1, <1>3, <1>8, StartupConstants
  <2>2. /\ kept \in Seq(NodeIds) /\ Len(kept) = MaxNumNodes
        /\ \A i \in 1 .. MaxNumNodes : kept[i] = new[i]
    BY <1>3, <2>1, SubSeqProperties DEF kept
  <2>3. Ascending(kept)
    <3>1. 1 .. Len(kept) \subseteq 1 .. Len(new)
      BY <2>1, <2>2
    <3>2. QED
      BY <1>3, <2>2, <3>1 DEF Ascending
  <2>4. nodesList' \in [NodeIds -> Seq(NodeIds)] /\ nodesList'[n] = kept
    BY <1>8, <2>2 DEF RegistryType
  <2>5. QED
    BY <1>5, <1>6, <1>8, <2>3, <2>4 DEF NodeListed
<1>9. QED
  BY <1>2, <1>7, <1>8

\* Every step keeps the invariant.
LEMMA NextRegistryInv == RegistryInv /\ [Next]_vars => RegistryInv'
<1> SUFFICES ASSUME RegistryInv, [Next]_vars PROVE RegistryInv'
  OBVIOUS
<1>0. /\ RegistryType /\ \A n \in on : Ascending(nodesList[n])
      /\ \A n \in on \ overflowed : NodeListed(n)
  BY DEF RegistryInv
<1>1. ASSUME NEW n \in NodeIds, PowerOn(n) PROVE RegistryInv'
  <2>1. /\ ResetGlob(n) /\ on' = on \union {n} /\ inbox' = [inbox EXCEPT ![n] = <<>>]
        /\ overflowed' = overflowed \ {n}
    BY <1>1 DEF PowerOn
  <2>2. inbox' \in [NodeIds -> Seq(Frames)] /\ on' \subseteq NodeIds
    BY <2>1, <1>0 DEF RegistryType
  <2>3. QED
    BY <2>1, <2>2, <1>0, ResetGlobListed DEF RegistryInv, RegistryType
<1>2. ASSUME NEW n \in NodeIds, RunStateInit(n) PROVE RegistryInv'
  <2>1. Wakeup(n) \in Frames /\ inbox' = Broadcast(n, Wakeup(n), inbox)
    BY <1>2 DEF Wakeup, Frames, RunStateInit
  <2>2. inbox' \in [NodeIds -> Seq(Frames)]
    BY <2>1, <1>0, BroadcastType DEF RegistryType
  <2>3. QED
    BY <2>2, <1>0, <1>2 DEF RunStateInit, RegistryInv, RegistryType, NodeListed
<1>3. ASSUME NEW n \in NodeIds, RunStateWakeupWait(n) PROVE RegistryInv'
  BY <1>0, <1>3 DEF RunStateWakeupWait, RegistryInv, RegistryType, NodeListed
<1>4. ASSUME NEW n \in NodeIds, ReceiveWakeup(n) PROVE RegistryInv'
  <2> DEFINE id == Head(inbox[n]).sender
  <2>1. n \in on /\ RegisterNewNode(n, id) /\ UNCHANGED on /\ Ascending(nodesList[n])
    BY <1>4, <1>0 DEF ReceiveWakeup
  <2>2. inbox[n] \in Seq(Frames) /\ inbox[n] # <<>> /\ inbox' = [inbox EXCEPT ![n] = Tail(@)]
    BY <1>4, <1>0 DEF ReceiveWakeup, RegistryType
  <2>3. Head(inbox[n]) \in Frames /\ Tail(inbox[n]) \in Seq(Frames)
    BY <2>2
  <2>4. id \in NodeIds
    BY <2>3 DEF Frames
  <2>5. inbox' \in [NodeIds -> Seq(Frames)]
    BY <2>2, <2>3, <1>0 DEF RegistryType
  <2> HIDE DEF id
  <2>6. QED
    BY <2>1, <2>4, <2>5, <1>0, RegisterNewNodeListed DEF RegistryInv, RegistryType
<1>5. ASSUME NEW n \in NodeIds, ReceiveReset(n) PROVE RegistryInv'
  <2>1. ResetGlob(n) /\ UNCHANGED <<on, overflowed>>
    BY <1>5 DEF ReceiveReset, ExecuteReset
  <2>2. inbox[n] \in Seq(Frames) /\ inbox[n] # <<>> /\ inbox' = [inbox EXCEPT ![n] = Tail(@)]
    BY <1>5, <1>0 DEF ReceiveReset, RegistryType
  <2>3. Tail(inbox[n]) \in Seq(Frames)
    BY <2>2
  <2>4. inbox' \in [NodeIds -> Seq(Frames)]
    BY <2>2, <2>3, <1>0 DEF RegistryType
  <2>5. QED
    BY <2>1, <2>4, <1>0, ResetGlobListed DEF RegistryInv, RegistryType
<1>6. ASSUME NEW n \in NodeIds, ReadSerialReset(n) PROVE RegistryInv'
  <2>1. ResetGlob(n) /\ UNCHANGED <<on, overflowed>>
    BY <1>6 DEF ReadSerialReset, ExecuteReset
  <2>2. ResetRequest(n) \in Frames /\ inbox' = Broadcast(n, ResetRequest(n), inbox)
    BY <1>6 DEF ReadSerialReset, ResetRequest, Frames
  <2>3. inbox' \in [NodeIds -> Seq(Frames)]
    BY <2>2, <1>0, BroadcastType DEF RegistryType
  <2>4. QED
    BY <2>1, <2>3, <1>0, ResetGlobListed DEF RegistryInv, RegistryType
<1>7. ASSUME NEW n \in NodeIds, PowerCycle(n) PROVE RegistryInv'
  BY <1>0, <1>7 DEF PowerCycle, RegistryInv, RegistryType, NodeListed
<1>8. CASE Tick
  BY <1>0, <1>8 DEF Tick, RegistryInv, RegistryType, NodeListed
<1>9. CASE UNCHANGED vars
  BY <1>0, <1>9 DEF vars, RegistryInv, RegistryType, NodeListed
<1>10. QED
  BY <1>1, <1>2, <1>3, <1>4, <1>5, <1>6, <1>7, <1>8, <1>9 DEF Next, NodeStep

(***************************************************************************)
(* registerNewNode "keeps it sorted ascending", and every index points to  *)
(* its node, whatever is turned on, reset or powered off, in whatever      *)
(* order the wakeups come and however many slots there are, as long as the *)
(* node has not written past the last slot since it was turned on.         *)
(***************************************************************************)
THEOREM StartupListSorted == Spec => []ListSorted
<1>1. RegistryInv => ListSorted
  <2> SUFFICES ASSUME RegistryInv, NEW n \in on \ overflowed
               PROVE  LET list == nodesList[n]
                          known == {list[i] : i \in 1 .. Len(list)}
                      IN  /\ \A i, j \in 1 .. Len(list) : i < j => list[i] <= list[j]
                          /\ n \in known
                          /\ \A id \in known : list[nodeIndexOnGainMatrix[n][id] + 1] = id
    BY DEF ListSorted
  <2>1. NodeListed(n)
    BY DEF RegistryInv
  <2>2. QED
    BY <2>1 DEF NodeListed, Ascending, Holds, Indexed
<1>2. QED
  BY <1>1, InitRegistryInv, NextRegistryInv, PTL DEF Spec
----------------------------------------------------------------------------
(***************************************************************************)
(* What a node counts on when it starts to calibrate.                      *)
(***************************************************************************)
Ids(list) == {list[i] : i \in 1 .. Len(list)}

\* The list of a node holds each node once, in order, with its index.
Strict(list) == \A i, j \in 1 .. Len(list) : i < j => list[i] < list[j]

Exact(list, index) == \A i \in 1 .. Len(list) : index[list[i]] = i - 1

\* A box holds a reset only as its oldest frame, and no frame twice.
Orderly(box) ==
    /\ \A i \in DOMAIN box : box[i].type = "reset" => i = 1
    /\ \A i, j \in DOMAIN box : box[i] = box[j] => i = j

ResetFirst(box) == box # <<>> /\ box[1].type = "reset"

WakeupsIn(box) == {k \in NodeIds : \E i \in DOMAIN box : box[i] = Wakeup(k)}

\* A node that is on is about to start over,
Awaits(n) == ResetFirst(inbox[n])

\* and then knows nobody else; it has been heard since it started over.
Known(n) == IF Awaits(n) THEN {n} ELSE Ids(nodesList[n])

Awake(n) == n \in on /\ ~Awaits(n) /\ state[n] # "Init"

\* The ticks of a node since it was turned on or reset, as far as they matter.
Progress(n) ==
    elapsed[n] + IF Awaits(n) \/ state[n] = "Init" THEN 0
                 ELSE IF state[n] = "WakeupWait" THEN Delay + 1 ELSE 2 * (Delay + 1)

\* The rest of the type invariant.
StartType ==
    /\ state \in [NodeIds -> {"Init", "WakeupWait", "Calibrate"}]
    /\ elapsed \in [NodeIds -> 0 .. Delay + 1]
    /\ clock \in 0 .. MaxSkew
    /\ powerCycles \in Nat
    /\ raced \in BOOLEAN

\* No node is further ahead of another one than the second of its two delays.
Together ==
    /\ \A n, m \in on : Progress(n) <= Progress(m) + Delay
    /\ on # NodeIds => \A n \in on : Progress(n) <= clock
    /\ \A n \in on : Awaits(n) /\ state[n] # "Calibrate" => elapsed[n] <= Delay

\* A wakeup on its way is of a node that has just left Init, and comes for the first time.
WakeupsNew ==
    \A n \in on :
      /\ Orderly(inbox[n])
      /\ \A k \in WakeupsIn(inbox[n]) :
           k \notin Known(n) /\ Awake(k) /\ state[k] = "WakeupWait" /\ elapsed[k] = 0

\* A node knows, or is about to, exactly those that are awake.
AwakeKnown ==
    \A n \in on : \A k \in NodeIds \ {n} :
      k \in Known(n) \cup WakeupsIn(inbox[n]) <=> Awake(k)

\* The list of a node that is on, and that it is complete before the node calibrates.
ListExact(n) ==
    /\ n \in Ids(nodesList[n])
    /\ Strict(nodesList[n]) /\ Exact(nodesList[n], nodeIndexOnGainMatrix[n])
    /\ state[n] = "Calibrate" => Ids(nodesList[n]) = NodeIds

\* The inductive invariant of a start that nothing disturbs.
StartInv == Together /\ WakeupsNew /\ AwakeKnown /\ \A n \in on : ListExact(n)

----------------------------------------------------------------------------
\* The frames are told apart by type and sender.
LEMMA FramesApart ==
  /\ \A k : Wakeup(k).type = "wakeup" /\ Wakeup(k).sender = k
  /\ \A k : ResetRequest(k).type = "reset"
  /\ \A f \in Frames : f.type = "wakeup" => f = Wakeup(f.sender) /\ f.sender \in NodeIds
  /\ \A f \in Frames : f.type = "wakeup" \/ f.type = "reset"
  /\ \A k \in NodeIds : Wakeup(k) \in Frames /\ ResetRequest(k) \in Frames
BY DEF Wakeup, ResetRequest, Frames

\* A box with nothing in it,
LEMMA EmptyBox == Orderly(<<>>) /\ ~ResetFirst(<<>>) /\ WakeupsIn(<<>>) = {}
BY DEF Orderly, ResetFirst, WakeupsIn

\* one with nothing but a reset,
LEMMA ResetBox ==
  ASSUME NEW h \in NodeIds, NEW box, box = Append(<<>>, ResetRequest(h))
  PROVE  Orderly(box) /\ ResetFirst(box) /\ WakeupsIn(box) = {}
<1>1. box = <<ResetRequest(h)>> /\ Len(box) = 1 /\ box[1] = ResetRequest(h) /\ DOMAIN box = 1 .. 1
  OBVIOUS
<1>2. \A i \in DOMAIN box : i = 1
  BY <1>1
<1>3. \A k \in NodeIds : box[1] # Wakeup(k)
  BY <1>1, FramesApart
<1>4. QED
  BY <1>1, <1>2, <1>3, FramesApart DEF Orderly, ResetFirst, WakeupsIn

\* one that a first wakeup of k goes into,
LEMMA WakeupArrives ==
  ASSUME NEW box \in Seq(Frames), Orderly(box), NEW k \in NodeIds, k \notin WakeupsIn(box)
  PROVE  /\ Orderly(Append(box, Wakeup(k)))
         /\ ResetFirst(Append(box, Wakeup(k))) <=> ResetFirst(box)
         /\ WakeupsIn(Append(box, Wakeup(k))) = WakeupsIn(box) \cup {k}
<1> DEFINE new == Append(box, Wakeup(k))
           L == Len(box)
<1>1. L \in Nat /\ DOMAIN box = 1 .. L /\ Wakeup(k) \in Frames /\ (box = <<>> <=> L = 0)
  BY FramesApart
<1>2. /\ new \in Seq(Frames) /\ Len(new) = L + 1
      /\ \A i \in 1 .. L : new[i] = box[i]
      /\ new[L + 1] = Wakeup(k)
  BY <1>1, AppendProperties
<1>3. DOMAIN new = 1 .. L + 1 /\ new # <<>>
  BY <1>1, <1>2
<1>4. Wakeup(k).type = "wakeup" /\ \A j \in NodeIds : Wakeup(j) = Wakeup(k) => j = k
  BY FramesApart
<1>5. \A i \in 1 .. L : box[i] # Wakeup(k)
  BY <1>1 DEF WakeupsIn
<1> HIDE DEF new
<1>6. Orderly(new)
  <2>1. ASSUME NEW i \in DOMAIN new, new[i].type = "reset" PROVE i = 1
    <3>1. i \in 1 .. L
      BY <1>1, <1>2, <1>3, <1>4, <2>1
    <3>2. QED
      BY <3>1, <1>1, <1>2, <2>1 DEF Orderly
  <2>2. ASSUME NEW i \in DOMAIN new, NEW j \in DOMAIN new, new[i] = new[j] PROVE i = j
    <3>1. CASE i \in 1 .. L /\ j \in 1 .. L
      BY <3>1, <1>1, <1>2, <2>2 DEF Orderly
    <3>2. CASE i = L + 1 /\ j \in 1 .. L
      BY <3>2, <1>2, <1>5, <2>2
    <3>3. CASE j = L + 1 /\ i \in 1 .. L
      BY <3>3, <1>2, <1>5, <2>2
    <3>4. QED
      BY <3>1, <3>2, <3>3, <1>1, <1>3
  <2>3. QED
    BY <2>1, <2>2 DEF Orderly
<1>7. ResetFirst(new) <=> ResetFirst(box)
  <2>1. CASE L = 0
    BY <2>1, <1>1, <1>2, <1>4 DEF ResetFirst
  <2>2. CASE L # 0
    <3>1. new[1] = box[1]
      BY <2>2, <1>1, <1>2
    <3>2. QED
      BY <2>2, <3>1, <1>1, <1>3 DEF ResetFirst
  <2>3. QED
    BY <2>1, <2>2
<1>8. ASSUME NEW j \in NodeIds
      PROVE  (\E i \in DOMAIN new : new[i] = Wakeup(j)) <=>
               (\E i \in DOMAIN box : box[i] = Wakeup(j)) \/ j = k
  <2>1. CASE j = k
    BY <2>1, <1>1, <1>2, <1>3
  <2>2. CASE j # k
    <3>1. \A i \in DOMAIN new : new[i] = Wakeup(j) => i \in 1 .. L
      BY <2>2, <1>1, <1>2, <1>3, <1>4
    <3>2. DOMAIN box \subseteq DOMAIN new
      BY <1>1, <1>3
    <3>3. QED
      BY <2>2, <3>1, <3>2, <1>1, <1>2
  <2>3. QED
    BY <2>1, <2>2
<1>9. WakeupsIn(new) = WakeupsIn(box) \cup {k}
  BY <1>8 DEF WakeupsIn
<1>10. QED
  BY <1>6, <1>7, <1>9 DEF new

\* and one that the oldest frame is taken from.
LEMMA FrameTaken ==
  ASSUME NEW box \in Seq(Frames), box # <<>>, Orderly(box)
  PROVE  /\ Orderly(Tail(box)) /\ ~ResetFirst(Tail(box))
         /\ Head(box).type = "reset" => ResetFirst(box) /\ WakeupsIn(Tail(box)) = WakeupsIn(box)
         /\ Head(box).type = "wakeup" =>
              /\ ~ResetFirst(box) /\ Head(box).sender \in WakeupsIn(box)
              /\ WakeupsIn(Tail(box)) = WakeupsIn(box) \ {Head(box).sender}
<1> DEFINE rest == Tail(box)
           L == Len(box)
           first == Head(box)
<1>1. L \in Nat /\ L >= 1 /\ DOMAIN box = 1 .. L /\ first = box[1] /\ first \in Frames
  OBVIOUS
<1>2. /\ rest \in Seq(Frames) /\ Len(rest) = L - 1
      /\ \A i \in 1 .. L - 1 : rest[i] = box[i + 1]
  BY HeadTailProperties
<1>3. DOMAIN rest = 1 .. L - 1
  BY <1>2
<1> HIDE DEF rest, first
<1>4. \A i \in DOMAIN rest : i + 1 \in DOMAIN box /\ rest[i] = box[i + 1] /\ i + 1 # 1
  BY <1>1, <1>2, <1>3
<1>5. \A i \in DOMAIN box : i # 1 => i - 1 \in DOMAIN rest /\ rest[i - 1] = box[i]
  <2> SUFFICES ASSUME NEW i \in DOMAIN box, i # 1
               PROVE  i - 1 \in DOMAIN rest /\ rest[i - 1] = box[i]
    OBVIOUS
  <2>1. i \in Int /\ i - 1 \in 1 .. L - 1 /\ (i - 1) + 1 = i
    BY <1>1
  <2>2. QED
    BY <2>1, <1>2, <1>3
<1>6. \A i \in DOMAIN rest : rest[i].type # "reset"
  BY <1>4 DEF Orderly
<1>7. Orderly(rest)
  <2>1. ASSUME NEW i \in DOMAIN rest, NEW j \in DOMAIN rest, rest[i] = rest[j] PROVE i = j
    <3>1. i + 1 = j + 1 /\ i \in Int /\ j \in Int
      BY <2>1, <1>3, <1>4 DEF Orderly
    <3>2. QED
      BY <3>1
  <2>2. QED
    BY <2>1, <1>6 DEF Orderly
<1>8. ~ResetFirst(rest)
  <2>1. CASE L = 1
    <3>1. rest = <<>>
      BY <2>1, <1>2
    <3>2. QED
      BY <3>1 DEF ResetFirst
  <2>2. CASE L # 1
    <3>1. 1 \in DOMAIN rest
      BY <2>2, <1>1, <1>3
    <3>2. QED
      BY <3>1, <1>6 DEF ResetFirst
  <2>3. QED
    BY <2>1, <2>2
<1>9. ASSUME NEW k \in NodeIds
      PROVE  (\E i \in DOMAIN rest : rest[i] = Wakeup(k)) <=>
               (\E i \in DOMAIN box : box[i] = Wakeup(k)) /\ first # Wakeup(k)
  <2>1. ASSUME NEW i \in DOMAIN rest, rest[i] = Wakeup(k) PROVE first # Wakeup(k)
    <3>1. i + 1 \in DOMAIN box /\ box[i + 1] = Wakeup(k) /\ i + 1 # 1 /\ 1 \in DOMAIN box
      BY <2>1, <1>1, <1>4
    <3>2. QED
      BY <3>1, <1>1 DEF Orderly
  <2>2. ASSUME NEW i \in DOMAIN box, box[i] = Wakeup(k), first # Wakeup(k)
        PROVE  \E j \in DOMAIN rest : rest[j] = Wakeup(k)
    <3>1. i # 1
      BY <2>2, <1>1
    <3>2. QED
      BY <3>1, <2>2, <1>5
  <2>3. QED
    BY <2>1, <2>2, <1>4
<1>10. CASE first.type = "reset"
  <2>1. \A k \in NodeIds : first # Wakeup(k)
    BY <1>10, FramesApart
  <2>2. WakeupsIn(rest) = WakeupsIn(box)
    BY <2>1, <1>9 DEF WakeupsIn
  <2>3. ResetFirst(box)
    BY <1>1, <1>10 DEF ResetFirst
  <2>4. QED
    BY <1>7, <1>8, <1>10, <2>2, <2>3 DEF rest, first
<1>11. CASE first.type = "wakeup"
  <2>1. first = Wakeup(first.sender) /\ first.sender \in NodeIds
    BY <1>1, <1>11, FramesApart
  <2>2. \A k \in NodeIds : first # Wakeup(k) <=> k # first.sender
    BY <2>1, FramesApart
  <2>3. WakeupsIn(rest) = WakeupsIn(box) \ {first.sender}
    BY <2>2, <1>9 DEF WakeupsIn
  <2>4. first.sender \in WakeupsIn(box) /\ ~ResetFirst(box)
    BY <1>1, <1>11, <2>1 DEF WakeupsIn, ResetFirst
  <2>5. QED
    BY <1>7, <1>8, <1>11, <2>3, <2>4 DEF rest, first
<1>12. QED
  BY <1>1, <1>10, <1>11, FramesApart DEF first
----------------------------------------------------------------------------
\* A new id goes into a list that holds each id once without disturbing the order.
LEMMA SortedInsertAddsOne ==
  ASSUME NEW list \in Seq(NodeIds), NEW id \in NodeIds, Strict(list), id \notin Ids(list)
  PROVE  /\ SortedInsert(list, id) \in Seq(NodeIds)
         /\ Strict(SortedInsert(list, id))
         /\ Ids(SortedInsert(list, id)) = Ids(list) \cup {id}
<1> DEFINE new == SortedInsert(list, id)
           L == Len(list)
<1>1. L \in Nat /\ list \in [1 .. L -> NodeIds] /\ NodeIds \subseteq Nat
  BY StartupConstants
<1>2. Ascending(list)
  <2> SUFFICES ASSUME NEW i \in 1 .. L, NEW j \in 1 .. L, i < j PROVE list[i] <= list[j]
    BY DEF Ascending
  <2>1. list[i] < list[j] /\ list[i] \in Nat /\ list[j] \in Nat
    BY <1>1 DEF Strict
  <2>2. QED
    BY <2>1
<1> HIDE DEF new
<1>3. PICK place \in 1 .. L + 1 :
        /\ \A i \in 1 .. L : i < place => list[i] <= id
        /\ \A i \in 1 .. L : i >= place => list[i] >= id
        /\ new \in Seq(NodeIds) /\ Len(new) = L + 1
        /\ \A i \in 1 .. L + 1 :
             new[i] = IF i < place THEN list[i] ELSE IF i = place THEN id ELSE list[i - 1]
  BY <1>2, SortedInsertPlace DEF new
<1>4. ASSUME NEW i \in 1 .. L
      PROVE  list[i] \in Nat /\ (i < place => list[i] < id) /\ (i >= place => list[i] > id)
  <2>1. list[i] # id /\ list[i] \in Nat /\ id \in Nat
    BY <1>1 DEF Ids
  <2>2. (i < place => list[i] <= id) /\ (i >= place => list[i] >= id)
    BY <1>3
  <2>3. QED
    BY <2>1, <2>2
<1>5. Strict(new)
  <2> SUFFICES ASSUME NEW i \in 1 .. L + 1, NEW j \in 1 .. L + 1, i < j PROVE new[i] < new[j]
    BY <1>3 DEF Strict
  <2>0. i \in Int /\ j \in Int /\ place \in Int /\ id \in Nat
    BY <1>1
  <2>1. CASE j < place
    <3>1. i \in 1 .. L /\ j \in 1 .. L /\ i < place
      BY <2>1, <1>1, <1>3
    <3>2. new[i] = list[i] /\ new[j] = list[j]
      BY <2>1, <3>1, <1>3
    <3>3. QED
      BY <3>1, <3>2 DEF Strict
  <2>2. CASE j = place
    <3>1. i \in 1 .. L /\ i < place
      BY <2>2, <1>1, <1>3
    <3>2. new[i] = list[i] /\ new[j] = id
      BY <2>2, <3>1, <1>3
    <3>3. QED
      BY <3>1, <3>2, <1>4
  <2>3. CASE j > place /\ i < place
    <3>1. i \in 1 .. L /\ j - 1 \in 1 .. L /\ j - 1 >= place
      BY <2>3, <1>1, <1>3
    <3>2. new[i] = list[i] /\ new[j] = list[j - 1]
      BY <2>3, <3>1, <1>3, <2>0
    <3>3. list[i] < id /\ list[j - 1] > id /\ list[i] \in Nat /\ list[j - 1] \in Nat
      BY <2>3, <3>1, <1>4
    <3>4. QED
      BY <3>2, <3>3, <2>0
  <2>4. CASE j > place /\ i = place
    <3>1. j - 1 \in 1 .. L /\ j - 1 >= place
      BY <2>4, <1>1, <1>3
    <3>2. new[i] = id /\ new[j] = list[j - 1]
      BY <2>4, <3>1, <1>3, <2>0
    <3>3. list[j - 1] > id /\ list[j - 1] \in Nat
      BY <3>1, <1>4
    <3>4. QED
      BY <3>2, <3>3, <2>0
  <2>5. CASE j > place /\ i > place
    <3>1. i - 1 \in 1 .. L /\ j - 1 \in 1 .. L /\ i - 1 < j - 1
      BY <2>5, <1>1, <1>3
    <3>2. new[i] = list[i - 1] /\ new[j] = list[j - 1]
      BY <2>5, <1>3, <2>0
    <3>3. QED
      BY <3>1, <3>2 DEF Strict
  <2>6. QED
    BY <2>0, <2>1, <2>2, <2>3, <2>4, <2>5
<1>6. Ids(new) = Ids(list) \cup {id}
  <2>1. ASSUME NEW i \in 1 .. L + 1 PROVE new[i] \in Ids(list) \cup {id}
    <3>1. CASE i < place
      <4>1. i \in 1 .. L /\ new[i] = list[i]
        BY <3>1, <1>1, <1>3
      <4>2. QED
        BY <4>1 DEF Ids
    <3>2. CASE i = place
      BY <3>2, <1>3
    <3>3. CASE i > place
      <4>1. i - 1 \in 1 .. L /\ new[i] = list[i - 1]
        BY <3>3, <1>1, <1>3
      <4>2. QED
        BY <4>1 DEF Ids
    <3>4. QED
      BY <3>1, <3>2, <3>3
  <2>2. ASSUME NEW i \in 1 .. L PROVE \E j \in 1 .. L + 1 : new[j] = list[i]
    <3>1. CASE i < place
      <4>1. i \in 1 .. L + 1 /\ new[i] = list[i]
        BY <3>1, <1>1, <1>3
      <4>2. QED
        BY <4>1
    <3>2. CASE i >= place
      <4>1. i + 1 \in 1 .. L + 1 /\ (i + 1) - 1 = i /\ ~(i + 1 < place) /\ i + 1 # place
        BY <3>2, <1>1
      <4>2. new[i + 1] = list[i]
        BY <4>1, <1>3
      <4>3. QED
        BY <4>1, <4>2
    <3>3. QED
      BY <3>1, <3>2
  <2>3. new[place] = id
    BY <1>3
  <2>4. Ids(new) = {new[i] : i \in 1 .. L + 1}
    BY <1>3 DEF Ids
  <2>5. QED
    BY <2>1, <2>2, <2>3, <2>4 DEF Ids
<1>7. QED
  BY <1>3, <1>5, <1>6 DEF new

\* In such a list the index of every id is the place where it stands.
LEMMA IndexAfterExact ==
  ASSUME NEW list \in Seq(NodeIds), NEW index \in [NodeIds -> Nat], Strict(list)
  PROVE  Exact(list, IndexAfter(index, list))
<1> DEFINE after == IndexAfter(index, list)
<1>1. Len(list) \in Nat /\ list \in [1 .. Len(list) -> NodeIds] /\ NodeIds \subseteq Nat
  BY StartupConstants
<1>2. /\ after \in [NodeIds -> Nat] /\ Indexed(list, after)
      /\ \A i \in 1 .. Len(list) : after[list[i]] + 1 \in 1 .. Len(list)
  BY IndexAfterPoints
<1> HIDE DEF after
<1>3. ASSUME NEW i \in 1 .. Len(list), NEW j \in 1 .. Len(list), list[i] = list[j] PROVE i = j
  <2>1. ~(list[i] < list[j]) /\ ~(list[j] < list[i])
    <3>1. list[i] \in Nat /\ list[j] \in Nat
      BY <1>1
    <3>2. QED
      BY <3>1, <1>3
  <2>2. ~(i < j) /\ ~(j < i)
    BY <2>1 DEF Strict
  <2>3. QED
    BY <2>2
<1>4. ASSUME NEW i \in 1 .. Len(list) PROVE after[list[i]] = i - 1
  <2>1. list[after[list[i]] + 1] = list[i] /\ after[list[i]] + 1 \in 1 .. Len(list)
    BY <1>2 DEF Indexed
  <2>2. after[list[i]] + 1 = i
    BY <2>1, <1>3
  <2>3. after[list[i]] \in Nat
    BY <1>1, <1>2
  <2>4. QED
    BY <2>2, <2>3
<1>5. QED
  BY <1>4 DEF Exact, after

\* A node that starts over has an exact list of itself; the others keep theirs.
LEMMA ResetGlobExact ==
  ASSUME RegistryType, NEW n \in NodeIds, ResetGlob(n)
  PROVE  /\ nodesList'[n] = <<n>> /\ Ids(<<n>>) = {n}
         /\ Strict(<<n>>) /\ Exact(<<n>>, nodeIndexOnGainMatrix'[n])
         /\ \A m \in NodeIds \ {n} :
              nodesList'[m] = nodesList[m] /\ nodeIndexOnGainMatrix'[m] = nodeIndexOnGainMatrix[m]
<1>1. /\ nodesList'[n] = <<n>> /\ nodeIndexOnGainMatrix'[n] = [id \in NodeIds |-> 0]
      /\ \A m \in NodeIds \ {n} :
           nodesList'[m] = nodesList[m] /\ nodeIndexOnGainMatrix'[m] = nodeIndexOnGainMatrix[m]
  BY DEF ResetGlob, RegistryType
<1>2. Len(<<n>>) = 1 /\ <<n>>[1] = n /\ \A i \in 1 .. 1 : i = 1
  OBVIOUS
<1>3. QED
  BY <1>1, <1>2 DEF Ids, Strict, Exact

\* What is known of a node follows from what it holds.
LEMMA NodeKept ==
  ASSUME NEW n \in on, n \in on',
         inbox'[n] = inbox[n], state'[n] = state[n], elapsed'[n] = elapsed[n],
         nodesList'[n] = nodesList[n], nodeIndexOnGainMatrix'[n] = nodeIndexOnGainMatrix[n]
  PROVE  /\ Awaits(n)' = Awaits(n) /\ Known(n)' = Known(n) /\ Awake(n)' = Awake(n)
         /\ Progress(n)' = Progress(n)
         /\ ListExact(n) => ListExact(n)'
BY DEF Awaits, Known, Awake, Progress, ListExact

\* Times are times.
LEMMA ProgressType ==
  ASSUME StartType, NEW n \in NodeIds
  PROVE  /\ elapsed[n] \in 0 .. Delay + 1 /\ Progress(n) \in 0 .. 3 * (Delay + 1)
         /\ elapsed[n] <= Progress(n)
         /\ ~Awaits(n) /\ state[n] # "Init" => Progress(n) >= Delay + 1
<1>1. elapsed[n] \in 0 .. Delay + 1 /\ Delay \in Nat
  BY StartupConstants DEF StartType
<1>2. QED
  BY <1>1 DEF Progress

\* Nobody is awake as long as a node has still to be turned on.
LEMMA NobodyAwake ==
  ASSUME StartType, Together, on \in SUBSET NodeIds, on # NodeIds, MaxSkew <= Delay
  PROVE  \A n \in on : ~Awake(n) /\ Progress(n) <= Delay
<1> SUFFICES ASSUME NEW n \in on PROVE ~Awake(n) /\ Progress(n) <= Delay
  OBVIOUS
<1>1. Progress(n) <= clock /\ clock \in 0 .. MaxSkew
  BY DEF Together, StartType
<1>2. Progress(n) \in Nat /\ Delay \in Nat /\ MaxSkew \in Nat
      /\ (~Awaits(n) /\ state[n] # "Init" => Progress(n) >= Delay + 1)
  BY StartupConstants, ProgressType
<1>3. Progress(n) <= Delay
  BY <1>1, <1>2
<1>4. QED
  BY <1>2, <1>3 DEF Awake

----------------------------------------------------------------------------
\* Nothing is on, and no time has passed.
LEMMA InitStartInv == Init => StartType /\ StartInv
<1> SUFFICES ASSUME Init PROVE StartType /\ StartInv
  OBVIOUS
<1>1. StartType
  <2>1. 0 \in 0 .. Delay + 1 /\ 0 \in 0 .. MaxSkew
    BY StartupConstants
  <2>2. elapsed \in [NodeIds -> 0 .. Delay + 1]
    BY <2>1 DEF Init
  <2>3. state \in [NodeIds -> {"Init", "WakeupWait", "Calibrate"}]
    BY DEF Init
  <2>4. QED
    BY <2>1, <2>2, <2>3 DEF Init, StartType
<1>2. StartInv
  BY DEF Init, StartInv, Together, WakeupsNew, AwakeKnown
<1>3. QED
  BY <1>1, <1>2

\* The types of what only the start needs.
LEMMA NextStartType == RegistryType /\ StartType /\ [Next]_vars => StartType'
<1> SUFFICES ASSUME RegistryType, StartType, [Next]_vars PROVE StartType'
  OBVIOUS
<1>0. Delay \in Nat /\ MaxSkew \in Nat /\ 0 \in 0 .. Delay + 1
  BY StartupConstants
<1>1. ASSUME NEW n \in NodeIds, PowerOn(n) \/ NodeStep(n) \/ ReadSerialReset(n) PROVE StartType'
  <2>1. /\ clock' = clock /\ powerCycles' = powerCycles
        /\ raced' \in {raced, raced \/ ~Quiet}
        /\ elapsed' \in {elapsed, [elapsed EXCEPT ![n] = 0]}
        /\ \/ state' = state
           \/ \E s \in {"Init", "WakeupWait", "Calibrate"} : state' = [state EXCEPT ![n] = s]
    BY <1>1 DEF PowerOn, NodeStep, ReadSerialReset, RunStateInit, RunStateWakeupWait,
                ReceiveWakeup, ReceiveReset, SetState, ExecuteReset
  <2>2. elapsed' \in [NodeIds -> 0 .. Delay + 1]
    BY <1>0, <2>1 DEF StartType
  <2>3. state' \in [NodeIds -> {"Init", "WakeupWait", "Calibrate"}]
    BY <2>1 DEF StartType
  <2>4. raced' \in BOOLEAN
    BY <2>1 DEF StartType
  <2>5. QED
    BY <2>1, <2>2, <2>3, <2>4 DEF StartType
<1>2. ASSUME NEW n \in NodeIds, PowerCycle(n) PROVE StartType'
  BY <1>2 DEF PowerCycle, StartType
<1>3. CASE Tick
  <2>1. clock' \in 0 .. MaxSkew
    BY <1>0, <1>3 DEF Tick, StartType
  <2>2. ASSUME NEW n \in NodeIds PROVE elapsed[n] \in 0 .. Delay + 1
                                      /\ Later(elapsed[n]) \in 0 .. Delay + 1
    <3>1. elapsed[n] \in 0 .. Delay + 1
      BY DEF StartType
    <3>2. QED
      BY <3>1, <1>0 DEF Later
  <2>3. elapsed' \in [NodeIds -> 0 .. Delay + 1]
    BY <2>2, <1>3 DEF Tick
  <2>4. QED
    BY <2>1, <2>3, <1>3 DEF Tick, StartType
<1>4. CASE UNCHANGED vars
  BY <1>4 DEF vars, StartType
<1>5. QED
  BY <1>1, <1>2, <1>3, <1>4 DEF Next
----------------------------------------------------------------------------
\* A node is turned on: setup() starts with itself, and nobody was heard before.
LEMMA PowerOnStep ==
  ASSUME RegistryType, StartType, StartInv, MaxSkew <= Delay, NEW n \in NodeIds, PowerOn(n)
  PROVE  StartInv'
<1>1. /\ n \notin on /\ on' = on \cup {n} /\ on \in SUBSET NodeIds /\ ResetGlob(n)
      /\ clock' = clock /\ inbox' = [inbox EXCEPT ![n] = <<>>]
      /\ state' = [state EXCEPT ![n] = "Init"] /\ elapsed' = [elapsed EXCEPT ![n] = 0]
  BY DEF PowerOn, SetState, RegistryType
<1>2. /\ inbox'[n] = <<>> /\ state'[n] = "Init" /\ elapsed'[n] = 0
      /\ \A m \in NodeIds \ {n} : /\ inbox'[m] = inbox[m] /\ state'[m] = state[m]
                                  /\ elapsed'[m] = elapsed[m]
  BY <1>1 DEF RegistryType, StartType
<1>3. /\ nodesList'[n] = <<n>> /\ Ids(<<n>>) = {n}
      /\ Strict(<<n>>) /\ Exact(<<n>>, nodeIndexOnGainMatrix'[n])
      /\ \A m \in NodeIds \ {n} :
           nodesList'[m] = nodesList[m] /\ nodeIndexOnGainMatrix'[m] = nodeIndexOnGainMatrix[m]
  BY <1>1, ResetGlobExact
<1>4. ASSUME NEW m \in on
      PROVE  /\ inbox'[m] = inbox[m] /\ state'[m] = state[m] /\ elapsed'[m] = elapsed[m]
             /\ Awaits(m)' = Awaits(m) /\ Known(m)' = Known(m) /\ Awake(m)' = Awake(m)
             /\ Progress(m)' = Progress(m) /\ ListExact(m)'
  <2>1. m \in NodeIds \ {n} /\ m \in on' /\ ListExact(m)
    BY <1>1 DEF StartInv
  <2>2. QED
    BY <1>2, <1>3, <2>1, NodeKept
<1>5. /\ ~Awaits(n)' /\ Known(n)' = {n} /\ ~Awake(n)' /\ Progress(n)' = 0
      /\ WakeupsIn(inbox[n])' = {} /\ Orderly(inbox[n])' /\ ListExact(n)'
  BY <1>2, <1>3, EmptyBox DEF Awaits, Known, Awake, Progress, ListExact
<1>6. \A m \in on : ~Awake(m) /\ Progress(m) <= Delay
  BY <1>1, NobodyAwake DEF StartInv
<1>7. \A m \in on : Progress(m) \in Nat /\ Progress(m) <= clock
  BY <1>1, ProgressType DEF StartInv, Together
<1>8. Together'
  <2>1. Delay \in Nat /\ clock \in Nat
    BY StartupConstants DEF StartType
  <2>2. \A m, k \in on' : Progress(m)' <= Progress(k)' + Delay
    BY <1>1, <1>4, <1>5, <1>6, <1>7, <2>1 DEF StartInv, Together
  <2>3. \A m \in on' : Progress(m)' <= clock
    BY <1>1, <1>4, <1>5, <1>7, <2>1
  <2>4. \A m \in on' : Awaits(m)' /\ state'[m] # "Calibrate" => elapsed'[m] <= Delay
    BY <1>1, <1>4, <1>5 DEF StartInv, Together
  <2>5. QED
    BY <1>1, <2>2, <2>3, <2>4 DEF Together
<1>9. WakeupsNew'
  <2>1. ASSUME NEW m \in on
        PROVE  Orderly(inbox'[m]) /\ WakeupsIn(inbox'[m]) = {}
    <3>1. Orderly(inbox[m]) /\ \A k \in WakeupsIn(inbox[m]) : Awake(k) /\ k \in on
      BY DEF StartInv, WakeupsNew, Awake
    <3>2. WakeupsIn(inbox[m]) = {}
      BY <3>1, <1>6
    <3>3. QED
      BY <3>1, <3>2, <1>4
  <2>2. QED
    BY <2>1, <1>1, <1>5 DEF WakeupsNew
<1>10. AwakeKnown'
  <2>1. \A k \in NodeIds : ~Awake(k) /\ ~Awake(k)'
    BY <1>1, <1>4, <1>5, <1>6 DEF Awake
  <2>2. ASSUME NEW m \in on, NEW k \in NodeIds \ {m}
        PROVE  k \notin Known(m)' \cup WakeupsIn(inbox[m])'
    BY <1>4, <2>1 DEF StartInv, AwakeKnown
  <2>3. \A k \in NodeIds \ {n} : k \notin Known(n)' \cup WakeupsIn(inbox[n])'
    BY <1>5
  <2>4. QED
    BY <1>1, <2>1, <2>2, <2>3 DEF AwakeKnown
<1>11. QED
  BY <1>1, <1>4, <1>5, <1>8, <1>9, <1>10 DEF StartInv

\* runStateInit: the others are about to know a node that they did not know.
LEMMA RunStateInitStep ==
  ASSUME RegistryType, StartType, StartInv, NEW n \in NodeIds, RunStateInit(n)
  PROVE  StartInv'
<1>1. /\ n \in on /\ on' = on /\ on \in SUBSET NodeIds /\ state[n] = "Init" /\ elapsed[n] > Delay
      /\ UNCHANGED <<nodesList, nodeIndexOnGainMatrix, clock>>
      /\ inbox' = Broadcast(n, Wakeup(n), inbox)
      /\ state' = [state EXCEPT ![n] = "WakeupWait"] /\ elapsed' = [elapsed EXCEPT ![n] = 0]
  BY DEF RunStateInit, DelayPassed, SetState, RegistryType
<1>2. /\ inbox'[n] = inbox[n] /\ state'[n] = "WakeupWait" /\ elapsed'[n] = 0
      /\ \A m \in on \ {n} : /\ inbox'[m] = Append(inbox[m], Wakeup(n))
                             /\ state'[m] = state[m] /\ elapsed'[m] = elapsed[m]
  BY <1>1 DEF Broadcast, RegistryType, StartType
<1>3. elapsed[n] = Delay + 1 /\ Delay \in Nat /\ ~Awaits(n) /\ ~Awake(n)
  <2>1. elapsed[n] \in 0 .. Delay + 1 /\ Delay \in Nat
    BY StartupConstants DEF StartType
  <2>2. elapsed[n] = Delay + 1 /\ ~(elapsed[n] <= Delay)
    BY <1>1, <2>1
  <2>3. QED
    BY <1>1, <2>1, <2>2 DEF StartInv, Together, Awake
<1>4. /\ ~Awaits(n)' /\ Known(n)' = Known(n) /\ Awake(n)' /\ Progress(n)' = Progress(n)
      /\ WakeupsIn(inbox[n])' = WakeupsIn(inbox[n]) /\ ListExact(n)'
  BY <1>1, <1>2, <1>3 DEF StartInv, Awaits, Known, Awake, Progress, ListExact
<1>5. ASSUME NEW m \in on \ {n}
      PROVE  /\ n \notin Known(m) \cup WakeupsIn(inbox[m])
             /\ Orderly(inbox'[m]) /\ WakeupsIn(inbox'[m]) = WakeupsIn(inbox[m]) \cup {n}
             /\ Awaits(m)' = Awaits(m) /\ Known(m)' = Known(m) /\ Awake(m)' = Awake(m)
             /\ Progress(m)' = Progress(m) /\ ListExact(m)'
  <2>1. inbox[m] \in Seq(Frames) /\ Orderly(inbox[m]) /\ m \in NodeIds
    BY <1>1 DEF RegistryType, StartInv, WakeupsNew
  <2>2. n \notin Known(m) \cup WakeupsIn(inbox[m])
    BY <1>1, <1>3 DEF StartInv, AwakeKnown
  <2>3. /\ Orderly(inbox'[m]) /\ WakeupsIn(inbox'[m]) = WakeupsIn(inbox[m]) \cup {n}
        /\ ResetFirst(inbox'[m]) <=> ResetFirst(inbox[m])
    <3>1. n \notin WakeupsIn(inbox[m])
      BY <2>2
    <3>2. /\ Orderly(Append(inbox[m], Wakeup(n)))
          /\ ResetFirst(Append(inbox[m], Wakeup(n))) <=> ResetFirst(inbox[m])
          /\ WakeupsIn(Append(inbox[m], Wakeup(n))) = WakeupsIn(inbox[m]) \cup {n}
      BY <2>1, <3>1, WakeupArrives, Zenon
    <3>3. QED
      BY <3>2, <1>2
  <2>4. (Awaits(m)' <=> Awaits(m)) /\ Awaits(m) \in BOOLEAN /\ Awaits(m)' \in BOOLEAN
    BY <2>3 DEF Awaits, ResetFirst
  <2>5. ListExact(m)'
    BY <1>1, <1>2 DEF StartInv, ListExact
  <2>6. QED
    BY <1>1, <1>2, <2>2, <2>3, <2>4, <2>5 DEF Known, Awake, Progress
<1>6. Together'
  BY <1>1, <1>2, <1>4, <1>5 DEF StartInv, Together
<1>7. \A k \in NodeIds : Awake(k)' <=> Awake(k) \/ k = n
  BY <1>1, <1>3, <1>4, <1>5 DEF Awake
<1>8. WakeupsNew'
  <2> SUFFICES ASSUME NEW m \in on
               PROVE  /\ Orderly(inbox'[m])
                      /\ \A k \in WakeupsIn(inbox'[m]) :
                           /\ k \notin Known(m)' /\ Awake(k)'
                           /\ state'[k] = "WakeupWait" /\ elapsed'[k] = 0
    BY <1>1 DEF WakeupsNew
  <2>1. Orderly(inbox'[m])
    BY <1>1, <1>2, <1>5 DEF StartInv, WakeupsNew
  <2>2. ASSUME NEW k \in WakeupsIn(inbox[m])
        PROVE  /\ k \notin Known(m)' /\ Awake(k)'
               /\ state'[k] = "WakeupWait" /\ elapsed'[k] = 0
    <3>1. /\ k \in NodeIds /\ k \notin Known(m) /\ Awake(k)
          /\ state[k] = "WakeupWait" /\ elapsed[k] = 0
      BY DEF StartInv, WakeupsNew, WakeupsIn
    <3>2. k \in on \ {n}
      BY <3>1, <1>3 DEF Awake
    <3>3. QED
      BY <3>1, <3>2, <1>2, <1>4, <1>5, <1>7
  <2>3. CASE m = n
    BY <2>1, <2>2, <2>3, <1>4
  <2>4. CASE m # n
    <3>1. WakeupsIn(inbox'[m]) = WakeupsIn(inbox[m]) \cup {n} /\ n \notin Known(m)'
      BY <2>4, <1>5
    <3>2. QED
      BY <2>1, <2>2, <3>1, <1>2, <1>4
  <2>5. QED
    BY <2>3, <2>4
<1>9. AwakeKnown'
  <2> SUFFICES ASSUME NEW m \in on, NEW k \in NodeIds \ {m}
               PROVE  k \in Known(m)' \cup WakeupsIn(inbox'[m]) <=> Awake(k) \/ k = n
    BY <1>1, <1>7 DEF AwakeKnown
  <2>1. k \in Known(m) \cup WakeupsIn(inbox[m]) <=> Awake(k)
    BY DEF StartInv, AwakeKnown
  <2>2. QED
    BY <2>1, <1>4, <1>5
<1>10. QED
  BY <1>1, <1>4, <1>5, <1>6, <1>8, <1>9 DEF StartInv
\* Whoever the others are about to hear has just left Init.
LEMMA JustAwake ==
  ASSUME RegistryType, StartInv, NEW n \in on, NEW k \in WakeupsIn(inbox[n])
  PROVE  k \in on /\ ~Awaits(k) /\ state[k] = "WakeupWait" /\ elapsed[k] = 0
         /\ Progress(k) = 0 + (Delay + 1)
BY DEF StartInv, WakeupsNew, Awake, Progress

(***************************************************************************)
(* runStateWakeupWait: the others left Init before this tick, so that they *)
(* were heard.                                                             *)
(***************************************************************************)
LEMMA RunStateWakeupWaitStep ==
  ASSUME RegistryType, StartType, StartInv, MaxSkew <= Delay,
         NEW n \in NodeIds, RunStateWakeupWait(n)
  PROVE  StartInv'
<1>1. /\ n \in on /\ on' = on /\ on \in SUBSET NodeIds /\ state[n] = "WakeupWait"
      /\ elapsed[n] > Delay
      /\ UNCHANGED <<nodesList, nodeIndexOnGainMatrix, clock, inbox>>
      /\ state' = [state EXCEPT ![n] = "Calibrate"] /\ elapsed' = [elapsed EXCEPT ![n] = 0]
  BY DEF RunStateWakeupWait, DelayPassed, SetState, RegistryType
<1>2. /\ state'[n] = "Calibrate" /\ elapsed'[n] = 0
      /\ \A m \in on \ {n} : state'[m] = state[m] /\ elapsed'[m] = elapsed[m]
  BY <1>1 DEF StartType
<1>3. elapsed[n] = Delay + 1 /\ Delay \in Nat /\ MaxSkew \in Nat /\ ~Awaits(n)
  <2>1. elapsed[n] \in 0 .. Delay + 1 /\ Delay \in Nat /\ MaxSkew \in Nat
    BY StartupConstants DEF StartType
  <2>2. elapsed[n] = Delay + 1 /\ ~(elapsed[n] <= Delay)
    BY <1>1, <2>1
  <2>3. QED
    BY <1>1, <2>1, <2>2 DEF StartInv, Together
<1>4. Progress(n) = 2 * (Delay + 1) /\ Progress(n)' = 2 * (Delay + 1) /\ ~Awaits(n)'
  BY <1>1, <1>2, <1>3 DEF Progress, Awaits
<1>5. \A m \in on : Progress(m) > Delay + 1
  <2> SUFFICES ASSUME NEW m \in on PROVE Progress(m) > Delay + 1
    OBVIOUS
  <2>1. Progress(n) <= Progress(m) + Delay /\ Progress(m) \in Int
    BY <1>1, ProgressType DEF StartInv, Together
  <2>2. QED
    BY <2>1, <1>3, <1>4
<1>6. \A m \in on : Awake(m) /\ WakeupsIn(inbox[m]) = {}
  <2>1. ASSUME NEW m \in on PROVE Awake(m)
    <3>1. elapsed[m] \in 0 .. Delay + 1
      BY <1>1 DEF StartType
    <3>2. Progress(m) # elapsed[m] + 0
      BY <3>1, <1>3, <1>5
    <3>3. QED
      BY <3>2 DEF Progress, Awake
  <2>2. ASSUME NEW m \in on, NEW k \in WakeupsIn(inbox[m]) PROVE FALSE
    <3>1. k \in on /\ Progress(k) = 0 + (Delay + 1)
      BY JustAwake
    <3>2. Progress(k) > Delay + 1
      BY <3>1, <1>5
    <3>3. QED
      BY <3>1, <3>2, <1>3
  <2>3. QED
    BY <2>1, <2>2
<1>7. on = NodeIds
  <2>1. SUFFICES ASSUME on # NodeIds PROVE FALSE
    OBVIOUS
  <2>2. Progress(n) <= Delay
    BY <1>1, <2>1, NobodyAwake DEF StartInv
  <2>3. QED
    BY <2>2, <1>3, <1>4
<1>8. Ids(nodesList[n]) = NodeIds
  <2>1. Known(n) = Ids(nodesList[n])
    BY <1>3 DEF Known
  <2>2. \A k \in NodeIds \ {n} : k \in Known(n)
    BY <1>1, <1>6, <1>7 DEF StartInv, AwakeKnown
  <2>3. n \in Ids(nodesList[n])
    BY <1>1 DEF StartInv, ListExact
  <2>4. Ids(nodesList[n]) \subseteq NodeIds
    <3>1. nodesList[n] \in Seq(NodeIds)
      BY DEF RegistryType
    <3>2. QED
      BY <3>1 DEF Ids
  <2>5. QED
    BY <2>1, <2>2, <2>3, <2>4
<1>9. ASSUME NEW m \in on
      PROVE  /\ Awaits(m)' = Awaits(m) /\ Known(m)' = Known(m) /\ Awake(m)'
             /\ Progress(m)' = Progress(m) /\ ListExact(m)'
  <2>1. CASE m = n
    <3>1. Awaits(m)' = Awaits(m) /\ Known(m)' = Known(m)
      BY <1>1 DEF Awaits, Known
    <3>2. Awake(m)' /\ Progress(m)' = Progress(m)
      BY <2>1, <1>1, <1>2, <1>4 DEF Awake
    <3>3. ListExact(m)'
      BY <2>1, <1>1, <1>8 DEF StartInv, ListExact
    <3>4. QED
      BY <3>1, <3>2, <3>3
  <2>2. CASE m # n
    <3>1. ListExact(m) /\ m \in on'
      BY <1>1 DEF StartInv
    <3>2. QED
      BY <2>2, <3>1, <1>1, <1>2, <1>6, NodeKept
  <2>3. QED
    BY <2>1, <2>2
<1>10. Together'
  BY <1>1, <1>2, <1>4, <1>9 DEF StartInv, Together
<1>11. WakeupsNew'
  BY <1>1, <1>6 DEF StartInv, WakeupsNew
<1>12. AwakeKnown'
  BY <1>1, <1>6, <1>7, <1>9 DEF StartInv, AwakeKnown
<1>13. QED
  BY <1>1, <1>9, <1>10, <1>11, <1>12 DEF StartInv

\* The ids are bounded, so there are finitely many nodes.
LEMMA NodeIdsFinite == IsFiniteSet(NodeIds) /\ Cardinality(NodeIds) \in Nat
<1>1. IsFiniteSet(1 .. MaxNodeId) /\ NodeIds \in SUBSET (1 .. MaxNodeId)
  BY StartupConstants, FS_Interval
<1>2. QED
  BY <1>1, FS_Subset, FS_CardinalityType

\* A list that holds each id once and misses one is shorter than there are nodes.
LEMMA SlotLeft ==
  ASSUME NEW list \in Seq(NodeIds), Strict(list), NEW id \in NodeIds, id \notin Ids(list)
  PROVE  Len(list) < Cardinality(NodeIds)
<1> DEFINE others == NodeIds \ {id}
           L == Len(list)
<1>1. L \in Nat /\ list \in [1 .. L -> NodeIds] /\ NodeIds \subseteq Nat
  BY StartupConstants
<1>2. IsFiniteSet(NodeIds) /\ Cardinality(NodeIds) \in Nat
  BY NodeIdsFinite
<1>3. IsFiniteSet(others) /\ Cardinality(others) = Cardinality(NodeIds) - 1
  BY <1>2, FS_RemoveElement
<1>4. list \in Injection(1 .. L, others)
  <2>1. \A i \in 1 .. L : list[i] # id
    BY DEF Ids
  <2>2. list \in [1 .. L -> others]
    BY <1>1, <2>1
  <2>3. ASSUME NEW i \in 1 .. L, NEW j \in 1 .. L, list[i] = list[j] PROVE i = j
    <3>1. list[i] \in Nat
      BY <1>1
    <3>2. ~(list[i] < list[i])
      BY <3>1
    <3>3. ~(i < j) /\ ~(j < i)
      BY <2>3, <3>2 DEF Strict
    <3>4. QED
      BY <3>3, <1>1
  <2>4. QED
    BY <2>2, <2>3 DEF Injection, IsInjective
<1>5. Cardinality(1 .. L) <= Cardinality(others)
  <2> DEFINE places == 1 .. L
  <2>1. list \in Injection(places, others)
    BY <1>4
  <2> HIDE DEF others, places
  <2>2. Cardinality(places) <= Cardinality(others)
    BY <1>3, <2>1, FS_Injection, Zenon
  <2>3. QED
    BY <2>2 DEF places
<1>6. Cardinality(1 .. L) = L
  <2> HIDE DEF L
  <2>1. 1 \in Int /\ L \in Int
    BY <1>1
  <2>2. Cardinality(1 .. L) = IF 1 > L THEN 0 ELSE L - 1 + 1
    BY <2>1, FS_Interval, Zenon
  <2>3. QED
    BY <1>1, <2>2
<1>7. QED
  BY <1>1, <1>2, <1>3, <1>5, <1>6

\* registerNewNode: the sender of the wakeup is new to the node, and there is a slot for it.
LEMMA ReceiveWakeupStep ==
  ASSUME RegistryType, StartType, StartInv, Cardinality(NodeIds) <= MaxNumNodes, NEW n \in NodeIds,
         ReceiveWakeup(n)
  PROVE  StartInv'
<1> DEFINE id == Head(inbox[n]).sender
           list == nodesList[n]
           index == nodeIndexOnGainMatrix[n]
<1>1. /\ n \in on /\ on' = on /\ on \in SUBSET NodeIds
      /\ UNCHANGED <<state, elapsed, clock>>
      /\ inbox[n] \in Seq(Frames) /\ inbox[n] # <<>> /\ Head(inbox[n]).type = "wakeup"
      /\ inbox' = [inbox EXCEPT ![n] = Tail(@)] /\ RegisterNewNode(n, id)
  BY DEF ReceiveWakeup, RegistryType
<1>2. inbox'[n] = Tail(inbox[n]) /\ \A m \in on \ {n} : inbox'[m] = inbox[m]
  BY <1>1 DEF RegistryType
<1>3. Orderly(inbox[n])
  BY <1>1 DEF StartInv, WakeupsNew
<1>4. /\ Orderly(inbox'[n]) /\ ~ResetFirst(inbox'[n]) /\ ~ResetFirst(inbox[n])
      /\ id \in WakeupsIn(inbox[n]) /\ WakeupsIn(inbox'[n]) = WakeupsIn(inbox[n]) \ {id}
  BY <1>1, <1>2, <1>3, FrameTaken
<1> HIDE DEF id
<1>5. /\ id \in NodeIds /\ id \notin Known(n) /\ ~Awaits(n) /\ ~Awaits(n)'
      /\ Known(n) = Ids(list)
  BY <1>1, <1>4 DEF StartInv, WakeupsNew, WakeupsIn, Awaits, Known
<1>6. list \in Seq(NodeIds) /\ index \in [NodeIds -> Nat] /\ ListExact(n)
  BY <1>1 DEF RegistryType, StartInv
<1>7. /\ nodesList'[n] = SortedInsert(list, id)
      /\ nodeIndexOnGainMatrix'[n] = IndexAfter(index, SortedInsert(list, id))
      /\ \A m \in on \ {n} : /\ nodesList'[m] = nodesList[m]
                             /\ nodeIndexOnGainMatrix'[m] = nodeIndexOnGainMatrix[m]
  <2>0. RegisterInSlot(n, id)
    <3>1. Len(list) < Cardinality(NodeIds)
      BY <1>5, <1>6, SlotLeft DEF ListExact
    <3>2. Len(list) \in Nat /\ Cardinality(NodeIds) \in Nat /\ MaxNumNodes \in Nat
      BY <1>6, NodeIdsFinite, StartupConstants
    <3>3. ~(Len(list) >= MaxNumNodes)
      BY <3>1, <3>2
    <3>4. QED
      BY <1>1, <3>3 DEF RegisterNewNode, RegisterPastEnd
  <2>1. nodesList' = [nodesList EXCEPT ![n] = SortedInsert(list, id)]
    BY <2>0 DEF RegisterInSlot
  <2>2. nodesList'[n] = SortedInsert(list, id)
    BY <2>1 DEF RegistryType
  <2>3. nodeIndexOnGainMatrix' =
          [nodeIndexOnGainMatrix EXCEPT ![n] = IndexAfter(index, SortedInsert(list, id))]
    BY <2>0, <2>2 DEF RegisterInSlot
  <2>4. QED
    BY <1>1, <2>1, <2>2, <2>3 DEF RegistryType
<1>8. /\ SortedInsert(list, id) \in Seq(NodeIds) /\ Strict(SortedInsert(list, id))
      /\ Ids(SortedInsert(list, id)) = Ids(list) \cup {id}
  BY <1>5, <1>6, SortedInsertAddsOne DEF ListExact
<1>9. Exact(SortedInsert(list, id), IndexAfter(index, SortedInsert(list, id)))
  BY <1>6, <1>8, IndexAfterExact
<1>10. Known(n)' = Known(n) \cup {id} /\ Awake(n)' = Awake(n) /\ Progress(n)' = Progress(n)
  <2>1. Known(n)' = Ids(nodesList'[n])
    BY <1>5 DEF Known
  <2>2. QED
    BY <1>1, <1>5, <1>7, <1>8, <2>1 DEF Awake, Progress
<1>11. ListExact(n)'
  <2>1. state[n] = "Calibrate" => Ids(list) = NodeIds
    BY <1>6 DEF ListExact
  <2>2. state[n] # "Calibrate"
    BY <1>5, <2>1
  <2>3. n \in Ids(nodesList'[n]) /\ Strict(nodesList'[n])
        /\ Exact(nodesList'[n], nodeIndexOnGainMatrix'[n])
    BY <1>6, <1>7, <1>8, <1>9 DEF ListExact
  <2>4. QED
    BY <1>1, <2>2, <2>3 DEF ListExact
<1>12. ASSUME NEW m \in on \ {n}
       PROVE  /\ Awaits(m)' = Awaits(m) /\ Known(m)' = Known(m) /\ Awake(m)' = Awake(m)
              /\ Progress(m)' = Progress(m) /\ ListExact(m)'
  BY <1>1, <1>2, <1>7, NodeKept DEF StartInv
<1>13. \A k \in NodeIds : Awake(k)' <=> Awake(k)
  BY <1>1, <1>10, <1>12 DEF Awake
<1>14. Together'
  BY <1>1, <1>5, <1>10, <1>12 DEF StartInv, Together
<1>15. WakeupsNew'
  <2> SUFFICES ASSUME NEW m \in on
               PROVE  /\ Orderly(inbox'[m])
                      /\ \A k \in WakeupsIn(inbox'[m]) :
                           /\ k \notin Known(m)' /\ Awake(k)
                           /\ state[k] = "WakeupWait" /\ elapsed[k] = 0
    BY <1>1, <1>13 DEF WakeupsNew, WakeupsIn
  <2>1. CASE m = n
    BY <2>1, <1>4, <1>10 DEF StartInv, WakeupsNew
  <2>2. CASE m # n
    BY <2>2, <1>2, <1>12 DEF StartInv, WakeupsNew
  <2>3. QED
    BY <2>1, <2>2
<1>16. AwakeKnown'
  <2> SUFFICES ASSUME NEW m \in on, NEW k \in NodeIds \ {m}
               PROVE  k \in Known(m)' \cup WakeupsIn(inbox'[m]) <=> Awake(k)
    BY <1>1, <1>13 DEF AwakeKnown
  <2>1. k \in Known(m) \cup WakeupsIn(inbox[m]) <=> Awake(k)
    BY DEF StartInv, AwakeKnown
  <2>2. QED
    BY <2>1, <1>2, <1>4, <1>10, <1>12
<1>17. QED
  BY <1>1, <1>11, <1>12, <1>14, <1>15, <1>16 DEF StartInv
\* resetGlob at a reset that comes over the bus: the node did not count as awake before.
LEMMA ReceiveResetStep ==
  ASSUME RegistryType, StartType, StartInv, NEW n \in NodeIds, ReceiveReset(n)
  PROVE  StartInv'
<1>1. /\ n \in on /\ on' = on /\ on \in SUBSET NodeIds
      /\ UNCHANGED <<elapsed, clock>> /\ state' = [state EXCEPT ![n] = "Init"]
      /\ inbox[n] \in Seq(Frames) /\ inbox[n] # <<>> /\ Head(inbox[n]).type = "reset"
      /\ inbox' = [inbox EXCEPT ![n] = Tail(@)] /\ ResetGlob(n)
  BY DEF ReceiveReset, ExecuteReset, RegistryType
<1>2. /\ inbox'[n] = Tail(inbox[n]) /\ state'[n] = "Init"
      /\ \A m \in on \ {n} : inbox'[m] = inbox[m] /\ state'[m] = state[m]
  BY <1>1 DEF RegistryType, StartType
<1>3. Orderly(inbox[n])
  BY <1>1 DEF StartInv, WakeupsNew
<1>4. /\ Orderly(inbox'[n]) /\ ~ResetFirst(inbox'[n]) /\ ResetFirst(inbox[n])
      /\ WakeupsIn(inbox'[n]) = WakeupsIn(inbox[n])
  BY <1>1, <1>2, <1>3, FrameTaken
<1>5. /\ nodesList'[n] = <<n>> /\ Ids(<<n>>) = {n}
      /\ Strict(<<n>>) /\ Exact(<<n>>, nodeIndexOnGainMatrix'[n])
      /\ \A m \in NodeIds \ {n} :
           nodesList'[m] = nodesList[m] /\ nodeIndexOnGainMatrix'[m] = nodeIndexOnGainMatrix[m]
  BY <1>1, ResetGlobExact
<1>6. /\ Awaits(n) /\ ~Awaits(n)' /\ Known(n)' = Known(n) /\ ~Awake(n) /\ ~Awake(n)'
      /\ Progress(n)' = Progress(n) /\ ListExact(n)'
  BY <1>1, <1>2, <1>4, <1>5 DEF Awaits, Known, Awake, Progress, ListExact
<1>7. ASSUME NEW m \in on \ {n}
      PROVE  /\ Awaits(m)' = Awaits(m) /\ Known(m)' = Known(m) /\ Awake(m)' = Awake(m)
             /\ Progress(m)' = Progress(m) /\ ListExact(m)'
  BY <1>1, <1>2, <1>5, NodeKept DEF StartInv
<1>8. \A k \in NodeIds : Awake(k)' <=> Awake(k)
  BY <1>1, <1>6, <1>7 DEF Awake
<1>9. \A m \in on : Known(m)' = Known(m) /\ WakeupsIn(inbox'[m]) = WakeupsIn(inbox[m])
                    /\ Orderly(inbox'[m])
  BY <1>2, <1>4, <1>6, <1>7 DEF StartInv, WakeupsNew
<1>10. Together'
  BY <1>1, <1>2, <1>6, <1>7 DEF StartInv, Together
<1>11. WakeupsNew'
  <2> SUFFICES ASSUME NEW m \in on, NEW k \in WakeupsIn(inbox[m])
               PROVE  k \notin Known(m) /\ Awake(k) /\ state'[k] = "WakeupWait" /\ elapsed[k] = 0
    BY <1>1, <1>8, <1>9 DEF WakeupsNew, WakeupsIn
  <2>1. k \notin Known(m) /\ Awake(k) /\ state[k] = "WakeupWait" /\ elapsed[k] = 0
    BY DEF StartInv, WakeupsNew
  <2>2. k \in on \ {n}
    BY <2>1, <1>6 DEF Awake
  <2>3. QED
    BY <2>1, <2>2, <1>2
<1>12. AwakeKnown'
  BY <1>1, <1>8, <1>9 DEF StartInv, AwakeKnown
<1>13. QED
  BY <1>1, <1>6, <1>7, <1>10, <1>11, <1>12 DEF StartInv

(***************************************************************************)
(* readSerial: a reset that is sent when nothing is due starts all over at *)
(* once.  The nodes keep lastTransitionTime: one that has been calibrating *)
(* for longer than a delay is due immediately, and then no other one has   *)
(* moved in this tick.                                                     *)
(***************************************************************************)
LEMMA ReadSerialResetStep ==
  ASSUME RegistryType, StartType, StartInv, NEW n \in NodeIds, ReadSerialReset(n), ~raced'
  PROVE  StartInv'
<1>1. /\ n \in on /\ on' = on /\ on \in SUBSET NodeIds
      /\ UNCHANGED <<elapsed, clock>> /\ state' = [state EXCEPT ![n] = "Init"]
      /\ inbox' = Broadcast(n, ResetRequest(n), inbox) /\ ResetGlob(n) /\ Quiet
  BY DEF ReadSerialReset, ExecuteReset, RegistryType
<1>2. /\ \A m \in on : inbox[m] = <<>> /\ (state[m] # "Calibrate" => elapsed[m] <= Delay)
      /\ Delay \in Nat
  <2>1. ASSUME NEW m \in on, ~(elapsed[m] > Delay) PROVE elapsed[m] <= Delay
    <3>1. elapsed[m] \in 0 .. Delay + 1 /\ Delay \in Nat
      BY <1>1, StartupConstants DEF StartType
    <3>2. QED
      BY <2>1, <3>1
  <2>2. QED
    BY <1>1, <2>1, StartupConstants DEF Quiet, DelayPassed
<1>3. /\ inbox'[n] = <<>> /\ state'[n] = "Init"
      /\ \A m \in on \ {n} : /\ inbox'[m] = Append(<<>>, ResetRequest(n))
                             /\ state'[m] = state[m]
  BY <1>1, <1>2 DEF Broadcast, StartType
<1>4. /\ nodesList'[n] = <<n>> /\ Ids(<<n>>) = {n}
      /\ Strict(<<n>>) /\ Exact(<<n>>, nodeIndexOnGainMatrix'[n])
      /\ \A m \in NodeIds \ {n} :
           nodesList'[m] = nodesList[m] /\ nodeIndexOnGainMatrix'[m] = nodeIndexOnGainMatrix[m]
  BY <1>1, ResetGlobExact
<1>5. /\ ~Awaits(n)' /\ Known(n)' = {n} /\ ~Awake(n)' /\ Progress(n)' = elapsed[n] + 0
      /\ Orderly(inbox'[n]) /\ WakeupsIn(inbox'[n]) = {} /\ ListExact(n)'
  BY <1>1, <1>3, <1>4, EmptyBox DEF Awaits, Known, Awake, Progress, ListExact
<1>6. ASSUME NEW m \in on \ {n}
      PROVE  /\ Known(m)' = {m} /\ ~Awake(m)' /\ Progress(m)' = elapsed[m] + 0
             /\ Orderly(inbox'[m]) /\ WakeupsIn(inbox'[m]) = {} /\ ListExact(m)'
  <2>1. Orderly(inbox'[m]) /\ ResetFirst(inbox'[m]) /\ WakeupsIn(inbox'[m]) = {}
    BY <1>3, ResetBox
  <2>2. Known(m)' = {m} /\ ~Awake(m)' /\ Progress(m)' = elapsed[m] + 0
    BY <1>1, <2>1 DEF Awaits, Known, Awake, Progress
  <2>3. ListExact(m)'
    BY <1>1, <1>3, <1>4 DEF StartInv, ListExact
  <2>4. QED
    BY <2>1, <2>2, <2>3
<1>7. ASSUME NEW m \in on
      PROVE  /\ elapsed[m] \in 0 .. Delay + 1 /\ Progress(m)' = elapsed[m]
             /\ ~Awaits(m) /\ elapsed[m] <= Progress(m) /\ Progress(m) \in Int
             /\ state[m] = "Calibrate" => Progress(m) = elapsed[m] + 2 * (Delay + 1)
             /\ state[m] # "Calibrate" => Progress(m) <= elapsed[m] + (Delay + 1)
  <2>1. elapsed[m] \in 0 .. Delay + 1 /\ elapsed[m] <= Progress(m) /\ Progress(m) \in Int
    BY <1>1, ProgressType
  <2>2. ~Awaits(m)
    BY <1>2 DEF Awaits, ResetFirst
  <2>3. Progress(m)' = elapsed[m] + 0
    BY <1>5, <1>6
  <2>4. state[m] \in {"Init", "WakeupWait", "Calibrate"}
    BY <1>1 DEF StartType
  <2>5. QED
    BY <2>1, <2>2, <2>3, <2>4, <1>2 DEF Progress
<1>8. ASSUME NEW m \in on, NEW k \in on PROVE elapsed[m] <= elapsed[k] + Delay
  <2>1. elapsed[m] \in 0 .. Delay + 1 /\ elapsed[k] \in 0 .. Delay + 1
    BY <1>7
  <2>2. CASE elapsed[m] <= Delay
    BY <2>1, <2>2, <1>2
  <2>3. CASE elapsed[m] = Delay + 1
    <3>1. Progress(m) = 3 * (Delay + 1)
      BY <2>3, <1>2, <1>7
    <3>2. Progress(m) <= Progress(k) + Delay
      BY DEF StartInv, Together
    <3>3. state[k] = "Calibrate"
      <4>1. ASSUME state[k] # "Calibrate" PROVE FALSE
        <5>1. elapsed[k] <= Delay /\ Progress(k) <= elapsed[k] + (Delay + 1)
          BY <1>2, <1>7, <4>1
        <5>2. Progress(k) \in Int /\ elapsed[k] \in Int
          BY <1>7, <2>1
        <5>3. QED
          BY <5>1, <5>2, <3>1, <3>2, <1>2
      <4>2. QED
        BY <4>1
    <3>4. Progress(k) = elapsed[k] + 2 * (Delay + 1)
      BY <3>3, <1>7
    <3>5. QED
      BY <2>1, <2>3, <3>1, <3>2, <3>4, <1>2
  <2>4. QED
    BY <2>1, <2>2, <2>3, <1>2
<1>9. Together'
  <2>1. \A m, k \in on : Progress(m)' <= Progress(k)' + Delay
    BY <1>7, <1>8
  <2>2. ASSUME on # NodeIds, NEW m \in on PROVE Progress(m)' <= clock
    <3>1. Progress(m) <= clock /\ clock \in Int
      BY <2>2 DEF StartInv, Together, StartType
    <3>2. QED
      BY <3>1, <1>7
  <2>3. ASSUME NEW m \in on, state'[m] # "Calibrate", Awaits(m)' PROVE elapsed'[m] <= Delay
    <3>1. m # n
      BY <2>3, <1>5
    <3>2. QED
      BY <2>3, <3>1, <1>1, <1>2, <1>3
  <2>4. QED
    BY <1>1, <2>1, <2>2, <2>3 DEF Together
<1>10. WakeupsNew'
  BY <1>1, <1>5, <1>6 DEF WakeupsNew
<1>11. AwakeKnown'
  <2>1. \A k \in NodeIds : ~Awake(k)'
    BY <1>1, <1>5, <1>6 DEF Awake
  <2>2. QED
    BY <2>1, <1>1, <1>5, <1>6 DEF AwakeKnown
<1>12. QED
  BY <1>1, <1>5, <1>6, <1>9, <1>10, <1>11 DEF StartInv

\* A tick passes when every frame is handled and every node that is due has moved.
LEMMA TickStep ==
  ASSUME RegistryType, StartType, StartInv, Tick
  PROVE  StartInv'
<1>1. /\ on' = on /\ on \in SUBSET NodeIds /\ Quiet
      /\ UNCHANGED <<state, nodesList, nodeIndexOnGainMatrix, inbox>>
      /\ \A n \in on : elapsed'[n] = Later(elapsed[n])
  BY DEF Tick, RegistryType
<1>2. on # NodeIds => clock' = clock + 1
  BY DEF Tick
<1>3. Delay \in Nat
  BY StartupConstants
<1>4. ASSUME NEW n \in on
      PROVE  /\ Orderly(inbox[n]) /\ WakeupsIn(inbox[n]) = {} /\ ~Awaits(n) /\ ~Awaits(n)'
             /\ Known(n)' = Known(n) /\ Awake(n)' = Awake(n) /\ ListExact(n)'
  <2>1. inbox[n] = <<>> /\ inbox'[n] = <<>>
    BY <1>1 DEF Quiet
  <2>2. Orderly(inbox[n]) /\ WakeupsIn(inbox[n]) = {} /\ ~Awaits(n) /\ ~Awaits(n)'
    BY <2>1, EmptyBox DEF Awaits
  <2>3. QED
    BY <2>2, <1>1 DEF StartInv, Known, Awake, ListExact
<1>5. ASSUME NEW n \in on
      PROVE  /\ Progress(n) \in 0 .. 3 * (Delay + 1) /\ Progress(n)' \in 0 .. 3 * (Delay + 1)
             /\ \/ Progress(n)' = Progress(n) + 1
                \/ Progress(n)' = Progress(n) /\ Progress(n) = 3 * (Delay + 1)
  <2>1. elapsed[n] \in 0 .. Delay + 1 /\ Progress(n) \in 0 .. 3 * (Delay + 1)
    BY <1>1, ProgressType
  <2>2. state[n] # "Calibrate" => ~(elapsed[n] > Delay)
    BY <1>1 DEF Quiet, DelayPassed
  <2>3. elapsed'[n] = IF elapsed[n] > Delay THEN elapsed[n] ELSE elapsed[n] + 1
    BY <1>1 DEF Later
  <2>4. state'[n] = state[n] /\ state[n] \in {"Init", "WakeupWait", "Calibrate"}
    BY <1>1 DEF StartType
  <2>5. CASE elapsed[n] > Delay
    <3>1. state[n] = "Calibrate" /\ elapsed[n] = Delay + 1 /\ elapsed'[n] = Delay + 1
      BY <2>1, <2>2, <2>3, <2>5, <1>3
    <3>2. QED
      BY <3>1, <2>1, <2>4, <1>3, <1>4 DEF Progress
  <2>6. CASE ~(elapsed[n] > Delay)
    <3>1. elapsed'[n] = elapsed[n] + 1 /\ elapsed[n] <= Delay
      BY <1>3, <2>1, <2>3, <2>6
    <3>2. QED
      BY <3>1, <2>1, <2>4, <1>3, <1>4 DEF Progress
  <2>7. QED
    BY <2>5, <2>6
<1>6. Together'
  <2>1. ASSUME NEW n \in on, NEW m \in on PROVE Progress(n)' <= Progress(m)' + Delay
    <3>1. Progress(n) <= Progress(m) + Delay
      BY DEF StartInv, Together
    <3>2. Progress(n) \in Int /\ Progress(m) \in Int /\ Progress(n) <= 3 * (Delay + 1)
      BY <1>3, <1>5
    <3>3. Progress(n)' = Progress(n) + 1 \/ Progress(n)' = Progress(n)
      BY <1>5
    <3>4. CASE Progress(m)' = Progress(m) + 1
      BY <3>1, <3>2, <3>3, <3>4, <1>3
    <3>5. CASE Progress(m)' = Progress(m) /\ Progress(m) = 3 * (Delay + 1)
      <4>1. Progress(n)' <= 3 * (Delay + 1) /\ Progress(n)' \in Int
        BY <1>5, <1>3
      <4>2. QED
        BY <3>5, <4>1, <1>3
    <3>6. QED
      BY <3>4, <3>5, <1>5
  <2>2. ASSUME on # NodeIds, NEW n \in on PROVE Progress(n)' <= clock'
    <3>1. Progress(n) <= clock /\ clock \in Int /\ clock' = clock + 1
      BY <2>2, <1>2 DEF StartInv, Together, StartType
    <3>2. QED
      BY <3>1, <1>5
  <2>3. QED
    BY <1>1, <1>4, <2>1, <2>2 DEF Together
<1>7. WakeupsNew'
  BY <1>1, <1>4 DEF WakeupsNew
<1>8. AwakeKnown'
  <2>1. \A k \in NodeIds : Awake(k)' <=> Awake(k)
    BY <1>1, <1>4 DEF Awake
  <2>2. QED
    BY <2>1, <1>1, <1>4 DEF StartInv, AwakeKnown
<1>9. QED
  BY <1>1, <1>4, <1>6, <1>7, <1>8 DEF StartInv

----------------------------------------------------------------------------
\* Every step of a start that nothing has disturbed and that it does not disturb.
LEMMA NextStartInv ==
  ASSUME MaxSkew <= Delay, Cardinality(NodeIds) <= MaxNumNodes
  PROVE  RegistryType /\ StartType /\ (Undisturbed => StartInv) /\ [Next]_vars
           => (Undisturbed => StartInv)'
<1> SUFFICES ASSUME RegistryType, StartType, Undisturbed => StartInv, [Next]_vars, Undisturbed'
             PROVE  StartInv'
  OBVIOUS
<1>1. ~raced' /\ powerCycles' = 0
  BY DEF Undisturbed
<1>2. ASSUME NEW n \in NodeIds, PowerCycle(n) PROVE FALSE
  <2>1. powerCycles' = powerCycles + 1 /\ powerCycles \in Nat
    BY <1>2 DEF PowerCycle, StartType
  <2>2. QED
    BY <1>1, <2>1
<1>3. Undisturbed
  <2>1. ASSUME NEW n \in NodeIds, PowerOn(n) \/ NodeStep(n) \/ ReadSerialReset(n)
        PROVE  Undisturbed
    <3>1. powerCycles' = powerCycles /\ raced' \in {raced, raced \/ ~Quiet}
      BY <2>1 DEF PowerOn, NodeStep, RunStateInit, RunStateWakeupWait, ReceiveWakeup,
                  ReceiveReset, ReadSerialReset
    <3>2. CASE raced' = raced
      BY <1>1, <3>1, <3>2 DEF Undisturbed
    <3>3. CASE raced' = (raced \/ ~Quiet)
      BY <1>1, <3>1, <3>3 DEF Undisturbed
    <3>4. QED
      BY <3>1, <3>2, <3>3
  <2>2. CASE Tick \/ UNCHANGED vars
    BY <1>1, <2>2 DEF Undisturbed, Tick, vars
  <2>3. QED
    BY <1>2, <2>1, <2>2 DEF Next
<1>4. StartInv
  BY <1>3
<1>5. ASSUME NEW n \in NodeIds, PowerOn(n) PROVE StartInv'
  BY <1>4, <1>5, PowerOnStep
<1>6. ASSUME NEW n \in NodeIds, RunStateInit(n) PROVE StartInv'
  BY <1>4, <1>6, RunStateInitStep
<1>7. ASSUME NEW n \in NodeIds, RunStateWakeupWait(n) PROVE StartInv'
  BY <1>4, <1>7, RunStateWakeupWaitStep
<1>8. ASSUME NEW n \in NodeIds, ReceiveWakeup(n) PROVE StartInv'
  BY <1>4, <1>8, ReceiveWakeupStep
<1>9. ASSUME NEW n \in NodeIds, ReceiveReset(n) PROVE StartInv'
  BY <1>4, <1>9, ReceiveResetStep
<1>10. ASSUME NEW n \in NodeIds, ReadSerialReset(n) PROVE StartInv'
  BY <1>1, <1>4, <1>10, ReadSerialResetStep
<1>11. CASE Tick
  BY <1>4, <1>11, TickStep
<1>12. CASE UNCHANGED vars
  BY <1>4, <1>12 DEF vars, StartInv, Together, WakeupsNew, AwakeKnown, ListExact, Awaits,
                     Known, Awake, Progress
<1>13. QED
  BY <1>2, <1>5, <1>6, <1>7, <1>8, <1>9, <1>10, <1>11, <1>12 DEF Next, NodeStep

(***************************************************************************)
(* If nodesList has a slot for every node and they are turned on within    *)
(* the two seconds of a state, every one of them starts to calibrate with  *)
(* the complete list, sorted and indexed, at the first start and after     *)
(* every reset that did not cross a wakeup, for any ids, delays and number *)
(* of resets.                                                              *)
(***************************************************************************)
THEOREM StartupRegistryComplete ==
  ASSUME MaxSkew <= Delay, Cardinality(NodeIds) <= MaxNumNodes
  PROVE  Spec => []RegistryComplete
<1>1. Init => RegistryInv /\ StartType /\ (Undisturbed => StartInv)
  BY InitRegistryInv, InitStartInv
<1>2. RegistryInv /\ StartType /\ (Undisturbed => StartInv) /\ [Next]_vars
        => (RegistryInv /\ StartType /\ (Undisturbed => StartInv))'
  BY NextRegistryInv, NextStartType, NextStartInv DEF RegistryInv
<1>3. (Undisturbed => StartInv) => RegistryComplete
  BY DEF StartInv, ListExact, Ids, Strict, Exact, RegistryComplete
<1>4. QED
  BY <1>1, <1>2, <1>3, PTL DEF Spec
=============================================================================
