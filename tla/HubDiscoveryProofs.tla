------------------------- MODULE HubDiscoveryProofs -------------------------
(***************************************************************************)
(* There is one hub, for any number of nodes and however often the PC is   *)
(* plugged into another node: two nodes that both take themselves for the  *)
(* hub are on their way to be told otherwise.  And what the server knows   *)
(* of the nodes is, once the serial line is empty, what the hub knows.     *)
(***************************************************************************)
EXTENDS HubDiscovery, SequenceTheorems, TLAPS

Frames == HubFrames \cup {NoFrame}

\* The part of the type invariant that the argument needs.
DiscoveryType ==
    /\ hubNode \in [NodeIds -> NodeIds \cup {NoNode}]
    /\ tx \in [NodeIds -> [TXBuffers -> Frames]]
    /\ inbox \in [NodeIds -> Seq(HubFrames)]
    /\ disturbed \in BOOLEAN

\* A node sends frames of its own only,
OwnFrames ==
    \A n, k \in NodeIds, b \in TXBuffers : tx[n][b] = IsHubNode(k) => k = n

\* and does not receive them.
FramesOfOthers ==
    \A m, k \in NodeIds : \A i \in DOMAIN inbox[m] : inbox[m][i] = IsHubNode(k) => k # m

\* Node m is going to handle the IS_HUB of p.
WillHear(m, p) ==
    \/ \E b \in TXBuffers : tx[p][b] = IsHubNode(p)
    \/ \E i \in DOMAIN inbox[m] : inbox[m][i] = IsHubNode(p)

\* Whoever else takes itself for the hub will hear p.
Follows(p) ==
    \A m \in NodeIds : m # p /\ hubNode[m] = m => p \in NodeIds /\ WillHear(m, p)

\* The inductive invariant: all follow one node, the last that became the hub.
HubInv ==
    /\ DiscoveryType /\ OwnFrames /\ FramesOfOthers
    /\ ~disturbed => \E p \in NodeIds \cup {NoNode} : Follows(p)

----------------------------------------------------------------------------
\* The id 0 is no node's.
LEMMA NoNodeIsNone == NoNode \notin NodeIds
  BY HubConstants DEF NoNode

\* What the frames hold.
LEMMA FrameFields ==
  ASSUME NEW n
  PROVE  /\ IsHubNode(n).type = "is hub" /\ IsHubNode(n).sender = n
         /\ NoLongerIsHubNode(n).type = "no longer hub"
BY DEF IsHubNode, NoLongerIsHubNode

\* The frames are told apart by their types, and those of one type by their senders.
LEMMA FramesDiffer ==
  ASSUME NEW n, NEW m
  PROVE  /\ IsHubNode(n) # NoFrame /\ NoLongerIsHubNode(n) # NoFrame
         /\ IsHubNode(n) # NoLongerIsHubNode(m)
         /\ IsHubNode(n) = IsHubNode(m) => n = m
<1>1. /\ IsHubNode(n).type = "is hub" /\ NoLongerIsHubNode(m).type = "no longer hub"
      /\ NoLongerIsHubNode(n).type = "no longer hub" /\ NoFrame.type = "none"
      /\ IsHubNode(n).sender = n /\ IsHubNode(m).sender = m
  BY DEF IsHubNode, NoLongerIsHubNode, NoFrame
<1>2. QED
  BY <1>1

\* sendFrame keeps what is pending, and loads the frame if nothing is.
LEMMA SendFrameKeeps ==
  ASSUME NEW buffers \in [TXBuffers -> Frames], NEW frame \in Frames
  PROVE  /\ SendFrame(buffers, frame) \in [TXBuffers -> Frames]
         /\ \A b \in TXBuffers : SendFrame(buffers, frame)[b] \in {buffers[b], frame}
         /\ \A b \in TXBuffers : buffers[b] # NoFrame => SendFrame(buffers, frame)[b] = buffers[b]
         /\ Pending(buffers) = {} => \E b \in TXBuffers : SendFrame(buffers, frame)[b] = frame
<1>1. CASE AllTxBusy(buffers)
  <2>1. Pending(buffers) # {}
    BY <1>1 DEF AllTxBusy, TXBuffers
  <2>2. QED
    BY <1>1, <2>1 DEF SendFrame
<1>2. CASE ~AllTxBusy(buffers)
  <2> DEFINE free == TXBuffers \ Pending(buffers)
             b0 == Min(free)
  <2>1. free # {} /\ free \subseteq TXBuffers
    BY <1>2 DEF AllTxBusy, Pending
  <2>2. \E x \in free : \A y \in free : x <= y
    BY <2>1 DEF TXBuffers
  <2>3. b0 \in free
    BY <2>2 DEF Min
  <2>4. b0 \in TXBuffers /\ buffers[b0] = NoFrame
    BY <2>3 DEF Pending
  <2>5. SendFrame(buffers, frame) = [buffers EXCEPT ![b0] = frame]
    BY <1>2 DEF SendFrame
  <2> HIDE DEF b0
  <2>6. QED
    BY <2>4, <2>5
<1>3. QED
  BY <1>1, <1>2

\* The chip sends a frame that is pending.
LEMMA NextIsPending ==
  ASSUME NEW buffers, Pending(buffers) # {}
  PROVE  NextOnBus(buffers) \in TXBuffers /\ buffers[NextOnBus(buffers)] # NoFrame
<1>1. Pending(buffers) \subseteq TXBuffers
  BY DEF Pending
<1>2. \E x \in Pending(buffers) : \A y \in Pending(buffers) : x >= y
  BY <1>1 DEF TXBuffers
<1>3. NextOnBus(buffers) \in Pending(buffers)
  BY <1>2 DEF NextOnBus, Max
<1>4. QED
  BY <1>3 DEF Pending

----------------------------------------------------------------------------
\* Nobody is the hub when the nodes are turned on.
LEMMA InitHubInv == Init => HubInv
<1> SUFFICES ASSUME Init PROVE HubInv
  OBVIOUS
<1>1. DiscoveryType
  <2>1. hubNode \in [NodeIds -> NodeIds \cup {NoNode}] /\ disturbed \in BOOLEAN
    BY DEF Init
  <2>2. NothingPending \in [TXBuffers -> Frames]
    BY DEF NothingPending, Frames
  <2>3. tx \in [NodeIds -> [TXBuffers -> Frames]]
    BY <2>2 DEF Init
  <2>4. <<>> \in Seq(HubFrames)
    OBVIOUS
  <2>5. inbox \in [NodeIds -> Seq(HubFrames)]
    BY <2>4 DEF Init
  <2>6. QED
    BY <2>1, <2>3, <2>5 DEF DiscoveryType
<1>2. OwnFrames /\ FramesOfOthers
  BY FramesDiffer DEF Init, OwnFrames, FramesOfOthers, NothingPending
<1>3. Follows(NoNode)
  BY NoNodeIsNone DEF Init, Follows
<1>4. QED
  BY <1>1, <1>2, <1>3 DEF HubInv

(***************************************************************************)
(* A broadcast of n, or none, at a step that leaves what has arrived: the  *)
(* frames that were under way still are.                                   *)
(***************************************************************************)
LEMMA BroadcastKeeps ==
  ASSUME HubInv, NEW n \in NodeIds, NEW frame \in {IsHubNode(n), NoLongerIsHubNode(n)},
         UNCHANGED inbox,
         tx' = tx \/ tx' = [tx EXCEPT ![n] = SendFrame(@, frame)]
  PROVE  /\ tx' \in [NodeIds -> [TXBuffers -> Frames]] /\ inbox' \in [NodeIds -> Seq(HubFrames)]
         /\ OwnFrames' /\ FramesOfOthers'
         /\ \A m, p \in NodeIds : WillHear(m, p) => WillHear(m, p)'
<1>1. /\ tx \in [NodeIds -> [TXBuffers -> Frames]] /\ frame \in Frames
      /\ inbox \in [NodeIds -> Seq(HubFrames)]
  BY DEF HubInv, DiscoveryType, Frames, HubFrames
<1>2. /\ tx' \in [NodeIds -> [TXBuffers -> Frames]]
      /\ \A k \in NodeIds, b \in TXBuffers :
           /\ tx'[k][b] = tx[k][b] \/ (k = n /\ tx'[k][b] = frame)
           /\ tx[k][b] # NoFrame => tx'[k][b] = tx[k][b]
  <2>1. CASE tx' = tx
    BY <2>1, <1>1
  <2>2. CASE tx' = [tx EXCEPT ![n] = SendFrame(@, frame)]
    <3>1. /\ SendFrame(tx[n], frame) \in [TXBuffers -> Frames]
          /\ \A b \in TXBuffers : SendFrame(tx[n], frame)[b] \in {tx[n][b], frame}
          /\ \A b \in TXBuffers : tx[n][b] # NoFrame => SendFrame(tx[n], frame)[b] = tx[n][b]
      <4>1. tx[n] \in [TXBuffers -> Frames]
        BY <1>1
      <4>2. QED
        BY <4>1, <1>1, SendFrameKeeps, Zenon
    <3>2. /\ tx'[n] = SendFrame(tx[n], frame)
          /\ \A k \in NodeIds : k # n => tx'[k] = tx[k]
      BY <2>2, <1>1
    <3>3. tx' \in [NodeIds -> [TXBuffers -> Frames]]
      BY <2>2, <3>1, <1>1
    <3>4. QED
      BY <3>1, <3>2, <3>3
  <2>3. QED
    BY <2>1, <2>2
<1>3. ASSUME NEW k \in NodeIds, NEW p \in NodeIds, NEW b \in TXBuffers, tx'[k][b] = IsHubNode(p)
      PROVE  p = k
  <2>1. CASE tx'[k][b] = tx[k][b]
    BY <2>1, <1>3 DEF HubInv, OwnFrames
  <2>2. CASE k = n /\ frame = IsHubNode(p)
    <3>1. IsHubNode(p) # NoLongerIsHubNode(n) /\ (IsHubNode(p) = IsHubNode(n) => p = n)
      BY FramesDiffer
    <3>2. QED
      BY <3>1, <2>2
  <2>3. QED
    BY <2>1, <2>2, <1>2, <1>3
<1>4. FramesOfOthers'
  BY DEF HubInv, FramesOfOthers
<1>5. ASSUME NEW m \in NodeIds, NEW p \in NodeIds, WillHear(m, p) PROVE WillHear(m, p)'
  <2>1. CASE \E b \in TXBuffers : tx[p][b] = IsHubNode(p)
    BY <2>1, <1>2, FramesDiffer DEF WillHear
  <2>2. CASE \E i \in DOMAIN inbox[m] : inbox[m][i] = IsHubNode(p)
    BY <2>2 DEF WillHear
  <2>3. QED
    BY <2>1, <2>2, <1>5 DEF WillHear
<1>6. QED
  BY <1>1, <1>2, <1>3, <1>4, <1>5 DEF OwnFrames

\* A step that makes nobody a hub, and after which whoever is one still hears the others.
LEMMA FollowsKept ==
  ASSUME HubInv, ~disturbed' => ~disturbed,
         \A m \in NodeIds : hubNode'[m] = m => hubNode[m] = m,
         \A m, p \in NodeIds : m # p /\ hubNode'[m] = m /\ WillHear(m, p) => WillHear(m, p)'
  PROVE  ~disturbed' => \E p \in NodeIds \cup {NoNode} : Follows(p)'
<1> SUFFICES ASSUME ~disturbed' PROVE \E p \in NodeIds \cup {NoNode} : Follows(p)'
  OBVIOUS
<1>1. PICK p \in NodeIds \cup {NoNode} : Follows(p)
  BY DEF HubInv
<1>2. ASSUME NEW m \in NodeIds, m # p, hubNode'[m] = m
      PROVE  p \in NodeIds /\ WillHear(m, p)'
  <2>1. p \in NodeIds /\ WillHear(m, p)
    BY <1>1, <1>2 DEF Follows
  <2>2. QED
    BY <2>1, <1>2
<1>3. Follows(p)'
  BY <1>2 DEF Follows
<1>4. QED
  BY <1>3

\* A step that has nothing to do with the hub.
LEMMA UnrelatedStep ==
  ASSUME HubInv, UNCHANGED <<hubNode, tx, inbox, disturbed>>
  PROVE  HubInv'
BY DEF HubInv, DiscoveryType, OwnFrames, FramesOfOthers, Follows, WillHear

\* sendPCDiscovery: a hub may give up.
LEMMA SendPCDiscoveryStep ==
  ASSUME HubInv, NEW n \in NodeIds, SendPCDiscovery(n)
  PROVE  HubInv'
<1>1. CASE ~GivesUp(n)
  BY <1>1, UnrelatedStep DEF SendPCDiscovery
<1>2. CASE GivesUp(n)
  <2>1. /\ hubNode' = [hubNode EXCEPT ![n] = NoNode] /\ UNCHANGED inbox
        /\ tx' = [tx EXCEPT ![n] = SendFrame(@, NoLongerIsHubNode(n))]
        /\ disturbed' = (disturbed \/ Pending(tx[n]) # {})
    BY <1>2 DEF SendPCDiscovery, Broadcast
  <2>2. /\ tx' \in [NodeIds -> [TXBuffers -> Frames]] /\ inbox' \in [NodeIds -> Seq(HubFrames)]
        /\ OwnFrames' /\ FramesOfOthers'
        /\ \A m, p \in NodeIds : WillHear(m, p) => WillHear(m, p)'
    BY <2>1, BroadcastKeeps
  <2>3. /\ hubNode \in [NodeIds -> NodeIds \cup {NoNode}] /\ disturbed \in BOOLEAN
    BY DEF HubInv, DiscoveryType
  <2>4. DiscoveryType'
    BY <2>1, <2>2, <2>3 DEF DiscoveryType
  <2>5. \A m \in NodeIds : hubNode'[m] = m => hubNode[m] = m
    BY <2>1, <2>3, NoNodeIsNone
  <2>6. ~disturbed' => \E p \in NodeIds \cup {NoNode} : Follows(p)'
    BY <2>1, <2>2, <2>5, FollowsKept
  <2>7. QED
    BY <2>2, <2>4, <2>6 DEF HubInv
<1>3. QED
  BY <1>1, <1>2

\* readSerial: a node may become the hub, and then all follow it.
LEMMA ReadSerialStep ==
  ASSUME HubInv, NEW n \in NodeIds, ReadSerial(n)
  PROVE  HubInv'
<1>1. CASE KeepsHub(n)
  BY <1>1, UnrelatedStep DEF ReadSerial, KeepsHub
<1>2. CASE BecomesHub(n)
  <2>1. /\ hubNode' = [hubNode EXCEPT ![n] = n] /\ UNCHANGED inbox
        /\ tx' = [tx EXCEPT ![n] = SendFrame(@, IsHubNode(n))]
        /\ disturbed' = (~BusQuiet /\ (disturbed \/ Pending(tx[n]) # {}))
    BY <1>2 DEF ReadSerial, BecomesHub, TellsOthers
  <2>2. /\ tx' \in [NodeIds -> [TXBuffers -> Frames]] /\ inbox' \in [NodeIds -> Seq(HubFrames)]
        /\ OwnFrames' /\ FramesOfOthers'
        /\ \A m, p \in NodeIds : WillHear(m, p) => WillHear(m, p)'
    BY <2>1, BroadcastKeeps
  <2>3. /\ hubNode \in [NodeIds -> NodeIds \cup {NoNode}]
        /\ tx \in [NodeIds -> [TXBuffers -> Frames]]
    BY DEF HubInv, DiscoveryType
  <2>4. DiscoveryType'
    BY <2>1, <2>2, <2>3 DEF DiscoveryType
  <2>5. ASSUME ~disturbed' PROVE Follows(n)'
    <3>1. Pending(tx[n]) = {}
      BY <2>1, <2>5 DEF BusQuiet
    <3>2. tx[n] \in [TXBuffers -> Frames] /\ IsHubNode(n) \in Frames
      BY <2>3 DEF Frames, HubFrames
    <3>3. \E b \in TXBuffers : SendFrame(tx[n], IsHubNode(n))[b] = IsHubNode(n)
      BY <3>1, <3>2, SendFrameKeeps, Zenon
    <3>4. tx'[n] = SendFrame(tx[n], IsHubNode(n))
      BY <2>1, <2>3
    <3>5. \E b \in TXBuffers : tx'[n][b] = IsHubNode(n)
      BY <3>3, <3>4
    <3>6. QED
      BY <3>5 DEF Follows, WillHear
  <2>6. QED
    BY <2>2, <2>4, <2>5 DEF HubInv
<1>3. QED
  BY <1>1, <1>2 DEF ReadSerial

----------------------------------------------------------------------------
\* What a queue of frames holds after the oldest is taken.
LEMMA TailHolds ==
  ASSUME NEW S, NEW queue \in Seq(S), queue # <<>>
  PROVE  /\ Head(queue) \in S /\ 1 \in DOMAIN queue /\ queue[1] = Head(queue)
         /\ Tail(queue) \in Seq(S)
         /\ \A i \in DOMAIN Tail(queue) : i + 1 \in DOMAIN queue /\ Tail(queue)[i] = queue[i + 1]
         /\ \A i \in DOMAIN queue : i # 1 => i - 1 \in DOMAIN Tail(queue)
                                             /\ Tail(queue)[i - 1] = queue[i]
<1> DEFINE L == Len(queue)
<1>1. L \in Nat /\ L >= 1 /\ DOMAIN queue = 1 .. L
  OBVIOUS
<1>2. Tail(queue) \in Seq(S) /\ Len(Tail(queue)) = L - 1
      /\ \A i \in 1 .. L - 1 : Tail(queue)[i] = queue[i + 1]
  BY HeadTailProperties
<1>3. DOMAIN Tail(queue) = 1 .. L - 1
  BY <1>2
<1>4. Head(queue) = queue[1] /\ queue[1] \in S
  BY <1>1
<1>5. \A i \in DOMAIN Tail(queue) : i + 1 \in DOMAIN queue /\ Tail(queue)[i] = queue[i + 1]
  BY <1>1, <1>2, <1>3
<1>6. \A i \in DOMAIN queue : i # 1 => i - 1 \in DOMAIN Tail(queue)
                                       /\ Tail(queue)[i - 1] = queue[i]
  <2> SUFFICES ASSUME NEW i \in DOMAIN queue, i # 1
               PROVE  i - 1 \in DOMAIN Tail(queue) /\ Tail(queue)[i - 1] = queue[i]
    OBVIOUS
  <2>1. i \in Int /\ i - 1 \in 1 .. L - 1 /\ (i - 1) + 1 = i
    BY <1>1
  <2>2. QED
    BY <2>1, <1>2, <1>3
<1>7. QED
  BY <1>1, <1>2, <1>4, <1>5, <1>6

\* What it holds after one has arrived.
LEMMA AppendHolds ==
  ASSUME NEW S, NEW queue \in Seq(S), NEW frame \in S
  PROVE  /\ Append(queue, frame) \in Seq(S)
         /\ \A i \in DOMAIN Append(queue, frame) :
              \/ i \in DOMAIN queue /\ Append(queue, frame)[i] = queue[i]
              \/ Append(queue, frame)[i] = frame
         /\ \A i \in DOMAIN queue :
              i \in DOMAIN Append(queue, frame) /\ Append(queue, frame)[i] = queue[i]
         /\ \E i \in DOMAIN Append(queue, frame) : Append(queue, frame)[i] = frame
<1> DEFINE L == Len(queue)
<1>1. L \in Nat /\ DOMAIN queue = 1 .. L
  OBVIOUS
<1>2. /\ Append(queue, frame) \in Seq(S) /\ Len(Append(queue, frame)) = L + 1
      /\ \A i \in 1 .. L : Append(queue, frame)[i] = queue[i]
      /\ Append(queue, frame)[L + 1] = frame
  BY AppendProperties
<1>3. DOMAIN Append(queue, frame) = 1 .. L + 1
  BY <1>2
<1>4. QED
  BY <1>1, <1>2, <1>3

\* External: a frame of n goes over the bus.
LEMMA GoesOverBusStep ==
  ASSUME HubInv, NEW n \in NodeIds, GoesOverBus(n)
  PROVE  HubInv'
<1> DEFINE b0 == NextOnBus(tx[n])
           frame == tx[n][b0]
<1>1. /\ hubNode \in [NodeIds -> NodeIds \cup {NoNode}] /\ disturbed \in BOOLEAN
      /\ tx \in [NodeIds -> [TXBuffers -> Frames]] /\ inbox \in [NodeIds -> Seq(HubFrames)]
  BY DEF HubInv, DiscoveryType
<1>2. /\ hubNode' = hubNode /\ disturbed' = disturbed
      /\ tx' = [tx EXCEPT ![n] = AfterSending(@, NextOnBus(@))]
      /\ inbox' = [m \in NodeIds |-> IF m = n THEN inbox[m]
                                     ELSE Append(inbox[m], tx[n][NextOnBus(tx[n])])]
  BY DEF GoesOverBus, nodeVars
<1>3. b0 \in TXBuffers /\ frame # NoFrame
  BY NextIsPending DEF GoesOverBus
<1>4. frame \in HubFrames
  BY <1>1, <1>3 DEF Frames
<1>5. /\ tx'[n] = [tx[n] EXCEPT ![b0] = NoFrame]
      /\ \A k \in NodeIds : k # n => tx'[k] = tx[k]
  BY <1>1, <1>2 DEF AfterSending
<1>6. \A m \in NodeIds : inbox'[m] = IF m = n THEN inbox[m] ELSE Append(inbox[m], frame)
  BY <1>2
<1> HIDE DEF b0
<1>7. /\ NoFrame \in Frames /\ tx[n] \in [TXBuffers -> Frames]
  BY <1>1 DEF Frames
<1>8. /\ tx'[n] \in [TXBuffers -> Frames] /\ tx'[n][b0] = NoFrame
      /\ \A b \in TXBuffers : b # b0 => tx'[n][b] = tx[n][b]
  BY <1>3, <1>5, <1>7
<1>9. tx' \in [NodeIds -> [TXBuffers -> Frames]]
  <2>1. \A k \in NodeIds : tx'[k] \in [TXBuffers -> Frames]
    BY <1>1, <1>5, <1>8
  <2>2. tx' = [k \in NodeIds |-> tx'[k]]
    BY <1>1, <1>2
  <2>3. QED
    BY <2>1, <2>2
<1>10. inbox' \in [NodeIds -> Seq(HubFrames)]
  <2>1. ASSUME NEW m \in NodeIds PROVE inbox'[m] \in Seq(HubFrames)
    <3>1. inbox[m] \in Seq(HubFrames)
      BY <1>1
    <3>2. Append(inbox[m], frame) \in Seq(HubFrames)
      BY <3>1, <1>4, AppendHolds
    <3>3. QED
      BY <3>1, <3>2, <1>6
  <2>2. inbox' = [m \in NodeIds |-> inbox'[m]]
    BY <1>2
  <2>3. QED
    BY <2>1, <2>2
<1>11. DiscoveryType'
  BY <1>1, <1>2, <1>9, <1>10 DEF DiscoveryType
<1>12. OwnFrames'
  <2> SUFFICES ASSUME NEW m \in NodeIds, NEW k \in NodeIds, NEW b \in TXBuffers,
                      tx'[m][b] = IsHubNode(k)
               PROVE  k = m
    BY DEF OwnFrames
  <2>1. tx'[m][b] # NoFrame
    BY FramesDiffer
  <2>2. tx'[m][b] = tx[m][b]
    BY <2>1, <1>5, <1>8
  <2>3. QED
    BY <2>2 DEF HubInv, OwnFrames
<1>13. FramesOfOthers'
  <2> SUFFICES ASSUME NEW m \in NodeIds, NEW k \in NodeIds, NEW i \in DOMAIN inbox'[m],
                      inbox'[m][i] = IsHubNode(k)
               PROVE  k # m
    BY DEF FramesOfOthers
  <2>1. CASE i \in DOMAIN inbox[m] /\ inbox'[m][i] = inbox[m][i]
    BY <2>1 DEF HubInv, FramesOfOthers
  <2>2. CASE m # n /\ inbox'[m][i] = frame
    <3>1. tx[n][b0] = IsHubNode(k) /\ b0 \in TXBuffers
      BY <2>2, <1>3
    <3>2. k = n
      BY <3>1 DEF HubInv, OwnFrames
    <3>3. QED
      BY <3>2, <2>2
  <2>3. QED
    <3>1. CASE m = n
      BY <3>1, <1>6, <2>1
    <3>2. CASE m # n
      <4>1. inbox'[m] = Append(inbox[m], frame) /\ inbox[m] \in Seq(HubFrames)
        BY <3>2, <1>1, <1>6
      <4>2. \/ i \in DOMAIN inbox[m] /\ inbox'[m][i] = inbox[m][i]
            \/ inbox'[m][i] = frame
        BY <4>1, <1>4, AppendHolds
      <4>3. QED
        BY <3>2, <4>2, <2>1, <2>2
    <3>3. QED
      BY <3>1, <3>2
<1>14. ASSUME NEW m \in NodeIds, NEW p \in NodeIds, m # p, WillHear(m, p)
       PROVE  WillHear(m, p)'
  <2>1. CASE \E i \in DOMAIN inbox[m] : inbox[m][i] = IsHubNode(p)
    <3>1. \E i \in DOMAIN inbox'[m] : inbox'[m][i] = IsHubNode(p)
      <4>1. PICK i \in DOMAIN inbox[m] : inbox[m][i] = IsHubNode(p)
        BY <2>1
      <4>2. inbox[m] \in Seq(HubFrames)
        BY <1>1
      <4>3. i \in DOMAIN Append(inbox[m], frame) /\ Append(inbox[m], frame)[i] = inbox[m][i]
        BY <4>2, <1>4, AppendHolds
      <4>4. i \in DOMAIN inbox'[m] /\ inbox'[m][i] = inbox[m][i]
        BY <4>3, <1>6
      <4>5. QED
        BY <4>1, <4>4
    <3>2. QED
      BY <3>1 DEF WillHear
  <2>2. CASE \E b \in TXBuffers : tx[p][b] = IsHubNode(p)
    <3>1. PICK b \in TXBuffers : tx[p][b] = IsHubNode(p)
      BY <2>2
    <3>2. CASE p = n /\ b = b0
      <4>1. frame = IsHubNode(p) /\ inbox'[m] = Append(inbox[m], frame)
            /\ inbox[m] \in Seq(HubFrames)
        BY <3>1, <3>2, <1>1, <1>6, <1>14
      <4>2. \E i \in DOMAIN inbox'[m] : inbox'[m][i] = IsHubNode(p)
        BY <4>1, <1>4, AppendHolds
      <4>3. QED
        BY <4>2 DEF WillHear
    <3>3. CASE p # n \/ b # b0
      <4>1. tx'[p][b] = IsHubNode(p)
        BY <3>1, <3>3, <1>5, <1>8
      <4>2. QED
        BY <4>1 DEF WillHear
    <3>4. QED
      BY <3>2, <3>3
  <2>3. QED
    BY <2>1, <2>2, <1>14 DEF WillHear
<1>15. ~disturbed' => \E p \in NodeIds \cup {NoNode} : Follows(p)'
  BY <1>2, <1>14, FollowsKept
<1>16. QED
  BY <1>11, <1>12, <1>13, <1>15 DEF HubInv

(***************************************************************************)
(* Received: of the frames of the others, IS_HUB makes its sender the hub, *)
(* and NO_LONGER_HUB at most clears hubNode.                               *)
(***************************************************************************)
LEMMA ReceivedStep ==
  ASSUME HubInv, NEW n \in NodeIds, Received(n)
  PROVE  HubInv'
<1> DEFINE frame == Head(inbox[n])
           next == IF frame.type = "is hub" THEN frame.sender
                   ELSE IF ClearsHub(n, frame) THEN NoNode ELSE hubNode[n]
<1>1. /\ hubNode \in [NodeIds -> NodeIds \cup {NoNode}] /\ disturbed \in BOOLEAN
      /\ tx \in [NodeIds -> [TXBuffers -> Frames]] /\ inbox \in [NodeIds -> Seq(HubFrames)]
      /\ inbox[n] # <<>> /\ inbox[n] \in Seq(HubFrames)
  BY DEF HubInv, DiscoveryType, Received
<1>2. /\ tx' = tx /\ disturbed' = disturbed
      /\ inbox' = [inbox EXCEPT ![n] = Tail(@)]
      /\ hubNode' = [hubNode EXCEPT ![n] = next]
  BY <1>1 DEF Received
<1>3. /\ inbox'[n] = Tail(inbox[n]) /\ \A m \in NodeIds : m # n => inbox'[m] = inbox[m]
      /\ hubNode'[n] = next /\ \A m \in NodeIds : m # n => hubNode'[m] = hubNode[m]
  BY <1>1, <1>2
<1>4. /\ frame \in HubFrames /\ 1 \in DOMAIN inbox[n] /\ inbox[n][1] = frame
      /\ Tail(inbox[n]) \in Seq(HubFrames)
      /\ \A i \in DOMAIN Tail(inbox[n]) : i + 1 \in DOMAIN inbox[n]
                                          /\ Tail(inbox[n])[i] = inbox[n][i + 1]
      /\ \A i \in DOMAIN inbox[n] : i # 1 => i - 1 \in DOMAIN Tail(inbox[n])
                                             /\ Tail(inbox[n])[i - 1] = inbox[n][i]
  BY <1>1, TailHolds
<1> HIDE DEF frame
<1>5. /\ next \in NodeIds \cup {NoNode}
      /\ next = n => hubNode[n] = n /\ \A p \in NodeIds : frame # IsHubNode(p)
  <2>1. CASE \E k \in NodeIds : frame = IsHubNode(k)
    <3>1. PICK k \in NodeIds : frame = IsHubNode(k)
      BY <2>1
    <3>2. k # n
      BY <1>4, <3>1 DEF HubInv, FramesOfOthers
    <3>3. next = k
      BY <3>1, FrameFields
    <3>4. QED
      BY <3>2, <3>3
  <2>2. CASE \E k \in NodeIds : frame = NoLongerIsHubNode(k)
    <3>1. frame.type # "is hub" /\ \A p \in NodeIds : frame # IsHubNode(p)
      BY <2>2, FrameFields
    <3>2. next \in {NoNode, hubNode[n]}
      BY <3>1
    <3>3. hubNode[n] \in NodeIds \cup {NoNode} /\ NoNode # n
      BY <1>1, NoNodeIsNone
    <3>4. QED
      BY <3>1, <3>2, <3>3
  <2>3. QED
    BY <1>4, <2>1, <2>2 DEF HubFrames
<1> HIDE DEF next
<1>6. DiscoveryType'
  <2>1. hubNode' \in [NodeIds -> NodeIds \cup {NoNode}]
    BY <1>1, <1>2, <1>5
  <2>2. inbox' \in [NodeIds -> Seq(HubFrames)]
    BY <1>1, <1>2, <1>4
  <2>3. QED
    BY <2>1, <2>2, <1>1, <1>2 DEF DiscoveryType
<1>7. OwnFrames'
  BY <1>2 DEF HubInv, OwnFrames
<1>8. FramesOfOthers'
  <2> SUFFICES ASSUME NEW m \in NodeIds, NEW k \in NodeIds, NEW i \in DOMAIN inbox'[m],
                      inbox'[m][i] = IsHubNode(k)
               PROVE  k # m
    BY DEF FramesOfOthers
  <2>1. \E j \in DOMAIN inbox[m] : inbox[m][j] = IsHubNode(k)
    <3>1. CASE m = n
      <4>1. i \in DOMAIN Tail(inbox[n]) /\ Tail(inbox[n])[i] = IsHubNode(k)
        BY <3>1, <1>3
      <4>2. i + 1 \in DOMAIN inbox[n] /\ inbox[n][i + 1] = IsHubNode(k)
        BY <4>1, <1>4
      <4>3. QED
        BY <4>2, <3>1
    <3>2. CASE m # n
      BY <3>2, <1>3
    <3>3. QED
      BY <3>1, <3>2
  <2>2. QED
    BY <2>1 DEF HubInv, FramesOfOthers
<1>9. ASSUME NEW m \in NodeIds, NEW p \in NodeIds, hubNode'[m] = m, WillHear(m, p)
      PROVE  WillHear(m, p)'
  <2>1. CASE \E b \in TXBuffers : tx[p][b] = IsHubNode(p)
    BY <2>1, <1>2 DEF WillHear
  <2>2. CASE \E i \in DOMAIN inbox[m] : inbox[m][i] = IsHubNode(p)
    <3>1. PICK i \in DOMAIN inbox[m] : inbox[m][i] = IsHubNode(p)
      BY <2>2
    <3>2. CASE m = n
      <4>1. i # 1
        BY <3>1, <3>2, <1>3, <1>4, <1>5, <1>9
      <4>2. i - 1 \in DOMAIN inbox'[m] /\ inbox'[m][i - 1] = IsHubNode(p)
        BY <4>1, <3>1, <3>2, <1>3, <1>4
      <4>3. QED
        BY <4>2 DEF WillHear
    <3>3. CASE m # n
      BY <3>1, <3>3, <1>3 DEF WillHear
    <3>4. QED
      BY <3>2, <3>3
  <2>3. QED
    BY <2>1, <2>2, <1>9 DEF WillHear
<1>10. \A m \in NodeIds : hubNode'[m] = m => hubNode[m] = m
  BY <1>3, <1>5
<1>11. ~disturbed' => \E p \in NodeIds \cup {NoNode} : Follows(p)'
  BY <1>2, <1>9, <1>10, FollowsKept
<1>12. QED
  BY <1>6, <1>7, <1>8, <1>11 DEF HubInv

\* External: a lost frame disturbs what the nodes agree on.
LEMMA OverflowStep ==
  ASSUME HubInv, NEW n \in NodeIds, Overflow(n)
  PROVE  HubInv'
<1>1. /\ hubNode \in [NodeIds -> NodeIds \cup {NoNode}]
      /\ tx \in [NodeIds -> [TXBuffers -> Frames]] /\ inbox \in [NodeIds -> Seq(HubFrames)]
      /\ inbox[n] # <<>> /\ inbox[n] \in Seq(HubFrames)
  BY DEF HubInv, DiscoveryType, Overflow
<1>2. /\ hubNode' = hubNode /\ tx' = tx /\ disturbed'
      /\ inbox' = [inbox EXCEPT ![n] = Tail(@)]
  BY DEF Overflow, nodeVars
<1>3. /\ Tail(inbox[n]) \in Seq(HubFrames)
      /\ \A i \in DOMAIN Tail(inbox[n]) : i + 1 \in DOMAIN inbox[n]
                                          /\ Tail(inbox[n])[i] = inbox[n][i + 1]
  BY <1>1, TailHolds
<1>4. inbox' \in [NodeIds -> Seq(HubFrames)]
  BY <1>1, <1>2, <1>3
<1>5. DiscoveryType' /\ OwnFrames'
  BY <1>1, <1>2, <1>4 DEF HubInv, DiscoveryType, OwnFrames, Overflow
<1>6. FramesOfOthers'
  <2> SUFFICES ASSUME NEW m \in NodeIds, NEW k \in NodeIds, NEW i \in DOMAIN inbox'[m],
                      inbox'[m][i] = IsHubNode(k)
               PROVE  k # m
    BY DEF FramesOfOthers
  <2>1. \E j \in DOMAIN inbox[m] : inbox[m][j] = IsHubNode(k)
    BY <1>1, <1>2, <1>3
  <2>2. QED
    BY <2>1 DEF HubInv, FramesOfOthers
<1>7. QED
  BY <1>2, <1>5, <1>6 DEF HubInv

\* A node is turned on again: what it held is lost, and nobody was the hub if it counts.
LEMMA RestartStep ==
  ASSUME HubInv, NEW n \in NodeIds, Restart(n)
  PROVE  HubInv'
<1>1. /\ hubNode \in [NodeIds -> NodeIds \cup {NoNode}]
      /\ tx \in [NodeIds -> [TXBuffers -> Frames]] /\ inbox \in [NodeIds -> Seq(HubFrames)]
  BY DEF HubInv, DiscoveryType
<1>2. /\ hubNode' = [hubNode EXCEPT ![n] = NoNode]
      /\ tx' = [tx EXCEPT ![n] = NothingPending] /\ inbox' = [inbox EXCEPT ![n] = <<>>]
      /\ disturbed' = (disturbed \/ ~BusQuiet \/ \E m \in NodeIds : hubNode[m] = m)
  BY DEF Restart
<1>3. NothingPending \in [TXBuffers -> Frames]
  BY DEF NothingPending, Frames
<1>4. DiscoveryType'
  <2>1. tx' \in [NodeIds -> [TXBuffers -> Frames]]
    BY <1>1, <1>2, <1>3
  <2>2. inbox' \in [NodeIds -> Seq(HubFrames)]
    BY <1>1, <1>2
  <2>3. hubNode' \in [NodeIds -> NodeIds \cup {NoNode}] /\ disturbed' \in BOOLEAN
    BY <1>1, <1>2 DEF HubInv, DiscoveryType
  <2>4. QED
    BY <2>1, <2>2, <2>3 DEF DiscoveryType
<1>5. OwnFrames'
  <2> SUFFICES ASSUME NEW m \in NodeIds, NEW k \in NodeIds, NEW b \in TXBuffers,
                      tx'[m][b] = IsHubNode(k)
               PROVE  k = m
    BY DEF OwnFrames
  <2>1. CASE m = n
    BY <2>1, <1>1, <1>2, FramesDiffer DEF NothingPending
  <2>2. CASE m # n
    BY <2>2, <1>1, <1>2 DEF HubInv, OwnFrames
  <2>3. QED
    BY <2>1, <2>2
<1>6. FramesOfOthers'
  BY <1>1, <1>2 DEF HubInv, FramesOfOthers
<1>7. ASSUME ~disturbed' PROVE Follows(NoNode)'
  <2>1. \A m \in NodeIds : hubNode[m] # m
    BY <1>2, <1>7
  <2>2. \A m \in NodeIds : hubNode'[m] # m
    BY <2>1, <1>1, <1>2, NoNodeIsNone
  <2>3. QED
    BY <2>2 DEF Follows
<1>8. QED
  BY <1>4, <1>5, <1>6, <1>7 DEF HubInv

----------------------------------------------------------------------------
\* Every step of the protocol.
LEMMA StepHubInv == HubInv /\ [Next]_vars => HubInv'
<1> SUFFICES ASSUME HubInv, [Next]_vars PROVE HubInv'
  OBVIOUS
<1>1. ASSUME NEW n \in NodeIds, SendPCDiscovery(n) PROVE HubInv'
  BY <1>1, SendPCDiscoveryStep
<1>2. ASSUME NEW n \in NodeIds, ReadSerial(n) PROVE HubInv'
  BY <1>2, ReadSerialStep
<1>3. ASSUME NEW n \in NodeIds, Received(n) PROVE HubInv'
  BY <1>3, ReceivedStep
<1>4. ASSUME NEW n \in NodeIds, GoesOverBus(n) PROVE HubInv'
  BY <1>4, GoesOverBusStep
<1>5. ASSUME NEW n \in NodeIds, Overflow(n) PROVE HubInv'
  BY <1>5, OverflowStep
<1>6. ASSUME NEW n \in NodeIds, Restart(n) PROVE HubInv'
  BY <1>6, RestartStep
<1>7. CASE \E n \in NodeIds : ResetGlob(n) \/ \E k \in NodeIds : RegisterNewNode(n, k)
  <2>1. UNCHANGED <<hubNode, tx, inbox, disturbed>>
    BY <1>7 DEF ResetGlob, RegisterNewNode, busVars
  <2>2. QED
    BY <2>1, UnrelatedStep
<1>8. CASE (\E p \in NodeIds \cup {NoNode} : PlugPC(p))
           \/ RestartServer \/ HandleReadSerial \/ MissesMessage
  <2>1. UNCHANGED <<hubNode, tx, inbox, disturbed>>
    BY <1>8 DEF PlugPC, RestartServer, HandleReadSerial, MissesMessage, busVars, nodeVars
  <2>2. QED
    BY <2>1, UnrelatedStep
<1>9. CASE UNCHANGED vars
  BY <1>9, UnrelatedStep DEF vars, busVars, nodeVars
<1>10. QED
  BY <1>1, <1>2, <1>3, <1>4, <1>5, <1>6, <1>7, <1>8, <1>9 DEF Next

\* Who takes itself for the hub, except the one that all follow, will hear of it.
LEMMA HubInvGivesOneHub == HubInv => OneHub
<1> SUFFICES ASSUME HubInv, ~disturbed, NEW n \in NodeIds, NEW m \in NodeIds,
                    n # m, hubNode[n] = n, hubNode[m] = m
             PROVE  Underway(n) \/ Underway(m)
  BY DEF OneHub
<1>1. PICK p \in NodeIds \cup {NoNode} : Follows(p)
  BY DEF HubInv
<1>2. PICK k \in {n, m} : k # p
  OBVIOUS
<1>3. p \in NodeIds /\ WillHear(k, p)
  BY <1>1, <1>2 DEF Follows
<1>4. Underway(k)
  BY <1>2, <1>3 DEF WillHear, Underway
<1>5. QED
  BY <1>2, <1>4

(***************************************************************************)
(* sendBroadcastIsHubNode, sendBroadcastNoLongerIsHubNode and their        *)
(* handler: unless a frame was lost or swapped, two nodes take themselves  *)
(* for the hub only while one of them has still to be told, for any number *)
(* of nodes.                                                               *)
(***************************************************************************)
THEOREM DiscoveryOneHub == Spec => []OneHub
<1>1. Init /\ [][Next]_vars => []HubInv
  BY InitHubInv, StepHubInv, PTL
<1>2. QED
  BY <1>1, HubInvGivesOneHub, PTL DEF Spec
----------------------------------------------------------------------------
(***************************************************************************)
(* The server's list.                                                      *)
(***************************************************************************)
\* What a node may write on the serial line to the PC.
Messages == {Discovery} \cup {ListNodes(ids) : ids \in SUBSET NodeIds}

ListType ==
    /\ hubNode \in [NodeIds -> NodeIds \cup {NoNode}]
    /\ nodesList \in [NodeIds -> SUBSET NodeIds]
    /\ pc \in NodeIds \cup {NoNode}
    /\ toPC \in Seq(Messages)

\* The last list on the line is ids, or none is and the server has ids.
Heading(ids, line, known) ==
    \/ \E i \in DOMAIN line :
         /\ line[i] = ListNodes(ids)
         /\ \A j \in DOMAIN line : j > i => line[j] = Discovery
    \/ known = ids /\ \A i \in DOMAIN line : line[i] = Discovery

\* The hub has the PC, which has missed none of its lists.
Followed == pc \in NodeIds /\ hubNode[pc] = pc /\ ~unnoticed

\* The inductive invariant: the hub's list is the last that the server gets.
ListInv == ListType /\ (Followed => Heading(nodesList[pc], toPC, nodeIds))

\* A message is a discovery or a list.
LEMMA MessagesDiffer == \A ids : ListNodes(ids) # Discovery
<1> SUFFICES ASSUME NEW ids PROVE ListNodes(ids) # Discovery
  OBVIOUS
<1>1. ListNodes(ids).type = "L" /\ Discovery.type = "D"
  BY DEF ListNodes, Discovery
<1>2. QED
  BY <1>1

\* The fields of a list.
LEMMA ListHolds == \A ids : ListNodes(ids).ids = ids
BY DEF ListNodes

\* A discovery behind what is on the line changes nothing,
LEMMA DiscoveryBehind ==
  ASSUME NEW ids, NEW known, NEW line \in Seq(Messages), Heading(ids, line, known)
  PROVE  Append(line, Discovery) \in Seq(Messages)
         /\ Heading(ids, Append(line, Discovery), known)
<1> DEFINE next == Append(line, Discovery)
           L == Len(line)
<1>1. L \in Nat /\ DOMAIN line = 1 .. L /\ Discovery \in Messages
  BY DEF Messages
<1>2. /\ next \in Seq(Messages) /\ Len(next) = L + 1
      /\ \A i \in 1 .. L : next[i] = line[i]
      /\ next[L + 1] = Discovery
  BY <1>1, AppendProperties
<1>3. DOMAIN next = 1 .. L + 1
  BY <1>2
<1> HIDE DEF next
<1>4. CASE \E i \in DOMAIN line :
             line[i] = ListNodes(ids) /\ \A j \in DOMAIN line : j > i => line[j] = Discovery
  <2>1. PICK i \in 1 .. L :
               line[i] = ListNodes(ids) /\ \A j \in 1 .. L : j > i => line[j] = Discovery
    BY <1>1, <1>4
  <2>2. i \in DOMAIN next /\ next[i] = ListNodes(ids)
    BY <1>1, <1>2, <1>3, <2>1
  <2>3. \A j \in DOMAIN next : j > i => next[j] = Discovery
    BY <1>1, <1>2, <1>3, <2>1
  <2>4. QED
    BY <1>2, <2>2, <2>3 DEF Heading
<1>5. CASE known = ids /\ \A i \in DOMAIN line : line[i] = Discovery
  <2>1. \A i \in DOMAIN next : next[i] = Discovery
    BY <1>1, <1>2, <1>3, <1>5
  <2>2. QED
    BY <1>2, <1>5, <2>1 DEF Heading
<1>6. QED
  BY <1>4, <1>5 DEF Heading, next

\* and a list behind it is the last,
LEMMA ListBehind ==
  ASSUME NEW ids \in SUBSET NodeIds, NEW known, NEW line \in Seq(Messages)
  PROVE  Append(line, ListNodes(ids)) \in Seq(Messages)
         /\ Heading(ids, Append(line, ListNodes(ids)), known)
<1> DEFINE next == Append(line, ListNodes(ids))
           L == Len(line)
<1>1. L \in Nat /\ ListNodes(ids) \in Messages
  BY DEF Messages
<1>2. next \in Seq(Messages) /\ Len(next) = L + 1 /\ next[L + 1] = ListNodes(ids)
  BY <1>1, AppendProperties
<1>3. DOMAIN next = 1 .. L + 1
  BY <1>2
<1> HIDE DEF next
<1>4. L + 1 \in DOMAIN next /\ \A j \in DOMAIN next : ~(j > L + 1)
  BY <1>1, <1>3
<1>5. Heading(ids, next, known)
  BY <1>2, <1>4 DEF Heading
<1>6. QED
  BY <1>2, <1>5 DEF next

(***************************************************************************)
(* while the oldest message, taken off the line, was not the last list, or *)
(* is what the server has now.                                             *)
(***************************************************************************)
LEMMA HeadingOfTail ==
  ASSUME NEW ids, NEW known, NEW known2, NEW line \in Seq(Messages), line # <<>>,
         Heading(ids, line, known),
         \/ Head(line) = Discovery /\ known2 = known
         \/ Head(line) # Discovery /\ \A k : Head(line) = ListNodes(k) => known2 = k
  PROVE  Heading(ids, Tail(line), known2)
<1> DEFINE rest == Tail(line)
           L == Len(line)
<1>1. L \in Nat /\ L >= 1 /\ DOMAIN line = 1 .. L /\ line[1] = Head(line)
  OBVIOUS
<1>2. rest \in Seq(Messages) /\ Len(rest) = L - 1 /\ \A i \in 1 .. L - 1 : rest[i] = line[i + 1]
  BY HeadTailProperties
<1>3. DOMAIN rest = 1 .. L - 1
  BY <1>2
<1> HIDE DEF rest
<1>4. CASE known = ids /\ \A i \in DOMAIN line : line[i] = Discovery
  <2>1. Head(line) = Discovery /\ known2 = ids
    BY <1>1, <1>4
  <2>2. \A i \in DOMAIN rest : rest[i] = Discovery
    BY <1>1, <1>2, <1>3, <1>4
  <2>3. QED
    BY <2>1, <2>2 DEF Heading, rest
<1>5. CASE \E i \in DOMAIN line :
             line[i] = ListNodes(ids) /\ \A j \in DOMAIN line : j > i => line[j] = Discovery
  <2>1. PICK i \in 1 .. L :
               line[i] = ListNodes(ids) /\ \A j \in 1 .. L : j > i => line[j] = Discovery
    BY <1>1, <1>5
  <2>2. CASE i = 1
    <3>1. Head(line) = ListNodes(ids) /\ Head(line) # Discovery
      BY <1>1, <2>1, <2>2, MessagesDiffer
    <3>2. known2 = ids
      BY <3>1
    <3>3. \A j \in DOMAIN rest : rest[j] = Discovery
      BY <1>1, <1>2, <1>3, <2>1, <2>2
    <3>4. QED
      BY <3>2, <3>3 DEF Heading, rest
  <2>3. CASE i # 1
    <3>1. i - 1 \in DOMAIN rest /\ rest[i - 1] = ListNodes(ids)
      <4>1. i - 1 \in 1 .. L - 1 /\ (i - 1) + 1 = i
        BY <1>1, <2>1, <2>3
      <4>2. QED
        BY <4>1, <1>2, <1>3, <2>1
    <3>2. ASSUME NEW j \in DOMAIN rest, j > i - 1 PROVE rest[j] = Discovery
      <4>1. j \in 1 .. L - 1 /\ j + 1 \in 1 .. L /\ j + 1 > i
        BY <1>1, <1>3, <2>1, <3>2
      <4>2. QED
        BY <4>1, <1>2, <2>1
    <3>3. QED
      BY <3>1, <3>2 DEF Heading, rest
  <2>4. QED
    BY <2>2, <2>3
<1>6. QED
  BY <1>4, <1>5 DEF Heading

\* Handling a frame makes nobody the hub that was not.
LEMMA ReceivedMakesNoHub ==
  ASSUME HubInv, NEW n \in NodeIds, Received(n)
  PROVE  /\ hubNode' \in [NodeIds -> NodeIds \cup {NoNode}]
         /\ \A m \in NodeIds : hubNode'[m] = m => hubNode[m] = m
<1> DEFINE frame == Head(inbox[n])
           next == IF frame.type = "is hub" THEN frame.sender
                   ELSE IF ClearsHub(n, frame) THEN NoNode ELSE hubNode[n]
<1>1. /\ hubNode \in [NodeIds -> NodeIds \cup {NoNode}]
      /\ inbox[n] # <<>> /\ inbox[n] \in Seq(HubFrames)
  BY DEF HubInv, DiscoveryType, Received
<1>2. hubNode' = [hubNode EXCEPT ![n] = next]
  BY <1>1 DEF Received
<1>3. frame \in HubFrames /\ 1 \in DOMAIN inbox[n] /\ inbox[n][1] = frame
  BY <1>1, TailHolds
<1> HIDE DEF frame
<1>4. next \in NodeIds \cup {NoNode} /\ (next = n => hubNode[n] = n)
  <2>1. CASE \E k \in NodeIds : frame = IsHubNode(k)
    <3>1. PICK k \in NodeIds : frame = IsHubNode(k)
      BY <2>1
    <3>2. k # n
      BY <1>3, <3>1 DEF HubInv, FramesOfOthers
    <3>3. next = k
      BY <3>1, FrameFields
    <3>4. QED
      BY <3>2, <3>3
  <2>2. CASE \E k \in NodeIds : frame = NoLongerIsHubNode(k)
    <3>1. frame.type # "is hub"
      BY <2>2, FrameFields
    <3>2. next \in {NoNode, hubNode[n]}
      BY <3>1
    <3>3. hubNode[n] \in NodeIds \cup {NoNode} /\ NoNode # n
      BY <1>1, NoNodeIsNone
    <3>4. QED
      BY <3>2, <3>3
  <2>3. QED
    BY <1>3, <2>1, <2>2 DEF HubFrames
<1> HIDE DEF next
<1>5. QED
  BY <1>1, <1>2, <1>4
----------------------------------------------------------------------------
\* No PC is plugged in at the start.
LEMMA InitListInv == Init => ListInv
<1> SUFFICES ASSUME Init PROVE ListInv
  OBVIOUS
<1>1. ListType
  <2>1. \A n \in NodeIds : {n} \in SUBSET NodeIds
    OBVIOUS
  <2>2. nodesList \in [NodeIds -> SUBSET NodeIds]
    BY <2>1 DEF Init
  <2>3. hubNode \in [NodeIds -> NodeIds \cup {NoNode}] /\ pc \in NodeIds \cup {NoNode}
    BY DEF Init
  <2>4. toPC \in Seq(Messages)
    BY DEF Init
  <2>5. QED
    BY <2>2, <2>3, <2>4 DEF ListType
<1>2. ~Followed
  BY NoNodeIsNone DEF Init, Followed
<1>3. QED
  BY <1>1, <1>2 DEF ListInv

\* A step that makes no hub and leaves the lists and the serial line.
LEMMA ElsewhereStep ==
  ASSUME ListInv, hubNode' \in [NodeIds -> NodeIds \cup {NoNode}],
         \A m \in NodeIds : hubNode'[m] = m => hubNode[m] = m,
         UNCHANGED <<nodesList, pc, nodeIds, toPC, unnoticed>>
  PROVE  ListInv'
<1>1. ListType'
  BY DEF ListInv, ListType
<1>2. ASSUME Followed' PROVE Heading(nodesList[pc], toPC, nodeIds)'
  <2>1. Followed
    BY <1>2 DEF Followed
  <2>2. QED
    BY <2>1 DEF ListInv, Heading
<1>3. QED
  BY <1>1, <1>2 DEF ListInv

\* sendPCDiscovery: a question goes behind the last list.
LEMMA SendPCDiscoveryList ==
  ASSUME ListInv, NEW n \in NodeIds, SendPCDiscovery(n)
  PROVE  ListInv'
<1>1. /\ hubNode \in [NodeIds -> NodeIds \cup {NoNode}] /\ toPC \in Seq(Messages)
      /\ nodesList \in [NodeIds -> SUBSET NodeIds] /\ pc \in NodeIds \cup {NoNode}
  BY DEF ListInv, ListType
<1>2. /\ UNCHANGED <<nodesList, pc, nodeIds, unnoticed>>
      /\ hubNode' \in {hubNode, [hubNode EXCEPT ![n] = NoNode]}
      /\ toPC' = IF n = pc THEN toPC \o <<Discovery>> ELSE toPC
  BY DEF SendPCDiscovery, WriteSerial
<1>3. /\ hubNode' \in [NodeIds -> NodeIds \cup {NoNode}]
      /\ \A m \in NodeIds : hubNode'[m] = m => hubNode[m] = m
  BY <1>1, <1>2, NoNodeIsNone
<1>4. CASE n # pc
  BY <1>2, <1>3, <1>4, ElsewhereStep
<1>5. CASE n = pc
  <2>1. Discovery \in Messages
    BY DEF Messages
  <2>2. toPC' = Append(toPC, Discovery)
    BY <1>1, <1>2, <1>5, <2>1
  <2>3. toPC' \in Seq(Messages)
    BY <1>1, <2>1, <2>2, AppendProperties
  <2>4. ListType'
    BY <1>1, <1>2, <1>3, <2>3 DEF ListType
  <2>5. ASSUME Followed' PROVE Heading(nodesList[pc], toPC, nodeIds)'
    <3>1. Followed
      BY <1>2, <1>3, <2>5 DEF Followed
    <3>2. Heading(nodesList[pc], toPC, nodeIds)
      BY <3>1 DEF ListInv
    <3>3. Heading(nodesList[pc], Append(toPC, Discovery), nodeIds)
      BY <1>1, <3>2, DiscoveryBehind
    <3>4. QED
      BY <1>2, <2>2, <3>3 DEF Heading
  <2>6. QED
    BY <2>4, <2>5 DEF ListInv
<1>6. QED
  BY <1>4, <1>5

\* readSerial: who becomes the hub sends its list.
LEMMA ReadSerialList ==
  ASSUME ListInv, NEW n \in NodeIds, ReadSerial(n)
  PROVE  ListInv'
<1>1. /\ hubNode \in [NodeIds -> NodeIds \cup {NoNode}] /\ toPC \in Seq(Messages)
      /\ nodesList \in [NodeIds -> SUBSET NodeIds] /\ pc \in NodeIds \cup {NoNode}
  BY DEF ListInv, ListType
<1>2. UNCHANGED <<nodesList, pc, nodeIds>> /\ n = pc
  BY DEF ReadSerial
<1>3. CASE KeepsHub(n)
  BY <1>1, <1>2, <1>3, ElsewhereStep DEF KeepsHub
<1>4. CASE BecomesHub(n)
  <2>1. /\ hubNode' = [hubNode EXCEPT ![n] = n]
        /\ toPC' = toPC \o <<ListNodes(nodesList[n])>>
    BY <1>2, <1>4 DEF BecomesHub, WriteSerial
  <2>2. nodesList[n] \in SUBSET NodeIds /\ ListNodes(nodesList[n]) \in Messages
    BY <1>1 DEF Messages
  <2>3. toPC' = Append(toPC, ListNodes(nodesList[n]))
    BY <1>1, <2>1, <2>2
  <2>4. /\ Append(toPC, ListNodes(nodesList[n])) \in Seq(Messages)
        /\ Heading(nodesList[n], Append(toPC, ListNodes(nodesList[n])), nodeIds)
    BY <1>1, <2>2, ListBehind
  <2>5. ListType'
    BY <1>1, <1>2, <2>1, <2>3, <2>4 DEF ListType
  <2>6. Heading(nodesList[pc], toPC, nodeIds)'
    BY <1>2, <2>3, <2>4 DEF Heading
  <2>7. QED
    BY <2>5, <2>6 DEF ListInv
<1>5. QED
  BY <1>3, <1>4 DEF ReadSerial

\* registerNewNode and resetGlob: a hub sends the list that it has then.
LEMMA ListChangesList ==
  ASSUME ListInv, NEW n \in NodeIds, NEW ids \in SUBSET NodeIds,
         nodesList' = [nodesList EXCEPT ![n] = ids], SendsListIfHub(n),
         UNCHANGED <<hubNode, pc, nodeIds, unnoticed>>
  PROVE  ListInv'
<1>1. /\ hubNode \in [NodeIds -> NodeIds \cup {NoNode}] /\ toPC \in Seq(Messages)
      /\ nodesList \in [NodeIds -> SUBSET NodeIds] /\ pc \in NodeIds \cup {NoNode}
  BY DEF ListInv, ListType
<1>2. /\ nodesList' \in [NodeIds -> SUBSET NodeIds] /\ nodesList'[n] = ids
      /\ \A m \in NodeIds : m # n => nodesList'[m] = nodesList[m]
  BY <1>1
<1>3. CASE n = pc /\ hubNode[n] = n
  <2>1. toPC' = toPC \o <<ListNodes(ids)>> /\ ListNodes(ids) \in Messages
    BY <1>2, <1>3 DEF SendsListIfHub, WriteSerial, Messages
  <2>2. toPC' = Append(toPC, ListNodes(ids))
    BY <1>1, <2>1
  <2>3. /\ Append(toPC, ListNodes(ids)) \in Seq(Messages)
        /\ Heading(ids, Append(toPC, ListNodes(ids)), nodeIds)
    BY <1>1, ListBehind
  <2>4. ListType'
    BY <1>1, <1>2, <2>2, <2>3 DEF ListType
  <2>5. Heading(nodesList[pc], toPC, nodeIds)'
    BY <1>2, <1>3, <2>2, <2>3 DEF Heading
  <2>6. QED
    BY <2>4, <2>5 DEF ListInv
<1>4. CASE ~(n = pc /\ hubNode[n] = n)
  <2>1. toPC' = toPC
    <3>1. toPC \o <<>> = toPC
      BY <1>1
    <3>2. QED
      BY <3>1, <1>4 DEF SendsListIfHub, WriteSerial
  <2>2. ListType'
    BY <1>1, <1>2, <2>1 DEF ListType
  <2>3. ASSUME Followed' PROVE Heading(nodesList[pc], toPC, nodeIds)'
    <3>1. Followed /\ pc # n
      BY <1>4, <2>3 DEF Followed
    <3>2. Heading(nodesList[pc], toPC, nodeIds) /\ nodesList'[pc] = nodesList[pc]
      BY <1>2, <3>1 DEF ListInv, Followed
    <3>3. QED
      BY <2>1, <3>2 DEF Heading
  <2>4. QED
    BY <2>2, <2>3 DEF ListInv
<1>5. QED
  BY <1>3, <1>4

\* A node that is turned on again is not the hub.
LEMMA RestartList ==
  ASSUME ListInv, NEW n \in NodeIds, Restart(n)
  PROVE  ListInv'
<1>1. /\ hubNode \in [NodeIds -> NodeIds \cup {NoNode}] /\ toPC \in Seq(Messages)
      /\ nodesList \in [NodeIds -> SUBSET NodeIds] /\ pc \in NodeIds \cup {NoNode}
  BY DEF ListInv, ListType
<1>2. /\ hubNode' = [hubNode EXCEPT ![n] = NoNode] /\ nodesList' = [nodesList EXCEPT ![n] = {n}]
      /\ toPC' = IF n = pc THEN <<>> ELSE toPC
      /\ UNCHANGED <<pc, nodeIds, unnoticed>>
  BY DEF Restart
<1>3. {n} \in SUBSET NodeIds /\ <<>> \in Seq(Messages)
  OBVIOUS
<1>4. ListType'
  BY <1>1, <1>2, <1>3 DEF ListType
<1>5. ASSUME Followed' PROVE Heading(nodesList[pc], toPC, nodeIds)'
  <2>1. pc # n /\ Followed
    BY <1>1, <1>2, <1>5, NoNodeIsNone DEF Followed
  <2>2. Heading(nodesList[pc], toPC, nodeIds) /\ nodesList'[pc] = nodesList[pc] /\ toPC' = toPC
    BY <1>1, <1>2, <2>1 DEF ListInv, Followed
  <2>3. QED
    BY <1>2, <2>2 DEF Heading
<1>6. QED
  BY <1>4, <1>5 DEF ListInv

\* The cable or the server is started anew: a hub that stays one does not send its list.
LEMMA RepluggedList ==
  ASSUME ListInv, (\E p \in NodeIds \cup {NoNode} : PlugPC(p)) \/ RestartServer
  PROVE  ListInv'
<1>1. /\ hubNode \in [NodeIds -> NodeIds \cup {NoNode}]
      /\ nodesList \in [NodeIds -> SUBSET NodeIds] /\ pc \in NodeIds \cup {NoNode}
  BY DEF ListInv, ListType
<1>2. /\ UNCHANGED <<hubNode, nodesList>> /\ toPC' = <<>> /\ pc' \in NodeIds \cup {NoNode}
      /\ hubNode[pc'] = pc' /\ pc' # NoNode => unnoticed'
  BY <1>1 DEF PlugPC, RestartServer, nodeVars
<1>3. ListType'
  BY <1>1, <1>2 DEF ListType
<1>4. ~Followed'
  BY <1>2, NoNodeIsNone DEF Followed
<1>5. QED
  BY <1>3, <1>4 DEF ListInv

\* handle_read_serial takes the oldest message, or cuts it.
LEMMA MessageList ==
  ASSUME ListInv, HandleReadSerial \/ MissesMessage
  PROVE  ListInv'
<1>1. /\ hubNode \in [NodeIds -> NodeIds \cup {NoNode}] /\ toPC \in Seq(Messages)
      /\ nodesList \in [NodeIds -> SUBSET NodeIds] /\ pc \in NodeIds \cup {NoNode}
  BY DEF ListInv, ListType
<1>2. UNCHANGED <<hubNode, nodesList, pc>> /\ toPC # <<>> /\ toPC' = Tail(toPC)
  BY DEF HandleReadSerial, MissesMessage, nodeVars
<1>3. Tail(toPC) \in Seq(Messages)
  BY <1>1, <1>2, TailHolds
<1>4. ListType'
  BY <1>1, <1>2, <1>3 DEF ListType
<1>5. ASSUME Followed' PROVE Heading(nodesList[pc], toPC, nodeIds)'
  <2>1. ~unnoticed'
    BY <1>5 DEF Followed
  <2>2. ~unnoticed
    BY <2>1 DEF HandleReadSerial, MissesMessage
  <2>3. Followed
    BY <1>2, <1>5, <2>2 DEF Followed
  <2>4. Heading(nodesList[pc], toPC, nodeIds)
    BY <2>3 DEF ListInv
  <2>5. \/ Head(toPC) = Discovery /\ nodeIds' = nodeIds
        \/ Head(toPC) # Discovery /\ \A k : Head(toPC) = ListNodes(k) => nodeIds' = k
    BY <2>1, ListHolds DEF HandleReadSerial, MissesMessage
  <2>6. \A known2 : known2 = nodeIds' => Heading(nodesList[pc], Tail(toPC), known2)
    BY <1>1, <1>2, <2>4, <2>5, HeadingOfTail
  <2>7. QED
    BY <1>2, <2>6 DEF Heading
<1>6. QED
  BY <1>4, <1>5 DEF ListInv

\* Every step of the protocol.
LEMMA StepListInv == HubInv /\ ListInv /\ [Next]_vars => ListInv'
<1> SUFFICES ASSUME HubInv, ListInv, [Next]_vars PROVE ListInv'
  OBVIOUS
<1>1. hubNode \in [NodeIds -> NodeIds \cup {NoNode}] /\ nodesList \in [NodeIds -> SUBSET NodeIds]
  BY DEF ListInv, ListType
<1>2. ASSUME NEW n \in NodeIds, SendPCDiscovery(n) PROVE ListInv'
  BY <1>2, SendPCDiscoveryList
<1>3. ASSUME NEW n \in NodeIds, ReadSerial(n) PROVE ListInv'
  BY <1>3, ReadSerialList
<1>4. ASSUME NEW n \in NodeIds, Received(n) PROVE ListInv'
  <2>1. UNCHANGED <<nodesList, pc, nodeIds, toPC, unnoticed>>
    BY <1>4 DEF Received, pcVars
  <2>2. QED
    BY <1>4, <2>1, ReceivedMakesNoHub, ElsewhereStep
<1>5. CASE (\E n \in NodeIds : GoesOverBus(n) \/ Overflow(n)) \/ UNCHANGED vars
  <2>1. UNCHANGED <<hubNode, nodesList, pc, nodeIds, toPC, unnoticed>>
    BY <1>5 DEF GoesOverBus, Overflow, vars, nodeVars, pcVars
  <2>2. QED
    BY <1>1, <2>1, ElsewhereStep
<1>6. ASSUME NEW n \in NodeIds, ResetGlob(n) PROVE ListInv'
  <2>1. /\ nodesList' = [nodesList EXCEPT ![n] = KnowsItself(n)] /\ SendsListIfHub(n)
        /\ UNCHANGED <<hubNode, pc, nodeIds, unnoticed>>
    BY <1>6 DEF ResetGlob
  <2>2. KnowsItself(n) \in SUBSET NodeIds
    BY DEF KnowsItself
  <2>3. QED
    BY <2>1, <2>2, ListChangesList
<1>7. ASSUME NEW n \in NodeIds, NEW k \in NodeIds, RegisterNewNode(n, k) PROVE ListInv'
  <2>1. /\ nodesList' = [nodesList EXCEPT ![n] = nodesList[n] \cup {k}] /\ SendsListIfHub(n)
        /\ UNCHANGED <<hubNode, pc, nodeIds, unnoticed>>
    BY <1>7 DEF RegisterNewNode
  <2>2. nodesList[n] \cup {k} \in SUBSET NodeIds
    BY <1>1
  <2>3. QED
    BY <2>1, <2>2, ListChangesList
<1>8. ASSUME NEW n \in NodeIds, Restart(n) PROVE ListInv'
  BY <1>8, RestartList
<1>9. CASE (\E p \in NodeIds \cup {NoNode} : PlugPC(p)) \/ RestartServer
  BY <1>9, RepluggedList
<1>10. CASE HandleReadSerial \/ MissesMessage
  BY <1>10, MessageList
<1>11. QED
  BY <1>2, <1>3, <1>4, <1>5, <1>6, <1>7, <1>8, <1>9, <1>10 DEF Next

\* With nothing on the line, the last list is what the server has.
LEMMA ListInvGivesListCurrent == ListInv => ListCurrent
<1> SUFFICES ASSUME ListInv, pc # NoNode, toPC = <<>>, ~unnoticed, hubNode[pc] = pc
             PROVE  nodeIds = nodesList[pc]
  BY DEF ListCurrent, SerialQuiet
<1>1. Followed
  BY DEF ListInv, ListType, Followed
<1>2. Heading(nodesList[pc], toPC, nodeIds) /\ DOMAIN toPC = {}
  BY <1>1 DEF ListInv
<1>3. QED
  BY <1>2 DEF Heading

(***************************************************************************)
(* registerNewNode, resetGlob, readSerial and handle_read_serial: once the *)
(* serial line is empty the server has the list of the hub, whichever node *)
(* that is and however often it changed, for any number of nodes.          *)
(***************************************************************************)
THEOREM DiscoveryListCurrent == Spec => []ListCurrent
<1>1. Init /\ [][Next]_vars => [](HubInv /\ ListInv)
  BY InitHubInv, StepHubInv, InitListInv, StepListInv, PTL
<1>2. QED
  BY <1>1, ListInvGivesListCurrent, PTL DEF Spec
=============================================================================
