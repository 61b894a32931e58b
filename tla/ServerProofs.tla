---------------------------- MODULE ServerProofs ----------------------------
(***************************************************************************)
(* The last minute buffer keeps what it must and purges what it may,       *)
(* whatever the parser takes from the serial line for a reading and for a  *)
(* node, for every length of a minute and garbage in its memory, and       *)
(* wherever the seconds pass during an addition.                           *)
(*                                                                         *)
(* The handler acts on the messages that the hub sent, in order, however   *)
(* the reads cut them and whatever their data; and where it does not see   *)
(* that a message is cut, it loses that message and no other, if no byte   *)
(* of the data is a sync byte: for any number of nodes, messages, texts.   *)
(*                                                                         *)
(* At the end, the sessions of the clients, which have no state in common  *)
(* with the parser: no session is removed twice, a client in the list is   *)
(* heard, and the mutexes are not waited for in a circle.                  *)
(***************************************************************************)
EXTENDS SerialParser, ClientSessions, SequenceTheorems, WellFoundedInduction, TLAPS

\* A map from nodes and seconds.
IsHistory(h) == h = [n \in NodeIds |-> [t \in LMB!Times |-> h[n][t]]]

\* An addition in progress was started at a time that has come.
AddingType ==
    \/ adding = LMB!Idle
    \/ adding \in [at : {"remove", "push"}, timeNow : 0 .. clock,
                   node : {adding.node}, reading : {adding.reading}]

\* No entry of any node is there that is too old for an entry of the second last.
NoneTooOld(last) ==
    \A n \in NodeIds, t \in LMB!Times : t < last - Minute => lastMinuteBuffer[n][t] = <<>>

\* Garbage stays in lastTimeAddedEntry only while the buffer is empty.
GarbageWhileEmpty ==
    \/ \A n \in NodeIds, t \in LMB!Times : lastMinuteBuffer[n][t] = <<>>
    \/ NoneTooOld(lastTimeAddedEntry)

\* Between the purge, or the test that skips it, and the push nothing is too old.
PurgedBeforePush == adding.at = "push" => NoneTooOld(adding.timeNow)

\* The inductive invariant.
BufferInv ==
    /\ IsHistory(lastMinuteBuffer) /\ IsHistory(everAdded)
    /\ clock \in Nat /\ lastTimeAddedEntry \in Nat /\ AddingType
    /\ LMB!KeepsLastMinute /\ GarbageWhileEmpty /\ PurgedBeforePush

\* The times that the model knows are natural numbers.
LEMMA TimesAre ==
  /\ Minute \in Nat /\ MaxTime \in Nat /\ Garbage \subseteq Nat
  /\ LMB!Times \subseteq Nat /\ \A t \in Nat : t <= MaxTime => t \in LMB!Times
BY ClockAssumption DEF LMB!Parameters, LMB!Times

\* A buffer with nothing in it satisfies the invariant, whatever the garbage.
LEMMA InitBufferInv ==
  ASSUME LMB!InitBuffer
  PROVE  BufferInv
<1>1. /\ lastMinuteBuffer = [n \in NodeIds |-> [t \in LMB!Times |-> <<>>]]
      /\ everAdded = lastMinuteBuffer /\ clock = 0 /\ adding = LMB!Idle
      /\ lastTimeAddedEntry \in Garbage
  BY DEF LMB!InitBuffer
<1>2. \A n \in NodeIds, t \in LMB!Times : lastMinuteBuffer[n][t] = <<>>
  BY <1>1
<1>3. IsHistory(lastMinuteBuffer) /\ IsHistory(everAdded)
  BY <1>1, <1>2 DEF IsHistory
<1>4. adding.at = "idle"
  BY <1>1 DEF LMB!Idle
<1>5. LMB!KeepsLastMinute
  BY <1>1 DEF LMB!KeepsLastMinute
<1>6. QED
  BY <1>1, <1>2, <1>3, <1>4, <1>5, TimesAre
     DEF BufferInv, AddingType, GarbageWhileEmpty, PurgedBeforePush

\* Starting an addition: if it skips the purge, the last entry was of this second.
LEMMA AddPreserves ==
  ASSUME BufferInv, NEW n, NEW reading, LMB!AddToLastMinuteBuffer(n, reading)
  PROVE  BufferInv'
<1>1. /\ UNCHANGED <<lastMinuteBuffer, lastTimeAddedEntry, clock, everAdded>>
      /\ adding' = [at |-> IF LMB!PurgeDue THEN "remove" ELSE "push",
                    timeNow |-> clock, node |-> n, reading |-> reading]
  BY DEF LMB!AddToLastMinuteBuffer
<1>2. clock \in Nat /\ clock \in 0 .. clock
  BY DEF BufferInv
<1>3. AddingType' /\ adding'.timeNow = clock
  BY <1>1, <1>2 DEF AddingType
<1>4. ASSUME adding'.at = "push" PROVE NoneTooOld(clock)
  <2>1. clock = lastTimeAddedEntry
    BY <1>1, <1>4 DEF LMB!PurgeDue
  <2>2. QED
    BY <2>1 DEF BufferInv, GarbageWhileEmpty, NoneTooOld
<1>5. PurgedBeforePush'
  BY <1>1, <1>3, <1>4 DEF PurgedBeforePush, NoneTooOld
<1>6. LMB!KeepsLastMinute' /\ GarbageWhileEmpty'
  BY <1>1 DEF BufferInv, LMB!KeepsLastMinute, GarbageWhileEmpty, NoneTooOld
<1>7. QED
  BY <1>1, <1>3, <1>5, <1>6 DEF BufferInv, IsHistory

\* The purge, by a clock that may have gone on since the addition started.
LEMMA RemovePreserves ==
  ASSUME BufferInv, LMB!RemoveOldLastMinuteBufferEntries
  PROVE  BufferInv'
<1>1. /\ UNCHANGED <<lastTimeAddedEntry, clock, everAdded>>
      /\ adding.at = "remove" /\ adding' = [adding EXCEPT !.at = "push"]
      /\ lastMinuteBuffer' = [n \in NodeIds |-> [t \in LMB!Times |->
                                IF LMB!TooOld(t) THEN <<>> ELSE lastMinuteBuffer[n][t]]]
  BY DEF LMB!RemoveOldLastMinuteBufferEntries
<1>2. adding \in [at : {"remove", "push"}, timeNow : 0 .. clock,
                  node : {adding.node}, reading : {adding.reading}] /\ clock \in Nat
  BY <1>1 DEF BufferInv, AddingType, LMB!Idle
<1>3. /\ adding' \in [at : {"remove", "push"}, timeNow : 0 .. clock,
                      node : {adding'.node}, reading : {adding'.reading}]
      /\ adding'.timeNow = adding.timeNow /\ adding.timeNow \in 0 .. clock
  BY <1>1, <1>2
<1>4. \A n \in NodeIds, t \in LMB!Times :
        lastMinuteBuffer'[n][t] = IF t < clock - Minute THEN <<>> ELSE lastMinuteBuffer[n][t]
  BY <1>1 DEF LMB!TooOld
<1>5. IsHistory(lastMinuteBuffer)'
  BY <1>1 DEF IsHistory
<1>6. PurgedBeforePush'
  <2>1. \A t \in LMB!Times : t < adding.timeNow - Minute => t < clock - Minute
    BY <1>2, <1>3, TimesAre
  <2>2. QED
    BY <2>1, <1>3, <1>4 DEF PurgedBeforePush, NoneTooOld
<1>7. LMB!KeepsLastMinute'
  <2>1. \A t \in LMB!Times : t >= clock - Minute => ~(t < clock - Minute)
    BY <1>2, TimesAre
  <2>2. QED
    BY <2>1, <1>1, <1>4 DEF BufferInv, LMB!KeepsLastMinute
<1>8. GarbageWhileEmpty'
  BY <1>1, <1>4 DEF BufferInv, GarbageWhileEmpty, NoneTooOld
<1>9. QED
  BY <1>1, <1>3, <1>5, <1>6, <1>7, <1>8 DEF BufferInv, AddingType, IsHistory

\* The push: the entry is new in both, and is not older than a minute before itself.
LEMMA PushPreserves ==
  ASSUME BufferInv, LMB!PushBack
  PROVE  BufferInv'
<1> DEFINE k == adding.node
           now == adding.timeNow
           With(h) == [h EXCEPT ![k][now] = Append(@, adding.reading)]
<1>1. /\ clock' = clock /\ lastTimeAddedEntry' = now
      /\ adding.at = "push" /\ adding' = LMB!Idle
      /\ lastMinuteBuffer' = With(lastMinuteBuffer) /\ everAdded' = With(everAdded)
  BY DEF LMB!PushBack
<1>2. now \in 0 .. clock /\ clock \in Nat
  BY <1>1 DEF BufferInv, AddingType, LMB!Idle
<1>3. ASSUME NEW h, IsHistory(h)
      PROVE  /\ IsHistory(With(h))
             /\ \A n \in NodeIds, t \in LMB!Times :
                  With(h)[n][t] = IF n = k /\ t = now THEN Append(h[n][t], adding.reading)
                                  ELSE h[n][t]
  BY <1>3, ZenonT(60) DEF IsHistory
<1> HIDE DEF With
<1>4. IsHistory(lastMinuteBuffer)' /\ IsHistory(everAdded)'
  <2>1. IsHistory(With(lastMinuteBuffer)) /\ IsHistory(With(everAdded))
    BY <1>3 DEF BufferInv
  <2>2. QED
    BY <2>1, <1>1 DEF IsHistory
<1>5. \A n \in NodeIds, t \in LMB!Times :
        /\ lastMinuteBuffer[n][t] = everAdded[n][t] => lastMinuteBuffer'[n][t] = everAdded'[n][t]
        /\ t # now => lastMinuteBuffer'[n][t] = lastMinuteBuffer[n][t]
  BY <1>1, <1>3 DEF BufferInv
<1>6. LMB!KeepsLastMinute'
  BY <1>1, <1>5 DEF BufferInv, LMB!KeepsLastMinute
<1>7. GarbageWhileEmpty'
  <2>1. \A t \in LMB!Times : t < now - Minute => t # now
    BY <1>2, TimesAre
  <2>2. NoneTooOld(now)
    BY <1>1 DEF BufferInv, PurgedBeforePush
  <2>3. QED
    BY <2>1, <2>2, <1>1, <1>5 DEF GarbageWhileEmpty, NoneTooOld
<1>8. PurgedBeforePush' /\ AddingType'
  BY <1>1 DEF PurgedBeforePush, AddingType, LMB!Idle
<1>9. QED
  BY <1>1, <1>2, <1>4, <1>6, <1>7, <1>8 DEF BufferInv

\* A second passes, perhaps in the middle of an addition.
LEMMA TickPreserves ==
  ASSUME BufferInv, LMB!Tick
  PROVE  BufferInv'
<1>1. /\ UNCHANGED <<lastMinuteBuffer, lastTimeAddedEntry, adding, everAdded>>
      /\ clock' = clock + 1 /\ clock \in Nat /\ clock' \in Nat
  BY DEF LMB!Tick, BufferInv
<1>2. AddingType'
  <2>1. 0 .. clock \subseteq 0 .. clock'
    BY <1>1
  <2>2. QED
    BY <2>1, <1>1 DEF BufferInv, AddingType
<1>3. LMB!KeepsLastMinute'
  <2>1. \A t \in LMB!Times : t >= clock' - Minute => t >= clock - Minute
    BY <1>1, TimesAre
  <2>2. QED
    BY <2>1, <1>1 DEF BufferInv, LMB!KeepsLastMinute
<1>4. QED
  BY <1>1, <1>2, <1>3 DEF BufferInv, IsHistory, GarbageWhileEmpty, PurgedBeforePush, NoneTooOld

\* What leaves the buffer alone keeps the invariant.
LEMMA BufferKept == BufferInv /\ UNCHANGED lmbVars => BufferInv'
BY DEF lmbVars, BufferInv, IsHistory, AddingType, LMB!KeepsLastMinute, GarbageWhileEmpty,
       PurgedBeforePush, NoneTooOld

\* Only a message of frequent data, an addition under way and the clock touch the buffer.
LEMMA NextBufferInv == BufferInv /\ [Next]_vars => BufferInv'
<1> SUFFICES ASSUME BufferInv, [Next]_vars PROVE BufferInv'
  OBVIOUS
<1>1. CASE Add
  BY <1>1, RemovePreserves, PushPreserves DEF Add
<1>2. CASE Tick
  BY <1>2, TickPreserves DEF Tick
<1>3. CASE ScanMessage
  BY <1>3, AddPreserves, BufferKept DEF ScanMessage, Deliver
<1>4. CASE ScanLoneSync \/ ScanUnfinished \/ ScanDone \/ HandleReadSerial \/ WriteText
  BY <1>4, BufferKept DEF ScanLoneSync, ScanUnfinished, ScanDone, HandleReadSerial, WriteText
<1>5. ASSUME NEW m \in Messages, Write(m) PROVE BufferInv'
  BY <1>5, BufferKept DEF Write
<1>6. ASSUME NEW k \in 1 .. Len(wire), ReadSome(k) PROVE BufferInv'
  BY <1>6, BufferKept DEF ReadSome
<1>7. CASE UNCHANGED vars
  BY <1>7, BufferKept DEF vars
<1>8. QED
  BY <1>1, <1>2, <1>3, <1>4, <1>5, <1>6, <1>7 DEF Next, Scan

\* Every state of the server satisfies the invariant.
LEMMA BufferInvariant == Spec => []BufferInv
<1>1. Init => BufferInv
  BY InitBufferInv DEF Init
<1>2. QED
  BY <1>1, NextBufferInv, PTL DEF Spec

(***************************************************************************)
(* No reading of the last minute is ever missing from what b prints, for   *)
(* every length of a minute and wherever seconds pass in an addition.      *)
(***************************************************************************)
THEOREM ParserKeepsLastMinute == Spec => []KeepsLastMinute
<1>1. BufferInv => KeepsLastMinute
  BY DEF BufferInv, KeepsLastMinute
<1>2. QED
  BY <1>1, BufferInvariant, PTL

(***************************************************************************)
(* The purge that is skipped, because the last entry was of this second,   *)
(* is never needed: not even when the garbage in lastTimeAddedEntry        *)
(* happens to be the current second.                                       *)
(***************************************************************************)
THEOREM ParserPurgedWhenAdded == Spec => []PurgedWhenAdded
<1>1. BufferInv => PurgedWhenAdded
  BY DEF BufferInv, GarbageWhileEmpty, NoneTooOld, PurgedWhenAdded, LMB!PurgedWhenAdded
<1>2. QED
  BY <1>1, BufferInvariant, PTL

(***************************************************************************)
(* Both hold for the buffer by itself, when additions of any readings come *)
(* at any times, and not only as the parser makes them.                    *)
(***************************************************************************)
THEOREM BufferAlone == LMB!BufferSpec => [](LMB!KeepsLastMinute /\ LMB!PurgedWhenAdded)
<1>1. LMB!InitBuffer => BufferInv
  BY InitBufferInv
<1>2. BufferInv /\ [LMB!BufferNext]_(LMB!bufferVars) => BufferInv'
  <2>1. UNCHANGED LMB!bufferVars => UNCHANGED lmbVars
    BY DEF LMB!bufferVars, lmbVars
  <2>2. QED
    BY <2>1, BufferKept, AddPreserves, RemovePreserves, PushPreserves, TickPreserves
       DEF LMB!BufferNext
<1>3. BufferInv => LMB!KeepsLastMinute /\ LMB!PurgedWhenAdded
  BY DEF BufferInv, GarbageWhileEmpty, NoneTooOld, LMB!PurgedWhenAdded
<1>4. QED
  BY <1>1, <1>2, <1>3, PTL DEF LMB!BufferSpec

----------------------------------------------------------------------------
(***************************************************************************)
(* The bytes on their way.  They are in four places: kept by the handler,  *)
(* in the line it goes through, in the stream buffer and on the wire.  Put *)
(* together they carry the messages not acted on yet, whole and in order.  *)
(***************************************************************************)

\* The sequence without its first elements.
Drop(s, d) == SubSeq(s, d + 1, Len(s))

\* What the handler has still to go through.
Unread ==
    unfinishedSerialString \o (Drop(line, offset) \o (serial_stm_buff \o wire))

\* The message m is in the bytes, behind the first "at" of them.
IsAt(bytes, m, at) ==
    at + Len(m) <= Len(bytes) /\ \A k \in 1 .. Len(m) : bytes[at + k] = m[k]

\* Byte p is one of a message m there.
Within(m, at, p) == at < p /\ p <= at + Len(m)

\* Each of the messages after the first "done" is there, one behind the other,
\* and a byte in none of them is no sync byte.
Placed(bytes, msgs, done, place) ==
    LET I == done + 1 .. Len(msgs) IN
      /\ \A i \in I : IsAt(bytes, msgs[i], place[i])
      /\ \A i, j \in I : i < j => place[i] + Len(msgs[i]) <= place[j]
      /\ \A p \in 1 .. Len(bytes) :
           bytes[p] = SyncByte => \E i \in I : Within(msgs[i], place[i], p)

(***************************************************************************)
(* The bytes are the messages of msgs after the first "done", whole and in *)
(* order, with text before, between and after them.                        *)
(***************************************************************************)
Carries(bytes, msgs, done) ==
    \E place \in [done + 1 .. Len(msgs) -> 0 .. Len(bytes)] : Placed(bytes, msgs, done, place)

\* The messages that are done with: acted on, or cut.
Done == Len(delivered) + cuts

\* What is acted on was sent, in order, and before what is still to come.
DeliveredInOrder ==
    /\ \E place \in [1 .. Len(delivered) -> 1 .. Done] :
         /\ \A i \in 1 .. Len(delivered) : delivered[i] = sent[place[i]]
         /\ \A i, j \in 1 .. Len(delivered) : i < j => place[i] < place[j]
    /\ cuts = 0 => \A i \in 1 .. Len(delivered) : delivered[i] = sent[i]

\* What is not done with is still to come, and is not lost.
StreamInv ==
    /\ wire \in Seq(Nat) /\ serial_stm_buff \in Seq(Nat)
    /\ unfinishedSerialString \in Seq(Nat) /\ line \in Seq(Nat) /\ offset \in Nat
    /\ sent \in Seq(Messages) /\ delivered \in Seq(Messages) /\ cuts \in Nat
    /\ Done \in Nat /\ Done <= Len(sent) /\ DeliveredInOrder
    /\ scanning \/ (line = <<>> /\ offset = 0)
    /\ scanning /\ unfinishedSerialString # <<>> => offset >= Len(line)
    /\ Carries(Unread, sent, Done)

\* The stream is intact until a message is cut, and after it if a sync byte only ever
\* starts a message.
ParserInv == cuts \in Nat /\ sent \in Seq(Messages) /\ (cuts = 0 \/ NoSyncInData => StreamInv)

\* The ids in a list are bytes.
LEMMA ListsAreBytes == \A s \in AscendingLists : s \in Seq(Nat)
<1> SUFFICES ASSUME NEW s \in AscendingLists PROVE s \in Seq(Nat)
  OBVIOUS
<1>1. NodeIds \subseteq Nat
  BY BytesAssumption
<1>2. PICK n \in 0 .. Cardinality(NodeIds) : s \in [1 .. n -> NodeIds]
  BY DEF AscendingLists, BoundedSeq, SeqOf
<1>3. n \in Nat
  OBVIOUS
<1>4. s \in Seq(NodeIds)
  BY <1>2, <1>3
<1>5. QED
  BY <1>1, <1>4, SeqMonotonic

\* A message starts with the sync byte; its kind, and its third byte if it is a list,
\* give its length.
LEMMA MessageShape ==
  ASSUME NEW m \in Messages
  PROVE  /\ m \in Seq(Nat) /\ Len(m) >= 2 /\ m[1] = SyncByte /\ m[2] \in {F, R, D, L}
         /\ m[2] = F \/ m[2] = R => Len(m) = 6
         /\ m[2] = D => Len(m) = 2
         /\ m[2] = L => Len(m) = 3 + m[3] /\ m[3] \in Nat
<1> USE DEF SyncByte, F, R, D, L
<1>1. CASE m \in FrequentData
  <2>1. PICK n \in NodeIds, b \in DataBytes : m = <<SyncByte, F, n, b, 0, b>>
    BY <1>1 DEF FrequentData
  <2>2. n \in Nat /\ b \in Nat
    BY BytesAssumption
  <2>3. QED
    BY <2>1, <2>2
<1>2. CASE m \in Responses
  <2>1. PICK b \in DataBytes : m = <<SyncByte, R, 0, 0, 0, b>>
    BY <1>2 DEF Responses
  <2>2. b \in Nat
    BY BytesAssumption
  <2>3. QED
    BY <2>1, <2>2
<1>3. CASE m \in Discovery
  <2>1. m = <<SyncByte, D>>
    BY <1>3 DEF Discovery
  <2>2. m \in Seq(Nat) /\ Len(m) = 2 /\ m[1] = 255 /\ m[2] = 68
    BY <2>1
  <2>3. QED
    BY <2>2
<1>4. CASE m \in NodeLists
  <2>1. PICK s \in AscendingLists : m = <<SyncByte, L, Len(s)>> \o s
    BY <1>4 DEF NodeLists
  <2>2. s \in Seq(Nat)
    BY ListsAreBytes
  <2>3. QED
    BY <2>1, <2>2
<1>5. QED
  BY <1>1, <1>2, <1>3, <1>4 DEF Messages

\* What dropping the first elements leaves.
LEMMA DropProperties ==
  ASSUME NEW s \in Seq(Nat), NEW d \in Nat
  PROVE  /\ Drop(s, d) \in Seq(Nat)
         /\ d <= Len(s) => Len(Drop(s, d)) = Len(s) - d
         /\ d >= Len(s) => Drop(s, d) = <<>>
         /\ \A k \in 1 .. Len(s) - d : Drop(s, d)[k] = s[d + k]
BY DEF Drop

\* Dropping from a concatenation what is in its first part.
LEMMA DropOfConcat ==
  ASSUME NEW s \in Seq(Nat), NEW t \in Seq(Nat), NEW d \in 0 .. Len(s)
  PROVE  Drop(s \o t, d) = Drop(s, d) \o t
<1> DEFINE st == s \o t
           ds == Drop(s, d)
<1>1. /\ st \in Seq(Nat) /\ Len(st) = Len(s) + Len(t)
      /\ \A k \in 1 .. Len(s) + Len(t) : st[k] = IF k <= Len(s) THEN s[k] ELSE t[k - Len(s)]
  OBVIOUS
<1>2. /\ ds \in Seq(Nat) /\ Len(ds) = Len(s) - d
      /\ \A k \in 1 .. Len(s) - d : ds[k] = s[d + k]
  BY DropProperties
<1>3. d \in Nat /\ d <= Len(s) + Len(t) /\ Len(s) \in Nat /\ Len(t) \in Nat /\ d <= Len(s)
  OBVIOUS
<1> HIDE DEF st, ds
<1>4. /\ Drop(st, d) \in Seq(Nat) /\ Len(Drop(st, d)) = Len(s) + Len(t) - d
      /\ \A k \in 1 .. Len(s) + Len(t) - d : Drop(st, d)[k] = st[d + k]
  <2>1. d <= Len(st) /\ Len(st) - d = Len(s) + Len(t) - d
    BY <1>1, <1>3
  <2>2. /\ Drop(st, d) \in Seq(Nat) /\ Len(Drop(st, d)) = Len(st) - d
        /\ \A k \in 1 .. Len(st) - d : Drop(st, d)[k] = st[d + k]
    BY <2>1, <1>1, <1>3, DropProperties
  <2>3. QED
    BY <2>1, <2>2
<1>5. /\ ds \o t \in Seq(Nat) /\ Len(ds \o t) = Len(ds) + Len(t)
      /\ \A k \in 1 .. Len(ds) + Len(t) :
           (ds \o t)[k] = IF k <= Len(ds) THEN ds[k] ELSE t[k - Len(ds)]
  BY <1>2, ConcatProperties
<1>6. ASSUME NEW k \in 1 .. Len(s) + Len(t) - d PROVE st[d + k] = (ds \o t)[k]
  <2>1. /\ d + k \in 1 .. Len(s) + Len(t) /\ k \in 1 .. Len(ds) + Len(t)
        /\ d + k <= Len(s) <=> k <= Len(ds)
        /\ k <= Len(ds) => k \in 1 .. Len(s) - d
        /\ d + k - Len(s) = k - Len(ds)
    BY <1>2, <1>3
  <2>2. CASE k <= Len(ds)
    BY <2>1, <2>2, <1>1, <1>2, <1>5
  <2>3. CASE ~(k <= Len(ds))
    <3>1. st[d + k] = t[d + k - Len(s)]
      <4>1. d + k \in 1 .. Len(s) + Len(t) /\ ~(d + k <= Len(s))
        BY <2>1, <2>3
      <4>2. \A i \in 1 .. Len(s) + Len(t) : ~(i <= Len(s)) => st[i] = t[i - Len(s)]
        BY <1>1
      <4>3. QED
        BY <4>1, <4>2
    <3>2. (ds \o t)[k] = t[k - Len(ds)]
      BY <2>1, <2>3, <1>5
    <3>3. QED
      BY <3>1, <3>2, <2>1
  <2>4. QED
    BY <2>2, <2>3
<1>7. Drop(st, d) = ds \o t
  <2>1. Len(ds \o t) = Len(s) + Len(t) - d
    BY <1>2, <1>3, <1>5
  <2>2. \A k \in 1 .. Len(s) + Len(t) - d : Drop(st, d)[k] = (ds \o t)[k]
    BY <1>4, <1>6
  <2>3. QED
    BY <2>1, <2>2, <1>4, <1>5, SeqEqual
<1>8. QED
  BY <1>7 DEF st, ds

\* Dropping twice.
LEMMA DropTwice ==
  ASSUME NEW s \in Seq(Nat), NEW c \in Nat, NEW d \in Nat, c + d <= Len(s)
  PROVE  Drop(Drop(s, c), d) = Drop(s, c + d)
<1> DEFINE cs == Drop(s, c)
           ds == Drop(s, c + d)
<1>1. Len(s) \in Nat /\ c <= Len(s) /\ c + d \in Nat /\ d <= Len(s) - c
  OBVIOUS
<1>2. /\ cs \in Seq(Nat) /\ Len(cs) = Len(s) - c
      /\ \A k \in 1 .. Len(s) - c : cs[k] = s[c + k]
  BY <1>1, DropProperties
<1>3. /\ ds \in Seq(Nat) /\ Len(ds) = Len(s) - (c + d)
      /\ \A k \in 1 .. Len(s) - (c + d) : ds[k] = s[c + d + k]
  BY <1>1, DropProperties
<1> HIDE DEF cs, ds
<1>4. /\ Drop(cs, d) \in Seq(Nat) /\ Len(Drop(cs, d)) = Len(cs) - d
      /\ \A k \in 1 .. Len(cs) - d : Drop(cs, d)[k] = cs[d + k]
  BY <1>1, <1>2, DropProperties
<1>5. ASSUME NEW k \in 1 .. Len(cs) - d PROVE cs[d + k] = s[c + d + k]
  <2>1. d + k \in 1 .. Len(s) - c /\ c + (d + k) = c + d + k
    BY <1>1, <1>2
  <2>2. QED
    BY <2>1, <1>2
<1>6. Drop(cs, d) = ds
  <2>1. Len(Drop(cs, d)) = Len(ds) /\ Len(cs) - d = Len(ds)
    BY <1>1, <1>2, <1>3, <1>4
  <2>2. \A k \in 1 .. Len(ds) : Drop(cs, d)[k] = ds[k]
    BY <2>1, <1>1, <1>2, <1>3, <1>4, <1>5
  <2>3. QED
    BY <2>1, <2>2, <1>3, <1>4, SeqEqual
<1>7. QED
  BY <1>6 DEF cs, ds

----------------------------------------------------------------------------
\* What is known of a message that is waiting.
LEMMA MessageOf ==
  ASSUME NEW msgs \in Seq(Messages), NEW i \in 1 .. Len(msgs)
  PROVE  /\ msgs[i] \in Messages /\ msgs[i] \in Seq(Nat) /\ Len(msgs[i]) \in Nat
         /\ Len(msgs[i]) >= 2 /\ msgs[i][1] = SyncByte
<1>1. msgs[i] \in Messages
  BY ElementOfSeq
<1>2. QED
  BY <1>1, MessageShape, LenProperties

\* The place of a message after bytes before it were dropped,
LEMMA IsAtDropped ==
  ASSUME NEW bytes \in Seq(Nat), NEW m \in Seq(Nat), NEW at \in Nat, NEW d \in Nat,
         d <= at, IsAt(bytes, m, at)
  PROVE  at - d \in 0 .. Len(Drop(bytes, d)) /\ IsAt(Drop(bytes, d), m, at - d)
<1>1. /\ Len(bytes) \in Nat /\ Len(m) \in Nat /\ at + Len(m) <= Len(bytes)
      /\ d <= Len(bytes)
  BY LenProperties DEF IsAt
<1>2. /\ Len(Drop(bytes, d)) = Len(bytes) - d
      /\ \A k \in 1 .. Len(bytes) - d : Drop(bytes, d)[k] = bytes[d + k]
  BY <1>1, DropProperties
<1>3. at - d \in 0 .. Len(bytes) - d /\ at - d + Len(m) <= Len(bytes) - d
  BY <1>1
<1>4. ASSUME NEW k \in 1 .. Len(m) PROVE Drop(bytes, d)[at - d + k] = m[k]
  <2>1. at - d + k \in 1 .. Len(bytes) - d /\ d + (at - d + k) = at + k
    BY <1>1
  <2>2. Drop(bytes, d)[at - d + k] = bytes[at + k]
    BY <2>1, <1>2
  <2>3. QED
    BY <2>2 DEF IsAt
<1>5. QED
  BY <1>2, <1>3, <1>4 DEF IsAt

\* after bytes came behind it,
LEMMA IsAtExtended ==
  ASSUME NEW bytes \in Seq(Nat), NEW m \in Seq(Nat), NEW at \in Nat, NEW t \in Seq(Nat),
         IsAt(bytes, m, at)
  PROVE  IsAt(bytes \o t, m, at)
<1>1. Len(bytes) \in Nat /\ Len(m) \in Nat /\ Len(t) \in Nat /\ at + Len(m) <= Len(bytes)
  BY LenProperties DEF IsAt
<1>2. /\ Len(bytes \o t) = Len(bytes) + Len(t)
      /\ \A k \in 1 .. Len(bytes) : (bytes \o t)[k] = bytes[k]
  OBVIOUS
<1>3. \A k \in 1 .. Len(m) : at + k \in 1 .. Len(bytes)
  BY <1>1
<1>4. at + Len(m) <= Len(bytes) + Len(t)
  BY <1>1
<1>5. QED
  BY <1>2, <1>3, <1>4 DEF IsAt

\* and when it is itself put behind them.
LEMMA IsAtEnd ==
  ASSUME NEW bytes \in Seq(Nat), NEW m \in Seq(Nat)
  PROVE  IsAt(bytes \o m, m, Len(bytes))
<1>1. /\ Len(bytes \o m) = Len(bytes) + Len(m)
      /\ \A k \in 1 .. Len(m) : (bytes \o m)[Len(bytes) + k] = m[k]
  OBVIOUS
<1>2. Len(bytes) + Len(m) <= Len(bytes) + Len(m)
  BY LenProperties
<1>3. QED
  BY <1>1, <1>2 DEF IsAt

----------------------------------------------------------------------------
\* The places of the messages that wait.
LEMMA PlacesOf ==
  ASSUME NEW bytes \in Seq(Nat), NEW msgs \in Seq(Messages), NEW done \in Nat,
         NEW place \in [done + 1 .. Len(msgs) -> 0 .. Len(bytes)],
         Placed(bytes, msgs, done, place), NEW i \in done + 1 .. Len(msgs)
  PROVE  /\ i \in 1 .. Len(msgs) /\ place[i] \in Nat
         /\ msgs[i] \in Seq(Nat) /\ Len(msgs[i]) \in Nat /\ Len(msgs[i]) >= 2
         /\ IsAt(bytes, msgs[i], place[i]) /\ bytes[place[i] + 1] = SyncByte
<1>1. Len(msgs) \in Nat /\ Len(bytes) \in Nat
  BY LenProperties
<1>2. i \in 1 .. Len(msgs) /\ place[i] \in 0 .. Len(bytes) /\ place[i] \in Nat
  BY <1>1
<1>3. IsAt(bytes, msgs[i], place[i])
  BY DEF Placed
<1>4. /\ msgs[i] \in Seq(Nat) /\ Len(msgs[i]) \in Nat /\ Len(msgs[i]) >= 2
      /\ msgs[i][1] = SyncByte
  BY <1>2, MessageOf
<1>5. bytes[place[i] + 1] = SyncByte
  <2>1. 1 \in 1 .. Len(msgs[i])
    BY <1>4
  <2>2. QED
    BY <2>1, <1>3, <1>4 DEF IsAt
<1>6. QED
  BY <1>2, <1>3, <1>4, <1>5

\* Dropping bytes that are in none of the messages that stay.
LEMMA BytesDropped ==
  ASSUME NEW bytes \in Seq(Nat), NEW msgs \in Seq(Messages), NEW done \in Nat,
         NEW place \in [done + 1 .. Len(msgs) -> 0 .. Len(bytes)],
         Placed(bytes, msgs, done, place),
         NEW d \in 0 .. Len(bytes), NEW next \in Nat, next >= done,
         \A i \in next + 1 .. Len(msgs) : d <= place[i],
         \A p \in d + 1 .. Len(bytes) : bytes[p] = SyncByte =>
            \E i \in next + 1 .. Len(msgs) : Within(msgs[i], place[i], p)
  PROVE  Carries(Drop(bytes, d), msgs, next)
<1> DEFINE J == next + 1 .. Len(msgs)
           rest == Drop(bytes, d)
           moved == [i \in J |-> place[i] - d]
<1>1. /\ Len(bytes) \in Nat /\ Len(msgs) \in Nat /\ d \in Nat /\ d <= Len(bytes)
      /\ J \subseteq done + 1 .. Len(msgs)
  BY LenProperties
<1>2. /\ rest \in Seq(Nat) /\ Len(rest) = Len(bytes) - d
      /\ \A k \in 1 .. Len(bytes) - d : rest[k] = bytes[d + k]
  BY <1>1, DropProperties
<1>3. ASSUME NEW i \in J
      PROVE  /\ place[i] \in Nat /\ msgs[i] \in Seq(Nat) /\ Len(msgs[i]) \in Nat
             /\ IsAt(bytes, msgs[i], place[i])
  BY <1>1, PlacesOf
<1>4. ASSUME NEW i \in J
      PROVE  place[i] - d \in 0 .. Len(rest) /\ IsAt(rest, msgs[i], place[i] - d)
  BY <1>1, <1>3, IsAtDropped
<1>5. moved \in [J -> 0 .. Len(rest)] /\ \A i \in J : moved[i] = place[i] - d
  BY <1>4
<1> HIDE DEF rest, moved
<1>6. ASSUME NEW i \in J PROVE IsAt(rest, msgs[i], moved[i])
  BY <1>4, <1>5
<1>7. ASSUME NEW i \in J, NEW j \in J, i < j
      PROVE  moved[i] + Len(msgs[i]) <= moved[j]
  <2>1. place[i] + Len(msgs[i]) <= place[j]
    BY <1>1, <1>7 DEF Placed
  <2>2. moved[i] = place[i] - d /\ moved[j] = place[j] - d
    BY <1>5
  <2>3. place[i] \in Nat /\ place[j] \in Nat /\ Len(msgs[i]) \in Nat
    BY <1>3
  <2>4. QED
    BY <2>1, <2>2, <2>3, <1>1
<1>8. ASSUME NEW p \in 1 .. Len(rest), rest[p] = SyncByte
      PROVE  \E i \in J : Within(msgs[i], moved[i], p)
  <2>1. d + p \in d + 1 .. Len(bytes) /\ p \in 1 .. Len(bytes) - d
    BY <1>1, <1>2, SMTT(30)
  <2>2. bytes[d + p] = SyncByte
    BY <2>1, <1>2, <1>8
  <2>3. PICK i \in J : Within(msgs[i], place[i], d + p)
    BY <2>1, <2>2
  <2>4. Within(msgs[i], place[i] - d, p)
    BY <2>3, <1>1, <1>3, SMTT(30) DEF Within
  <2>5. QED
    BY <2>4, <1>5
<1>9. Placed(rest, msgs, next, moved)
  BY <1>6, <1>7, <1>8 DEF Placed
<1>10. QED
  BY <1>5, <1>9 DEF Carries, rest

\* Bytes without a sync byte can be dropped.
LEMMA TextDropped ==
  ASSUME NEW bytes \in Seq(Nat), NEW msgs \in Seq(Messages), NEW done \in Nat,
         Carries(bytes, msgs, done),
         NEW d \in 0 .. Len(bytes), \A p \in 1 .. d : bytes[p] # SyncByte
  PROVE  Carries(Drop(bytes, d), msgs, done)
<1>1. PICK place \in [done + 1 .. Len(msgs) -> 0 .. Len(bytes)] :
         Placed(bytes, msgs, done, place)
  BY DEF Carries
<1>2. ASSUME NEW i \in done + 1 .. Len(msgs) PROVE d <= place[i]
  <2>1. place[i] \in Nat /\ bytes[place[i] + 1] = SyncByte
    BY <1>1, PlacesOf
  <2>2. place[i] + 1 \notin 1 .. d
    BY <2>1
  <2>3. QED
    BY <2>1, <2>2
<1>3. \A p \in d + 1 .. Len(bytes) : bytes[p] = SyncByte =>
        \E i \in done + 1 .. Len(msgs) : Within(msgs[i], place[i], p)
  <2>1. \A p \in d + 1 .. Len(bytes) : p \in 1 .. Len(bytes)
    BY LenProperties
  <2>2. QED
    BY <2>1, <1>1 DEF Placed
<1>4. done >= done
  OBVIOUS
<1>5. QED
  BY <1>1, <1>2, <1>3, <1>4, BytesDropped

\* If the first byte is a sync byte, it starts the first message that waits.
LEMMA MessageFirst ==
  ASSUME NEW bytes \in Seq(Nat), NEW msgs \in Seq(Messages), NEW done \in Nat,
         Carries(bytes, msgs, done), bytes # <<>>, bytes[1] = SyncByte
  PROVE  /\ done + 1 <= Len(msgs) /\ IsAt(bytes, msgs[done + 1], 0)
         /\ \A d \in 1 .. Len(msgs[done + 1]) :
              (\A p \in d + 1 .. Len(msgs[done + 1]) : bytes[p] # SyncByte)
              => Carries(Drop(bytes, d), msgs, done + 1)
<1> DEFINE first == done + 1
           size == Len(msgs[first])
<1>1. PICK place \in [first .. Len(msgs) -> 0 .. Len(bytes)] :
         Placed(bytes, msgs, done, place)
  BY DEF Carries
<1>2. Len(bytes) \in Nat /\ Len(msgs) \in Nat /\ 1 \in 1 .. Len(bytes)
  BY LenProperties
<1>3. PICK h \in first .. Len(msgs) : Within(msgs[h], place[h], 1)
  BY <1>1, <1>2 DEF Placed
<1>4. first \in first .. Len(msgs) /\ first <= h
  BY <1>2
<1>5. /\ place[h] = 0
      /\ place[first] \in Nat /\ size \in Nat /\ size >= 2
      /\ IsAt(bytes, msgs[first], place[first])
  <2>1. place[h] \in Nat /\ place[h] < 1
    BY <1>1, <1>3, PlacesOf DEF Within
  <2>2. /\ place[first] \in Nat /\ size \in Nat /\ size >= 2
        /\ IsAt(bytes, msgs[first], place[first])
    BY <1>1, <1>4, PlacesOf
  <2>3. QED
    BY <2>1, <2>2
<1>6. place[first] = 0
  <2>1. first < h => place[first] + size <= place[h]
    BY <1>1, <1>4 DEF Placed
  <2>2. ~(first < h)
    BY <2>1, <1>5
  <2>3. first = h
    BY <2>2, <1>4
  <2>4. QED
    BY <2>3, <1>5
<1>7. size <= Len(bytes) /\ IsAt(bytes, msgs[first], 0)
  <2>1. IsAt(bytes, msgs[first], 0)
    BY <1>5, <1>6, Zenon
  <2>2. 0 + size <= Len(bytes)
    BY <2>1, Zenon DEF IsAt
  <2>3. QED
    BY <2>1, <2>2, <1>2, <1>5
<1>8. ASSUME NEW d \in 1 .. size, \A p \in d + 1 .. size : bytes[p] # SyncByte
      PROVE  Carries(Drop(bytes, d), msgs, first)
  <2>1. d \in Nat /\ d <= size /\ d \in 0 .. Len(bytes)
    BY <1>2, <1>5, <1>7
  <2>2. ASSUME NEW i \in first + 1 .. Len(msgs) PROVE d <= place[i]
    <3>1. i \in first .. Len(msgs) /\ first < i
      BY <1>2
    <3>2. place[first] + size <= place[i]
      BY <3>1, <1>1, <1>4 DEF Placed
    <3>3. place[i] \in Nat
      BY <3>1, <1>1, PlacesOf
    <3>4. QED
      BY <3>2, <3>3, <2>1, <1>5, <1>6
  <2>3. ASSUME NEW p \in d + 1 .. Len(bytes), bytes[p] = SyncByte
        PROVE  \E i \in first + 1 .. Len(msgs) : Within(msgs[i], place[i], p)
    <3>1. p \in 1 .. Len(bytes)
      BY <2>1, <1>2
    <3>2. PICK i \in first .. Len(msgs) : Within(msgs[i], place[i], p)
      BY <3>1, <2>3, <1>1 DEF Placed
    <3>3. p \notin d + 1 .. size
      BY <2>3, <1>8
    <3>4. ~(p <= size)
      BY <3>3, <3>1, <2>1, <1>5
    <3>5. i # first
      BY <3>2, <3>4, <1>5, <1>6 DEF Within
    <3>6. i \in first + 1 .. Len(msgs)
      BY <3>5, <1>2
    <3>7. QED
      BY <3>2, <3>6
  <2>4. first \in Nat /\ first >= done
    OBVIOUS
  <2> HIDE DEF first
  <2>5. QED
    BY <2>1, <2>2, <2>3, <2>4, <1>1, BytesDropped DEF first
<1>9. QED
  BY <1>2, <1>4, <1>7, <1>8

\* Bytes that are added at the end: a message that is then the last, or none.
LEMMA BytesAdded ==
  ASSUME NEW bytes \in Seq(Nat), NEW msgs \in Seq(Messages), NEW done \in Nat,
         Carries(bytes, msgs, done), NEW t \in Seq(Nat)
  PROVE  /\ (\A p \in 1 .. Len(t) : t[p] # SyncByte) => Carries(bytes \o t, msgs, done)
         /\ t \in Messages /\ done <= Len(msgs) => Carries(bytes \o t, Append(msgs, t), done)
<1> DEFINE I == done + 1 .. Len(msgs)
           n == Len(msgs) + 1
           more == bytes \o t
           all == Append(msgs, t)
<1>1. PICK place \in [I -> 0 .. Len(bytes)] : Placed(bytes, msgs, done, place)
  BY DEF Carries
<1>2. Len(bytes) \in Nat /\ Len(msgs) \in Nat /\ Len(t) \in Nat
  BY LenProperties
<1>3. /\ more \in Seq(Nat) /\ Len(more) = Len(bytes) + Len(t)
      /\ \A k \in 1 .. Len(bytes) : more[k] = bytes[k]
      /\ \A k \in 1 .. Len(t) : more[Len(bytes) + k] = t[k]
  OBVIOUS
<1>4. ASSUME NEW i \in I
      PROVE  /\ i \in 1 .. Len(msgs) /\ place[i] \in Nat
             /\ place[i] \in 0 .. Len(more) /\ IsAt(more, msgs[i], place[i])
             /\ Len(msgs[i]) \in Nat /\ place[i] + Len(msgs[i]) <= Len(bytes)
  <2>1. /\ i \in 1 .. Len(msgs) /\ place[i] \in Nat /\ msgs[i] \in Seq(Nat)
        /\ Len(msgs[i]) \in Nat /\ IsAt(bytes, msgs[i], place[i])
    BY <1>1, PlacesOf
  <2>2. IsAt(more, msgs[i], place[i])
    BY <2>1, IsAtExtended
  <2>3. place[i] + Len(msgs[i]) <= Len(bytes)
    BY <2>1 DEF IsAt
  <2>4. place[i] \in 0 .. Len(more)
    BY <2>1, <2>3, <1>2, <1>3
  <2>5. QED
    BY <2>1, <2>2, <2>3, <2>4
<1>5. ASSUME NEW p \in 1 .. Len(more)
      PROVE  \/ p \in 1 .. Len(bytes) /\ more[p] = bytes[p]
             \/ \E k \in 1 .. Len(t) : p = Len(bytes) + k /\ more[p] = t[k]
  <2>1. CASE p <= Len(bytes)
    BY <2>1, <1>2, <1>3
  <2>2. CASE p > Len(bytes)
    <3>1. p - Len(bytes) \in 1 .. Len(t) /\ p = Len(bytes) + (p - Len(bytes))
      BY <2>2, <1>2, <1>3
    <3>2. QED
      BY <3>1, <1>3
  <2>3. QED
    BY <2>1, <2>2, <1>2, <1>3
<1>6. ASSUME NEW p \in 1 .. Len(bytes), bytes[p] = SyncByte
      PROVE  \E i \in I : Within(msgs[i], place[i], p)
  BY <1>6, <1>1 DEF Placed
<1>7. \A i, j \in I : i < j => place[i] + Len(msgs[i]) <= place[j]
  BY <1>1 DEF Placed
<1>8. ASSUME \A p \in 1 .. Len(t) : t[p] # SyncByte
      PROVE  Carries(more, msgs, done)
  <2> HIDE DEF more
  <2>1. place \in [I -> 0 .. Len(more)]
    BY <1>4
  <2>2. \A p \in 1 .. Len(more) :
          more[p] = SyncByte => \E i \in I : Within(msgs[i], place[i], p)
    BY <1>5, <1>6, <1>8
  <2>3. Placed(more, msgs, done, place)
    BY <2>2, <1>4, <1>7 DEF Placed
  <2>4. QED
    BY <2>1, <2>3 DEF Carries
<1>9. ASSUME t \in Messages, done <= Len(msgs)
      PROVE  Carries(more, all, done)
  <2> DEFINE longer == [i \in done + 1 .. n |-> IF i = n THEN Len(bytes) ELSE place[i]]
  <2>1. /\ Len(all) = n /\ all[n] = t
        /\ \A i \in 1 .. Len(msgs) : all[i] = msgs[i]
    BY <1>9, AppendProperties
  <2>2. /\ \A i \in I : i \in done + 1 .. n /\ i # n /\ longer[i] = place[i]
        /\ n \in done + 1 .. n /\ longer[n] = Len(bytes)
        /\ \A i \in done + 1 .. n : i = n \/ i \in I
    BY <1>2, <1>9
  <2>3. Len(bytes) \in 0 .. Len(more) /\ IsAt(more, t, Len(bytes))
    BY <1>2, <1>3, IsAtEnd
  <2>4. longer \in [done + 1 .. n -> 0 .. Len(more)]
    BY <2>2, <2>3, <1>4
  <2> HIDE DEF more, all, longer
  <2>5. \A i \in I : all[i] = msgs[i] /\ Len(all[i]) = Len(msgs[i])
    BY <2>1, <1>4
  <2>6. ASSUME NEW i \in done + 1 .. n PROVE IsAt(more, all[i], longer[i])
    BY <2>1, <2>2, <2>3, <2>5, <1>4
  <2>7. ASSUME NEW i \in done + 1 .. n, NEW j \in done + 1 .. n, i < j
        PROVE  longer[i] + Len(all[i]) <= longer[j]
    <3>1. i \in I
      BY <2>7, <1>2
    <3>2. CASE j = n
      BY <3>1, <3>2, <2>2, <2>5, <1>4
    <3>3. CASE j \in I
      BY <3>1, <3>3, <2>2, <2>5, <2>7, <1>7
    <3>4. QED
      BY <3>2, <3>3, <2>2
  <2>8. ASSUME NEW p \in 1 .. Len(more), more[p] = SyncByte
        PROVE  \E i \in done + 1 .. n : Within(all[i], longer[i], p)
    <3>1. CASE p \in 1 .. Len(bytes) /\ more[p] = bytes[p]
      <4>1. PICK i \in I : Within(msgs[i], place[i], p)
        BY <3>1, <2>8, <1>6
      <4>2. QED
        BY <4>1, <2>2, <2>5
    <3>2. ASSUME NEW k \in 1 .. Len(t), p = Len(bytes) + k
          PROVE  Within(all[n], longer[n], p)
      <4>1. Len(bytes) < p /\ p <= Len(bytes) + Len(t)
        BY <3>2, <1>2
      <4>2. QED
        BY <4>1, <2>1, <2>2 DEF Within
    <3>3. QED
      BY <3>1, <3>2, <2>2, <1>5
  <2>9. Placed(more, all, done, longer)
    BY <2>1, <2>6, <2>7, <2>8 DEF Placed
  <2>10. QED
    BY <2>1, <2>4, <2>9 DEF Carries
<1>10. QED
  BY <1>8, <1>9

----------------------------------------------------------------------------
\* A set of natural numbers that is not empty has a least element.
LEMMA LeastElement ==
  ASSUME NEW T \in SUBSET Nat, T # {}
  PROVE  \E x \in T : \A y \in T : x <= y
<1> DEFINE Less == OpToRel(<, Nat)
<1>1. IsWellFoundedOn(Less, Nat)
  BY NatLessThanWellFounded
<1>2. \A x, y \in Nat : y < x => <<y, x>> \in Less
  BY DEF OpToRel
<1> HIDE DEF Less
<1>3. PICK x \in T : \A y \in T : ~(<<y, x>> \in Less)
  BY <1>1, WFMin
<1>4. ASSUME NEW y \in T PROVE x <= y
  <2>1. x \in Nat /\ y \in Nat
    OBVIOUS
  <2>2. ~(y < x)
    BY <2>1, <1>2, <1>3
  <2>3. QED
    BY <2>1, <2>2
<1>5. QED
  BY <1>4

\* The handler finds the first sync byte that it has not gone past.
LEMMA SyncByteFound ==
  ASSUME line \in Seq(Nat), offset \in Nat, SyncPositions # {}
  PROVE  /\ SyncBytePos \in offset + 1 .. Len(line) /\ line[SyncBytePos] = SyncByte
         /\ \A i \in offset + 1 .. SyncBytePos - 1 : line[i] # SyncByte
<1>1. SyncPositions \subseteq Nat /\ Len(line) \in Nat
  BY LenProperties DEF SyncPositions
<1>2. \E x \in SyncPositions : \A y \in SyncPositions : x <= y
  BY <1>1, LeastElement
<1>3. SyncBytePos \in SyncPositions /\ \A y \in SyncPositions : SyncBytePos <= y
  BY <1>2 DEF SyncBytePos
<1>4. SyncBytePos \in offset + 1 .. Len(line) /\ line[SyncBytePos] = SyncByte
  BY <1>3 DEF SyncPositions
<1>5. ASSUME NEW i \in offset + 1 .. SyncBytePos - 1 PROVE line[i] # SyncByte
  <2>1. i \in offset + 1 .. Len(line) /\ ~(SyncBytePos <= i)
    BY <1>1, <1>4
  <2>2. i \notin SyncPositions
    BY <2>1, <1>3
  <2>3. QED
    BY <2>1, <2>2 DEF SyncPositions
<1>6. QED
  BY <1>4, <1>5

\* What was done with stays as it was when more is sent,
LEMMA SentStays ==
  ASSUME StreamInv, UNCHANGED <<delivered, cuts>>, \A i \in 1 .. Done : sent'[i] = sent[i]
  PROVE  Done' = Done /\ DeliveredInOrder'
<1>1. Done' = Done
  BY DEF Done
<1>2. /\ cuts \in Nat /\ Len(delivered) \in Nat
      /\ \A i \in 1 .. Len(delivered) : i \in 1 .. Done
  BY LenProperties DEF StreamInv, Done
<1>3. PICK place \in [1 .. Len(delivered) -> 1 .. Done] :
         /\ \A i \in 1 .. Len(delivered) : delivered[i] = sent[place[i]]
         /\ \A i, j \in 1 .. Len(delivered) : i < j => place[i] < place[j]
  BY DEF StreamInv, DeliveredInOrder
<1>4. \A i \in 1 .. Len(delivered) : delivered[i] = sent'[place[i]]
  BY <1>3
<1>5. cuts = 0 => \A i \in 1 .. Len(delivered) : delivered[i] = sent'[i]
  BY <1>2 DEF StreamInv, DeliveredInOrder
<1>6. QED
  BY <1>1, <1>3, <1>4, <1>5 DEF DeliveredInOrder

\* when a message is cut,
LEMMA CutInOrder ==
  ASSUME StreamInv, UNCHANGED <<sent, delivered>>, cuts' = cuts + 1
  PROVE  Done' = Done + 1 /\ DeliveredInOrder'
<1>1. cuts \in Nat /\ Len(delivered) \in Nat
  BY LenProperties DEF StreamInv
<1>2. Done' = Done + 1 /\ Done \in Nat /\ cuts' # 0
  BY <1>1 DEF Done
<1>3. PICK place \in [1 .. Len(delivered) -> 1 .. Done] :
         /\ \A i \in 1 .. Len(delivered) : delivered[i] = sent[place[i]]
         /\ \A i, j \in 1 .. Len(delivered) : i < j => place[i] < place[j]
  BY DEF StreamInv, DeliveredInOrder
<1>4. place \in [1 .. Len(delivered) -> 1 .. Done + 1]
  BY <1>2, <1>3
<1>5. QED
  BY <1>2, <1>3, <1>4 DEF DeliveredInOrder

\* and when the next message is acted on.
LEMMA NextInOrder ==
  ASSUME StreamInv, UNCHANGED <<sent, cuts>>, sent[Done + 1] \in Messages,
         delivered' = Append(delivered, sent[Done + 1])
  PROVE  /\ Done' = Done + 1 /\ DeliveredInOrder' /\ delivered' \in Seq(Messages)
<1> DEFINE n == Len(delivered) + 1
<1>1. cuts \in Nat /\ Len(delivered) \in Nat /\ Done \in Nat
  BY LenProperties DEF StreamInv
<1>2. /\ delivered' \in Seq(Messages) /\ Len(delivered') = n
      /\ \A i \in 1 .. Len(delivered) : delivered'[i] = delivered[i]
      /\ delivered'[n] = sent[Done + 1]
  BY AppendProperties DEF StreamInv
<1>3. /\ Done' = Done + 1 /\ (cuts = 0 => Done + 1 = n)
      /\ \A i \in 1 .. n : i = n \/ i \in 1 .. Len(delivered)
      /\ \A i \in 1 .. Len(delivered) : i < n
      /\ n \in 1 .. n
  BY <1>1, <1>2 DEF Done
<1>4. PICK place \in [1 .. Len(delivered) -> 1 .. Done] :
         /\ \A i \in 1 .. Len(delivered) : delivered[i] = sent[place[i]]
         /\ \A i, j \in 1 .. Len(delivered) : i < j => place[i] < place[j]
  BY DEF StreamInv, DeliveredInOrder
<1> DEFINE longer == [i \in 1 .. n |-> IF i = n THEN Done + 1 ELSE place[i]]
<1>5. /\ longer[n] = Done + 1
      /\ \A i \in 1 .. Len(delivered) : i \in 1 .. n /\ longer[i] = place[i]
  BY <1>1, <1>3
<1>6. longer \in [1 .. n -> 1 .. Done + 1]
  BY <1>1, <1>3, <1>4
<1> HIDE DEF longer, n
<1>7. \A i \in 1 .. n : delivered'[i] = sent[longer[i]]
  BY <1>2, <1>3, <1>4, <1>5
<1>8. ASSUME NEW i \in 1 .. n, NEW j \in 1 .. n, i < j PROVE longer[i] < longer[j]
  <2>1. i \in 1 .. Len(delivered)
    BY <1>8, <1>1 DEF n
  <2>2. longer[i] = place[i] /\ place[i] \in 1 .. Done
    BY <2>1, <1>4, <1>5
  <2>3. CASE j = n
    BY <2>2, <2>3, <1>1, <1>5
  <2>4. CASE j \in 1 .. Len(delivered)
    BY <2>1, <2>4, <1>4, <1>5, <1>8
  <2>5. QED
    BY <2>3, <2>4, <1>3
<1>9. cuts = 0 => \A i \in 1 .. n : delivered'[i] = sent[i]
  BY <1>2, <1>3 DEF StreamInv, DeliveredInOrder
<1>10. DeliveredInOrder'
  <2>1. /\ longer \in [1 .. Len(delivered') -> 1 .. Done']
        /\ \A i \in 1 .. Len(delivered') : delivered'[i] = sent'[longer[i]]
        /\ cuts' = 0 => \A i \in 1 .. Len(delivered') : delivered'[i] = sent'[i]
    BY <1>2, <1>3, <1>6, <1>7, <1>9
  <2>2. \A i, j \in 1 .. Len(delivered') : i < j => longer[i] < longer[j]
    BY <1>2, <1>8
  <2>3. QED
    BY <2>1, <2>2, Zenon DEF DeliveredInOrder
<1>11. QED
  BY <1>2, <1>3, <1>10

\* At a sync byte, what is still to go through can be taken to start there.
LEMMA AtSyncByte ==
  ASSUME StreamInv, scanning, SyncPositions # {}
  PROVE  /\ unfinishedSerialString = <<>>
         /\ Rest = Drop(line, SyncBytePos - 1) /\ Rest \in Seq(Nat)
         /\ SyncBytePos - 1 \in Nat /\ SyncBytePos <= Len(line)
         /\ Len(Rest) = Len(line) - (SyncBytePos - 1)
         /\ Rest # <<>> /\ Rest[1] = SyncByte
         /\ Carries(Rest \o (serial_stm_buff \o wire), sent, Done)
<1> DEFINE ahead == serial_stm_buff \o wire
           from == Drop(line, offset)
           d == SyncBytePos - 1 - offset
<1>1. /\ line \in Seq(Nat) /\ offset \in Nat /\ ahead \in Seq(Nat) /\ Len(line) \in Nat
      /\ sent \in Seq(Messages) /\ Done \in Nat
  BY LenProperties DEF StreamInv
<1>2. /\ SyncBytePos \in offset + 1 .. Len(line) /\ line[SyncBytePos] = SyncByte
      /\ \A i \in offset + 1 .. SyncBytePos - 1 : line[i] # SyncByte
  BY <1>1, SyncByteFound
<1>3. unfinishedSerialString = <<>>
  BY <1>1, <1>2 DEF StreamInv
<1>4. /\ SyncBytePos - 1 \in Nat /\ SyncBytePos <= Len(line) /\ d \in Nat
      /\ offset + d = SyncBytePos - 1 /\ offset + d <= Len(line) /\ offset <= Len(line)
      /\ d <= Len(line) - offset /\ SyncBytePos \in Nat
  BY <1>1, <1>2
<1>5. /\ Rest = Drop(line, SyncBytePos - 1) /\ Rest \in Seq(Nat)
      /\ Len(Rest) = Len(line) - (SyncBytePos - 1)
      /\ Rest # <<>> /\ Rest[1] = SyncByte
  <2>1. Rest = Drop(line, SyncBytePos - 1)
    BY <1>4 DEF Rest, Drop
  <2>2. /\ Rest \in Seq(Nat) /\ Len(Rest) = Len(line) - (SyncBytePos - 1)
        /\ \A k \in 1 .. Len(line) - (SyncBytePos - 1) : Rest[k] = line[SyncBytePos - 1 + k]
    BY <2>1, <1>1, <1>4, DropProperties
  <2>3. 1 \in 1 .. Len(line) - (SyncBytePos - 1)
    BY <1>1, <1>4
  <2>4. Rest[1] = SyncByte
    BY <2>2, <2>3, <1>2, <1>4
  <2>5. Rest # <<>>
    BY <2>2, <2>3
  <2>6. QED
    BY <2>1, <2>2, <2>4, <2>5
<1>6. /\ from \in Seq(Nat) /\ Len(from) = Len(line) - offset
      /\ \A k \in 1 .. Len(line) - offset : from[k] = line[offset + k]
  BY <1>1, <1>4, DropProperties
<1>7. Carries(from \o ahead, sent, Done)
  <2>1. Unread = from \o ahead
    BY <1>1, <1>3, <1>6, ConcatEmptySeq, ConcatProperties DEF Unread
  <2>2. QED
    BY <2>1 DEF StreamInv
<1>8. \A p \in 1 .. d : (from \o ahead)[p] # SyncByte
  <2> SUFFICES ASSUME NEW p \in 1 .. d PROVE (from \o ahead)[p] # SyncByte
    OBVIOUS
  <2>1. p \in 1 .. Len(line) - offset /\ offset + p \in offset + 1 .. SyncBytePos - 1
    BY <1>1, <1>4
  <2>2. p \in 1 .. Len(from)
    BY <2>1, <1>6
  <2>3. (from \o ahead)[p] = from[p]
    BY <2>2, <1>1, <1>6, ConcatProperties
  <2>4. QED
    BY <2>1, <2>3, <1>2, <1>6
<1>9. Drop(from \o ahead, d) = Rest \o ahead
  <2>1. d \in 0 .. Len(from)
    BY <1>1, <1>4, <1>6
  <2>2. Drop(from \o ahead, d) = Drop(from, d) \o ahead
    BY <2>1, <1>1, <1>6, DropOfConcat
  <2>3. Drop(from, d) = Drop(line, SyncBytePos - 1)
    BY <1>1, <1>4, DropTwice
  <2>4. QED
    BY <2>2, <2>3, <1>5
<1>10. Carries(Rest \o ahead, sent, Done)
  <2>1. from \o ahead \in Seq(Nat) /\ d \in 0 .. Len(from \o ahead)
    BY <1>1, <1>4, <1>6
  <2> HIDE DEF from, ahead, d
  <2>2. QED
    BY <2>1, <1>1, <1>7, <1>8, <1>9, TextDropped
<1>11. QED
  BY <1>3, <1>4, <1>5, <1>10

\* Concatenating bytes is associative.
LEMMA BytesAssociative ==
  \A a, b, c \in Seq(Nat) : (a \o b) \o c = a \o (b \o c)
BY ConcatAssociative

\* What is unread is a sequence of bytes.
LEMMA UnreadType ==
  ASSUME StreamInv
  PROVE  /\ Drop(line, offset) \in Seq(Nat)
         /\ serial_stm_buff \o wire \in Seq(Nat)
         /\ Drop(line, offset) \o (serial_stm_buff \o wire) \in Seq(Nat)
         /\ Unread \in Seq(Nat)
<1>1. Drop(line, offset) \in Seq(Nat)
  BY DropProperties DEF StreamInv
<1>2. serial_stm_buff \o wire \in Seq(Nat)
  BY ConcatProperties DEF StreamInv
<1>3. Drop(line, offset) \o (serial_stm_buff \o wire) \in Seq(Nat)
  BY <1>1, <1>2, ConcatProperties
<1>4. Unread \in Seq(Nat)
  BY <1>3, ConcatProperties DEF StreamInv, Unread
<1>5. QED
  BY <1>1, <1>2, <1>3, <1>4

\* Bytes that are written are behind what is unread.
LEMMA UnreadExtended ==
  ASSUME StreamInv, NEW t \in Seq(Nat), wire' = wire \o t,
         UNCHANGED <<serial_stm_buff, unfinishedSerialString, line, offset>>
  PROVE  Unread' = Unread \o t
<1> DEFINE from == Drop(line, offset)
           ahead == serial_stm_buff \o wire
           rest == from \o ahead
<1>1. /\ from \in Seq(Nat) /\ serial_stm_buff \in Seq(Nat) /\ wire \in Seq(Nat)
      /\ unfinishedSerialString \in Seq(Nat)
  BY UnreadType DEF StreamInv
<1>2. ahead \in Seq(Nat) /\ serial_stm_buff \o (wire \o t) = ahead \o t
  <2>1. ahead \in Seq(Nat)
    BY <1>1, ConcatProperties
  <2>2. (serial_stm_buff \o wire) \o t = serial_stm_buff \o (wire \o t)
    BY <1>1, BytesAssociative, Zenon
  <2>3. QED
    BY <2>1, <2>2, Zenon
<1>3. Unread' = unfinishedSerialString \o (from \o (serial_stm_buff \o (wire \o t)))
  BY DEF Unread
<1> HIDE DEF from, ahead
<1>4. rest \in Seq(Nat) /\ from \o (ahead \o t) = rest \o t
  <2>1. rest \in Seq(Nat)
    BY <1>1, <1>2, ConcatProperties
  <2>2. (from \o ahead) \o t = from \o (ahead \o t)
    BY <1>1, <1>2, BytesAssociative, ZenonT(60)
  <2>3. QED
    BY <2>1, <2>2, Zenon
<1> HIDE DEF rest
<1>5. unfinishedSerialString \o (rest \o t) = (unfinishedSerialString \o rest) \o t
  BY <1>1, <1>4, BytesAssociative, Zenon
<1>6. Unread = unfinishedSerialString \o rest
  BY DEF Unread, rest, from, ahead
<1>7. QED
  BY <1>2, <1>3, <1>4, <1>5, <1>6

\* The hub adds to the end.
LEMMA WritesPreserve ==
  ASSUME StreamInv, WriteText \/ \E m \in Messages : Write(m)
  PROVE  StreamInv'
<1>1. CASE WriteText
  <2>1. <<Text>> \in Seq(Nat) /\ \A p \in 1 .. Len(<<Text>>) : <<Text>>[p] # SyncByte
    BY DEF Text, SyncByte
  <2>2. wire' = wire \o <<Text>> /\ wire' \in Seq(Nat)
    <3>1. wire \in Seq(Nat) /\ Text \in Nat /\ wire' = Append(wire, Text)
      BY <1>1 DEF WriteText, Text, StreamInv
    <3>2. Append(wire, Text) = wire \o <<Text>> /\ Append(wire, Text) \in Seq(Nat)
      BY <3>1, AppendIsConcat, AppendProperties
    <3>3. QED
      BY <3>1, <3>2
  <2>3. Unread' = Unread \o <<Text>>
    BY <1>1, <2>1, <2>2, UnreadExtended DEF WriteText
  <2>4. Carries(Unread \o <<Text>>, sent, Done)
    BY <2>1, UnreadType, BytesAdded, LenProperties DEF StreamInv
  <2>5. UNCHANGED <<sent, delivered, cuts>>
    BY <1>1 DEF WriteText
  <2>6. Done' = Done /\ DeliveredInOrder'
    BY <2>5, SentStays
  <2>7. QED
    BY <1>1, <2>2, <2>3, <2>4, <2>5, <2>6 DEF StreamInv, WriteText
<1>2. ASSUME NEW m \in Messages, Write(m) PROVE StreamInv'
  <2>1. m \in Seq(Nat)
    BY MessageShape
  <2>2. wire' = wire \o m /\ wire' \in Seq(Nat)
    BY <1>2, <2>1, ConcatProperties DEF Write, StreamInv
  <2>3. Unread' = Unread \o m
    BY <1>2, <2>1, <2>2, UnreadExtended DEF Write
  <2>4. Carries(Unread \o m, Append(sent, m), Done)
    BY <2>1, UnreadType, BytesAdded, LenProperties DEF StreamInv
  <2>5. /\ sent' \in Seq(Messages) /\ Len(sent') = Len(sent) + 1
        /\ \A i \in 1 .. Len(sent) : sent'[i] = sent[i]
    BY <1>2, AppendProperties DEF Write, StreamInv
  <2>6. UNCHANGED <<delivered, cuts>> /\ Len(sent) \in Nat
    BY <1>2, LenProperties DEF Write, StreamInv
  <2>7. Done' = Done /\ DeliveredInOrder'
    <3>1. \A i \in 1 .. Done : sent'[i] = sent[i]
      BY <2>5, <2>6 DEF StreamInv
    <3>2. QED
      BY <2>6, <3>1, SentStays
  <2>8. Done <= Len(sent')
    BY <2>5, <2>6 DEF StreamInv
  <2>9. QED
    BY <1>2, <2>2, <2>3, <2>4, <2>5, <2>6, <2>7, <2>8 DEF StreamInv, Write
<1>3. QED
  BY <1>1, <1>2

\* Reading moves bytes into the stream buffer.
LEMMA ReadPreserves ==
  ASSUME StreamInv, NEW k \in 1 .. Len(wire), ReadSome(k)
  PROVE  StreamInv'
<1> DEFINE front == SubSeq(wire, 1, k)
           back == SubSeq(wire, k + 1, Len(wire))
<1>1. /\ serial_stm_buff' = serial_stm_buff \o front /\ wire' = back
      /\ UNCHANGED <<unfinishedSerialString, scanning, line, offset, sent, delivered, cuts>>
  BY DEF ReadSome
<1>2. wire \in Seq(Nat) /\ serial_stm_buff \in Seq(Nat)
  BY DEF StreamInv
<1>3. front \in Seq(Nat) /\ back \in Seq(Nat) /\ front \o back = wire
  <2>1. /\ 1 \in 1 .. Len(wire) + 1 /\ k \in 1 - 1 .. Len(wire)
        /\ Len(wire) \in k .. Len(wire)
    BY <1>2, LenProperties
  <2>2. front \o back = SubSeq(wire, 1, Len(wire))
    BY <1>2, <2>1, ConcatAdjacentSubSeq
  <2>3. front \in Seq(Nat) /\ back \in Seq(Nat)
    BY <1>2
  <2>4. QED
    BY <1>2, <2>2, <2>3, SubSeqFull
<1> HIDE DEF front, back
<1>4. serial_stm_buff' \o wire' = serial_stm_buff \o wire /\ serial_stm_buff' \in Seq(Nat)
  <2>1. (serial_stm_buff \o front) \o back = serial_stm_buff \o (front \o back)
    BY <1>2, <1>3, BytesAssociative, Zenon
  <2>2. serial_stm_buff \o front \in Seq(Nat)
    BY <1>2, <1>3, ConcatProperties
  <2>3. QED
    BY <2>1, <2>2, <1>1, <1>3, Zenon
<1>5. Unread' = Unread
  BY <1>1, <1>4 DEF Unread
<1>6. Done' = Done /\ DeliveredInOrder'
  BY <1>1, SentStays
<1>7. QED
  BY <1>1, <1>3, <1>4, <1>5, <1>6 DEF StreamInv

\* The handler takes what was kept and what was read for its line.
LEMMA CallPreserves ==
  ASSUME StreamInv, HandleReadSerial
  PROVE  StreamInv'
<1>1. /\ line = <<>> /\ offset = 0 /\ scanning' = TRUE /\ offset' = 0
      /\ line' = unfinishedSerialString \o serial_stm_buff
      /\ serial_stm_buff' = <<>> /\ unfinishedSerialString' = <<>>
      /\ UNCHANGED <<wire, sent, delivered, cuts>>
  BY DEF HandleReadSerial, Joined, StreamInv
<1>2. /\ wire \in Seq(Nat) /\ serial_stm_buff \in Seq(Nat)
      /\ unfinishedSerialString \in Seq(Nat) /\ line' \in Seq(Nat)
      /\ serial_stm_buff \o wire \in Seq(Nat)
  BY <1>1, ConcatProperties DEF StreamInv
<1>3. Drop(line, offset) = <<>> /\ Drop(line', 0) = line'
  BY <1>1, <1>2, SubSeqFull DEF Drop
<1>4. Unread = unfinishedSerialString \o (serial_stm_buff \o wire)
  BY <1>2, <1>3, ConcatEmptySeq DEF Unread
<1>5. Unread' = line' \o wire
  <2>1. Unread' = <<>> \o (line' \o (<<>> \o wire))
    BY <1>1, <1>3 DEF Unread
  <2>2. line' \o wire \in Seq(Nat)
    BY <1>2, ConcatProperties
  <2>3. QED
    BY <2>1, <2>2, <1>2, ConcatEmptySeq
<1>6. Unread' = Unread
  <2>1. (unfinishedSerialString \o serial_stm_buff) \o wire
          = unfinishedSerialString \o (serial_stm_buff \o wire)
    BY <1>2, BytesAssociative, Zenon
  <2>2. QED
    BY <2>1, <1>1, <1>4, <1>5, Zenon
<1>7. Len(line') >= 0 /\ <<>> \in Seq(Nat)
  BY <1>2, LenProperties
<1>8. Done' = Done /\ DeliveredInOrder'
  BY <1>1, SentStays
<1>9. QED
  BY <1>1, <1>2, <1>6, <1>7, <1>8 DEF StreamInv

\* When no sync byte is left, what is left is text.
LEMMA DonePreserves ==
  ASSUME StreamInv, ScanDone
  PROVE  StreamInv'
<1> DEFINE ahead == serial_stm_buff \o wire
           from == Drop(line, offset)
<1>1. /\ SyncPositions = {} /\ scanning /\ line' = <<>> /\ offset' = 0
      /\ UNCHANGED <<wire, serial_stm_buff, unfinishedSerialString, sent, delivered, cuts>>
  BY DEF ScanDone
<1>2. /\ line \in Seq(Nat) /\ offset \in Nat /\ Len(line) \in Nat /\ ahead \in Seq(Nat)
      /\ from \in Seq(Nat) /\ sent \in Seq(Messages) /\ Done \in Nat
      /\ unfinishedSerialString \in Seq(Nat)
  BY UnreadType, LenProperties DEF StreamInv
<1>3. Unread' = unfinishedSerialString \o ahead
  <2>1. Drop(<<>>, 0) = <<>>
    BY DEF Drop
  <2>2. QED
    BY <1>1, <1>2, <2>1, ConcatEmptySeq DEF Unread
<1>4. Carries(unfinishedSerialString \o ahead, sent, Done)
  <2>1. CASE offset >= Len(line)
    <3>1. from = <<>>
      BY <2>1, <1>2, DropProperties
    <3>2. Unread = unfinishedSerialString \o ahead
      BY <3>1, <1>2, ConcatEmptySeq DEF Unread
    <3>3. QED
      BY <3>2 DEF StreamInv
  <2>2. CASE offset < Len(line)
    <3>1. unfinishedSerialString = <<>>
      BY <2>2, <1>1, <1>2 DEF StreamInv
    <3>2. Unread = from \o ahead /\ from \o ahead \in Seq(Nat)
      BY <3>1, <1>2, UnreadType, ConcatEmptySeq DEF Unread
    <3>3. /\ Len(from) = Len(line) - offset /\ Len(from) \in Nat
          /\ \A k \in 1 .. Len(line) - offset : from[k] = line[offset + k]
      <4>1. offset <= Len(line)
        BY <2>2, <1>2
      <4>2. QED
        BY <4>1, <1>2, DropProperties, LenProperties
    <3>4. ASSUME NEW p \in 1 .. Len(from) PROVE (from \o ahead)[p] # SyncByte
      <4>1. offset + p \in offset + 1 .. Len(line) /\ p \in 1 .. Len(line) - offset
        BY <3>3, <1>2
      <4>2. line[offset + p] # SyncByte
        BY <4>1, <1>1 DEF SyncPositions
      <4>3. (from \o ahead)[p] = from[p]
        BY <1>2, ConcatProperties
      <4>4. QED
        BY <4>1, <4>2, <4>3, <3>3
    <3>5. Drop(from \o ahead, Len(from)) = ahead
      <4>1. Len(from) \in 0 .. Len(from)
        BY <3>3
      <4>2. Drop(from \o ahead, Len(from)) = Drop(from, Len(from)) \o ahead
        BY <4>1, <1>2, DropOfConcat
      <4>3. Drop(from, Len(from)) = <<>>
        BY <1>2, <3>3, DropProperties
      <4>4. QED
        BY <4>2, <4>3, <1>2, ConcatEmptySeq
    <3>6. Len(from) \in 0 .. Len(from \o ahead)
      BY <1>2, <3>3, ConcatProperties, LenProperties
    <3>7. Carries(from \o ahead, sent, Done)
      BY <3>2 DEF StreamInv
    <3> HIDE DEF from, ahead
    <3>8. Carries(ahead, sent, Done)
      BY <3>2, <3>4, <3>5, <3>6, <3>7, <1>2, TextDropped
    <3>9. QED
      BY <3>1, <3>8, <1>2, ConcatEmptySeq
  <2>3. QED
    BY <2>1, <2>2, <1>2
<1>5. scanning' = FALSE /\ <<>> \in Seq(Nat)
  BY DEF ScanDone
<1>6. Done' = Done /\ DeliveredInOrder'
  BY <1>1, SentStays
<1>7. QED
  BY <1>1, <1>3, <1>4, <1>5, <1>6 DEF StreamInv

\* A message that is cut by the end of the line is kept, and is then what comes first.
LEMMA UnfinishedPreserves ==
  ASSUME StreamInv, ScanUnfinished
  PROVE  StreamInv'
<1> DEFINE ahead == serial_stm_buff \o wire
<1>1. /\ scanning /\ SyncPositions # {} /\ Len(Rest) < SizeMsg(Rest)
      /\ unfinishedSerialString' = Rest /\ offset' = SyncBytePos - 1 + SizeMsg(Rest)
      /\ UNCHANGED <<wire, serial_stm_buff, scanning, line, sent, delivered, cuts>>
  BY DEF ScanUnfinished, Kept
<1>2. /\ Rest \in Seq(Nat) /\ SyncBytePos - 1 \in Nat /\ Len(Rest) = Len(line) - (SyncBytePos - 1)
      /\ Carries(Rest \o ahead, sent, Done)
  BY <1>1, AtSyncByte
<1>3. /\ line \in Seq(Nat) /\ Len(line) \in Nat /\ Len(Rest) \in Nat
      /\ ahead \in Seq(Nat)
  BY <1>2, UnreadType, LenProperties DEF StreamInv
<1>4. SizeMsg(Rest) \in Nat
  <2>1. Len(Rest) >= 3 => Rest[3] \in Nat
    BY <1>2, <1>3, ElementOfSeq
  <2>2. QED
    BY <2>1, <1>3 DEF SizeMsg
<1>5. offset' \in Nat /\ offset' >= Len(line)
  BY <1>1, <1>2, <1>3, <1>4
<1>6. Unread' = Rest \o ahead
  <2>1. Drop(line, offset') = <<>>
    BY <1>3, <1>5, DropProperties
  <2>2. <<>> \o ahead = ahead
    BY <1>3, ConcatEmptySeq
  <2>3. Unread' = Rest \o (Drop(line, offset') \o ahead)
    BY <1>1 DEF Unread
  <2>4. QED
    BY <2>1, <2>2, <2>3
<1>7. Done' = Done /\ DeliveredInOrder'
  BY <1>1, SentStays
<1>8. QED
  BY <1>1, <1>2, <1>5, <1>6, <1>7 DEF StreamInv

\* The first elements of a sequence.
LEMMA FirstElements ==
  ASSUME NEW s \in Seq(Nat), NEW n \in 0 .. Len(s)
  PROVE  /\ SubSeq(s, 1, n) \in Seq(Nat) /\ Len(SubSeq(s, 1, n)) = n
         /\ \A k \in 1 .. n : SubSeq(s, 1, n)[k] = s[k]
OBVIOUS

\* A sequence with one element more.
LEMMA OneMore ==
  ASSUME NEW s \in Seq(Nat), NEW x \in Nat
  PROVE  /\ s \o <<x>> \in Seq(Nat) /\ Len(s \o <<x>>) = Len(s) + 1
         /\ \A k \in 1 .. Len(s) : (s \o <<x>>)[k] = s[k]
         /\ (s \o <<x>>)[Len(s) + 1] = x
OBVIOUS

\* The first five elements and the sixth, put behind them.
LEMMA SixthAppended ==
  ASSUME NEW s \in Seq(Nat), NEW m \in Seq(Nat), Len(m) = 6, Len(s) >= 6,
         \A k \in 1 .. 6 : s[k] = m[k]
  PROVE  SubSeq(s, 1, 5) \o <<s[6]>> = m
<1> DEFINE five == SubSeq(s, 1, 5)
           x == s[6]
<1>1. five \in Seq(Nat) /\ Len(five) = 5 /\ \A k \in 1 .. 5 : five[k] = s[k]
  <2>1. Len(s) \in Nat
    OBVIOUS
  <2>2. 5 \in 0 .. Len(s)
    BY <2>1
  <2>3. QED
    BY <2>2, FirstElements
<1>2. x \in Nat
  BY LenProperties, ElementOfSeq
<1> DEFINE taken == five \o <<x>>
<1>3. Len(five) + 1 = 6 /\ Len(five) = 5
  BY <1>1
<1> HIDE DEF five, x
<1>4. /\ taken \in Seq(Nat) /\ Len(taken) = Len(five) + 1
      /\ \A k \in 1 .. Len(five) : taken[k] = five[k]
      /\ taken[Len(five) + 1] = x
  BY <1>1, <1>2, OneMore
<1> HIDE DEF taken
<1>5. \A k \in 1 .. 6 : taken[k] = m[k]
  <2>1. \A k \in 1 .. 6 : k \in 1 .. 5 \/ k = 6
    OBVIOUS
  <2>2. x = m[6]
    BY DEF x
  <2>3. QED
    BY <2>1, <2>2, <1>1, <1>3, <1>4
<1>6. taken = m
  <2>1. taken \in Seq(Nat) /\ Len(taken) = Len(m) /\ Len(taken) = 6
    BY <1>3, <1>4
  <2>2. \A k \in 1 .. Len(taken) : taken[k] = m[k]
    BY <2>1, <1>5
  <2>3. QED
    BY <2>1, <2>2, SeqEqual
<1>7. QED
  BY <1>6 DEF taken, five, x

\* Arithmetic of the lengths.
LEMMA MoreThanFive == \A i \in Nat : i >= 5 /\ i # 5 => i >= 6
OBVIOUS

\* A list that is not cut before its length.
LEMMA AtLeastThree ==
  \A n, i \in Nat : ~(n < 3) => 3 <= n /\ 3 \in 1 .. 3 + i
OBVIOUS

\* The handler takes the message that comes first, whole, if it sees a response whole.
LEMMA MessageTaken ==
  ASSUME NEW msg \in Seq(Nat), NEW m \in Messages,
         Len(msg) >= 2, Len(msg) >= SizeMsg(msg), ~ResponseCut(msg),
         \A k \in 1 .. Len(m) : k <= Len(msg) => msg[k] = m[k]
  PROVE  /\ msg[2] \in {F, R, D, L} /\ Taken(msg) = m
         /\ SizeMsg(msg) \in 1 .. Len(m)
         /\ \A p \in SizeMsg(msg) + 1 .. Len(m) : p <= Len(msg) /\ msg[p] # SyncByte
<1>1. /\ m \in Seq(Nat) /\ Len(m) \in Nat /\ Len(msg) \in Nat /\ Len(m) >= 2
      /\ m[2] \in {F, R, D, L}
      /\ m[2] = F \/ m[2] = R => Len(m) = 6
      /\ m[2] = D => Len(m) = 2
      /\ m[2] = L => Len(m) = 3 + m[3] /\ m[3] \in Nat
  BY MessageShape, LenProperties
<1>2. msg[2] = m[2]
  BY <1>1
<1>3. F # R /\ F # D /\ F # L /\ R # D /\ R # L /\ D # L
  BY DEF F, R, D, L
<1>4. ASSUME SizeMsg(msg) = Len(m), msg[2] # R
      PROVE  Taken(msg) = m
  <2>1. Taken(msg) = SubSeq(msg, 1, Len(m))
    BY <1>4 DEF Taken
  <2>2. /\ SubSeq(msg, 1, Len(m)) \in Seq(Nat) /\ Len(SubSeq(msg, 1, Len(m))) = Len(m)
        /\ \A k \in 1 .. Len(m) : SubSeq(msg, 1, Len(m))[k] = msg[k]
    BY <1>1, <1>4
  <2>3. Len(m) <= Len(msg)
    BY <1>4
  <2>4. \A k \in 1 .. Len(m) : k <= Len(msg)
    BY <1>1, <2>3
  <2>5. \A k \in 1 .. Len(m) : SubSeq(msg, 1, Len(m))[k] = m[k]
    BY <2>2, <2>4
  <2>6. QED
    BY <2>1, <2>2, <2>5, <1>1, SeqEqual
<1>5. CASE msg[2] \in {F, D, L}
  <2>1. SizeMsg(msg) = Len(m)
    <3>1. CASE msg[2] = F
      BY <3>1, <1>1, <1>2, <1>3 DEF SizeMsg
    <3>2. CASE msg[2] = D
      BY <3>2, <1>1, <1>2, <1>3 DEF SizeMsg
    <3>3. CASE msg[2] = L
      <4>1. ~(Len(msg) < 3)
        BY <3>3, <1>1, <1>3 DEF SizeMsg
      <4>2. SizeMsg(msg) = 3 + msg[3]
        BY <3>3, <4>1, <1>3 DEF SizeMsg
      <4>3. Len(m) = 3 + m[3] /\ m[3] \in Nat
        BY <3>3, <1>1, <1>2
      <4>4. 3 \in 1 .. Len(m) /\ 3 <= Len(msg)
        BY <4>1, <4>3, <1>1, AtLeastThree
      <4>5. msg[3] = m[3]
        BY <4>4
      <4>6. QED
        BY <4>2, <4>3, <4>5
    <3>4. QED
      BY <3>1, <3>2, <3>3, <1>5
  <2>2. Taken(msg) = m
    BY <2>1, <1>3, <1>4, <1>5
  <2>3. \A p \in SizeMsg(msg) + 1 .. Len(m) : FALSE
    BY <2>1, <1>1
  <2>4. SizeMsg(msg) \in 1 .. Len(m)
    BY <2>1, <1>1
  <2>5. QED
    BY <2>2, <2>3, <2>4, <1>5
<1>6. CASE msg[2] = R
  <2>1. SizeMsg(msg) = 5 /\ Len(m) = 6
    BY <1>1, <1>2, <1>3, <1>6 DEF SizeMsg
  <2>2. Len(msg) # 5 /\ msg[6] # SyncByte
    BY <1>6 DEF ResponseCut
  <2>3. Len(msg) >= 5
    BY <2>1
  <2>4. Len(msg) >= 6
    BY <2>2, <2>3, <1>1, MoreThanFive
  <2>5. \A k \in 1 .. 6 : k \in 1 .. Len(m) /\ k <= Len(msg)
    BY <2>1, <2>4, <1>1
  <2>6. \A k \in 1 .. 6 : msg[k] = m[k]
    BY <2>5
  <2>7. Taken(msg) = SubSeq(msg, 1, 5) \o <<msg[6]>>
    BY <2>4, <1>1, <1>6, SMTT(30) DEF Taken
  <2>8. Taken(msg) = m
    BY <2>1, <2>4, <2>6, <2>7, <1>1, SixthAppended
  <2>9. \A p \in SizeMsg(msg) + 1 .. Len(m) : p = 6
    BY <2>1
  <2>10. SizeMsg(msg) \in 1 .. Len(m)
    BY <2>1
  <2>11. QED
    BY <2>2, <2>4, <2>8, <2>9, <2>10, <1>6
<1>7. QED
  BY <1>1, <1>2, <1>5, <1>6

\* The first message that waits is at the sync byte; it can be dropped, or its first part
\* if no sync byte is in the other.
LEMMA MessageAtSyncByte ==
  ASSUME StreamInv, scanning, SyncPositions # {}
  PROVE  /\ Done + 1 \in 1 .. Len(sent) /\ sent[Done + 1] \in Messages
         /\ \A k \in 1 .. Len(sent[Done + 1]) : k <= Len(Rest) => Rest[k] = sent[Done + 1][k]
         /\ \A d \in 1 .. Len(sent[Done + 1]) :
              d <= Len(Rest)
              /\ (\A p \in d + 1 .. Len(sent[Done + 1]) : sent[Done + 1][p] # SyncByte)
              => Carries(Drop(Rest, d) \o (serial_stm_buff \o wire), sent, Done + 1)
<1> DEFINE ahead == serial_stm_buff \o wire
           bytes == Rest \o ahead
           m == sent[Done + 1]
<1>1. /\ Rest \in Seq(Nat) /\ Rest # <<>> /\ Rest[1] = SyncByte
      /\ Carries(bytes, sent, Done)
  BY AtSyncByte
<1>2. /\ Len(Rest) \in Nat /\ ahead \in Seq(Nat) /\ sent \in Seq(Messages) /\ Done \in Nat
      /\ Len(sent) \in Nat
  BY <1>1, UnreadType, LenProperties DEF StreamInv
<1>3. /\ bytes \in Seq(Nat) /\ Len(bytes) = Len(Rest) + Len(ahead) /\ Len(ahead) \in Nat
      /\ \A k \in 1 .. Len(Rest) : bytes[k] = Rest[k]
  <2> HIDE DEF ahead
  <2>1. QED
    BY <1>1, <1>2
<1>4. bytes # <<>> /\ bytes[1] = SyncByte
  <2>1. 1 \in 1 .. Len(Rest)
    BY <1>1, <1>2
  <2>2. QED
    BY <2>1, <1>1, <1>2, <1>3
<1> HIDE DEF bytes
<1>5. /\ Done + 1 <= Len(sent) /\ IsAt(bytes, m, 0)
      /\ \A d \in 1 .. Len(m) :
           (\A p \in d + 1 .. Len(m) : bytes[p] # SyncByte)
           => Carries(Drop(bytes, d), sent, Done + 1)
  BY <1>1, <1>2, <1>3, <1>4, MessageFirst
<1>6. Done + 1 \in 1 .. Len(sent) /\ m \in Messages /\ Len(m) \in Nat
  <2>1. Done + 1 \in 1 .. Len(sent)
    BY <1>2, <1>5
  <2>2. QED
    BY <2>1, <1>2, MessageOf
<1>7. \A k \in 1 .. Len(m) : bytes[k] = m[k]
  <2>1. \A k \in 1 .. Len(m) : bytes[0 + k] = m[k] /\ 0 + k = k
    BY <1>5 DEF IsAt
  <2>2. QED
    BY <2>1
<1> HIDE DEF ahead, m
<1>8. ASSUME NEW k \in 1 .. Len(m), k <= Len(Rest) PROVE Rest[k] = m[k]
  <2>1. k \in 1 .. Len(Rest)
    BY <1>2, <1>8
  <2>2. QED
    BY <2>1, <1>3, <1>7
<1>9. ASSUME NEW d \in 1 .. Len(m), d <= Len(Rest),
             \A p \in d + 1 .. Len(m) : m[p] # SyncByte
      PROVE  Carries(Drop(Rest, d) \o ahead, sent, Done + 1)
  <2>1. d \in 0 .. Len(Rest)
    BY <1>2, <1>6, <1>9
  <2>2. Drop(bytes, d) = Drop(Rest, d) \o ahead
    BY <2>1, <1>1, <1>2, DropOfConcat DEF bytes
  <2>3. \A p \in d + 1 .. Len(m) : p \in 1 .. Len(m)
    BY <1>6
  <2>4. \A p \in d + 1 .. Len(m) : bytes[p] # SyncByte
    BY <2>3, <1>7, <1>9
  <2>5. Carries(Drop(bytes, d), sent, Done + 1)
    BY <2>4, <1>5
  <2>6. QED
    BY <2>2, <2>5
<1>10. QED
  BY <1>6, <1>8, <1>9 DEF m, ahead

\* The handler goes past a part of what is left of the line.
LEMMA GoesPast ==
  ASSUME StreamInv, scanning, SyncPositions # {}, NEW d \in 1 .. Len(Rest),
         UNCHANGED <<wire, serial_stm_buff, unfinishedSerialString, line>>,
         \/ offset' = SyncBytePos - 1 + d
         \/ d = Len(Rest) /\ offset' = Len(line) + 1
  PROVE  offset' \in Nat /\ Unread' = Drop(Rest, d) \o (serial_stm_buff \o wire)
<1> DEFINE ahead == serial_stm_buff \o wire
<1>1. /\ unfinishedSerialString = <<>> /\ Rest = Drop(line, SyncBytePos - 1)
      /\ Rest \in Seq(Nat) /\ SyncBytePos - 1 \in Nat
      /\ Len(Rest) = Len(line) - (SyncBytePos - 1)
  BY AtSyncByte
<1>2. /\ line \in Seq(Nat) /\ Len(line) \in Nat /\ Len(Rest) \in Nat /\ ahead \in Seq(Nat)
      /\ d \in Nat
  BY <1>1, UnreadType, LenProperties DEF StreamInv
<1>3. offset' \in Nat
  BY <1>1, <1>2, SMTT(30)
<1>4. Drop(Rest, d) = Drop(line, offset')
  <2>1. CASE offset' = SyncBytePos - 1 + d
    <3>1. SyncBytePos - 1 + d <= Len(line)
      BY <1>1, <1>2
    <3>2. QED
      BY <2>1, <3>1, <1>1, <1>2, DropTwice
  <2>2. CASE d = Len(Rest) /\ offset' = Len(line) + 1
    <3>1. Drop(Rest, d) = <<>>
      BY <2>2, <1>1, <1>2, DropProperties, SMTT(30)
    <3>2. offset' >= Len(line)
      BY <2>2, <1>2
    <3>3. Drop(line, offset') = <<>>
      BY <3>2, <1>2, <1>3, DropProperties
    <3>4. QED
      BY <3>1, <3>3
  <2>3. QED
    BY <2>1, <2>2
<1>5. Unread' = <<>> \o (Drop(line, offset') \o ahead)
  BY <1>1 DEF Unread
<1>6. Drop(line, offset') \o ahead \in Seq(Nat)
  BY <1>2, <1>3, DropProperties, ConcatProperties
<1>7. QED
  BY <1>3, <1>4, <1>5, <1>6, ConcatEmptySeq

\* A message that is taken is the next that was sent.
LEMMA MessagePreserves ==
  ASSUME StreamInv, ScanMessage, ~ResponseCut(Rest)
  PROVE  StreamInv'
<1> DEFINE m == sent[Done + 1]
           size == SizeMsg(Rest)
<1>1. /\ scanning /\ SyncPositions # {} /\ Len(Rest) >= 2 /\ Len(Rest) >= size
      /\ offset' = SyncBytePos - 1 + size /\ Deliver(Rest)
      /\ UNCHANGED <<wire, serial_stm_buff, unfinishedSerialString, scanning, line, sent,
                     cuts>>
  BY DEF ScanMessage
<1>2. /\ Done + 1 \in 1 .. Len(sent) /\ m \in Messages
      /\ \A k \in 1 .. Len(m) : k <= Len(Rest) => Rest[k] = m[k]
      /\ \A d \in 1 .. Len(m) :
           d <= Len(Rest) /\ (\A p \in d + 1 .. Len(m) : m[p] # SyncByte)
           => Carries(Drop(Rest, d) \o (serial_stm_buff \o wire), sent, Done + 1)
  BY <1>1, MessageAtSyncByte
<1>3. Rest \in Seq(Nat) /\ Len(Rest) \in Nat /\ m \in Seq(Nat) /\ Len(m) \in Nat
  BY <1>1, <1>2, AtSyncByte, MessageShape, LenProperties
<1> HIDE DEF m
<1>4. /\ Rest[2] \in {F, R, D, L} /\ Taken(Rest) = m
      /\ size \in 1 .. Len(m)
      /\ \A p \in size + 1 .. Len(m) : p <= Len(Rest) /\ Rest[p] # SyncByte
  BY <1>1, <1>2, <1>3, MessageTaken
<1>5. delivered' = Append(delivered, m)
  BY <1>1, <1>4 DEF Deliver
<1>6. Done' = Done + 1 /\ DeliveredInOrder' /\ delivered' \in Seq(Messages)
  BY <1>1, <1>2, <1>5, NextInOrder DEF m
<1> HIDE DEF size
<1>7. size \in 1 .. Len(Rest)
  BY <1>1, <1>3, <1>4
<1>8. offset' \in Nat /\ Unread' = Drop(Rest, size) \o (serial_stm_buff \o wire)
  BY <1>1, <1>7, GoesPast
<1>9. Carries(Unread', sent, Done + 1)
  <2>1. \A p \in size + 1 .. Len(m) : p \in 1 .. Len(m)
    BY <1>3, <1>4
  <2>2. \A p \in size + 1 .. Len(m) : m[p] # SyncByte
    BY <2>1, <1>2, <1>4
  <2>3. QED
    BY <2>2, <1>1, <1>2, <1>4, <1>8
<1>10. unfinishedSerialString = <<>> /\ Done + 1 <= Len(sent) /\ Done + 1 \in Nat
  BY <1>1, <1>2, AtSyncByte DEF StreamInv
<1>11. QED
  BY <1>1, <1>6, <1>8, <1>9, <1>10 DEF StreamInv

\* In a message without a sync byte in its data only the first is one.
LEMMA OnlyTheFirst ==
  ASSUME NEW m \in Messages, ~Contains255(Tail(m))
  PROVE  \A p \in 2 .. Len(m) : m[p] # SyncByte
<1>1. m \in Seq(Nat) /\ Len(m) \in Nat /\ Len(m) >= 2
  BY MessageShape, LenProperties
<1>2. m # <<>>
  BY <1>1
<1>3. Len(Tail(m)) = Len(m) - 1 /\ \A i \in 1 .. Len(m) - 1 : Tail(m)[i] = m[i + 1]
  BY <1>1, <1>2, HeadTailProperties
<1>4. DOMAIN Tail(m) = 1 .. Len(m) - 1
  <2>1. Tail(m) \in Seq(Nat)
    BY <1>1, <1>2, HeadTailProperties
  <2>2. QED
    BY <2>1, <1>3, LenProperties
<1>5. SUFFICES ASSUME NEW p \in 2 .. Len(m) PROVE m[p] # SyncByte
  OBVIOUS
<1>6. p - 1 \in 1 .. Len(m) - 1 /\ p - 1 + 1 = p
  BY <1>1
<1>7. Tail(m)[p - 1] = m[p]
  BY <1>3, <1>6
<1>8. QED
  BY <1>4, <1>6, <1>7 DEF Contains255

\* A cut, where the handler goes past the first part of the first message that waits.
LEMMA CutPreserves ==
  ASSUME StreamInv, NoSyncInData, scanning, SyncPositions # {},
         NEW d \in 1 .. Len(Rest), d <= Len(sent[Done + 1]),
         UNCHANGED <<wire, serial_stm_buff, unfinishedSerialString, scanning, line, sent,
                     delivered>>,
         cuts' = cuts + 1,
         \/ offset' = SyncBytePos - 1 + d
         \/ d = Len(Rest) /\ offset' = Len(line) + 1
  PROVE  StreamInv'
<1> DEFINE m == sent[Done + 1]
<1>1. /\ Done + 1 \in 1 .. Len(sent) /\ m \in Messages
      /\ \A e \in 1 .. Len(m) :
           e <= Len(Rest) /\ (\A p \in e + 1 .. Len(m) : m[p] # SyncByte)
           => Carries(Drop(Rest, e) \o (serial_stm_buff \o wire), sent, Done + 1)
  BY MessageAtSyncByte
<1>2. offset' \in Nat /\ Unread' = Drop(Rest, d) \o (serial_stm_buff \o wire)
  BY GoesPast
<1>3. /\ unfinishedSerialString = <<>> /\ Done + 1 <= Len(sent) /\ Done + 1 \in Nat
      /\ Len(Rest) \in Nat /\ Len(m) \in Nat /\ d \in Nat /\ sent \in Seq(Messages)
      /\ cuts' \in Nat
  <2>1. unfinishedSerialString = <<>> /\ Rest \in Seq(Nat) /\ Len(Rest) \in Nat
    BY AtSyncByte, LenProperties
  <2>2. Done \in Nat /\ cuts \in Nat /\ sent \in Seq(Messages)
    BY DEF StreamInv
  <2>3. m \in Seq(Nat) /\ Len(m) \in Nat
    BY <1>1, MessageShape, LenProperties
  <2>4. Done + 1 <= Len(sent) /\ Done + 1 \in Nat /\ cuts' \in Nat /\ d \in Nat
    BY <1>1, <2>1, <2>2
  <2>5. QED
    BY <2>1, <2>2, <2>3, <2>4
<1>4. Done' = Done + 1 /\ DeliveredInOrder'
  BY CutInOrder
<1>5. Carries(Unread', sent, Done + 1)
  <2>1. Done + 1 \in DOMAIN sent
    BY <1>1, <1>3, LenProperties
  <2>2. ~Contains255(Tail(m))
    BY <2>1 DEF NoSyncInData
  <2>3. d \in 1 .. Len(m)
    BY <1>3
  <2>4. \A p \in d + 1 .. Len(m) : p \in 2 .. Len(m)
    BY <1>3
  <2> HIDE DEF m
  <2>5. \A p \in d + 1 .. Len(m) : m[p] # SyncByte
    BY <2>2, <2>4, <1>1, OnlyTheFirst
  <2>6. QED
    BY <2>3, <2>5, <1>1, <1>2
<1>6. QED
  BY <1>2, <1>3, <1>4, <1>5 DEF StreamInv

\* A sync byte at the end of the line is dropped, and the message with it.
LEMMA LoneSyncPreserves ==
  ASSUME StreamInv, NoSyncInData, ScanLoneSync
  PROVE  StreamInv'
<1>1. /\ scanning /\ SyncPositions # {} /\ Len(Rest) < 2 /\ cuts' = cuts + 1
      /\ offset' = Len(line) + 1
      /\ UNCHANGED <<wire, serial_stm_buff, unfinishedSerialString, scanning, line, sent,
                     delivered>>
  BY DEF ScanLoneSync
<1>2. Rest \in Seq(Nat) /\ Rest # <<>> /\ Len(Rest) \in Nat
  BY <1>1, AtSyncByte, LenProperties
<1>3. Len(Rest) = 1
  <2>1. Len(Rest) # 0 /\ Len(Rest) < 2
    BY <1>1, <1>2, EmptySeq, Zenon
  <2>2. \A n \in Nat : n # 0 /\ n < 2 => n = 1
    OBVIOUS
  <2>3. QED
    BY <2>1, <2>2, <1>2
<1>4. Len(sent[Done + 1]) >= 1
  BY <1>1, MessageAtSyncByte, MessageShape, LenProperties
<1>5. QED
  BY <1>1, <1>3, <1>4, CutPreserves

\* A response that is cut before its last byte is done with, and the byte will be text.
LEMMA ResponseCutPreserves ==
  ASSUME StreamInv, NoSyncInData, ScanMessage, ResponseCut(Rest)
  PROVE  StreamInv'
<1> DEFINE m == sent[Done + 1]
<1>1. /\ scanning /\ SyncPositions # {} /\ Len(Rest) >= 2 /\ Len(Rest) >= SizeMsg(Rest)
      /\ offset' = SyncBytePos - 1 + SizeMsg(Rest) /\ Deliver(Rest) /\ cuts' = cuts + 1
      /\ UNCHANGED <<wire, serial_stm_buff, unfinishedSerialString, scanning, line, sent>>
  BY DEF ScanMessage
<1>2. delivered' = delivered
  BY <1>1 DEF Deliver
<1>3. /\ Done + 1 \in 1 .. Len(sent) /\ m \in Messages
      /\ \A k \in 1 .. Len(m) : k <= Len(Rest) => Rest[k] = m[k]
  BY <1>1, MessageAtSyncByte
<1>4. Rest[2] = R /\ SizeMsg(Rest) = 5
  <2>1. Rest[2] = R
    BY DEF ResponseCut
  <2>2. R # F /\ R # L
    BY DEF R, F, L
  <2>3. SizeMsg(Rest) = 5
    BY <2>1, <2>2 DEF SizeMsg
  <2>4. QED
    BY <2>1, <2>3
<1>5. Len(m) = 6
  <2>1. 2 \in 1 .. Len(m)
    BY <1>3, MessageShape, LenProperties
  <2>2. m[2] = R
    BY <2>1, <1>1, <1>3, <1>4
  <2>3. QED
    BY <2>2, <1>3, MessageShape
<1>6. Len(Rest) \in Nat
  BY <1>1, AtSyncByte, LenProperties
<1>7. 5 \in 1 .. Len(Rest) /\ 5 <= Len(m)
  BY <1>1, <1>4, <1>5, <1>6
<1> HIDE DEF m
<1>8. QED
  BY <1>1, <1>2, <1>4, <1>7, CutPreserves DEF m

\* What touches none of it keeps the invariant.
LEMMA StreamKept ==
  ASSUME StreamInv,
         UNCHANGED <<wire, serial_stm_buff, unfinishedSerialString, scanning, line, offset,
                     sent, delivered, cuts>>
  PROVE  StreamInv'
<1>1. Unread' = Unread
  BY DEF Unread
<1>2. Done' = Done /\ DeliveredInOrder'
  BY SentStays
<1>3. QED
  BY <1>1, <1>2 DEF StreamInv

\* If the data have no sync byte after a message is written, they had none before.
LEMMA NoSyncBefore ==
  ASSUME NEW m \in Messages, Write(m), sent \in Seq(Messages), NoSyncInData'
  PROVE  NoSyncInData
<1>1. sent' = Append(sent, m)
  BY DEF Write
<1>2. Len(sent) \in Nat /\ DOMAIN sent = 1 .. Len(sent) /\ DOMAIN sent' = 1 .. Len(sent) + 1
  BY <1>1, LenProperties, AppendProperties
<1>3. \A i \in DOMAIN sent : i \in DOMAIN sent' /\ sent'[i] = sent[i]
  BY <1>1, <1>2, AppendProperties
<1>4. QED
  BY <1>3 DEF NoSyncInData

\* Every step keeps the stream.
LEMMA NextParserInv == ParserInv /\ [Next]_vars => ParserInv'
<1> SUFFICES ASSUME ParserInv, [Next]_vars PROVE ParserInv'
  OBVIOUS
<1>1. CASE ScanMessage
  <2>1. CASE ResponseCut(Rest)
    <3>1. cuts' \in Nat /\ cuts' # 0 /\ sent' = sent
      BY <1>1, <2>1 DEF ScanMessage, ParserInv
    <3>2. QED
      BY <3>1, <1>1, <2>1, ResponseCutPreserves DEF ParserInv, NoSyncInData
  <2>2. CASE ~ResponseCut(Rest)
    <3>1. cuts' = cuts /\ sent' = sent
      BY <1>1, <2>2 DEF ScanMessage
    <3>2. QED
      BY <3>1, <1>1, <2>2, MessagePreserves DEF ParserInv, NoSyncInData
  <2>3. QED
    BY <2>1, <2>2
<1>2. CASE ScanLoneSync
  <2>1. cuts' \in Nat /\ cuts' # 0 /\ sent' = sent
    BY <1>2 DEF ScanLoneSync, ParserInv
  <2>2. QED
    BY <2>1, <1>2, LoneSyncPreserves DEF ParserInv, NoSyncInData
<1>3. CASE ScanUnfinished
  BY <1>3, UnfinishedPreserves DEF ParserInv, ScanUnfinished, NoSyncInData
<1>4. CASE ScanDone
  BY <1>4, DonePreserves DEF ParserInv, ScanDone, NoSyncInData
<1>5. CASE HandleReadSerial
  BY <1>5, CallPreserves DEF ParserInv, HandleReadSerial, NoSyncInData
<1>6. CASE WriteText
  BY <1>6, WritesPreserve DEF ParserInv, WriteText, NoSyncInData
<1>7. ASSUME NEW m \in Messages, Write(m) PROVE ParserInv'
  <2>1. cuts' = cuts /\ sent' \in Seq(Messages)
    BY <1>7, AppendProperties DEF Write, ParserInv
  <2>2. ASSUME cuts = 0 \/ NoSyncInData' PROVE StreamInv'
    <3>1. ASSUME NoSyncInData' PROVE NoSyncInData
      BY <3>1, <1>7, NoSyncBefore DEF ParserInv
    <3>2. StreamInv
      BY <2>2, <3>1 DEF ParserInv
    <3>3. QED
      BY <3>2, <1>7, WritesPreserve
  <2>3. QED
    BY <2>1, <2>2 DEF ParserInv
<1>8. ASSUME NEW k \in 1 .. Len(wire), ReadSome(k) PROVE ParserInv'
  BY <1>8, ReadPreserves DEF ParserInv, ReadSome, NoSyncInData
<1>9. CASE Add \/ Tick \/ UNCHANGED vars
  <2>1. UNCHANGED parserVars
    BY <1>9 DEF Add, Tick, vars
  <2>2. QED
    BY <2>1, StreamKept DEF ParserInv, parserVars, NoSyncInData
<1>10. QED
  BY <1>1, <1>2, <1>3, <1>4, <1>5, <1>6, <1>7, <1>8, <1>9 DEF Next, Scan

\* Initially nothing was sent.
LEMMA InitParserInv == Init => ParserInv
<1> SUFFICES ASSUME Init PROVE ParserInv
  OBVIOUS
<1>1. Unread = <<>>
  <2>1. Drop(<<>>, 0) = <<>>
    BY DEF Drop
  <2>2. <<>> \in Seq(Nat)
    OBVIOUS
  <2>3. QED
    BY <2>1, <2>2, ConcatEmptySeq DEF Init, Unread
<1>2. Carries(<<>>, <<>>, 0)
  <2>1. 1 .. Len(<<>>) = {} /\ 0 + 1 .. Len(<<>>) = {}
    OBVIOUS
  <2> DEFINE none == [i \in 0 + 1 .. Len(<<>>) |-> 0]
  <2>2. none \in [0 + 1 .. Len(<<>>) -> 0 .. Len(<<>>)]
    BY <2>1
  <2>3. Placed(<<>>, <<>>, 0, none)
    BY <2>1 DEF Placed
  <2>4. QED
    BY <2>2, <2>3 DEF Carries
<1>3. Len(<<>>) = 0 /\ 1 .. 0 = {}
  OBVIOUS
<1>4. Done = 0 /\ DeliveredInOrder
  <2>1. sent = <<>> /\ delivered = <<>> /\ cuts = 0
    BY DEF Init
  <2>2. Done = 0
    BY <2>1, <1>3 DEF Done
  <2> DEFINE none == [i \in 1 .. Len(<<>>) |-> 1]
  <2>3. none \in [1 .. Len(<<>>) -> 1 .. 0]
    BY <1>3
  <2>4. QED
    BY <2>1, <2>2, <2>3, <1>3 DEF DeliveredInOrder
<1>5. StreamInv
  BY <1>1, <1>2, <1>3, <1>4 DEF Init, StreamInv
<1>6. QED
  BY <1>5 DEF Init, ParserInv

(***************************************************************************)
(* As long as nothing is cut where the handler does not see it, the server *)
(* acts on what the hub wrote, in order, whatever the chunks, the text and *)
(* the 255s in the data, for any number of messages.                       *)
(***************************************************************************)
THEOREM ParserFaithful == Spec => []Faithful
<1>1. ParserInv => Faithful
  <2> SUFFICES ASSUME ParserInv, cuts = 0 PROVE IsPrefix(delivered, sent)
    BY DEF Faithful
  <2>1. StreamInv
    BY DEF ParserInv
  <2>2. /\ delivered \in Seq(Messages) /\ sent \in Seq(Messages)
        /\ Len(delivered) \in Nat /\ Len(sent) \in Nat /\ Len(delivered) <= Len(sent)
        /\ \A i \in 1 .. Len(delivered) : delivered[i] = sent[i]
    BY <2>1, LenProperties DEF StreamInv, Done, DeliveredInOrder
  <2> DEFINE front == SubSeq(sent, 1, Len(delivered))
  <2>3. /\ front \in Seq(Messages) /\ Len(front) = Len(delivered)
        /\ \A i \in 1 .. Len(delivered) : front[i] = sent[i]
    BY <2>2
  <2>4. delivered = front
    BY <2>2, <2>3, SeqEqual
  <2>5. SubSeq(delivered, 1, Len(delivered)) = delivered
    BY <2>2, SubSeqFull
  <2>6. QED
    BY <2>2, <2>4, <2>5 DEF IsPrefix
<1>2. QED
  BY <1>1, InitParserInv, NextParserInv, PTL DEF Spec

\* Where there are no bytes, no message waits.
LEMMA NothingCarried ==
  ASSUME NEW msgs \in Seq(Messages), NEW done \in Nat, done <= Len(msgs),
         Carries(<<>>, msgs, done)
  PROVE  done = Len(msgs)
<1>1. Len(msgs) \in Nat /\ Len(<<>>) = 0 /\ <<>> \in Seq(Nat)
  BY LenProperties
<1>2. ASSUME done # Len(msgs) PROVE FALSE
  <2>1. PICK place \in [done + 1 .. Len(msgs) -> 0 .. Len(<<>>)] :
           Placed(<<>>, msgs, done, place)
    BY DEF Carries
  <2>2. done + 1 \in done + 1 .. Len(msgs)
    BY <1>1, <1>2
  <2>3. /\ place[done + 1] \in Nat /\ Len(msgs[done + 1]) \in Nat /\ Len(msgs[done + 1]) >= 2
        /\ IsAt(<<>>, msgs[done + 1], place[done + 1])
    BY <1>1, <2>1, <2>2, PlacesOf
  <2>4. place[done + 1] + Len(msgs[done + 1]) <= 0
    BY <1>1, <2>3 DEF IsAt
  <2>5. QED
    BY <2>3, <2>4
<1>3. QED
  BY <1>2

(***************************************************************************)
(* Where the handler does not see that a message is cut, after a lone sync *)
(* byte or before the last byte of a response, it loses that message and   *)
(* no other, as long as a sync byte only ever starts a message: what it    *)
(* acts on is what was sent, in order, and when the line is quiet all but  *)
(* the messages that were cut.                                             *)
(***************************************************************************)
THEOREM ParserNoCascade == Spec => []NoCascade
<1>1. ParserInv => NoCascade
  <2> SUFFICES ASSUME ParserInv, NoSyncInData
               PROVE  InOrder /\ (LineQuiet => Len(sent) = Len(delivered) + cuts)
    BY DEF NoCascade
  <2>1. StreamInv
    BY DEF ParserInv
  <2>2. /\ delivered \in Seq(Messages) /\ sent \in Seq(Messages) /\ Done \in Nat
        /\ Len(delivered) \in Nat /\ Len(sent) \in Nat /\ Done <= Len(sent)
        /\ DOMAIN delivered = 1 .. Len(delivered) /\ DOMAIN sent = 1 .. Len(sent)
    BY <2>1, LenProperties DEF StreamInv
  <2>3. InOrder
    <3>1. PICK place \in [1 .. Len(delivered) -> 1 .. Done] :
             /\ \A i \in 1 .. Len(delivered) : delivered[i] = sent[place[i]]
             /\ \A i, j \in 1 .. Len(delivered) : i < j => place[i] < place[j]
      BY <2>1 DEF StreamInv, DeliveredInOrder
    <3>2. 1 .. Done \subseteq 1 .. Len(sent)
      BY <2>2
    <3>3. place \in [DOMAIN delivered -> DOMAIN sent]
      BY <3>1, <3>2, <2>2
    <3>4. QED
      BY <3>1, <3>3, <2>2 DEF InOrder
  <2>4. ASSUME LineQuiet PROVE Len(sent) = Len(delivered) + cuts
    <3>1. /\ line = <<>> /\ offset = 0 /\ wire \in Seq(Nat) /\ serial_stm_buff \in Seq(Nat)
          /\ unfinishedSerialString \in Seq(Nat)
          /\ wire \o serial_stm_buff \o unfinishedSerialString = <<>>
      BY <2>1, <2>4 DEF StreamInv, LineQuiet
    <3>2. wire = <<>> /\ serial_stm_buff = <<>> /\ unfinishedSerialString = <<>>
      <4> DEFINE front == wire \o serial_stm_buff
      <4>1. /\ front \in Seq(Nat) /\ Len(front) = Len(wire) + Len(serial_stm_buff)
            /\ Len(wire) \in Nat /\ Len(serial_stm_buff) \in Nat
            /\ Len(unfinishedSerialString) \in Nat
        BY <3>1, LenProperties, ConcatProperties
      <4>2. Len(front \o unfinishedSerialString) = Len(front) + Len(unfinishedSerialString)
        <5> HIDE DEF front
        <5>1. QED
          BY <4>1, <3>1, ConcatProperties
      <4>3. Len(<<>>) = 0
        OBVIOUS
      <4>4. Len(wire) = 0 /\ Len(serial_stm_buff) = 0 /\ Len(unfinishedSerialString) = 0
        <5>1. Len(front \o unfinishedSerialString) = 0
          BY <3>1, <4>3
        <5> HIDE DEF front
        <5>2. QED
          BY <5>1, <4>1, <4>2
      <4>5. QED
        BY <3>1, <4>4, EmptySeq
    <3>3. Unread = <<>>
      <4>1. Drop(<<>>, 0) = <<>>
        BY DEF Drop
      <4>2. <<>> \in Seq(Nat) /\ <<>> \o <<>> = <<>>
        BY ConcatEmptySeq
      <4>3. QED
        BY <3>1, <3>2, <4>1, <4>2 DEF Unread
    <3>4. Carries(<<>>, sent, Done)
      BY <2>1, <3>3 DEF StreamInv
    <3>5. QED
      BY <3>4, <2>2, NothingCarried DEF Done
  <2>5. QED
    BY <2>3, <2>4
<1>2. QED
  BY <1>1, InitParserInv, NextParserInv, PTL DEF Spec

----------------------------------------------------------------------------
\* The handler that thread t runs will start the next read of c, or remove c.
Serves(t, c) ==
    /\ call[t].at \in {"start", "stream", "command", "execute", "reply", "remove"}
    /\ call[t].client = c

\* The clients in the list.
Listed == ToSet(clientSessions)

\* Which mutexes are held from one step of a handler to the next, and where.
LockInv ==
    /\ mutex["ClientSessions"] = NoThread
    /\ \A t \in Threads :
         /\ mutex["StreamingActive"] = t => call[t].at = "stream to all"
         /\ mutex["CommandsQueue"] = t =>
              call[t].at \in {"execute", "execute next"} /\ commandsQueue # <<>>

\* The handler that thread t runs will remove c.
Removes(t, c) == call[t].at = "remove" /\ call[t].client = c

\* The clients of the queued commands.
Queued == ToSet(commandsQueue)

\* Whatever the server knows of a client, the client has connected.
KnownInv ==
    \A c \in Clients : peer[c] = "away" =>
      /\ c \notin reads /\ writes[c] = 0
      /\ \A t \in Threads : ~Serves(t, c)
      /\ c \notin Listed /\ c \notin streamKeys /\ c \notin Queued

\* A session is in the list once.
ListedOnce == ~undefined => IsInjective(clientSessions)

\* As long as no write can fail.
UnwrittenInv ==
    writtenToGone = {} =>
      /\ ~undefined
      /\ \A c \in Clients : peer[c] = "closed" => writes[c] = 0
      /\ \A c \in Clients : peer[c] = "connected" => c \in Listed
      /\ \A c \in Clients : c \in reads => c \in Listed /\ \A t \in Threads : ~Serves(t, c)
      /\ \A c \in Clients, t \in Threads : Serves(t, c) =>
           c \in Listed /\ \A u \in Threads : Serves(u, c) => u = t

\* Only a client that has gone is removed.
RemovalInv == \A t \in Threads, c \in Clients : Removes(t, c) => peer[c] = "closed"

\* A client in the list will be heard.
HeardInv ==
    ~undefined => \A c \in Clients : c \in Listed
        => c \in reads \/ \E t \in Threads : Serves(t, c)

\* What the service of the clients relies on.
ServiceInv == RemovalInv /\ KnownInv /\ ListedOnce /\ UnwrittenInv /\ HeardInv

----------------------------------------------------------------------------
\* The list with a session more.
LEMMA ListExtended ==
  ASSUME NEW S, NEW s \in Seq(S), NEW e \in S
  PROVE  /\ Append(s, e) \in Seq(S) /\ ToSet(Append(s, e)) = ToSet(s) \cup {e}
         /\ IsInjective(s) /\ e \notin ToSet(s)
              => IsInjective(Append(s, e))
<1> DEFINE n == Len(s) + 1
           more == Append(s, e)
<1>1. /\ Len(s) \in Nat /\ DOMAIN s = 1 .. Len(s)
      /\ more \in Seq(S) /\ DOMAIN more = 1 .. n /\ more[n] = e
      /\ \A i \in 1 .. Len(s) : more[i] = s[i]
  BY AppendProperties, LenProperties
<1> HIDE DEF more
<1>2. \A i : i \in 1 .. n <=> i \in 1 .. Len(s) \/ i = n
  BY <1>1
<1>3. n \notin 1 .. Len(s)
  BY <1>1
<1> HIDE DEF n
<1>4. ToSet(more) = ToSet(s) \cup {e}
  BY <1>1, <1>2 DEF ToSet
<1>5. ASSUME IsInjective(s), e \notin ToSet(s) PROVE IsInjective(more)
  BY <1>1, <1>2, <1>3, <1>5 DEF IsInjective, ToSet
<1>6. QED
  BY <1>1, <1>4, <1>5 DEF more

\* The list without one of its sessions.
LEMMA ListWithout ==
  ASSUME NEW S, NEW s \in Seq(S), NEW e \in ToSet(s)
  PROVE  /\ RemoveFirst(s, e) \in Seq(S)
              /\ ToSet(RemoveFirst(s, e)) \subseteq ToSet(s)
         /\ IsInjective(s) => /\ IsInjective(RemoveFirst(s, e))
                              /\ ToSet(RemoveFirst(s,
                                   e)) = ToSet(s) \ {e}
<1> DEFINE len == Len(s)
           at == SelectInSeq(s, LAMBDA v : v = e)
           rest == RemoveFirst(s, e)
<1>1. len \in Nat /\ DOMAIN s = 1 .. len /\ \E i \in 1 .. len : s[i] = e
  BY LenProperties DEF ToSet
<1>2. at \in 1 .. len /\ s[at] = e
  <2> DEFINE I == {i \in 1 .. len : s[i] = e}
  <2>1. I # {} /\ I \subseteq Nat /\ I \subseteq 1 .. len
    BY <1>1
  <2>2. at = Min(I)
    BY <2>1 DEF SelectInSeq
  <2>3. \E x \in I : \A y \in I : x <= y
    BY <2>1, LeastElement
  <2>4. Min(I) \in I
    BY <2>3 DEF Min
  <2>5. QED
    BY <2>2, <2>4
<1>3. rest = SubSeq(s, 1, at - 1) \o SubSeq(s, at + 1, len)
  BY <1>1 DEF RemoveFirst, RemoveAt
<1> HIDE DEF at, rest
<1>4. /\ rest \in Seq(S) /\ Len(rest) = len - 1
      /\ \A i \in 1 .. len - 1 : rest[i] = IF i < at THEN s[i] ELSE s[i + 1]
  <2> DEFINE a == SubSeq(s, 1, at - 1)
             b == SubSeq(s, at + 1, len)
  <2>1. /\ a \in Seq(S) /\ Len(a) = at - 1
        /\ \A i \in 1 .. at - 1 : a[i] = s[i]
    BY <1>1, <1>2
  <2>2. /\ b \in Seq(S) /\ Len(b) = len - at
        /\ \A i \in 1 .. len - at : b[i] = s[at + i]
    <3>1. CASE at = len
      <4>1. b = <<>>
        BY <3>1, <1>1, <1>2
      <4>2. <<>> \in Seq(S) /\ Len(<<>>) = 0 /\ len - at = 0 /\ 1 .. 0 = {}
        BY <3>1, <1>1, <1>2
      <4>3. QED
        BY <4>1, <4>2
    <3>2. CASE at < len
      <4>1. at + 1 \in 1 .. len /\ len \in 1 .. len /\ len - (at + 1) + 1 = len - at
        BY <3>2, <1>1, <1>2
      <4>2. QED
        BY <3>2, <4>1, <1>1, <1>2, SubSeqProperties
    <3>3. at = len \/ at < len
      <4>1. len \in Nat /\ at \in 1 .. len
        BY <1>1, <1>2
      <4> HIDE DEF len
      <4>2. QED
        BY <4>1
    <3>4. QED
      BY <3>1, <3>2, <3>3
  <2> HIDE DEF a, b
  <2>3. /\ a \o b \in Seq(S) /\ Len(a \o b) = Len(a) + Len(b)
        /\ \A i \in 1 .. Len(a) + Len(b) :
             (a \o b)[i] = IF i <= Len(a) THEN a[i] ELSE b[i - Len(a)]
    BY <2>1, <2>2, ConcatProperties
  <2>4. ASSUME NEW i \in 1 .. len - 1
        PROVE  (a \o b)[i] = IF i < at THEN s[i] ELSE s[i + 1]
    <3>1. CASE i < at
      <4>1. i \in 1 .. at - 1 /\ i <= Len(a) /\ i \in 1 .. Len(a) + Len(b)
        BY <3>1, <1>1, <1>2, <2>1, <2>2
      <4>2. QED
        BY <3>1, <4>1, <2>1, <2>3
    <3>2. CASE ~(i < at)
      <4>1. /\ i - Len(a) \in 1 .. len - at /\ ~(i <= Len(a)) /\ i \in 1 .. Len(a) + Len(b)
            /\ at + (i - Len(a)) = i + 1
        BY <3>2, <1>1, <1>2, <2>1, <2>2
      <4>2. (a \o b)[i] = b[i - Len(a)]
        BY <4>1, <2>3
      <4>3. b[i - Len(a)] = s[at + (i - Len(a))]
        BY <4>1, <2>2
      <4>4. QED
        BY <3>2, <4>1, <4>2, <4>3
    <3>3. QED
      BY <3>1, <3>2
  <2>5. Len(a) + Len(b) = len - 1
    BY <1>1, <1>2, <2>1, <2>2
  <2>6. QED
    BY <2>3, <2>4, <2>5, <1>3 DEF a, b
<1>5. DOMAIN rest = 1 .. len - 1
  BY <1>4, LenProperties
<1> DEFINE from(i) == IF i < at THEN i ELSE i + 1
<1>6. \A i \in 1 .. len - 1 : /\ from(i) \in 1 .. len /\ from(i) # at
                              /\ rest[i] = s[from(i)]
  BY <1>1, <1>2, <1>4
<1>7. \A i, j \in 1 .. len - 1 : from(i) = from(j) => i = j
  BY <1>1, <1>2
<1>8. \A k \in 1 .. len : k # at => \E i \in 1 .. len - 1 : from(i) = k
  <2> SUFFICES ASSUME NEW k \in 1 .. len, k # at
               PROVE  \E i \in 1 .. len - 1 : from(i) = k
    OBVIOUS
  <2>1. CASE k < at
    <3>1. k \in 1 .. len - 1 /\ from(k) = k
      BY <2>1, <1>1, <1>2
    <3>2. QED
      BY <3>1
  <2>2. CASE ~(k < at)
    <3>1. k - 1 \in 1 .. len - 1 /\ from(k - 1) = k
      BY <2>2, <1>1, <1>2
    <3>2. QED
      BY <3>1
  <2>3. QED
    BY <2>1, <2>2
<1> HIDE DEF from, len
<1>9. ASSUME IsInjective(s)
      PROVE  IsInjective(rest) /\ ToSet(rest) = ToSet(s) \ {e}
  <2>1. \A i, j \in 1 .. len : s[i] = s[j] => i = j
    BY <1>1, <1>9 DEF IsInjective
  <2>2. IsInjective(rest)
    BY <2>1, <1>5, <1>6, <1>7 DEF IsInjective
  <2>3. ToSet(rest) = ToSet(s) \ {e}
    <3>1. ASSUME NEW x \in ToSet(rest) PROVE x \in ToSet(s) /\ x # e
      <4>1. PICK i \in 1 .. len - 1 : rest[i] = x
        BY <1>5 DEF ToSet
      <4>2. QED
        BY <4>1, <2>1, <1>1, <1>2, <1>6 DEF ToSet
    <3>2. ASSUME NEW x \in ToSet(s), x # e PROVE x \in ToSet(rest)
      <4>1. PICK k \in 1 .. len : s[k] = x
        BY <1>1 DEF ToSet
      <4>2. PICK i \in 1 .. len - 1 : from(i) = k
        BY <3>2, <4>1, <1>2, <1>8
      <4>3. QED
        BY <4>1, <4>2, <1>5, <1>6 DEF ToSet
    <3>3. QED
      BY <3>1, <3>2
  <2>4. QED
    BY <2>2, <2>3
<1>10. ToSet(rest) \subseteq ToSet(s)
  BY <1>1, <1>5, <1>6 DEF ToSet
<1>11. QED
  BY <1>4, <1>9, <1>10 DEF rest

\* The queue, and the list, with an element less at an end.
LEMMA EndsOf ==
  ASSUME NEW S, NEW s \in Seq(S), s # <<>>
  PROVE  /\ Head(s) \in S /\ Head(s) \in ToSet(s)
         /\ Tail(s) \in Seq(S) /\ ToSet(Tail(s)) \subseteq ToSet(s)
         /\ Front(s) \in Seq(S)
              /\ ToSet(Front(s)) \subseteq ToSet(s)
<1>1. Len(s) \in Nat /\ Len(s) # 0 /\ DOMAIN s = 1 .. Len(s)
  BY EmptySeq, LenProperties
<1>2. Head(s) \in S /\ Head(s) \in ToSet(s)
  BY <1>1 DEF ToSet
<1>3. Tail(s) \in Seq(S) /\ ToSet(Tail(s)) \subseteq ToSet(s)
  <2>1. /\ Tail(s) \in Seq(S) /\ DOMAIN Tail(s) = 1 .. Len(s) - 1
        /\ \A i \in 1 .. Len(s) - 1 : Tail(s)[i] = s[i + 1]
    BY HeadTailProperties, <1>1, LenProperties
  <2>2. QED
    BY <1>1, <2>1 DEF ToSet
<1>4. Front(s) \in Seq(S)
        /\ ToSet(Front(s)) \subseteq ToSet(s)
  <2>1. Front(s) = SubSeq(s, 1, Len(s) - 1)
    BY DEF Front
  <2>2. /\ Front(s) \in Seq(S) /\ DOMAIN Front(s) = 1 .. Len(s) - 1
        /\ \A i \in 1 .. Len(s) - 1 : Front(s)[i] = s[i]
    BY <1>1, <2>1, LenProperties
  <2>3. QED
    BY <1>1, <2>2 DEF ToSet
<1>5. QED
  BY <1>2, <1>3, <1>4

----------------------------------------------------------------------------
\* A call that goes on is the same call, of the same client.
LEMMA GoesOn ==
  ASSUME NEW k \in Calls,
         k.at = "remove" \/ k.at = "command" \/ k.at = "execute",
         NEW at \in {"reply", "unstream", "execute"}
  PROVE  /\ [k EXCEPT !.at = at] \in Calls
         /\ [k EXCEPT !.at = at].at = at /\ [k EXCEPT !.at = at].client = k.client
<1> DEFINE Waiting == [at : {"start", "reply", "remove", "unstream", "stream", "command",
                             "execute"}, client : Clients, text : BOOLEAN]
           Serial == [at : SerialHandlers, client : {NoClient}, text : {FALSE}]
<1>1. k \in Waiting
  <2>1. k = Idle \/ k \in Waiting \/ k \in Serial
    BY DEF Calls
  <2>2. Idle.at = "idle"
    BY DEF Idle
  <2>3. k \in Serial => k.at \in SerialHandlers
    OBVIOUS
  <2> HIDE DEF Waiting, Serial
  <2>4. QED
    BY <2>1, <2>2, <2>3 DEF SerialHandlers
<1>2. PICK c \in Clients, text \in BOOLEAN : k = [at |-> k.at, client |-> c, text |-> text]
  BY <1>1
<1>3. [k EXCEPT !.at = at] = [at |-> at, client |-> c, text |-> text]
  BY <1>2
<1>4. [k EXCEPT !.at = at] \in Waiting
  BY <1>3
<1>5. QED
  BY <1>2, <1>3, <1>4 DEF Calls


\* What the client and the text of a call are.
LEMMA CallOf ==
  ASSUME NEW k \in Calls
  PROVE  /\ k.at \in {"start", "reply", "remove", "unstream", "stream", "command", "execute"}
              => k.client \in Clients /\ k.text \in BOOLEAN
         /\ k.at \in {"idle", "start", "reply", "remove", "unstream", "stream", "command",
                      "execute"} \cup SerialHandlers
<1>1. CASE k = Idle
  BY <1>1 DEF Idle
<1>2. CASE k \in [at : {"start", "reply", "remove", "unstream", "stream", "command",
                        "execute"}, client : Clients, text : BOOLEAN]
  BY <1>2
<1>3. CASE k \in [at : SerialHandlers, client : {NoClient}, text : {FALSE}]
  <2>1. k.at \in SerialHandlers
    BY <1>3
  <2>2. QED
    BY <2>1 DEF SerialHandlers
<1>4. QED
  BY <1>1, <1>2, <1>3 DEF Calls

\* The calls there are.
LEMMA NewCalls ==
  /\ Idle \in Calls /\ Idle.at = "idle"
  /\ \A c, at : \A text \in BOOLEAN :
       /\ Call(at, c, text).at = at /\ Call(at, c, text).client = c
       /\ Call(at, c, text).text = text
  /\ \A c \in Clients, text \in BOOLEAN :
       \A at \in {"start", "reply", "remove", "unstream", "stream", "command", "execute"} :
         Call(at, c, text) \in Calls
  /\ \A at \in SerialHandlers :
       Call(at, NoClient, FALSE) \in Calls
                                /\ Call(at, NoClient, FALSE).at = at
  BY DEF Calls, Idle, Call, SerialHandlers

\* A write is started to the clients of S.
LEMMA Writing ==
  ASSUME SessionsTypeOK, NEW S \in SUBSET Clients, SendMessage(S)
  PROVE  /\ writes' \in [Clients -> Nat]
         /\ \A c \in Clients \ S : writes'[c] = writes[c]
         /\ writtenToGone' \subseteq Clients /\ writtenToGone \subseteq writtenToGone'
         /\ \A c \in Clients : c \in S /\ peer[c] = "closed" => c \in writtenToGone'
<1>1. \A c \in Clients : writes[c] \in Nat /\ writes[c] + 1 \in Nat
  BY DEF SessionsTypeOK
<1>2. writes' = [c \in Clients |-> IF c \in S THEN writes[c] + 1 ELSE writes[c]]
  BY DEF SendMessage
<1>3. writes' \in [Clients -> Nat] /\ \A c \in Clients \ S : writes'[c] = writes[c]
  BY <1>1, <1>2
<1>4. writtenToGone \subseteq Clients
  BY DEF SessionsTypeOK
<1>5. writtenToGone' = writtenToGone \cup {c \in S : peer[c] = "closed"}
  BY DEF SendMessage
<1>6. QED
  BY <1>3, <1>4, <1>5

\* A thread goes on to another call.
LEMMA Calling ==
  ASSUME SessionsTypeOK, NEW t \in Threads, NEW k \in Calls,
      call' = [call EXCEPT ![t] = k]
  PROVE  /\ call' \in [Threads -> Calls] /\ call'[t] = k
         /\ \A u \in Threads : u # t => call'[u] = call[u]
  BY DEF SessionsTypeOK

\* No thread begins to remove a client.
NoRemoval == \A u \in Threads, c \in Clients : Removes(u, c)' => Removes(u, c)
\* The service of the clients by the threads: it stays, or a thread begins or ends one.
SameService ==
    NoRemoval /\ \A u \in Threads, c \in Clients : Serves(u, c)' <=> Serves(u, c)
EndsService(t) ==
    NoRemoval /\ \A u \in Threads, c \in Clients : Serves(u, c)' <=> Serves(u, c) /\ u # t
BeginsService(t, e) ==
    /\ \A c \in Clients : ~Serves(t, c)
    /\ \A u \in Threads, c \in Clients : Serves(u, c)' <=> Serves(u, c) \/ (u = t /\ c = e)

\* The calls that serve a client.
Serving == {"start", "stream", "command", "execute", "reply", "remove"}

\* What the service is when a thread goes on to another call.
LEMMA Service ==
  ASSUME SessionsTypeOK, NEW t \in Threads, NEW k \in Calls,
      call' = [call EXCEPT ![t] = k]
  PROVE  /\ k.at \notin Serving => EndsService(t)
         /\ k.at \notin Serving /\ call[t].at \notin Serving => SameService
         /\ \A e \in Clients : k.at \in Serving /\ k.client = e /\ call[t].at \notin Serving
                              => BeginsService(t, e)
         /\ k.at \in Serving \ {"remove"} /\ call[t].at \in Serving /\ k.client = call[t].client
              => SameService
         /\ k.at # "remove" => NoRemoval
         /\ \A e \in Clients : k.client = e =>
              \A u \in Threads, c \in Clients : Removes(u, c)' => Removes(u, c) \/ c = e
<1>1. call'[t] = k /\ \A u \in Threads : u # t => call'[u] = call[u]
  BY Calling
<1>2. \A c : Serves(t, c)' <=> k.at \in Serving /\ k.client = c
  BY <1>1 DEF Serves, Serving
<1>3. \A c : \A u \in Threads : u # t => (Serves(u, c)' <=> Serves(u, c))
  BY <1>1 DEF Serves
<1>4. \A c : Serves(t, c) <=> call[t].at \in Serving /\ call[t].client = c
  BY DEF Serves, Serving
<1>5. /\ \A c : Removes(t, c)' => k.at = "remove" /\ k.client = c
      /\ \A u \in Threads, c \in Clients : u # t => (Removes(u, c)' <=> Removes(u, c))
  BY <1>1 DEF Removes
<1>6. k.at # "remove" => NoRemoval
  BY <1>5 DEF NoRemoval
<1>7. \A e \in Clients : k.client = e =>
        \A u \in Threads, c \in Clients : Removes(u, c)' => Removes(u, c) \/ c = e
  BY <1>5
<1>8. k.at \notin Serving => EndsService(t)
  BY <1>2, <1>3, <1>6 DEF EndsService, Serving
<1>9. k.at \notin Serving /\ call[t].at \notin Serving => SameService
  BY <1>2, <1>3, <1>4, <1>6 DEF SameService, Serving
<1>10. \A e \in Clients : k.at \in Serving /\ k.client = e /\ call[t].at \notin Serving
                         => BeginsService(t, e)
  <2> SUFFICES ASSUME NEW e \in Clients, k.at \in Serving, k.client = e, call[t].at \notin Serving
               PROVE  BeginsService(t, e)
    OBVIOUS
  <2>1. \A c \in Clients : ~Serves(t, c)
    BY <1>4
  <2>2. \A c \in Clients : Serves(t, c)' <=> c = e
    BY <1>2
  <2>3. QED
    BY <2>1, <2>2, <1>3 DEF BeginsService
<1>11. k.at \in Serving \ {"remove"} /\ call[t].at \in Serving /\ k.client = call[t].client
         => SameService
  BY <1>2, <1>3, <1>4, <1>6 DEF SameService
<1>12. QED
  BY <1>6, <1>7, <1>8, <1>9, <1>10, <1>11

\* The steps that end the service of a client.
LEMMA ServiceEnds ==
  ASSUME SessionsTypeOK, NEW t \in Threads
  PROVE  Start(t) \/ Reply(t) \/ RemoveFromSessions(t)
           => EndsService(t)
<1>1. Start(t) \/ Reply(t) => EndsService(t)
  <2>1. Idle \in Calls /\ Idle.at \notin Serving
    BY NewCalls DEF Serving
  <2>2. Start(t) \/ Reply(t) => call' = [call EXCEPT ![t] = Idle]
    BY DEF Start, Reply
  <2>3. QED
    BY <2>1, <2>2, Service
<1>2. RemoveFromSessions(t) => EndsService(t)
  <2> DEFINE k == [call[t] EXCEPT !.at = "unstream"]
  <2> SUFFICES ASSUME RemoveFromSessions(t) PROVE EndsService(t)
    OBVIOUS
  <2>1. k \in Calls /\ k.at = "unstream"
    BY GoesOn DEF RemoveFromSessions, Running, SessionsTypeOK
  <2>2. call' = [call EXCEPT ![t] = k]
    BY DEF RemoveFromSessions
  <2> HIDE DEF k
  <2>3. k.at \notin Serving
    BY <2>1 DEF Serving
  <2>4. QED
    BY <2>1, <2>2, <2>3, Service
<1>3. QED
  BY <1>1, <1>2

\* The steps that go on with a call without beginning or ending a service.
LEMMA ServiceStays ==
  ASSUME SessionsTypeOK, NEW t \in Threads
  PROVE  ToggleStream(t) \/ AddCommandToQueue(t)
           \/ RemoveFromStreams(t)
           \/ ReceivedFrequentData(t) \/ StreamToAll(t)
                \/ ReceivedCommandResponse(t)
           => SameService
<1>1. ASSUME ToggleStream(t) PROVE SameService
  <2> DEFINE c == call[t].client
             k == Call("reply", c, c \in streamsOn)
  <2>1. c \in Clients
    BY <1>1, CallOf DEF ToggleStream, Running, SessionsTypeOK
  <2>2. (c \in streamsOn) \in BOOLEAN /\ call[t].at \in Serving /\ call[t].client = c
    BY <1>1 DEF ToggleStream, Running, Serving
  <2>3. call' = [call EXCEPT ![t] = k]
    BY <1>1 DEF ToggleStream
  <2> HIDE DEF c
  <2>4. k \in Calls /\ k.at \in Serving \ {"remove"} /\ k.client = c
    <3>1. \A x \in BOOLEAN : /\ Call("reply", c, x) \in Calls
                             /\ Call("reply", c, x).at = "reply"
                             /\ Call("reply", c, x).client = c
      BY <2>1, NewCalls
    <3>2. QED
      BY <2>2, <3>1 DEF Serving
  <2> HIDE DEF k
  <2>5. QED
    BY <2>2, <2>3, <2>4, Service
<1>2. ASSUME AddCommandToQueue(t) PROVE SameService
  <2> DEFINE at == IF commandsQueue = <<>> THEN "execute" ELSE "reply"
             k == [call[t] EXCEPT !.at = at]
  <2>1. call[t] \in Calls /\ call[t].at = "command"
    BY <1>2 DEF AddCommandToQueue, Running, SessionsTypeOK
  <2>2. call' = [call EXCEPT ![t] = k]
    BY <1>2 DEF AddCommandToQueue
  <2>3. at \in {"execute", "reply"} /\ at \in {"reply", "unstream", "execute"}
    OBVIOUS
  <2> HIDE DEF at
  <2>4. k \in Calls /\ k.at = at /\ k.client = call[t].client
    BY <2>1, <2>3, GoesOn
  <2>5. k.at \in Serving \ {"remove"} /\ k.client = call[t].client
    BY <2>3, <2>4 DEF Serving
  <2> HIDE DEF k
  <2>6. QED
    BY <2>1, <2>2, <2>4, <2>5, Service DEF Serving
<1>3. ASSUME RemoveFromStreams(t) \/ StreamToAll(t) PROVE SameService
  <2>1. call' = [call EXCEPT ![t] = Idle] /\ call[t].at \notin Serving
    BY <1>3 DEF RemoveFromStreams, StreamToAll, Running, Serving
  <2>2. QED
    BY <2>1, Service, NewCalls DEF Serving
<1>4. ASSUME ReceivedFrequentData(t) \/ ReceivedCommandResponse(t)
      PROVE SameService
  <2>1. PICK at \in SerialHandlers :
          call' = [call EXCEPT ![t] = Call(at, NoClient, FALSE)]
    BY <1>4 DEF ReceivedFrequentData, ReceivedCommandResponse, SerialHandlers
  <2> DEFINE k == Call(at, NoClient, FALSE)
  <2>2. call[t].at \notin Serving
    BY <1>4 DEF ReceivedFrequentData, ReceivedCommandResponse, Running, Serving
  <2>3. k \in Calls /\ k.at \notin Serving
    BY NewCalls DEF Serving, SerialHandlers
  <2>4. QED
    BY <2>1, <2>2, <2>3, Service
<1>5. QED
  BY <1>1, <1>2, <1>3, <1>4

\* The thread that serves the queue goes on serving its client, or nobody.
LEMMA ServiceOfExecution ==
  ASSUME SessionsTypeOK, LockInv, NEW t \in Threads
  PROVE  ExecuteNext(t) \/ ExecuteFront(t) => SameService
<1> SUFFICES ASSUME ExecuteNext(t) \/ ExecuteFront(t) PROVE SameService
  OBVIOUS
<1> DEFINE k == IF call[t].at = "execute" THEN [call[t] EXCEPT !.at = "reply"]
                ELSE Idle
<1>1. call[t] \in Calls /\ call[t].at \in {"execute", "execute next"}
  BY DEF SessionsTypeOK, LockInv, Running, ExecuteNext, ExecuteFront
<1>2. \/ call' = [call EXCEPT ![t] = k]
      \/ call' = call
  BY DEF ExecuteNext, ExecuteFront
<1>3. CASE call' = call
  BY <1>3 DEF SameService, Serves, NoRemoval, Removes
<1>4. CASE call' = [call EXCEPT ![t] = k] /\ call[t].at = "execute"
  <2>1. k \in Calls /\ k.at = "reply" /\ k.client = call[t].client
    BY <1>1, <1>4, GoesOn
  <2>2. k.at \in Serving \ {"remove"} /\ call[t].at \in Serving
    BY <2>1, <1>4 DEF Serving
  <2> HIDE DEF k
  <2>3. QED
    BY <2>1, <2>2, <1>4, Service
<1>5. CASE call' = [call EXCEPT ![t] = k] /\ call[t].at = "execute next"
  <2>1. k = Idle /\ call[t].at \notin Serving
    BY <1>5 DEF Serving
  <2> HIDE DEF k
  <2>2. QED
    BY <2>1, <1>5, Service, NewCalls DEF Serving
<1>6. QED
  BY <1>1, <1>2, <1>3, <1>4, <1>5

\* The steps that begin the service of a client.
LEMMA ServiceBegins ==
  ASSUME SessionsTypeOK, NEW t \in Threads, NEW c \in Clients
  PROVE  /\ HandleAccept(t, c) \/ HandleRead(t, c)
              => BeginsService(t, c) /\ NoRemoval
         /\ HandleReadError(t, c) \/ HandleWriteError(t, c) =>
              \/ /\ Alive(c) /\ BeginsService(t, c) /\ undefined' = undefined
                 /\ \A u \in Threads, d \in Clients : Removes(u, d)' => Removes(u, d) \/ d = c
              \/ ~Alive(c) /\ SameService /\ undefined' = TRUE
<1>1. \A at \in Serving, text \in BOOLEAN :
        /\ call[t].at = "idle"
        /\ call' = [call EXCEPT ![t] = Call(at, c, text)]
        => /\ BeginsService(t, c)
           /\ \A u \in Threads, d \in Clients : Removes(u, d)' => Removes(u, d) \/ d = c
           /\ at # "remove" => NoRemoval
  <2> SUFFICES ASSUME NEW at \in Serving, NEW text \in BOOLEAN, call[t].at = "idle",
                      call' = [call EXCEPT ![t] = Call(at, c, text)]
               PROVE  /\ BeginsService(t, c)
                      /\ \A u \in Threads, d \in Clients :
                           Removes(u, d)' => Removes(u, d) \/ d = c
                      /\ at # "remove" => NoRemoval
    OBVIOUS
  <2> DEFINE k == Call(at, c, text)
  <2>1. k \in Calls /\ k.at = at /\ k.client = c
    BY NewCalls DEF Serving
  <2>2. call[t].at \notin Serving
    BY DEF Serving
  <2> HIDE DEF k
  <2>3. call' = [call EXCEPT ![t] = k]
    BY DEF k
  <2>4. QED
    BY <2>1, <2>2, <2>3, Service
<1>2. HandleAccept(t, c) => BeginsService(t, c) /\ NoRemoval
  BY <1>1 DEF HandleAccept, Running, Serving
<1>3. ASSUME HandleRead(t, c) PROVE BeginsService(t, c) /\ NoRemoval
  <2>1. input[c] \in {"text", "stream", "command"}
    BY <1>3 DEF HandleRead, SessionsTypeOK, Inputs
  <2>2. PICK at \in Serving \ {"remove"}, text \in BOOLEAN :
          call' = [call EXCEPT ![t] = Call(at, c, text)]
    BY <1>3, <2>1 DEF HandleRead, Serving
  <2>3. QED
    BY <1>1, <1>3, <2>2 DEF HandleRead, Running
<1>4. ASSUME HandleReadError(t, c) \/ HandleWriteError(t, c)
      PROVE  \/ /\ Alive(c) /\ BeginsService(t, c) /\ undefined' = undefined
                /\ \A u \in Threads, d \in Clients : Removes(u, d)' => Removes(u, d) \/ d = c
             \/ ~Alive(c) /\ SameService /\ undefined' = TRUE
  <2>1. call[t].at = "idle" /\ HandleError(t, c)
    BY <1>4 DEF HandleReadError, HandleWriteError, Running
  <2>2. CASE Alive(c)
    BY <1>1, <2>1, <2>2 DEF HandleError, Serving
  <2>3. CASE ~Alive(c)
    <3>1. call' = call /\ undefined' = TRUE
      BY <2>1, <2>3 DEF HandleError
    <3>2. QED
      BY <2>3, <3>1 DEF SameService, Serves, NoRemoval, Removes
  <2>4. QED
    BY <2>2, <2>3
<1>5. QED
  BY <1>2, <1>3, <1>4

\* A step that calls nothing.
LEMMA ServiceUnchanged ==
  ASSUME call' = call
  PROVE  SameService
  BY DEF SameService, Serves, NoRemoval, Removes

\* The client that a call serves.
LEMMA ServedClient ==
  ASSUME SessionsTypeOK, NEW t \in Threads, call[t].at \in Serving
  PROVE  call[t].client \in Clients /\ \A c : Serves(t, c) <=> c = call[t].client
  BY CallOf DEF SessionsTypeOK, Serves, Serving

\* The list of the sessions, and the queue, when they do not change.
LEMMA ListsUnchanged ==
  /\ clientSessions' = clientSessions => Listed' = Listed
  /\ commandsQueue' = commandsQueue => Queued' = Queued
  BY DEF Listed, Queued

\* Steps that leave the sessions and what is written to them alone.
Unmoved == UNCHANGED <<peer, clientSessions, writtenToGone, undefined>>
\* An error handler leaves a call or undefined behaviour.
LEMMA ErrorHandled ==
  ASSUME SessionsTypeOK, NEW t \in Threads, NEW c \in Clients, HandleError(t, c)
  PROVE  call' \in [Threads -> Calls] /\ undefined' \in BOOLEAN
<1>1. Call("remove", c, FALSE) \in Calls
  BY NewCalls
<1>2. call' = call \/ call' = [call EXCEPT ![t] = Call("remove", c, FALSE)]
  BY DEF HandleError
<1>3. call' \in [Threads -> Calls]
  BY <1>1, <1>2, Calling DEF SessionsTypeOK
<1>4. QED
  BY <1>3 DEF HandleError, SessionsTypeOK

\* Every step keeps the types.
LEMMA TypeStep ==
  ASSUME SessionsTypeOK, LockInv, [SessionsNext]_allSessionVars
  PROVE  SessionsTypeOK'
<1>1. ASSUME NEW c \in Clients, NEW what \in Inputs, PeerSends(c, what)
      PROVE SessionsTypeOK'
  BY <1>1, SessionsAssumption DEF PeerSends, SessionsTypeOK, sessionVars, Inputs
<1>2. ASSUME NEW c \in Clients, PeerCloses(c) PROVE SessionsTypeOK'
  BY <1>2 DEF PeerCloses, SessionsTypeOK, Running, sessionVars
<1>3. ASSUME NEW t \in Threads, NEW c \in Clients, HandleAccept(t, c)
      PROVE SessionsTypeOK'
  BY <1>3, ListExtended, NewCalls DEF HandleAccept, SessionsTypeOK, Running, sessionVars, Idle
<1>4. ASSUME NEW t \in Threads, Start(t) PROVE SessionsTypeOK'
  BY <1>4, CallOf, NewCalls DEF Start, SessionsTypeOK, Running, sessionVars, SendMessage
<1>5. ASSUME NEW t \in Threads, NEW c \in Clients, HandleRead(t, c)
      PROVE SessionsTypeOK'
  <2> DEFINE k == IF input[c] = "text" THEN Call("reply", c, TRUE)
                  ELSE Call(input[c], c, FALSE)
  <2>1. k \in Calls
    <3>1. input[c] \in {"text", "stream", "command"}
      BY <1>5 DEF HandleRead, SessionsTypeOK, Inputs
    <3>2. QED
      BY <3>1, NewCalls
  <2>2. call' = [call EXCEPT ![t] = k]
    BY <1>5 DEF HandleRead
  <2> HIDE DEF k
  <2>3. call' \in [Threads -> Calls]
    BY <2>1, <2>2, Calling
  <2>4. QED
    BY <1>5, <2>3 DEF HandleRead, SessionsTypeOK, sessionVars
<1>6. ASSUME NEW t \in Threads, ToggleStream(t) PROVE SessionsTypeOK'
  <2> DEFINE c == call[t].client
             k == Call("reply", c, c \in streamsOn)
  <2>1. c \in Clients /\ k \in Calls
    <3>1. c \in Clients
      BY <1>6, CallOf DEF ToggleStream, Running, SessionsTypeOK
    <3>2. (c \in streamsOn) \in BOOLEAN
      OBVIOUS
    <3> HIDE DEF c
    <3>3. QED
      BY <3>1, <3>2, NewCalls
  <2>2. call' = [call EXCEPT ![t] = k]
    BY <1>6 DEF ToggleStream
  <2>3. streamKeys' = streamKeys \cup {c} /\ streamsOn' \subseteq streamsOn \cup {c}
    BY <1>6 DEF ToggleStream
  <2> HIDE DEF k, c
  <2>4. call' \in [Threads -> Calls]
    BY <2>1, <2>2, Calling
  <2>5. QED
    BY <1>6, <2>1, <2>3, <2>4 DEF ToggleStream, SessionsTypeOK
<1>7. ASSUME NEW t \in Threads, AddCommandToQueue(t) PROVE SessionsTypeOK'
  BY <1>7, CallOf, GoesOn, ListExtended
     DEF AddCommandToQueue, SessionsTypeOK, Running, sessionVars
<1>8. ASSUME NEW t \in Threads, Reply(t) PROVE SessionsTypeOK'
  <2>1. call[t].client \in Clients
    BY <1>8, CallOf DEF Reply, Running, SessionsTypeOK
  <2>2. call' \in [Threads -> Calls]
    BY <1>8, NewCalls, Calling DEF Reply
  <2>3. /\ writes' \in [Clients -> Nat] /\ writtenToGone' \subseteq Clients
        /\ reads' \subseteq Clients /\ undefined' \in BOOLEAN
    BY <1>8, <2>1, Writing DEF Reply, NextRead, SessionsTypeOK
  <2>4. QED
    BY <1>8, <2>2, <2>3 DEF Reply, SessionsTypeOK, sessionVars
<1>9. ASSUME NEW t \in Threads, NEW c \in Clients, HandleReadError(t, c)
      PROVE SessionsTypeOK'
  BY <1>9, ErrorHandled DEF HandleReadError, SessionsTypeOK, Running, sessionVars, ReadsAfterError
<1>10. ASSUME NEW t \in Threads, NEW c \in Clients, HandleWrite(t, c)
       PROVE SessionsTypeOK'
  BY <1>10 DEF HandleWrite, SessionsTypeOK, Running, sessionVars
<1>11. ASSUME NEW t \in Threads, NEW c \in Clients, HandleWriteError(t, c)
       PROVE SessionsTypeOK'
  <2>1. call' \in [Threads -> Calls] /\ undefined' \in BOOLEAN
    BY <1>11, ErrorHandled DEF HandleWriteError
  <2>2. writes' \in [Clients -> Nat]
    BY <1>11 DEF HandleWriteError, SessionsTypeOK
  <2>3. QED
    BY <1>11, <2>1, <2>2 DEF HandleWriteError, SessionsTypeOK, sessionVars
<1>12. ASSUME NEW t \in Threads, RemoveFromSessions(t) PROVE SessionsTypeOK'
  <2>1. call' \in [Threads -> Calls]
    <3> DEFINE k == [call[t] EXCEPT !.at = "unstream"]
    <3>1. k \in Calls
      BY <1>12, GoesOn DEF RemoveFromSessions, Running, SessionsTypeOK
    <3>2. call' = [call EXCEPT ![t] = k]
      BY <1>12 DEF RemoveFromSessions
    <3> HIDE DEF k
    <3>3. QED
      BY <3>1, <3>2, Calling
  <2>2. clientSessions' \in Seq(Clients)
    BY <1>12, ListWithout, EndsOf DEF RemoveFromSessions, SessionsTypeOK
  <2>3. undefined' \in BOOLEAN /\ halted' \in BOOLEAN
    BY <1>12 DEF RemoveFromSessions, SessionsTypeOK
  <2>4. QED
    BY <1>12, <2>1, <2>2, <2>3 DEF RemoveFromSessions, SessionsReleased, SessionsTypeOK
<1>13. ASSUME NEW t \in Threads, RemoveFromStreams(t) PROVE SessionsTypeOK'
  BY <1>13, NewCalls
     DEF RemoveFromStreams, SessionsTypeOK, Running, sessionVars, StreamsWithout, Released
<1>14. ASSUME NEW t \in Threads, ReceivedFrequentData(t) PROVE SessionsTypeOK'
  BY <1>14, NewCalls
     DEF ReceivedFrequentData, SessionsTypeOK, Running, sessionVars, SerialHandlers, Mutexes
<1>15. ASSUME NEW t \in Threads, StreamToAll(t) PROVE SessionsTypeOK'
  <2>1. call' \in [Threads -> Calls]
    BY <1>15, NewCalls, Calling DEF StreamToAll
  <2>2. writes' \in [Clients -> Nat] /\ writtenToGone' \subseteq Clients
    <3>1. streamsOn \in SUBSET Clients
      BY DEF SessionsTypeOK
    <3>2. QED
      BY <1>15, <3>1, Writing DEF StreamToAll
  <2>3. mutex' \in [Mutexes -> Threads \cup {NoThread}]
    BY <1>15 DEF StreamToAll, Released, SessionsTypeOK
  <2>4. QED
    BY <1>15, <2>1, <2>2, <2>3 DEF StreamToAll, SessionsTypeOK, sessionVars
<1>16. ASSUME NEW t \in Threads, ReceivedCommandResponse(t) PROVE SessionsTypeOK'
  <2>1. call' \in [Threads -> Calls]
    BY <1>16, NewCalls, Calling DEF ReceivedCommandResponse, SerialHandlers
  <2>2. writes' \in [Clients -> Nat] /\ writtenToGone' \subseteq Clients
    <3>1. {Head(commandsQueue)} \in SUBSET Clients
      BY <1>16, EndsOf DEF ReceivedCommandResponse, SessionsTypeOK
    <3>2. QED
      BY <1>16, <3>1, Writing DEF ReceivedCommandResponse
  <2>3. commandsQueue' \in Seq(Clients) /\ awaiting' \in BOOLEAN
    BY <1>16, EndsOf DEF ReceivedCommandResponse, SessionsTypeOK
  <2>4. QED
    BY <1>16, <2>1, <2>2, <2>3 DEF ReceivedCommandResponse, SessionsTypeOK
<1>17. ASSUME NEW t \in Threads, ExecuteNext(t) PROVE SessionsTypeOK'
  <2>1. mutex' \in [Mutexes -> Threads \cup {NoThread}]
    BY <1>17 DEF ExecuteNext, SessionsTypeOK
  <2>2. call' \in [Threads -> Calls]
    <3> DEFINE k == IF call[t].at = "execute" THEN [call[t] EXCEPT !.at = "reply"]
                    ELSE Idle
    <3>1. k \in Calls
      BY <1>17, GoesOn, NewCalls DEF SessionsTypeOK
    <3>2. call' = [call EXCEPT ![t] = k] \/ call' = call
      BY <1>17 DEF ExecuteNext
    <3> HIDE DEF k
    <3>3. QED
      BY <3>1, <3>2, Calling DEF SessionsTypeOK
  <2>3. QED
    BY <1>17, <2>1, <2>2 DEF ExecuteNext, SessionsTypeOK, sessionVars
<1>18. ASSUME NEW t \in Threads, ExecuteFront(t) PROVE SessionsTypeOK'
  <2>1. mutex' \in [Mutexes -> Threads \cup {NoThread}]
    BY <1>18 DEF ExecuteFront, Released, SessionsTypeOK
  <2>2. call' \in [Threads -> Calls]
    <3> DEFINE k == IF call[t].at = "execute" THEN [call[t] EXCEPT !.at = "reply"]
                    ELSE Idle
    <3>1. k \in Calls
      BY <1>18, GoesOn, NewCalls DEF SessionsTypeOK
    <3>2. call' = [call EXCEPT ![t] = k] \/ call' = call
      BY <1>18 DEF ExecuteFront
    <3> HIDE DEF k
    <3>3. QED
      BY <3>1, <3>2, Calling DEF SessionsTypeOK
  <2>3. commandsQueue # <<>>
    BY <1>18 DEF ExecuteFront, LockInv
  <2>4. commandsQueue' \in Seq(Clients) /\ awaiting' \in BOOLEAN
    <3>1. commandsQueue \in Seq(Clients) /\ awaiting \in BOOLEAN
      BY DEF SessionsTypeOK
    <3>2. Tail(commandsQueue) \in Seq(Clients)
      BY <3>1, <2>3, EndsOf
    <3>3. QED
      BY <1>18, <3>1, <3>2 DEF ExecuteFront
  <2>5. QED
    BY <1>18, <2>1, <2>2, <2>4 DEF ExecuteFront, SessionsTypeOK
<1>19. CASE UNCHANGED allSessionVars
  BY <1>19 DEF allSessionVars, sessionVars, SessionsTypeOK, Running
<1>20. QED
  BY <1>1, <1>2, <1>3, <1>4, <1>5, <1>6, <1>7, <1>8, <1>9, <1>10, <1>11, <1>12, <1>13, <1>14,
     <1>15, <1>16, <1>17, <1>18, <1>19
     DEF SessionsNext, GoOn, Handle

\* Every step keeps the mutexes where they are held.
LEMMA LockStep ==
  ASSUME SessionsTypeOK, LockInv, [SessionsNext]_allSessionVars
  PROVE  LockInv'
<1>1. ASSUME NEW c \in Clients, NEW what \in Inputs, PeerSends(c, what)
      PROVE LockInv'
  BY <1>1, SessionsAssumption
     DEF PeerSends, LockInv, SessionsTypeOK, Running, Mutexes, sessionVars
<1>2. ASSUME NEW c \in Clients, PeerCloses(c) PROVE LockInv'
  BY <1>2, SessionsAssumption
     DEF PeerCloses, LockInv, SessionsTypeOK, Running, Mutexes, sessionVars
<1>3. ASSUME NEW t \in Threads, NEW c \in Clients, HandleAccept(t, c) PROVE LockInv'
  <2>1. \A u \in Threads : u # t => call'[u] = call[u]
    <3>1. Call("start", c, FALSE) \in Calls
      BY NewCalls
    <3>2. QED
      BY <1>3, <3>1, Calling DEF HandleAccept
  <2>2. mutex' = mutex /\ commandsQueue' = commandsQueue
    BY <1>3 DEF HandleAccept
  <2>3. mutex["StreamingActive"] # t /\ mutex["CommandsQueue"] # t
    BY <1>3 DEF HandleAccept, Running, LockInv
  <2>4. QED
    BY <2>1, <2>2, <2>3 DEF LockInv
<1>4. ASSUME NEW t \in Threads, Start(t) PROVE LockInv'
  BY <1>4, SessionsAssumption DEF Start, LockInv, SessionsTypeOK, Running, Mutexes, sessionVars
<1>5. ASSUME NEW t \in Threads, NEW c \in Clients, HandleRead(t, c) PROVE LockInv'
  BY <1>5, SessionsAssumption
     DEF HandleRead, LockInv, SessionsTypeOK, Running, Mutexes, sessionVars
<1>6. ASSUME NEW t \in Threads, ToggleStream(t) PROVE LockInv'
  BY <1>6, SessionsAssumption
     DEF ToggleStream, LockInv, SessionsTypeOK, Running, Mutexes, sessionVars
<1>7. ASSUME NEW t \in Threads, AddCommandToQueue(t) PROVE LockInv'
  BY <1>7, SessionsAssumption
     DEF AddCommandToQueue, LockInv, SessionsTypeOK, Running, Mutexes, sessionVars, Free
<1>8. ASSUME NEW t \in Threads, Reply(t) PROVE LockInv'
  BY <1>8, SessionsAssumption DEF Reply, LockInv, SessionsTypeOK, Running, Mutexes, sessionVars
<1>9. ASSUME NEW t \in Threads, NEW c \in Clients, HandleReadError(t, c) PROVE LockInv'
  BY <1>9, SessionsAssumption
     DEF HandleReadError, LockInv, SessionsTypeOK, Running, Mutexes, sessionVars, HandleError
<1>10. ASSUME NEW t \in Threads, NEW c \in Clients, HandleWrite(t, c) PROVE LockInv'
  BY <1>10, SessionsAssumption
     DEF HandleWrite, LockInv, SessionsTypeOK, Running, Mutexes, sessionVars
<1>11. ASSUME NEW t \in Threads, NEW c \in Clients, HandleWriteError(t, c) PROVE LockInv'
  BY <1>11, SessionsAssumption
     DEF HandleWriteError, LockInv, SessionsTypeOK, Running, Mutexes, sessionVars, HandleError
<1>12. ASSUME NEW t \in Threads, RemoveFromSessions(t) PROVE LockInv'
  BY <1>12, SessionsAssumption
     DEF RemoveFromSessions, LockInv, SessionsTypeOK, Running, Mutexes, sessionVars,
         SessionsReleased
<1>13. ASSUME NEW t \in Threads, RemoveFromStreams(t) PROVE LockInv'
  BY <1>13, SessionsAssumption
     DEF RemoveFromStreams, LockInv, SessionsTypeOK, Running, Mutexes, sessionVars, Released
<1>14. ASSUME NEW t \in Threads, ReceivedFrequentData(t) PROVE LockInv'
  <2>1. /\ call'[t].at = "stream to all"
        /\ \A u \in Threads : u # t => call'[u] = call[u]
    <3> DEFINE k == Call("stream to all", NoClient, FALSE)
    <3>1. k \in Calls /\ k.at = "stream to all"
      BY NewCalls DEF SerialHandlers
    <3>2. call' = [call EXCEPT ![t] = k]
      BY <1>14 DEF ReceivedFrequentData
    <3> HIDE DEF k
    <3>3. QED
      BY <3>1, <3>2, Calling
  <2>2. mutex' = [mutex EXCEPT !["StreamingActive"] = t] /\ commandsQueue' = commandsQueue
    BY <1>14 DEF ReceivedFrequentData, sessionVars
  <2>3. mutex["CommandsQueue"] # t
    BY <1>14 DEF ReceivedFrequentData, Running, LockInv
  <2>4. QED
    BY <2>1, <2>2, <2>3 DEF LockInv, SessionsTypeOK, Mutexes
<1>15. ASSUME NEW t \in Threads, StreamToAll(t) PROVE LockInv'
  BY <1>15, SessionsAssumption
     DEF StreamToAll, LockInv, SessionsTypeOK, Running, Mutexes, sessionVars, Released
<1>16. ASSUME NEW t \in Threads, ReceivedCommandResponse(t) PROVE LockInv'
  <2>1. \A u \in Threads : u # t => call'[u] = call[u]
    BY <1>16, NewCalls, Calling DEF ReceivedCommandResponse, SerialHandlers
  <2>2. mutex' = mutex /\ mutex["CommandsQueue"] = NoThread
    BY <1>16 DEF ReceivedCommandResponse, Free
  <2>3. mutex["StreamingActive"] # t
    BY <1>16 DEF ReceivedCommandResponse, Running, LockInv
  <2>4. ASSUME NEW u \in Threads
        PROVE  /\ mutex["CommandsQueue"] # u
               /\ mutex["StreamingActive"] = u => call'[u] = call[u]
    BY <2>1, <2>2, <2>3, SessionsAssumption
  <2>5. QED
    BY <2>2, <2>4, SessionsAssumption DEF LockInv
<1>17. ASSUME NEW t \in Threads, ExecuteNext(t) PROVE LockInv'
  BY <1>17, SessionsAssumption
     DEF ExecuteNext, LockInv, SessionsTypeOK, Running, Mutexes, sessionVars, Free
<1>18. ASSUME NEW t \in Threads, ExecuteFront(t) PROVE LockInv'
  BY <1>18, SessionsAssumption
     DEF ExecuteFront, LockInv, SessionsTypeOK, Running, Mutexes, sessionVars, Released
<1>19. CASE UNCHANGED allSessionVars
  BY <1>19, SessionsAssumption
     DEF allSessionVars, sessionVars, LockInv, SessionsTypeOK, Running, Mutexes
<1>20. QED
  BY <1>1, <1>2, <1>3, <1>4, <1>5, <1>6, <1>7, <1>8, <1>9, <1>10, <1>11, <1>12, <1>13, <1>14,
     <1>15, <1>16, <1>17, <1>18, <1>19
     DEF SessionsNext, GoOn, Handle

\* Every step keeps the service of the clients.
LEMMA ServiceStep ==
  ASSUME SessionsTypeOK, LockInv, ServiceInv,
      [SessionsNext]_allSessionVars
  PROVE  ServiceInv'
<1>1. ASSUME NEW c \in Clients, NEW what \in Inputs, PeerSends(c, what)
      PROVE ServiceInv'
  <2>1. SameService
    BY <1>1, ServiceUnchanged DEF PeerSends
  <2>2. /\ UNCHANGED <<peer, clientSessions, streamKeys, reads, writes, writtenToGone, undefined>>
        /\ Listed' = Listed /\ Queued' = Queued
    BY <1>1, ListsUnchanged DEF PeerSends, sessionVars
  <2>3. RemovalInv'
    BY <2>1, <2>2 DEF ServiceInv, RemovalInv, SessionsTypeOK, SameService, NoRemoval
  <2>4. KnownInv'
    BY <2>1, <2>2 DEF ServiceInv, KnownInv, SessionsTypeOK, SameService
  <2>5. ListedOnce'
    BY <2>1, <2>2 DEF ServiceInv, ListedOnce, SessionsTypeOK
  <2>6. UnwrittenInv'
    BY <2>1, <2>2 DEF ServiceInv, UnwrittenInv, SessionsTypeOK, SameService
  <2>7. HeardInv'
    BY <2>1, <2>2 DEF ServiceInv, HeardInv, SessionsTypeOK, SameService
  <2>8. QED
    BY <2>3, <2>4, <2>5, <2>6, <2>7 DEF ServiceInv
<1>2. ASSUME NEW c \in Clients, PeerCloses(c) PROVE ServiceInv'
  <2>1. SameService
    BY <1>2, ServiceUnchanged DEF PeerCloses
  <2>2. /\ writes[c] > 0 => c \in writtenToGone'
        /\ ~(writes[c] > 0) => writes[c] = 0 /\ writtenToGone' = writtenToGone
        /\ writtenToGone \subseteq writtenToGone'
    BY <1>2 DEF PeerCloses, SessionsTypeOK
  <2>3. /\ peer[c] = "connected" /\ peer' = [peer EXCEPT ![c] = "closed"]
        /\ writtenToGone' = IF writes[c] > 0 THEN writtenToGone \cup {c} ELSE writtenToGone
        /\ UNCHANGED <<clientSessions, streamKeys, reads, writes, undefined>>
        /\ Listed' = Listed /\ Queued' = Queued
    BY <1>2, ListsUnchanged DEF PeerCloses, sessionVars
  <2>4. RemovalInv'
    BY <2>1, <2>2, <2>3 DEF ServiceInv, RemovalInv, SessionsTypeOK, SameService, NoRemoval
  <2>5. KnownInv'
    BY <2>1, <2>2, <2>3 DEF ServiceInv, KnownInv, SessionsTypeOK, SameService
  <2>6. ListedOnce'
    BY <2>1, <2>2, <2>3 DEF ServiceInv, ListedOnce, SessionsTypeOK
  <2>7. UnwrittenInv'
    BY <2>1, <2>2, <2>3 DEF ServiceInv, UnwrittenInv, SessionsTypeOK, SameService
  <2>8. HeardInv'
    BY <2>1, <2>2, <2>3 DEF ServiceInv, HeardInv, SessionsTypeOK, SameService
  <2>9. QED
    BY <2>4, <2>5, <2>6, <2>7, <2>8 DEF ServiceInv
<1>3. ASSUME NEW t \in Threads, NEW c \in Clients, HandleAccept(t, c) PROVE ServiceInv'
  <2>1. BeginsService(t, c) /\ NoRemoval
    BY <1>3, ServiceBegins
  <2>2. /\ clientSessions \in Seq(Clients) /\ clientSessions' = Append(clientSessions, c)
        /\ Listed' = Listed \cup {c}
        /\ c \notin Listed /\ IsInjective(clientSessions)
             => IsInjective(clientSessions')
    BY <1>3, ListExtended DEF HandleAccept, Listed, SessionsTypeOK
  <2>3. /\ peer[c] = "away" /\ peer' = [peer EXCEPT ![c] = "connected"]
        /\ UNCHANGED <<streamKeys, reads, writes, writtenToGone, undefined>>
        /\ Queued' = Queued
    BY <1>3, ListsUnchanged DEF HandleAccept, sessionVars
  <2>4. Serves(t, c)'
    BY <2>1 DEF BeginsService
  <2>5. RemovalInv'
    BY <2>1, <2>2, <2>3, <2>4
       DEF ServiceInv, RemovalInv, KnownInv, SessionsTypeOK, BeginsService, NoRemoval
  <2>6. KnownInv'
    BY <2>1, <2>2, <2>3, <2>4 DEF ServiceInv, KnownInv, SessionsTypeOK, BeginsService
  <2>7. ListedOnce'
    BY <2>1, <2>2, <2>3, <2>4 DEF ServiceInv, ListedOnce, KnownInv, SessionsTypeOK
  <2>8. UnwrittenInv'
    BY <2>1, <2>2, <2>3, <2>4
       DEF ServiceInv, UnwrittenInv, KnownInv, SessionsTypeOK, BeginsService
  <2>9. HeardInv'
    BY <2>1, <2>2, <2>3, <2>4 DEF ServiceInv, HeardInv, KnownInv, SessionsTypeOK, BeginsService
  <2>10. QED
    BY <2>5, <2>6, <2>7, <2>8, <2>9 DEF ServiceInv
<1>4. ASSUME NEW t \in Threads, Start(t) PROVE ServiceInv'
  <2> DEFINE c == call[t].client
  <2>1. c \in Clients /\ \A d \in Clients : Serves(t, d) <=> d = c
    BY <1>4, ServedClient DEF Start, Running, Serving
  <2>2. EndsService(t)
    BY <1>4, ServiceEnds
  <2>3. /\ \A d \in Clients : d # c => writes'[d] = writes[d]
        /\ writtenToGone \subseteq writtenToGone'
        /\ peer[c] = "closed" /\ writes'[c] # writes[c] => c \in writtenToGone'
    BY <1>4, <2>1, Writing DEF Start
  <2>4. /\ reads' = reads \cup {c}
        /\ UNCHANGED <<peer, clientSessions, streamKeys, undefined>>
        /\ Listed' = Listed /\ Queued' = Queued
    BY <1>4, ListsUnchanged DEF Start, sessionVars
  <2>5. RemovalInv'
    BY <2>1, <2>2, <2>3, <2>4 DEF ServiceInv, RemovalInv, SessionsTypeOK, EndsService, NoRemoval
  <2>6. KnownInv'
    BY <2>1, <2>2, <2>3, <2>4 DEF ServiceInv, KnownInv, SessionsTypeOK, EndsService
  <2>7. ListedOnce'
    BY <2>1, <2>2, <2>3, <2>4 DEF ServiceInv, ListedOnce, SessionsTypeOK
  <2>8. UnwrittenInv'
    BY <2>1, <2>2, <2>3, <2>4 DEF ServiceInv, UnwrittenInv, SessionsTypeOK, EndsService
  <2>9. HeardInv'
    BY <2>1, <2>2, <2>3, <2>4 DEF ServiceInv, HeardInv, SessionsTypeOK, EndsService
  <2>10. QED
    BY <2>5, <2>6, <2>7, <2>8, <2>9 DEF ServiceInv
<1>5. ASSUME NEW t \in Threads, NEW c \in Clients, HandleRead(t, c) PROVE ServiceInv'
  <2>1. BeginsService(t, c) /\ NoRemoval
    BY <1>5, ServiceBegins
  <2>2. /\ c \in reads /\ reads' = reads \ {c}
        /\ UNCHANGED <<peer, clientSessions, streamKeys, writes, writtenToGone, undefined>>
        /\ Listed' = Listed /\ Queued' = Queued
    BY <1>5, ListsUnchanged DEF HandleRead, sessionVars
  <2>3. RemovalInv'
    BY <2>1, <2>2 DEF ServiceInv, RemovalInv, SessionsTypeOK, BeginsService, NoRemoval
  <2>4. KnownInv'
    BY <2>1, <2>2 DEF ServiceInv, KnownInv, SessionsTypeOK, BeginsService
  <2>5. ListedOnce'
    BY <2>1, <2>2 DEF ServiceInv, ListedOnce, SessionsTypeOK
  <2>6. UnwrittenInv'
    BY <2>1, <2>2 DEF ServiceInv, UnwrittenInv, SessionsTypeOK, BeginsService
  <2>7. HeardInv'
    BY <2>1, <2>2 DEF ServiceInv, HeardInv, SessionsTypeOK, BeginsService
  <2>8. QED
    BY <2>3, <2>4, <2>5, <2>6, <2>7 DEF ServiceInv
<1>6. ASSUME NEW t \in Threads, ToggleStream(t) PROVE ServiceInv'
  <2> DEFINE c == call[t].client
  <2>1. c \in Clients /\ \A d \in Clients : Serves(t, d) <=> d = c
    BY <1>6, ServedClient DEF ToggleStream, Running, Serving
  <2>2. SameService
    BY <1>6, ServiceStays
  <2>3. /\ streamKeys' = streamKeys \cup {c}
        /\ UNCHANGED <<peer, clientSessions, reads, writes, writtenToGone, undefined>>
        /\ Listed' = Listed /\ Queued' = Queued
    BY <1>6, ListsUnchanged DEF ToggleStream
  <2>4. RemovalInv'
    BY <2>1, <2>2, <2>3 DEF ServiceInv, RemovalInv, SessionsTypeOK, SameService, NoRemoval
  <2>5. KnownInv'
    BY <2>1, <2>2, <2>3 DEF ServiceInv, KnownInv, SessionsTypeOK, SameService
  <2>6. ListedOnce'
    BY <2>1, <2>2, <2>3 DEF ServiceInv, ListedOnce, SessionsTypeOK
  <2>7. UnwrittenInv'
    BY <2>1, <2>2, <2>3 DEF ServiceInv, UnwrittenInv, SessionsTypeOK, SameService
  <2>8. HeardInv'
    BY <2>1, <2>2, <2>3 DEF ServiceInv, HeardInv, SessionsTypeOK, SameService
  <2>9. QED
    BY <2>4, <2>5, <2>6, <2>7, <2>8 DEF ServiceInv
<1>7. ASSUME NEW t \in Threads, AddCommandToQueue(t) PROVE ServiceInv'
  <2> DEFINE c == call[t].client
  <2>1. c \in Clients /\ \A d \in Clients : Serves(t, d) <=> d = c
    BY <1>7, ServedClient DEF AddCommandToQueue, Running, Serving
  <2>2. SameService
    BY <1>7, ServiceStays
  <2>3. Queued' = Queued \cup {c}
    BY <1>7, <2>1, ListExtended DEF AddCommandToQueue, Queued, SessionsTypeOK
  <2>4. /\ UNCHANGED <<peer, clientSessions, streamKeys, reads, writes, writtenToGone, undefined>>
        /\ Listed' = Listed
    BY <1>7, ListsUnchanged DEF AddCommandToQueue
  <2>5. RemovalInv'
    BY <2>1, <2>2, <2>3, <2>4 DEF ServiceInv, RemovalInv, SessionsTypeOK, SameService, NoRemoval
  <2>6. KnownInv'
    BY <2>1, <2>2, <2>3, <2>4 DEF ServiceInv, KnownInv, SessionsTypeOK, SameService
  <2>7. ListedOnce'
    BY <2>1, <2>2, <2>3, <2>4 DEF ServiceInv, ListedOnce, SessionsTypeOK
  <2>8. UnwrittenInv'
    BY <2>1, <2>2, <2>3, <2>4 DEF ServiceInv, UnwrittenInv, SessionsTypeOK, SameService
  <2>9. HeardInv'
    BY <2>1, <2>2, <2>3, <2>4 DEF ServiceInv, HeardInv, SessionsTypeOK, SameService
  <2>10. QED
    BY <2>5, <2>6, <2>7, <2>8, <2>9 DEF ServiceInv
<1>8. ASSUME NEW t \in Threads, Reply(t) PROVE ServiceInv'
  <2> DEFINE c == call[t].client
  <2>1. c \in Clients /\ \A d \in Clients : Serves(t, d) <=> d = c
    BY <1>8, ServedClient DEF Reply, Running, Serving
  <2>2. EndsService(t)
    BY <1>8, ServiceEnds
  <2>3. /\ \A d \in Clients : d # c => writes'[d] = writes[d]
        /\ writtenToGone \subseteq writtenToGone'
        /\ peer[c] = "closed" /\ writes'[c] # writes[c] => c \in writtenToGone'
    BY <1>8, <2>1, Writing DEF Reply
  <2>4. \A d \in Clients : d \in Listed => Alive(d)
    BY DEF Alive, Listed
  <2>5. /\ UNCHANGED <<peer, clientSessions, streamKeys>>
        /\ Listed' = Listed /\ Queued' = Queued
        /\ \/ undefined' = undefined /\ reads' = reads \cup {c}
           \/ undefined' = TRUE /\ ~Alive(c) /\ reads' = reads
    BY <1>8, ListsUnchanged DEF Reply, sessionVars, NextRead
  <2>6. RemovalInv'
    BY <2>1, <2>2, <2>3, <2>4, <2>5
       DEF ServiceInv, RemovalInv, SessionsTypeOK, EndsService, NoRemoval
  <2>7. KnownInv'
    BY <2>1, <2>2, <2>3, <2>4, <2>5 DEF ServiceInv, KnownInv, SessionsTypeOK, EndsService
  <2>8. ListedOnce'
    BY <2>1, <2>2, <2>3, <2>4, <2>5 DEF ServiceInv, ListedOnce, SessionsTypeOK
  <2>9. UnwrittenInv'
    BY <2>1, <2>2, <2>3, <2>4, <2>5 DEF ServiceInv, UnwrittenInv, SessionsTypeOK, EndsService
  <2>10. HeardInv'
    BY <2>1, <2>2, <2>3, <2>4, <2>5 DEF ServiceInv, HeardInv, SessionsTypeOK, EndsService
  <2>11. QED
    BY <2>6, <2>7, <2>8, <2>9, <2>10 DEF ServiceInv
<1>9. ASSUME NEW t \in Threads, NEW c \in Clients, HandleReadError(t, c)
      PROVE ServiceInv'
  <2>1. \A d \in Clients : d \in Listed => Alive(d)
    BY DEF Alive, Listed
  <2>2. /\ Alive(c) => BeginsService(t, c) /\ undefined' = undefined
        /\ Alive(c) => \A u \in Threads, d \in Clients : Removes(u, d)'
             => Removes(u, d) \/ d = c
        /\ ~Alive(c) => undefined' = TRUE /\ SameService
    BY <1>9, ServiceBegins
  <2>3. /\ c \in reads /\ reads' = reads \ {c}
        /\ peer[c] = "closed" \/ ~Alive(c)
        /\ UNCHANGED <<peer, clientSessions, streamKeys, writtenToGone, writes>>
        /\ Listed' = Listed /\ Queued' = Queued
    BY <1>9, ListsUnchanged DEF HandleReadError, sessionVars, ReadsAfterError
  <2>4. RemovalInv'
    BY <2>1, <2>2, <2>3
       DEF ServiceInv, RemovalInv, SessionsTypeOK, SameService, BeginsService, NoRemoval
  <2>5. KnownInv'
    BY <2>1, <2>2, <2>3 DEF ServiceInv, KnownInv, SessionsTypeOK, SameService, BeginsService
  <2>6. ListedOnce'
    BY <2>1, <2>2, <2>3 DEF ServiceInv, ListedOnce, SessionsTypeOK
  <2>7. UnwrittenInv'
    BY <2>1, <2>2, <2>3 DEF ServiceInv, UnwrittenInv, SessionsTypeOK, SameService, BeginsService
  <2>8. HeardInv'
    BY <2>1, <2>2, <2>3 DEF ServiceInv, HeardInv, SessionsTypeOK, SameService, BeginsService
  <2>9. QED
    BY <2>4, <2>5, <2>6, <2>7, <2>8 DEF ServiceInv
<1>10. ASSUME NEW t \in Threads, NEW c \in Clients, HandleWrite(t, c) PROVE ServiceInv'
  <2>1. SameService
    BY <1>10, ServiceUnchanged DEF HandleWrite
  <2>2. /\ writes[c] > 0 /\ writes' = [writes EXCEPT ![c] = writes[c] - 1]
        /\ UNCHANGED <<peer, clientSessions, streamKeys, reads, writtenToGone, undefined>>
        /\ Listed' = Listed /\ Queued' = Queued
    BY <1>10, ListsUnchanged DEF HandleWrite, sessionVars
  <2>3. RemovalInv'
    BY <2>1, <2>2 DEF ServiceInv, RemovalInv, SessionsTypeOK, SameService, NoRemoval
  <2>4. KnownInv'
    BY <2>1, <2>2 DEF ServiceInv, KnownInv, SessionsTypeOK, SameService
  <2>5. ListedOnce'
    BY <2>1, <2>2 DEF ServiceInv, ListedOnce, SessionsTypeOK
  <2>6. UnwrittenInv'
    BY <2>1, <2>2 DEF ServiceInv, UnwrittenInv, SessionsTypeOK, SameService
  <2>7. HeardInv'
    BY <2>1, <2>2 DEF ServiceInv, HeardInv, SessionsTypeOK, SameService
  <2>8. QED
    BY <2>3, <2>4, <2>5, <2>6, <2>7 DEF ServiceInv
<1>11. ASSUME NEW t \in Threads, NEW c \in Clients, HandleWriteError(t, c)
       PROVE ServiceInv'
  <2>1. \A d \in Clients : d \in Listed => Alive(d)
    BY DEF Alive, Listed
  <2>2. /\ Alive(c) => BeginsService(t, c) /\ undefined' = undefined
        /\ Alive(c) => \A u \in Threads, d \in Clients : Removes(u, d)'
             => Removes(u, d) \/ d = c
        /\ ~Alive(c) => undefined' = TRUE /\ SameService
    BY <1>11, ServiceBegins
  <2>3. /\ writes[c] > 0 /\ writes' = [writes EXCEPT ![c] = writes[c] - 1]
        /\ peer[c] = "closed" \/ ~Alive(c)
        /\ UNCHANGED <<peer, clientSessions, streamKeys, writtenToGone, reads>>
        /\ Listed' = Listed /\ Queued' = Queued
    BY <1>11, ListsUnchanged DEF HandleWriteError, sessionVars, ReadsAfterError
  <2>4. RemovalInv'
    BY <2>1, <2>2, <2>3
       DEF ServiceInv, RemovalInv, KnownInv, SessionsTypeOK, SameService, BeginsService,
           NoRemoval
  <2>5. KnownInv'
    BY <2>1, <2>2, <2>3 DEF ServiceInv, KnownInv, SessionsTypeOK, SameService, BeginsService
  <2>6. ListedOnce'
    BY <2>1, <2>2, <2>3 DEF ServiceInv, ListedOnce, KnownInv, SessionsTypeOK
  <2>7. UnwrittenInv'
    BY <2>1, <2>2, <2>3
       DEF ServiceInv, UnwrittenInv, KnownInv, SessionsTypeOK, SameService, BeginsService
  <2>8. HeardInv'
    BY <2>1, <2>2, <2>3
       DEF ServiceInv, HeardInv, KnownInv, SessionsTypeOK, SameService, BeginsService
  <2>9. QED
    BY <2>4, <2>5, <2>6, <2>7, <2>8 DEF ServiceInv
<1>12. ASSUME NEW t \in Threads, RemoveFromSessions(t) PROVE ServiceInv'
  <2> DEFINE c == call[t].client
  <2>1. c \in Clients /\ \A d \in Clients : Serves(t, d) <=> d = c
    BY <1>12, ServedClient DEF RemoveFromSessions, Running, Serving
  <2>2. EndsService(t)
    BY <1>12, ServiceEnds
  <2>3. ~undefined' =>
            /\ ~undefined /\ IsInjective(clientSessions)
                 => IsInjective(clientSessions')
            /\ IsInjective(clientSessions) => Listed' = Listed \ {c}
    BY <1>12, <2>1, ListWithout DEF RemoveFromSessions, Listed, SessionsTypeOK
  <2>4. Listed' \subseteq Listed
    BY <1>12, ListWithout, EndsOf DEF RemoveFromSessions, Listed, SessionsTypeOK
  <2>5. c \in Listed => clientSessions # <<>>
    BY DEF Listed, ToSet
  <2>6. /\ Queued' = Queued
        /\ undefined' = undefined \/ undefined' = TRUE
        /\ c \in Listed => undefined' = undefined
        /\ UNCHANGED <<peer, streamKeys, reads, writes, writtenToGone>>
    BY <1>12, <2>5, ListsUnchanged DEF RemoveFromSessions, Listed
  <2>7. peer[c] = "closed"
    BY <1>12, <2>1 DEF RemoveFromSessions, ServiceInv, RemovalInv, Removes, Running
  <2>8. RemovalInv'
    BY <2>1, <2>2, <2>3, <2>4, <2>5, <2>6, <2>7
       DEF ServiceInv, RemovalInv, ListedOnce, SessionsTypeOK, EndsService, NoRemoval
  <2>9. KnownInv'
    BY <2>1, <2>2, <2>3, <2>4, <2>5, <2>6, <2>7
       DEF ServiceInv, KnownInv, SessionsTypeOK, EndsService
  <2>10. ListedOnce'
    BY <2>1, <2>2, <2>3, <2>4, <2>5, <2>6, <2>7 DEF ServiceInv, ListedOnce, SessionsTypeOK
  <2>11. UnwrittenInv'
    BY <2>1, <2>2, <2>3, <2>4, <2>5, <2>6, <2>7
       DEF ServiceInv, UnwrittenInv, ListedOnce, SessionsTypeOK, EndsService
  <2>12. HeardInv'
    BY <2>1, <2>2, <2>3, <2>4, <2>5, <2>6, <2>7
       DEF ServiceInv, HeardInv, ListedOnce, SessionsTypeOK, EndsService
  <2>13. QED
    BY <2>8, <2>9, <2>10, <2>11, <2>12 DEF ServiceInv
<1>13. ASSUME NEW t \in Threads, RemoveFromStreams(t) PROVE ServiceInv'
  <2> DEFINE c == call[t].client
  <2>1. c \in Clients
    BY <1>13, CallOf DEF RemoveFromStreams, Running, SessionsTypeOK
  <2>2. SameService
    BY <1>13, ServiceStays
  <2>3. /\ streamKeys' \subseteq streamKeys
        /\ UNCHANGED <<peer, clientSessions, reads, writes, writtenToGone, undefined>>
        /\ Listed' = Listed /\ Queued' = Queued
    BY <1>13, ListsUnchanged DEF RemoveFromStreams
  <2>4. RemovalInv'
    BY <2>1, <2>2, <2>3 DEF ServiceInv, RemovalInv, SessionsTypeOK, SameService, NoRemoval
  <2>5. KnownInv'
    BY <2>1, <2>2, <2>3 DEF ServiceInv, KnownInv, SessionsTypeOK, SameService
  <2>6. ListedOnce'
    BY <2>1, <2>2, <2>3 DEF ServiceInv, ListedOnce, SessionsTypeOK
  <2>7. UnwrittenInv'
    BY <2>1, <2>2, <2>3 DEF ServiceInv, UnwrittenInv, SessionsTypeOK, SameService
  <2>8. HeardInv'
    BY <2>1, <2>2, <2>3 DEF ServiceInv, HeardInv, SessionsTypeOK, SameService
  <2>9. QED
    BY <2>4, <2>5, <2>6, <2>7, <2>8 DEF ServiceInv
<1>14. ASSUME NEW t \in Threads, ReceivedFrequentData(t) PROVE ServiceInv'
  <2>1. SameService
    BY <1>14, ServiceStays DEF ReceivedFrequentData
  <2>2. /\ UNCHANGED <<peer, clientSessions, streamKeys, reads, writes, writtenToGone, undefined>>
        /\ Listed' = Listed /\ Queued' = Queued
    BY <1>14, ListsUnchanged DEF ReceivedFrequentData, sessionVars
  <2>3. RemovalInv'
    BY <2>1, <2>2 DEF ServiceInv, RemovalInv, SessionsTypeOK, SameService, NoRemoval
  <2>4. KnownInv'
    BY <2>1, <2>2 DEF ServiceInv, KnownInv, SessionsTypeOK, SameService
  <2>5. ListedOnce'
    BY <2>1, <2>2 DEF ServiceInv, ListedOnce, SessionsTypeOK
  <2>6. UnwrittenInv'
    BY <2>1, <2>2 DEF ServiceInv, UnwrittenInv, SessionsTypeOK, SameService
  <2>7. HeardInv'
    BY <2>1, <2>2 DEF ServiceInv, HeardInv, SessionsTypeOK, SameService
  <2>8. QED
    BY <2>3, <2>4, <2>5, <2>6, <2>7 DEF ServiceInv
<1>15. ASSUME NEW t \in Threads, StreamToAll(t) PROVE ServiceInv'
  <2>1. SameService
    BY <1>15, ServiceStays
  <2>2. /\ \A d \in Clients : d \notin streamKeys => writes'[d] = writes[d]
        /\ writtenToGone \subseteq writtenToGone'
        /\ \A d \in Clients : peer[d] = "closed" /\ writes'[d] # writes[d] => d \in writtenToGone'
    BY <1>15, Writing DEF StreamToAll, SessionsTypeOK
  <2>3. /\ UNCHANGED <<peer, clientSessions, streamKeys, reads, undefined>>
        /\ Listed' = Listed /\ Queued' = Queued
    BY <1>15, ListsUnchanged DEF StreamToAll, sessionVars
  <2>4. RemovalInv'
    BY <2>1, <2>2, <2>3 DEF ServiceInv, RemovalInv, SessionsTypeOK, SameService, NoRemoval
  <2>5. KnownInv'
    BY <2>1, <2>2, <2>3 DEF ServiceInv, KnownInv, SessionsTypeOK, SameService
  <2>6. ListedOnce'
    BY <2>1, <2>2, <2>3 DEF ServiceInv, ListedOnce, SessionsTypeOK
  <2>7. UnwrittenInv'
    BY <2>1, <2>2, <2>3 DEF ServiceInv, UnwrittenInv, SessionsTypeOK, SameService
  <2>8. HeardInv'
    BY <2>1, <2>2, <2>3 DEF ServiceInv, HeardInv, SessionsTypeOK, SameService
  <2>9. QED
    BY <2>4, <2>5, <2>6, <2>7, <2>8 DEF ServiceInv
<1>16. ASSUME NEW t \in Threads, ReceivedCommandResponse(t) PROVE ServiceInv'
  <2> DEFINE c == Head(commandsQueue)
  <2>1. c \in Clients /\ c \in Queued /\ Queued' \subseteq Queued
    BY <1>16, EndsOf DEF ReceivedCommandResponse, Queued, SessionsTypeOK
  <2>2. SameService
    BY <1>16, ServiceStays
  <2>3. /\ \A d \in Clients : d # c => writes'[d] = writes[d]
        /\ writtenToGone \subseteq writtenToGone'
        /\ peer[c] = "closed" /\ writes'[c] # writes[c] => c \in writtenToGone'
    BY <1>16, <2>1, Writing DEF ReceivedCommandResponse
  <2>4. /\ UNCHANGED <<peer, clientSessions, streamKeys, reads, undefined>>
        /\ Listed' = Listed
    BY <1>16, ListsUnchanged DEF ReceivedCommandResponse
  <2>5. RemovalInv'
    BY <2>1, <2>2, <2>3, <2>4 DEF ServiceInv, RemovalInv, SessionsTypeOK, SameService, NoRemoval
  <2>6. KnownInv'
    BY <2>1, <2>2, <2>3, <2>4 DEF ServiceInv, KnownInv, SessionsTypeOK, SameService
  <2>7. ListedOnce'
    BY <2>1, <2>2, <2>3, <2>4 DEF ServiceInv, ListedOnce, SessionsTypeOK
  <2>8. UnwrittenInv'
    BY <2>1, <2>2, <2>3, <2>4 DEF ServiceInv, UnwrittenInv, SessionsTypeOK, SameService
  <2>9. HeardInv'
    BY <2>1, <2>2, <2>3, <2>4 DEF ServiceInv, HeardInv, SessionsTypeOK, SameService
  <2>10. QED
    BY <2>5, <2>6, <2>7, <2>8, <2>9 DEF ServiceInv
<1>17. ASSUME NEW t \in Threads, ExecuteNext(t) PROVE ServiceInv'
  <2>1. SameService
    BY <1>17, ServiceOfExecution DEF ExecuteNext
  <2>2. /\ UNCHANGED <<peer, clientSessions, streamKeys, reads, writes, writtenToGone, undefined>>
        /\ Listed' = Listed /\ Queued' = Queued
    BY <1>17, ListsUnchanged DEF ExecuteNext, sessionVars
  <2>3. RemovalInv'
    BY <2>1, <2>2 DEF ServiceInv, RemovalInv, SessionsTypeOK, SameService, NoRemoval
  <2>4. KnownInv'
    BY <2>1, <2>2 DEF ServiceInv, KnownInv, SessionsTypeOK, SameService
  <2>5. ListedOnce'
    BY <2>1, <2>2 DEF ServiceInv, ListedOnce, SessionsTypeOK
  <2>6. UnwrittenInv'
    BY <2>1, <2>2 DEF ServiceInv, UnwrittenInv, SessionsTypeOK, SameService
  <2>7. HeardInv'
    BY <2>1, <2>2 DEF ServiceInv, HeardInv, SessionsTypeOK, SameService
  <2>8. QED
    BY <2>3, <2>4, <2>5, <2>6, <2>7 DEF ServiceInv
<1>18. ASSUME NEW t \in Threads, ExecuteFront(t) PROVE ServiceInv'
  <2>1. SameService
    BY <1>18, ServiceOfExecution
  <2>2. Queued' \subseteq Queued
    BY <1>18, EndsOf DEF ExecuteFront, LockInv, Queued, SessionsTypeOK
  <2>3. /\ UNCHANGED <<peer, clientSessions, streamKeys, reads, writes, writtenToGone, undefined>>
        /\ Listed' = Listed
    BY <1>18, ListsUnchanged DEF ExecuteFront
  <2>4. RemovalInv'
    BY <2>1, <2>2, <2>3 DEF ServiceInv, RemovalInv, SessionsTypeOK, SameService, NoRemoval
  <2>5. KnownInv'
    BY <2>1, <2>2, <2>3 DEF ServiceInv, KnownInv, SessionsTypeOK, SameService
  <2>6. ListedOnce'
    BY <2>1, <2>2, <2>3 DEF ServiceInv, ListedOnce, SessionsTypeOK
  <2>7. UnwrittenInv'
    BY <2>1, <2>2, <2>3 DEF ServiceInv, UnwrittenInv, SessionsTypeOK, SameService
  <2>8. HeardInv'
    BY <2>1, <2>2, <2>3 DEF ServiceInv, HeardInv, SessionsTypeOK, SameService
  <2>9. QED
    BY <2>4, <2>5, <2>6, <2>7, <2>8 DEF ServiceInv
<1>19. CASE UNCHANGED allSessionVars
  <2>1. UNCHANGED <<peer, clientSessions, streamKeys, reads, writes, writtenToGone, undefined>>
        /\ Listed' = Listed /\ Queued' = Queued /\ SameService
    BY <1>19, ListsUnchanged, ServiceUnchanged DEF allSessionVars, sessionVars
  <2>2. QED
    BY <2>1
       DEF ServiceInv, RemovalInv, KnownInv, ListedOnce, UnwrittenInv, HeardInv, SameService,
           NoRemoval
<1>20. QED
  BY <1>1, <1>2, <1>3, <1>4, <1>5, <1>6, <1>7, <1>8, <1>9, <1>10, <1>11, <1>12, <1>13, <1>14,
     <1>15, <1>16, <1>17, <1>18, <1>19
     DEF SessionsNext, GoOn, Handle

----------------------------------------------------------------------------
\* The inductive invariant.
SessionsInv == SessionsTypeOK /\ LockInv /\ ServiceInv

\* It holds when the server starts.
LEMMA SessionsStart ==
  ASSUME SessionsInit
  PROVE  SessionsInv
<1>1. /\ clientSessions = <<>> /\ clientSessions \in Seq(Clients)
      /\ commandsQueue = <<>> /\ commandsQueue \in Seq(Clients)
      /\ \A s : s = <<>> => ToSet(s) = {} /\ IsInjective(s)
  BY DEF SessionsInit, ToSet, IsInjective
<1>2. Listed = {} /\ Queued = {}
  BY <1>1 DEF Listed, Queued
<1>3. call \in [Threads -> Calls] /\ \A t \in Threads : call[t].at = "idle"
  BY NewCalls DEF SessionsInit
<1>4. \A t \in Threads, c \in Clients : ~Serves(t, c) /\ ~Removes(t, c)
  BY <1>3 DEF Serves, Removes
<1>5. SessionsTypeOK
  <2>1. 0 \in 0 .. MaxInputs
    BY SessionsAssumption
  <2>2. mutex \in [Mutexes -> Threads \cup {NoThread}]
    BY DEF SessionsInit
  <2>3. /\ peer \in [Clients -> {"away", "connected", "closed"}]
        /\ input \in [Clients -> Inputs \cup {"none"}]
        /\ inputs \in [Clients -> 0 .. MaxInputs] /\ writes \in [Clients -> Nat]
    BY <2>1 DEF SessionsInit
  <2>4. QED
    BY <1>1, <1>3, <2>2, <2>3 DEF SessionsInit, SessionsTypeOK
<1>6. LockInv
  BY SessionsAssumption DEF SessionsInit, LockInv, Mutexes
<1>7. ServiceInv
  BY <1>1, <1>2, <1>4
     DEF SessionsInit, ServiceInv, RemovalInv, KnownInv, ListedOnce, UnwrittenInv, HeardInv
<1>8. QED
  BY <1>5, <1>6, <1>7 DEF SessionsInv

\* The invariant holds in every state.
THEOREM SessionsHold == SessionsSpec => []SessionsInv
<1>1. SessionsInit => SessionsInv
  BY SessionsStart
<1>2. SessionsInv /\ [SessionsNext]_allSessionVars => SessionsInv'
  BY TypeStep, LockStep, ServiceStep DEF SessionsInv
<1>3. QED
  BY <1>1, <1>2, PTL DEF SessionsSpec

(***************************************************************************)
(* As long as nothing is written to a client that has gone, no session is  *)
(* removed twice and no handler runs on a session that is destroyed        *)
(* (removeClientSession, the handlers of ServerConnection.cpp).            *)
(***************************************************************************)
THEOREM RemovesOnce == SessionsSpec => []RemovedOnce
<1>1. SessionsInv => RemovedOnce
  BY DEF SessionsInv, ServiceInv, UnwrittenInv, RemovedOnce
<1>2. QED
  BY <1>1, SessionsHold, PTL

(***************************************************************************)
(* A client in the list is heard: a read of it is outstanding, or a        *)
(* handler is running that will start one or remove the session, for any   *)
(* number of threads and clients (start_receive_read).                     *)
(***************************************************************************)
THEOREM ClientsHeard == SessionsSpec => []ClientHeard
<1>1. ASSUME SessionsInv PROVE ClientHeard
  <2>1. ~undefined => \A c \in Clients : c \in Listed =>
          c \in reads \/ \E t \in Threads : Serves(t, c)
    BY <1>1 DEF SessionsInv, ServiceInv, HeardInv
  <2>2. Listed \subseteq Clients
    BY <1>1, LenProperties DEF SessionsInv, SessionsTypeOK, Listed, ToSet
  <2>3. QED
    BY <2>1, <2>2 DEF ClientHeard, Listed, Serves
<1>2. QED
  BY <1>1, SessionsHold, PTL

(***************************************************************************)
(* The mutexes are never waited for in a circle: while handlers run, one   *)
(* has the mutexes it is waiting for, because nothing waits while it holds *)
(* that of the sessions (Server.cpp).                                      *)
(***************************************************************************)
THEOREM NobodyWaitsInACircle == SessionsSpec => []SomebodyHasItsMutexes
<1>1. ASSUME SessionsInv PROVE SomebodyHasItsMutexes
  <2> SUFFICES ASSUME NEW t \in Threads, call[t].at # "idle"
               PROVE  \E u \in Threads : HasItsMutexes(u)
    BY DEF SomebodyHasItsMutexes
  <2>1. /\ mutex["ClientSessions"] = NoThread /\ LockInv
        /\ mutex["StreamingActive"] \in Threads \cup {NoThread}
        /\ mutex["CommandsQueue"] \in Threads \cup {NoThread}
    BY <1>1 DEF SessionsInv, SessionsTypeOK, LockInv, Mutexes
  <2>2. CASE mutex["CommandsQueue"] \in Threads
    BY <2>1, <2>2 DEF HasItsMutexes, Free
  <2>3. CASE mutex["StreamingActive"] \in Threads
    BY <2>1, <2>3 DEF HasItsMutexes, Free, LockInv
  <2>4. CASE Free("CommandsQueue") /\ Free("StreamingActive")
    <3>1. call[t].at \in {"start", "reply", "remove", "unstream", "stream", "command",
                         "execute"} \cup SerialHandlers
      BY <1>1, CallOf DEF SessionsInv, SessionsTypeOK
    <3>2. QED
      BY <2>1, <2>4, <3>1 DEF HasItsMutexes, Free, SerialHandlers
  <2>5. QED
    BY <2>1, <2>2, <2>3, <2>4 DEF Free
<1>2. QED
  BY <1>1, SessionsHold, PTL
=============================================================================
