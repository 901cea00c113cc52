------------------------- MODULE ReceiverFlowProofs -------------------------
(***************************************************************************)
(* FlowInv is an invariant of ReceiverFlow for every size of the ring, of  *)
(* the sequence field, of the buffer and of the NACK array.                *)
(***************************************************************************)
EXTENDS ReceiverFlow, FiniteSetTheorems, TLAPS

\* Remainders stay below the modulus, and are their own remainder.
LEMMA ModRange == ASSUME NEW a \in Int, NEW q \in Nat \ {0}
                  PROVE  a % q \in 0 .. q - 1 /\ (a % q) % q = a % q
  OBVIOUS

\* Neighbouring slots of the ring differ.
LEMMA ModSucc == ASSUME NEW q \in Nat, q >= 2, NEW a \in 0 .. q - 1
                 PROVE  (a + 1) % q \in 0 .. q - 1 /\ (a + 1) % q # a
  OBVIOUS

\* Every packet has a sequence number and a slot.
LEMMA PacketTypes ==
  ASSUME NEW n \in Packets
  PROVE  /\ n \in Nat
         /\ SeqNum(n) \in Seqs /\ SlotOf(SeqNum(n)) \in Slots
         /\ SourceTime(n) \in Nat /\ SourceTime(n) >= 1
         /\ SeqSpace = QueueMax => SlotOf(SeqNum(n)) = SeqNum(n)
<1>1. n \in Nat /\ FirstSeq + n \in Int
  BY FlowAssumption DEF Packets
<1>2. SeqNum(n) \in Seqs
  BY <1>1, FlowAssumption, ModRange DEF SeqNum, Seqs
<1>3. SlotOf(SeqNum(n)) \in Slots
  <2>1. SeqNum(n) \in Int /\ QueueMax \in Nat \ {0}
    BY <1>2, FlowAssumption DEF Seqs
  <2>2. SeqNum(n) % QueueMax \in 0 .. QueueMax - 1
    BY <2>1, ModRange
  <2>3. QED BY <2>2 DEF SlotOf, Slots
<1>4. SourceTime(n) \in Nat /\ SourceTime(n) >= 1
  <2>1. CASE ~MergePairs
    BY <2>1, <1>1 DEF SourceTime
  <2>2. CASE MergePairs
    <3>1. n % 2 \in 0 .. 1 /\ n % 2 <= n
      BY <1>1
    <3>2. QED BY <3>1, <2>2, <1>1 DEF SourceTime
  <2>3. QED BY <2>1, <2>2, FlowAssumption
<1>5. SeqSpace = QueueMax => SlotOf(SeqNum(n)) = SeqNum(n)
  <2>1. FirstSeq + n \in Int /\ QueueMax \in Nat \ {0}
    BY <1>1, FlowAssumption
  <2>2. ((FirstSeq + n) % QueueMax) % QueueMax = (FirstSeq + n) % QueueMax
    BY <2>1, ModRange
  <2>3. QED BY <2>2 DEF SlotOf, SeqNum
<1>6. QED BY <1>1, <1>2, <1>3, <1>4, <1>5

\* The ring has finitely many buffers.
LEMMA OccupiedFinite ==
  /\ IsFiniteSet(Occupied) /\ Cardinality(Occupied) \in Nat
  /\ Cardinality(Occupied) = 0 <=> Occupied = {}
<1>1. IsFiniteSet(Slots)
  BY FlowAssumption, FS_Interval DEF Slots
<1>2. IsFiniteSet(Occupied)
  BY <1>1, FS_Subset DEF Occupied
<1>3. QED
  BY <1>2, FS_CardinalityType, FS_EmptySet

THEOREM InitInv == Init => FlowInv
<1> SUFFICES ASSUME Init PROVE FlowInv
  OBVIOUS
<1>1. TypeOK
  <2>1. ring \in [Slots -> Buffers \cup {NULL}]
    BY DEF Init
  <2>2. outputIdx \in Slots /\ lastSeqFound \in Seqs /\ lastSeqOutput \in Seqs
    BY FlowAssumption DEF Init, Slots, Seqs
  <2>3. missing \in Seq(Holes) /\ nacks \in Seq(Seqs)
    BY DEF Init
  <2>4. out \in [num : Packets \cup {-1}, last : Packets \cup {-1},
                start : BOOLEAN, gap : BOOLEAN, turn : BOOLEAN]
    BY DEF Init
  <2>5. rebases \in 0 .. MaxRebases /\ flaps \in 0 .. MaxFlaps
    BY FlowAssumption DEF Init
  <2>6. QED BY <2>1, <2>2, <2>3, <2>4, <2>5 DEF Init, TypeOK
<1>2. Occupied = {}
  BY DEF Init, Occupied
<1>3. SizeNeverUnderstated /\ ShortSizeExact
  BY <1>2, FS_EmptySet DEF Init, SizeNeverUnderstated, ShortSizeExact
<1>4. InOwnSlot
  BY <1>2 DEF InOwnSlot
<1>5. NacksWithinArray
  BY FlowAssumption DEF Init, NacksWithinArray
<1>6. QED BY <1>1, <1>3, <1>4, <1>5 DEF FlowInv

-----------------------------------------------------------------------------
(* The protocol thread: receiver_enqueue.                                  *)

\* The newest packet's marks keep their types.
LEMMA MarkTypes ==
  ASSUME TypeOK, NEW n \in Packets, MarkNewest(n)
  PROVE  maxSourceTime' \in Nat /\ lastPacketTs' \in Int
  BY PacketTypes DEF TypeOK, MarkNewest, PacketTime

\* A step that touches neither the ring nor its size keeps what relates them.
LEMMA RingKept ==
  ASSUME FlowInv, ring' = ring, queueSize' = queueSize
  PROVE  SizeNeverUnderstated' /\ ShortSizeExact' /\ InOwnSlot'
  BY DEF FlowInv, SizeNeverUnderstated, ShortSizeExact, InOwnSlot, Occupied

\* The refusals of receiver_enqueue: nothing is queued.
LEMMA RefusalInv ==
  ASSUME FlowInv, NEW n \in Packets,
         AwaitAnchor(n) \/ DropLate(n) \/ DropFull(n) \/ DropDupe(n)
  PROVE  FlowInv'
<1>1. ring' = ring /\ queueSize' = queueSize /\ nacks' = nacks
  BY DEF AwaitAnchor, DropLate, DropFull, DropDupe, holes
<1>2. TypeOK'
  <2>1. CASE AwaitAnchor(n)
    BY <2>1 DEF FlowInv, TypeOK, AwaitAnchor, holes, reader, env
  <2>2. CASE DropLate(n)
    BY <2>2 DEF FlowInv, TypeOK, DropLate, clock, holes, reader, env
  <2>3. CASE DropFull(n)
    <3>1. maxSourceTime' \in Nat /\ lastPacketTs' \in Int /\ SeqNum(n) \in Seqs
      BY <2>3, MarkTypes, PacketTypes DEF DropFull, FlowInv
    <3>2. QED
      BY <2>3, <3>1 DEF FlowInv, TypeOK, DropFull, holes, reader, env
  <2>4. CASE DropDupe(n)
    <3>1. maxSourceTime' \in Nat /\ lastPacketTs' \in Int
      BY <2>4, MarkTypes DEF DropDupe, FlowInv
    <3>2. QED
      BY <2>4, <3>1 DEF FlowInv, TypeOK, DropDupe, holes, reader, env
  <2>5. QED BY <2>1, <2>2, <2>3, <2>4
<1>3. QED
  BY <1>1, <1>2, RingKept DEF FlowInv, NacksWithinArray

\* A flow that starts again holds one buffer; what receiver_queue_size counted
\* beyond the ring, and only that, stays counted.
LEMMA AnchorInv ==
  ASSUME FlowInv, NEW n \in Packets, Anchor(n)
  PROVE  FlowInv'
<1> DEFINE s == SlotOf(SeqNum(n))
           b == [num |-> n, time |-> now, ptime |-> now]
<1>0. s \in Slots /\ b \in Buffers /\ b # NULL /\ SeqNum(n) \in Seqs
  BY PacketTypes, NullAssumption DEF FlowInv, TypeOK, Buffers
<1>1. queueSize = 0 => Occupied = {}
  BY OccupiedFinite DEF FlowInv, SizeNeverUnderstated
<1>2. ring' = [i \in Slots |-> IF i = s THEN b ELSE NULL]
  <2>1. CASE queueSize > 0
    BY <2>1 DEF Anchor
  <2>2. CASE ~(queueSize > 0)
    <3>1. Occupied = {}
      BY <2>2, <1>1 DEF FlowInv, TypeOK
    <3>2. QED BY <2>2, <3>1 DEF Anchor
  <2>3. QED BY <2>1, <2>2
<1>3. Occupied' = {s}
  BY <1>0, <1>2 DEF Occupied
<1>4. Cardinality(Occupied') = 1
  BY <1>3, FS_Singleton
<1>5. /\ queueSize' \in Nat /\ queueSize' >= 1
      /\ SeqSpace = QueueMax => queueSize' = 1
  <2>1. CASE queueSize > 0
    <3>1. queueSize' = queueSize - Cardinality(Occupied) + 1
      BY <2>1 DEF Anchor
    <3>2. QED
      BY <3>1, OccupiedFinite
         DEF FlowInv, TypeOK, SizeNeverUnderstated, ShortSizeExact
  <2>2. CASE queueSize = 0
    BY <2>2 DEF Anchor
  <2>3. QED BY <2>1, <2>2 DEF FlowInv, TypeOK
<1>6. TypeOK'
  <2>1. ring' \in [Slots -> Buffers \cup {NULL}]
    BY <1>0, <1>2
  <2>2. lastSeqOutput' \in Seqs
    <3>1. SeqNum(n) - 1 \in Int /\ SeqSpace \in Nat \ {0}
      BY <1>0, FlowAssumption DEF Seqs
    <3>2. QED BY <3>1, ModRange DEF Anchor, Seqs
  <2>3. missing' \in Seq(Holes)
    BY DEF Anchor
  <2>4. offset' \in Int /\ maxSourceTime' \in Nat /\ lastPacketTs' \in Int
    BY PacketTypes DEF Anchor, FlowInv, TypeOK
  <2>5. QED
    BY <1>0, <1>5, <2>1, <2>2, <2>3, <2>4 DEF FlowInv, TypeOK, Anchor, env
<1>7. SizeNeverUnderstated' /\ ShortSizeExact'
  BY <1>4, <1>5 DEF SizeNeverUnderstated, ShortSizeExact
<1>8. InOwnSlot'
  BY <1>0, <1>2, <1>3 DEF InOwnSlot
<1>9. NacksWithinArray'
  BY DEF FlowInv, NacksWithinArray, Anchor
<1>10. QED BY <1>6, <1>7, <1>8, <1>9 DEF FlowInv

\* The holes a gap adds are holes.
LEMMA NewHolesType ==
  ASSUME TypeOK, NEW n \in Packets
  PROVE  NewHoles(SeqNum(n), PacketTime(n)) \in Seq(Holes)
<1> DEFINE s == SeqNum(n)
           cur == PacketTime(n)
           gap == SeqGap(s, lastSeqFound)
           before == ring[SlotOf(lastSeqFound)]
           last == IF before = NULL THEN now ELSE before.ptime
           inter == (cur - last) \div (gap + 1)
           wanted == (IF gap = 0 THEN SeqSpace ELSE gap) - 1
           room == IF Len(missing) > MissingMax THEN 0
                   ELSE MissingMax + 1 - Len(missing)
           count == IF gap > Minimum(SeqSpace, QueueMax) \div 2 THEN 0
                    ELSE Minimum(wanted, Minimum(room, QueueMax))
           since(k) == LET t == last + k * inter
                       IN IF cur < last \/ t > now \/ t < now - Buffer
                          THEN now ELSE t
<1>1. s \in Seqs /\ cur \in Int /\ lastSeqFound \in Seqs
  BY PacketTypes DEF TypeOK, PacketTime
<1>2. gap \in Nat
  <2>1. s - lastSeqFound \in Int /\ SeqSpace \in Nat \ {0}
    BY <1>1, FlowAssumption DEF Seqs
  <2>2. QED BY <2>1, ModRange DEF SeqGap
<1>3. last \in Int
  <2>1. SlotOf(lastSeqFound) \in Slots
    <3>1. lastSeqFound \in Int /\ QueueMax \in Nat \ {0}
      BY <1>1, FlowAssumption DEF Seqs
    <3>2. QED BY <3>1, ModRange DEF SlotOf, Slots
  <2>2. before \in Buffers \cup {NULL}
    BY <2>1 DEF TypeOK
  <2>3. QED BY <2>2 DEF TypeOK, Buffers
<1>4. inter \in Int
  BY <1>1, <1>2, <1>3
<1>5. count \in Nat
  BY <1>2, FlowAssumption DEF TypeOK, Minimum
<1>6. ASSUME NEW k \in 1 .. count
      PROVE  [seq |-> (lastSeqFound + k) % SeqSpace, ins |-> since(k),
              next |-> now + ReorderDelay, count |-> 0] \in Holes
  <2>1. (lastSeqFound + k) % SeqSpace \in Seqs
    <3>1. lastSeqFound + k \in Int /\ SeqSpace \in Nat \ {0}
      BY <1>1, <1>5, FlowAssumption DEF Seqs
    <3>2. QED BY <3>1, ModRange DEF Seqs
  <2>2. k * inter \in Int
    BY <1>4, <1>5
  <2>3. since(k) \in Int
    BY <2>2, <1>1, <1>3 DEF TypeOK
  <2>4. now + ReorderDelay \in Nat
    BY FlowAssumption DEF TypeOK
  <2>5. QED BY <2>1, <2>3, <2>4 DEF Holes
<1>7. QED
  <2>1. NewHoles(s, cur) =
          [k \in 1 .. count |->
             [seq |-> (lastSeqFound + k) % SeqSpace, ins |-> since(k),
              next |-> now + ReorderDelay, count |-> 0]]
    BY DEF NewHoles
  <2> HIDE DEF count, since
  <2>2. QED BY <2>1, <1>5, <1>6

\* An inserted packet takes a free slot, or, only when the sequence space is
\* larger than the ring, the slot of another packet whose size stays counted.
LEMMA InsertInv ==
  ASSUME FlowInv, NEW n \in Packets, NEW retry \in BOOLEAN, Insert(n, retry)
  PROVE  FlowInv'
<1> DEFINE s == SlotOf(SeqNum(n))
           b == [num |-> n, time |-> now, ptime |-> PacketTime(n)]
<1>0. /\ s \in Slots /\ SeqNum(n) \in Seqs /\ PacketTime(n) \in Int
      /\ b \in Buffers /\ b # NULL
  BY PacketTypes, NullAssumption DEF FlowInv, TypeOK, Buffers, PacketTime
<1>1. ring' = [ring EXCEPT ![s] = b] /\ queueSize' = queueSize + 1
  BY DEF Insert
<1>2. Occupied' = Occupied \cup {s}
  BY <1>0, <1>1 DEF Occupied, FlowInv, TypeOK
<1>3. Cardinality(Occupied') = IF s \in Occupied THEN Cardinality(Occupied)
                               ELSE Cardinality(Occupied) + 1
  BY <1>2, OccupiedFinite, FS_AddElement
<1>4. SeqSpace = QueueMax => s \notin Occupied
  <2> SUFFICES ASSUME SeqSpace = QueueMax, s \in Occupied PROVE FALSE
    OBVIOUS
  <2>1. ring[s] \in Buffers
    BY <1>0 DEF Occupied, FlowInv, TypeOK
  <2>2. ring[s].num \in Packets
    BY <2>1 DEF Buffers
  <2>3. SlotOf(SeqNum(ring[s].num)) = s
    BY DEF FlowInv, InOwnSlot
  <2>4. SeqNum(ring[s].num) = SeqNum(n)
    BY <2>2, <2>3, PacketTypes
  <2>5. QED BY <2>4 DEF Insert, Duplicate, Holder, Occupied
<1>5. TypeOK'
  <2>1. ring' \in [Slots -> Buffers \cup {NULL}]
    BY <1>0, <1>1 DEF FlowInv, TypeOK
  <2>2. missing' \in Seq(Holes)
    <3>1. missing \in Seq(Holes)
      BY DEF FlowInv, TypeOK
    <3>2. missing \o NewHoles(SeqNum(n), PacketTime(n)) \in Seq(Holes)
      BY <3>1, NewHolesType DEF FlowInv
    <3>3. missing' = missing
          \/ missing' = missing \o NewHoles(SeqNum(n), PacketTime(n))
      BY DEF Insert
    <3>4. QED BY <3>1, <3>2, <3>3
  <2>3. maxSourceTime' \in Nat /\ lastPacketTs' \in Int
    BY MarkTypes DEF Insert, FlowInv
  <2>4. lastSeqFound' \in Seqs
    BY <1>0 DEF Insert, Found, FlowInv, TypeOK
  <2>5. QED
    BY <1>1, <2>1, <2>2, <2>3, <2>4
       DEF FlowInv, TypeOK, Insert, reader, env
<1>6. SizeNeverUnderstated' /\ ShortSizeExact'
  BY <1>1, <1>3, <1>4, OccupiedFinite
     DEF FlowInv, TypeOK, SizeNeverUnderstated, ShortSizeExact
<1>7. InOwnSlot'
  BY <1>0, <1>1, <1>2 DEF FlowInv, TypeOK, InOwnSlot, Occupied
<1>8. NacksWithinArray'
  BY DEF FlowInv, NacksWithinArray, Insert
<1>9. QED BY <1>5, <1>6, <1>7, <1>8 DEF FlowInv

-----------------------------------------------------------------------------
(* The protocol thread: the NACK loop.                                     *)

\* A hole taken out of the list leaves a list of holes.
LEMMA RemoveHole ==
  ASSUME TypeOK, nackPos \in 1 .. Len(missing)
  PROVE  /\ RemoveAt(missing, nackPos) \in Seq(Holes)
         /\ missing[nackPos] \in Holes
<1>1. missing \in Seq(Holes) /\ Len(missing) \in Nat
  BY DEF TypeOK
<1>2. missing[nackPos] \in Holes
  BY <1>1
<1>3. SubSeq(missing, 1, nackPos - 1) \in Seq(Holes)
  BY <1>1
<1>4. SubSeq(missing, nackPos + 1, Len(missing)) \in Seq(Holes)
  BY <1>1
<1>5. QED BY <1>2, <1>3, <1>4 DEF RemoveAt

\* What the sender resends is packets.
LEMMA RequestedPackets == \A s : Requested(s) \subseteq Packets
  BY DEF Requested

\* A turn of the loop writes at most one sequence number, into a group that
\* was sent or cleared before it could be full.
LEMMA NackHoleInv ==
  ASSUME FlowInv, NackHole
  PROVE  FlowInv'
<1> DEFINE m == missing[nackPos]
<1>1. m \in Holes /\ RemoveAt(missing, nackPos) \in Seq(Holes)
  BY RemoveHole DEF NackHole, FlowInv
<1>2. GroupStart \in Seq(Seqs) /\ Len(GroupStart) <= MaxNacks - 1
  <2>1. nacks \in Seq(Seqs) /\ Len(nacks) \in Nat /\ Len(nacks) <= MaxNacks
    BY DEF FlowInv, TypeOK, NacksWithinArray
  <2>2. CASE (FullGroup /\ linked) \/ Len(nacks) >= MaxNacks
    BY <2>2, FlowAssumption DEF GroupStart
  <2>3. CASE ~((FullGroup /\ linked) \/ Len(nacks) >= MaxNacks)
    BY <2>1, <2>3, FlowAssumption DEF GroupStart
  <2>4. QED BY <2>2, <2>3
<1>3. nacks' \in Seq(Seqs) /\ Len(nacks') <= MaxNacks
  <2>1. m.seq \in Seqs
    BY <1>1 DEF Holes
  <2>2. Append(GroupStart, m.seq) \in Seq(Seqs)
        /\ Len(Append(GroupStart, m.seq)) = Len(GroupStart) + 1
    BY <2>1, <1>2
  <2>3. nacks' = GroupStart \/ nacks' = Append(GroupStart, m.seq)
    BY DEF NackHole
  <2>4. Len(GroupStart) \in Nat
    BY <1>2
  <2>5. CASE nacks' = GroupStart
    BY <2>4, <2>5, <1>2, FlowAssumption
  <2>6. CASE nacks' = Append(GroupStart, m.seq)
    BY <2>2, <2>4, <2>6, <1>2, FlowAssumption
  <2>7. QED BY <2>3, <2>5, <2>6
<1>4. missing' \in Seq(Holes)
  <2>1. CASE GiveUp(m)
    BY <2>1, <1>1 DEF NackHole
  <2>2. CASE ~GiveUp(m) /\ NackDue(m)
    <3> DEFINE r == [[m EXCEPT !.count = @ + 1] EXCEPT !.next = now + NackInterval]
    <3>1. r \in Holes
      <4>1. now + NackInterval \in Nat /\ m.count + 1 \in Nat
        BY <1>1, FlowAssumption DEF Holes, FlowInv, TypeOK
      <4>2. [m EXCEPT !.count = @ + 1] \in Holes
        BY <1>1, <4>1 DEF Holes
      <4>3. QED BY <4>1, <4>2 DEF Holes
    <3>2. missing \in Seq(Holes) /\ nackPos \in 1 .. Len(missing)
      BY DEF NackHole, FlowInv, TypeOK
    <3>3. missing' = [missing EXCEPT ![nackPos].count = @ + 1,
                                     ![nackPos].next = now + NackInterval]
      BY <2>2 DEF NackHole
    <3>4. missing' = [missing EXCEPT ![nackPos] = r]
      BY <3>2, <3>3
    <3> HIDE DEF r
    <3>5. QED BY <3>1, <3>2, <3>4
  <2>3. CASE ~GiveUp(m) /\ ~NackDue(m)
    BY <2>3 DEF NackHole, FlowInv, TypeOK
  <2>4. QED BY <2>1, <2>2, <2>3
<1>5. asked' \in SUBSET Packets
  BY RequestedPackets DEF NackHole, AskedAfter, FlowInv, TypeOK
<1>6. nackPos' \in Nat
  BY DEF NackHole, FlowInv, TypeOK
<1>7. TypeOK'
  BY <1>3, <1>4, <1>5, <1>6 DEF FlowInv, TypeOK, NackHole, clock, reader
<1>8. SizeNeverUnderstated' /\ ShortSizeExact' /\ InOwnSlot'
  BY RingKept DEF NackHole
<1>9. QED BY <1>3, <1>7, <1>8 DEF FlowInv, NacksWithinArray

\* The other steps of the NACK loop.
LEMMA NackInv ==
  ASSUME FlowInv, Nack
  PROVE  FlowInv'
<1>1. CASE NackBegin
  <2>1. TypeOK'
    BY <1>1 DEF FlowInv, TypeOK, NackBegin, clock, reader, env
  <2>2. QED
    BY <1>1, <2>1, RingKept DEF NackBegin, FlowInv, NacksWithinArray
<1>2. CASE NackFilled
  <2>1. missing' \in Seq(Holes)
    BY <1>2, RemoveHole DEF NackFilled, FlowInv
  <2>2. TypeOK'
    BY <1>2, <2>1 DEF FlowInv, TypeOK, NackFilled, clock, reader, env
  <2>3. QED
    BY <1>2, <2>2, RingKept DEF NackFilled, FlowInv, NacksWithinArray
<1>3. CASE NackHole
  BY <1>3, NackHoleInv
<1>4. CASE NackEnd
  <2>1. /\ nacks' \in Seq(Seqs) /\ Len(nacks') <= MaxNacks
        /\ asked' \in SUBSET Packets
    <3>1. /\ nacks \in Seq(Seqs) /\ Len(nacks) <= MaxNacks
          /\ asked \in SUBSET Packets
      BY DEF FlowInv, TypeOK, NacksWithinArray
    <3>2. CASE linked
      <4>1. nacks' = <<>>
        BY <1>4, <3>2 DEF NackEnd, SendGroup
      <4>2. asked' = asked \cup UNION {Requested(nacks[i]) : i \in 1 .. Len(nacks)}
        BY <1>4, <3>2 DEF NackEnd, SendGroup
      <4>3. asked' \in SUBSET Packets
        BY <3>1, <4>2, RequestedPackets
      <4>4. QED BY <4>1, <4>3, FlowAssumption
    <3>3. CASE ~linked
      BY <1>4, <3>1, <3>3 DEF NackEnd, SendGroup
    <3>4. QED BY <3>2, <3>3
  <2>2. TypeOK'
    BY <1>4, <2>1 DEF FlowInv, TypeOK, NackEnd, clock, reader
  <2>3. QED
    BY <1>4, <2>1, <2>2, RingKept DEF NackEnd, FlowInv, NacksWithinArray
<1>5. QED BY <1>1, <1>2, <1>3, <1>4 DEF Nack

-----------------------------------------------------------------------------
(* The output thread.                                                      *)

\* The slot d places in front of the reader, and the one after it.
LEMMA AtTypes ==
  ASSUME TypeOK, NEW d \in Slots
  PROVE  At(d) \in Slots /\ After(At(d)) \in Slots /\ After(At(d)) # At(d)
<1>1. outputIdx + d \in Int /\ QueueMax \in Nat \ {0}
  BY FlowAssumption DEF TypeOK, Slots
<1>2. At(d) \in Slots
  BY <1>1, ModRange DEF At, Slots
<1>3. After(At(d)) \in Slots /\ After(At(d)) # At(d)
  BY <1>2, FlowAssumption, ModSucc DEF Slots, After
<1>4. QED BY <1>2, <1>3

\* Taking one buffer, or the two of a pair, out of the ring takes as much off
\* receiver_queue_size: it cannot fall below zero.
LEMMA ConsumeInv ==
  ASSUME FlowInv, NEW i \in Slots, NEW k \in {1, 2}, NEW since \in Nat,
         ring[i] # NULL,
         After(i) \in Slots, After(i) # i, k = 2 => ring[After(i)] # NULL,
         Consume(i, k, since)
  PROVE  /\ ring' \in [Slots -> Buffers \cup {NULL}]
         /\ queueSize' \in Nat /\ outputIdx' \in Slots
         /\ lastOutputTime' \in Nat /\ hasItems' \in BOOLEAN
         /\ SizeNeverUnderstated' /\ ShortSizeExact' /\ InOwnSlot'
<1> DEFINE j == After(i)
           gone == IF k = 2 THEN {i, j} ELSE {i}
<1>1. ring' = [x \in Slots |-> IF x \in gone THEN NULL ELSE ring[x]]
  BY DEF Consume
<1>2. Occupied' = Occupied \ gone
  BY <1>1 DEF Occupied
<1>3. Cardinality(Occupied') = Cardinality(Occupied) - k
      /\ Cardinality(Occupied') \in Nat
  <2>1. i \in Occupied
    BY DEF Occupied
  <2>2. /\ IsFiniteSet(Occupied \ {i})
        /\ Cardinality(Occupied \ {i}) = Cardinality(Occupied) - 1
    BY <2>1, OccupiedFinite, FS_RemoveElement
  <2>3. CASE k = 1
    <3>1. Occupied' = Occupied \ {i}
      BY <1>2, <2>3
    <3>2. QED BY <2>2, <2>3, <3>1, FS_CardinalityType
  <2>4. CASE k = 2
    <3>1. j \in Occupied \ {i}
      BY <2>4 DEF Occupied
    <3>2. Occupied' = (Occupied \ {i}) \ {j}
      BY <1>2, <2>4
    <3>3. /\ IsFiniteSet((Occupied \ {i}) \ {j})
          /\ Cardinality((Occupied \ {i}) \ {j}) = Cardinality(Occupied \ {i}) - 1
      BY <2>2, <3>1, FS_RemoveElement
    <3>4. QED BY <2>2, <2>4, <3>2, <3>3, OccupiedFinite, FS_CardinalityType
  <2>5. QED BY <2>3, <2>4
<1>4. queueSize' = queueSize - k /\ queueSize \in Nat
  BY DEF Consume, FlowInv, TypeOK
<1>5. queueSize' \in Nat /\ SizeNeverUnderstated' /\ ShortSizeExact'
  BY <1>3, <1>4, OccupiedFinite
     DEF FlowInv, SizeNeverUnderstated, ShortSizeExact
<1>6. ring' \in [Slots -> Buffers \cup {NULL}]
  BY <1>1 DEF FlowInv, TypeOK
<1>7. outputIdx' \in Slots
  <2>1. i + k \in Int /\ QueueMax \in Nat \ {0}
    BY FlowAssumption DEF Slots
  <2>2. (i + k) % QueueMax \in Slots
    BY <2>1, ModRange DEF Slots
  <2>3. QED BY <2>2 DEF Consume
<1>8. lastOutputTime' \in Nat /\ hasItems' \in BOOLEAN
  BY DEF Consume, FlowInv, TypeOK
<1>9. InOwnSlot'
  BY <1>1, <1>2 DEF InOwnSlot, FlowInv, Occupied
<1>10. QED BY <1>5, <1>6, <1>7, <1>8, <1>9

\* A buffer of the ring has its packet's sequence number.
LEMMA BufferTypes ==
  ASSUME TypeOK, NEW i \in Slots, ring[i] # NULL
  PROVE  ring[i].num \in Packets /\ SeqNum(ring[i].num) \in Seqs
<1>1. ring[i] \in Buffers
  BY DEF TypeOK
<1>2. QED BY <1>1, PacketTypes DEF Buffers

LEMMA DropTooOldInv ==
  ASSUME FlowInv, NEW d \in Slots, DropTooOld(d)
  PROVE  FlowInv'
<1> DEFINE i == At(d)
<1>1. i \in Slots /\ After(i) \in Slots /\ After(i) # i
  BY AtTypes DEF FlowInv
<1>2. ring[i] # NULL /\ Consume(i, 1, lastOutputTime)
  BY DEF DropTooOld, InFront
<1>3. lastOutputTime \in Nat
  BY DEF FlowInv, TypeOK
<1>4. /\ ring' \in [Slots -> Buffers \cup {NULL}]
      /\ queueSize' \in Nat /\ outputIdx' \in Slots
      /\ lastOutputTime' \in Nat /\ hasItems' \in BOOLEAN
      /\ SizeNeverUnderstated' /\ ShortSizeExact' /\ InOwnSlot'
  <2> HIDE DEF i
  <2>1. QED BY <1>1, <1>2, <1>3, ConsumeInv
<1>5. lastSeqOutput' \in Seqs
  BY <1>1, <1>2, BufferTypes DEF DropTooOld, FlowInv
<1>6. TypeOK'
  BY <1>4, <1>5 DEF FlowInv, TypeOK, DropTooOld, clock, holes, env
<1>7. NacksWithinArray'
  BY DEF DropTooOld, holes, FlowInv, NacksWithinArray
<1>8. QED BY <1>4, <1>6, <1>7 DEF FlowInv

LEMMA DeliverInv ==
  ASSUME FlowInv, NEW d \in Slots, Deliver(d)
  PROVE  FlowInv'
<1> DEFINE i == At(d)
           pair == Merges(ring[i], ring[After(i)])
           k == IF pair THEN 2 ELSE 1
           last == IF pair THEN ring[After(i)].num ELSE ring[i].num
<1>1. i \in Slots /\ After(i) \in Slots /\ After(i) # i
  BY AtTypes DEF FlowInv
<1>2. ring[i] # NULL /\ Consume(i, k, now)
  BY DEF Deliver, InFront
<1>3. k \in {1, 2} /\ (k = 2 => ring[After(i)] # NULL)
  BY DEF Merges
<1>4. now \in Nat
  BY DEF FlowInv, TypeOK
<1>5. /\ ring' \in [Slots -> Buffers \cup {NULL}]
      /\ queueSize' \in Nat /\ outputIdx' \in Slots
      /\ lastOutputTime' \in Nat /\ hasItems' \in BOOLEAN
      /\ SizeNeverUnderstated' /\ ShortSizeExact' /\ InOwnSlot'
  <2> HIDE DEF i, k
  <2>1. QED BY <1>1, <1>2, <1>3, <1>4, ConsumeInv
<1>6. ring[i].num \in Packets /\ last \in Packets
  BY <1>1, <1>2, <1>3, BufferTypes DEF FlowInv
<1>7. lastSeqOutput' \in Seqs
  <2>1. lastSeqOutput' = SeqNum(last)
    BY DEF Deliver
  <2>2. QED BY <1>6, <2>1, PacketTypes
<1>8. out' \in [num : Packets \cup {-1}, last : Packets \cup {-1},
                start : BOOLEAN, gap : BOOLEAN, turn : BOOLEAN]
  <2>1. out' = [num |-> ring[i].num, last |-> last, start |-> bufferStart,
                gap |-> d > 0 \/ SeqNum(ring[i].num) # SeqNext(lastSeqOutput),
                turn |-> ~out.turn]
    BY DEF Deliver
  <2>2. bufferStart \in BOOLEAN /\ out.turn \in BOOLEAN
    BY DEF FlowInv, TypeOK
  <2> HIDE DEF i, last
  <2>3. QED BY <1>6, <2>1, <2>2
<1>9. bufferStart' \in BOOLEAN
  BY DEF Deliver
<1>10. TypeOK'
  BY <1>5, <1>7, <1>8, <1>9 DEF FlowInv, TypeOK, Deliver, clock, holes, env
<1>11. NacksWithinArray'
  BY DEF Deliver, holes, FlowInv, NacksWithinArray
<1>12. QED BY <1>5, <1>10, <1>11 DEF FlowInv

LEMMA OutputNothingInv ==
  ASSUME FlowInv, OutputNothing
  PROVE  FlowInv'
<1>1. Occupied' = {} /\ queueSize' = 0
  BY DEF OutputNothing, Occupied
<1>2. SizeNeverUnderstated' /\ ShortSizeExact'
  BY <1>1, FS_EmptySet DEF SizeNeverUnderstated, ShortSizeExact
<1>3. InOwnSlot'
  BY <1>1 DEF InOwnSlot
<1>4. TypeOK'
  <2>1. hasItems' \in BOOLEAN /\ queueSize' \in Nat
    BY DEF OutputNothing
  <2>2. QED
    BY <2>1 DEF FlowInv, TypeOK, OutputNothing, clock, holes, reader, env
<1>5. NacksWithinArray'
  BY DEF OutputNothing, holes, FlowInv, NacksWithinArray
<1>6. QED BY <1>2, <1>3, <1>4, <1>5 DEF FlowInv

-----------------------------------------------------------------------------
(* Every step, and the theorem.                                            *)

\* The clock, the environment, a reset of the flow and a stuttering step leave
\* the ring, its size and the NACK array alone.
LEMMA EnvironmentInv ==
  ASSUME FlowInv,
         \/ Tick \/ Rebase \/ Unlink \/ Relink \/ UNCHANGED vars
         \/ \E d \in Slots : ResetTooOld(d)
  PROVE  FlowInv'
<1>1. ring' = ring /\ queueSize' = queueSize /\ nacks' = nacks
  BY DEF Tick, Rebase, Unlink, Relink, ResetTooOld, vars, holes
<1>2. TypeOK'
  <2>1. CASE Tick
    BY <2>1 DEF FlowInv, TypeOK, Tick, clock, holes, reader, env
  <2>2. CASE Rebase
    <3>1. rebases' \in 0 .. MaxRebases
      BY <2>2, FlowAssumption DEF FlowInv, TypeOK, Rebase
    <3>2. QED BY <2>2, <3>1 DEF FlowInv, TypeOK, Rebase, clock, holes, reader
  <2>3. CASE Unlink
    <3>1. flaps' \in 0 .. MaxFlaps
      BY <2>3, FlowAssumption DEF FlowInv, TypeOK, Unlink
    <3>2. QED BY <2>3, <3>1 DEF FlowInv, TypeOK, Unlink, clock, holes, reader
  <2>4. CASE Relink
    BY <2>4 DEF FlowInv, TypeOK, Relink, clock, holes, reader
  <2>5. CASE UNCHANGED vars
    BY <2>5 DEF FlowInv, TypeOK, vars, clock, holes, reader, env
  <2>6. CASE \E d \in Slots : ResetTooOld(d)
    BY <2>6 DEF FlowInv, TypeOK, ResetTooOld, clock, holes, reader, env
  <2>7. QED BY <2>1, <2>2, <2>3, <2>4, <2>5, <2>6
<1>3. QED
  BY <1>1, <1>2, RingKept DEF FlowInv, NacksWithinArray

\* FlowInv is inductive.
THEOREM StepInv == FlowInv /\ [Next]_vars => FlowInv'
<1> SUFFICES ASSUME FlowInv, [Next]_vars PROVE FlowInv'
  OBVIOUS
<1>1. CASE \E n \in Packets, retry \in BOOLEAN : Enqueue(n, retry)
  <2>1. PICK n \in Packets, retry \in BOOLEAN : Enqueue(n, retry)
    BY <1>1
  <2>2. CASE AwaitAnchor(n) \/ DropLate(n) \/ DropFull(n) \/ DropDupe(n)
    BY <2>2, RefusalInv
  <2>3. CASE Anchor(n)
    BY <2>3, AnchorInv
  <2>4. CASE Insert(n, retry)
    BY <2>4, InsertInv
  <2>5. QED BY <2>1, <2>2, <2>3, <2>4 DEF Enqueue
<1>2. CASE Nack
  BY <1>2, NackInv
<1>3. CASE Outputs
  BY <1>3, OutputNothingInv, DropTooOldInv, DeliverInv DEF Outputs
<1>4. CASE \/ Tick \/ Rebase \/ Unlink \/ Relink \/ UNCHANGED vars
           \/ \E d \in Slots : ResetTooOld(d)
  BY <1>4, EnvironmentInv
<1>5. QED BY <1>1, <1>2, <1>3, <1>4 DEF Next

\* FlowInv holds in every reachable state.
THEOREM FlowCorrect == Spec => []FlowInv
  BY InitInv, StepInv, PTL DEF Spec

\* The state keeps its types.
THEOREM TypesCorrect == Spec => []TypeOK
<1>1. FlowInv => TypeOK
  BY DEF FlowInv
<1>2. QED BY <1>1, FlowCorrect, PTL

\* receiver_queue_size is never less than the buffers in the ring, so that
\* receiver_output and empty_receiver_queue overlook none, and no subtraction
\* of a size wraps.
THEOREM SizeSafe == Spec => []SizeNeverUnderstated
<1>1. FlowInv => SizeNeverUnderstated
  BY DEF FlowInv
<1>2. QED BY <1>1, FlowCorrect, PTL

\* Where the sequence numbers are the slots, receiver_queue_size is exact.
THEOREM ShortSizeCorrect == Spec => []ShortSizeExact
<1>1. FlowInv => ShortSizeExact
  BY DEF FlowInv
<1>2. QED BY <1>1, FlowCorrect, PTL

\* The NACK loop never writes past the end of nacks.array.
THEOREM NackArraySafe == Spec => []NacksWithinArray
<1>1. FlowInv => NacksWithinArray
  BY DEF FlowInv
<1>2. QED BY <1>1, FlowCorrect, PTL

=============================================================================
