-------------------------- MODULE FlowOrderProofs --------------------------
(***************************************************************************)
(* What a receiver flow asks for and what it hands over, for every size of *)
(* the ring, of the sequence field and of the buffers: the list of missing *)
(* packets and the NACK group, the order of the blocks, their flags, and   *)
(* that ReceiverFlow implements OrderedDelivery.                           *)
(***************************************************************************)
EXTENDS ReceiverFlowProofs

-----------------------------------------------------------------------------
(* Remainders.                                                             *)

\* A number and its remainder differ by whole turns.
LEMMA Turns == ASSUME NEW a \in Int, NEW q \in Nat \ {0}
               PROVE  \E k \in Int, r \in 0 .. q - 1 :
                        a = q * k + r /\ a % q = r
<1>1. a % q \in 0 .. q - 1
  BY ModRange
<1>2. a \div q \in Int /\ a = q * (a \div q) + (a % q)
  BY SMT
<1> QED
  BY <1>1, <1>2

\* A remainder is determined by any number that is whole turns away.
LEMMA Remainder ==
  ASSUME NEW a \in Int, NEW q \in Nat \ {0}, NEW k \in Int, NEW r \in 0 .. q - 1,
         a = q * k + r
  PROVE  a % q = r
<1>1. PICK l \in Int, t \in 0 .. q - 1 : a = q * l + t /\ a % q = t
  BY Turns
<1> DEFINE d == k - l
<1>2. t - r = q * d /\ d \in Int
  BY <1>1
<1>3. (d >= 1 => q * d >= q) /\ (d <= -1 => q * d <= -q)
  BY <1>2
<1>4. d = 0
  BY <1>2, <1>3
<1> QED
  BY <1>1, <1>2, <1>4

\* Numbers less than a turn apart with the same remainder are equal.
LEMMA SameRemainder ==
  ASSUME NEW a \in Int, NEW b \in Int, NEW q \in Nat \ {0},
         a % q = b % q, a - b < q, b - a < q
  PROVE  a = b
<1>1. PICK k \in Int, r \in 0 .. q - 1 : a = q * k + r /\ a % q = r
  BY Turns
<1>2. PICK l \in Int, t \in 0 .. q - 1 : b = q * l + t /\ b % q = t
  BY Turns
<1> DEFINE d == k - l
<1>3. a - b = q * d /\ d \in Int
  BY <1>1, <1>2
<1>4. (d >= 1 => q * d >= q) /\ (d <= -1 => q * d <= -q)
  BY <1>3
<1>5. d = 0
  BY <1>3, <1>4
<1> QED
  BY <1>3, <1>5

\* Taking the remainder early changes nothing.
LEMMA SumRemainder ==
  ASSUME NEW a \in Int, NEW d \in Int, NEW q \in Nat \ {0}
  PROVE  ((a % q) + d) % q = (a + d) % q
<1>1. PICK k \in Int, r \in 0 .. q - 1 : a = q * k + r /\ a % q = r
  BY Turns
<1> DEFINE e == r + d
<1>0. e \in Int
  OBVIOUS
<1> HIDE DEF e
<1>2. PICK l \in Int, t \in 0 .. q - 1 : e = q * l + t /\ e % q = t
  BY <1>0, Turns
<1>3. a + d = q * (k + l) + t /\ k + l \in Int /\ a + d \in Int
  BY <1>1, <1>2 DEF e
<1>4. (a + d) % q = t
  BY <1>3, Remainder
<1> QED
  BY <1>1, <1>2, <1>4 DEF e

\* A ring that divides the sequence space sees through its remainder.
LEMMA NestedRemainder ==
  ASSUME NEW a \in Int, NEW s \in Nat \ {0}, NEW q \in Nat \ {0}, s % q = 0
  PROVE  (a % s) % q = a % q
<1>1. PICK k \in Int, r \in 0 .. s - 1 : a = s * k + r /\ a % s = r
  BY Turns
<1>2. PICK m \in Int, z \in 0 .. q - 1 : s = q * m + z /\ s % q = z
  BY Turns
<1>3. PICK l \in Int, t \in 0 .. q - 1 : r = q * l + t /\ r % q = t
  BY Turns
<1>4. s * k = q * (m * k) /\ m * k \in Int
  BY <1>2
<1>5. a = q * (m * k + l) + t /\ m * k + l \in Int
  BY <1>1, <1>3, <1>4
<1>6. a % q = t
  BY <1>5, Remainder
<1> QED
  BY <1>1, <1>3, <1>6

\* Every sequence number has a slot.
LEMMA SeqHasSlot == ASSUME NEW s \in Seqs PROVE SlotOf(s) \in Slots
<1>1. s \in Int /\ QueueMax \in Nat \ {0}
  BY FlowAssumption DEF Seqs
<1>2. s % QueueMax \in 0 .. QueueMax - 1
  BY <1>1, ModRange
<1> QED
  BY <1>2 DEF SlotOf, Slots

\* Packets are stamped in the order of the stream.
LEMMA StampsOrdered ==
  ASSUME NEW n \in Packets, NEW m \in Packets
  PROVE  n <= m => SourceTime(n) <= SourceTime(m)
<1>1. n \in Nat /\ m \in Nat
  BY PacketTypes
<1>2. n <= m => n - (n % 2) <= m - (m % 2)
  BY <1>1
<1> QED
  BY <1>1, <1>2, FlowAssumption DEF SourceTime

-----------------------------------------------------------------------------
(* The NACK group.                                                         *)

\* A flow that never loses its peers sends its group at the end of each pass
\* over the list, so that nothing arrives while there is one.
AskInv == linked /\ (nackPos = 0 => nacks = <<>>) /\ NacksAreHoles

\* Nothing is put into the ring and the group stays as it is.
LEMMA AskedAlready ==
  ASSUME AskInv, FlowInv, nacks' = nacks, nackPos' = nackPos, linked' = linked,
         \A i \in Slots : ring'[i] \in {ring[i], NULL}
  PROVE  AskInv'
<1>1. NacksAreHoles'
  <2> SUFFICES ASSUME NEW i \in 1 .. Len(nacks),
                      ring'[SlotOf(nacks[i])] # NULL
               PROVE  SeqNum(ring'[SlotOf(nacks[i])].num) # nacks[i]
    BY DEF NacksAreHoles
  <2>1. nacks[i] \in Seqs
    BY DEF FlowInv, TypeOK
  <2>2. SlotOf(nacks[i]) \in Slots
    BY <2>1, SeqHasSlot
  <2>3. ring'[SlotOf(nacks[i])] = ring[SlotOf(nacks[i])]
    BY <2>2
  <2>4. QED
    BY <2>3 DEF AskInv, NacksAreHoles
<1>2. QED
  BY <1>1 DEF AskInv

\* A turn of the loop adds a number whose slot is empty.
LEMMA AskHole ==
  ASSUME AskInv, FlowInv, NackHole
  PROVE  AskInv'
<1> DEFINE m == missing[nackPos]
<1>1. nackPos' # 0 /\ linked' = linked /\ ring' = ring
  BY DEF NackHole, FlowInv, TypeOK
<1>2. ring[SlotOf(m.seq)] = NULL
  BY DEF NackHole
<1>3. nacks' \in {<<>>, nacks, Append(<<>>, m.seq), Append(nacks, m.seq)}
  BY DEF NackHole, GroupStart
<1>4. m.seq \in Seqs /\ nacks \in Seq(Seqs)
  BY RemoveHole DEF NackHole, FlowInv, TypeOK, Holes
<1>5. ASSUME NEW i \in 1 .. Len(nacks')
      PROVE  nacks'[i] = m.seq \/ \E j \in 1 .. Len(nacks) : nacks'[i] = nacks[j]
  <2>1. CASE nacks' = <<>>
    BY <1>5, <2>1
  <2>2. CASE nacks' = nacks
    BY <1>5, <2>2
  <2>3. CASE nacks' = Append(<<>>, m.seq)
    BY <1>5, <2>3
  <2>4. CASE nacks' = Append(nacks, m.seq)
    BY <1>4, <1>5, <2>4
  <2>5. QED BY <1>3, <2>1, <2>2, <2>3, <2>4
<1>6. NacksAreHoles'
  BY <1>1, <1>2, <1>5 DEF AskInv, NacksAreHoles
<1>7. QED BY <1>1, <1>6 DEF AskInv

\* AskInv is inductive in a flow that keeps its peers.
LEMMA AskStep ==
  ASSUME MaxFlaps = 0, AskInv, FlowInv, [Next]_vars
  PROVE  AskInv'
<1>1. CASE \E n \in Packets, retry \in BOOLEAN : Enqueue(n, retry)
  <2>1. PICK n \in Packets, retry \in BOOLEAN : Enqueue(n, retry)
    BY <1>1
  <2>2. nackPos = 0 /\ nackPos' = 0 /\ nacks' = nacks /\ linked' = linked
    BY <2>1 DEF Enqueue, Arrives, AwaitAnchor, Anchor, DropLate, DropFull,
                DropDupe, Insert, holes, env
  <2>3. nacks' = <<>>
    BY <2>2 DEF AskInv
  <2>4. QED BY <2>2, <2>3 DEF AskInv, NacksAreHoles
<1>2. CASE NackBegin
  BY <1>2 DEF NackBegin, AskInv, NacksAreHoles, env
<1>3. CASE NackFilled
  BY <1>3 DEF NackFilled, AskInv, NacksAreHoles, env
<1>4. CASE NackHole
  BY <1>4, AskHole
<1>5. CASE NackEnd
  BY <1>5 DEF NackEnd, SendGroup, AskInv, NacksAreHoles
<1>6. CASE Outputs
  <2>1. nacks' = nacks /\ nackPos' = nackPos /\ linked' = linked
    BY <1>6 DEF Outputs, OutputNothing, DropTooOld, Deliver, holes, env
  <2>2. \A i \in Slots : ring'[i] \in {ring[i], NULL}
    BY <1>6 DEF Outputs, OutputNothing, DropTooOld, Deliver, Consume
  <2>3. QED BY <2>1, <2>2, AskedAlready
<1>7. CASE \/ Tick \/ Rebase \/ UNCHANGED vars
           \/ \E d \in Slots : ResetTooOld(d)
  BY <1>7, AskedAlready DEF Tick, Rebase, ResetTooOld, vars, holes, env
<1>8. CASE Unlink
  BY <1>8 DEF Unlink, FlowInv, TypeOK
<1>9. CASE Relink
  BY <1>9 DEF Relink, AskInv
<1>10. QED
  BY <1>1, <1>2, <1>3, <1>4, <1>5, <1>6, <1>7, <1>8, <1>9 DEF Next, Nack

\* While a flow keeps its peers no packet that is in the ring is asked for:
\* receiver_nack_output looks at the slot in the turn that adds the number, and
\* sends the group before receiver_enqueue runs again.
THEOREM AsksForHoles ==
  ASSUME MaxFlaps = 0
  PROVE  Spec => []NacksAreHoles
<1>1. Init => AskInv
  BY DEF Init, AskInv, NacksAreHoles
<1>2. AskInv /\ FlowInv /\ [Next]_vars => AskInv'
  BY AskStep
<1>3. AskInv => NacksAreHoles
  BY DEF AskInv
<1>4. QED
  BY <1>1, <1>2, <1>3, FlowCorrect, PTL DEF Spec

-----------------------------------------------------------------------------
(* The list of missing packets.                                            *)

\* The network keeps the order and the numbers have not come round yet.
OneTurn == ~Reorders /\ LastPacket < SeqSpace

\* While the numbers have not come round they tell the packets apart.
LEMMA NumbersDiffer ==
  ASSUME OneTurn, NEW n \in Packets, NEW m \in Packets, SeqNum(n) = SeqNum(m)
  PROVE  n = m
<1>1. n \in Int /\ m \in Int /\ n - m < SeqSpace /\ m - n < SeqSpace
  BY FlowAssumption DEF OneTurn, Packets
<1> DEFINE a == FirstSeq + n
           b == FirstSeq + m
<1>2. /\ a \in Int /\ b \in Int /\ SeqSpace \in Nat \ {0}
      /\ a - b < SeqSpace /\ b - a < SeqSpace
  BY <1>1, FlowAssumption
<1>3. a % SeqSpace = b % SeqSpace
  BY DEF SeqNum
<1> HIDE DEF a, b
<1>4. a = b
  BY <1>2, <1>3, SameRemainder
<1> QED
  BY <1>1, <1>4, FlowAssumption DEF a, b

\* f is the packet last_seq_found stands for, and every hole is before it.
HolesBefore(f) ==
  /\ lastSeqFound = SeqNum(f) /\ SourceTime(f) <= maxSourceTime
  /\ \A k \in 1 .. Len(missing) :
       \E h \in Packets : h < f /\ missing[k].seq = SeqNum(h)

\* The list is without repetition and in front of it lies only what has not
\* been found; the time of the newest packet fits its timestamp.
ListInv ==
  /\ MissingOnce
  /\ anchor = -1 => ~hasItems /\ missing = <<>>
  /\ anchor # -1 => /\ lastPacketTs = maxSourceTime + offset
                    /\ \E f \in Packets : HolesBefore(f)

\* A shorter list, with the holes of before, is as good.
LEMMA ShorterList ==
  ASSUME ListInv, FlowInv,
         \A i \in 1 .. Len(missing') : \E k \in 1 .. Len(missing) :
           missing'[i].seq = missing[k].seq,
         MissingOnce', missing = <<>> => missing' = <<>>,
         hasItems' => hasItems, anchor' = anchor, lastPacketTs' = lastPacketTs,
         maxSourceTime' = maxSourceTime, offset' = offset,
         lastSeqFound' = lastSeqFound
  PROVE  ListInv'
<1>1. anchor' = -1 => ~hasItems' /\ missing' = <<>>
  BY DEF ListInv, FlowInv, TypeOK
<1>2. ASSUME anchor' # -1
      PROVE  /\ lastPacketTs' = maxSourceTime' + offset'
             /\ \E f \in Packets : HolesBefore(f)'
  <2>1. PICK f \in Packets : HolesBefore(f)
    BY <1>2 DEF ListInv
  <2>2. HolesBefore(f)'
    BY <2>1 DEF HolesBefore
  <2>3. QED BY <1>2, <2>2 DEF ListInv
<1>3. QED BY <1>1, <1>2 DEF ListInv

\* What is left of a list without its entry i.
LEMMA Without ==
  ASSUME NEW s \in Seq(Holes), NEW i \in 1 .. Len(s)
  PROVE  LET r == RemoveAt(s, i)
         IN  /\ Len(r) = Len(s) - 1
             /\ \A k \in 1 .. Len(s) - 1 :
                  r[k] = s[IF k < i THEN k ELSE k + 1]
<1> DEFINE a == SubSeq(s, 1, i - 1)
           b == SubSeq(s, i + 1, Len(s))
<1>1. a \in Seq(Holes) /\ Len(a) = i - 1
      /\ \A k \in 1 .. i - 1 : a[k] = s[k]
  OBVIOUS
<1>2. b \in Seq(Holes) /\ Len(b) = Len(s) - i
      /\ \A k \in 1 .. Len(s) - i : b[k] = s[i + k]
  OBVIOUS
<1>3. RemoveAt(s, i) = a \o b
  BY DEF RemoveAt
<1> HIDE DEF a, b
<1>4. Len(a \o b) = Len(s) - 1
  BY <1>1, <1>2
<1>5. ASSUME NEW k \in 1 .. Len(s) - 1
      PROVE  (a \o b)[k] = s[IF k < i THEN k ELSE k + 1]
  <2>1. CASE k < i
    <3>1. (a \o b)[k] = a[k]
      BY <1>1, <1>2, <1>4, <2>1
    <3>2. QED BY <1>1, <2>1, <3>1
  <2>2. CASE ~(k < i)
    <3>1. (a \o b)[k] = b[k - (i - 1)]
      BY <1>1, <1>2, <1>4, <2>2
    <3>2. k - (i - 1) \in 1 .. Len(s) - i
      BY <2>2
    <3>3. QED BY <1>2, <2>2, <3>1, <3>2
  <2>3. QED BY <2>1, <2>2
<1>6. QED BY <1>3, <1>4, <1>5

\* Taking a hole out of the list.
LEMMA HoleTaken ==
  ASSUME ListInv, FlowInv, nackPos \in 1 .. Len(missing),
         missing' = RemoveAt(missing, nackPos)
  PROVE  /\ MissingOnce'
         /\ \A i \in 1 .. Len(missing') : \E k \in 1 .. Len(missing) :
              missing'[i].seq = missing[k].seq
<1> DEFINE from(k) == IF k < nackPos THEN k ELSE k + 1
<1>1. missing \in Seq(Holes) /\ Len(missing) \in Nat
  BY DEF FlowInv, TypeOK
<1>2. /\ Len(missing') = Len(missing) - 1
      /\ \A k \in 1 .. Len(missing) - 1 : missing'[k] = missing[from(k)]
  BY <1>1, Without
<1>3. ASSUME NEW k \in 1 .. Len(missing')
      PROVE  from(k) \in 1 .. Len(missing) /\ missing'[k] = missing[from(k)]
  BY <1>1, <1>2, <1>3
<1>4. ASSUME NEW i \in 1 .. Len(missing'), NEW j \in 1 .. Len(missing'),
             missing'[i].seq = missing'[j].seq
      PROVE  i = j
  <2>1. from(i) = from(j)
    BY <1>3, <1>4 DEF ListInv, MissingOnce
  <2>2. QED BY <1>1, <1>2, <2>1
<1>5. QED BY <1>3, <1>4 DEF MissingOnce

\* How far one packet is behind another, from their numbers alone.
LEMMA GapIsDistance ==
  ASSUME OneTurn, NEW f \in Packets, NEW n \in Packets, f < n
  PROVE  SeqGap(SeqNum(n), SeqNum(f)) = n - f
<1> DEFINE a == FirstSeq + n
           b == FirstSeq + f
<1>1. a \in Int /\ b \in Int /\ SeqSpace \in Nat \ {0}
      /\ a - b = n - f /\ n - f \in 0 .. SeqSpace - 1
  BY FlowAssumption DEF OneTurn, Packets
<1> HIDE DEF a, b
<1>2. PICK k \in Int, r \in 0 .. SeqSpace - 1 :
        a = SeqSpace * k + r /\ a % SeqSpace = r
  BY <1>1, Turns
<1>3. PICK l \in Int, t \in 0 .. SeqSpace - 1 :
        b = SeqSpace * l + t /\ b % SeqSpace = t
  BY <1>1, Turns
<1>4. r - t = SeqSpace * (l - k) + (n - f) /\ l - k \in Int /\ r - t \in Int
  BY <1>1, <1>2, <1>3
<1>5. (r - t) % SeqSpace = n - f
  BY <1>1, <1>4, Remainder
<1> QED
  BY <1>2, <1>3, <1>5 DEF SeqGap, SeqNum, a, b

\* The holes a gap adds are those of the packets in it.
LEMMA NewHolesBetween ==
  ASSUME OneTurn, FlowInv, NEW f \in Packets, NEW n \in Packets, f < n,
         lastSeqFound = SeqNum(f)
  PROVE  LET new == NewHoles(SeqNum(n), PacketTime(n))
         IN  \A k \in 1 .. Len(new) :
               /\ f + k \in Packets /\ f + k < n
               /\ new[k].seq = SeqNum(f + k)
<1> DEFINE s == SeqNum(n)
           cur == PacketTime(n)
           gap == SeqGap(s, lastSeqFound)
           before == ring[SlotOf(lastSeqFound)]
           last == IF before = NULL THEN now ELSE before.ptime
           inter == (cur - last) \div (gap + 1)
           wanted == (IF gap = 0 THEN SeqSpace ELSE gap) - 1
           room == IF Len(missing) > MissingMax THEN 0
                   ELSE MissingMax + 1 - Len(missing)
           count == IF gap > Minimum(SeqSpace, QueueMax) \div 2 THEN 0
                    ELSE Minimum(wanted, Minimum(room, QueueMax))
           since(k) == LET t == last + k * inter
                       IN IF cur < last \/ t > now \/ t < now - Buffer
                          THEN now ELSE t
           hole(k) == [seq |-> (lastSeqFound + k) % SeqSpace, ins |-> since(k),
                       next |-> now + ReorderDelay, count |-> 0]
<1>1. gap = n - f
  BY GapIsDistance
<1>2. f \in Nat /\ n \in Nat
  BY PacketTypes
<1>3. count \in Nat /\ count <= n - f - 1
  BY <1>1, <1>2, FlowAssumption DEF FlowInv, TypeOK, Minimum
<1>4. NewHoles(s, cur) = [k \in 1 .. count |-> hole(k)]
  BY DEF NewHoles
<1> HIDE DEF count, since
<1>5. Len(NewHoles(s, cur)) = count
  BY <1>3, <1>4
<1>6. ASSUME NEW k \in 1 .. count
      PROVE  /\ f + k \in Packets /\ f + k < n
             /\ NewHoles(s, cur)[k].seq = SeqNum(f + k)
  <2>1. f + k \in Packets /\ f + k < n
    BY <1>2, <1>3, FlowAssumption DEF Packets
  <2>2. NewHoles(s, cur)[k].seq = (lastSeqFound + k) % SeqSpace
    BY <1>4
  <2>3. FirstSeq + f \in Int /\ k \in Int /\ SeqSpace \in Nat \ {0}
    BY <1>2, FlowAssumption
  <2>4. (((FirstSeq + f) % SeqSpace) + k) % SeqSpace
          = ((FirstSeq + f) + k) % SeqSpace
    BY <2>3, SumRemainder
  <2>5. (FirstSeq + f) + k = FirstSeq + (f + k)
    BY <1>2, FlowAssumption
  <2>6. QED BY <2>1, <2>2, <2>4, <2>5 DEF SeqNum
<1>7. QED BY <1>5, <1>6

\* A first transmission comes after the packet found last.
LEMMA FirstIsLater ==
  ASSUME OneTurn, NEW f \in Packets, NEW n \in Packets, HolesBefore(f), FlowInv,
         Newest(n)
  PROVE  f < n
<1>1. f \in Nat /\ n \in Nat /\ maxSourceTime \in Nat
      /\ SourceTime(f) \in Nat /\ SourceTime(n) \in Nat
  BY PacketTypes DEF FlowInv, TypeOK
<1>2. CASE SourceTime(n) > maxSourceTime
  <2>1. ~(SourceTime(n) <= SourceTime(f))
    BY <1>1, <1>2 DEF HolesBefore
  <2>2. ~(n <= f)
    BY <2>1, StampsOrdered
  <2>3. QED BY <1>1, <2>2
<1>3. CASE n % 2 = 1 /\ SeqNum(n - 1) = lastSeqFound
  <2>1. n - 1 \in Packets
    BY <1>1, <1>3, FlowAssumption DEF Packets
  <2>2. n - 1 = f
    BY <2>1, <1>3, NumbersDiffer DEF HolesBefore
  <2>3. QED BY <1>1, <2>2
<1>4. QED BY <1>2, <1>3 DEF Newest

\* A packet is put into the ring: a first transmission adds the holes between
\* the last one found and itself, none of which is in the list.
LEMMA InsertList ==
  ASSUME OneTurn, ListInv, FlowInv, NEW n \in Packets, NEW retry \in BOOLEAN,
         Arrives(n, retry), Insert(n, retry)
  PROVE  ListInv'
<1>1. anchor # -1 /\ anchor' = anchor /\ offset' = offset /\ hasItems' = hasItems
  BY DEF Insert, ListInv, env
<1>2. PICK f \in Packets : HolesBefore(f)
  BY <1>1 DEF ListInv
<1>3. /\ lastPacketTs' = maxSourceTime' + offset'
      /\ maxSourceTime <= maxSourceTime' /\ SourceTime(n) <= maxSourceTime'
  <2>1. SourceTime(n) \in Nat /\ maxSourceTime \in Nat /\ offset \in Int
    BY PacketTypes DEF FlowInv, TypeOK
  <2>2. lastPacketTs = maxSourceTime + offset /\ MarkNewest(n)
    BY <1>1 DEF Insert, ListInv
  <2>3. CASE SourceTime(n) > maxSourceTime
    BY <1>1, <2>1, <2>2, <2>3 DEF MarkNewest, PacketTime
  <2>4. CASE ~(SourceTime(n) > maxSourceTime)
    BY <1>1, <2>1, <2>2, <2>4 DEF MarkNewest
  <2>5. QED BY <2>3, <2>4
<1>4. SourceTime(f) <= maxSourceTime'
  BY <1>2, <1>3, PacketTypes, MarkTypes DEF HolesBefore, FlowInv, TypeOK, Insert
<1>5. CASE missing' = missing /\ lastSeqFound' = lastSeqFound
  <2>1. HolesBefore(f)'
    BY <1>2, <1>4, <1>5 DEF HolesBefore
  <2>2. QED BY <1>1, <1>3, <1>5, <2>1 DEF ListInv, MissingOnce
<1>6. CASE ~(retry \/ OutOfOrder(n))
  <2> DEFINE new == NewHoles(SeqNum(n), PacketTime(n))
  <2>1. f < n /\ lastSeqFound' = SeqNum(n)
    BY <1>2, <1>6, FirstIsLater DEF Arrives, OneTurn, Insert, Found
  <2>2. \A k \in 1 .. Len(new) : /\ f + k \in Packets /\ f + k < n
                                 /\ new[k].seq = SeqNum(f + k)
    BY <1>2, <2>1, NewHolesBetween DEF HolesBefore
  <2>3. new \in Seq(Holes) /\ missing \in Seq(Holes)
    BY NewHolesType DEF FlowInv, TypeOK
  <2>4. f \in Nat /\ n \in Nat /\ Packets \subseteq Nat
    BY PacketTypes
  <2> HIDE DEF new
  <2>5. CASE missing' = missing
    <3>1. HolesBefore(n)'
      BY <1>2, <1>3, <2>1, <2>4, <2>5 DEF HolesBefore
    <3>2. QED BY <1>1, <1>3, <2>5, <3>1 DEF ListInv, MissingOnce
  <2>6. CASE missing' = missing \o new
    <3> DEFINE L == Len(missing)
               num(k) == IF k <= L THEN CHOOSE h \in Packets :
                                          h < f /\ missing[k].seq = SeqNum(h)
                         ELSE f + (k - L)
    <3>1. /\ L \in Nat /\ Len(missing') = L + Len(new) /\ Len(new) \in Nat
          /\ \A k \in 1 .. L : missing'[k] = missing[k]
          /\ \A k \in 1 .. Len(new) : missing'[L + k] = new[k]
      BY <2>3, <2>6
    <3>2. ASSUME NEW k \in 1 .. Len(missing')
          PROVE  /\ num(k) \in Packets /\ num(k) < n
                 /\ missing'[k].seq = SeqNum(num(k))
                 /\ IF k <= L THEN num(k) < f ELSE num(k) > f
      <4>1. CASE k <= L
        <5>1. k \in 1 .. L
          BY <3>1, <4>1
        <5>2. PICK h \in Packets : h < f /\ missing[k].seq = SeqNum(h)
          BY <1>2, <5>1 DEF HolesBefore
        <5>3. /\ num(k) \in Packets
              /\ num(k) < f /\ missing[k].seq = SeqNum(num(k))
          BY <4>1, <5>2
        <5> HIDE DEF num
        <5>4. num(k) \in Nat
          BY <2>4, <5>3
        <5>5. missing'[k] = missing[k] /\ num(k) < n
          BY <2>1, <2>4, <3>1, <5>1, <5>3, <5>4
        <5>6. QED BY <4>1, <5>3, <5>5
      <4>2. CASE ~(k <= L)
        <5>1. k - L \in 1 .. Len(new) /\ L + (k - L) = k
          BY <3>1, <4>2
        <5>2. missing'[k] = new[k - L]
          BY <3>1, <5>1
        <5>3. num(k) = f + (k - L)
          BY <4>2
        <5>4. f + (k - L) > f
          BY <2>4, <3>1, <5>1
        <5> HIDE DEF num, L
        <5>5. QED BY <2>2, <4>2, <5>1, <5>2, <5>3, <5>4
      <4>3. QED BY <4>1, <4>2
    <3> HIDE DEF num
    <3>3. HolesBefore(n)'
      BY <1>3, <2>1, <3>2 DEF HolesBefore
    <3>4. ASSUME NEW i \in 1 .. Len(missing'), NEW j \in 1 .. Len(missing'),
                 missing'[i].seq = missing'[j].seq
          PROVE  i = j
      <4>1. num(i) = num(j)
        BY <3>2, <3>4, NumbersDiffer
      <4>2. num(i) \in Packets /\ num(j) \in Packets
        BY <3>2
      <4> DEFINE a == num(i)
      <4>. a \in Nat /\ f \in Nat /\ num(i) = a /\ num(j) = a
        BY <2>4, <4>1, <4>2
      <4> HIDE DEF a
      <4>. /\ IF i <= L THEN a < f ELSE a > f
           /\ IF j <= L THEN a < f ELSE a > f
        BY <3>2
      <4>7. i <= L <=> j <= L
        OBVIOUS
      <4>3. CASE i <= L /\ j <= L
        BY <3>1, <3>4, <4>3 DEF ListInv, MissingOnce
      <4>4. CASE ~(i <= L) /\ ~(j <= L)
        BY <2>4, <3>1, <4>1, <4>4 DEF num
      <4>5. QED BY <4>7, <4>3, <4>4
    <3>5. QED BY <1>1, <1>3, <3>3, <3>4 DEF ListInv, MissingOnce
  <2>7. QED BY <1>6, <2>5, <2>6 DEF Insert, new
<1>7. QED BY <1>5, <1>6 DEF Insert

\* The packet a flow starts with is the last one found.
LEMMA AnchorList ==
  ASSUME FlowInv, NEW n \in Packets, Anchor(n)
  PROVE  ListInv'
<1>1. /\ anchor' = n /\ missing' = <<>> /\ lastSeqFound' = SeqNum(n)
      /\ maxSourceTime' = SourceTime(n) /\ offset' = now - SourceTime(n)
      /\ lastPacketTs' = now
  BY DEF Anchor
<1>2. lastPacketTs' = maxSourceTime' + offset' /\ maxSourceTime' \in Nat
  BY <1>1, PacketTypes DEF FlowInv, TypeOK
<1>3. HolesBefore(n)'
  BY <1>1, <1>2 DEF HolesBefore
<1>4. anchor' # -1
  BY <1>1, PacketTypes
<1>5. QED BY <1>1, <1>2, <1>3, <1>4 DEF ListInv, MissingOnce

\* A packet that is dropped may move the marks, and nothing else: a full slot
\* moves last_seq_found only past the newest packet, where no packet is.
LEMMA DropList ==
  ASSUME ListInv, FlowInv, NEW n \in Packets, DropFull(n) \/ DropDupe(n)
  PROVE  ListInv'
<1>1. /\ anchor # -1 /\ anchor' = anchor /\ offset' = offset
      /\ missing' = missing /\ MarkNewest(n)
  BY DEF DropFull, DropDupe, ListInv, env, holes
<1>2. PICK f \in Packets : HolesBefore(f)
  BY <1>1 DEF ListInv
<1>3. /\ SourceTime(n) \in Nat /\ maxSourceTime \in Nat /\ offset \in Int
      /\ SourceTime(f) \in Nat /\ lastPacketTs = maxSourceTime + offset
  BY <1>1, PacketTypes DEF FlowInv, TypeOK, ListInv
<1>4. /\ lastPacketTs' = maxSourceTime' + offset'
      /\ maxSourceTime' \in Nat /\ maxSourceTime <= maxSourceTime'
      /\ PacketTime(n) <= lastPacketTs'
  <2>1. CASE SourceTime(n) > maxSourceTime
    BY <1>1, <1>3, <2>1 DEF MarkNewest, PacketTime
  <2>2. CASE ~(SourceTime(n) > maxSourceTime)
    BY <1>1, <1>3, <2>2 DEF MarkNewest, PacketTime
  <2>3. QED BY <2>1, <2>2
<1>5. lastSeqFound' = lastSeqFound
  <2>1. CASE DropFull(n)
    <3>1. ~(PacketTime(n) > lastPacketTs')
      BY <1>1, <1>3, <1>4 DEF PacketTime
    <3>2. QED BY <2>1, <3>1 DEF DropFull
  <2>2. CASE DropDupe(n)
    BY <2>2 DEF DropDupe
  <2>3. QED BY <2>1, <2>2
<1>6. HolesBefore(f)'
  BY <1>1, <1>2, <1>3, <1>4, <1>5 DEF HolesBefore
<1>7. QED BY <1>1, <1>4, <1>6 DEF ListInv, MissingOnce

\* A turn of receiver_nack_output drops a hole or changes its times.
LEMMA NackList ==
  ASSUME ListInv, FlowInv, Nack
  PROVE  ListInv'
<1>1. /\ hasItems' = hasItems /\ anchor' = anchor
      /\ lastPacketTs' = lastPacketTs /\ maxSourceTime' = maxSourceTime
      /\ offset' = offset /\ lastSeqFound' = lastSeqFound
  BY DEF Nack, NackBegin, NackFilled, NackHole, NackEnd, clock, env
<1>2. missing \in Seq(Holes) /\ Len(missing) \in Nat
  BY DEF FlowInv, TypeOK
<1>3. CASE missing' = missing
  BY <1>1, <1>3, ShorterList DEF ListInv, MissingOnce
<1>4. CASE nackPos \in 1 .. Len(missing) /\ missing' = RemoveAt(missing, nackPos)
  <2>1. missing # <<>>
    BY <1>2, <1>4
  <2>2. QED BY <1>1, <1>4, <2>1, HoleTaken, ShorterList
<1>5. CASE /\ nackPos \in 1 .. Len(missing)
           /\ missing' = [missing EXCEPT ![nackPos].count = @ + 1,
                                         ![nackPos].next = now + NackInterval]
  <2>1. Len(missing') = Len(missing) /\ missing # <<>>
    BY <1>2, <1>5
  <2>2. ASSUME NEW k \in 1 .. Len(missing)
        PROVE  missing'[k].seq = missing[k].seq
    <3>1. missing[k] \in Holes
      BY <1>2
    <3>2. QED BY <1>2, <1>5, <3>1 DEF Holes
  <2>3. MissingOnce'
    BY <2>1, <2>2 DEF ListInv, MissingOnce
  <2>4. QED BY <1>1, <2>1, <2>2, <2>3, ShorterList
<1>6. QED
  BY <1>3, <1>4, <1>5 DEF Nack, NackBegin, NackFilled, NackHole, NackEnd

\* ListInv is inductive.
LEMMA ListStep ==
  ASSUME OneTurn, ListInv, FlowInv, [Next]_vars
  PROVE  ListInv'
<1>1. CASE \E n \in Packets, retry \in BOOLEAN : Enqueue(n, retry)
  <2>1. PICK n \in Packets, retry \in BOOLEAN : Enqueue(n, retry)
    BY <1>1
  <2>2. CASE AwaitAnchor(n) \/ DropLate(n)
    <3>1. /\ missing' = missing /\ anchor' = anchor
          /\ lastPacketTs' = lastPacketTs /\ maxSourceTime' = maxSourceTime
          /\ offset' = offset /\ lastSeqFound' = lastSeqFound
      BY <2>2 DEF AwaitAnchor, DropLate, holes, env, clock
    <3>2. hasItems' => hasItems
      BY <2>2 DEF AwaitAnchor, DropLate
    <3>3. QED BY <3>1, <3>2, ShorterList DEF ListInv, MissingOnce
  <2>3. CASE Anchor(n)
    BY <2>3, AnchorList
  <2>4. CASE DropFull(n) \/ DropDupe(n)
    BY <2>4, DropList
  <2>5. CASE Insert(n, retry)
    BY <2>1, <2>5, InsertList DEF Enqueue
  <2>6. QED BY <2>1, <2>2, <2>3, <2>4, <2>5 DEF Enqueue
<1>2. CASE Nack
  BY <1>2, NackList
<1>3. CASE \/ Outputs \/ Tick \/ Rebase \/ Unlink \/ Relink \/ UNCHANGED vars
           \/ \E d \in Slots : ResetTooOld(d)
  <2>1. /\ missing' = missing /\ anchor' = anchor
        /\ lastPacketTs' = lastPacketTs /\ maxSourceTime' = maxSourceTime
        /\ offset' = offset /\ lastSeqFound' = lastSeqFound
    BY <1>3 DEF Outputs, OutputNothing, DropTooOld, Deliver, Tick,
                Rebase, Unlink, Relink, ResetTooOld, vars, clock, holes, env
  <2>2. hasItems' => hasItems
    BY <1>3 DEF Outputs, OutputNothing, DropTooOld, Deliver, Consume, Tick,
                Rebase, Unlink, Relink, ResetTooOld, vars
  <2>3. QED BY <2>1, <2>2, ShorterList DEF ListInv, MissingOnce
<1>4. QED BY <1>1, <1>2, <1>3 DEF Next

\* One loss is one entry of the list of missing packets, as long as the network
\* keeps the order and the sequence numbers have not come round.
THEOREM EachLossOnce ==
  ASSUME OneTurn
  PROVE  Spec => []MissingOnce
<1>1. Init => ListInv
  BY DEF Init, ListInv, MissingOnce
<1>2. ListInv /\ FlowInv /\ [Next]_vars => ListInv'
  BY ListStep
<1>3. ListInv => MissingOnce
  BY DEF ListInv
<1>4. QED
  BY <1>1, <1>2, <1>3, FlowCorrect, PTL DEF Spec

-----------------------------------------------------------------------------
(* Where the reader stands in the stream.                                  *)

\* The network keeps the order, an answer comes before its packet is due, and
\* the ring divides the sequence space, as the rings of flow.c do.
Timely == ~Reorders /\ MaxAge < Buffer /\ SeqSpace % QueueMax = 0

\* The last packet handed over, or the one before the flow started again.
Base == IF bufferStart THEN anchor - 1 ELSE out.last

\* The sender is less than a ring ahead of the application.
Served == hasItems => \A n \in Packets :
                        SourceTime(n) <= now => n <= Base + QueueMax

\* The reader waits for packet p: what is in the ring is not before it, and
\* what is before it can no longer arrive.
ReaderAt(p) ==
  /\ p \in Nat /\ Base < p
  /\ outputIdx = (FirstSeq + p) % QueueMax
  /\ \A i \in Occupied : p <= ring[i].num /\ ring[i].num <= Base + QueueMax
  /\ \A n \in Packets : anchor <= n /\ n < p => now > SourceTime(n) + MaxAge

\* A buffer has its time to play from its timestamp, and came after it.
TimesFit ==
  /\ 0 <= offset /\ offset <= MaxAge /\ SourceTime(anchor) <= maxSourceTime
  /\ \A i \in Occupied : /\ SourceTime(ring[i].num) <= ring[i].time
                         /\ ring[i].ptime = SourceTime(ring[i].num) + offset

OrderInv ==
  /\ anchor = -1 => ~hasItems /\ Occupied = {} /\ ~bufferStart
  /\ anchor # -1 => TimesFit /\ \E p \in Nat : ReaderAt(p)

\* A packet's slot is its place in the stream modulo the ring.
LEMMA SlotOfPacket ==
  ASSUME Timely, NEW n \in Packets
  PROVE  SlotOf(SeqNum(n)) = (FirstSeq + n) % QueueMax
<1> DEFINE a == FirstSeq + n
<1>1. a \in Int /\ SeqSpace \in Nat \ {0} /\ QueueMax \in Nat \ {0}
  BY PacketTypes, FlowAssumption
<1> HIDE DEF a
<1>2. (a % SeqSpace) % QueueMax = a % QueueMax
  BY <1>1, NestedRemainder DEF Timely
<1> QED
  BY <1>2 DEF SlotOf, SeqNum, a

\* Packets less than a ring apart are in different slots.
LEMMA SlotsDiffer ==
  ASSUME Timely, NEW n \in Nat, NEW m \in Nat, n - m < QueueMax, m - n < QueueMax,
         (FirstSeq + n) % QueueMax = (FirstSeq + m) % QueueMax
  PROVE  n = m
<1> DEFINE a == FirstSeq + n
           b == FirstSeq + m
<1>1. /\ a \in Int /\ b \in Int /\ QueueMax \in Nat \ {0}
      /\ a - b < QueueMax /\ b - a < QueueMax /\ a % QueueMax = b % QueueMax
  BY FlowAssumption
<1> HIDE DEF a, b
<1>2. a = b
  BY <1>1, SameRemainder
<1> QED
  BY <1>2, FlowAssumption DEF a, b

\* The slots in front of a reader that waits for p.
LEMMA SlotsInFront ==
  ASSUME FlowInv, NEW p \in Nat, ReaderAt(p), NEW d \in Slots
  PROVE  /\ At(d) = (FirstSeq + (p + d)) % QueueMax
         /\ After(At(d)) = (FirstSeq + (p + d + 1)) % QueueMax
         /\ \A k \in {1, 2} :
              (At(d) + k) % QueueMax = (FirstSeq + (p + d + k)) % QueueMax
<1> DEFINE a == FirstSeq + p
           b == FirstSeq + (p + d)
<1>1. a \in Int /\ b \in Int /\ d \in Int /\ QueueMax \in Nat \ {0} /\ a + d = b
  BY FlowAssumption DEF Slots
<1> HIDE DEF a, b
<1>2. ((a % QueueMax) + d) % QueueMax = b % QueueMax
  BY <1>1, SumRemainder
<1>3. At(d) = b % QueueMax
  BY <1>2 DEF At, ReaderAt, a
<1>4. ASSUME NEW k \in {1, 2}
      PROVE  (At(d) + k) % QueueMax = (FirstSeq + (p + d + k)) % QueueMax
  <2>. k \in Int
    OBVIOUS
  <2>1. ((b % QueueMax) + k) % QueueMax = (b + k) % QueueMax
    BY <1>1, SumRemainder
  <2>2. b + k = FirstSeq + (p + d + k)
    BY <1>1, FlowAssumption DEF b
  <2>3. QED BY <1>3, <2>1, <2>2
<1>5. After(At(d)) = (FirstSeq + (p + d + 1)) % QueueMax
  BY <1>4 DEF After
<1>6. QED BY <1>3, <1>4, <1>5 DEF b

\* Where a buffer of the ring is, from its packet.
LEMMA BufferPlace ==
  ASSUME Timely, FlowInv, NEW p \in Nat, ReaderAt(p), NEW i \in Occupied
  PROVE  /\ ring[i].num \in Packets /\ ring[i].num \in Nat
         /\ i = (FirstSeq + ring[i].num) % QueueMax
         /\ ring[i].num - p \in Slots /\ i = At(ring[i].num - p)
<1>1. i \in Slots /\ ring[i] # NULL
  BY DEF Occupied
<1>2. ring[i].num \in Packets /\ ring[i].num \in Nat
  BY <1>1, BufferTypes, PacketTypes DEF FlowInv
<1>3. i = (FirstSeq + ring[i].num) % QueueMax
  BY <1>2, SlotOfPacket DEF FlowInv, InOwnSlot
<1>4. ring[i].num - p \in Slots
  <2>1. p <= ring[i].num /\ ring[i].num <= Base + QueueMax /\ Base < p
    BY DEF ReaderAt
  <2>2. Base \in Int
    BY FlowAssumption DEF Base, FlowInv, TypeOK, Packets
  <2>3. QED BY <1>2, <2>1, <2>2, FlowAssumption DEF Slots
<1>5. i = At(ring[i].num - p)
  <2>1. p + (ring[i].num - p) = ring[i].num
    BY <1>2
  <2>2. QED BY <1>3, <1>4, <2>1, SlotsInFront
<1>6. QED BY <1>2, <1>3, <1>4, <1>5

\* The buffer the search of receiver_output finds is the oldest in the ring.
LEMMA FirstIsOldest ==
  ASSUME Timely, FlowInv, NEW p \in Nat, ReaderAt(p), NEW d \in Slots, InFront(d)
  PROVE  /\ At(d) \in Occupied /\ ring[At(d)].num = p + d
         /\ \A i \in Occupied : p + d <= ring[i].num
<1>1. At(d) \in Occupied
  BY AtTypes DEF InFront, Occupied, FlowInv
<1>2. d \in Nat /\ d < QueueMax
  BY FlowAssumption DEF Slots
<1>3. ASSUME NEW i \in Occupied
      PROVE  p + d <= ring[i].num
  <2> DEFINE k == ring[i].num - p
  <2>1. k \in Slots /\ i = At(k) /\ ring[i].num \in Nat
    BY BufferPlace
  <2>2. ring[At(k)] # NULL
    BY <2>1 DEF Occupied
  <2>3. ~(k \in 0 .. d - 1)
    BY <2>2 DEF InFront
  <2>4. QED BY <1>2, <2>1, <2>3 DEF Slots
<1>4. ring[At(d)].num = p + d
  <2> DEFINE m == ring[At(d)].num
  <2>1. m \in Nat /\ m - p \in Slots /\ At(d) = (FirstSeq + m) % QueueMax
    BY <1>1, BufferPlace
  <2>2. At(d) = (FirstSeq + (p + d)) % QueueMax
    BY SlotsInFront
  <2>3. p + d \in Nat /\ m - (p + d) < QueueMax /\ (p + d) - m < QueueMax
    BY <1>2, <2>1, FlowAssumption DEF Slots
  <2> HIDE DEF m
  <2>4. m = p + d
    BY <2>1, <2>2, <2>3, SlotsDiffer
  <2>5. QED BY <2>4 DEF m
<1>5. QED BY <1>1, <1>3, <1>4

\* The packet after the oldest one lies in the next slot.
LEMMA PairIsNext ==
  ASSUME Timely, FlowInv, NEW p \in Nat, ReaderAt(p), NEW d \in Slots,
         InFront(d), After(At(d)) \in Occupied,
         SeqNum(ring[After(At(d))].num) = SeqNext(SeqNum(ring[At(d)].num))
  PROVE  ring[After(At(d))].num = p + d + 1
<1> DEFINE j == After(At(d))
           m == ring[j].num
<1>1. /\ m \in Nat /\ m - p \in Slots /\ j = At(m - p)
      /\ j = (FirstSeq + m) % QueueMax
  BY BufferPlace
<1>2. j = (FirstSeq + (p + d + 1)) % QueueMax
  BY SlotsInFront
<1>3. d \in Nat /\ d < QueueMax /\ QueueMax \in Nat /\ QueueMax >= 2
  BY FlowAssumption DEF Slots
<1>4. p + d <= m
  BY FirstIsOldest
<1> HIDE DEF m
<1>5. m - (p + d + 1) < QueueMax /\ (p + d + 1) - m < QueueMax
  BY <1>1, <1>3, <1>4 DEF Slots
<1>6. p + d + 1 \in Nat
  BY <1>3
<1>7. m = p + d + 1
  BY <1>1, <1>2, <1>5, <1>6, SlotsDiffer
<1> QED
  BY <1>7 DEF m

-----------------------------------------------------------------------------
(* The steps of receiver_enqueue.                                          *)

\* A step that moves neither reader nor ring; time may pass.
LEMMA ReaderKept ==
  ASSUME FlowInv, NEW p \in Nat, ReaderAt(p), ring' = ring,
         outputIdx' = outputIdx, bufferStart' = bufferStart, out' = out,
         anchor' = anchor, now' \in Nat, now <= now'
  PROVE  ReaderAt(p)' /\ Base' = Base /\ Occupied' = Occupied
<1>1. Base' = Base /\ Occupied' = Occupied
  BY DEF Base, Occupied
<1>2. ASSUME NEW n \in Packets, anchor <= n, n < p
      PROVE  now' > SourceTime(n) + MaxAge
  BY <1>2, PacketTypes, FlowAssumption DEF ReaderAt, FlowInv, TypeOK
<1>3. QED BY <1>1, <1>2 DEF ReaderAt

\* The marks only rise.
LEMMA TimesKept ==
  ASSUME FlowInv, TimesFit, anchor # -1, ring' = ring, offset' = offset,
         anchor' = anchor, maxSourceTime' \in Nat,
         maxSourceTime <= maxSourceTime'
  PROVE  TimesFit'
<1>1. anchor \in Packets
  BY DEF FlowInv, TypeOK
<1>2. SourceTime(anchor) <= maxSourceTime'
  BY <1>1, PacketTypes DEF TimesFit, FlowInv, TypeOK
<1>3. Occupied' = Occupied
  BY DEF Occupied
<1>4. QED BY <1>2, <1>3 DEF TimesFit

LEMMA MarkRises ==
  ASSUME FlowInv, NEW n \in Packets, MarkNewest(n)
  PROVE  maxSourceTime' \in Nat /\ maxSourceTime <= maxSourceTime'
  BY PacketTypes DEF MarkNewest, FlowInv, TypeOK

\* A flow starts again at its anchor: it is all there is.
LEMMA AnchorOrder ==
  ASSUME Timely, FlowInv, NEW n \in Packets, Anchor(n), NEW retry \in BOOLEAN,
         Arrives(n, retry)
  PROVE  /\ ReaderAt(n)' /\ TimesFit' /\ Base' = n - 1 /\ anchor' = n
         /\ {ring[i].num : i \in Occupied}' = {n} /\ bufferStart'
         /\ \A i \in Occupied' : ring'[i].ptime = now
<1> DEFINE s == SlotOf(SeqNum(n))
           b == [num |-> n, time |-> now, ptime |-> now]
<1>0. /\ s \in Slots /\ b # NULL /\ n \in Nat
      /\ s = (FirstSeq + n) % QueueMax
      /\ SourceTime(n) \in Nat /\ now \in Nat
  BY PacketTypes, NullAssumption, SlotOfPacket DEF FlowInv, TypeOK, Buffers
<1>1. queueSize = 0 => Occupied = {}
  BY OccupiedFinite DEF FlowInv, SizeNeverUnderstated
<1>2. ring' = [i \in Slots |-> IF i = s THEN b ELSE NULL]
  <2>1. CASE queueSize > 0
    BY <2>1 DEF Anchor
  <2>2. CASE ~(queueSize > 0)
    <3>1. Occupied = {}
      BY <2>2, <1>1 DEF FlowInv, TypeOK
    <3>2. QED BY <2>2, <3>1 DEF Anchor
  <2>3. QED BY <2>1, <2>2
<1>3. /\ outputIdx' = s /\ bufferStart' = TRUE /\ anchor' = n
      /\ offset' = now - SourceTime(n) /\ maxSourceTime' = SourceTime(n)
  BY DEF Anchor
<1>4. Occupied' = {s} /\ ring'[s] = b
  BY <1>0, <1>2 DEF Occupied
<1>5. Base' = n - 1
  BY <1>3 DEF Base
<1>6. ReaderAt(n)'
  BY <1>0, <1>3, <1>4, <1>5, PacketTypes, FlowAssumption DEF ReaderAt
<1>7. SourceTime(n) <= now /\ now <= SourceTime(n) + MaxAge
  BY DEF Arrives
<1>8. TimesFit'
  <2>1. 0 <= offset' /\ offset' <= MaxAge
    BY <1>0, <1>3, <1>7, FlowAssumption
  <2>2. SourceTime(anchor') <= maxSourceTime'
    BY <1>0, <1>3
  <2>3. /\ ring'[s].num = n /\ ring'[s].time = now /\ ring'[s].ptime = now
        /\ now = SourceTime(n) + offset'
    BY <1>0, <1>3, <1>4
  <2> HIDE DEF s
  <2>4. QED BY <1>4, <1>7, <2>1, <2>2, <2>3 DEF TimesFit
<1>9. {ring[i].num : i \in Occupied}' = {n}
  BY <1>4
<1>10. QED BY <1>3, <1>4, <1>5, <1>6, <1>8, <1>9

\* A packet that arrives is one the reader has not passed, and less than a
\* ring ahead: its slot is free, or holds the packet itself.
LEMMA ArrivesInFront ==
  ASSUME Timely, FlowInv, Served, hasItems, anchor # -1, TimesFit,
         NEW p \in Nat, ReaderAt(p), NEW n \in Packets, NEW retry \in BOOLEAN,
         Arrives(n, retry)
  PROVE  /\ p <= n /\ n <= Base + QueueMax
         /\ \A i \in Occupied : i = SlotOf(SeqNum(n)) => ring[i].num = n
<1>1. /\ n \in Nat /\ SourceTime(n) \in Nat /\ now \in Nat /\ anchor \in Packets
      /\ anchor \in Nat /\ SourceTime(anchor) \in Nat /\ maxSourceTime \in Nat
      /\ SourceTime(n) <= now /\ now <= SourceTime(n) + MaxAge
  BY PacketTypes DEF Arrives, FlowInv, TypeOK
<1>2. anchor <= n
  <2>1. CASE retry
    BY <2>1 DEF Arrives, Timely
  <2>2. CASE ~retry /\ SourceTime(n) > maxSourceTime
    <3>1. ~(SourceTime(n) <= SourceTime(anchor))
      BY <1>1, <2>2 DEF TimesFit
    <3>2. ~(n <= anchor)
      BY <1>1, <3>1, StampsOrdered
    <3>3. QED BY <1>1, <3>2
  <2>3. CASE ~retry /\ n % 2 = 1 /\ SourceTime(n) = maxSourceTime
    <3> SUFFICES ASSUME n < anchor PROVE FALSE
      BY <1>1
    <3>1. SourceTime(anchor) <= SourceTime(n)
      BY <2>3 DEF TimesFit
    <3>2. anchor - (anchor % 2) >= n + 1
      BY <1>1, <2>3
    <3>3. n - (n % 2) < n + 1
      BY <1>1, <2>3
    <3>4. SourceTime(n) < SourceTime(anchor)
      BY <1>1, <3>2, <3>3, FlowAssumption DEF SourceTime
    <3>5. QED BY <1>1, <3>1, <3>4
  <2>4. QED BY <2>1, <2>2, <2>3 DEF Arrives, Newest, Timely
<1>3. p <= n
  <2> SUFFICES ASSUME n < p PROVE FALSE
    BY <1>1
  <2>1. now > SourceTime(n) + MaxAge
    BY <1>2 DEF ReaderAt
  <2>2. QED BY <1>1, <2>1, FlowAssumption
<1>4. n <= Base + QueueMax
  BY <1>1 DEF Served
<1>5. ASSUME NEW i \in Occupied, i = SlotOf(SeqNum(n))
      PROVE  ring[i].num = n
  <2> DEFINE m == ring[i].num
  <2>1. m \in Nat /\ i = (FirstSeq + m) % QueueMax
    BY BufferPlace
  <2>2. i = (FirstSeq + n) % QueueMax
    BY <1>5, SlotOfPacket
  <2>3. p <= m /\ m <= Base + QueueMax /\ Base < p
    BY DEF ReaderAt
  <2>4. Base \in Int /\ QueueMax \in Nat
    BY FlowAssumption DEF Base, FlowInv, TypeOK, Packets
  <2> HIDE DEF m
  <2>5. n - m < QueueMax /\ m - n < QueueMax
    BY <1>1, <1>3, <1>4, <2>1, <2>3, <2>4
  <2>6. m = n
    BY <1>1, <2>1, <2>2, <2>5, SlotsDiffer
  <2>7. QED BY <2>6 DEF m
<1>6. QED BY <1>3, <1>4, <1>5

\* The packet that is put into the ring.
LEMMA InsertOrder ==
  ASSUME Timely, FlowInv, Served, anchor # -1, TimesFit,
         NEW p \in Nat, ReaderAt(p), NEW n \in Packets, NEW retry \in BOOLEAN,
         Arrives(n, retry), Insert(n, retry)
  PROVE  /\ ReaderAt(p)' /\ TimesFit' /\ Base' = Base
         /\ p <= n /\ n \notin {ring[i].num : i \in Occupied}
         /\ {ring[i].num : i \in Occupied}'
              = {ring[i].num : i \in Occupied} \cup {n}
         /\ \A i \in Occupied' :
              \/ i \in Occupied /\ ring'[i] = ring[i]
              \/ ring'[i].num = n /\ ring'[i].ptime = PacketTime(n)
<1> DEFINE s == SlotOf(SeqNum(n))
           b == [num |-> n, time |-> now, ptime |-> PacketTime(n)]
<1>0. /\ s \in Slots /\ b # NULL /\ n \in Nat /\ SourceTime(n) \in Nat
      /\ now \in Nat /\ offset \in Int
  BY PacketTypes, NullAssumption DEF FlowInv, TypeOK, Buffers, PacketTime
<1>1. /\ ring' = [ring EXCEPT ![s] = b] /\ hasItems
      /\ outputIdx' = outputIdx /\ bufferStart' = bufferStart /\ out' = out
      /\ anchor' = anchor /\ now' = now /\ offset' = offset
  BY DEF Insert, reader, env
<1>2. /\ p <= n /\ n <= Base + QueueMax
      /\ \A i \in Occupied : i = s => ring[i].num = n
  BY <1>1, ArrivesInFront
<1>3. s \notin Occupied
  BY <1>0, <1>2 DEF Insert, Duplicate, Holder, Occupied
<1>4. /\ Occupied' = Occupied \cup {s} /\ ring'[s] = b
      /\ \A i \in Occupied : ring'[i] = ring[i]
  BY <1>0, <1>1, <1>3 DEF Occupied, FlowInv, TypeOK
<1>5. Base' = Base
  BY <1>1 DEF Base
<1>6. ReaderAt(p)'
  BY <1>1, <1>2, <1>4, <1>5 DEF ReaderAt
<1>7. TimesFit'
  <2>1. maxSourceTime' \in Nat /\ maxSourceTime <= maxSourceTime'
    BY MarkRises DEF Insert
  <2>2. SourceTime(anchor) <= maxSourceTime'
    BY <2>1, PacketTypes DEF TimesFit, FlowInv, TypeOK
  <2>3. SourceTime(n) <= now /\ b.ptime = SourceTime(n) + offset
    BY DEF Arrives, PacketTime
  <2>4. QED BY <1>1, <1>4, <2>2, <2>3 DEF TimesFit
<1>8. n \notin {ring[i].num : i \in Occupied}
  <2> SUFFICES ASSUME NEW i \in Occupied, ring[i].num = n PROVE FALSE
    OBVIOUS
  <2>1. SlotOf(SeqNum(ring[i].num)) = i
    BY DEF FlowInv, InOwnSlot
  <2>2. QED BY <1>3, <2>1
<1>9. {ring[i].num : i \in Occupied}' = {ring[i].num : i \in Occupied} \cup {n}
  BY <1>4
<1>10. QED BY <1>2, <1>4, <1>5, <1>6, <1>7, <1>8, <1>9

-----------------------------------------------------------------------------
(* The steps of receiver_output.                                           *)

\* A buffer that is handed over or dropped was sent so long ago that nothing
\* sent with it or before it can still arrive.
LEMMA NothingFollows ==
  ASSUME Timely, FlowInv, TimesFit, NEW i \in Occupied, NEW d \in Nat,
         TooOld(ring[i]) \/ ~Waits(ring[i], d)
  PROVE  now > SourceTime(ring[i].num) + MaxAge
<1> DEFINE b == ring[i]
           t == SourceTime(b.num)
<1>1. b \in Buffers /\ b.num \in Packets
  BY BufferTypes DEF FlowInv, TypeOK, Occupied
<1>2. /\ b.time \in Nat /\ t \in Nat /\ t <= b.time /\ b.ptime = t + offset
      /\ now \in Nat /\ offset \in Int /\ offset >= 0
  BY <1>1, PacketTypes DEF TimesFit, FlowInv, TypeOK, Buffers
<1>3. /\ Buffer \in Nat /\ LateBound \in Nat /\ Buffer <= LateBound
      /\ MaxAge \in Nat /\ MaxAge < Buffer
  BY FlowAssumption DEF Timely
<1> HIDE DEF t
<1>4. CASE now - b.time > 2 * Buffer
  BY <1>2, <1>3, <1>4 DEF t
<1>5. CASE ~(b.ptime + Buffer > now)
  BY <1>2, <1>3, <1>5 DEF t
<1>6. CASE ~(now - b.time <= LateBound)
  BY <1>2, <1>3, <1>6 DEF t
<1>7. QED
  BY <1>4, <1>5, <1>6 DEF TooOld, Waits, Age

\* The reader moves past the k packets of the block it took out.
LEMMA ReaderMoves ==
  ASSUME Timely, FlowInv, NEW p \in Nat, ReaderAt(p), NEW d \in Slots,
         InFront(d), NEW k \in {1, 2}, NEW since, Consume(At(d), k, since),
         k = 2 => /\ After(At(d)) \in Occupied
                  /\ ring[After(At(d))].num = p + d + 1,
         \A n \in Packets : n < p + d + k => now > SourceTime(n) + MaxAge,
         now' = now, anchor' = anchor, Base' \in Int,
         Base <= Base', Base' < p + d + k
  PROVE  /\ ReaderAt(p + d + k)'
         /\ Occupied' \subseteq Occupied
         /\ \A i \in Occupied' : ring'[i] = ring[i]
         /\ {ring[i].num : i \in Occupied}'
              = {ring[i].num : i \in Occupied} \ ((p + d) .. (p + d + k - 1))
<1> DEFINE i1 == At(d)
           i2 == After(i1)
           gone == IF k = 2 THEN {i1, i2} ELSE {i1}
<1>1. /\ i1 \in Occupied /\ ring[i1].num = p + d
      /\ \A i \in Occupied : p + d <= ring[i].num
  BY FirstIsOldest
<1>2. ring' = [x \in Slots |-> IF x \in gone THEN NULL ELSE ring[x]]
  BY DEF Consume
<1>3. Occupied' = Occupied \ gone /\ \A i \in Occupied' : ring'[i] = ring[i]
  BY <1>2 DEF Occupied
<1>4. d \in Nat /\ p + d + k \in Nat
  BY DEF Slots
<1>5. ASSUME NEW i \in Occupied
      PROVE  /\ ring[i].num \in Nat
             /\ i \in gone <=> ring[i].num \in (p + d) .. (p + d + k - 1)
  <2>1. /\ ring[i].num \in Nat /\ i = (FirstSeq + ring[i].num) % QueueMax
        /\ p + d <= ring[i].num
    BY <1>1, BufferPlace
  <2>2. i1 = (FirstSeq + (p + d)) % QueueMax
        /\ i2 = (FirstSeq + (p + d + 1)) % QueueMax
    BY SlotsInFront
  <2>3. i \in gone => ring[i].num \in (p + d) .. (p + d + k - 1)
    <3>1. CASE i = i1
      BY <1>1, <1>4, <3>1
    <3>2. CASE k = 2 /\ i = i2
      BY <1>4, <3>2
    <3>3. QED BY <3>1, <3>2
  <2>4. ASSUME ring[i].num \in (p + d) .. (p + d + k - 1)
        PROVE  i \in gone
    <3>1. CASE ring[i].num = p + d
      BY <2>1, <2>2, <3>1
    <3>2. CASE ring[i].num = p + d + 1 /\ k = 2
      BY <2>1, <2>2, <3>2
    <3>3. QED BY <1>4, <2>4, <3>1, <3>2
  <2>5. QED BY <2>1, <2>3, <2>4
<1>6. ASSUME NEW i \in Occupied'
      PROVE  /\ p + d + k <= ring'[i].num
             /\ ring'[i].num <= Base' + QueueMax
  <2>1. /\ i \in Occupied /\ i \notin gone /\ ring'[i] = ring[i]
        /\ ring[i].num \in Nat /\ p + d <= ring[i].num
        /\ ring[i].num <= Base + QueueMax
    BY <1>1, <1>3, <1>5, <1>6 DEF ReaderAt
  <2>2. ring[i].num \notin (p + d) .. (p + d + k - 1)
    BY <1>5, <2>1
  <2>3. Base \in Int /\ QueueMax \in Nat
    BY FlowAssumption DEF Base, FlowInv, TypeOK, Packets
  <2> HIDE DEF gone
  <2>4. QED BY <1>4, <2>1, <2>2, <2>3
<1>7. outputIdx' = (FirstSeq + (p + d + k)) % QueueMax
  BY SlotsInFront DEF Consume
<1>8. ReaderAt(p + d + k)'
  BY <1>4, <1>6, <1>7 DEF ReaderAt
<1>9. {ring[i].num : i \in Occupied}'
        = {ring[i].num : i \in Occupied} \ ((p + d) .. (p + d + k - 1))
  BY <1>3, <1>5
<1>10. QED BY <1>3, <1>8, <1>9

\* What a delivered block is: the oldest packet, or the two oldest.
LEMMA DeliverOrder ==
  ASSUME Timely, FlowInv, anchor # -1, TimesFit,
         NEW p \in Nat, ReaderAt(p), NEW d \in Slots, Deliver(d)
  PROVE  \E k \in {1, 2} :
           /\ ReaderAt(p + d + k)' /\ Base' = p + d + k - 1 /\ TimesFit'
           /\ InFront(d) /\ At(d) \in Occupied /\ ring[At(d)].num = p + d
           /\ out'.num = p + d /\ out'.last = p + d + k - 1
           /\ out'.start = bufferStart /\ out'.turn = ~out.turn
           /\ out'.gap \in BOOLEAN /\ (d > 0 => out'.gap)
           /\ (p + d) .. (p + d + k - 1) \subseteq {ring[i].num : i \in Occupied}
           /\ Occupied' \subseteq Occupied
           /\ \A i \in Occupied' : ring'[i] = ring[i]
           /\ {ring[i].num : i \in Occupied}'
                = {ring[i].num : i \in Occupied} \ ((p + d) .. (p + d + k - 1))
<1> DEFINE b == ring[At(d)]
           next == ring[After(At(d))]
           pair == Merges(b, next)
           last == IF pair THEN next.num ELSE b.num
<1>0. PICK k \in {1, 2} : k = IF pair THEN 2 ELSE 1
  OBVIOUS
<1>1. /\ InFront(d) /\ ~Waits(b, d) /\ Consume(At(d), k, now)
      /\ bufferStart' = FALSE /\ now' = now /\ anchor' = anchor
      /\ offset' = offset /\ maxSourceTime' = maxSourceTime
      /\ out' = [num |-> b.num, last |-> last, start |-> bufferStart,
                 gap |-> d > 0 \/ SeqNum(b.num) # SeqNext(lastSeqOutput),
                 turn |-> ~out.turn]
  BY <1>0 DEF Deliver, clock, env
<1>2. /\ At(d) \in Occupied /\ b.num = p + d /\ d \in Nat
      /\ b.num \in Packets
  BY <1>1, FirstIsOldest, BufferPlace DEF Slots
<1>3. pair => /\ After(At(d)) \in Occupied /\ next.num = p + d + 1
              /\ SourceTime(next.num) = SourceTime(b.num)
              /\ next.num \in Packets
  <2> SUFFICES ASSUME pair
               PROVE  /\ After(At(d)) \in Occupied /\ next.num = p + d + 1
                      /\ SourceTime(next.num) = SourceTime(b.num)
                      /\ next.num \in Packets
    OBVIOUS
  <2>1. After(At(d)) \in Slots
    BY AtTypes DEF FlowInv
  <2>2. After(At(d)) \in Occupied
    BY <2>1 DEF Merges, Occupied
  <2>3. /\ SeqNum(next.num) = SeqNext(SeqNum(b.num))
        /\ SourceTime(next.num) = SourceTime(b.num)
    BY DEF Merges
  <2>4. next.num = p + d + 1
    BY <1>1, <2>2, <2>3, PairIsNext
  <2>5. QED BY <2>2, <2>3, <2>4, BufferPlace
<1>4. now > SourceTime(b.num) + MaxAge
  BY <1>1, <1>2, NothingFollows
<1>5. ASSUME NEW n \in Packets, n < p + d + k
      PROVE  now > SourceTime(n) + MaxAge
  <2>1. last \in Packets /\ SourceTime(last) = SourceTime(b.num)
        /\ last = p + d + k - 1
    BY <1>0, <1>2, <1>3
  <2>2. n <= last
    BY <1>2, <1>5, <2>1, PacketTypes
  <2>3. SourceTime(n) <= SourceTime(b.num)
    BY <2>1, <2>2, StampsOrdered
  <2> HIDE DEF b, last
  <2>4. SourceTime(n) \in Nat /\ now \in Nat /\ MaxAge \in Nat
        /\ SourceTime(b.num) \in Nat
    BY <1>2, PacketTypes, FlowAssumption DEF FlowInv, TypeOK
  <2>5. QED BY <1>4, <2>3, <2>4
<1>6. last = p + d + k - 1
  BY <1>0, <1>2, <1>3
<1>7. Base' = p + d + k - 1
  BY <1>1, <1>6 DEF Base
<1>8. Base \in Int /\ Base < p
  BY FlowAssumption DEF Base, FlowInv, TypeOK, Packets, ReaderAt
<1>9. k \in {1, 2} /\ (k = 2 => pair)
  BY <1>0
<1> HIDE DEF b, next, pair, last
<1>10. /\ ReaderAt(p + d + k)'
       /\ Occupied' \subseteq Occupied
       /\ \A i \in Occupied' : ring'[i] = ring[i]
       /\ {ring[i].num : i \in Occupied}'
            = {ring[i].num : i \in Occupied} \ ((p + d) .. (p + d + k - 1))
  <2>1. k = 2 => /\ After(At(d)) \in Occupied
                 /\ ring[After(At(d))].num = p + d + 1
    BY <1>3, <1>9 DEF next
  <2>2. Base' \in Int /\ Base <= Base' /\ Base' < p + d + k
    BY <1>2, <1>7, <1>8, <1>9
  <2>3. QED BY <1>1, <1>5, <1>9, <2>1, <2>2, ReaderMoves
<1>11. TimesFit'
  BY <1>1, <1>10 DEF TimesFit
<1>12. (p + d) .. (p + d + k - 1) \subseteq {ring[i].num : i \in Occupied}
  <2>1. ASSUME NEW n \in (p + d) .. (p + d + k - 1)
        PROVE  n \in {ring[i].num : i \in Occupied}
    <3>1. n = p + d \/ (k = 2 /\ n = p + d + 1)
      BY <1>2, <1>9
    <3>2. QED BY <1>2, <1>3, <1>9, <3>1 DEF b, next
  <2>2. QED BY <2>1
<1>13. /\ out'.num = p + d /\ out'.last = p + d + k - 1
       /\ out'.start = bufferStart /\ out'.turn = ~out.turn
       /\ out'.gap \in BOOLEAN /\ (d > 0 => out'.gap)
  BY <1>1, <1>2, <1>6
<1>14. QED
  BY <1>1, <1>2, <1>7, <1>9, <1>10, <1>11, <1>12, <1>13 DEF b

\* A buffer held for too long is dropped, and the reader moves past it.
LEMMA DropOrder ==
  ASSUME Timely, FlowInv, anchor # -1, TimesFit,
         NEW p \in Nat, ReaderAt(p), NEW d \in Slots, DropTooOld(d)
  PROVE  ReaderAt(p + d + 1)' /\ TimesFit'
<1>1. /\ InFront(d) /\ TooOld(ring[At(d)])
      /\ Consume(At(d), 1, lastOutputTime)
      /\ bufferStart' = bufferStart /\ out' = out
      /\ now' = now /\ anchor' = anchor
      /\ offset' = offset /\ maxSourceTime' = maxSourceTime
  BY DEF DropTooOld, clock, env
<1>2. At(d) \in Occupied /\ ring[At(d)].num = p + d /\ d \in Nat
      /\ ring[At(d)].num \in Packets
  BY <1>1, FirstIsOldest, BufferPlace DEF Slots
<1>3. now > SourceTime(p + d) + MaxAge
  BY <1>1, <1>2, NothingFollows
<1>4. ASSUME NEW n \in Packets, n < p + d + 1
      PROVE  now > SourceTime(n) + MaxAge
  <2>1. n <= p + d /\ p + d \in Packets
    BY <1>2, <1>4, PacketTypes
  <2>2. SourceTime(n) <= SourceTime(p + d)
    BY <2>1, StampsOrdered
  <2>3. SourceTime(n) \in Nat /\ now \in Nat /\ MaxAge \in Nat
        /\ SourceTime(p + d) \in Nat
    BY <2>1, PacketTypes, FlowAssumption DEF FlowInv, TypeOK
  <2>4. QED BY <1>3, <2>2, <2>3
<1>5. Base' = Base
  BY <1>1 DEF Base
<1>6. Base \in Int /\ Base < p
  BY FlowAssumption DEF Base, FlowInv, TypeOK, Packets, ReaderAt
<1>7. /\ ReaderAt(p + d + 1)' /\ Occupied' \subseteq Occupied
      /\ \A i \in Occupied' : ring'[i] = ring[i]
  <2>1. Base' \in Int /\ Base <= Base' /\ Base' < p + d + 1
    BY <1>2, <1>5, <1>6
  <2>2. QED BY <1>1, <1>4, <2>1, ReaderMoves
<1>8. TimesFit'
  BY <1>1, <1>7 DEF TimesFit
<1>9. QED BY <1>7, <1>8

-----------------------------------------------------------------------------
(* The order of the blocks.                                                *)

\* The steps that touch neither the reader nor the ring.
Quiet ==
  /\ ring' = ring /\ outputIdx' = outputIdx /\ bufferStart' = bufferStart
  /\ out' = out /\ anchor' = anchor /\ offset' = offset
  /\ now' \in Nat /\ now <= now'
  /\ maxSourceTime' \in Nat /\ maxSourceTime <= maxSourceTime'
  /\ hasItems' => hasItems

\* Every step is quiet, starts the flow, takes a packet in or hands one over.
LEMMA StepKinds ==
  ASSUME FlowInv, [Next]_vars
  PROVE  \/ Quiet /\ (now' = now \/ Tick)
         \/ \E n \in Packets, retry \in BOOLEAN :
              Arrives(n, retry) /\ (Anchor(n) \/ Insert(n, retry))
         \/ \E d \in Slots : DropTooOld(d) \/ Deliver(d)
<1>0. now \in Nat /\ maxSourceTime \in Nat
  BY DEF FlowInv, TypeOK
<1>1. CASE \E n \in Packets, retry \in BOOLEAN : Enqueue(n, retry)
  <2>1. PICK n \in Packets, retry \in BOOLEAN : Enqueue(n, retry)
    BY <1>1
  <2>2. CASE AwaitAnchor(n) \/ DropLate(n)
    <3>1. /\ ring' = ring /\ outputIdx' = outputIdx /\ now' = now
          /\ bufferStart' = bufferStart /\ out' = out /\ anchor' = anchor
          /\ offset' = offset /\ maxSourceTime' = maxSourceTime
      BY <2>2 DEF AwaitAnchor, DropLate, clock, reader, env
    <3>2. hasItems' => hasItems
      BY <2>2 DEF AwaitAnchor, DropLate
    <3>3. QED BY <1>0, <3>1, <3>2 DEF Quiet
  <2>3. CASE DropFull(n) \/ DropDupe(n)
    <3>1. /\ ring' = ring /\ outputIdx' = outputIdx /\ now' = now
          /\ bufferStart' = bufferStart /\ out' = out /\ anchor' = anchor
          /\ offset' = offset /\ hasItems
      BY <2>3 DEF DropFull, DropDupe, reader, env
    <3>2. maxSourceTime' \in Nat /\ maxSourceTime <= maxSourceTime'
      BY <2>3, MarkRises DEF DropFull, DropDupe
    <3>3. QED BY <1>0, <3>1, <3>2 DEF Quiet
  <2>4. QED BY <2>1, <2>2, <2>3 DEF Enqueue
<1>2. CASE \/ Nack \/ OutputNothing \/ Rebase \/ Unlink \/ Relink
           \/ UNCHANGED vars \/ \E d \in Slots : ResetTooOld(d)
  <2>1. /\ ring' = ring /\ outputIdx' = outputIdx /\ now' = now
        /\ bufferStart' = bufferStart /\ out' = out /\ anchor' = anchor
        /\ offset' = offset /\ maxSourceTime' = maxSourceTime
    BY <1>2 DEF Nack, NackBegin, NackFilled, NackHole, NackEnd, OutputNothing,
                Rebase, Unlink, Relink, ResetTooOld, vars, clock, reader, env
  <2>2. hasItems' => hasItems
    BY <1>2 DEF Nack, NackBegin, NackFilled, NackHole, NackEnd, OutputNothing,
                Rebase, Unlink, Relink, ResetTooOld, vars
  <2>3. QED BY <1>0, <2>1, <2>2 DEF Quiet
<1>3. CASE Tick
  <2>1. Quiet
    BY <1>0, <1>3 DEF Tick, Quiet, clock, reader, env
  <2>2. QED BY <1>3, <2>1
<1>4. QED BY <1>1, <1>2, <1>3 DEF Next, Outputs

\* OrderInv is inductive while the application is served.
LEMMA OrderStep ==
  ASSUME Timely, OrderInv, FlowInv, Served, [Next]_vars
  PROVE  OrderInv'
<1>1. CASE Quiet
  <2>1. CASE anchor = -1
    <3>1. Occupied' = Occupied
      BY <1>1 DEF Quiet, Occupied
    <3>2. QED BY <1>1, <2>1, <3>1 DEF OrderInv, Quiet
  <2>2. CASE anchor # -1
    <3>1. PICK p \in Nat : ReaderAt(p)
      BY <2>2 DEF OrderInv
    <3>2. ReaderAt(p)'
      BY <1>1, <3>1, ReaderKept DEF Quiet
    <3>3. TimesFit'
      BY <1>1, <2>2, TimesKept DEF Quiet, OrderInv
    <3>4. QED BY <1>1, <2>2, <3>2, <3>3 DEF OrderInv, Quiet
  <2>3. QED BY <2>1, <2>2
<1>2. ASSUME NEW n \in Packets, NEW retry \in BOOLEAN, Arrives(n, retry),
             Anchor(n)
      PROVE  OrderInv'
  <2>1. ReaderAt(n)' /\ TimesFit' /\ anchor' = n
    BY <1>2, AnchorOrder
  <2>2. n \in Nat
    BY PacketTypes
  <2>3. QED BY <2>1, <2>2 DEF OrderInv
<1>3. ASSUME NEW n \in Packets, NEW retry \in BOOLEAN, Arrives(n, retry),
             Insert(n, retry)
      PROVE  OrderInv'
  <2>1. anchor # -1 /\ anchor' = anchor
    BY <1>3 DEF Insert, OrderInv, env
  <2>2. TimesFit /\ \E p \in Nat : ReaderAt(p)
    BY <2>1 DEF OrderInv
  <2>3. PICK p \in Nat : ReaderAt(p)
    BY <2>2
  <2>4. ReaderAt(p)' /\ TimesFit'
    BY <1>3, <2>1, <2>2, <2>3, InsertOrder
  <2>5. QED BY <2>1, <2>4 DEF OrderInv
<1>4. ASSUME NEW d \in Slots, DropTooOld(d) \/ Deliver(d)
      PROVE  OrderInv'
  <2>1. anchor' = anchor /\ InFront(d)
    BY <1>4 DEF DropTooOld, Deliver, env
  <2>2. anchor # -1
    <3>1. At(d) \in Occupied
      BY <2>1, AtTypes DEF InFront, Occupied, FlowInv
    <3>2. QED BY <3>1 DEF OrderInv
  <2>3. TimesFit /\ \E p \in Nat : ReaderAt(p)
    BY <2>2 DEF OrderInv
  <2>4. PICK p \in Nat : ReaderAt(p)
    BY <2>3
  <2>5. \E k \in {1, 2} : ReaderAt(p + d + k)' /\ TimesFit'
    BY <1>4, <2>2, <2>3, <2>4, DropOrder, DeliverOrder
  <2>6. PICK k \in {1, 2} : ReaderAt(p + d + k)' /\ TimesFit'
    BY <2>5
  <2>7. p + d + k \in Nat
    BY DEF Slots
  <2>8. QED BY <2>1, <2>2, <2>6, <2>7 DEF OrderInv
<1>5. QED BY <1>1, <1>2, <1>3, <1>4, StepKinds

\* A block that is not the first after a start is behind the one before it.
LEMMA BlockIsLater ==
  ASSUME Timely, OrderInv, FlowInv, [Next]_vars, out' # out
  PROVE  out'.start \/ out'.num > out.last
<1>1. PICK d \in Slots : Deliver(d)
  BY StepKinds DEF Quiet, Anchor, Insert, DropTooOld, reader
<1>2. anchor # -1
  <2>1. At(d) \in Occupied
    BY <1>1, AtTypes DEF Deliver, InFront, Occupied, FlowInv
  <2>2. QED BY <2>1 DEF OrderInv
<1>3. TimesFit /\ \E p \in Nat : ReaderAt(p)
  BY <1>2 DEF OrderInv
<1>4. PICK p \in Nat : ReaderAt(p)
  BY <1>3
<1>5. out'.num = p + d /\ out'.start = bufferStart
  BY <1>1, <1>2, <1>3, <1>4, DeliverOrder
<1>6. ~bufferStart => out.last < p
  BY <1>4 DEF ReaderAt, Base
<1>7. out.last \in Int /\ d \in Nat /\ bufferStart \in BOOLEAN
  BY FlowAssumption DEF FlowInv, TypeOK, Packets, Slots
<1>8. QED BY <1>5, <1>6, <1>7

LEMMA OrderInit == Init => OrderInv
  BY DEF Init, OrderInv, Occupied

\* Blocks come in the order of the stream, and none twice, until the flow
\* starts again: whatever is lost, resent, merged or held back, and however
\* long the stream, in a flow whose application is less than a ring behind.
THEOREM BlocksInOrder ==
  ASSUME Timely
  PROVE  Spec /\ []Served => InOrder
<1>1. OrderInv /\ FlowInv /\ Served /\ [Next]_vars => OrderInv'
  BY OrderStep
<1>2. OrderInv /\ FlowInv /\ [Next]_vars
        => [out'.start \/ out'.num > out.last]_out
  BY BlockIsLater
<1>3. QED
  BY <1>1, <1>2, OrderInit, FlowCorrect, PTL DEF Spec, InOrder

-----------------------------------------------------------------------------
(* Flags, and the refinement.                                              *)

\* While the output thread keeps up, no buffer is overdue and the reader waits
\* for the packet after the last one it handed over.
KeepsUp == anchor # -1 =>
  ReaderAt(Base + 1) /\ \A i \in Occupied : now <= ring[i].ptime + Buffer

\* A buffer that is not overdue is not too old.
LEMMA NotTooOld ==
  ASSUME Timely, FlowInv, TimesFit, NEW i \in Occupied,
         now <= ring[i].ptime + Buffer
  PROVE  ~TooOld(ring[i])
<1> DEFINE b == ring[i]
           t == SourceTime(b.num)
<1>1. b \in Buffers /\ b.num \in Packets
  BY BufferTypes DEF FlowInv, TypeOK, Occupied
<1>2. /\ b.time \in Nat /\ t \in Nat /\ t <= b.time /\ b.ptime = t + offset
      /\ now \in Nat /\ offset \in Int /\ offset <= MaxAge
  BY <1>1, PacketTypes DEF TimesFit, FlowInv, TypeOK, Buffers
<1>3. Buffer \in Nat /\ MaxAge \in Nat /\ MaxAge < Buffer
  BY FlowAssumption DEF Timely
<1>4. now <= b.ptime + Buffer
  OBVIOUS
<1> HIDE DEF t, b
<1>5. ~(now - b.time > 2 * Buffer)
  BY <1>2, <1>3, <1>4
<1>6. QED BY <1>5 DEF TooOld, Age, b

\* The clock waits for the output thread, so that the oldest buffer, and with
\* it every other, has time left.
LEMMA TickKeepsUp ==
  ASSUME Timely, ~Stalls, FlowInv, anchor # -1, TimesFit, KeepsUp, Tick
  PROVE  \A i \in Occupied : now' <= ring[i].ptime + Buffer
<1> SUFFICES ASSUME NEW i \in Occupied PROVE now' <= ring[i].ptime + Buffer
  OBVIOUS
<1>1. queueSize > 0
  <2>1. Cardinality(Occupied) # 0 /\ Cardinality(Occupied) \in Nat
    BY OccupiedFinite
  <2>2. QED
    BY <2>1 DEF FlowInv, TypeOK, SizeNeverUnderstated
<1>2. PICK d \in Slots : InFront(d) /\ Waits(ring[At(d)], d)
  BY <1>1 DEF Tick, OutputDue
<1>3. PICK p \in Nat : p = Base + 1 /\ ReaderAt(p)
  BY DEF KeepsUp, ReaderAt
<1>4. /\ At(d) \in Occupied /\ ring[At(d)].num = p + d
      /\ p + d <= ring[i].num
  BY <1>2, <1>3, FirstIsOldest
<1>5. ring[At(d)].num \in Packets /\ ring[i].num \in Packets
  BY <1>3, <1>4, BufferPlace
<1>6. SourceTime(ring[At(d)].num) <= SourceTime(ring[i].num)
  BY <1>4, <1>5, StampsOrdered
<1>7. /\ SourceTime(ring[At(d)].num) \in Nat /\ SourceTime(ring[i].num) \in Nat
      /\ ring[At(d)].ptime = SourceTime(ring[At(d)].num) + offset
      /\ ring[i].ptime = SourceTime(ring[i].num) + offset
      /\ offset \in Int /\ now \in Nat /\ now' = now + 1 /\ Buffer \in Nat
  BY <1>4, <1>5, PacketTypes, FlowAssumption DEF TimesFit, FlowInv, TypeOK, Tick
<1>8. ring[At(d)].ptime + Buffer > now
  BY <1>2 DEF Waits
<1>9. QED BY <1>6, <1>7, <1>8

\* Nothing is dropped for its age while the output thread keeps up.
LEMMA NothingDropped ==
  ASSUME Timely, FlowInv, OrderInv, KeepsUp, NEW d \in Slots
  PROVE  ~DropTooOld(d)
<1> SUFFICES ASSUME DropTooOld(d) PROVE FALSE
  OBVIOUS
<1>1. At(d) \in Occupied
  BY AtTypes DEF DropTooOld, InFront, Occupied, FlowInv
<1>2. anchor # -1
  BY <1>1 DEF OrderInv
<1>3. TimesFit /\ now <= ring[At(d)].ptime + Buffer
  BY <1>1, <1>2 DEF OrderInv, KeepsUp
<1>4. QED BY <1>1, <1>3, NotTooOld DEF DropTooOld

\* KeepsUp is inductive.
LEMMA KeepsUpStep ==
  ASSUME Timely, ~Stalls, OrderInv, KeepsUp, FlowInv, Served, [Next]_vars
  PROVE  KeepsUp'
<1>1. ASSUME Quiet, now' = now \/ Tick
      PROVE  KeepsUp'
  <2>1. CASE anchor = -1
    BY <1>1, <2>1 DEF KeepsUp, Quiet
  <2>2. CASE anchor # -1
    <3>1. PICK p \in Nat : p = Base + 1 /\ ReaderAt(p)
      BY <2>2 DEF KeepsUp, ReaderAt
    <3>2. ReaderAt(p)' /\ Base' = Base /\ Occupied' = Occupied
      BY <1>1, <3>1, ReaderKept DEF Quiet
    <3>3. ReaderAt(Base + 1)'
      BY <3>1, <3>2
    <3>4. \A i \in Occupied : now' <= ring[i].ptime + Buffer
      BY <1>1, <2>2, TickKeepsUp DEF KeepsUp, OrderInv
    <3>5. QED BY <1>1, <3>2, <3>3, <3>4 DEF KeepsUp, Quiet
  <2>3. QED BY <2>1, <2>2
<1>2. ASSUME NEW n \in Packets, NEW retry \in BOOLEAN, Arrives(n, retry),
             Anchor(n)
      PROVE  KeepsUp'
  <2>1. /\ ReaderAt(n)' /\ Base' = n - 1
        /\ \A i \in Occupied' : ring'[i].ptime = now
    BY <1>2, AnchorOrder
  <2>2. now' = now /\ now \in Nat /\ Buffer \in Nat /\ n \in Nat
    BY <1>2, PacketTypes, FlowAssumption DEF Anchor, FlowInv, TypeOK
  <2>3. n = Base' + 1
    BY <2>1, <2>2
  <2>4. ReaderAt(Base + 1)'
    BY <2>1, <2>3
  <2>5. QED BY <2>1, <2>2, <2>4 DEF KeepsUp
<1>3. ASSUME NEW n \in Packets, NEW retry \in BOOLEAN, Arrives(n, retry),
             Insert(n, retry)
      PROVE  KeepsUp'
  <2>1. anchor # -1 /\ anchor' = anchor /\ now' = now
    BY <1>3 DEF Insert, OrderInv, env
  <2>2. TimesFit
    BY <2>1 DEF OrderInv
  <2>3. PICK p \in Nat : p = Base + 1 /\ ReaderAt(p)
    BY <2>1 DEF KeepsUp, ReaderAt
  <2>4. /\ ReaderAt(p)' /\ Base' = Base
        /\ \A i \in Occupied' :
             \/ i \in Occupied /\ ring'[i] = ring[i]
             \/ ring'[i].num = n /\ ring'[i].ptime = PacketTime(n)
    BY <1>3, <2>1, <2>2, <2>3, InsertOrder
  <2>5. now <= PacketTime(n) + Buffer
    <3>1. /\ SourceTime(n) \in Nat /\ now \in Nat /\ offset \in Int
          /\ 0 <= offset /\ now <= SourceTime(n) + MaxAge
      BY <1>3, <2>2, PacketTypes DEF TimesFit, Arrives, FlowInv, TypeOK
    <3>2. QED BY <3>1, FlowAssumption DEF PacketTime, Timely
  <2>6. ReaderAt(Base + 1)'
    BY <2>3, <2>4
  <2>7. \A i \in Occupied' : now' <= ring'[i].ptime + Buffer
    BY <2>1, <2>4, <2>5 DEF KeepsUp
  <2>8. QED BY <2>6, <2>7 DEF KeepsUp
<1>4. ASSUME NEW d \in Slots, Deliver(d)
      PROVE  KeepsUp'
  <2>1. anchor' = anchor /\ now' = now /\ At(d) \in Occupied
    BY <1>4, AtTypes DEF Deliver, env, InFront, Occupied, FlowInv
  <2>2. anchor # -1 /\ TimesFit
    BY <2>1 DEF OrderInv
  <2>3. PICK p \in Nat : p = Base + 1 /\ ReaderAt(p)
    BY <2>2 DEF KeepsUp, ReaderAt
  <2>4. PICK k \in {1, 2} :
          /\ ReaderAt(p + d + k)' /\ Base' = p + d + k - 1
          /\ Occupied' \subseteq Occupied
          /\ \A i \in Occupied' : ring'[i] = ring[i]
    BY <1>4, <2>2, <2>3, DeliverOrder
  <2>5. p + d + k = Base' + 1
    BY <2>4 DEF Slots
  <2>6. ReaderAt(Base + 1)'
    BY <2>4, <2>5
  <2>7. QED BY <2>1, <2>2, <2>4, <2>6 DEF KeepsUp
<1>5. QED BY <1>1, <1>2, <1>3, <1>4, StepKinds, NothingDropped

LEMMA KeepsUpInit == Init => KeepsUp
  BY DEF Init, KeepsUp

\* What a delivered block says of the packets before it.
LEMMA BlockFlagged ==
  ASSUME Timely, OrderInv, KeepsUp, FlowInv, [Next]_vars, out' # out
  PROVE  out'.start \/ out'.gap \/ out'.num = out.last + 1
<1>1. PICK d \in Slots : Deliver(d)
  BY StepKinds DEF Quiet, Anchor, Insert, DropTooOld, reader
<1>2. anchor # -1 /\ TimesFit
  <2>1. At(d) \in Occupied
    BY <1>1, AtTypes DEF Deliver, InFront, Occupied, FlowInv
  <2>2. QED BY <2>1 DEF OrderInv
<1>3. PICK p \in Nat : p = Base + 1 /\ ReaderAt(p)
  BY <1>2 DEF KeepsUp, ReaderAt
<1>4. out'.num = p + d /\ out'.start = bufferStart /\ (d > 0 => out'.gap)
  BY <1>1, <1>2, <1>3, DeliverOrder
<1>5. d \in Nat /\ bufferStart \in BOOLEAN /\ out.last \in Int
  BY FlowAssumption DEF FlowInv, TypeOK, Packets, Slots
<1>6. CASE d = 0 /\ ~bufferStart
  BY <1>3, <1>4, <1>5, <1>6 DEF Base
<1>7. QED BY <1>4, <1>5, <1>6

\* A block that does not follow the one before it says so, in a flow whose
\* output thread keeps up: a buffer dropped for its age leaves no trace.
THEOREM GapsAreFlagged ==
  ASSUME Timely, ~Stalls
  PROVE  Spec /\ []Served => NoSilentGap
<1>1. OrderInv /\ FlowInv /\ Served /\ [Next]_vars => OrderInv'
  BY OrderStep
<1>2. OrderInv /\ KeepsUp /\ FlowInv /\ Served /\ [Next]_vars => KeepsUp'
  BY KeepsUpStep
<1>3. OrderInv /\ KeepsUp /\ FlowInv /\ [Next]_vars
        => [out'.start \/ out'.gap \/ out'.num = out.last + 1]_out
  BY BlockFlagged
<1>4. QED
  BY <1>1, <1>2, <1>3, OrderInit, KeepsUpInit, FlowCorrect, PTL
     DEF Spec, NoSilentGap

\* What the abstract receiver holds.
Held == {ring[i].num : i \in Occupied}

\* Every step of the flow is one of the abstract receiver, or none.
LEMMA DeliveryStep ==
  ASSUME Timely, OrderInv, KeepsUp, FlowInv, Served, [Next]_vars
  PROVE  [Delivery!Next]_Delivery!vars
<1>1. CASE Quiet
  <2>1. Occupied' = Occupied
    BY <1>1 DEF Quiet, Occupied
  <2>2. QED
    BY <1>1, <2>1 DEF Quiet, Delivery!vars, Delivery!block
<1>2. ASSUME NEW n \in Packets, NEW retry \in BOOLEAN, Arrives(n, retry),
             Anchor(n)
      PROVE  Delivery!Restart(n)
  <2>1. Held' = {n} /\ bufferStart' = TRUE /\ out' = out
    BY <1>2, AnchorOrder DEF Held, Anchor
  <2>2. QED BY <2>1 DEF Delivery!Restart, Delivery!block, Held
<1>3. ASSUME NEW n \in Packets, NEW retry \in BOOLEAN, Arrives(n, retry),
             Insert(n, retry)
      PROVE  Delivery!Take(n)
  <2>1. anchor # -1 /\ bufferStart' = bufferStart /\ out' = out
    BY <1>3 DEF Insert, OrderInv, reader
  <2>2. TimesFit
    BY <2>1 DEF OrderInv
  <2>3. PICK p \in Nat : p = Base + 1 /\ ReaderAt(p)
    BY <2>1 DEF KeepsUp, ReaderAt
  <2>4. p <= n /\ n \notin Held /\ Held' = Held \cup {n}
    BY <1>3, <2>1, <2>2, <2>3, InsertOrder DEF Held
  <2>5. bufferStart \/ n > out.last
    <3>1. out.last \in Int /\ n \in Int
      BY PacketTypes, FlowAssumption DEF FlowInv, TypeOK, Packets
    <3>2. QED BY <2>3, <2>4, <3>1 DEF Base
  <2>6. QED
    BY <2>1, <2>4, <2>5 DEF Delivery!Take, Delivery!block, Held
<1>4. ASSUME NEW d \in Slots, Deliver(d)
      PROVE  \E n \in Packets, m \in Packets : n <= m /\ Delivery!Deliver(n, m)
  <2>1. At(d) \in Occupied
    BY <1>4, AtTypes DEF Deliver, InFront, Occupied, FlowInv
  <2>2. anchor # -1 /\ TimesFit
    BY <2>1 DEF OrderInv
  <2>3. PICK p \in Nat : p = Base + 1 /\ ReaderAt(p)
    BY <2>2 DEF KeepsUp, ReaderAt
  <2>4. PICK k \in {1, 2} :
          /\ InFront(d) /\ ring[At(d)].num = p + d
          /\ out'.num = p + d /\ out'.last = p + d + k - 1
          /\ out'.turn = ~out.turn
          /\ out'.gap \in BOOLEAN /\ (d > 0 => out'.gap)
          /\ (p + d) .. (p + d + k - 1) \subseteq Held
          /\ Held' = Held \ ((p + d) .. (p + d + k - 1))
    BY <1>4, <2>2, <2>3, DeliverOrder DEF Held
  <2> DEFINE n == p + d
             m == p + d + k - 1
  <2>5. d \in Nat /\ n \in Nat /\ m \in Nat /\ n <= m
    BY DEF Slots
  <2>6. n \in Held /\ m \in Held /\ \A x \in Held : n <= x
    <3>1. n \in n .. m /\ m \in n .. m
      BY <2>5
    <3>2. \A x \in Held : n <= x
      BY <2>3, <2>4, FirstIsOldest DEF Held
    <3>3. QED BY <2>4, <3>1, <3>2
  <2>7. Held \subseteq Packets
    BY BufferTypes DEF Held, Occupied, FlowInv
  <2>8. ~bufferStart => n > out.last /\ (n # out.last + 1 => out'.gap)
    <3> SUFFICES ASSUME ~bufferStart
                 PROVE  n > out.last /\ (n # out.last + 1 => out'.gap)
      OBVIOUS
    <3>1. out.last \in Int /\ p = out.last + 1
      BY <2>3, FlowAssumption DEF Base, FlowInv, TypeOK, Packets
    <3>2. QED BY <2>4, <2>5, <3>1
  <2>9. bufferStart' = FALSE
    BY <1>4 DEF Deliver
  <2>10. Delivery!Oldest(n)
    BY <2>6 DEF Delivery!Oldest, Held
  <2>11. Delivery!Deliver(n, m)
    BY <2>4, <2>8, <2>9, <2>10 DEF Delivery!Deliver, Held
  <2> HIDE DEF n, m
  <2>12. QED BY <2>5, <2>6, <2>7, <2>11
<1>5. QED
  BY <1>1, <1>2, <1>3, <1>4, StepKinds, NothingDropped DEF Delivery!Next

\* A flow whose output thread keeps up, and whose application is less than a
\* ring behind, implements OrderedDelivery: the ring, with its slots, numbers
\* and clocks, is a set of packets of which the oldest is always handed over.
THEOREM FlowDelivers ==
  ASSUME Timely, ~Stalls
  PROVE  Spec /\ []Served => Delivers
<1>1. OrderInv /\ FlowInv /\ Served /\ [Next]_vars => OrderInv'
  BY OrderStep
<1>2. OrderInv /\ KeepsUp /\ FlowInv /\ Served /\ [Next]_vars => KeepsUp'
  BY KeepsUpStep
<1>3. OrderInv /\ KeepsUp /\ FlowInv /\ Served /\ [Next]_vars
        => [Delivery!Next]_Delivery!vars
  BY DeliveryStep
<1>4. Init => Delivery!Init
  BY DEF Init, Delivery!Init, Occupied
<1>5. QED
  BY <1>1, <1>2, <1>3, <1>4, OrderInit, KeepsUpInit, FlowCorrect, PTL
     DEF Spec, Delivers, Delivery!Spec

=============================================================================
