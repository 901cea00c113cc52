---------------------------- MODULE ReceiverFlow ----------------------------
(***************************************************************************)
(* One receiver flow of librist: the recovery ring the protocol thread     *)
(* fills (receiver_enqueue), the list of missing sequence numbers and the  *)
(* NACK group it builds (receiver_nack_output, send_nack_group), and the   *)
(* loop of the data output thread that empties the ring in order           *)
(* (receiver_output).                                                      *)
(*                                                                         *)
(* A packet is its number in the sender's stream.  The receiver sees only  *)
(* SeqNum(n), the number modulo the width of the sequence field, and       *)
(* SourceTime(n), the tick of the sender's clock it was stamped with.      *)
(* Payloads all have size one, so receiver_queue_size counts packets.      *)
(* Counters of stats_instant are zeroed by a timer of their own: whether   *)
(* one has reached its threshold is a free choice here.                    *)
(***************************************************************************)
EXTENDS Integers, Sequences, FiniteSets, SequencesExt

CONSTANTS
  QueueMax,      \* receiver_queue_max, the slots of the recovery ring
  SeqSpace,      \* 2^16 (short_seq) or 2^32, the sequence numbers
  Buffer,        \* recovery_buffer_ticks
  LateBound,     \* recovery_buffer_ticks * 1.1
  ReorderDelay,  \* ticks before the first NACK of a hole
  NackInterval,  \* rtt * 1.1, ticks between NACKs of one hole
  MaxRetries,    \* peer->config.max_retries
  MissingMax,    \* peer->missing_counter_max
  MaxNacks,      \* RIST_MAX_NACKS, the entries of nacks.array
  MergePairs,    \* merge_mode: an even and the next odd packet are one block
  NULL

CONSTANTS        \* the environment and its bounds
  FirstSeq,      \* the sequence number of packet 0
  LastPacket,    \* packets 0 .. LastPacket are sent
  MaxTime,       \* the clock stops here
  MaxAge,        \* no packet arrives later than this after it was stamped
  Reorders,      \* packets may be reordered and duplicated, and an answer may
                 \* be from before the packet the flow started with
  Stalls,        \* the output thread may be held up (a blocking callback)
  MaxRebases,    \* framing or flow-id changes of the source
  MaxFlaps       \* times the flow loses its last peer

ASSUME FlowAssumption ==
  /\ QueueMax \in Nat /\ QueueMax >= 2
  /\ SeqSpace \in Nat /\ SeqSpace >= 2
  /\ SeqSpace % QueueMax = 0 \/ QueueMax % SeqSpace = 0
  /\ Buffer \in Nat \ {0} /\ LateBound \in Nat
  /\ Buffer <= LateBound /\ LateBound < 2 * Buffer
  /\ ReorderDelay \in Nat /\ NackInterval \in Nat \ {0}
  /\ MaxRetries \in Nat /\ MissingMax \in Nat
  /\ MaxNacks \in Nat /\ MaxNacks >= 2
  /\ MergePairs \in BOOLEAN /\ Reorders \in BOOLEAN
  /\ Stalls \in BOOLEAN
  /\ FirstSeq \in Nat /\ LastPacket \in Nat /\ MaxTime \in Nat /\ MaxAge \in Nat
  /\ MaxRebases \in Nat /\ MaxFlaps \in Nat

Packets == 0 .. LastPacket
Slots   == 0 .. QueueMax - 1
Seqs    == 0 .. SeqSpace - 1

SeqNum(n)     == (FirstSeq + n) % SeqSpace
SlotOf(s)     == s % QueueMax
SourceTime(n) == (IF MergePairs THEN n - (n % 2) ELSE n) + 1

\* A queued packet: its number, when it arrived (b->time), its packet_time.
Buffers == [num : Packets, time : Nat, ptime : Int]
\* A hole: its sequence number, insertion_time, next_nack and nack_count.
Holes   == [seq : Seqs, ins : Int, next : Nat, count : Nat]

ASSUME NullAssumption == NULL \notin Buffers

VARIABLES
  now,            \* timestampNTP_u64()
  hasItems,       \* receiver_queue_has_items
  ring,           \* receiver_queue
  queueSize,      \* receiver_queue_size
  outputIdx,      \* receiver_queue_output_idx
  lastSeqFound, lastSeqOutput,
  offset,         \* time_offset
  maxSourceTime, lastPacketTs,
  waitSince,      \* reanchor_wait_since, 0 when not waiting
  lastOutputTime,
  bufferStart,    \* flag_flow_buffer_start
  missing,        \* missing .. missing_tail, in order
  nacks,          \* nacks.array up to nacks.counter
  nackPos,        \* cursor of receiver_nack_output, 0 outside it
  linked,         \* the flow has a peer to send NACKs to
  asked,          \* packets some NACK has asked for
  out,            \* the last block handed to the application
  anchor,         \* the packet the flow last started with, -1 before
  rebases, flaps

clock  == <<offset, maxSourceTime, lastPacketTs, waitSince>>
holes  == <<missing, nacks, nackPos>>
env    == <<linked, asked, anchor, rebases, flaps>>
reader == <<outputIdx, lastSeqOutput, lastOutputTime, bufferStart, out>>
vars   == <<now, hasItems, ring, queueSize, lastSeqFound, clock, holes, reader,
            env>>

TypeOK ==
  /\ now \in Nat /\ hasItems \in BOOLEAN
  /\ ring \in [Slots -> Buffers \cup {NULL}]
  /\ queueSize \in Nat /\ outputIdx \in Slots
  /\ lastSeqFound \in Seqs /\ lastSeqOutput \in Seqs
  /\ offset \in Int /\ maxSourceTime \in Nat /\ lastPacketTs \in Int
  /\ waitSince \in Nat /\ lastOutputTime \in Nat /\ bufferStart \in BOOLEAN
  /\ missing \in Seq(Holes) /\ nacks \in Seq(Seqs) /\ nackPos \in Nat
  /\ linked \in BOOLEAN /\ asked \in SUBSET Packets
  /\ out \in [num : Packets \cup {-1}, last : Packets \cup {-1},
              start : BOOLEAN, gap : BOOLEAN, turn : BOOLEAN]
  /\ anchor \in Packets \cup {-1}
  /\ rebases \in 0 .. MaxRebases /\ flaps \in 0 .. MaxFlaps

Init ==
  /\ now = 1 /\ hasItems = FALSE
  /\ ring = [i \in Slots |-> NULL] /\ queueSize = 0 /\ outputIdx = 0
  /\ lastSeqFound = 0 /\ lastSeqOutput = 0
  /\ offset = 0 /\ maxSourceTime = 0 /\ lastPacketTs = 0 /\ waitSince = 0
  /\ lastOutputTime = 0 /\ bufferStart = FALSE
  /\ missing = <<>> /\ nacks = <<>> /\ nackPos = 0
  /\ linked = TRUE /\ asked = {}
  /\ out = [num |-> -1, last |-> -1, start |-> FALSE, gap |-> FALSE,
            turn |-> FALSE]
  /\ anchor = -1 /\ rebases = 0 /\ flaps = 0

-----------------------------------------------------------------------------
(* Sequence arithmetic and the ring.                                       *)

SeqNext(s)   == (s + 1) % SeqSpace
SeqGap(c, l) == (c - l) % SeqSpace
Occupied     == {i \in Slots : ring[i] # NULL}
Minimum(a, b) == IF a < b THEN a ELSE b

-----------------------------------------------------------------------------
(* receiver_enqueue, called by the protocol thread.                        *)

\* n was sent after every packet that came: it has a later timestamp, or it is
\* the second of the pair the newest one begins.
Newest(n) == \/ SourceTime(n) > maxSourceTime
             \/ /\ n % 2 = 1 /\ SourceTime(n) = maxSourceTime
                /\ SeqNum(n - 1) = lastSeqFound

\* Packet n, as a first transmission or as the answer to a NACK, arrives.
Arrives(n, retry) ==
  /\ nackPos = 0
  /\ SourceTime(n) <= now /\ now <= SourceTime(n) + MaxAge
  /\ IF retry THEN n \in asked /\ (Reorders \/ n >= anchor)
              ELSE Reorders \/ Newest(n)

ReanchorCheck(st) ==
  IF maxSourceTime = 0 \/ st + Buffer >= maxSourceTime THEN "ok"
  ELSE IF waitSince # 0 /\ now - waitSince >= Buffer THEN "forced"
  ELSE "wait"

\* The flow has no anchor and this packet is too old to become one.
AwaitAnchor(n) ==
  /\ ~hasItems
  /\ ReanchorCheck(SourceTime(n)) = "wait"
  /\ waitSince' = IF waitSince = 0 THEN now ELSE waitSince
  /\ UNCHANGED <<now, hasItems, ring, queueSize, lastSeqFound, offset,
                 maxSourceTime, lastPacketTs, holes, reader, env>>

\* Mutant: the old data stays in the ring.
AnchorKeepsRing(n) ==
  LET b == [num |-> n, time |-> now, ptime |-> now] IN
  /\ ~hasItems /\ ReanchorCheck(SourceTime(n)) # "wait"
  /\ hasItems' = TRUE
  /\ ring' = [ring EXCEPT ![SlotOf(SeqNum(n))] = b] /\ queueSize' = 1
  /\ outputIdx' = SlotOf(SeqNum(n)) /\ lastSeqFound' = SeqNum(n)
  /\ lastSeqOutput' = (SeqNum(n) - 1) % SeqSpace
  /\ offset' = now - SourceTime(n) /\ maxSourceTime' = SourceTime(n)
  /\ lastPacketTs' = now /\ waitSince' = 0 /\ lastOutputTime' = 0
  /\ bufferStart' = TRUE /\ missing' = <<>> /\ anchor' = n
  /\ UNCHANGED <<now, nacks, nackPos, out, linked, asked, rebases, flaps>>

\* The flow (re)starts at this packet: old data and holes are thrown away.
\* empty_receiver_queue stops after one turn, so what receiver_queue_size
\* counted beyond the buffers in the ring stays counted.
Anchor(n) ==
  LET old == IF queueSize > 0 THEN {} ELSE Occupied
      b   == [num |-> n, time |-> now, ptime |-> now]
  IN  /\ ~hasItems
      /\ ReanchorCheck(SourceTime(n)) # "wait"
      /\ hasItems' = TRUE
      /\ ring' = [i \in Slots |-> IF i = SlotOf(SeqNum(n)) THEN b
                                  ELSE IF i \in old THEN ring[i] ELSE NULL]
      /\ queueSize' = queueSize - (IF queueSize > 0 THEN Cardinality(Occupied)
                                                    ELSE 0) + 1
      /\ outputIdx' = SlotOf(SeqNum(n))
      /\ lastSeqFound' = SeqNum(n)
      /\ lastSeqOutput' = (SeqNum(n) - 1) % SeqSpace
      /\ offset' = now - SourceTime(n)
      /\ maxSourceTime' = SourceTime(n)
      /\ lastPacketTs' = now
      /\ waitSince' = 0 /\ lastOutputTime' = 0 /\ bufferStart' = TRUE
      /\ missing' = <<>> /\ anchor' = n
      /\ UNCHANGED <<now, nacks, nackPos, out, linked, asked, rebases, flaps>>

\* receiver_calculate_packet_time: the newest packet moves the two marks.
PacketTime(n) == SourceTime(n) + offset
MarkNewest(n) ==
  IF SourceTime(n) > maxSourceTime
  THEN maxSourceTime' = SourceTime(n) /\ lastPacketTs' = PacketTime(n)
  ELSE UNCHANGED <<maxSourceTime, lastPacketTs>>

OutOfOrder(n) == /\ SourceTime(n) <= maxSourceTime
                 /\ PacketTime(n) < lastPacketTs
                 /\ SeqNum(n) # SeqNext(lastSeqFound)
TooLate(n)    == OutOfOrder(n) /\ now > PacketTime(n) + LateBound
BufferFull(n) == SlotOf(SeqNum(n)) = (outputIdx - 1) % QueueMax
Holder(n)     == ring[SlotOf(SeqNum(n))]
DuplicateNever(n) == FALSE   \* mutant: no search for a duplicate
Duplicate(n) == Holder(n) # NULL /\ SeqNum(Holder(n).num) = SeqNum(n)

\* Too late to be output; enough of these (dropped_late) restart the flow.
DropLate(n) ==
  /\ hasItems /\ TooLate(n)
  /\ hasItems' \in {TRUE, FALSE}
  /\ UNCHANGED <<now, ring, queueSize, lastSeqFound, clock, holes, reader, env>>

\* The slot is the one just behind the reader: dropped_full.
DropFull(n) ==
  /\ hasItems /\ ~TooLate(n) /\ BufferFull(n)
  /\ MarkNewest(n)
  /\ lastSeqFound' = IF PacketTime(n) > lastPacketTs' THEN SeqNum(n)
                                                      ELSE lastSeqFound
  /\ hasItems' \in {TRUE, FALSE}
  /\ UNCHANGED <<now, ring, queueSize, offset, waitSince, holes, reader, env>>

DropDupe(n) ==
  /\ hasItems /\ ~TooLate(n) /\ ~BufferFull(n) /\ Duplicate(n)
  /\ MarkNewest(n)
  /\ UNCHANGED <<now, hasItems, ring, queueSize, lastSeqFound, offset,
                 waitSince, holes, reader, env>>

\* receiver_mark_missing and rist_receiver_missing: a hole for every sequence
\* number between the last one found and s, as far as the list may grow.
\* cur is the packet time of s.
NewHoles(s, cur) ==
  LET gap    == SeqGap(s, lastSeqFound)
      before == ring[SlotOf(lastSeqFound)]
      last   == IF before = NULL THEN now ELSE before.ptime
      inter  == (cur - last) \div (gap + 1)
      wanted == (IF gap = 0 THEN SeqSpace ELSE gap) - 1
      room   == IF Len(missing) > MissingMax THEN 0
                ELSE MissingMax + 1 - Len(missing)
      count  == IF gap > Minimum(SeqSpace, QueueMax) \div 2 THEN 0
                ELSE Minimum(wanted, Minimum(room, QueueMax))
      since(k) == LET t == last + k * inter
                  IN IF cur < last \/ t > now \/ t < now - Buffer
                     THEN now ELSE t
  IN [k \in 1 .. count |->
        [seq |-> (lastSeqFound + k) % SeqSpace, ins |-> since(k),
         next |-> now + ReorderDelay, count |-> 0]]

\* Mutant: last_seq_found moves only to the packet that was expected next.
FoundAtNoGap(n) == IF SeqNum(n) = SeqNext(lastSeqFound) THEN SeqNum(n)
                   ELSE lastSeqFound
\* last_seq_found moves to the packet whether or not it came after a gap.
Found(n) == SeqNum(n)

\* The packet goes into its slot.  Another packet found there is freed, its
\* size stays in receiver_queue_size.
Insert(n, retry) ==
  LET b == [num |-> n, time |-> now, ptime |-> PacketTime(n)]
  IN  /\ hasItems /\ ~TooLate(n) /\ ~BufferFull(n) /\ ~Duplicate(n)
      /\ MarkNewest(n)
      /\ ring' = [ring EXCEPT ![SlotOf(SeqNum(n))] = b]
      /\ queueSize' = queueSize + 1
      /\ IF retry \/ OutOfOrder(n)
         THEN UNCHANGED <<lastSeqFound, missing>>
         ELSE /\ lastSeqFound' = Found(n)
              /\ missing' = IF SeqNum(n) = SeqNext(lastSeqFound) THEN missing
                            ELSE missing \o NewHoles(SeqNum(n), PacketTime(n))
      /\ UNCHANGED <<now, hasItems, offset, waitSince, nacks, nackPos, reader,
                     env>>

\* receiver_enqueue as a whole; a retry finds nothing to do on an empty flow.
Enqueue(n, retry) ==
  /\ Arrives(n, retry)
  /\ \/ ~retry /\ (AwaitAnchor(n) \/ Anchor(n))
     \/ DropLate(n) \/ DropFull(n) \/ DropDupe(n) \/ Insert(n, retry)

-----------------------------------------------------------------------------
(* receiver_nack_output, one action per turn of its loop: it takes f->mutex *)
(* for moments only, so the output thread runs in between.                 *)

\* What the sender resends for sequence number s: its last packet with it.
Requested(s) ==
  LET sent == {n \in Packets : SeqNum(n) = s /\ SourceTime(n) <= now}
  IN  {n \in sent : \A k \in sent : k <= n}

\* Mutant: the counter of the group is not reset after sending.
SendGroupNoReset(group) ==
  IF linked THEN /\ nacks' = group
                 /\ asked' = asked \cup UNION {Requested(group[i]) :
                                               i \in 1 .. Len(group)}
            ELSE nacks' = group /\ UNCHANGED asked

\* send_nack_group: without a peer the group is kept for the next time.
SendGroup(group) ==
  IF linked THEN /\ nacks' = <<>>
                 /\ asked' = asked \cup UNION {Requested(group[i]) :
                                               i \in 1 .. Len(group)}
            ELSE nacks' = group /\ UNCHANGED asked

NackBegin ==
  /\ nackPos = 0 /\ (missing # <<>> \/ nacks # <<>>)
  /\ nackPos' = 1
  /\ UNCHANGED <<now, hasItems, ring, queueSize, lastSeqFound, clock, missing,
                 nacks, reader, env>>

\* The hole is filled (reason 3), or its slot holds another packet (4).
NackFilled ==
  /\ nackPos \in 1 .. Len(missing)
  /\ ring[SlotOf(missing[nackPos].seq)] # NULL
  /\ missing' = RemoveAt(missing, nackPos)
  /\ UNCHANGED <<now, hasItems, ring, queueSize, lastSeqFound, clock, nacks,
                 nackPos, reader, env>>

\* The array is sent when one entry is left, and cleared when none is.
FullGroup  == Len(nacks) = MaxNacks - 1
\* Mutant: the array is emptied only by sending it.
GroupStartUnbounded == IF FullGroup /\ linked THEN <<>> ELSE nacks
GroupStart == IF (FullGroup /\ linked) \/ Len(nacks) >= MaxNacks THEN <<>>
              ELSE nacks
AskedAfter == IF FullGroup /\ linked
              THEN asked \cup UNION {Requested(nacks[i]) : i \in 1 .. Len(nacks)}
              ELSE asked
\* rist_process_nack gives up: too many NACKs (8) or too late for one (9).
GiveUp(m)  == m.count >= MaxRetries \/ now - m.ins > LateBound
NackDue(m) == ~GiveUp(m) /\ now >= m.next

\* A hole that is still open: asked for again, dropped, or left for later.
NackHole ==
  LET m == missing[nackPos] IN
  /\ nackPos \in 1 .. Len(missing)
  /\ ring[SlotOf(m.seq)] = NULL
  /\ asked' = AskedAfter
  /\ nacks' = IF NackDue(m) THEN Append(GroupStart, m.seq) ELSE GroupStart
  /\ missing' = IF GiveUp(m) THEN RemoveAt(missing, nackPos)
                ELSE IF NackDue(m)
                THEN [missing EXCEPT ![nackPos].count = @ + 1,
                                     ![nackPos].next = now + NackInterval]
                ELSE missing
  /\ nackPos' = IF GiveUp(m) THEN nackPos ELSE nackPos + 1
  /\ UNCHANGED <<now, hasItems, ring, queueSize, lastSeqFound, clock, reader,
                 linked, anchor, rebases, flaps>>

NackEnd ==
  /\ nackPos > Len(missing)
  /\ SendGroup(nacks)
  /\ nackPos' = 0
  /\ UNCHANGED <<now, hasItems, ring, queueSize, lastSeqFound, clock, missing,
                 reader, linked, anchor, rebases, flaps>>

-----------------------------------------------------------------------------
(* receiver_output, one action per turn of its loop over the ring.         *)

At(d) == (outputIdx + d) % QueueMax
After(i) == (i + 1) % QueueMax
InFrontAny(d) == ring[At(d)] # NULL   \* mutant: some buffer, not the first
\* The first buffer in front of the reader lies behind d empty slots.
InFront(d) == ring[At(d)] # NULL /\ \A k \in 0 .. d - 1 : ring[At(k)] = NULL

Age(b)    == now - b.time
TooOldEarly(b) == Age(b) > Buffer   \* mutant: half the limit
TooOld(b) == Age(b) > 2 * Buffer
\* Mutant: a buffer behind a hole is not held back.
WaitsNotForHoles(b, d) ==
  b.ptime + Buffer > now /\ d = 0 /\ Age(b) <= LateBound

\* A buffer waits for its time; one that arrived long ago is not held back,
\* unless it lies behind a hole.
Waits(b, d) ==
  /\ b.ptime + Buffer > now
  /\ IF d > 0 THEN ~TooOld(b) ELSE Age(b) <= LateBound

\* Mutant: the size is not corrected.
OutputNothingKeepsSize ==
  /\ queueSize > 0 /\ Occupied = {}
  /\ hasItems' = FALSE
  /\ UNCHANGED <<now, ring, queueSize, lastSeqFound, clock, holes, reader, env>>

\* receiver_queue_size says there is data and the ring is empty.
OutputNothing ==
  /\ queueSize > 0 /\ Occupied = {}
  /\ hasItems' = FALSE
  /\ queueSize' = 0
  /\ UNCHANGED <<now, ring, lastSeqFound, clock, holes, reader, env>>

\* Mutant: the reader does not wrap.
ConsumeNoWrap(i, k, since) ==
  LET emptied == queueSize = k /\ since # 0 IN
  /\ ring' = [j \in Slots |-> IF j = i \/ (k = 2 /\ j = After(i))
                              THEN NULL ELSE ring[j]]
  /\ queueSize' = queueSize - k
  /\ outputIdx' = i + k
  /\ lastOutputTime' = IF emptied THEN since ELSE now
  /\ hasItems' = (hasItems /\ ~(emptied /\ now - since > Buffer))

\* Removes the k buffers from slot i on.  A queue that is empty now and had no
\* output for a whole recovery buffer (since) lets the flow start again.
Consume(i, k, since) ==
  LET emptied == queueSize = k /\ since # 0 IN
  /\ ring' = [j \in Slots |-> IF j = i \/ (k = 2 /\ j = After(i))
                              THEN NULL ELSE ring[j]]
  /\ queueSize' = queueSize - k
  /\ outputIdx' = (i + k) % QueueMax
  /\ lastOutputTime' = IF emptied THEN since ELSE now
  /\ hasItems' = (hasItems /\ ~(emptied /\ now - since > Buffer))

\* A buffer held for more than two recovery buffers is dropped; the next block
\* does not show it.
DropTooOld(d) ==
  /\ queueSize > 0 /\ InFront(d) /\ TooOld(ring[At(d)])
  /\ Consume(At(d), 1, lastOutputTime)
  /\ lastSeqOutput' = SeqNum(ring[At(d)].num)
  /\ UNCHANGED <<now, lastSeqFound, clock, holes, bufferStart, out, env>>

\* too_late_ctr passed its limit: the flow will anchor again.
ResetTooOld(d) ==
  /\ queueSize > 0 /\ InFront(d) /\ TooOld(ring[At(d)])
  /\ hasItems' = FALSE
  /\ UNCHANGED <<now, ring, queueSize, lastSeqFound, clock, holes, reader, env>>

\* The odd packet in the next slot completes the block of b (merge_mode pairs).
Merges(b, next) ==
  /\ MergePairs /\ SeqNum(b.num) % 2 = 0 /\ next # NULL
  /\ SeqNum(next.num) = SeqNext(SeqNum(b.num))
  /\ SourceTime(next.num) = SourceTime(b.num)

\* Mutant: one empty slot in front of the block is no discontinuity.
DeliverUnflagged(d) ==
  LET b    == ring[At(d)]
      next == ring[After(At(d))]
      pair == Merges(b, next)
      last == IF pair THEN next.num ELSE b.num
  IN  /\ queueSize > 0 /\ InFront(d) /\ ~TooOld(b) /\ ~Waits(b, d)
      /\ Consume(At(d), IF pair THEN 2 ELSE 1, now)
      /\ lastSeqOutput' = SeqNum(last)
      /\ bufferStart' = FALSE
      /\ out' = [num |-> b.num, last |-> last, start |-> bufferStart,
                 gap |-> d > 1, turn |-> ~out.turn]
      /\ UNCHANGED <<now, lastSeqFound, clock, holes, env>>

\* The next block goes to the application.
Deliver(d) ==
  LET b    == ring[At(d)]
      next == ring[After(At(d))]
      pair == Merges(b, next)
      last == IF pair THEN next.num ELSE b.num
  IN  /\ queueSize > 0 /\ InFront(d) /\ ~TooOld(b) /\ ~Waits(b, d)
      /\ Consume(At(d), IF pair THEN 2 ELSE 1, now)
      /\ lastSeqOutput' = SeqNum(last)
      /\ bufferStart' = FALSE
      /\ out' = [num |-> b.num, last |-> last, start |-> bufferStart,
                 gap |-> d > 0 \/ SeqNum(b.num) # SeqNext(lastSeqOutput),
                 turn |-> ~out.turn]
      /\ UNCHANGED <<now, lastSeqFound, clock, holes, env>>

Outputs == OutputNothing \/ \E d \in Slots : DropTooOld(d) \/ Deliver(d)

-----------------------------------------------------------------------------
(* The environment.                                                        *)

\* The output thread has something to do at this tick.
OutputDue ==
  /\ queueSize > 0
  /\ \A d \in Slots : InFront(d) => TooOld(ring[At(d)]) \/ ~Waits(ring[At(d)], d)

Tick ==
  /\ now < MaxTime
  /\ Stalls \/ ~OutputDue
  /\ now' = now + 1
  /\ UNCHANGED <<hasItems, ring, queueSize, lastSeqFound, clock, holes, reader,
                 env>>

\* rist_receiver_recv_data: the framing or the flow id of the source changed.
Rebase ==
  /\ nackPos = 0 /\ rebases < MaxRebases /\ hasItems
  /\ hasItems' = FALSE /\ rebases' = rebases + 1
  /\ UNCHANGED <<now, ring, queueSize, lastSeqFound, clock, holes, reader,
                 linked, asked, anchor, flaps>>

\* remove_peer_from_flow takes the last peer; one joins again.
Unlink ==
  /\ nackPos = 0 /\ linked /\ flaps < MaxFlaps
  /\ linked' = FALSE /\ flaps' = flaps + 1
  /\ UNCHANGED <<now, hasItems, ring, queueSize, lastSeqFound, clock, holes,
                 reader, asked, anchor, rebases>>

Relink ==
  /\ nackPos = 0 /\ ~linked
  /\ linked' = TRUE
  /\ UNCHANGED <<now, hasItems, ring, queueSize, lastSeqFound, clock, holes,
                 reader, asked, anchor, rebases, flaps>>

Nack   == NackBegin \/ NackFilled \/ NackHole \/ NackEnd
Next ==
  \/ \E n \in Packets, retry \in BOOLEAN : Enqueue(n, retry)
  \/ Nack
  \/ Outputs \/ \E d \in Slots : ResetTooOld(d)
  \/ Tick \/ Rebase \/ Unlink \/ Relink

Spec == Init /\ [][Next]_vars

\* The output thread wakes every few milliseconds whatever happens; the
\* protocol thread runs receiver_nack_output after every poll.
FairSpec == Spec /\ WF_vars(Tick) /\ WF_vars(Outputs) /\ WF_vars(Nack)

-----------------------------------------------------------------------------
(* Properties.                                                             *)

\* receiver_queue_size never says less than the ring holds: receiver_output
\* and empty_receiver_queue, which stop when it is zero, overlook no buffer.
SizeNeverUnderstated == Cardinality(Occupied) <= queueSize

\* receiver_queue_size counts exactly the buffers of the ring in a flow whose
\* sequence numbers are the slots (Simple and Main profile).
ShortSizeExact == SeqSpace = QueueMax => queueSize = Cardinality(Occupied)

\* receiver_output: "This should never happen, if this fires queue size is out
\* of sync with reality".  The reader never searches an empty ring.
SizeInSync == queueSize > 0 => Occupied # {}

\* A buffer is in the slot of its own sequence number, so the hole a NACK asks
\* about is looked up where the answer would be.
InOwnSlot == \A i \in Occupied : SlotOf(SeqNum(ring[i].num)) = i

\* The list of missing packets has no packet twice: one loss, one NACK a round.
\* As InOrder it supposes that the network keeps the order (Reorders = FALSE).
MissingOnce == \A i, j \in 1 .. Len(missing) :
                 missing[i].seq = missing[j].seq => i = j

\* No NACK is written past the end of nacks.array, also when the flow has lost
\* its peers and send_nack_group leaves the array as it is.
NacksWithinArray == Len(nacks) <= MaxNacks

\* What the three bounds above and TypeOK rest on, kept by every step.
FlowInv == /\ TypeOK /\ SizeNeverUnderstated /\ ShortSizeExact /\ InOwnSlot
           /\ NacksWithinArray

\* While the flow has its peers, no packet in the ring is asked for.
NacksAreHoles ==
  \A i \in 1 .. Len(nacks) :
    LET b == ring[SlotOf(nacks[i])] IN b # NULL => SeqNum(b.num) # nacks[i]

\* Blocks reach the application in the order of the stream, and none comes
\* twice, until the flow starts again (FLOW_BUFFER_START).  receiver_enqueue:
\* "if the reader queue has progressed passed this packet ... we silently drop
\* the packet as it would not be output in a valid way anyway".
InOrder == [][out'.start \/ out'.num > out.last]_out

\* A block without the discontinuity flag follows the one before it.
NoSilentGap == [][out'.start \/ out'.gap \/ out'.num = out.last + 1]_out

\* Whatever was put into the ring leaves it, whatever receiver_queue_size says.
Drains == (queueSize > 0) ~> (queueSize = 0)

\* A packet that reached the ring is played, unless the flow starts again
\* (rist_receiver_recv_data empties the ring) before its time comes.
Buffered(n) == hasItems /\ \E i \in Occupied : ring[i].num = n
Played ==
  \A n \in Packets, r \in 0 .. MaxRebases :
    (Buffered(n) /\ rebases = r) ~> (n \in {out.num, out.last} \/ rebases # r)

\* The ring, its reader and its clock implement OrderedDelivery: the buffers
\* wherever they lie are what is held, and receiver_output hands over the oldest.
Delivery == INSTANCE OrderedDelivery WITH
  held <- {ring[i].num : i \in Occupied}, fresh <- bufferStart,
  first <- out.num, last <- out.last, flag <- out.gap, turn <- out.turn
Delivers == Delivery!Spec

=============================================================================
