---------------------------- MODULE SenderQueue ----------------------------
(***************************************************************************)
(* The queues of a sender: the ring rist_sender_enqueue writes the         *)
(* application's packets to and sender_send_data sends them from, which    *)
(* keeps each for sender_recover_min_time so that it can be sent again;    *)
(* seq_index, that finds a kept packet; and the queue of retries that      *)
(* rist_retry_enqueue fills for the NACKs that come in and                 *)
(* sender_send_nacks empties.                                              *)
(*                                                                         *)
(* The application thread and the protocol thread share the ring under     *)
(* queue_lock: the protocol thread holds it for one pass, which sends      *)
(* packets first (stage "data") and then retries (stage "nacks").  NACKs   *)
(* are received between passes.  An instant is kept as its age.            *)
(***************************************************************************)
EXTENDS Integers, FiniteSets

CONSTANTS
  QueueMax,     \* sender_queue_max, a power of two
  SeqSpace,     \* 2^16, or 2^32 in the Advanced profile
  IndexSize,    \* the entries of seq_index that are used
  Advanced,     \* the Advanced profile numbers a packet when it is sent
  MinTime,      \* sender_recover_min_time
  ShrinkTime,   \* sender_recover_min_time * 1.1
  MaxData,      \* max_dataperloop
  RetryMax,     \* sender_retry_queue_size
  RetryTime,    \* config.recovery_length_max
  Rtt,          \* the spacing of requests for one packet, 0 without congestion
                \* control
  Search,       \* 4 * Rtt: retries older than this are not searched
  MaxCount,     \* config.max_retries
  MaxNacks,     \* max_nacksperloop
  FifoLimit,    \* packets in the ring that stop the retries
  None          \* no buffer, no peer, no instant

CONSTANTS       \* the environment and its bounds
  Peers,        \* the peers there may be
  MaxFlaps,     \* peers created and destroyed
  MaxBurst,     \* packets written in one unit of time
  NackWindow    \* a NACK asks for one of so many last packets

ASSUME QueueAssumption ==
  /\ QueueMax \in Nat /\ QueueMax >= 2
  /\ SeqSpace \in Nat \ {0} /\ IndexSize \in Nat \ {0} /\ Advanced \in BOOLEAN
  /\ MinTime \in Nat \ {0} /\ ShrinkTime \in Nat /\ ShrinkTime >= MinTime
  /\ MaxData \in Nat /\ RetryMax \in Nat /\ RetryMax >= 2
  /\ RetryTime \in Nat /\ Rtt \in Nat /\ Search \in Nat /\ Rtt <= Search
  /\ MaxCount \in Nat
  /\ MaxNacks \in Nat \ {0} /\ FifoLimit \in Nat \ {0}
  /\ MaxFlaps \in Nat /\ MaxBurst \in Nat /\ NackWindow \in Nat

Slots  == 0 .. QueueMax - 1
Seqs   == 0 .. SeqSpace - 1
Turns  == 0 .. RetryMax - 1
\* The largest ages that are told apart.
OldPacket == ShrinkTime + 1
OldRetry  == IF Search < RetryTime THEN RetryTime + 1 ELSE Search + 1

\* A packet: its number, age, the age of last_retry_request, retry_queued and
\* transmit_count.
Buffers == [seq : Seqs, age : 0 .. OldPacket, asked : (0 .. Rtt) \cup {None},
            queued : BOOLEAN, count : 0 .. MaxCount]
Retries == [seq : Seqs, peer : Peers \cup {None}, age : 0 .. OldRetry,
            active : BOOLEAN]

ASSUME NoneAssumption == None \notin Buffers /\ None \notin Peers
                         /\ None \notin Int

VARIABLES
  queue, write, read,    \* sender_queue and its indices
  size,                  \* sender_queue_size
  bufferSize,            \* sender_buffer_size
  nextSeq,               \* common.seq_rtp, or common.seq
  lastSent,              \* the number of the last packet sent
  seqIndex,              \* seq_index
  retries, retryWrite, retryRead,
  peers,                 \* peer_lst
  stage, todo,           \* the pass of the protocol thread
  due,                   \* nacks_next_time has come
  burst, flaps

ring  == <<queue, write, read, size, bufferSize, nextSeq, lastSent, seqIndex>>
retry == <<retries, retryWrite, retryRead>>
env   == <<peers, burst, flaps>>
vars  == <<ring, retry, env, stage, todo, due>>

TypeOK ==
  /\ queue \in [Slots -> Buffers \cup {None}]
  /\ write \in Slots /\ read \in Slots
  /\ size \in 0 .. QueueMax - 1 /\ bufferSize \in 0 .. QueueMax - 1
  /\ nextSeq \in Seqs /\ lastSent \in Seqs \cup {None}
  /\ seqIndex \in [0 .. IndexSize - 1 -> Slots]
  /\ retries \in [Turns -> Retries]
  /\ retryWrite \in Turns /\ retryRead \in Turns
  /\ peers \subseteq Peers /\ stage \in {"idle", "data", "nacks"}
  /\ todo \in 0 .. MaxData + MaxNacks + 1 /\ due \in BOOLEAN
  /\ burst \in 0 .. MaxBurst /\ flaps \in 0 .. MaxFlaps

Init ==
  /\ queue = [i \in Slots |-> None] /\ write = 1 /\ read = 0
  /\ size = 0 /\ bufferSize = 0
  /\ nextSeq = 0 /\ lastSent = None
  /\ seqIndex = [s \in 0 .. IndexSize - 1 |-> 0]
  /\ retries = [t \in Turns |->
                  [seq |-> 0, peer |-> None, age |-> OldRetry, active |-> FALSE]]
  /\ retryWrite = 1 /\ retryRead = 0
  /\ peers \in SUBSET Peers /\ stage = "idle" /\ todo = 0 /\ due = FALSE
  /\ burst = 0 /\ flaps = 0

Next1(i)  == (i + 1) % QueueMax
Turn1(t)  == (t + 1) % RetryMax
IndexOf(s) == seqIndex[s % IndexSize]
\* Mutant: a packet is taken for the slot that tells a full ring from an empty one.
FullLate  == size >= QueueMax
Full      == size >= QueueMax - 1

-----------------------------------------------------------------------------
(* rist_sender_data_write, rist_sender_enqueue.                            *)

\* A packet that is refused has used up its number.
Write ==
  /\ stage = "idle" /\ burst < MaxBurst
  /\ burst' = burst + 1
  /\ nextSeq' = IF Advanced THEN nextSeq ELSE (nextSeq + 1) % SeqSpace
  /\ IF peers = {} \/ Full
     THEN UNCHANGED <<queue, write, size>>
     ELSE /\ queue' = [queue EXCEPT ![write] =
               [seq |-> IF Advanced THEN 0 ELSE nextSeq, age |-> 0,
                asked |-> None, queued |-> FALSE, count |-> 0]]
          /\ write' = Next1(write)
          /\ size' = size + 1
  /\ UNCHANGED <<read, bufferSize, lastSent, seqIndex, retry, peers, flaps,
                 stage, todo, due>>

-----------------------------------------------------------------------------
(* sender_send_data.                                                       *)

BeginPass ==
  /\ stage = "idle" /\ size > 0
  /\ stage' = "data" /\ todo' = MaxData + 1
  /\ UNCHANGED <<ring, retry, env, due>>

\* The oldest packet kept after b of them, when the next has been sent.
Oldest(b) == (read + 1 - b) % QueueMax
Young(i)  == queue[i].age < MinTime

\* What the loop at the end frees, and the new sender_buffer_size: nothing and
\* one more while the oldest is young; the oldest; or, to shrink, the two oldest.
\* Mutant: the second of the two is not looked at.
FreedEarly ==
  LET first  == Oldest(bufferSize)
      second == Oldest(bufferSize - 1)
  IN IF queue[first] = None \/ Young(first) THEN {}
     ELSE IF bufferSize = 0 \/ queue[first].age <= ShrinkTime \/ size = 1
     THEN {first}
     ELSE {first, second}
Freed ==
  LET first  == Oldest(bufferSize)
      second == Oldest(bufferSize - 1)
  IN IF queue[first] = None \/ Young(first) THEN {}
     ELSE IF bufferSize = 0 \/ queue[first].age <= ShrinkTime THEN {first}
     ELSE IF size = 1 \/ Young(second) THEN {first}
     ELSE {first, second}
\* Mutant: the ring does not shrink.
ResizedUp ==
  LET first == Oldest(bufferSize)
  IN IF queue[first] # None /\ Young(first) /\ bufferSize < QueueMax - 1
     THEN bufferSize + 1 ELSE bufferSize
Resized ==
  LET first  == Oldest(bufferSize)
      second == Oldest(bufferSize - 1)
  IN IF queue[first] = None THEN bufferSize
     ELSE IF Young(first)
     THEN IF bufferSize < QueueMax - 1 THEN bufferSize + 1 ELSE bufferSize
     ELSE IF bufferSize = 0 \/ queue[first].age <= ShrinkTime THEN bufferSize
     ELSE IF size > 1 /\ Young(second) THEN bufferSize
     ELSE bufferSize - 1

\* Mutant: the entry gets the slot read before this packet.
IndexedBefore(s) == [seqIndex EXCEPT ![s % IndexSize] = read]
Indexed(s)       == [seqIndex EXCEPT ![s % IndexSize] = Next1(read)]

\* rist_sender_send_data_balanced numbers the packet in the Advanced profile.
SendOne ==
  LET i == Next1(read)
      s == IF Advanced THEN nextSeq ELSE queue[i].seq
  IN /\ stage = "data" /\ todo > 0 /\ i # write
     /\ read' = i /\ todo' = todo - 1
     /\ queue' = [k \in Slots |-> IF k \in Freed THEN None
                                  ELSE IF k = i THEN [queue[k] EXCEPT !.seq = s]
                                  ELSE queue[k]]
     /\ size' = size - Cardinality(Freed)
     /\ bufferSize' = Resized
     /\ nextSeq' = IF Advanced THEN (nextSeq + 1) % SeqSpace ELSE nextSeq
     /\ lastSent' = s
     /\ seqIndex' = Indexed(s)
     /\ UNCHANGED <<write, retry, env, stage, due>>

EndData ==
  /\ stage = "data" /\ (todo = 0 \/ Next1(read) = write)
  /\ IF due THEN stage' = "nacks" /\ todo' = MaxNacks
            ELSE stage' = "idle" /\ todo' = 0
  /\ UNCHANGED <<ring, retry, env, due>>

-----------------------------------------------------------------------------
(* rist_sender_recv_nack, rist_retry_enqueue.                              *)

\* The retry a new request is compared with: the last one of the same peer for
\* the same packet, if none older than Search is met before it.
LastRetry(p, s) ==
  LET back(d) == retries[(retryWrite - d) % RetryMax]
      stops(d) == d = RetryMax \/ back(d).age > Search
                  \/ (back(d).seq = s /\ back(d).peer = p)
      first == CHOOSE d \in 1 .. RetryMax :
                 stops(d) /\ \A k \in 1 .. d - 1 : ~stops(k)
  IN back(first)

\* Whether a request for the packet b is refused.
\* Mutant: however short ago the one before was taken.
RefusedQueued(p, s, b) ==
  /\ Rtt > 0
  /\ IF Cardinality(peers) = 1 THEN b.queued
     ELSE LET r == LastRetry(p, s) IN r.seq = s /\ r.peer = p /\ r.active
Refused(p, s, b) ==
  /\ Rtt > 0
  /\ IF Cardinality(peers) = 1
     THEN b.queued \/ (b.asked # None /\ b.asked < Rtt)
     ELSE LET r == LastRetry(p, s)
          IN r.seq = s /\ r.peer = p /\ (r.active \/ r.age < Rtt)

RecvNack(p, s) ==
  LET i == IndexOf(s)
      b == queue[i]
  IN /\ stage = "idle" /\ p \in peers
     /\ lastSent # None /\ (lastSent - s) % SeqSpace < NackWindow
     /\ b # None /\ ~Refused(p, s, b)
     /\ queue' = [queue EXCEPT ![i].asked = 0,
           ![i].queued = @ \/ (Rtt > 0 /\ Cardinality(peers) = 1 /\ b.asked # None)]
     /\ retries' = [retries EXCEPT ![retryWrite] =
           [seq |-> s, peer |-> p, age |-> 0, active |-> TRUE]]
     /\ retryWrite' = Turn1(retryWrite)
     /\ UNCHANGED <<write, read, size, bufferSize, nextSeq, lastSent, seqIndex,
                    retryRead, env, stage, todo, due>>

-----------------------------------------------------------------------------
(* sender_send_nacks, rist_retry_dequeue.                                  *)

\* write - read as an unsigned number, & sender_queue_max.
QueuedItems == IF write < read THEN QueueMax ELSE 0
Waiting     == Turn1(retryRead) # retryWrite
Serving     == todo > 0 /\ QueuedItems < FifoLimit /\ Waiting

Finds(r)    == LET b == queue[IndexOf(r.seq)]
               IN r.peer # None /\ b # None /\ b.seq = r.seq

\* The peer of the retry was destroyed, or its packet is no longer kept.
SkipRetry ==
  LET t == Turn1(retryRead)
      r == retries[t]
  IN /\ stage = "nacks" /\ Serving /\ ~Finds(r)
     /\ retryRead' = t
     /\ retries' = [retries EXCEPT ![t].active = @ /\ r.peer # None]
     /\ UNCHANGED <<ring, retryWrite, env, stage, todo, due>>

\* The packet is sent again, or not: there is no bandwidth, or it waited or was
\* sent too often already.
SendRetry(sends) ==
  LET t == Turn1(retryRead)
      r == retries[t]
      i == IndexOf(r.seq)
      b == queue[i]
  IN /\ stage = "nacks" /\ Serving /\ Finds(r)
     /\ sends => r.age <= RetryTime /\ b.count < MaxCount
     /\ retryRead' = t
     /\ retries' = [retries EXCEPT ![t].active = FALSE]
     /\ queue' = [queue EXCEPT ![i].queued = FALSE,
                               ![i].count = IF sends THEN @ + 1 ELSE @]
     /\ todo' = IF sends THEN todo - 1 ELSE todo
     /\ UNCHANGED <<write, read, size, bufferSize, nextSeq, lastSent, seqIndex,
                    retryWrite, env, stage, due>>

EndNacks ==
  /\ stage = "nacks" /\ ~Serving
  /\ stage' = "idle" /\ todo' = 0 /\ due' = FALSE
  /\ UNCHANGED <<ring, retry, env>>

-----------------------------------------------------------------------------
(* The environment.                                                        *)

Destroy(p) ==
  /\ stage = "idle" /\ p \in peers /\ flaps < MaxFlaps
  /\ peers' = peers \ {p} /\ flaps' = flaps + 1
  /\ retries' = [t \in Turns |-> IF retries[t].peer = p
                   THEN [retries[t] EXCEPT !.peer = None, !.active = FALSE]
                   ELSE retries[t]]
  /\ UNCHANGED <<ring, retryWrite, retryRead, burst, stage, todo, due>>

Create(p) ==
  /\ stage = "idle" /\ p \notin peers /\ flaps < MaxFlaps
  /\ peers' = peers \cup {p} /\ flaps' = flaps + 1
  /\ UNCHANGED <<ring, retry, burst, stage, todo, due>>

\* The loop of the protocol thread runs more often than time is counted here.
Older(age, most) == IF age < most THEN age + 1 ELSE most
Tick ==
  /\ stage = "idle" /\ (~due \/ size = 0)
  /\ due' = TRUE /\ burst' = 0
  /\ queue' = [i \in Slots |-> IF queue[i] = None THEN None
                 ELSE [queue[i] EXCEPT !.age = Older(@, OldPacket),
                         !.asked = IF @ = None THEN None ELSE Older(@, Rtt)]]
  /\ retries' = [t \in Turns |-> [retries[t] EXCEPT !.age = Older(@, OldRetry)]]
  /\ UNCHANGED <<write, read, size, bufferSize, nextSeq, lastSent, seqIndex,
                 retryWrite, retryRead, peers, flaps, stage, todo>>

Pass == \/ BeginPass \/ SendOne \/ EndData
        \/ SkipRetry \/ (\E sends \in BOOLEAN : SendRetry(sends)) \/ EndNacks

Next ==
  \/ Write \/ Pass \/ Tick
  \/ \E p \in Peers : \/ \E s \in Seqs : RecvNack(p, s)
                      \/ Destroy(p) \/ Create(p)

Spec == Init /\ [][Next]_vars
\* The protocol thread goes on and time passes; the application may stop.
FairSpec == Spec /\ WF_vars(Pass) /\ WF_vars(Tick)

-----------------------------------------------------------------------------
(* Properties.                                                             *)

\* The ring from the oldest packet kept on: bufferSize that were sent, the last
\* of them in slot read, then those still to be sent.
Unsent      == (write - read - 1) % QueueMax
IsKept(i)   == (read - i) % QueueMax < bufferSize
IsUnsent(i) == (i - read - 1) % QueueMax < Unsent

\* sender_queue_size counts the packets of the ring, and sender_buffer_size
\* marks where they begin.  So sender_send_data never finds an empty block to
\* send ("This should never happen!"), overwrites none, and the loop that
\* shrinks the ring finds the two packets it frees.
RingExact ==
  /\ size = bufferSize + Unsent
  /\ \A i \in Slots : queue[i] # None <=> IsKept(i) \/ IsUnsent(i)

\* A packet is freed after it was sent and only when it is too old for any
\* receiver to ask for.
Retained ==
  [][\A i \in Slots : queue[i] # None /\ queue'[i] = None =>
       queue[i].age >= MinTime /\ (IsUnsent(i) => i = Next1(read))]_ring

\* Until then a request for it finds it.
Found ==
  \A i \in Slots : IsKept(i) /\ Young(i) => IndexOf(queue[i].seq) = i

\* No two requests for one packet and peer are taken within an RTT, "a safety
\* check to protect against buggy or non compliant receivers".
Paced ==
  [][retryWrite' # retryWrite =>
       \A t \in Turns :
         (/\ retries[t].peer = retries'[retryWrite].peer
          /\ retries[t].seq = retries'[retryWrite].seq) => retries[t].age >= Rtt]_vars

\* "Sender queue is full, dropping packet, decrease bitrate, buffer time length
\* or increase packet size": the ring does not stay full, so that a sender
\* whose application goes on writing takes packets again.
Resumes == []<><<Write>>_vars => []<>~Full
=====================
