------------------------- MODULE SenderQueueProofs -------------------------
(***************************************************************************)
(* For a ring of any size, any number of peers and any limits: the indices *)
(* and the two sizes of a sender describe its ring exactly, and a packet   *)
(* is freed only after it was sent and when it is old.                     *)
(***************************************************************************)
EXTENDS SenderQueue, FiniteSetTheorems, WellFoundedInduction, TLAPS

-----------------------------------------------------------------------------
(* The arithmetic of the ring's indices.                                   *)

\* The slot after i wraps at the end.
LEMMA NextWraps ==
  ASSUME NEW n \in Nat \ {0}, NEW i \in 0 .. n - 1
  PROVE  (i + 1) % n = IF i = n - 1 THEN 0 ELSE i + 1
BY SMT

\* How far i is in front of j, and how many slots lie between them.
LEMMA Distance ==
  ASSUME NEW n \in Nat \ {0}, NEW i \in 0 .. n - 1, NEW j \in 0 .. n - 1
  PROVE  /\ (i - j) % n = IF j <= i THEN i - j ELSE i - j + n
         /\ (i - j - 1) % n = IF j < i THEN i - j - 1 ELSE i - j - 1 + n
BY SMT

\* The slot b behind the one after i.
LEMMA Behind ==
  ASSUME NEW n \in Nat \ {0}, NEW i \in 0 .. n - 1, NEW b \in 0 .. n - 1
  PROVE  (i + 1 - b) % n = IF i + 1 < b THEN i + 1 - b + n
                           ELSE IF i + 1 - b >= n THEN i + 1 - b - n
                           ELSE i + 1 - b
BY SMT

\* A remainder is in range.
LEMMA InRange ==
  ASSUME NEW n \in Nat \ {0}, NEW x \in Int
  PROVE  x % n \in 0 .. n - 1
BY SMT

-----------------------------------------------------------------------------
(* The invariant.                                                          *)

\* RingExact is inductive together with the types.
QueueInv == TypeOK /\ RingExact

\* The constants the steps need again and again.
LEMMA Sorts ==
  /\ QueueMax \in Nat \ {0} /\ QueueMax >= 2
  /\ SeqSpace \in Nat \ {0} /\ RetryMax \in Nat \ {0}
  /\ OldPacket \in Nat /\ OldRetry \in Nat
BY QueueAssumption DEF OldPacket, OldRetry

\* The indices and sizes are small numbers.
LEMMA Indices ==
  ASSUME TypeOK
  PROVE  /\ write \in 0 .. QueueMax - 1 /\ read \in 0 .. QueueMax - 1
         /\ size \in 0 .. QueueMax - 1 /\ bufferSize \in 0 .. QueueMax - 1
BY DEF TypeOK, Slots

\* The next slot, the next turn and the next number are in range.
LEMMA NextInRange ==
  /\ \A i \in Slots : Next1(i) \in Slots
  /\ \A t \in Turns : Turn1(t) \in Turns
  /\ \A s \in Seqs : (s + 1) % SeqSpace \in Seqs
<1>1. ASSUME NEW i \in Slots PROVE Next1(i) \in Slots
  <2>1. i + 1 \in Int
    BY Sorts DEF Slots
  <2> QED BY <2>1, Sorts, InRange DEF Slots, Next1
<1>2. ASSUME NEW t \in Turns PROVE Turn1(t) \in Turns
  <2>1. t + 1 \in Int
    BY Sorts DEF Turns
  <2> QED BY <2>1, Sorts, InRange DEF Turns, Turn1
<1>3. ASSUME NEW s \in Seqs PROVE (s + 1) % SeqSpace \in Seqs
  <2>1. s + 1 \in Int
    BY Sorts DEF Seqs
  <2> QED BY <2>1, Sorts, InRange DEF Seqs
<1> QED BY <1>1, <1>2, <1>3

\* The marks of a ring in linear arithmetic.
LEMMA Marks ==
  ASSUME NEW w \in 0 .. QueueMax - 1, NEW r \in 0 .. QueueMax - 1
  PROVE  /\ (w - r - 1) % QueueMax =
              IF r < w THEN w - r - 1 ELSE w - r - 1 + QueueMax
         /\ \A i \in Slots :
              /\ (r - i) % QueueMax = IF i <= r THEN r - i ELSE r - i + QueueMax
              /\ (i - r - 1) % QueueMax =
                   IF r < i THEN i - r - 1 ELSE i - r - 1 + QueueMax
<1>1. (w - r - 1) % QueueMax = IF r < w THEN w - r - 1 ELSE w - r - 1 + QueueMax
  BY Sorts, Distance
<1>2. ASSUME NEW i \in Slots
      PROVE  /\ (r - i) % QueueMax = IF i <= r THEN r - i ELSE r - i + QueueMax
             /\ (i - r - 1) % QueueMax =
                  IF r < i THEN i - r - 1 ELSE i - r - 1 + QueueMax
  <2>1. i \in 0 .. QueueMax - 1
    BY DEF Slots
  <2>2. (r - i) % QueueMax = IF i <= r THEN r - i ELSE r - i + QueueMax
    BY <2>1, Sorts, Distance
  <2>3. (i - r - 1) % QueueMax =
          IF r < i THEN i - r - 1 ELSE i - r - 1 + QueueMax
    BY <2>1, Sorts, Distance
  <2> QED BY <2>2, <2>3
<1> QED BY <1>1, <1>2

\* An empty ring.
LEMMA QueueStarts == ASSUME Init PROVE QueueInv
<1>1. TypeOK
  <2>1. [seq |-> 0, peer |-> None, age |-> OldRetry, active |-> FALSE] \in Retries
    BY Sorts DEF Retries, Seqs
  <2>2. retries \in [Turns -> Retries]
    BY <2>1 DEF Init
  <2>3. seqIndex \in [0 .. IndexSize - 1 -> Slots]
    BY Sorts DEF Init, Slots
  <2>4. /\ write \in Slots /\ read \in Slots
        /\ size \in 0 .. QueueMax - 1 /\ bufferSize \in 0 .. QueueMax - 1
        /\ nextSeq \in Seqs /\ retryWrite \in Turns /\ retryRead \in Turns
    BY QueueAssumption DEF Init, Slots, Seqs, Turns
  <2>5. /\ todo \in 0 .. MaxData + MaxNacks + 1 /\ burst \in 0 .. MaxBurst
        /\ flaps \in 0 .. MaxFlaps
    BY QueueAssumption DEF Init
  <2>6. /\ queue \in [Slots -> Buffers \cup {None}] /\ lastSent \in Seqs \cup {None}
        /\ peers \subseteq Peers /\ stage \in {"idle", "data", "nacks"}
        /\ due \in BOOLEAN
    BY DEF Init
  <2> QED
    BY <2>2, <2>3, <2>4, <2>5, <2>6 DEF TypeOK
<1>2. Unsent = 0
  <2>1. (1 - 0 - 1) % QueueMax = 0
    BY Sorts
  <2> QED BY <2>1 DEF Init, Unsent
<1>3. \A i \in Slots : ~IsKept(i) /\ ~IsUnsent(i)
  BY <1>1, <1>2, Indices, Marks, Sorts DEF Init, IsKept, IsUnsent, Slots
<1>4. RingExact
  BY <1>2, <1>3 DEF Init, RingExact
<1> QED
  BY <1>1, <1>4 DEF QueueInv

\* A step that leaves the indices, the sizes and which slots are filled keeps
\* what relates them.
LEMMA RingKept ==
  ASSUME RingExact,
         write' = write, read' = read, size' = size, bufferSize' = bufferSize,
         \A i \in Slots : queue'[i] # None <=> queue[i] # None
  PROVE  RingExact'
BY DEF RingExact, Unsent, IsKept, IsUnsent

-----------------------------------------------------------------------------
(* The application writes.                                                 *)

\* The slot to write to is free, and is the last of those to be sent.
LEMMA WriteRing ==
  ASSUME RingExact, TypeOK, size < QueueMax - 1, size' = size + 1,
         write' = Next1(write), read' = read, bufferSize' = bufferSize,
         NEW b \in Buffers, queue' = [queue EXCEPT ![write] = b]
  PROVE  RingExact'
<1>1. write' = IF write = QueueMax - 1 THEN 0 ELSE write + 1
  BY Indices, Sorts, NextWraps DEF Next1
<1>2. write' \in 0 .. QueueMax - 1
  BY <1>1, Indices, Sorts
<1>3. Unsent = IF read < write THEN write - read - 1 ELSE write - read - 1 + QueueMax
  BY Indices, Marks DEF Unsent
<1>4. Unsent' = IF read < write' THEN write' - read - 1
                ELSE write' - read - 1 + QueueMax
  BY <1>2, Indices, Marks DEF Unsent
<1>5. size = bufferSize + Unsent
  BY DEF RingExact
<1>6. Unsent' = Unsent + 1
  BY <1>1, <1>3, <1>4, <1>5, Indices, Sorts
<1>7. ASSUME NEW i \in Slots
      PROVE  queue'[i] # None <=> IsKept(i)' \/ IsUnsent(i)'
  <2>1. /\ (read - i) % QueueMax = IF i <= read THEN read - i
                                   ELSE read - i + QueueMax
        /\ (i - read - 1) % QueueMax = IF read < i THEN i - read - 1
                                       ELSE i - read - 1 + QueueMax
    BY Indices, Marks
  <2>2. IsKept(i)' <=> IsKept(i)
    BY DEF IsKept
  <2>3. IsUnsent(i)' <=> (i - read - 1) % QueueMax < Unsent + 1
    BY <1>6 DEF IsUnsent
  <2>4. IsUnsent(i) <=> (i - read - 1) % QueueMax < Unsent
    BY DEF IsUnsent
  <2>5. i \in 0 .. QueueMax - 1
    BY DEF Slots
  <2>6. IsUnsent(i)' <=> IsUnsent(i) \/ i = write
    BY <1>3, <2>1, <2>3, <2>4, <2>5, Indices, Sorts
  <2>7. queue'[i] # None <=> queue[i] # None \/ i = write
    BY NoneAssumption DEF TypeOK
  <2>8. queue[i] # None <=> IsKept(i) \/ IsUnsent(i)
    BY DEF RingExact
  <2> QED BY <2>2, <2>6, <2>7, <2>8
<1>8. size' = bufferSize' + Unsent'
  BY <1>3, <1>5, <1>6, Indices, Sorts
<1> QED
  BY <1>7, <1>8 DEF RingExact

\* rist_sender_enqueue takes the packet or refuses it.
LEMMA WriteKeeps == ASSUME QueueInv, Write PROVE QueueInv'
<1>1. TypeOK /\ RingExact
  BY DEF QueueInv
<1>2. /\ burst' = burst + 1 /\ burst < MaxBurst
      /\ nextSeq' = IF Advanced THEN nextSeq ELSE (nextSeq + 1) % SeqSpace
      /\ UNCHANGED <<read, bufferSize, lastSent, seqIndex, retries, retryWrite,
                     retryRead, peers, flaps, stage, todo, due>>
  BY DEF Write, retry
<1>3. nextSeq' \in Seqs
  BY <1>1, <1>2, NextInRange DEF TypeOK
<1>4. burst' \in 0 .. MaxBurst
  <2>1. burst \in 0 .. MaxBurst
    BY <1>1 DEF TypeOK
  <2> QED BY <1>2, <2>1, QueueAssumption
<1>5. CASE peers = {} \/ Full
  <2>1. queue' = queue /\ write' = write /\ size' = size
    BY <1>5 DEF Write
  <2>2. TypeOK'
    BY <1>1, <1>2, <1>3, <1>4, <2>1 DEF TypeOK
  <2> QED
    BY <1>1, <1>2, <2>1, <2>2, RingKept DEF QueueInv
<1>6. CASE ~(peers = {} \/ Full)
  <2> DEFINE b == [seq |-> IF Advanced THEN 0 ELSE nextSeq, age |-> 0,
                   asked |-> None, queued |-> FALSE, count |-> 0]
  <2>1. /\ queue' = [queue EXCEPT ![write] = b]
        /\ write' = Next1(write) /\ size' = size + 1
    BY <1>6 DEF Write
  <2>2. size < QueueMax - 1
    BY <1>1, <1>6, Indices, Sorts DEF Full
  <2>3. b \in Buffers
    <3>1. nextSeq \in Seqs /\ 0 \in Seqs /\ 0 \in 0 .. MaxCount
      BY <1>1, Sorts, QueueAssumption DEF TypeOK, Seqs
    <3> QED BY <3>1, Sorts DEF Buffers
  <2> HIDE DEF b
  <2>4. RingExact'
    BY <1>1, <1>2, <2>1, <2>2, <2>3, WriteRing
  <2>5. write' \in Slots /\ size' \in 0 .. QueueMax - 1
    <3>1. write \in Slots
      BY <1>1 DEF TypeOK
    <3> QED BY <1>1, <2>1, <2>2, <3>1, Indices, NextInRange, Sorts
  <2>6. queue' \in [Slots -> Buffers \cup {None}]
    BY <1>1, <2>1, <2>3 DEF TypeOK
  <2>7. TypeOK'
    BY <1>1, <1>2, <1>3, <1>4, <2>5, <2>6 DEF TypeOK
  <2> QED BY <2>4, <2>7 DEF QueueInv
<1> QED BY <1>5, <1>6

-----------------------------------------------------------------------------
(* The protocol thread sends.                                              *)

\* The oldest packet that is kept, once the next one has been sent, is there;
\* so is the one after it when the ring shrinks.
LEMMA OldestSlots ==
  ASSUME TypeOK, RingExact, Next1(read) # write
  PROVE  LET first  == Oldest(bufferSize)
             second == Oldest(bufferSize - 1)
             q == QueueMax
         IN /\ first \in Slots
            /\ Unsent >= 1 /\ bufferSize < QueueMax - 1 /\ size >= bufferSize + 1
            /\ first = IF read + 1 < bufferSize THEN read + 1 - bufferSize + q
                       ELSE IF read + 1 - bufferSize >= q THEN 0
                       ELSE read + 1 - bufferSize
            /\ bufferSize > 0 =>
                 /\ second \in Slots
                 /\ second = IF read + 2 < bufferSize
                             THEN read + 2 - bufferSize + q
                             ELSE IF read + 2 - bufferSize >= q
                             THEN read + 2 - bufferSize - q
                             ELSE read + 2 - bufferSize
            /\ queue[first] # None
<1> DEFINE first == Oldest(bufferSize)
           second == Oldest(bufferSize - 1)
<1>1. Next1(read) = IF read = QueueMax - 1 THEN 0 ELSE read + 1
  BY Indices, Sorts, NextWraps DEF Next1
<1>2. Unsent = IF read < write THEN write - read - 1 ELSE write - read - 1 + QueueMax
  BY Indices, Marks DEF Unsent
<1>3. size = bufferSize + Unsent
  BY DEF RingExact
<1>4. Unsent >= 1 /\ bufferSize < QueueMax - 1 /\ size >= bufferSize + 1
  BY <1>1, <1>2, <1>3, Indices, Sorts
<1>5. first = IF read + 1 < bufferSize THEN read + 1 - bufferSize + QueueMax
              ELSE IF read + 1 - bufferSize >= QueueMax THEN 0
              ELSE read + 1 - bufferSize
  <2>1. first = IF read + 1 < bufferSize THEN read + 1 - bufferSize + QueueMax
                ELSE IF read + 1 - bufferSize >= QueueMax
                THEN read + 1 - bufferSize - QueueMax
                ELSE read + 1 - bufferSize
    BY Indices, Sorts, Behind DEF Oldest
  <2> QED BY <2>1, Indices, Sorts
<1>6. ASSUME bufferSize > 0
      PROVE  second = IF read + 2 < bufferSize THEN read + 2 - bufferSize + QueueMax
                      ELSE IF read + 2 - bufferSize >= QueueMax
                      THEN read + 2 - bufferSize - QueueMax
                      ELSE read + 2 - bufferSize
  <2>1. bufferSize - 1 \in 0 .. QueueMax - 1
    BY <1>6, Indices, Sorts
  <2>2. second = IF read + 1 < bufferSize - 1
                 THEN read + 1 - (bufferSize - 1) + QueueMax
                 ELSE IF read + 1 - (bufferSize - 1) >= QueueMax
                 THEN read + 1 - (bufferSize - 1) - QueueMax
                 ELSE read + 1 - (bufferSize - 1)
    BY <2>1, Indices, Sorts, Behind DEF Oldest
  <2> QED BY <2>2, Indices, Sorts
<1> HIDE DEF first, second
<1>7. first \in Slots
  BY <1>4, <1>5, Indices, Sorts DEF Slots
<1>8. bufferSize > 0 => second \in Slots
  BY <1>4, <1>6, Indices, Sorts DEF Slots
<1>9. queue[first] # None
  <2> DEFINE kept   == (read - first) % QueueMax
             unsent == (first - read - 1) % QueueMax
  <2>1. /\ kept = IF first <= read THEN read - first ELSE read - first + QueueMax
        /\ unsent = IF read < first THEN first - read - 1
                    ELSE first - read - 1 + QueueMax
    BY <1>7, Indices, Marks
  <2> HIDE DEF kept, unsent
  <2>2. kept < bufferSize \/ unsent < Unsent
    BY <1>2, <1>4, <1>5, <2>1, Indices, Sorts
  <2>3. IsKept(first) \/ IsUnsent(first)
    BY <2>2 DEF IsKept, IsUnsent, kept, unsent
  <2> QED BY <1>7, <2>3 DEF RingExact
<1> QED
  BY <1>4, <1>5, <1>6, <1>7, <1>8, <1>9 DEF first, second

\* The three ways the loop ends: the ring of sent packets grows by one, keeps
\* its size, or shrinks by one.
LEMMA ThreeWays ==
  ASSUME TypeOK, RingExact, Next1(read) # write
  PROVE  LET first  == Oldest(bufferSize)
             second == Oldest(bufferSize - 1)
         IN \/ Freed = {} /\ Resized = bufferSize + 1
            \/ Freed = {first} /\ Resized = bufferSize /\ ~Young(first)
            \/ /\ bufferSize > 0 /\ Freed = {first, second}
               /\ Resized = bufferSize - 1 /\ ~Young(first) /\ ~Young(second)
<1> DEFINE first == Oldest(bufferSize)
           second == Oldest(bufferSize - 1)
<1>1. /\ queue[first] # None /\ bufferSize < QueueMax - 1
      /\ size >= bufferSize + 1
  BY OldestSlots
<1>2. CASE Young(first)
  BY <1>1, <1>2 DEF Freed, Resized
<1>3. CASE ~Young(first) /\ (bufferSize = 0 \/ queue[first].age <= ShrinkTime)
  BY <1>1, <1>3 DEF Freed, Resized
<1>4. CASE ~Young(first) /\ ~(bufferSize = 0 \/ queue[first].age <= ShrinkTime)
  <2>1. bufferSize > 0 /\ size > 1 /\ size # 1
    BY <1>1, <1>4, Indices
  <2>2. CASE Young(second)
    BY <1>1, <1>4, <2>1, <2>2 DEF Freed, Resized
  <2>3. CASE ~Young(second)
    BY <1>1, <1>4, <2>1, <2>3 DEF Freed, Resized
  <2> QED BY <2>2, <2>3
<1> QED BY <1>2, <1>3, <1>4

\* Where a slot stands in the ring before and after a packet was sent.
LEMMA Moved ==
  ASSUME TypeOK, RingExact, Next1(read) # write, NEW c \in 0 .. QueueMax - 1,
         NEW k \in Slots
  PROVE  LET r == Next1(read)
             kept(b) == (r - k) % QueueMax < b
             unsent  == (k - r - 1) % QueueMax < Unsent - 1
         IN /\ kept(c + 1) <=> k = r \/ (read - k) % QueueMax < c
            /\ unsent <=> IsUnsent(k) /\ k # r
            /\ k = r => IsUnsent(k)
<1> DEFINE r == Next1(read)
           back  == (read - k) % QueueMax
           ahead == (k - read - 1) % QueueMax
           backAfter  == (r - k) % QueueMax
           aheadAfter == (k - r - 1) % QueueMax
<1>1. r = IF read = QueueMax - 1 THEN 0 ELSE read + 1
  BY Indices, Sorts, NextWraps DEF Next1
<1>2. r \in 0 .. QueueMax - 1 /\ k \in 0 .. QueueMax - 1
  BY <1>1, Indices, Sorts DEF Slots
<1>3. Unsent = IF read < write THEN write - read - 1 ELSE write - read - 1 + QueueMax
  BY Indices, Marks DEF Unsent
<1>4. Unsent \in 1 .. QueueMax - 1
  BY <1>1, <1>3, Indices, Sorts
<1> HIDE DEF r
<1>5. /\ back = IF k <= read THEN read - k ELSE read - k + QueueMax
      /\ ahead = IF read < k THEN k - read - 1 ELSE k - read - 1 + QueueMax
      /\ backAfter = IF k <= r THEN r - k ELSE r - k + QueueMax
      /\ aheadAfter = IF r < k THEN k - r - 1 ELSE k - r - 1 + QueueMax
  BY <1>2, Indices, Marks
<1> HIDE DEF back, ahead, backAfter, aheadAfter
<1>6. backAfter < c + 1 <=> k = r \/ back < c
  BY <1>1, <1>2, <1>5, Indices, Sorts
<1>7. aheadAfter < Unsent - 1 <=> ahead < Unsent /\ k # r
  BY <1>1, <1>2, <1>4, <1>5, Indices, Sorts
<1>8. k = r => ahead < Unsent
  BY <1>1, <1>2, <1>4, <1>5, Indices, Sorts
<1> QED
  BY <1>6, <1>7, <1>8 DEF IsUnsent, r, back, ahead, backAfter, aheadAfter

\* The slots the loop looks at are the oldest kept ones, or the one just sent,
\* and no slot is both kept and to be sent.
LEMMA Places ==
  ASSUME TypeOK, RingExact, Next1(read) # write, NEW k \in Slots
  PROVE  LET first  == Oldest(bufferSize)
             second == Oldest(bufferSize - 1)
             back   == (read - k) % QueueMax
         IN /\ bufferSize = 0 => first = Next1(read)
            /\ bufferSize > 0 => (k = first <=> back = bufferSize - 1)
            /\ bufferSize = 1 => second = Next1(read)
            /\ bufferSize > 1 => (k = second <=> back = bufferSize - 2)
            /\ back \in 0 .. QueueMax - 1
            /\ ~(IsKept(k) /\ IsUnsent(k))
<1> DEFINE first == Oldest(bufferSize)
           second == Oldest(bufferSize - 1)
           back  == (read - k) % QueueMax
           ahead == (k - read - 1) % QueueMax
<1>1. Next1(read) = IF read = QueueMax - 1 THEN 0 ELSE read + 1
  BY Indices, Sorts, NextWraps DEF Next1
<1>2. k \in 0 .. QueueMax - 1
  BY DEF Slots
<1>3. Unsent = IF read < write THEN write - read - 1 ELSE write - read - 1 + QueueMax
  BY Indices, Marks DEF Unsent
<1>4. /\ back = IF k <= read THEN read - k ELSE read - k + QueueMax
      /\ ahead = IF read < k THEN k - read - 1 ELSE k - read - 1 + QueueMax
  BY Indices, Marks
<1>5. bufferSize < QueueMax - 1
  BY OldestSlots
<1>6. first = IF read + 1 < bufferSize THEN read + 1 - bufferSize + QueueMax
              ELSE IF read + 1 - bufferSize >= QueueMax THEN 0
              ELSE read + 1 - bufferSize
  BY OldestSlots
<1>7. bufferSize > 0 =>
        second = IF read + 2 < bufferSize THEN read + 2 - bufferSize + QueueMax
                 ELSE IF read + 2 - bufferSize >= QueueMax
                 THEN read + 2 - bufferSize - QueueMax
                 ELSE read + 2 - bufferSize
  BY OldestSlots
<1>8. size = bufferSize + Unsent
  BY DEF RingExact
<1> HIDE DEF first, second, back, ahead
<1>9. back \in 0 .. QueueMax - 1
  BY <1>2, <1>4, Indices, Sorts
<1>10. bufferSize = 0 => first = Next1(read)
  BY <1>1, <1>6, Indices, Sorts
<1>11. bufferSize > 0 => (k = first <=> back = bufferSize - 1)
  BY <1>2, <1>4, <1>5, <1>6, Indices, Sorts
<1>12. bufferSize = 1 => second = Next1(read)
  BY <1>1, <1>7, Indices, Sorts
<1>13. ASSUME bufferSize > 1 PROVE k = second <=> back = bufferSize - 2
  <2>1. second = IF read + 2 < bufferSize THEN read + 2 - bufferSize + QueueMax
                 ELSE read + 2 - bufferSize
    BY <1>7, <1>13, Indices, Sorts
  <2> QED BY <1>2, <1>4, <1>5, <1>13, <2>1, Indices, Sorts
<1>14. ~(back < bufferSize /\ ahead < Unsent)
  BY <1>2, <1>3, <1>4, <1>8, Indices, Sorts
<1> QED
  BY <1>9, <1>10, <1>11, <1>12, <1>13, <1>14
     DEF first, second, back, ahead, IsKept, IsUnsent

\* What is in the ring after a packet was sent is what was there and not freed.
LEMMA SendSlots ==
  ASSUME TypeOK, RingExact, Next1(read) # write, NEW k \in Slots
  PROVE  LET r == Next1(read)
         IN (IsKept(k) \/ IsUnsent(k)) /\ k \notin Freed
              <=> \/ (r - k) % QueueMax < Resized
                  \/ (k - r - 1) % QueueMax < Unsent - 1
<1> DEFINE r == Next1(read)
           first == Oldest(bufferSize)
           second == Oldest(bufferSize - 1)
           back == (read - k) % QueueMax
           backAfter == (r - k) % QueueMax
           unsentAfter == (k - r - 1) % QueueMax < Unsent - 1
<1> SUFFICES (IsKept(k) \/ IsUnsent(k)) /\ k \notin Freed
               <=> backAfter < Resized \/ unsentAfter
  OBVIOUS
<1>1. bufferSize \in 0 .. QueueMax - 1 /\ bufferSize < QueueMax - 1
  BY Indices, OldestSlots
<1>2. /\ bufferSize = 0 => first = r
      /\ bufferSize > 0 => (k = first <=> back = bufferSize - 1)
      /\ bufferSize = 1 => second = r
      /\ bufferSize > 1 => (k = second <=> back = bufferSize - 2)
      /\ back \in 0 .. QueueMax - 1
      /\ ~(back < bufferSize /\ IsUnsent(k))
      /\ IsKept(k) <=> back < bufferSize
  BY Places DEF IsKept
<1>3. /\ unsentAfter <=> IsUnsent(k) /\ k # r
      /\ k = r => IsUnsent(k)
      /\ \A c \in 0 .. QueueMax - 1 : backAfter < c + 1 <=> k = r \/ back < c
  <2>1. ASSUME NEW c \in 0 .. QueueMax - 1
        PROVE  /\ backAfter < c + 1 <=> k = r \/ back < c
               /\ unsentAfter <=> IsUnsent(k) /\ k # r
               /\ k = r => IsUnsent(k)
    BY Moved
  <2> QED BY <1>1, <2>1
<1>4. backAfter \in 0 .. QueueMax - 1
  <2>1. r \in Slots
    BY NextInRange DEF TypeOK
  <2>2. r - k \in Int
    BY <2>1, Sorts DEF Slots
  <2> QED BY <2>2, Sorts, InRange
<1>5. backAfter < bufferSize + 1 <=> k = r \/ back < bufferSize
  BY <1>1, <1>3
<1>6. bufferSize > 0 => (backAfter < bufferSize <=> k = r \/ back < bufferSize - 1)
  <2>1. bufferSize > 0 => /\ bufferSize - 1 \in 0 .. QueueMax - 1
                          /\ (bufferSize - 1) + 1 = bufferSize
    BY <1>1, Sorts
  <2> QED BY <1>3, <2>1
<1>7. bufferSize > 1 =>
        (backAfter < bufferSize - 1 <=> k = r \/ back < bufferSize - 2)
  <2>1. bufferSize > 1 => /\ bufferSize - 2 \in 0 .. QueueMax - 1
                          /\ (bufferSize - 2) + 1 = bufferSize - 1
    BY <1>1, Sorts
  <2> QED BY <1>3, <2>1
<1> HIDE DEF r, first, second, back, backAfter, unsentAfter
<1>8. CASE Freed = {} /\ Resized = bufferSize + 1
  BY <1>2, <1>3, <1>5, <1>8
<1>9. CASE Freed = {first} /\ Resized = bufferSize
  <2>1. CASE bufferSize = 0
    <3>1. ~(back < bufferSize) /\ ~(backAfter < bufferSize)
      BY <1>2, <1>4, <2>1
    <3> QED
      BY <1>2, <1>3, <1>9, <2>1, <3>1
  <2>2. CASE bufferSize > 0
    <3>1. back < bufferSize - 1 <=> back < bufferSize /\ back # bufferSize - 1
      BY <1>1, <1>2
    <3>2. k \notin Freed <=> back # bufferSize - 1
      BY <1>2, <1>9, <2>2
    <3>3. backAfter < Resized <=> k = r \/ back < bufferSize - 1
      BY <1>6, <1>9, <2>2
    <3>4. back = bufferSize - 1 => IsKept(k) /\ ~IsUnsent(k)
      BY <1>1, <1>2
    <3>5. IsKept(k) /\ k \notin Freed <=> back < bufferSize - 1
      BY <1>2, <3>1, <3>2
    <3>6. IsUnsent(k) => k \notin Freed
      BY <3>2, <3>4
    <3> QED
      BY <1>3, <3>3, <3>5, <3>6
  <2> QED BY <1>1, <2>1, <2>2
<1>10. CASE bufferSize > 0 /\ Freed = {first, second} /\ Resized = bufferSize - 1
  <2>1. CASE bufferSize = 1
    <3>1. ~(backAfter < bufferSize - 1)
      BY <1>4, <2>1
    <3>2. back < bufferSize <=> back = bufferSize - 1
      BY <1>2, <2>1
    <3> QED
      BY <1>2, <1>3, <1>10, <2>1, <3>1, <3>2
  <2>2. CASE bufferSize > 1
    <3>1. back < bufferSize - 2
            <=> back < bufferSize /\ back # bufferSize - 1 /\ back # bufferSize - 2
      BY <1>1, <1>2
    <3>2. bufferSize - 2 < bufferSize /\ bufferSize - 1 < bufferSize
      BY <1>1
    <3> QED
      BY <1>2, <1>3, <1>7, <1>10, <2>2, <3>1, <3>2
  <2> QED BY <1>1, <1>10, <2>1, <2>2
<1>11. \/ Freed = {} /\ Resized = bufferSize + 1
       \/ Freed = {first} /\ Resized = bufferSize
       \/ bufferSize > 0 /\ Freed = {first, second} /\ Resized = bufferSize - 1
  BY ThreeWays DEF first, second
<1> QED
  BY <1>8, <1>9, <1>10, <1>11

\* The sizes follow what is freed.
LEMMA FreedCount ==
  ASSUME TypeOK, RingExact, Next1(read) # write
  PROVE  /\ Unsent \in 1 .. QueueMax - 1
         /\ size - Cardinality(Freed) = Resized + (Unsent - 1)
         /\ Resized \in 0 .. QueueMax - 1
         /\ size - Cardinality(Freed) \in 0 .. QueueMax - 1
<1> DEFINE first == Oldest(bufferSize)
           second == Oldest(bufferSize - 1)
<1>1. Unsent \in 1 .. QueueMax - 1 /\ bufferSize < QueueMax - 1
  <2>1. Unsent = IF read < write THEN write - read - 1
                 ELSE write - read - 1 + QueueMax
    BY Indices, Marks DEF Unsent
  <2> QED BY <2>1, OldestSlots, Indices, Sorts
<1>2. size = bufferSize + Unsent
  BY DEF RingExact
<1>3. \/ Cardinality(Freed) = 0 /\ Resized = bufferSize + 1
      \/ Cardinality(Freed) = 1 /\ Resized = bufferSize
      \/ bufferSize > 0 /\ Cardinality(Freed) = 2 /\ Resized = bufferSize - 1
  <2>1. CASE Freed = {} /\ Resized = bufferSize + 1
    BY <2>1, FS_EmptySet
  <2>2. CASE Freed = {first} /\ Resized = bufferSize
    BY <2>2, FS_Singleton
  <2>3. CASE /\ bufferSize > 0 /\ Freed = {first, second}
             /\ Resized = bufferSize - 1
    <3>1. first # second
      <4>1. first \in Slots
        BY OldestSlots
      <4>2. (read - first) % QueueMax = bufferSize - 1
        BY <2>3, <4>1, Places
      <4>3. CASE bufferSize = 1
        <5>1. second = Next1(read) /\ IsKept(first)
          BY <4>1, <4>2, <4>3, Places DEF IsKept
        <5>2. ~IsUnsent(first)
          BY <4>1, <5>1, Places
        <5>3. IsUnsent(Next1(read))
          <6>1. Next1(read) \in Slots /\ 0 \in 0 .. QueueMax - 1
            BY NextInRange, Sorts DEF TypeOK
          <6> QED BY <6>1, Moved
        <5> QED BY <5>1, <5>2, <5>3
      <4>4. CASE bufferSize > 1
        <5>1. bufferSize - 1 # bufferSize - 2
          BY Indices
        <5>2. first = second => (read - first) % QueueMax = bufferSize - 2
          BY <4>1, <4>4, Places
        <5> QED BY <4>2, <5>1, <5>2
      <4> QED BY <2>3, <4>3, <4>4, Indices
    <3>2. Cardinality({first}) = 1 /\ IsFiniteSet({first})
      BY FS_Singleton
    <3>3. Cardinality({first} \cup {second}) = 2
      BY <3>1, <3>2, FS_AddElement
    <3>4. {first, second} = {first} \cup {second}
      OBVIOUS
    <3> QED BY <2>3, <3>3, <3>4
  <2> QED BY <2>1, <2>2, <2>3, ThreeWays
<1>4. Resized \in 0 .. QueueMax - 1
  BY <1>1, <1>3, Indices, Sorts
<1>5. size - Cardinality(Freed) = Resized + (Unsent - 1)
  BY <1>1, <1>2, <1>3, Indices, Sorts
<1>6. size - Cardinality(Freed) \in 0 .. QueueMax - 1
  BY <1>1, <1>2, <1>3, <1>4, <1>5, Indices, Sorts
<1> QED
  BY <1>1, <1>4, <1>5, <1>6

\* The packet that is sent is there, and stays one with the number it gets.
LEMMA SentIsThere ==
  ASSUME QueueInv, SendOne
  PROVE  LET i == Next1(read)
             s == IF Advanced THEN nextSeq ELSE queue[i].seq
         IN /\ i \in Slots /\ queue[i] # None /\ s \in Seqs
            /\ [queue[i] EXCEPT !.seq = s] \in Buffers
<1> DEFINE i == Next1(read)
           s == IF Advanced THEN nextSeq ELSE queue[i].seq
<1>1. TypeOK /\ RingExact
  BY DEF QueueInv
<1>2. i # write
  BY DEF SendOne
<1>3. i \in Slots
  BY <1>1, NextInRange DEF TypeOK
<1>4. queue[i] # None
  <2>1. 0 \in 0 .. QueueMax - 1
    BY Sorts
  <2>2. IsUnsent(i)
    BY <1>1, <1>2, <1>3, <2>1, Moved
  <2> QED BY <1>1, <1>3, <2>2 DEF RingExact
<1>5. queue[i] \in Buffers
  BY <1>1, <1>3, <1>4 DEF TypeOK
<1>6. s \in Seqs
  BY <1>1, <1>5 DEF TypeOK, Buffers
<1>7. [queue[i] EXCEPT !.seq = s] \in Buffers
  BY <1>5, <1>6 DEF Buffers
<1> QED BY <1>3, <1>4, <1>6, <1>7

\* One packet is sent, and what is too old is freed.
LEMMA SendKeeps == ASSUME QueueInv, SendOne PROVE QueueInv'
<1> DEFINE i == Next1(read)
           s == IF Advanced THEN nextSeq ELSE queue[i].seq
<1>1. TypeOK /\ RingExact
  BY DEF QueueInv
<1>2. /\ i # write /\ todo > 0 /\ read' = i /\ todo' = todo - 1
      /\ queue' = [k \in Slots |->
                     IF k \in Freed THEN None
                     ELSE IF k = i THEN [queue[k] EXCEPT !.seq = s] ELSE queue[k]]
      /\ size' = size - Cardinality(Freed) /\ bufferSize' = Resized
      /\ nextSeq' = IF Advanced THEN (nextSeq + 1) % SeqSpace ELSE nextSeq
      /\ lastSent' = s /\ seqIndex' = Indexed(s)
      /\ UNCHANGED <<write, retries, retryWrite, retryRead, peers, burst, flaps,
                     stage, due>>
  BY DEF SendOne, retry, env
<1>3. /\ i \in Slots /\ i \in 0 .. QueueMax - 1 /\ s \in Seqs
      /\ queue[i] # None /\ [queue[i] EXCEPT !.seq = s] \in Buffers
  BY SentIsThere DEF Slots
<1> HIDE DEF s
<1>4. TypeOK'
  <2>1. queue' \in [Slots -> Buffers \cup {None}]
    BY <1>1, <1>2, <1>3 DEF TypeOK
  <2>2. size' \in 0 .. QueueMax - 1 /\ bufferSize' \in 0 .. QueueMax - 1
    BY <1>1, <1>2, FreedCount
  <2>3. nextSeq' \in Seqs
    BY <1>1, <1>2, NextInRange DEF TypeOK
  <2>4. todo' \in 0 .. MaxData + MaxNacks + 1
    <3>1. todo \in 0 .. MaxData + MaxNacks + 1
      BY <1>1 DEF TypeOK
    <3> QED BY <1>2, <3>1, QueueAssumption
  <2>5. seqIndex' \in [0 .. IndexSize - 1 -> Slots]
    BY <1>1, <1>2, <1>3 DEF TypeOK, Indexed
  <2> QED
    BY <1>1, <1>2, <1>3, <2>1, <2>2, <2>3, <2>4, <2>5 DEF TypeOK
<1>5. Unsent' = Unsent - 1
  <2>1. i = IF read = QueueMax - 1 THEN 0 ELSE read + 1
    BY <1>1, Indices, Sorts, NextWraps DEF Next1
  <2>2. Unsent = IF read < write THEN write - read - 1
                 ELSE write - read - 1 + QueueMax
    BY <1>1, Indices, Marks DEF Unsent
  <2>3. (write - i - 1) % QueueMax = IF i < write THEN write - i - 1
                                     ELSE write - i - 1 + QueueMax
    BY <1>1, <1>3, Indices, Marks
  <2>4. Unsent' = (write - i - 1) % QueueMax
    BY <1>2 DEF Unsent
  <2> HIDE DEF i
  <2> QED
    BY <1>1, <1>2, <1>3, <2>1, <2>2, <2>3, <2>4, Indices, Sorts
<1>6. size' = bufferSize' + Unsent'
  BY <1>1, <1>2, <1>5, FreedCount
<1>7. ASSUME NEW k \in Slots
       PROVE  queue'[k] # None <=> IsKept(k)' \/ IsUnsent(k)'
  <2>1. queue'[k] # None <=> queue[k] # None /\ k \notin Freed
    BY <1>2, <1>3, NoneAssumption
  <2>2. queue[k] # None <=> IsKept(k) \/ IsUnsent(k)
    BY <1>1 DEF RingExact
  <2>3. IsKept(k)' <=> (i - k) % QueueMax < Resized
    BY <1>2 DEF IsKept
  <2>4. IsUnsent(k)' <=> (k - i - 1) % QueueMax < Unsent - 1
    BY <1>2, <1>5 DEF IsUnsent
  <2>5. (IsKept(k) \/ IsUnsent(k)) /\ k \notin Freed
          <=> \/ (i - k) % QueueMax < Resized
              \/ (k - i - 1) % QueueMax < Unsent - 1
    BY <1>1, <1>2, SendSlots
  <2> QED BY <2>1, <2>2, <2>3, <2>4, <2>5
<1> QED
  BY <1>4, <1>6, <1>7 DEF QueueInv, RingExact

\* A pass begins, and its parts end.
LEMMA StagesKeep ==
  ASSUME QueueInv, BeginPass \/ EndData \/ EndNacks
  PROVE  QueueInv'
<1>1. TypeOK /\ RingExact
  BY DEF QueueInv
<1>2. /\ UNCHANGED <<queue, write, read, size, bufferSize, nextSeq, lastSent,
                     seqIndex>>
      /\ UNCHANGED <<retries, retryWrite, retryRead, peers, burst, flaps>>
  BY DEF BeginPass, EndData, EndNacks, ring, retry, env
<1>3. stage' \in {"idle", "data", "nacks"} /\ due' \in BOOLEAN
  BY <1>1 DEF BeginPass, EndData, EndNacks, TypeOK
<1>4. todo' \in 0 .. MaxData + MaxNacks + 1
  <2>1. todo' \in {MaxData + 1, MaxNacks, 0}
    BY DEF BeginPass, EndData, EndNacks
  <2> QED BY <2>1, QueueAssumption
<1>5. TypeOK'
  BY <1>1, <1>2, <1>3, <1>4 DEF TypeOK
<1> QED
  BY <1>1, <1>2, <1>5, RingKept DEF QueueInv

-----------------------------------------------------------------------------
(* Requests come in and are answered.                                      *)

\* The slot seq_index names for a number is one.
LEMMA IndexOfType == ASSUME TypeOK, NEW s \in Seqs PROVE IndexOf(s) \in Slots
<1>1. s % IndexSize \in 0 .. IndexSize - 1
  BY QueueAssumption, InRange DEF Seqs
<1> QED BY <1>1 DEF TypeOK, IndexOf

\* A packet that is asked for stays where it is.
LEMMA RecvNackKeeps ==
  ASSUME QueueInv, NEW p \in Peers, NEW s \in Seqs, RecvNack(p, s)
  PROVE  QueueInv'
<1> DEFINE i == IndexOf(s)
           queued == \/ queue[i].queued
                     \/ Rtt > 0 /\ Cardinality(peers) = 1 /\ queue[i].asked # None
<1>1. TypeOK /\ RingExact /\ i \in Slots
  BY IndexOfType DEF QueueInv
<1>2. /\ queue[i] # None
      /\ queue' = [queue EXCEPT ![i].asked = 0, ![i].queued = queued]
      /\ retries' = [retries EXCEPT ![retryWrite] =
            [seq |-> s, peer |-> p, age |-> 0, active |-> TRUE]]
      /\ retryWrite' = Turn1(retryWrite)
      /\ UNCHANGED <<write, read, size, bufferSize, nextSeq, lastSent, seqIndex,
                     retryRead, peers, burst, flaps, stage, todo, due>>
  BY DEF RecvNack, env
<1>3. queue[i] \in Buffers
  BY <1>1, <1>2 DEF TypeOK
<1>4. queued \in BOOLEAN
  BY <1>3 DEF Buffers
<1> HIDE DEF i, queued
<1>5. [queue[i] EXCEPT !.asked = 0, !.queued = queued] \in Buffers
  <2>1. 0 \in 0 .. Rtt
    BY QueueAssumption
  <2> QED BY <1>3, <1>4, <2>1 DEF Buffers
<1>6. queue' = [queue EXCEPT ![i] =
                  [queue[i] EXCEPT !.asked = 0, !.queued = queued]]
  BY <1>1, <1>2, <1>3 DEF TypeOK, Buffers
<1>7. queue' \in [Slots -> Buffers \cup {None}]
  BY <1>1, <1>5, <1>6 DEF TypeOK
<1>8. retries' \in [Turns -> Retries]
  <2>1. [seq |-> s, peer |-> p, age |-> 0, active |-> TRUE] \in Retries
    BY Sorts DEF Retries
  <2> QED BY <1>1, <1>2, <2>1 DEF TypeOK
<1>9. retryWrite' \in Turns
  BY <1>1, <1>2, NextInRange DEF TypeOK
<1>10. TypeOK'
  BY <1>1, <1>2, <1>7, <1>8, <1>9 DEF TypeOK
<1>11. ASSUME NEW k \in Slots PROVE queue'[k] # None <=> queue[k] # None
  <2>1. CASE k = i
    <3>1. queue'[i] \in Buffers
      BY <1>1, <1>5, <1>6 DEF TypeOK
    <3> QED BY <1>2, <2>1, <3>1, NoneAssumption
  <2>2. CASE k # i
    BY <1>1, <1>6, <2>2 DEF TypeOK
  <2> QED BY <2>1, <2>2
<1> QED
  BY <1>1, <1>2, <1>10, <1>11, RingKept DEF QueueInv

\* A retry is passed over.
LEMMA SkipRetryKeeps == ASSUME QueueInv, SkipRetry PROVE QueueInv'
<1> DEFINE n == Turn1(retryRead)
           active == retries[n].active /\ retries[n].peer # None
<1>1. TypeOK /\ RingExact /\ n \in Turns
  BY NextInRange DEF QueueInv, TypeOK
<1>2. /\ retryRead' = n /\ retries' = [retries EXCEPT ![n].active = active]
      /\ UNCHANGED <<queue, write, read, size, bufferSize, nextSeq, lastSent,
                     seqIndex>>
      /\ UNCHANGED <<retryWrite, peers, burst, flaps, stage, todo, due>>
  BY DEF SkipRetry, ring, env
<1>3. active \in BOOLEAN
  BY <1>1 DEF TypeOK, Retries
<1> HIDE DEF n, active
<1>4. retries' \in [Turns -> Retries]
  BY <1>1, <1>2, <1>3 DEF TypeOK, Retries
<1>5. TypeOK'
  BY <1>1, <1>2, <1>4 DEF TypeOK
<1> QED
  BY <1>1, <1>2, <1>5, RingKept DEF QueueInv

\* A packet is sent again, or not.
LEMMA SendRetryKeeps ==
  ASSUME QueueInv, NEW sends \in BOOLEAN, SendRetry(sends)
  PROVE  QueueInv'
<1> DEFINE n == Turn1(retryRead)
           i == IndexOf(retries[n].seq)
           count == IF sends THEN queue[i].count + 1 ELSE queue[i].count
<1>1. TypeOK /\ RingExact /\ n \in Turns
  BY NextInRange DEF QueueInv, TypeOK
<1>2. i \in Slots
  <2>1. retries[n].seq \in Seqs
    BY <1>1 DEF TypeOK, Retries
  <2> QED BY <1>1, <2>1, IndexOfType
<1>3. /\ queue[i] # None /\ todo > 0
      /\ sends => queue[i].count < MaxCount
      /\ retryRead' = n /\ retries' = [retries EXCEPT ![n].active = FALSE]
      /\ queue' = [queue EXCEPT ![i].queued = FALSE, ![i].count = count]
      /\ todo' = IF sends THEN todo - 1 ELSE todo
      /\ UNCHANGED <<write, read, size, bufferSize, nextSeq, lastSent, seqIndex,
                     retryWrite, peers, burst, flaps, stage, due>>
  BY DEF SendRetry, Serving, Finds, env
<1>4. queue[i] \in Buffers
  <2>1. queue[i] # None
    BY <1>3
  <2>2. queue[i] \in Buffers \cup {None}
    BY <1>1, <1>2 DEF TypeOK
  <2> QED BY <2>1, <2>2
<1>5. count \in 0 .. MaxCount
  <2>1. queue[i].count \in 0 .. MaxCount
    BY <1>4 DEF Buffers
  <2>2. CASE sends
    <3>1. queue[i].count < MaxCount
      BY <1>3, <2>2
    <3>2. count = queue[i].count + 1
      BY <2>2
    <3> HIDE DEF count
    <3> QED BY <2>1, <3>1, <3>2, QueueAssumption
  <2>3. CASE ~sends
    BY <2>1, <2>3
  <2> QED BY <2>2, <2>3
<1> HIDE DEF n, i, count
<1>6. [queue[i] EXCEPT !.queued = FALSE, !.count = count] \in Buffers
  BY <1>4, <1>5 DEF Buffers
<1>7. queue' = [queue EXCEPT ![i] =
                  [queue[i] EXCEPT !.queued = FALSE, !.count = count]]
  BY <1>1, <1>2, <1>3, <1>4 DEF TypeOK, Buffers
<1>8. queue' \in [Slots -> Buffers \cup {None}]
  BY <1>1, <1>6, <1>7 DEF TypeOK
<1>9. retries' \in [Turns -> Retries]
  BY <1>1, <1>3 DEF TypeOK, Retries
<1>10. todo' \in 0 .. MaxData + MaxNacks + 1
  <2>1. todo \in 0 .. MaxData + MaxNacks + 1 /\ todo > 0
    BY <1>1, <1>3 DEF TypeOK
  <2>2. todo' = todo - 1 \/ todo' = todo
    BY <1>3
  <2> QED BY <2>1, <2>2, QueueAssumption
<1>11. TypeOK'
  BY <1>1, <1>3, <1>8, <1>9, <1>10 DEF TypeOK
<1>12. ASSUME NEW k \in Slots PROVE queue'[k] # None <=> queue[k] # None
  <2>1. CASE k = i
    <3>1. queue'[i] \in Buffers
      BY <1>1, <1>2, <1>6, <1>7 DEF TypeOK
    <3> QED BY <1>3, <2>1, <3>1, NoneAssumption
  <2>2. CASE k # i
    BY <1>1, <1>7, <2>2 DEF TypeOK
  <2> QED BY <2>1, <2>2
<1> QED
  BY <1>1, <1>3, <1>11, <1>12, RingKept DEF QueueInv

-----------------------------------------------------------------------------
(* The environment.                                                        *)

\* A peer comes or goes.
LEMMA PeersKeep ==
  ASSUME QueueInv, NEW p \in Peers, Destroy(p) \/ Create(p)
  PROVE  QueueInv'
<1>1. TypeOK /\ RingExact
  BY DEF QueueInv
<1>2. /\ UNCHANGED <<queue, write, read, size, bufferSize, nextSeq, lastSent,
                     seqIndex>>
      /\ UNCHANGED <<retryWrite, retryRead, burst, stage, todo, due>>
      /\ flaps < MaxFlaps /\ flaps' = flaps + 1
  BY DEF Destroy, Create, ring, retry
<1>3. peers' \subseteq Peers
  BY <1>1 DEF Destroy, Create, TypeOK
<1>4. retries' \in [Turns -> Retries]
  <2>1. CASE Destroy(p)
    <3>1. ASSUME NEW t \in Turns
          PROVE  [retries[t] EXCEPT !.peer = None, !.active = FALSE] \in Retries
      BY <1>1 DEF TypeOK, Retries
    <3> QED BY <1>1, <2>1, <3>1 DEF Destroy, TypeOK
  <2>2. CASE Create(p)
    BY <1>1, <2>2 DEF Create, retry, TypeOK
  <2> QED BY <2>1, <2>2
<1>5. flaps' \in 0 .. MaxFlaps
  <2>1. flaps \in 0 .. MaxFlaps
    BY <1>1 DEF TypeOK
  <2> QED BY <1>2, <2>1, QueueAssumption
<1>6. TypeOK'
  BY <1>1, <1>2, <1>3, <1>4, <1>5 DEF TypeOK
<1> QED
  BY <1>1, <1>2, <1>6, RingKept DEF QueueInv

\* Everything gets older.
LEMMA TickKeeps == ASSUME QueueInv, Tick PROVE QueueInv'
<1> DEFINE aged(b) == [b EXCEPT !.age = Older(@, OldPacket),
                         !.asked = IF @ = None THEN None ELSE Older(@, Rtt)]
<1>1. TypeOK /\ RingExact
  BY DEF QueueInv
<1>2. /\ queue' = [i \in Slots |-> IF queue[i] = None THEN None ELSE aged(queue[i])]
      /\ retries' = [t \in Turns |-> [retries[t] EXCEPT !.age = Older(@, OldRetry)]]
      /\ due' = TRUE /\ burst' = 0
      /\ UNCHANGED <<write, read, size, bufferSize, nextSeq, lastSent, seqIndex,
                     retryWrite, retryRead, peers, flaps, stage, todo>>
  BY DEF Tick
<1>3. ASSUME NEW most \in Nat, NEW age \in 0 .. most
      PROVE  Older(age, most) \in 0 .. most
  BY DEF Older
<1>4. ASSUME NEW b \in Buffers PROVE aged(b) \in Buffers
  <2>1. Older(b.age, OldPacket) \in 0 .. OldPacket
    BY <1>3, Sorts DEF Buffers
  <2>2. (IF b.asked = None THEN None ELSE Older(b.asked, Rtt)) \in (0 .. Rtt) \cup {None}
    <3>1. b.asked \in (0 .. Rtt) \cup {None} /\ Rtt \in Nat
      BY QueueAssumption DEF Buffers
    <3> QED BY <1>3, <3>1
  <2> QED BY <2>1, <2>2 DEF Buffers
<1> HIDE DEF aged
<1>5. queue' \in [Slots -> Buffers \cup {None}]
  BY <1>1, <1>2, <1>4 DEF TypeOK
<1>6. retries' \in [Turns -> Retries]
  <2>1. ASSUME NEW t \in Turns
        PROVE  [retries[t] EXCEPT !.age = Older(@, OldRetry)] \in Retries
    <3>1. retries[t] \in Retries
      BY <1>1 DEF TypeOK
    <3>2. Older(retries[t].age, OldRetry) \in 0 .. OldRetry
      BY <1>3, <3>1, Sorts DEF Retries
    <3> QED BY <3>1, <3>2 DEF Retries
  <2> QED BY <1>2, <2>1
<1>7. burst' \in 0 .. MaxBurst
  BY <1>2, QueueAssumption
<1>8. TypeOK'
  BY <1>1, <1>2, <1>5, <1>6, <1>7 DEF TypeOK
<1>9. \A k \in Slots : queue'[k] # None <=> queue[k] # None
  BY <1>1, <1>2, <1>4, NoneAssumption DEF TypeOK
<1> QED
  BY <1>1, <1>2, <1>8, <1>9, RingKept DEF QueueInv

-----------------------------------------------------------------------------
(* The theorems.                                                           *)

\* Every step keeps the invariant.
LEMMA StepKeeps == ASSUME QueueInv, [Next]_vars PROVE QueueInv'
<1>1. CASE Write
  BY <1>1, WriteKeeps
<1>2. CASE Pass
  <2>1. CASE SendOne
    BY <2>1, SendKeeps
  <2>2. CASE BeginPass \/ EndData \/ EndNacks
    BY <2>2, StagesKeep
  <2>3. CASE SkipRetry
    BY <2>3, SkipRetryKeeps
  <2>4. CASE \E sends \in BOOLEAN : SendRetry(sends)
    BY <2>4, SendRetryKeeps
  <2> QED BY <1>2, <2>1, <2>2, <2>3, <2>4 DEF Pass
<1>3. CASE Tick
  BY <1>3, TickKeeps
<1>4. ASSUME NEW p \in Peers,
             (\E s \in Seqs : RecvNack(p, s)) \/ Destroy(p) \/ Create(p)
      PROVE  QueueInv'
  BY <1>4, RecvNackKeeps, PeersKeep
<1>5. CASE UNCHANGED vars
  BY <1>5 DEF QueueInv, TypeOK, RingExact, Unsent, IsKept, IsUnsent, vars, ring,
              retry, env
<1> QED
  BY <1>1, <1>2, <1>3, <1>4, <1>5 DEF Next

\* The indices and the two sizes of a sender describe its ring: as long as it
\* runs, rist_sender_enqueue writes to a free slot, sender_send_data finds each
\* packet it is about to send, and its loop the two oldest that it frees.
THEOREM QueueCorrect == Spec => []QueueInv
<1>1. Init => QueueInv
  BY QueueStarts
<1>2. QueueInv /\ [Next]_vars => QueueInv'
  BY StepKeeps
<1> QED
  BY <1>1, <1>2, PTL DEF Spec

\* The types of the queues of a sender.
THEOREM QueueTyped == Spec => []TypeOK
<1>1. QueueInv => TypeOK
  BY DEF QueueInv
<1> QED BY <1>1, QueueCorrect, PTL

\* sender_queue_size and sender_buffer_size are exact.
THEOREM RingAlwaysExact == Spec => []RingExact
<1>1. QueueInv => RingExact
  BY DEF QueueInv
<1> QED BY <1>1, QueueCorrect, PTL

\* What the loop of sender_send_data frees is old, and is not still to be sent
\* but for the packet it has just sent.
LEMMA FreedIsOld ==
  ASSUME TypeOK, RingExact, Next1(read) # write, NEW k \in Freed, k \in Slots,
         queue[k] # None
  PROVE  queue[k].age >= MinTime /\ (IsUnsent(k) => k = Next1(read))
<1> DEFINE first == Oldest(bufferSize)
           second == Oldest(bufferSize - 1)
           back == (read - k) % QueueMax
<1>1. bufferSize \in 0 .. QueueMax - 1
  BY Indices
<1>2. /\ bufferSize = 0 => first = Next1(read)
      /\ bufferSize > 0 => (k = first <=> back = bufferSize - 1)
      /\ bufferSize = 1 => second = Next1(read)
      /\ bufferSize > 1 => (k = second <=> back = bufferSize - 2)
      /\ ~(back < bufferSize /\ IsUnsent(k))
  BY Places DEF IsKept
<1>3. /\ k = first \/ (bufferSize > 0 /\ k = second)
      /\ ~Young(k)
  BY ThreeWays
<1>4. queue[k].age >= MinTime
  <2>1. queue[k].age \in Nat
    BY DEF TypeOK, Buffers
  <2> QED BY <1>3, <2>1, QueueAssumption DEF Young
<1> HIDE DEF first, second, back
<1>5. ASSUME IsUnsent(k), k # Next1(read) PROVE FALSE
  <2>1. ~(back < bufferSize)
    BY <1>2, <1>5
  <2>2. CASE k = first
    <3>1. bufferSize > 0 /\ back = bufferSize - 1
      BY <1>1, <1>2, <1>5, <2>2
    <3> QED BY <1>1, <2>1, <3>1
  <2>3. CASE bufferSize > 0 /\ k = second
    <3>1. bufferSize > 1
      BY <1>1, <1>2, <1>5, <2>3
    <3>2. back = bufferSize - 2
      BY <1>2, <2>3, <3>1
    <3> QED BY <1>1, <2>1, <3>2
  <2> QED BY <1>3, <2>2, <2>3
<1> QED BY <1>4, <1>5

\* A step that frees a packet is one that sends one.
LEMMA OnlySendFrees ==
  ASSUME QueueInv, QueueInv', Next, NEW k \in Slots,
         queue[k] # None, queue'[k] = None
  PROVE  SendOne
<1>1. ASSUME UNCHANGED <<write, read, bufferSize>> PROVE FALSE
  <2>1. (IsKept(k)' <=> IsKept(k)) /\ (IsUnsent(k)' <=> IsUnsent(k))
    BY <1>1 DEF IsKept, IsUnsent, Unsent
  <2>2. queue[k] # None <=> IsKept(k) \/ IsUnsent(k)
    BY DEF QueueInv, RingExact
  <2>3. queue'[k] # None <=> IsKept(k)' \/ IsUnsent(k)'
    BY DEF QueueInv, RingExact
  <2> QED BY <2>1, <2>2, <2>3
<1>2. ASSUME Write PROVE FALSE
  <2> DEFINE b == [seq |-> IF Advanced THEN 0 ELSE nextSeq, age |-> 0,
                   asked |-> None, queued |-> FALSE, count |-> 0]
  <2>1. queue' = queue \/ queue' = [queue EXCEPT ![write] = b]
    BY <1>2 DEF Write
  <2>2. queue \in [Slots -> Buffers \cup {None}] /\ nextSeq \in Seqs
    BY DEF QueueInv, TypeOK
  <2>3. b \in Buffers
    <3>1. 0 \in Seqs /\ 0 \in 0 .. MaxCount
      BY Sorts, QueueAssumption DEF Seqs
    <3> QED BY <2>2, <3>1, Sorts DEF Buffers
  <2> HIDE DEF b
  <2> QED BY <2>1, <2>2, <2>3, NoneAssumption
<1>3. ASSUME BeginPass \/ EndData \/ EndNacks \/ SkipRetry
             \/ (\E sends \in BOOLEAN : SendRetry(sends)) \/ Tick
             \/ \E p \in Peers : \/ \E s \in Seqs : RecvNack(p, s)
                                 \/ Destroy(p) \/ Create(p)
      PROVE  UNCHANGED <<write, read, bufferSize>>
  BY <1>3 DEF BeginPass, EndData, EndNacks, SkipRetry, SendRetry, Tick, RecvNack,
              Destroy, Create, ring
<1> QED
  BY <1>1, <1>2, <1>3 DEF Next, Pass

\* The loop of sender_send_data frees a packet only after it was sent, and only
\* when it is so old that no receiver asks for it any more.
THEOREM AlwaysRetained == Spec => Retained
<1>1. ASSUME QueueInv, QueueInv', [Next]_vars
      PROVE  [\A i \in Slots : queue[i] # None /\ queue'[i] = None =>
                queue[i].age >= MinTime /\ (IsUnsent(i) => i = Next1(read))]_ring
  <2>1. CASE UNCHANGED vars
    BY <2>1 DEF vars
  <2>2. CASE Next
    <3>1. ASSUME NEW i \in Slots, queue[i] # None, queue'[i] = None
          PROVE  queue[i].age >= MinTime /\ (IsUnsent(i) => i = Next1(read))
      <4>1. SendOne
        BY <1>1, <2>2, <3>1, OnlySendFrees
      <4>2. Next1(read) # write
        BY <4>1 DEF SendOne
      <4>3. i \in Freed
        <5> DEFINE n == Next1(read)
                   s == IF Advanced THEN nextSeq ELSE queue[n].seq
        <5>1. queue' = [k \in Slots |->
                          IF k \in Freed THEN None
                          ELSE IF k = n THEN [queue[k] EXCEPT !.seq = s]
                          ELSE queue[k]]
          BY <4>1 DEF SendOne
        <5>2. [queue[n] EXCEPT !.seq = s] \in Buffers
          BY <1>1, <4>1, SentIsThere
        <5> HIDE DEF n, s
        <5> QED BY <3>1, <5>1, <5>2, NoneAssumption
      <4> QED BY <1>1, <3>1, <4>2, <4>3, FreedIsOld DEF QueueInv
    <3> QED BY <3>1
  <2> QED BY <1>1, <2>1, <2>2
<1> QED
  BY <1>1, QueueCorrect, PTL DEF Spec, Retained

-----------------------------------------------------------------------------
(* A packet that is kept is found.                                         *)

\* Counting on from a number and wrapping is wrapping the sum.
LEMMA NumberAfter ==
  ASSUME NEW n \in Nat \ {0}, NEW x \in Int
  PROVE  ((x % n) + 1) % n = (x + 1) % n
<1> DEFINE q == x \div n
           r == x % n
<1>1. x = n * q + r /\ r \in 0 .. n - 1 /\ q \in Int
  OBVIOUS
<1> HIDE DEF q, r
<1>2. CASE r = n - 1
  <2>1. x + 1 = n * (q + 1)
    BY <1>1, <1>2
  <2>2. (x + 1) % n = 0 /\ (r + 1) % n = 0
    BY <1>1, <1>2, <2>1
  <2> QED BY <2>2 DEF r
<1>3. CASE r < n - 1
  <2>1. x + 1 = n * q + (r + 1) /\ r + 1 \in 0 .. n - 1
    BY <1>1, <1>3
  <2>2. (x + 1) % n = r + 1 /\ (r + 1) % n = r + 1
    BY <1>1, <2>1
  <2> QED BY <2>2 DEF r
<1> QED BY <1>1, <1>2, <1>3

\* A number is its quotient times the divisor and its remainder.
LEMMA Divided ==
  ASSUME NEW n \in Nat \ {0}, NEW x \in Int
  PROVE  x \div n \in Int /\ x = n * (x \div n) + (x % n)
BY SMT

\* Two numbers that share an entry of seq_index are far apart.
LEMMA Apart ==
  ASSUME NEW S \in Nat \ {0}, NEW n \in Nat \ {0}, S % n = 0,
         NEW a \in Int, NEW b \in Int, NEW x \in Int, NEW y \in Int,
         (a + x) % S = (b + y) % S, a % n = b % n, x > y
  PROVE  x - y >= n
<1> DEFINE m == S \div n
           p == (a + x) \div S
           q == (b + y) \div S
           k == a \div n
           l == b \div n
           r == (a + x) % S
           u == a % n
<1>1. m \in Int /\ p \in Int /\ q \in Int /\ k \in Int /\ l \in Int
      /\ r \in Int /\ u \in Int
  OBVIOUS
<1>2. S = n * m
  BY Divided
<1>3. a + x = S * p + r /\ b + y = S * q + r
  OBVIOUS
<1>4. a = n * k + u /\ b = n * l + u
  OBVIOUS
<1> HIDE DEF m, p, q, k, l, r, u
<1>5. x - y = S * (p - q) - n * (k - l)
  BY <1>1, <1>3, <1>4
<1> DEFINE e == m * (p - q) - (k - l)
<1>6. e \in Int
  BY <1>1
<1>7. S * (p - q) = n * (m * (p - q))
  BY <1>1, <1>2
<1>8. n * e = n * (m * (p - q)) - n * (k - l)
  BY <1>1
<1>9. x - y = n * e
  BY <1>1, <1>5, <1>7, <1>8
<1> HIDE DEF e
<1>10. CASE e <= 0
  <2>1. n * e <= 0
    BY <1>6, <1>10
  <2> QED BY <1>9, <2>1
<1>11. CASE e >= 1
  <2>1. n * e >= n
    BY <1>6, <1>11
  <2> QED BY <1>9, <2>1
<1> QED BY <1>6, <1>10, <1>11

\* A slot whose packet has its number: the Simple and the Main profile give it
\* when the packet is written, the Advanced profile when it is sent.
HasNumber(i) == IsKept(i) \/ (~Advanced /\ IsUnsent(i))

\* The packet of slot i was written before the unsent one of slot j.
Before(i, j) ==
  IsKept(i) \/ (i - read - 1) % QueueMax < (j - read - 1) % QueueMax

\* d tells how many numbers were given out since, with its own, the packet of a
\* slot got its number: that many less than the next one its number is.  The
\* packets are numbered in the order of the ring, and few numbers were given out
\* since a young packet got its own.
Counts(d) ==
  /\ \A i \in Slots : HasNumber(i) =>
       d[i] >= 1 /\ (queue[i].seq + d[i]) % SeqSpace = nextSeq
  /\ \A i \in Slots : HasNumber(i) /\ Young(i) =>
       IF Advanced THEN d[i] <= ((read - i) % QueueMax) + 1
                   ELSE d[i] <= MaxBurst * queue[i].age + burst
  /\ ~Advanced => \A i, j \in Slots :
       HasNumber(i) /\ IsUnsent(j) /\ Before(i, j) => d[i] > d[j]

Numbered == \E d \in [Slots -> Nat] : Counts(d)

\* seq_index has an entry for each packet that may be kept: one for each slot in
\* the Advanced profile, and else one for each packet that the application can
\* write in sender_recover_min_time.
IndexFits ==
  /\ SeqSpace % IndexSize = 0
  /\ Advanced => QueueMax <= IndexSize
  /\ ~Advanced => MaxBurst * MinTime <= IndexSize

LEMMA CountsStart == ASSUME Init PROVE Numbered /\ Found
<1>1. \A i \in Slots : ~IsKept(i) /\ ~IsUnsent(i)
  <2>1. QueueInv /\ \A i \in Slots : queue[i] = None
    BY QueueStarts DEF Init
  <2> QED BY <2>1 DEF QueueInv, RingExact
<1>2. Counts([i \in Slots |-> 0])
  BY <1>1 DEF Counts, HasNumber
<1>3. [i \in Slots |-> 0] \in [Slots -> Nat]
  OBVIOUS
<1> QED BY <1>1, <1>2, <1>3 DEF Numbered, Found

\* A step that moves and numbers no packet, and by which none gets younger.
LEMMA CountsStay ==
  ASSUME QueueInv, QueueInv', Numbered, Found,
         UNCHANGED <<write, read, bufferSize, nextSeq, seqIndex>>,
         \A i \in Slots : queue[i] # None =>
           /\ queue'[i].seq = queue[i].seq
           /\ queue'[i].age < MinTime =>
                /\ queue[i].age < MinTime
                /\ MaxBurst * queue[i].age + burst
                     <= MaxBurst * queue'[i].age + burst'
  PROVE  Numbered' /\ Found'
<1>1. \A i \in Slots : /\ IsKept(i)' <=> IsKept(i)
                       /\ IsUnsent(i)' <=> IsUnsent(i)
                       /\ HasNumber(i)' <=> HasNumber(i)
                       /\ HasNumber(i) => queue[i] # None
  BY DEF IsKept, IsUnsent, Unsent, HasNumber, QueueInv, RingExact
<1>2. Found'
  BY <1>1 DEF Found, Young, HasNumber, IndexOf
<1>3. PICK d \in [Slots -> Nat] : Counts(d)
  BY DEF Numbered
<1>4. Counts(d)'
  <2>1. \A i \in Slots : HasNumber(i)' =>
          d[i] >= 1 /\ (queue'[i].seq + d[i]) % SeqSpace = nextSeq'
    BY <1>1, <1>3 DEF Counts
  <2>2. ASSUME NEW i \in Slots, HasNumber(i)', Young(i)'
        PROVE  IF Advanced THEN d[i] <= ((read' - i) % QueueMax) + 1
               ELSE d[i] <= MaxBurst * queue'[i].age + burst'
    <3>1. /\ HasNumber(i) /\ queue[i] # None /\ Young(i)
          /\ MaxBurst * queue[i].age + burst
               <= MaxBurst * queue'[i].age + burst'
      BY <1>1, <2>2 DEF Young
    <3>2. IF Advanced THEN d[i] <= ((read - i) % QueueMax) + 1
          ELSE d[i] <= MaxBurst * queue[i].age + burst
      BY <1>3, <3>1 DEF Counts
    <3>3. CASE Advanced
      BY <3>2, <3>3
    <3>4. CASE ~Advanced
      <4> DEFINE x == MaxBurst * queue[i].age + burst
                 y == MaxBurst * queue'[i].age + burst'
      <4>1. x \in Int /\ y \in Int
        <5>1. queue[i] # None /\ queue'[i] # None
          BY <1>1, <2>2 DEF HasNumber, QueueInv, RingExact
        <5>2. queue[i] \in Buffers /\ queue'[i] \in Buffers
          BY <5>1 DEF QueueInv, TypeOK
        <5>3. burst \in Int /\ burst' \in Int /\ MaxBurst \in Int
          BY QueueAssumption DEF QueueInv, TypeOK
        <5> QED BY <5>2, <5>3 DEF Buffers
      <4> QED BY <3>1, <3>2, <3>4, <4>1
    <3> QED BY <3>3, <3>4
  <2>3. ~Advanced => \A i, j \in Slots :
          HasNumber(i)' /\ IsUnsent(j)' /\ Before(i, j)' => d[i] > d[j]
    BY <1>1, <1>3 DEF Counts, Before
  <2> QED BY <1>3, <2>1, <2>2, <2>3 DEF Counts
<1> QED BY <1>2, <1>4 DEF Numbered

\* The slot to write to is none of those in the ring, and comes after the last
\* that is to be sent.
LEMMA WriteFree ==
  ASSUME TypeOK, RingExact
  PROVE  ~IsKept(write) /\ ~IsUnsent(write)
<1> DEFINE back == (read - write) % QueueMax
           ahead == (write - read - 1) % QueueMax
<1>1. write \in Slots
  BY DEF TypeOK
<1>2. /\ back = IF write <= read THEN read - write ELSE read - write + QueueMax
      /\ ahead = IF read < write THEN write - read - 1
                 ELSE write - read - 1 + QueueMax
  BY <1>1, Indices, Marks
<1>3. Unsent = ahead /\ size = bufferSize + Unsent
  BY DEF Unsent, RingExact
<1> HIDE DEF back, ahead
<1>4. ~(back < bufferSize) /\ ~(ahead < Unsent)
  BY <1>2, <1>3, Indices, Sorts
<1> QED BY <1>4 DEF IsKept, IsUnsent, back, ahead

\* A slot of the ring holds a packet with a number and an age.
LEMMA NumberedThere ==
  ASSUME TypeOK, RingExact, NEW i \in Slots, HasNumber(i)
  PROVE  queue[i] \in Buffers /\ queue[i].seq \in Nat /\ queue[i].age \in Nat
<1>1. queue[i] \in Buffers
  BY DEF TypeOK, RingExact, HasNumber
<1> QED BY <1>1, Sorts DEF Buffers, Seqs

\* A packet is written, with its number or without; or only the number is used.
LEMMA CountsWrite ==
  ASSUME QueueInv, QueueInv', Numbered, Found, Write
  PROVE  Numbered' /\ Found'
<1>1. TypeOK /\ RingExact /\ RingExact'
  BY DEF QueueInv
<1>2. /\ UNCHANGED <<read, bufferSize, seqIndex>> /\ burst' = burst + 1
      /\ nextSeq' = IF Advanced THEN nextSeq ELSE (nextSeq + 1) % SeqSpace
  BY DEF Write
<1> DEFINE taken == ~(peers = {} \/ Full)
           new == [seq |-> IF Advanced THEN 0 ELSE nextSeq, age |-> 0,
                   asked |-> None, queued |-> FALSE, count |-> 0]
<1>3. /\ taken => queue' = [queue EXCEPT ![write] = new] /\ write' = Next1(write)
                   /\ size' = size + 1
      /\ ~taken => queue' = queue /\ write' = write /\ size' = size
  BY DEF Write
<1> HIDE DEF taken, new
<1>4. ASSUME NEW i \in Slots
      PROVE  /\ IsKept(i)' <=> IsKept(i)
             /\ IsUnsent(i)' <=> IsUnsent(i) \/ (taken /\ i = write)
             /\ i = write => ~IsKept(i) /\ (taken => ~IsUnsent(i))
             /\ i # write => queue'[i] = queue[i]
             /\ i = write /\ taken => queue'[i] = new
  <2>1. IsKept(i)' <=> IsKept(i)
    BY <1>2 DEF IsKept
  <2>2. i # write => queue'[i] = queue[i]
    BY <1>1, <1>3 DEF TypeOK
  <2>3. i = write /\ taken => queue'[i] = new
    BY <1>1, <1>3 DEF TypeOK
  <2>4. i \in 0 .. QueueMax - 1
    BY DEF Slots
  <2>5. Unsent = IF read < write THEN write - read - 1
                 ELSE write - read - 1 + QueueMax
    BY <1>1, Indices, Marks DEF Unsent
  <2>6. /\ (read - i) % QueueMax = IF i <= read THEN read - i
                                   ELSE read - i + QueueMax
        /\ (i - read - 1) % QueueMax = IF read < i THEN i - read - 1
                                       ELSE i - read - 1 + QueueMax
    BY <1>1, Indices, Marks
  <2>7. size = bufferSize + Unsent
    BY <1>1 DEF RingExact
  <2>8. i = write => ~IsKept(i) /\ ~IsUnsent(i)
    BY <1>1, WriteFree
  <2>9. IsUnsent(i)' <=> IsUnsent(i) \/ (taken /\ i = write)
    <3>1. CASE ~taken
      BY <1>2, <1>3, <3>1 DEF IsUnsent, Unsent
    <3>2. CASE taken
      <4>1. queue'[i] # None <=> queue[i] # None \/ i = write
        <5>1. new # None
          <6>1. new \in [seq : {0, nextSeq}, age : {0}, asked : {None},
                         queued : {FALSE}, count : {0}]
            BY DEF new
          <6>2. nextSeq \in Seqs /\ 0 \in Seqs /\ 0 \in 0 .. MaxCount
                /\ 0 \in 0 .. OldPacket
            BY <1>1, Sorts, QueueAssumption DEF TypeOK, Seqs
          <6>3. new \in Buffers
            BY <6>1, <6>2 DEF Buffers
          <6> QED BY <6>3, NoneAssumption
        <5> QED BY <2>2, <2>3, <3>2, <5>1
      <4>2. queue[i] # None <=> IsKept(i) \/ IsUnsent(i)
        BY <1>1 DEF RingExact
      <4>3. queue'[i] # None <=> IsKept(i)' \/ IsUnsent(i)'
        BY <1>1 DEF RingExact
      <4>4. ~(IsKept(i) /\ IsUnsent(i)') /\ ~(IsKept(i) /\ IsUnsent(i))
        <5> DEFINE back == (read - i) % QueueMax
                   ahead == (i - read - 1) % QueueMax
        <5>1. /\ back = IF i <= read THEN read - i ELSE read - i + QueueMax
              /\ ahead = IF read < i THEN i - read - 1
                         ELSE i - read - 1 + QueueMax
          BY <2>6
        <5>2. size' = bufferSize + Unsent' /\ size' \in 0 .. QueueMax - 1
          BY <1>2, Indices DEF QueueInv, RingExact, TypeOK
        <5>3. Unsent \in Int /\ Unsent' = Unsent + 1
          <6>1. Unsent \in Int
            BY <1>1, <2>5, Indices, Sorts
          <6>2. Unsent' \in Int
            <7>1. write' - read' - 1 \in Int
              BY Indices, Sorts DEF QueueInv, TypeOK, Slots
            <7> QED BY <7>1, Sorts, InRange DEF Unsent
          <6> QED BY <1>1, <1>3, <2>7, <3>2, <5>2, <6>1, <6>2, Indices
        <5> HIDE DEF back, ahead
        <5>4. ~(back < bufferSize /\ ahead < Unsent + 1)
          BY <1>1, <1>3, <2>4, <2>5, <2>7, <3>2, <5>1, <5>2, <5>3, Indices, Sorts
        <5>5. ~(back < bufferSize /\ ahead < Unsent)
          BY <1>1, <2>4, <2>5, <5>1, <5>4, Indices, Sorts
        <5>6. IsUnsent(i)' <=> ahead < Unsent + 1
          BY <1>2, <5>3 DEF IsUnsent, ahead
        <5> QED BY <5>4, <5>5, <5>6 DEF IsKept, IsUnsent, back, ahead
      <4> QED BY <2>1, <2>8, <3>2, <4>1, <4>2, <4>3, <4>4
    <3> QED BY <3>1, <3>2
  <2> QED BY <2>1, <2>2, <2>3, <2>8, <2>9
<1>5. Found'
  <2> SUFFICES ASSUME NEW i \in Slots, IsKept(i)', Young(i)'
               PROVE  seqIndex'[queue'[i].seq % IndexSize] = i
    BY DEF Found, IndexOf
  <2>1. IsKept(i) /\ queue'[i] = queue[i]
    BY <1>4
  <2>2. Young(i)
    BY <2>1 DEF Young
  <2> QED BY <1>2, <2>1, <2>2 DEF Found, IndexOf
<1>6. PICK d \in [Slots -> Nat] : Counts(d)
  BY DEF Numbered
<1>7. CASE Advanced
  <2>1. \A i \in Slots : HasNumber(i)' => HasNumber(i) /\ queue'[i] = queue[i]
    BY <1>4, <1>7 DEF HasNumber
  <2>2. Counts(d)'
    BY <1>2, <1>6, <1>7, <2>1 DEF Counts, Young
  <2> QED BY <1>5, <2>2 DEF Numbered
<1>8. CASE ~Advanced
  <2>1. PICK e \in [Slots -> Nat] :
          e = [i \in Slots |-> IF i = write /\ taken THEN 1 ELSE d[i] + 1]
    <3> DEFINE f == [i \in Slots |-> IF i = write /\ taken THEN 1 ELSE d[i] + 1]
    <3>1. f \in [Slots -> Nat]
      OBVIOUS
    <3> QED BY <3>1
  <2>2. ASSUME NEW i \in Slots, HasNumber(i)', ~(i = write /\ taken)
        PROVE  /\ HasNumber(i) /\ i # write
               /\ queue'[i] = queue[i] /\ e[i] = d[i] + 1
    <3>1. IsKept(i) \/ IsUnsent(i)
      BY <1>4, <2>2 DEF HasNumber
    <3>2. i # write
      BY <1>1, <3>1, WriteFree
    <3> QED BY <1>4, <1>8, <2>1, <2>2, <3>1, <3>2 DEF HasNumber
  <2>3. ASSUME NEW i \in Slots, i = write, taken
        PROVE  queue'[i].seq = nextSeq /\ queue'[i].age = 0 /\ e[i] = 1
    BY <1>4, <1>8, <2>1, <2>3 DEF new
  <2>4. nextSeq \in Int /\ nextSeq' = (nextSeq + 1) % SeqSpace
        /\ MaxBurst \in Nat /\ burst \in Nat /\ burst' = burst + 1
    BY <1>1, <1>2, <1>8, Sorts, QueueAssumption DEF TypeOK, Seqs
  <2>5. ASSUME NEW i \in Slots, HasNumber(i)'
        PROVE  e[i] >= 1 /\ (queue'[i].seq + e[i]) % SeqSpace = nextSeq'
    <3>1. CASE i = write /\ taken
      BY <2>3, <2>4, <3>1
    <3>2. CASE ~(i = write /\ taken)
      <4>1. /\ HasNumber(i) /\ queue'[i] = queue[i] /\ e[i] = d[i] + 1
        BY <2>2, <2>5, <3>2
      <4>2. d[i] >= 1 /\ (queue[i].seq + d[i]) % SeqSpace = nextSeq
        BY <1>6, <4>1 DEF Counts
      <4>3. queue[i].seq \in Int /\ d[i] \in Nat
        BY <1>1, <4>1, NumberedThere
      <4>4. queue[i].seq + d[i] \in Int
            /\ (queue[i].seq + d[i]) + 1 = queue[i].seq + (d[i] + 1)
        BY <4>3
      <4>5. ((queue[i].seq + d[i]) + 1) % SeqSpace = (nextSeq + 1) % SeqSpace
        BY <4>2, <4>4, Sorts, NumberAfter
      <4> QED BY <2>4, <4>1, <4>3, <4>4, <4>5
    <3> QED BY <3>1, <3>2
  <2>6. ASSUME NEW i \in Slots, HasNumber(i)', Young(i)'
        PROVE  e[i] <= MaxBurst * queue'[i].age + burst'
    <3>1. CASE i = write /\ taken
      BY <2>3, <2>4, <3>1
    <3>2. CASE ~(i = write /\ taken)
      <4>1. /\ HasNumber(i) /\ queue'[i] = queue[i] /\ e[i] = d[i] + 1
        BY <2>2, <2>6, <3>2
      <4>2. Young(i)
        BY <2>6, <4>1 DEF Young
      <4>3. d[i] <= MaxBurst * queue[i].age + burst
        BY <1>6, <1>8, <4>1, <4>2 DEF Counts
      <4>4. queue[i].age \in Nat /\ d[i] \in Nat
        BY <1>1, <4>1, NumberedThere
      <4> DEFINE m == MaxBurst * queue[i].age
      <4>5. m \in Nat
        BY <2>4, <4>4
      <4> HIDE DEF m
      <4>6. d[i] + 1 <= m + (burst + 1)
        BY <2>4, <4>3, <4>4, <4>5 DEF m
      <4> QED BY <2>4, <4>1, <4>6 DEF m
    <3> QED BY <3>1, <3>2
  <2>7. ASSUME NEW i \in Slots, NEW j \in Slots,
               HasNumber(i)', IsUnsent(j)', Before(i, j)'
        PROVE  e[i] > e[j]
    <3>1. Before(i, j)
      BY <1>2, <1>4, <2>7 DEF Before
    <3>0. \A k \in Slots : (k - read - 1) % QueueMax \in Int
      <4>1. \A k \in Slots : k - read - 1 \in Int
        BY <1>1, Sorts DEF TypeOK, Slots
      <4> QED BY <4>1, Sorts, InRange
    <3>2. CASE j = write /\ taken
      <4>1. i # write
        BY <1>4, <3>0, <3>1, <3>2 DEF Before
      <4>2. HasNumber(i) /\ e[i] = d[i] + 1
        BY <2>2, <2>7, <4>1
      <4>3. d[i] >= 1 /\ d[i] \in Nat
        BY <1>6, <4>2 DEF Counts
      <4> QED BY <2>3, <3>2, <4>2, <4>3
    <3>3. CASE ~(j = write /\ taken)
      <4>1. IsUnsent(j) /\ HasNumber(j)'
        BY <1>4, <1>8, <2>7, <3>3 DEF HasNumber
      <4>2. ~(i = write /\ taken)
        BY <1>4, <3>0, <3>1, <4>1 DEF Before, IsUnsent, Unsent
      <4>3. /\ HasNumber(i) /\ e[i] = d[i] + 1 /\ e[j] = d[j] + 1
        BY <2>2, <2>7, <3>3, <4>1, <4>2
      <4>4. d[i] > d[j]
        BY <1>6, <1>8, <3>1, <4>1, <4>3 DEF Counts
      <4>5. d[i] \in Nat /\ d[j] \in Nat
        BY <1>6
      <4> QED BY <4>3, <4>4, <4>5
    <3> QED BY <3>2, <3>3
  <2>8. Counts(e)'
    BY <1>8, <2>5, <2>6, <2>7 DEF Counts
  <2> QED BY <1>5, <2>1, <2>8 DEF Numbered
<1> QED BY <1>7, <1>8

\* Where the slots stand once a packet was sent.
LEMMA SentPlaces ==
  ASSUME TypeOK, RingExact, SendOne, NEW k \in Slots
  PROVE  LET r == Next1(read)
         IN /\ IsKept(k)' => k = r \/ IsKept(k)
            /\ IsUnsent(k)' <=> IsUnsent(k) /\ k # r
            /\ k = r => IsUnsent(k)
            /\ k # r => (read' - k) % QueueMax = ((read - k) % QueueMax) + 1
            /\ k # r => (k - read' - 1) % QueueMax
                         = ((k - read - 1) % QueueMax) - 1
            /\ k = r => (k - read - 1) % QueueMax = 0
            /\ (read - k) % QueueMax \in Nat /\ (k - read - 1) % QueueMax \in Nat
<1> DEFINE r == Next1(read)
           back  == (read - k) % QueueMax
           ahead == (k - read - 1) % QueueMax
           backAfter  == (r - k) % QueueMax
           aheadAfter == (k - r - 1) % QueueMax
<1>1. /\ r # write /\ read' = r /\ bufferSize' = Resized /\ write' = write
  BY DEF SendOne
<1>2. r = IF read = QueueMax - 1 THEN 0 ELSE read + 1
  BY Indices, Sorts, NextWraps DEF Next1
<1>3. r \in 0 .. QueueMax - 1 /\ k \in 0 .. QueueMax - 1
  BY <1>2, Indices, Sorts DEF Slots
<1>4. Unsent = IF read < write THEN write - read - 1 ELSE write - read - 1 + QueueMax
  BY Indices, Marks DEF Unsent
<1>5. Unsent' = Unsent - 1
  <2>1. (write - r - 1) % QueueMax = IF r < write THEN write - r - 1
                                     ELSE write - r - 1 + QueueMax
    BY <1>3, Indices, Marks
  <2>2. Unsent' = (write - r - 1) % QueueMax
    BY <1>1 DEF Unsent
  <2> HIDE DEF r
  <2> QED BY <1>1, <1>2, <1>3, <1>4, <2>1, <2>2, Indices, Sorts
<1>6. /\ backAfter < bufferSize + 1 <=> k = r \/ back < bufferSize
      /\ aheadAfter < Unsent - 1 <=> IsUnsent(k) /\ k # r
      /\ k = r => IsUnsent(k)
  BY <1>1, Indices, Moved
<1>7. Resized <= bufferSize + 1 /\ Resized \in Int /\ bufferSize \in Int
  <2>1. bufferSize \in Int
    BY Indices
  <2> QED BY <1>1, <2>1, ThreeWays
<1> HIDE DEF r
<1>8. /\ back = IF k <= read THEN read - k ELSE read - k + QueueMax
      /\ ahead = IF read < k THEN k - read - 1 ELSE k - read - 1 + QueueMax
      /\ backAfter = IF k <= r THEN r - k ELSE r - k + QueueMax
      /\ aheadAfter = IF r < k THEN k - r - 1 ELSE k - r - 1 + QueueMax
  BY <1>3, Indices, Marks
<1> HIDE DEF back, ahead, backAfter, aheadAfter
<1>9. k # r => backAfter = back + 1 /\ aheadAfter = ahead - 1
  BY <1>2, <1>3, <1>8, Indices, Sorts
<1>10. (k = r => ahead = 0) /\ back \in Nat /\ ahead \in Nat /\ backAfter \in Nat
  BY <1>2, <1>3, <1>8, Indices, Sorts
<1>11. IsKept(k)' => k = r \/ IsKept(k)
  <2>1. IsKept(k)' <=> backAfter < Resized
    BY <1>1 DEF IsKept, backAfter
  <2>2. backAfter < Resized => backAfter < bufferSize + 1
    BY <1>7, <1>10
  <2> QED BY <1>6, <2>1, <2>2 DEF IsKept, back
<1>12. IsUnsent(k)' <=> IsUnsent(k) /\ k # r
  BY <1>1, <1>5, <1>6 DEF IsUnsent, aheadAfter
<1>13. k # r => (read' - k) % QueueMax = back + 1
                /\ (k - read' - 1) % QueueMax = ahead - 1
  BY <1>1, <1>9 DEF backAfter, aheadAfter
<1> QED
  BY <1>6, <1>10, <1>11, <1>12, <1>13 DEF r, back, ahead

\* Only young packets that are kept can be asked for, and none of them has the
\* entry of seq_index that the packet being sent takes.
LEMMA EntryFree ==
  ASSUME IndexFits, TypeOK, RingExact, NEW d \in [Slots -> Nat], Counts(d),
         SendOne, NEW i \in Slots, IsKept(i), Young(i)
  PROVE  LET n == Next1(read)
             s == IF Advanced THEN nextSeq ELSE queue[n].seq
         IN s % IndexSize # queue[i].seq % IndexSize
<1> DEFINE n == Next1(read)
           s == IF Advanced THEN nextSeq ELSE queue[n].seq
           e == IF Advanced THEN 0 ELSE d[n]
<1>1. n \in Slots /\ IsUnsent(n) /\ ~IsKept(n)
  <2>1. n \in Slots
    BY NextInRange DEF TypeOK
  <2>2. n # write
    BY DEF SendOne
  <2> QED BY <2>1, <2>2, SentPlaces, Places
<1>2. /\ queue[i] \in Buffers /\ queue[i].seq \in Nat /\ queue[i].age \in Nat
  BY NumberedThere DEF HasNumber
<1>3. HasNumber(i) /\ d[i] >= 1 /\ (queue[i].seq + d[i]) % SeqSpace = nextSeq
      /\ d[i] \in Nat
  BY DEF Counts, HasNumber
<1>4. nextSeq \in 0 .. SeqSpace - 1 /\ SeqSpace \in Nat \ {0}
      /\ IndexSize \in Nat \ {0} /\ SeqSpace % IndexSize = 0
  BY Sorts, QueueAssumption DEF TypeOK, Seqs, IndexFits
<1>5. s \in Int /\ e \in Nat /\ (s + e) % SeqSpace = nextSeq
  <2>1. CASE Advanced
    <3>1. s = nextSeq /\ e = 0
      BY <2>1
    <3>2. nextSeq % SeqSpace = nextSeq
      BY <1>4
    <3> HIDE DEF s, e
    <3> QED BY <1>4, <3>1, <3>2
  <2>2. CASE ~Advanced
    <3>1. HasNumber(n)
      BY <1>1, <2>2 DEF HasNumber
    <3>2. (queue[n].seq + d[n]) % SeqSpace = nextSeq /\ d[n] \in Nat
      BY <1>1, <3>1 DEF Counts
    <3>3. queue[n].seq \in Nat
      BY <1>1, <3>1, NumberedThere
    <3> QED BY <2>2, <3>2, <3>3
  <2> QED BY <2>1, <2>2
<1>6. d[i] > e
  <2>1. CASE Advanced
    BY <1>3, <2>1
  <2>2. CASE ~Advanced
    BY <1>1, <1>3, <2>2 DEF Counts, Before
  <2> QED BY <2>1, <2>2
<1>7. d[i] - e < IndexSize
  <2>1. CASE Advanced
    <3>1. d[i] <= ((read - i) % QueueMax) + 1
      BY <1>3, <2>1 DEF Counts
    <3>2. (read - i) % QueueMax < bufferSize /\ bufferSize <= QueueMax - 1
          /\ bufferSize \in Int /\ QueueMax \in Int
      BY Indices, Sorts DEF IsKept
    <3>3. (read - i) % QueueMax \in Nat
      BY SentPlaces
    <3>4. QueueMax <= IndexSize /\ e = 0
      BY <2>1 DEF IndexFits
    <3> HIDE DEF e
    <3> QED BY <1>3, <1>4, <3>1, <3>2, <3>3, <3>4
  <2>2. CASE ~Advanced
    <3>1. d[i] <= MaxBurst * queue[i].age + burst
      BY <1>3, <2>2 DEF Counts
    <3>2. burst \in 0 .. MaxBurst /\ MaxBurst \in Nat /\ MinTime \in Nat
      BY QueueAssumption DEF TypeOK
    <3>3. queue[i].age + 1 <= MinTime
      BY <1>2, <3>2 DEF Young
    <3> DEFINE a == queue[i].age
    <3>4. MaxBurst * (a + 1) <= MaxBurst * MinTime
      <4>1. a \in Nat /\ a + 1 <= MinTime
        BY <1>2, <3>3
      <4> HIDE DEF a
      <4>2. PICK x \in Nat : MinTime = (a + 1) + x
        <5>1. MinTime - (a + 1) \in Nat
          BY <3>2, <4>1
        <5>2. MinTime = (a + 1) + (MinTime - (a + 1))
          BY <3>2, <4>1
        <5> QED BY <5>1, <5>2
      <4>3. MaxBurst * MinTime = MaxBurst * (a + 1) + MaxBurst * x
        BY <3>2, <4>1, <4>2
      <4>4. MaxBurst * x \in Nat /\ MaxBurst * (a + 1) \in Nat
        BY <3>2, <4>1, <4>2
      <4> QED BY <4>3, <4>4
    <3>5. MaxBurst * (a + 1) = MaxBurst * a + MaxBurst /\ MaxBurst * a \in Nat
      BY <1>2, <3>2
    <3>6. MaxBurst * MinTime <= IndexSize /\ MaxBurst * MinTime \in Nat
      BY <2>2, <3>2 DEF IndexFits
    <3>7. e >= 1
      <4>1. HasNumber(n) /\ e = d[n]
        BY <1>1, <2>2 DEF HasNumber
      <4> QED BY <1>1, <4>1 DEF Counts
    <3> DEFINE m == MaxBurst * a
    <3>8. d[i] <= m + burst /\ m + MaxBurst <= IndexSize /\ m \in Nat
      <4>1. d[i] <= m + burst
        BY <3>1
      <4> HIDE DEF a
      <4>2. m + MaxBurst <= IndexSize
        BY <1>4, <3>2, <3>4, <3>5, <3>6
      <4> QED BY <3>5, <4>1, <4>2
    <3> HIDE DEF m, e
    <3> QED BY <1>3, <1>4, <1>5, <3>2, <3>7, <3>8
  <2> QED BY <2>1, <2>2
<1> SUFFICES ASSUME s % IndexSize = queue[i].seq % IndexSize
             PROVE  FALSE
  OBVIOUS
<1> HIDE DEF s, e
<1>8. (queue[i].seq + d[i]) % SeqSpace = (s + e) % SeqSpace
  BY <1>3, <1>5
<1>9. d[i] - e >= IndexSize
  <2>1. queue[i].seq \in Int /\ d[i] \in Int /\ e \in Int
    BY <1>2, <1>3, <1>5
  <2> QED BY <1>4, <1>5, <1>6, <1>8, <2>1, Apart
<1> QED BY <1>3, <1>4, <1>5, <1>7, <1>9

\* A packet is sent.
LEMMA CountsSend ==
  ASSUME IndexFits, QueueInv, QueueInv', Numbered, Found, SendOne
  PROVE  Numbered' /\ Found'
<1> DEFINE n == Next1(read)
           s == IF Advanced THEN nextSeq ELSE queue[n].seq
<1>1. TypeOK /\ RingExact /\ RingExact'
  BY DEF QueueInv
<1>2. /\ n # write /\ read' = n /\ burst' = burst
      /\ queue' = [k \in Slots |->
                     IF k \in Freed THEN None
                     ELSE IF k = n THEN [queue[k] EXCEPT !.seq = s] ELSE queue[k]]
      /\ nextSeq' = IF Advanced THEN (nextSeq + 1) % SeqSpace ELSE nextSeq
      /\ seqIndex' = [seqIndex EXCEPT ![s % IndexSize] = n]
  BY DEF SendOne, env, Indexed
<1>3. n \in Slots /\ queue[n] \in Buffers /\ s \in Seqs
      /\ IsUnsent(n) /\ ~IsKept(n)
  <2>1. n \in Slots /\ queue[n] # None /\ s \in Seqs
    BY SentIsThere
  <2> QED BY <1>1, <1>2, <2>1, SentPlaces, Places DEF TypeOK
<1>4. s % IndexSize \in 0 .. IndexSize - 1
      /\ seqIndex \in [0 .. IndexSize - 1 -> Slots]
  <2>1. s \in Int
    BY <1>3, Sorts DEF Seqs
  <2>2. s % IndexSize \in 0 .. IndexSize - 1
    <3> HIDE DEF s
    <3> QED BY <2>1, QueueAssumption, InRange
  <2> QED BY <1>1, <2>2 DEF TypeOK
<1>5. ASSUME NEW k \in Slots, IsKept(k)' \/ IsUnsent(k)'
      PROVE  queue'[k] = IF k = n THEN [queue[k] EXCEPT !.seq = s] ELSE queue[k]
  BY <1>1, <1>2, <1>5 DEF RingExact
<1> HIDE DEF s
<1>6. PICK d \in [Slots -> Nat] : Counts(d)
  BY DEF Numbered
<1>7. Found'
  <2> SUFFICES ASSUME NEW i \in Slots, IsKept(i)', Young(i)'
               PROVE  seqIndex'[queue'[i].seq % IndexSize] = i
    BY DEF Found, IndexOf
  <2>1. CASE i = n
    <3>1. queue'[i].seq = s
      BY <1>3, <1>5, <2>1 DEF Buffers
    <3> QED BY <1>2, <1>4, <2>1, <3>1
  <2>2. CASE i # n
    <3>1. IsKept(i) /\ queue'[i] = queue[i]
      BY <1>1, <1>5, <2>2, SentPlaces
    <3>2. Young(i)
      BY <3>1 DEF Young
    <3>3. seqIndex[queue[i].seq % IndexSize] = i
      BY <3>1, <3>2 DEF Found, IndexOf
    <3>4. s % IndexSize # queue[i].seq % IndexSize
      BY <1>1, <1>6, <3>1, <3>2, EntryFree DEF s
    <3> QED BY <1>2, <1>4, <3>1, <3>3, <3>4
  <2> QED BY <2>1, <2>2
<1>8. CASE Advanced
  <2>1. PICK e \in [Slots -> Nat] :
          e = [i \in Slots |-> IF i = n THEN 1 ELSE d[i] + 1]
    <3> DEFINE f == [i \in Slots |-> IF i = n THEN 1 ELSE d[i] + 1]
    <3>1. f \in [Slots -> Nat]
      OBVIOUS
    <3> HIDE DEF n
    <3> QED BY <3>1
  <2>2. ASSUME NEW i \in Slots, HasNumber(i)', i # n
        PROVE  /\ HasNumber(i) /\ queue'[i] = queue[i] /\ e[i] = d[i] + 1
    <3>1. IsKept(i)' /\ IsKept(i)
      BY <1>1, <1>8, <2>2, SentPlaces DEF HasNumber
    <3> QED BY <1>5, <2>1, <2>2, <3>1 DEF HasNumber
  <2>3. ASSUME NEW i \in Slots, HasNumber(i)', i = n
        PROVE  queue'[i].seq = nextSeq /\ e[i] = 1
    <3>1. IsKept(i)'
      BY <1>8, <2>3 DEF HasNumber
    <3>2. queue'[i].seq = s
      BY <1>3, <1>5, <2>3, <3>1 DEF Buffers
    <3> QED BY <1>8, <2>1, <2>3, <3>2 DEF s
  <2>4. nextSeq \in Int /\ nextSeq' = (nextSeq + 1) % SeqSpace
    BY <1>1, <1>2, <1>8, Sorts DEF TypeOK, Seqs
  <2>5. ASSUME NEW i \in Slots, HasNumber(i)'
        PROVE  e[i] >= 1 /\ (queue'[i].seq + e[i]) % SeqSpace = nextSeq'
    <3>1. CASE i = n
      BY <2>3, <2>4, <2>5, <3>1
    <3>2. CASE i # n
      <4>1. HasNumber(i) /\ queue'[i] = queue[i] /\ e[i] = d[i] + 1
        BY <2>2, <2>5, <3>2
      <4>2. d[i] >= 1 /\ (queue[i].seq + d[i]) % SeqSpace = nextSeq
        BY <1>6, <4>1 DEF Counts
      <4>3. queue[i].seq \in Int /\ d[i] \in Nat
        BY <1>1, <4>1, NumberedThere
      <4>4. queue[i].seq + d[i] \in Int
            /\ (queue[i].seq + d[i]) + 1 = queue[i].seq + (d[i] + 1)
        BY <4>3
      <4>5. ((queue[i].seq + d[i]) + 1) % SeqSpace = (nextSeq + 1) % SeqSpace
        BY <4>2, <4>4, Sorts, NumberAfter
      <4> QED BY <2>4, <4>1, <4>3, <4>4, <4>5
    <3> QED BY <3>1, <3>2
  <2>6. ASSUME NEW i \in Slots, HasNumber(i)', Young(i)'
        PROVE  e[i] <= ((read' - i) % QueueMax) + 1
    <3>1. CASE i = n
      <4>1. (read' - i) % QueueMax = 0
        <5>1. read' - i = 0
          BY <1>2, <1>3, <3>1, Sorts DEF Slots
        <5> QED BY <5>1, Sorts
      <4> QED BY <2>3, <2>6, <3>1, <4>1
    <3>2. CASE i # n
      <4>1. HasNumber(i) /\ queue'[i] = queue[i] /\ e[i] = d[i] + 1
        BY <2>2, <2>6, <3>2
      <4>2. Young(i)
        BY <2>6, <4>1 DEF Young
      <4>3. d[i] <= ((read - i) % QueueMax) + 1 /\ d[i] \in Nat
        BY <1>6, <1>8, <4>1, <4>2 DEF Counts
      <4>4. /\ (read' - i) % QueueMax = ((read - i) % QueueMax) + 1
            /\ (read - i) % QueueMax \in Nat
        BY <1>1, <3>2, SentPlaces
      <4> QED BY <4>1, <4>3, <4>4
    <3> QED BY <3>1, <3>2
  <2>7. Counts(e)'
    BY <1>8, <2>5, <2>6 DEF Counts
  <2> QED BY <1>7, <2>7 DEF Numbered
<1>9. CASE ~Advanced
  <2>1. ASSUME NEW i \in Slots, HasNumber(i)'
        PROVE  /\ HasNumber(i) /\ queue'[i].seq = queue[i].seq
               /\ queue'[i].age = queue[i].age
    <3>1. HasNumber(i)
      BY <1>1, <1>3, <1>9, <2>1, SentPlaces DEF HasNumber
    <3>2. queue'[i] = IF i = n THEN [queue[i] EXCEPT !.seq = s] ELSE queue[i]
      BY <1>5, <2>1 DEF HasNumber
    <3>3. s = queue[n].seq
      BY <1>9 DEF s
    <3> HIDE DEF n
    <3> QED BY <1>3, <3>1, <3>2, <3>3 DEF Buffers
  <2>2. \A i \in Slots : HasNumber(i)' =>
          d[i] >= 1 /\ (queue'[i].seq + d[i]) % SeqSpace = nextSeq'
    BY <1>2, <1>6, <1>9, <2>1 DEF Counts
  <2>3. \A i \in Slots : HasNumber(i)' /\ Young(i)' =>
          d[i] <= MaxBurst * queue'[i].age + burst'
    BY <1>2, <1>6, <1>9, <2>1 DEF Counts, Young
  <2>4. ASSUME NEW i \in Slots, NEW j \in Slots,
               HasNumber(i)', IsUnsent(j)', Before(i, j)'
        PROVE  d[i] > d[j]
    <3>1. IsUnsent(j) /\ j # n /\ HasNumber(i)
      BY <1>1, <2>1, <2>4, SentPlaces
    <3>2. Before(i, j)
      <4> DEFINE p(k) == (k - read - 1) % QueueMax
      <4>1. p(j) \in Nat /\ p(i) \in Nat /\ (j - read' - 1) % QueueMax = p(j) - 1
            /\ (i # n => (i - read' - 1) % QueueMax = p(i) - 1)
            /\ (i = n => p(i) = 0)
        BY <1>1, <3>1, SentPlaces
      <4>2. CASE i = n
        <5>1. IsUnsent(j)' /\ (j - read' - 1) % QueueMax \in Nat
          <6>1. j - read' - 1 \in Int
            BY <1>2, <1>3, Sorts DEF Slots
          <6> QED BY <2>4, <6>1, Sorts, InRange
        <5>2. p(j) > 0
          BY <4>1, <5>1
        <5> QED BY <4>1, <4>2, <5>2 DEF Before
      <4>3. CASE i # n
        <5>1. IsKept(i)' => IsKept(i)
          BY <1>1, <4>3, SentPlaces
        <5>2. CASE IsKept(i)'
          BY <5>1, <5>2 DEF Before
        <5>3. CASE ~IsKept(i)'
          <6>1. p(i) - 1 < p(j) - 1
            BY <2>4, <4>1, <4>3, <5>3 DEF Before
          <6>2. p(i) < p(j)
            <7> HIDE DEF p
            <7> QED BY <4>1, <6>1
          <6> QED BY <6>2 DEF Before
        <5> QED BY <5>2, <5>3
      <4> QED BY <4>2, <4>3
    <3> QED BY <1>6, <1>9, <3>1, <3>2 DEF Counts
  <2>5. Counts(d)'
    BY <1>9, <2>2, <2>3, <2>4 DEF Counts
  <2> QED BY <1>7, <2>5 DEF Numbered
<1> QED BY <1>8, <1>9

\* Requests, answers and peers move no packet and give no number.
LEMMA CountsRest ==
  ASSUME QueueInv, QueueInv', Numbered, Found, [Next]_vars, ~Write, ~SendOne, ~Tick
  PROVE  Numbered' /\ Found'
<1>1. TypeOK /\ RingExact
  BY DEF QueueInv
<1>2. UNCHANGED <<write, read, bufferSize, nextSeq, seqIndex, burst>>
  BY DEF Next, Pass, BeginPass, EndData, SkipRetry, SendRetry, EndNacks, RecvNack,
         Destroy, Create, vars, ring, env, retry
<1>3. ASSUME NEW i \in Slots, queue[i] # None
      PROVE  queue'[i].seq = queue[i].seq /\ queue'[i].age = queue[i].age
  <2>1. queue[i] \in Buffers /\ queue \in [Slots -> Buffers \cup {None}]
    BY <1>1, <1>3 DEF TypeOK
  <2>2. CASE queue' = queue
    BY <2>2
  <2>3. ASSUME NEW p \in Peers, NEW q \in Seqs, RecvNack(p, q)
        PROVE  queue'[i].seq = queue[i].seq /\ queue'[i].age = queue[i].age
    <3> DEFINE x == IndexOf(q)
               y == \/ queue[x].queued
                    \/ Rtt > 0 /\ Cardinality(peers) = 1 /\ queue[x].asked # None
    <3>1. queue' = [queue EXCEPT ![x].asked = 0, ![x].queued = y]
      BY <2>3 DEF RecvNack
    <3> HIDE DEF x, y
    <3> QED BY <2>1, <3>1 DEF Buffers
  <2>4. ASSUME NEW sends \in BOOLEAN, SendRetry(sends)
        PROVE  queue'[i].seq = queue[i].seq /\ queue'[i].age = queue[i].age
    <3> DEFINE x == IndexOf(retries[Turn1(retryRead)].seq)
               y == IF sends THEN queue[x].count + 1 ELSE queue[x].count
    <3>1. queue' = [queue EXCEPT ![x].queued = FALSE, ![x].count = y]
      BY <2>4 DEF SendRetry
    <3> HIDE DEF x, y
    <3> QED BY <2>1, <3>1 DEF Buffers
  <2>5. \/ queue' = queue
        \/ \E p \in Peers, q \in Seqs : RecvNack(p, q)
        \/ \E sends \in BOOLEAN : SendRetry(sends)
    BY DEF Next, Pass, BeginPass, EndData, SkipRetry, EndNacks, Destroy, Create,
           vars, ring
  <2> QED BY <2>2, <2>3, <2>4, <2>5
<1>4. ASSUME NEW i \in Slots, queue[i] # None
      PROVE  MaxBurst * queue[i].age + burst <= MaxBurst * queue'[i].age + burst'
  <2>1. queue[i] \in Buffers /\ burst \in Int /\ MaxBurst \in Int
    BY <1>1, <1>4, QueueAssumption DEF TypeOK
  <2>2. MaxBurst * queue[i].age + burst \in Int
    BY <2>1 DEF Buffers
  <2> QED BY <1>2, <1>3, <1>4, <2>2
<1> QED BY <1>2, <1>3, <1>4, CountsStay

\* Everything gets older by one, and the burst starts anew.
LEMMA CountsTick ==
  ASSUME QueueInv, QueueInv', Numbered, Found, Tick
  PROVE  Numbered' /\ Found'
<1>1. UNCHANGED <<write, read, bufferSize, nextSeq, seqIndex>> /\ burst' = 0
  BY DEF Tick
<1>2. ASSUME NEW i \in Slots, queue[i] # None
      PROVE  /\ queue'[i].seq = queue[i].seq
             /\ queue'[i].age < MinTime =>
                  /\ queue[i].age < MinTime
                  /\ MaxBurst * queue[i].age + burst
                       <= MaxBurst * queue'[i].age + burst'
  <2>1. queue[i] \in Buffers /\ burst \in 0 .. MaxBurst /\ MaxBurst \in Nat
        /\ MinTime \in Nat /\ MinTime < OldPacket /\ OldPacket \in Nat
    BY <1>2, QueueAssumption DEF QueueInv, TypeOK, OldPacket
  <2>2. queue'[i] = [queue[i] EXCEPT !.age = Older(@, OldPacket),
                       !.asked = IF @ = None THEN None ELSE Older(@, Rtt)]
    BY <1>2 DEF Tick
  <2>3. queue'[i].seq = queue[i].seq /\ queue'[i].age = Older(queue[i].age, OldPacket)
    BY <2>1, <2>2 DEF Buffers
  <2>4. queue[i].age \in 0 .. OldPacket
    BY <2>1 DEF Buffers
  <2> DEFINE a == queue[i].age
             b == queue'[i].age
  <2>5. b < MinTime => a < MinTime /\ b = a + 1
    BY <2>1, <2>3, <2>4 DEF Older
  <2>6. MaxBurst * (a + 1) = MaxBurst * a + MaxBurst /\ MaxBurst * a \in Nat
    BY <2>1, <2>4
  <2>7. b = a + 1 => MaxBurst * a + burst <= MaxBurst * b + burst'
    <3>1. MaxBurst * a + burst <= MaxBurst * (a + 1) + 0
      <4> DEFINE m == MaxBurst * a
      <4>1. MaxBurst * (a + 1) = m + MaxBurst /\ m \in Nat
        BY <2>6
      <4> HIDE DEF m, a
      <4> QED BY <2>1, <4>1 DEF m
    <3> QED BY <1>1, <3>1
  <2> QED BY <2>3, <2>5, <2>7
<1> QED BY <1>1, <1>2, CountsStay

\* When seq_index is large enough for the packets that may be kept, a request for
\* one that is younger than sender_recover_min_time finds it, however the numbers
\* and the slots wrap.
THEOREM AlwaysFound ==
  ASSUME IndexFits
  PROVE  Spec => []Found
<1>1. Init => Numbered /\ Found
  BY CountsStart
<1>2. QueueInv /\ QueueInv' /\ Numbered /\ Found /\ [Next]_vars
        => Numbered' /\ Found'
  BY CountsWrite, CountsSend, CountsTick, CountsRest
<1> QED BY <1>1, <1>2, QueueCorrect, PTL DEF Spec

-----------------------------------------------------------------------------
(* Requests from several peers are paced.                                  *)

\* A set of natural numbers that is not empty has a least element.
LEMMA Least ==
  ASSUME NEW S, S \subseteq Nat, S # {}
  PROVE  \E x \in S : \A y \in S : x <= y
<1> DEFINE R == OpToRel(<, Nat)
<1>1. PICK x \in S : \A y \in S : ~(<<y, x>> \in R)
  <2>1. IsWellFoundedOn(R, Nat)
    BY NatLessThanWellFounded
  <2> HIDE DEF R
  <2> QED BY <2>1, WFMin
<1>2. ASSUME NEW y \in S PROVE x <= y
  <2>1. x \in Nat /\ y \in Nat /\ ~(<<y, x>> \in R)
    BY <1>1
  <2> QED BY <2>1 DEF OpToRel
<1> QED BY <1>2

\* The retry that was queued d turns ago, and what each of them keeps: the later
\* it was queued the younger it is.
Back(d)       == retries[(retryWrite - d) % RetryMax]
Chronological == \A d, e \in 1 .. RetryMax : d <= e => Back(d).age <= Back(e).age

\* Going back from the turn that is written next.
LEMMA BackTurn ==
  ASSUME NEW w \in Turns, NEW d \in 1 .. RetryMax
  PROVE  (w - d) % RetryMax = IF d <= w THEN w - d ELSE w - d + RetryMax
<1>1. RetryMax \in Nat \ {0} /\ w \in 0 .. RetryMax - 1
  BY Sorts DEF Turns
<1>2. CASE d <= w
  <2>1. w - d \in 0 .. RetryMax - 1
    BY <1>1, <1>2
  <2> QED BY <1>1, <1>2, <2>1
<1>3. CASE ~(d <= w)
  <2>1. CASE d = RetryMax
    <3>1. (w - RetryMax) % RetryMax = w
      BY <1>1
    <3> QED BY <1>1, <1>3, <2>1, <3>1
  <2>2. CASE d # RetryMax
    <3>1. d \in 0 .. RetryMax - 1
      BY <1>1, <2>2
    <3> QED BY <1>1, <1>3, <3>1, Distance
  <2> QED BY <2>1, <2>2
<1> QED BY <1>2, <1>3

\* Each turn is one of those.
LEMMA TurnBack ==
  ASSUME TypeOK, NEW t \in Turns
  PROVE  \E d \in 1 .. RetryMax : retries[t] = Back(d)
<1> DEFINE d == IF t < retryWrite THEN retryWrite - t ELSE retryWrite - t + RetryMax
<1>1. retryWrite \in Turns /\ retryWrite \in 0 .. RetryMax - 1
      /\ t \in 0 .. RetryMax - 1 /\ RetryMax \in Nat
  BY Sorts DEF TypeOK, Turns
<1>2. d \in 1 .. RetryMax
  BY <1>1
<1>3. (retryWrite - d) % RetryMax
        = IF d <= retryWrite THEN retryWrite - d ELSE retryWrite - d + RetryMax
  <2> HIDE DEF d
  <2> QED BY <1>1, <1>2, BackTurn
<1>4. (IF d <= retryWrite THEN retryWrite - d ELSE retryWrite - d + RetryMax) = t
  BY <1>1
<1>5. retries[t] = Back(d)
  BY <1>3, <1>4 DEF Back
<1> QED BY <1>2, <1>5

LEMMA BackType ==
  ASSUME TypeOK, NEW d \in 1 .. RetryMax
  PROVE  Back(d) \in Retries /\ Back(d).age \in 0 .. OldRetry
<1>1. retryWrite - d \in Int
  BY Sorts DEF TypeOK, Turns
<1>2. (retryWrite - d) % RetryMax \in Turns
  BY <1>1, Sorts, InRange DEF Turns
<1> QED BY <1>2 DEF Back, TypeOK, Retries

\* A step that queues no retry leaves their order.
LEMMA OrderStays ==
  ASSUME TypeOK, Chronological, retryWrite' = retryWrite,
         \A t \in Turns : retries'[t].age = retries[t].age
  PROVE  Chronological'
<1>1. ASSUME NEW d \in 1 .. RetryMax PROVE Back(d)'.age = Back(d).age
  <2>1. retryWrite - d \in Int
    BY Sorts DEF TypeOK, Turns
  <2>2. (retryWrite - d) % RetryMax \in Turns
    BY <2>1, Sorts, InRange DEF Turns
  <2> QED BY <2>2 DEF Back
<1> QED BY <1>1 DEF Chronological

LEMMA OrderKept ==
  QueueInv /\ Chronological /\ [Next]_vars => Chronological'
<1> SUFFICES ASSUME QueueInv, Chronological, [Next]_vars PROVE Chronological'
  OBVIOUS
<1>0. TypeOK /\ retries \in [Turns -> Retries] /\ retryWrite \in Turns
  BY DEF QueueInv, TypeOK
<1>1. CASE UNCHANGED <<retries, retryWrite>>
  BY <1>0, <1>1, OrderStays
<1>2. CASE SkipRetry
  <2> DEFINE n == Turn1(retryRead)
             a == retries[n].active /\ retries[n].peer # None
  <2>1. retries' = [retries EXCEPT ![n].active = a] /\ retryWrite' = retryWrite
    BY <1>2 DEF SkipRetry
  <2> HIDE DEF n, a
  <2>2. \A t \in Turns : retries'[t].age = retries[t].age
    BY <1>0, <2>1 DEF Retries
  <2> QED BY <1>0, <2>1, <2>2, OrderStays
<1>3. ASSUME NEW sends \in BOOLEAN, SendRetry(sends) PROVE Chronological'
  <2> DEFINE n == Turn1(retryRead)
  <2>1. retries' = [retries EXCEPT ![n].active = FALSE] /\ retryWrite' = retryWrite
    BY <1>3 DEF SendRetry
  <2> HIDE DEF n
  <2>2. \A t \in Turns : retries'[t].age = retries[t].age
    BY <1>0, <2>1 DEF Retries
  <2> QED BY <1>0, <2>1, <2>2, OrderStays
<1>4. ASSUME NEW p \in Peers, Destroy(p) PROVE Chronological'
  <2>1. \A t \in Turns : retries'[t].age = retries[t].age
    BY <1>0, <1>4 DEF Destroy, Retries
  <2> QED BY <1>0, <1>4, <2>1, OrderStays DEF Destroy
<1>5. CASE Tick
  <2>1. \A t \in Turns : retries'[t] = [retries[t] EXCEPT !.age = Older(@, OldRetry)]
    BY <1>5 DEF Tick
  <2>2. retryWrite' = retryWrite
    BY <1>5 DEF Tick
  <2>3. ASSUME NEW d \in 1 .. RetryMax
        PROVE  Back(d)'.age = Older(Back(d).age, OldRetry)
               /\ Back(d).age \in 0 .. OldRetry
    <3>1. retryWrite - d \in Int
      BY <1>0, Sorts DEF Turns
    <3>2. (retryWrite - d) % RetryMax \in Turns
      BY <3>1, Sorts, InRange DEF Turns
    <3>3. Back(d)' = [Back(d) EXCEPT !.age = Older(@, OldRetry)]
      BY <2>1, <2>2, <3>2 DEF Back
    <3>4. Back(d) \in Retries /\ Back(d).age \in 0 .. OldRetry
      BY <1>0, BackType
    <3> QED BY <3>3, <3>4 DEF Retries
  <2>4. ASSUME NEW a \in 0 .. OldRetry, NEW b \in 0 .. OldRetry, a <= b
        PROVE  Older(a, OldRetry) <= Older(b, OldRetry)
    BY <2>4, Sorts DEF Older
  <2> QED BY <2>3, <2>4 DEF Chronological
<1>6. ASSUME NEW p \in Peers, NEW s \in Seqs, RecvNack(p, s) PROVE Chronological'
  <2> DEFINE new == [seq |-> s, peer |-> p, age |-> 0, active |-> TRUE]
             w == retryWrite
  <2>1. /\ retries' = [retries EXCEPT ![w] = new]
        /\ retryWrite' = Turn1(w) /\ Turn1(w) \in Turns
    BY <1>0, <1>6, NextInRange DEF RecvNack
  <2>2. w \in 0 .. RetryMax - 1 /\ RetryMax \in Nat \ {0} /\ RetryMax >= 2
    BY <1>0, Sorts, QueueAssumption DEF Turns
  <2>3. Turn1(w) = IF w = RetryMax - 1 THEN 0 ELSE w + 1
    BY <2>2, NextWraps DEF Turn1
  <2>4. ASSUME NEW d \in 1 .. RetryMax
        PROVE  Back(d)'.age = IF d = 1 THEN 0 ELSE Back(d - 1).age
    <3> DEFINE x == (Turn1(w) - d) % RetryMax
    <3>1. x = IF d <= Turn1(w) THEN Turn1(w) - d ELSE Turn1(w) - d + RetryMax
      BY <2>1, BackTurn
    <3>2. Back(d)' = retries'[x]
      BY <2>1 DEF Back
    <3>3. CASE d = 1
      <4>1. x = w
        <5> HIDE DEF w, x
        <5> QED BY <2>2, <2>3, <3>1, <3>3
      <4> QED BY <1>0, <2>1, <3>2, <3>3, <4>1
    <3>4. CASE d # 1
      <4>1. d - 1 \in 1 .. RetryMax
        BY <2>2, <3>4
      <4> DEFINE y == (w - (d - 1)) % RetryMax
      <4>2. y = IF d - 1 <= w THEN w - (d - 1) ELSE w - (d - 1) + RetryMax
        BY <1>0, <4>1, BackTurn
      <4>3. x = y /\ x # w /\ x \in 0 .. RetryMax - 1
        <5> HIDE DEF w, x, y
        <5> QED BY <2>2, <2>3, <3>1, <3>4, <4>2
      <4>4. retries'[x] = retries[y]
        <5>1. x \in Turns
          BY <4>3 DEF Turns
        <5> QED BY <1>0, <2>1, <4>3, <5>1
      <4> QED BY <3>2, <3>4, <4>4 DEF Back
    <3> QED BY <3>3, <3>4
  <2>5. \A d \in 1 .. RetryMax : Back(d).age \in Nat
    <3>1. OldRetry \in Nat
      BY Sorts
    <3> QED BY <1>0, <3>1, BackType
  <2>6. ASSUME NEW d \in 1 .. RetryMax, NEW e \in 1 .. RetryMax, d <= e
        PROVE  Back(d)'.age <= Back(e)'.age
    <3>1. CASE d = 1
      <4>1. e # 1 => e - 1 \in 1 .. RetryMax
        BY <2>2
      <4> QED BY <2>4, <2>5, <3>1, <4>1
    <3>2. CASE d # 1
      <4>1. e # 1 /\ d - 1 \in 1 .. RetryMax /\ e - 1 \in 1 .. RetryMax
            /\ d - 1 <= e - 1
        BY <2>2, <2>6, <3>2
      <4> QED BY <2>4, <3>2, <4>1 DEF Chronological
    <3> QED BY <3>1, <3>2
  <2> QED BY <2>6 DEF Chronological
<1> QED
  BY <1>1, <1>2, <1>3, <1>4, <1>5, <1>6
  DEF Next, Pass, Write, BeginPass, SendOne, EndData, EndNacks, Create, vars, retry

\* What the search of rist_retry_enqueue comes to.
LEMMA SearchStops ==
  ASSUME TypeOK, NEW p, NEW s
  PROVE  \E f \in 1 .. RetryMax :
           /\ LastRetry(p, s) = Back(f)
           /\ \/ f = RetryMax \/ Back(f).age > Search
              \/ Back(f).seq = s /\ Back(f).peer = p
           /\ \A k \in 1 .. f - 1 : ~(Back(k).seq = s /\ Back(k).peer = p)
<1> DEFINE stops(d) == d = RetryMax \/ Back(d).age > Search
                       \/ (Back(d).seq = s /\ Back(d).peer = p)
           stopping == {d \in 1 .. RetryMax : stops(d)}
           isFirst(d) == stops(d) /\ \A k \in 1 .. d - 1 : ~stops(k)
           first == CHOOSE d \in 1 .. RetryMax : isFirst(d)
<1>1. LastRetry(p, s) = Back(first)
  BY DEF LastRetry, Back
<1>2. RetryMax \in 1 .. RetryMax /\ RetryMax \in Nat
  BY QueueAssumption
<1>3. \E d \in 1 .. RetryMax : isFirst(d)
  <2>1. stopping \subseteq Nat /\ stopping # {}
    BY <1>2
  <2> HIDE DEF stops
  <2>2. PICK x \in stopping : \A y \in stopping : x <= y
    BY <2>1, Least
  <2>3. ASSUME NEW k \in 1 .. x - 1 PROVE ~stops(k)
    <3>1. k \in 1 .. RetryMax /\ ~(x <= k)
      BY <1>2
    <3> QED BY <2>2, <3>1
  <2> QED BY <2>2, <2>3
<1>4. first \in 1 .. RetryMax /\ isFirst(first)
  <2> HIDE DEF isFirst
  <2> QED BY <1>3
<1> HIDE DEF first
<1> QED BY <1>1, <1>4

\* With several peers the search finds a request for the same packet that the same
\* peer made less than an RTT ago, as long as the queue of retries has it, and
\* none more is taken.  (The test that a sender with one peer makes instead looks
\* at the packet in the slot, whichever it is.)
SearchPaces ==
  [][retryWrite' # retryWrite /\ Cardinality(peers) # 1 =>
       \A t \in Turns :
         (/\ retries[t].peer = retries'[retryWrite].peer
          /\ retries[t].seq = retries'[retryWrite].seq) => retries[t].age >= Rtt]_vars

\* A sender with several peers paces their requests: the search finds the last
\* one of a peer for a packet, since the requests stand in order of time.
THEOREM PeersArePaced == Spec => SearchPaces
<1> DEFINE Spaced == retryWrite' # retryWrite /\ Cardinality(peers) # 1 =>
       \A t \in Turns :
         (/\ retries[t].peer = retries'[retryWrite].peer
          /\ retries[t].seq = retries'[retryWrite].seq) => retries[t].age >= Rtt
<1>1. ASSUME QueueInv, Chronological, Next PROVE Spaced
  <2> SUFFICES ASSUME retryWrite' # retryWrite, Cardinality(peers) # 1,
                      NEW t \in Turns,
                      retries[t].peer = retries'[retryWrite].peer,
                      retries[t].seq = retries'[retryWrite].seq,
                      ~(retries[t].age >= Rtt)
               PROVE  FALSE
    OBVIOUS
  <2>0. TypeOK /\ retries \in [Turns -> Retries] /\ retryWrite \in Turns
        /\ Rtt \in Nat /\ Search \in Nat /\ Rtt <= Search /\ RetryMax \in Nat
    BY <1>1, QueueAssumption DEF QueueInv, TypeOK
  <2>1. PICK p \in Peers, s \in Seqs : RecvNack(p, s)
    BY <1>1 DEF Next, Pass, Write, BeginPass, SendOne, EndData, SkipRetry, SendRetry,
                EndNacks, Tick, Destroy, Create, retry
  <2>2. retries[t].peer = p /\ retries[t].seq = s
    BY <2>0, <2>1 DEF RecvNack
  <2>3. PICK d \in 1 .. RetryMax : retries[t] = Back(d)
    BY <2>0, TurnBack
  <2>4. PICK f \in 1 .. RetryMax :
           /\ LastRetry(p, s) = Back(f)
           /\ \/ f = RetryMax \/ Back(f).age > Search
              \/ Back(f).seq = s /\ Back(f).peer = p
           /\ \A k \in 1 .. f - 1 : ~(Back(k).seq = s /\ Back(k).peer = p)
    BY <2>0, SearchStops
  <2>5. f <= d
    <3>1. d \notin 1 .. f - 1
      BY <2>2, <2>3, <2>4
    <3> QED BY <3>1
  <2>6. Back(f).age <= Back(d).age /\ Back(d).age < Rtt
        /\ Back(f).age \in Nat /\ Back(d).age \in Nat
    <3>1. Back(f).age \in Nat /\ Back(d).age \in Nat
      <4>1. OldRetry \in Nat
        BY Sorts
      <4> QED BY <2>0, <4>1, BackType
    <3> QED BY <1>1, <2>0, <2>3, <2>5, <3>1 DEF Chronological
  <2>7. Back(f).age < Rtt /\ ~(Back(f).age > Search)
    BY <2>0, <2>6
  <2>8. Back(f).seq = s /\ Back(f).peer = p
    <3>1. CASE f = RetryMax
      <4>1. f = d
        BY <2>0, <2>5, <3>1
      <4> QED BY <2>2, <2>3, <4>1
    <3> QED BY <2>4, <2>7, <3>1
  <2>9. Refused(p, s, queue[IndexOf(s)])
    <3>1. Rtt > 0
      BY <2>0, <2>6
    <3> QED BY <2>4, <2>7, <2>8, <3>1 DEF Refused
  <2> QED BY <2>1, <2>9 DEF RecvNack
<1>2. QueueInv /\ Chronological /\ [Next]_vars => [Spaced]_vars
  <2> HIDE DEF Spaced
  <2> QED BY <1>1
<1>3. Init => Chronological
  <2> SUFFICES ASSUME Init, NEW d \in 1 .. RetryMax
               PROVE  Back(d).age = OldRetry
    BY Sorts DEF Chronological
  <2>1. TypeOK
    BY QueueStarts DEF QueueInv
  <2>2. retryWrite - d \in Int
    BY <2>1, Sorts DEF TypeOK, Turns
  <2>3. (retryWrite - d) % RetryMax \in Turns
    BY <2>2, Sorts, InRange DEF Turns
  <2> QED BY <2>3 DEF Back, Init
<1> QED
  BY <1>2, <1>3, QueueCorrect, OrderKept, PTL DEF Spec, SearchPaces
=============================================================================
