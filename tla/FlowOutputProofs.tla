-------------------------- MODULE FlowOutputProofs --------------------------
(***************************************************************************)
(* For a FIFO of any size, any number of readers and any flow: the         *)
(* reference counts of the blocks are exact, and a reader that misses      *)
(* blocks is told.                                                         *)
(***************************************************************************)
EXTENDS FlowOutput, TLAPS

-----------------------------------------------------------------------------
(* The arithmetic of the FIFO's indices.                                   *)

\* The place after i wraps at the end.
LEMMA NextWraps ==
  ASSUME NEW n \in Nat \ {0}, NEW i \in 0 .. n - 1
  PROVE  (i + 1) % n = IF i = n - 1 THEN 0 ELSE i + 1
BY SMT

\* The distance from j to i in a ring of n places.
LEMMA Distance ==
  ASSUME NEW n \in Nat \ {0}, NEW i \in 0 .. n - 1, NEW j \in 0 .. n - 1
  PROVE  (i - j) % n = IF j <= i THEN i - j ELSE i - j + n
BY SMT

\* When w moves on, and does not reach r, the places from r up to w are those
\* of before and w.
LEMMA WriteMoves ==
  ASSUME NEW n \in Nat \ {0}, NEW w \in 0 .. n - 1, NEW r \in 0 .. n - 1,
         ((w - r) % n) + 1 # n, NEW i \in 0 .. n - 1,
         i = w \/ (i - r) % n < (w - r) % n
  PROVE  (i - r) % n < (((w + 1) % n) - r) % n
<1> DEFINE v == (w + 1) % n
<1>1. v = IF w = n - 1 THEN 0 ELSE w + 1
  BY NextWraps
<1>2. v \in 0 .. n - 1
  BY <1>1
<1>3. (v - r) % n = IF r <= v THEN v - r ELSE v - r + n
  BY <1>2, Distance
<1>4. (w - r) % n = IF r <= w THEN w - r ELSE w - r + n
  BY Distance
<1>5. (i - r) % n = IF r <= i THEN i - r ELSE i - r + n
  BY Distance
<1> HIDE DEF v
<1>6. (i - r) % n < (v - r) % n
  BY <1>1, <1>3, <1>4, <1>5
<1> QED
  BY <1>6 DEF v

\* When r moves on, the places from r up to w are those of before without r.
LEMMA ReadMoves ==
  ASSUME NEW n \in Nat \ {0}, NEW w \in 0 .. n - 1, NEW r \in 0 .. n - 1,
         NEW i \in 0 .. n - 1, i # r, (i - r) % n < (w - r) % n,
         NEW q, q = (r + 1) % n
  PROVE  (i - q) % n < (w - q) % n
<1>1. q = IF r = n - 1 THEN 0 ELSE r + 1
  BY NextWraps
<1>2. q \in 0 .. n - 1
  BY <1>1
<1>3. (w - q) % n = IF q <= w THEN w - q ELSE w - q + n
  BY <1>2, Distance
<1>4. (i - q) % n = IF q <= i THEN i - q ELSE i - q + n
  BY <1>2, Distance
<1>5. (w - r) % n = IF r <= w THEN w - r ELSE w - r + n
  BY Distance
<1>6. (i - r) % n = IF r <= i THEN i - r ELSE i - r + n
  BY Distance
<1> QED
  BY <1>1, <1>3, <1>4, <1>5, <1>6

-----------------------------------------------------------------------------
(* The steps.                                                              *)

\* An empty FIFO and no block.
LEMMA FifoStarts == ASSUME OutputInit PROVE Fifo!FifoInv
<1> USE OutputAssumption DEF OutputInit, Fifo!FifoInit
<1>1. Fifo!FifoTypes
  BY DEF Fifo!FifoTypes, Fifo!Places, Fifo!Addresses
<1>2. \A i \in Fifo!Places : fifo[i] = NULL
  OBVIOUS
<1>3. NULL \notin Fifo!Addresses
  BY DEF Fifo!Addresses
<1>4. Fifo!RefsExact
  BY <1>2, <1>3 DEF Fifo!RefsExact, Fifo!InFifo, Fifo!Holds
<1> QED
  BY <1>1, <1>2, <1>4 DEF Fifo!FifoInv

\* A block comes out of the flow.
LEMMA PutKeeps ==
  ASSUME Fifo!FifoInv, NEW a \in Fifo!Addresses, NEW keeps \in BOOLEAN,
         Fifo!PutAt(a, keeps)
  PROVE  Fifo!FifoInv'
<1> USE OutputAssumption
<1> DEFINE kept == IF keeps THEN 1 ELSE 0
<1>1. /\ Fifo!FifoTypes /\ Fifo!RefsExact
      /\ \A i \in Fifo!Places : fifo[i] # NULL => Fifo!Filled(i) /\ fifo[i] \notin taken
  BY DEF Fifo!FifoInv
<1>2. NULL \notin Fifo!Addresses /\ NULL \notin Nat
  BY DEF Fifo!Addresses
<1>3. /\ block[a] = NULL /\ refs[a] = 0
      /\ ~Fifo!InFifo(a) /\ a \notin called /\ a \notin taken
  <2>1. block[a] = NULL
    BY DEF Fifo!PutAt, Fifo!Unused
  <2>2. refs[a] = 0
    BY <1>1, <2>1 DEF Fifo!RefsExact
  <2>3. 0 = Fifo!Holds(Fifo!InFifo(a)) + Fifo!Holds(a \in called)
            + Fifo!Holds(a \in taken)
    BY <1>1, <2>2 DEF Fifo!RefsExact
  <2> QED
    BY <2>1, <2>2, <2>3 DEF Fifo!Holds
<1>4. /\ puts' = puts + 1 /\ taken' = taken /\ mode' = mode /\ puts \in Nat
      /\ called' = IF keeps THEN called \cup {a} ELSE called
      /\ keeps => mode = "callback"
      /\ readIndex' = readIndex
  BY <1>1 DEF Fifo!PutAt, Fifo!queue, Fifo!FifoTypes
<1>5. CASE Fifo!Full
  <2>1. /\ fifo' = fifo /\ writeIndex' = writeIndex
        /\ refs' = [refs EXCEPT ![a] = kept]
        /\ block' = [block EXCEPT ![a] = IF kept = 0 THEN NULL ELSE puts]
    BY <1>5 DEF Fifo!PutAt, Fifo!Create, Fifo!queue
  <2>2. Fifo!FifoTypes'
    BY <1>1, <1>4, <2>1 DEF Fifo!FifoTypes
  <2>3. ASSUME NEW b \in Fifo!Addresses
        PROVE  /\ refs'[b] = Fifo!Holds(Fifo!InFifo(b)') + Fifo!Holds(b \in called')
                             + Fifo!Holds(b \in taken')
               /\ block'[b] = NULL <=> refs'[b] = 0
    <3>1. Fifo!InFifo(b)' <=> Fifo!InFifo(b)
      BY <2>1 DEF Fifo!InFifo
    <3>2. CASE b = a
      BY <1>1, <1>2, <1>3, <1>4, <2>1, <3>1, <3>2 DEF Fifo!Holds, Fifo!FifoTypes
    <3>3. CASE b # a
      BY <1>1, <1>4, <2>1, <3>1, <3>3 DEF Fifo!Holds, Fifo!FifoTypes, Fifo!RefsExact
    <3> QED
      BY <3>2, <3>3
  <2>4. Fifo!RefsExact'
    BY <1>1, <2>1, <2>3 DEF Fifo!RefsExact
  <2>5. (\A i \in Fifo!Places : fifo[i] # NULL => Fifo!Filled(i) /\ fifo[i] \notin taken)'
    BY <1>1, <1>4, <2>1 DEF Fifo!Filled, Fifo!Count
  <2> QED
    BY <2>2, <2>4, <2>5 DEF Fifo!FifoInv
<1>6. CASE ~Fifo!Full
  <2> DEFINE n == IF mode = "fd" THEN 0 ELSE kept + 1
  <2>1. /\ fifo' = [fifo EXCEPT ![writeIndex] = IF mode = "fd" THEN NULL ELSE a]
        /\ writeIndex' = (writeIndex + 1) % FifoSize
        /\ refs' = [refs EXCEPT ![a] = n]
        /\ block' = [block EXCEPT ![a] = IF n = 0 THEN NULL ELSE puts]
    BY <1>6 DEF Fifo!PutAt, Fifo!Create, Fifo!Stored, Fifo!NextPlace
  <2>2. writeIndex \in Fifo!Places /\ readIndex \in Fifo!Places
    BY <1>1 DEF Fifo!FifoTypes
  <2>3. writeIndex' \in Fifo!Places
    BY <2>1, <2>2, NextWraps DEF Fifo!Places
  <2>4. Fifo!FifoTypes'
    BY <1>1, <1>4, <2>1, <2>3 DEF Fifo!FifoTypes
  <2>5. fifo[writeIndex] = NULL
    <3>1. ~Fifo!Filled(writeIndex)
      BY <2>2, Distance DEF Fifo!Filled, Fifo!Count, Fifo!Places
    <3> QED
      BY <1>1, <2>2, <3>1
  <2>6. ASSUME NEW b \in Fifo!Addresses
        PROVE  Fifo!InFifo(b)' <=> Fifo!InFifo(b) \/ (b = a /\ mode # "fd")
    <3>1. \A i \in Fifo!Places : fifo'[i] = IF i # writeIndex THEN fifo[i]
                                   ELSE IF mode = "fd" THEN NULL ELSE a
      BY <1>1, <2>1 DEF Fifo!FifoTypes
    <3> QED
      BY <1>2, <2>2, <2>5, <3>1 DEF Fifo!InFifo
  <2>7. ASSUME NEW b \in Fifo!Addresses
        PROVE  /\ refs'[b] = Fifo!Holds(Fifo!InFifo(b)') + Fifo!Holds(b \in called')
                             + Fifo!Holds(b \in taken')
               /\ block'[b] = NULL <=> refs'[b] = 0
    <3>1. CASE b = a
      BY <1>1, <1>2, <1>3, <1>4, <2>1, <2>6, <3>1 DEF Fifo!Holds, Fifo!FifoTypes
    <3>2. CASE b # a
      BY <1>1, <1>4, <2>1, <2>6, <3>2 DEF Fifo!Holds, Fifo!FifoTypes, Fifo!RefsExact
    <3> QED
      BY <3>1, <3>2
  <2>8. ASSUME NEW i \in Fifo!Places, NEW j \in Fifo!Places,
               fifo'[i] # NULL, fifo'[i] = fifo'[j]
        PROVE  i = j
    BY <1>1, <1>3, <2>1, <2>8 DEF Fifo!FifoTypes, Fifo!InFifo, Fifo!RefsExact
  <2>9. Fifo!RefsExact'
    BY <2>7, <2>8 DEF Fifo!RefsExact
  <2>10. ASSUME NEW i \in Fifo!Places, fifo'[i] # NULL
         PROVE  Fifo!Filled(i)' /\ fifo'[i] \notin taken'
    <3>1. i = writeIndex \/ fifo[i] # NULL
      BY <1>1, <2>1, <2>10 DEF Fifo!FifoTypes
    <3>2. i = writeIndex
          \/ (i - readIndex) % FifoSize < (writeIndex - readIndex) % FifoSize
      BY <1>1, <3>1 DEF Fifo!Filled, Fifo!Count
    <3>3. ((writeIndex - readIndex) % FifoSize) + 1 # FifoSize
      BY <1>6 DEF Fifo!Full, Fifo!Count
    <3>4. (i - readIndex) % FifoSize
            < (((writeIndex + 1) % FifoSize) - readIndex) % FifoSize
      BY <2>2, <3>2, <3>3, WriteMoves DEF Fifo!Places
    <3>5. fifo'[i] \notin taken'
      BY <1>1, <1>3, <1>4, <2>1, <2>10 DEF Fifo!FifoTypes
    <3> QED
      BY <1>4, <2>1, <3>4, <3>5 DEF Fifo!Filled, Fifo!Count
  <2> QED
    BY <2>4, <2>9, <2>10 DEF Fifo!FifoInv
<1> QED
  BY <1>5, <1>6

\* A reader takes the block at the read index.
LEMMA TakeKeeps ==
  ASSUME Fifo!FifoInv, NEW r \in Readers, Fifo!Take(r)
  PROVE  Fifo!FifoInv'
<1> USE OutputAssumption
<1> DEFINE a == fifo[readIndex]
<1>1. /\ Fifo!FifoTypes /\ Fifo!RefsExact
      /\ \A i \in Fifo!Places : fifo[i] # NULL => Fifo!Filled(i) /\ fifo[i] \notin taken
  BY DEF Fifo!FifoInv
<1>2. /\ a # NULL
      /\ fifo' = [fifo EXCEPT ![readIndex] = NULL]
      /\ readIndex' = (readIndex + 1) % FifoSize
      /\ taken' = taken \cup {a}
      /\ UNCHANGED <<writeIndex, puts, block, refs, called>>
  BY DEF Fifo!Take, Fifo!NextPlace
<1>3. readIndex \in Fifo!Places /\ writeIndex \in Fifo!Places
  BY <1>1 DEF Fifo!FifoTypes
<1>4. readIndex' \in Fifo!Places
  BY <1>2, <1>3, NextWraps DEF Fifo!Places
<1>5. a \in Fifo!Addresses /\ a \notin taken
  BY <1>1, <1>2, <1>3 DEF Fifo!FifoTypes
<1>6. Fifo!FifoTypes'
  BY <1>1, <1>2, <1>4, <1>5 DEF Fifo!FifoTypes
<1>7. ASSUME NEW i \in Fifo!Places, fifo'[i] # NULL
      PROVE  i # readIndex /\ fifo'[i] = fifo[i] /\ fifo'[i] # a
  BY <1>1, <1>2, <1>3, <1>7 DEF Fifo!FifoTypes, Fifo!RefsExact
<1>8. ASSUME NEW b \in Fifo!Addresses
      PROVE  Fifo!InFifo(b)' <=> Fifo!InFifo(b) /\ b # a
  <2>1. NULL \notin Fifo!Addresses
    BY DEF Fifo!Addresses
  <2>2. \A i \in Fifo!Places : fifo'[i] = IF i = readIndex THEN NULL ELSE fifo[i]
    BY <1>1, <1>2 DEF Fifo!FifoTypes
  <2> QED
    BY <1>3, <1>7, <2>1, <2>2 DEF Fifo!InFifo
<1>9. ASSUME NEW b \in Fifo!Addresses
      PROVE  /\ refs'[b] = Fifo!Holds(Fifo!InFifo(b)') + Fifo!Holds(b \in called')
                           + Fifo!Holds(b \in taken')
             /\ block'[b] = NULL <=> refs'[b] = 0
  <2>1. Fifo!InFifo(a)
    BY <1>3 DEF Fifo!InFifo
  <2>2. CASE b = a
    BY <1>1, <1>2, <1>5, <1>8, <2>1, <2>2 DEF Fifo!Holds, Fifo!RefsExact
  <2>3. CASE b # a
    BY <1>1, <1>2, <1>8, <2>3 DEF Fifo!Holds, Fifo!RefsExact
  <2> QED
    BY <2>2, <2>3
<1>10. Fifo!RefsExact'
  BY <1>1, <1>7, <1>9 DEF Fifo!RefsExact
<1>11. ASSUME NEW i \in Fifo!Places, fifo'[i] # NULL
       PROVE  Fifo!Filled(i)' /\ fifo'[i] \notin taken'
  <2>1. i # readIndex /\ fifo[i] # NULL /\ fifo'[i] \notin taken'
    BY <1>1, <1>2, <1>7, <1>11
  <2>2. (i - readIndex) % FifoSize < (writeIndex - readIndex) % FifoSize
    BY <1>1, <2>1 DEF Fifo!Filled, Fifo!Count
  <2>3. readIndex' = (readIndex + 1) % FifoSize /\ writeIndex' = writeIndex
    BY <1>2
  <2>4. (i - readIndex') % FifoSize < (writeIndex - readIndex') % FifoSize
    BY <1>3, <2>1, <2>2, <2>3, ReadMoves DEF Fifo!Places
  <2>5. Fifo!Filled(i)'
    BY <2>3, <2>4 DEF Fifo!Filled, Fifo!Count
  <2> QED
    BY <2>1, <2>5
<1> QED
  BY <1>6, <1>10, <1>11 DEF Fifo!FifoInv

\* A reader finds nothing at the read index.
LEMMA NothingKeeps ==
  ASSUME Fifo!FifoInv, NEW r \in Readers, Fifo!TakeNothing(r)
  PROVE  Fifo!FifoInv'
<1> USE OutputAssumption
<1>1. /\ Fifo!FifoTypes /\ Fifo!RefsExact
      /\ \A i \in Fifo!Places : fifo[i] # NULL => Fifo!Filled(i) /\ fifo[i] \notin taken
  BY DEF Fifo!FifoInv
<1>2. UNCHANGED <<fifo, writeIndex, puts, block, refs, called, taken>>
  BY DEF Fifo!TakeNothing, Fifo!memory
<1>3. readIndex \in Fifo!Places /\ writeIndex \in Fifo!Places
  BY <1>1 DEF Fifo!FifoTypes
<1>4. readIndex' \in Fifo!Places
  BY <1>3, NextWraps DEF Fifo!TakeNothing, Fifo!NextPlace, Fifo!Places
<1>5. Fifo!FifoTypes'
  BY <1>1, <1>2, <1>4 DEF Fifo!FifoTypes
<1>6. Fifo!RefsExact'
  BY <1>1, <1>2 DEF Fifo!RefsExact, Fifo!InFifo
<1>7. ASSUME NEW i \in Fifo!Places, fifo'[i] # NULL
      PROVE  Fifo!Filled(i)'
  <2>1. fifo[i] # NULL
    BY <1>2, <1>7
  <2>2. (i - readIndex) % FifoSize < (writeIndex - readIndex) % FifoSize
    BY <1>1, <2>1 DEF Fifo!Filled, Fifo!Count
  <2>3. CASE Fifo!Count > 0
    <3>1. readIndex' = (readIndex + 1) % FifoSize /\ i # readIndex
      BY <2>1, <2>3 DEF Fifo!TakeNothing, Fifo!NextPlace
    <3>2. (i - readIndex') % FifoSize < (writeIndex - readIndex') % FifoSize
      BY <1>3, <2>2, <3>1, ReadMoves DEF Fifo!Places
    <3>3. writeIndex' = writeIndex
      BY <1>2
    <3> QED
      BY <3>2, <3>3 DEF Fifo!Filled, Fifo!Count
  <2>4. CASE ~(Fifo!Count > 0)
    <3>1. readIndex' = readIndex
      BY <2>4 DEF Fifo!TakeNothing
    <3> QED
      BY <1>2, <2>2, <3>1 DEF Fifo!Filled, Fifo!Count
  <2> QED
    BY <2>3, <2>4
<1> QED
  BY <1>1, <1>2, <1>5, <1>6, <1>7 DEF Fifo!FifoInv

\* The application frees a block it was given by the callback, or has read.
LEMMA FreeKeeps ==
  ASSUME Fifo!FifoInv, NEW a \in Fifo!Addresses,
         Fifo!FreeCalled(a) \/ Fifo!FreeTaken(a)
  PROVE  Fifo!FifoInv'
<1> USE OutputAssumption
<1>1. /\ Fifo!FifoTypes /\ Fifo!RefsExact
      /\ \A i \in Fifo!Places : fifo[i] # NULL => Fifo!Filled(i) /\ fifo[i] \notin taken
  BY DEF Fifo!FifoInv
<1>2. /\ refs' = [refs EXCEPT ![a] = @ - 1]
      /\ block' = [block EXCEPT ![a] = IF refs[a] = 1 THEN NULL ELSE @]
      /\ UNCHANGED <<fifo, writeIndex, readIndex, puts>>
      /\ called' \subseteq called /\ taken' \subseteq taken
  BY DEF Fifo!FreeCalled, Fifo!FreeTaken, Fifo!Release, Fifo!queue
<1>3. \/ a \in called /\ called' = called \ {a} /\ taken' = taken
      \/ a \in taken /\ taken' = taken \ {a} /\ called' = called
  BY DEF Fifo!FreeCalled, Fifo!FreeTaken
<1>4. refs[a] >= 1
  BY <1>1, <1>3 DEF Fifo!RefsExact, Fifo!Holds
<1>5. Fifo!FifoTypes'
  BY <1>1, <1>2, <1>4 DEF Fifo!FifoTypes
<1>6. ASSUME NEW b \in Fifo!Addresses
      PROVE  /\ refs'[b] = Fifo!Holds(Fifo!InFifo(b)') + Fifo!Holds(b \in called')
                           + Fifo!Holds(b \in taken')
             /\ block'[b] = NULL <=> refs'[b] = 0
  <2>1. Fifo!InFifo(b)' <=> Fifo!InFifo(b)
    BY <1>2 DEF Fifo!InFifo
  <2>2. CASE b = a
    <3>1. refs'[a] = refs[a] - 1
      BY <1>1, <1>2 DEF Fifo!FifoTypes
    <3>2. block'[a] = IF refs[a] = 1 THEN NULL ELSE block[a]
      BY <1>1, <1>2 DEF Fifo!FifoTypes
    <3>3. /\ refs[a] = Fifo!Holds(Fifo!InFifo(a)) + Fifo!Holds(a \in called)
                       + Fifo!Holds(a \in taken)
          /\ block[a] # NULL
      BY <1>1, <1>4 DEF Fifo!RefsExact
    <3>4. refs'[a] = Fifo!Holds(Fifo!InFifo(a)) + Fifo!Holds(a \in called')
                     + Fifo!Holds(a \in taken')
      BY <1>3, <3>1, <3>3 DEF Fifo!Holds
    <3>5. block'[a] = NULL <=> refs'[a] = 0
      BY <1>1, <1>4, <3>1, <3>2, <3>3 DEF Fifo!FifoTypes
    <3>6. Fifo!Holds(Fifo!InFifo(a)') = Fifo!Holds(Fifo!InFifo(a))
      BY <2>1, <2>2 DEF Fifo!Holds
    <3> QED
      BY <2>2, <3>4, <3>5, <3>6, Zenon
  <2>3. CASE b # a
    BY <1>1, <1>2, <1>3, <2>1, <2>3 DEF Fifo!Holds, Fifo!RefsExact, Fifo!FifoTypes
  <2> QED
    BY <2>2, <2>3
<1>7. Fifo!RefsExact'
  BY <1>1, <1>2, <1>6 DEF Fifo!RefsExact
<1>8. (\A i \in Fifo!Places : fifo[i] # NULL => Fifo!Filled(i) /\ fifo[i] \notin taken)'
  BY <1>1, <1>2 DEF Fifo!Filled, Fifo!Count
<1> QED
  BY <1>5, <1>7, <1>8 DEF Fifo!FifoInv

-----------------------------------------------------------------------------
(* What a reader is told.                                                  *)

\* The place after the one in front of i is i.
LEMMA BackWraps ==
  ASSUME NEW n \in Nat \ {0}, NEW i \in 0 .. n - 1
  PROVE  (i - 1) % n = IF i = 0 THEN n - 1 ELSE i - 1
BY SMT

\* The place in front of one between r and w, or of w, is between them.
LEMMA PlaceInFront ==
  ASSUME NEW n \in Nat \ {0}, NEW w \in 0 .. n - 1, NEW r \in 0 .. n - 1,
         NEW i \in 0 .. n - 1, i # r, i = w \/ (i - r) % n < (w - r) % n
  PROVE  /\ (i - 1) % n \in 0 .. n - 1
         /\ (((i - 1) % n) - r) % n < (w - r) % n
<1> DEFINE p == (i - 1) % n
<1>1. p = IF i = 0 THEN n - 1 ELSE i - 1
  BY BackWraps
<1>2. p \in 0 .. n - 1
  BY <1>1
<1>3. (p - r) % n = IF r <= p THEN p - r ELSE p - r + n
  BY <1>2, Distance
<1>4. (i - r) % n = IF r <= i THEN i - r ELSE i - r + n
  BY Distance
<1>5. (w - r) % n = IF r <= w THEN w - r ELSE w - r + n
  BY Distance
<1> HIDE DEF p
<1>6. p \in 0 .. n - 1 /\ (p - r) % n < (w - r) % n
  BY <1>1, <1>2, <1>3, <1>4, <1>5
<1> QED
  BY <1>6 DEF p

\* After r moved on to q, the places from q up to w are one nearer.
LEMMA ReadBack ==
  ASSUME NEW n \in Nat \ {0}, NEW w \in 0 .. n - 1, NEW r \in 0 .. n - 1, w # r,
         NEW i \in 0 .. n - 1, NEW q \in 0 .. n - 1, q = (r + 1) % n,
         (i - q) % n < (w - q) % n
  PROVE  i # r /\ (i - r) % n = ((i - q) % n) + 1 /\ (i - r) % n < (w - r) % n
<1>1. q = IF r = n - 1 THEN 0 ELSE r + 1
  BY NextWraps
<1>2. (w - q) % n = IF q <= w THEN w - q ELSE w - q + n
  BY Distance
<1>3. (i - q) % n = IF q <= i THEN i - q ELSE i - q + n
  BY Distance
<1>4. (w - r) % n = IF r <= w THEN w - r ELSE w - r + n
  BY Distance
<1>5. (i - r) % n = IF r <= i THEN i - r ELSE i - r + n
  BY Distance
<1> QED
  BY <1>1, <1>2, <1>3, <1>4, <1>5

\* After w moved on to v, the places from r up to v are those of before and w.
LEMMA WriteBack ==
  ASSUME NEW n \in Nat \ {0}, NEW w \in 0 .. n - 1, NEW r \in 0 .. n - 1,
         ((w - r) % n) + 1 # n, NEW i \in 0 .. n - 1, NEW v, v = (w + 1) % n,
         (i - r) % n < (v - r) % n
  PROVE  i = w \/ (i - r) % n < (w - r) % n
<1>1. v = IF w = n - 1 THEN 0 ELSE w + 1
  BY NextWraps
<1>2. v \in 0 .. n - 1
  BY <1>1
<1>3. (v - r) % n = IF r <= v THEN v - r ELSE v - r + n
  BY <1>2, Distance
<1>4. (w - r) % n = IF r <= w THEN w - r ELSE w - r + n
  BY Distance
<1>5. (i - r) % n = IF r <= i THEN i - r ELSE i - r + n
  BY Distance
<1> QED
  BY <1>1, <1>3, <1>4, <1>5

\* A place up to which w moved on is not r, and its front is where w was.
LEMMA WriteFront ==
  ASSUME NEW n \in Nat \ {0}, NEW w \in 0 .. n - 1, NEW r \in 0 .. n - 1,
         ((w - r) % n) + 1 # n, NEW v, v = (w + 1) % n
  PROVE  v # r /\ (v - 1) % n = w
<1>1. v = IF w = n - 1 THEN 0 ELSE w + 1
  BY NextWraps
<1>2. (w - r) % n = IF r <= w THEN w - r ELSE w - r + n
  BY Distance
<1>3. v \in 0 .. n - 1
  BY <1>1
<1>4. (v - 1) % n = IF v = 0 THEN n - 1 ELSE v - 1
  BY <1>3, SMT
<1> QED
  BY <1>1, <1>2, <1>3, <1>4

\* The block in front of a place stays the same as long as the FIFO's blocks do.
LEMMA BeforeKept ==
  ASSUME Fifo!FifoInv, UNCHANGED <<readIndex, got>>,
         \A j \in Fifo!Places : Fifo!Filled(j) =>
            fifo'[j] = fifo[j] /\ block'[fifo[j]] = block[fifo[j]],
         NEW i \in Fifo!Places, i = writeIndex \/ Fifo!Filled(i)
  PROVE  Fifo!Before(i)' = Fifo!Before(i)
<1> USE OutputAssumption
<1> DEFINE front == (i - 1) % FifoSize
<1>1. writeIndex \in Fifo!Places /\ readIndex \in Fifo!Places
  BY DEF Fifo!FifoInv, Fifo!FifoTypes
<1>2. CASE i = readIndex
  BY <1>2 DEF Fifo!Before
<1>3. CASE i # readIndex
  <2>1. i = writeIndex
        \/ (i - readIndex) % FifoSize < (writeIndex - readIndex) % FifoSize
    BY DEF Fifo!Filled, Fifo!Count
  <2>2. front \in Fifo!Places
        /\ (front - readIndex) % FifoSize < (writeIndex - readIndex) % FifoSize
    BY <1>1, <1>3, <2>1, PlaceInFront DEF Fifo!Places
  <2>3. Fifo!Filled(front)
    BY <2>2 DEF Fifo!Filled, Fifo!Count
  <2> QED
    BY <1>3, <2>2, <2>3 DEF Fifo!Before
<1> QED
  BY <1>2, <1>3

\* Nothing is missing yet.
LEMMA OrderStarts == ASSUME OutputInit PROVE Fifo!OrderInv
<1> USE OutputAssumption DEF OutputInit, Fifo!FifoInit
<1>1. Fifo!Count = 0 /\ Fifo!Before(writeIndex) = -1
  BY DEF Fifo!Count, Fifo!Before
<1>2. \A i \in Fifo!Places : ~Fifo!Filled(i)
  BY <1>1, Distance DEF Fifo!Filled, Fifo!Places
<1> QED
  BY <1>1, <1>2 DEF Fifo!OrderInv

\* A block comes out of the flow.
LEMMA PutKeepsOrder ==
  ASSUME Fifo!FifoInv, Fifo!OrderInv, NEW a \in Fifo!Addresses, NEW keeps \in BOOLEAN,
         Fifo!PutAt(a, keeps)
  PROVE  Fifo!OrderInv'
<1> USE OutputAssumption
<1>1. /\ Fifo!FifoTypes /\ Fifo!RefsExact
      /\ \A i \in Fifo!Places : fifo[i] # NULL => Fifo!Filled(i) /\ fifo[i] \notin taken
  BY DEF Fifo!FifoInv
<1>2. /\ NULL \notin Nat
      /\ writeIndex \in Fifo!Places /\ readIndex \in Fifo!Places /\ puts \in Nat
  BY <1>1 DEF Fifo!FifoTypes
<1>3. \A i \in Fifo!Places : fifo[i] # NULL => fifo[i] # a
  <2>1. block[a] = NULL
    BY DEF Fifo!PutAt, Fifo!Unused
  <2>2. refs[a] = 0
    BY <1>1, <2>1 DEF Fifo!RefsExact
  <2>3. 0 = Fifo!Holds(Fifo!InFifo(a)) + Fifo!Holds(a \in called)
            + Fifo!Holds(a \in taken)
    BY <1>1, <2>2 DEF Fifo!RefsExact
  <2> QED
    BY <2>3 DEF Fifo!Holds, Fifo!InFifo
<1>4. /\ UNCHANGED <<readIndex, mode, got, since>> /\ puts' = puts + 1
      /\ \A b \in Fifo!Addresses : b # a => block'[b] = block[b]
  BY <1>1 DEF Fifo!PutAt, Fifo!Create, Fifo!queue, Fifo!FifoTypes
<1>5. (got \in Int /\ since \in 0 .. FifoSize)'
  BY <1>4 DEF Fifo!OrderInv
<1>6. CASE mode = "fd"
  <2>1. \A i \in Fifo!Places : fifo'[i] = NULL
    BY <1>1, <1>6 DEF Fifo!PutAt, Fifo!Stored, Fifo!OrderInv, Fifo!FifoTypes, Fifo!queue
  <2> QED
    BY <1>4, <1>5, <1>6, <2>1 DEF Fifo!OrderInv
<1>7. CASE mode # "fd" /\ Fifo!Full
  <2>1. UNCHANGED <<fifo, writeIndex>> /\ overflow'
    BY <1>7 DEF Fifo!PutAt, Fifo!queue
  <2>2. \A j \in Fifo!Places : Fifo!Filled(j) =>
          fifo[j] # NULL /\ fifo'[j] = fifo[j] /\ block'[fifo[j]] = block[fifo[j]]
    BY <1>1, <1>3, <1>4, <1>7, <2>1 DEF Fifo!OrderInv, Fifo!FifoTypes
  <2>3. ASSUME NEW i \in Fifo!Places, Fifo!Filled(i)
        PROVE  Fifo!Before(i)' = Fifo!Before(i)
    BY <1>4, <2>2, <2>3, BeforeKept
  <2>4. ASSUME NEW i \in Fifo!Places, Fifo!Filled(i)'
        PROVE  /\ fifo'[i] # NULL
               /\ \/ block'[fifo'[i]] = Fifo!Before(i)' + 1
                  \/ since' + ((i - readIndex') % FifoSize) + 1 < FifoSize
    <3>1. Fifo!Filled(i)
      BY <1>4, <2>1, <2>4 DEF Fifo!Filled, Fifo!Count
    <3>2. \/ block[fifo[i]] = Fifo!Before(i) + 1
          \/ since + ((i - readIndex) % FifoSize) + 1 < FifoSize
      BY <1>7, <3>1 DEF Fifo!OrderInv
    <3>3. Fifo!Before(i)' = Fifo!Before(i)
      BY <2>3, <3>1
    <3> QED
      BY <1>4, <2>2, <3>1, <3>2, <3>3
  <2>5. Fifo!Full'
    BY <1>4, <1>7, <2>1 DEF Fifo!Full, Fifo!Count
  <2> QED
    BY <1>4, <1>5, <1>7, <2>1, <2>4, <2>5 DEF Fifo!OrderInv
<1>8. CASE mode # "fd" /\ ~Fifo!Full
  <2>1. /\ fifo' = [fifo EXCEPT ![writeIndex] = a] /\ block'[a] = puts
        /\ writeIndex' = (writeIndex + 1) % FifoSize
    BY <1>1, <1>8 DEF Fifo!PutAt, Fifo!Stored, Fifo!Create, Fifo!NextPlace, Fifo!FifoTypes
  <2>2. ((writeIndex - readIndex) % FifoSize) + 1 # FifoSize
    BY <1>8 DEF Fifo!Full, Fifo!Count
  <2>3. ~Fifo!Filled(writeIndex)
    BY <1>2, Distance DEF Fifo!Filled, Fifo!Count, Fifo!Places
  <2>4. \A j \in Fifo!Places : Fifo!Filled(j) =>
          fifo[j] # NULL /\ fifo'[j] = fifo[j] /\ block'[fifo[j]] = block[fifo[j]]
    BY <1>1, <1>3, <1>4, <1>8, <2>1, <2>3 DEF Fifo!OrderInv, Fifo!FifoTypes
  <2>5. ASSUME NEW i \in Fifo!Places, i = writeIndex \/ Fifo!Filled(i)
        PROVE  Fifo!Before(i)' = Fifo!Before(i)
    BY <1>4, <2>4, <2>5, BeforeKept
  <2>6. fifo'[writeIndex] = a /\ a # NULL
    BY <1>1, <1>2, <2>1 DEF Fifo!FifoTypes, Fifo!Addresses
  <2>7. ASSUME NEW i \in Fifo!Places, Fifo!Filled(i)'
        PROVE  /\ fifo'[i] # NULL
               /\ \/ block'[fifo'[i]] = Fifo!Before(i)' + 1
                  \/ since' + ((i - readIndex') % FifoSize) + 1 < FifoSize
    <3>1. (i - readIndex) % FifoSize < (writeIndex' - readIndex) % FifoSize
      BY <1>4, <2>7 DEF Fifo!Filled, Fifo!Count
    <3>2. i = writeIndex \/ Fifo!Filled(i)
      BY <1>2, <2>1, <2>2, <3>1, WriteBack DEF Fifo!Filled, Fifo!Count, Fifo!Places
    <3>3. Fifo!Before(i)' = Fifo!Before(i)
      BY <2>5, <3>2
    <3>4. CASE i = writeIndex
      <4>1. puts = Fifo!Before(i) + 1 \/ since = 0
        BY <1>8, <3>4 DEF Fifo!OrderInv
      <4>2. since' + ((i - readIndex') % FifoSize) + 1
              = since + ((writeIndex - readIndex) % FifoSize) + 1
        BY <1>4, <3>4
      <4>3. (writeIndex - readIndex) % FifoSize \in 0 .. FifoSize - 1
        BY <1>2, Distance DEF Fifo!Places
      <4> HIDE DEF Fifo!Before
      <4> QED
        BY <2>1, <2>2, <2>6, <3>3, <3>4, <4>1, <4>2, <4>3
    <3>5. CASE i # writeIndex
      <4>1. \/ block[fifo[i]] = Fifo!Before(i) + 1
            \/ since + ((i - readIndex) % FifoSize) + 1 < FifoSize
        BY <1>8, <3>2, <3>5 DEF Fifo!OrderInv
      <4> QED
        BY <1>4, <2>4, <3>2, <3>3, <3>5, <4>1
    <3> QED
      BY <3>4, <3>5
  <2>8. puts' = Fifo!Before(writeIndex)' + 1
    <3>1. writeIndex' # readIndex /\ (writeIndex' - 1) % FifoSize = writeIndex
      <4>1. writeIndex' = (writeIndex + 1) % FifoSize
        BY <2>1
      <4> QED
        BY <1>2, <2>2, <4>1, WriteFront DEF Fifo!Places
    <3> QED
      BY <1>4, <2>1, <2>6, <3>1 DEF Fifo!Before
  <2> QED
    BY <1>4, <1>5, <1>8, <2>7, <2>8 DEF Fifo!OrderInv
<1> QED
  BY <1>6, <1>7, <1>8

\* A reader takes the block at the read index.
LEMMA TakeKeepsOrder ==
  ASSUME Fifo!FifoInv, Fifo!OrderInv, NEW r \in Readers, Fifo!Take(r)
  PROVE  Fifo!OrderInv' /\ (got' = got + 1 \/ since' < FifoSize)
<1> USE OutputAssumption
<1>1. /\ Fifo!FifoTypes /\ Fifo!RefsExact
      /\ \A i \in Fifo!Places : fifo[i] # NULL => Fifo!Filled(i) /\ fifo[i] \notin taken
  BY DEF Fifo!FifoInv
<1>2. /\ fifo[readIndex] # NULL /\ Fifo!Count > 0
      /\ fifo' = [fifo EXCEPT ![readIndex] = NULL]
      /\ readIndex' = (readIndex + 1) % FifoSize
      /\ got' = block[fifo[readIndex]]
      /\ since' = IF overflow THEN 0 ELSE IF since < FifoSize THEN since + 1 ELSE since
      /\ UNCHANGED <<writeIndex, overflow, puts, block, mode>>
  BY DEF Fifo!Take, Fifo!NextPlace, Fifo!Tells
<1>3. readIndex \in Fifo!Places /\ writeIndex \in Fifo!Places
  BY <1>1 DEF Fifo!FifoTypes
<1>4. mode # "fd" /\ since \in 0 .. FifoSize /\ got \in Int
  BY <1>2, <1>3 DEF Fifo!OrderInv
<1>5. writeIndex # readIndex /\ Fifo!Filled(readIndex)
  BY <1>2, <1>3, Distance DEF Fifo!Count, Fifo!Filled, Fifo!Places
<1>6. got' \in Int /\ since' \in 0 .. FifoSize /\ since' <= since + 1
  <2>1. block[fifo[readIndex]] \in Nat
    BY <1>1, <1>2, <1>3 DEF Fifo!FifoTypes, Fifo!RefsExact, Fifo!Holds, Fifo!InFifo
  <2> QED
    BY <1>2, <1>4, <2>1
<1>7. ASSUME NEW i \in Fifo!Places, i # readIndex, i = writeIndex \/ Fifo!Filled(i)
      PROVE  Fifo!Before(i)' = Fifo!Before(i)
  <2> DEFINE front == (i - 1) % FifoSize
  <2>1. front \in Fifo!Places
    BY <1>3, <1>7, PlaceInFront DEF Fifo!Places, Fifo!Filled, Fifo!Count
  <2>2. i = readIndex' <=> front = readIndex
    <3>1. readIndex' = IF readIndex = FifoSize - 1 THEN 0 ELSE readIndex + 1
      BY <1>2, <1>3, NextWraps DEF Fifo!Places
    <3>2. front = IF i = 0 THEN FifoSize - 1 ELSE i - 1
      BY BackWraps DEF Fifo!Places
    <3> HIDE DEF front
    <3> QED
      BY <1>3, <3>1, <3>2 DEF Fifo!Places
  <2>3. fifo'[front] = IF front = readIndex THEN NULL ELSE fifo[front]
    BY <1>1, <1>2, <2>1 DEF Fifo!FifoTypes
  <2> QED
    BY <1>2, <1>7, <2>1, <2>2, <2>3 DEF Fifo!Before
<1>8. ASSUME NEW i \in Fifo!Places, Fifo!Filled(i)'
      PROVE  /\ fifo'[i] # NULL
             /\ \/ block'[fifo'[i]] = Fifo!Before(i)' + 1
                \/ since' + ((i - readIndex') % FifoSize) + 1 < FifoSize
  <2>1. (i - readIndex') % FifoSize < (writeIndex - readIndex') % FifoSize
    BY <1>2, <1>8 DEF Fifo!Filled, Fifo!Count
  <2>2. /\ i # readIndex
        /\ (i - readIndex) % FifoSize = ((i - readIndex') % FifoSize) + 1
        /\ (i - readIndex) % FifoSize < (writeIndex - readIndex) % FifoSize
    <3>1. readIndex' = (readIndex + 1) % FifoSize
      BY <1>2
    <3>2. readIndex' \in 0 .. FifoSize - 1
      BY <1>3, <3>1, NextWraps DEF Fifo!Places
    <3> QED
      BY <1>3, <1>5, <2>1, <3>1, <3>2, ReadBack DEF Fifo!Places
  <2>3. Fifo!Filled(i)
    BY <2>2 DEF Fifo!Filled, Fifo!Count
  <2>4. fifo[i] # NULL /\ fifo'[i] = fifo[i] /\ block' = block
    BY <1>1, <1>2, <1>4, <2>2, <2>3 DEF Fifo!OrderInv, Fifo!FifoTypes
  <2>5. Fifo!Before(i)' = Fifo!Before(i)
    BY <1>7, <2>2, <2>3
  <2>6. \/ block[fifo[i]] = Fifo!Before(i) + 1
        \/ since + ((i - readIndex) % FifoSize) + 1 < FifoSize
    BY <1>4, <2>3 DEF Fifo!OrderInv
  <2>7. (i - readIndex') % FifoSize \in Int
    BY <1>2, <1>3, NextWraps DEF Fifo!Places
  <2>8. since + ((i - readIndex) % FifoSize) + 1 < FifoSize
          => since' + ((i - readIndex') % FifoSize) + 1 < FifoSize
    BY <1>4, <1>6, <2>2, <2>7
  <2> QED
    BY <2>4, <2>5, <2>6, <2>8
<1>9. \/ puts' = Fifo!Before(writeIndex)' + 1
      \/ overflow' /\ (Fifo!Full' \/ since' = 0)
  <2>1. Fifo!Before(writeIndex)' = Fifo!Before(writeIndex)
    <3>1. writeIndex' = writeIndex
      BY <1>2
    <3> QED
      BY <1>3, <1>5, <1>7, <3>1 DEF Fifo!Before
  <2> QED
    BY <1>2, <1>4, <2>1 DEF Fifo!OrderInv
<1>10. got' = got + 1 \/ since' < FifoSize
  <2>1. Fifo!Before(readIndex) = got /\ (readIndex - readIndex) % FifoSize = 0
    BY <1>3 DEF Fifo!Before, Fifo!Places
  <2>2. got' = got + 1 \/ since + 0 + 1 < FifoSize
    BY <1>2, <1>3, <1>4, <1>5, <2>1 DEF Fifo!OrderInv
  <2> QED
    BY <1>2, <1>4, <2>2
<1> QED
  BY <1>2, <1>4, <1>6, <1>8, <1>9, <1>10 DEF Fifo!OrderInv

\* A reader finds nothing: with blocks for readers, only when there are none.
LEMMA NothingKeepsOrder ==
  ASSUME Fifo!FifoInv, Fifo!OrderInv, NEW r \in Readers, Fifo!TakeNothing(r)
  PROVE  Fifo!OrderInv'
<1> USE OutputAssumption
<1>1. UNCHANGED <<fifo, writeIndex, overflow, puts, block, mode, got, since>>
  BY DEF Fifo!TakeNothing, Fifo!memory
<1>2. CASE mode = "fd"
  BY <1>1, <1>2 DEF Fifo!OrderInv
<1>3. CASE mode # "fd"
  <2>1. readIndex \in Fifo!Places /\ writeIndex \in Fifo!Places
    BY DEF Fifo!FifoInv, Fifo!FifoTypes
  <2>2. Fifo!Count > 0 => Fifo!Filled(readIndex)
    BY <2>1, Distance DEF Fifo!Count, Fifo!Filled, Fifo!Places
  <2>3. Fifo!Count > 0 => fifo[readIndex] # NULL
    BY <1>3, <2>1, <2>2 DEF Fifo!OrderInv
  <2>4. readIndex' = readIndex
    BY <2>3 DEF Fifo!TakeNothing
  <2> QED
    BY <1>1, <2>4 DEF Fifo!OrderInv, Fifo!Before, Fifo!Filled, Fifo!Count, Fifo!Full
<1> QED
  BY <1>2, <1>3

\* The application frees a block; one in the FIFO lives on.
LEMMA FreeKeepsOrder ==
  ASSUME Fifo!FifoInv, Fifo!OrderInv, NEW a \in Fifo!Addresses,
         Fifo!FreeCalled(a) \/ Fifo!FreeTaken(a)
  PROVE  Fifo!OrderInv'
<1> USE OutputAssumption
<1>1. /\ Fifo!FifoTypes /\ Fifo!RefsExact
      /\ \A i \in Fifo!Places : fifo[i] # NULL => Fifo!Filled(i) /\ fifo[i] \notin taken
  BY DEF Fifo!FifoInv
<1>2. /\ block' = [block EXCEPT ![a] = IF refs[a] = 1 THEN NULL ELSE @]
      /\ UNCHANGED <<fifo, writeIndex, readIndex, overflow, puts, mode, got, since>>
      /\ a \in called \/ a \in taken
  BY DEF Fifo!FreeCalled, Fifo!FreeTaken, Fifo!Release, Fifo!queue
<1>3. ASSUME NEW i \in Fifo!Places, fifo[i] # NULL
      PROVE  block'[fifo[i]] = block[fifo[i]]
  <2>1. fifo[i] \in Fifo!Addresses
    BY <1>1, <1>3 DEF Fifo!FifoTypes
  <2>2. CASE fifo[i] = a
    <3>1. refs[a] # 1
      BY <1>1, <1>2, <2>2 DEF Fifo!RefsExact, Fifo!Holds, Fifo!InFifo
    <3> QED
      BY <1>1, <1>2, <2>2, <3>1 DEF Fifo!FifoTypes
  <2>3. CASE fifo[i] # a
    BY <1>1, <1>2, <2>1, <2>3 DEF Fifo!FifoTypes
  <2> QED
    BY <2>2, <2>3
<1>4. CASE mode = "fd"
  BY <1>2, <1>4 DEF Fifo!OrderInv
<1>5. CASE mode # "fd"
  <2>1. \A j \in Fifo!Places : Fifo!Filled(j) =>
          fifo[j] # NULL /\ fifo'[j] = fifo[j] /\ block'[fifo[j]] = block[fifo[j]]
    BY <1>2, <1>3, <1>5 DEF Fifo!OrderInv
  <2>2. ASSUME NEW i \in Fifo!Places, i = writeIndex \/ Fifo!Filled(i)
        PROVE  Fifo!Before(i)' = Fifo!Before(i)
    BY <1>2, <2>1, <2>2, BeforeKept
  <2>3. \A i \in Fifo!Places : Fifo!Filled(i)' <=> Fifo!Filled(i)
    BY <1>2 DEF Fifo!Filled, Fifo!Count
  <2>4. ASSUME NEW i \in Fifo!Places, Fifo!Filled(i)'
        PROVE  /\ fifo'[i] # NULL
               /\ \/ block'[fifo'[i]] = Fifo!Before(i)' + 1
                  \/ since' + ((i - readIndex') % FifoSize) + 1 < FifoSize
    <3>1. Fifo!Filled(i) /\ Fifo!Before(i)' = Fifo!Before(i)
      BY <2>2, <2>3, <2>4
    <3>2. \/ block[fifo[i]] = Fifo!Before(i) + 1
          \/ since + ((i - readIndex) % FifoSize) + 1 < FifoSize
      BY <1>5, <3>1 DEF Fifo!OrderInv
    <3> QED
      BY <1>2, <2>1, <3>1, <3>2
  <2>5. \/ puts' = Fifo!Before(writeIndex)' + 1
        \/ overflow' /\ (Fifo!Full' \/ since' = 0)
    <3>1. writeIndex \in Fifo!Places
      BY <1>1 DEF Fifo!FifoTypes
    <3>2. Fifo!Before(writeIndex)' = Fifo!Before(writeIndex)
      <4>1. writeIndex' = writeIndex
        BY <1>2
      <4> QED
        BY <2>2, <3>1, <4>1 DEF Fifo!Before
    <3> QED
      BY <1>2, <1>5, <3>2 DEF Fifo!OrderInv, Fifo!Full, Fifo!Count
  <2> QED
    BY <1>2, <1>5, <2>4, <2>5 DEF Fifo!OrderInv
<1> QED
  BY <1>4, <1>5

-----------------------------------------------------------------------------
(* The theorems.                                                           *)

\* A step of the flow and the application keeps the FIFO's invariant.
LEMMA OutputStep ==
  ASSUME Fifo!FifoInv, [OutputNext]_all
  PROVE  Fifo!FifoInv'
<1>1. ASSUME UNCHANGED delivery
      PROVE  Fifo!FifoInv'
  BY <1>1 DEF delivery, Fifo!FifoInv, Fifo!FifoTypes, Fifo!RefsExact, Fifo!InFifo,
     Fifo!Filled, Fifo!Count
<1>2. CASE Next /\ UNCHANGED <<out, delivery>>
  BY <1>1, <1>2
<1>3. CASE \E d \in Slots : Deliver(d) /\ Fifo!Put
  BY <1>3, PutKeeps DEF Fifo!Put
<1>4. CASE Fifo!Application /\ UNCHANGED vars
  <2>1. CASE Fifo!Frees
    BY <2>1, FreeKeeps DEF Fifo!Frees
  <2>2. ASSUME NEW r \in Readers, Fifo!Look(r)
        PROVE  Fifo!FifoInv'
    BY <2>2 DEF Fifo!Look, Fifo!queue, Fifo!memory, Fifo!FifoInv, Fifo!FifoTypes,
       Fifo!RefsExact, Fifo!InFifo, Fifo!Filled, Fifo!Count
  <2> QED
    BY <1>4, <2>1, <2>2, TakeKeeps, NothingKeeps DEF Fifo!Application, Fifo!Reads
<1>5. CASE UNCHANGED all
  BY <1>1, <1>5 DEF all
<1> QED
  BY <1>2, <1>3, <1>4, <1>5 DEF OutputNext

\* free_data_block: every block is freed when, and only when, its last holder
\* of FIFO, callback and readers has freed it.
THEOREM FreedOnce == OutputSpec => []BlocksFreedOnce
<1>1. OutputInit => Fifo!FifoInv
  BY FifoStarts
<1>2. Fifo!FifoInv /\ [OutputNext]_all => Fifo!FifoInv'
  BY OutputStep
<1>3. Fifo!FifoInv => BlocksFreedOnce
  BY DEF Fifo!FifoInv, BlocksFreedOnce
<1> QED
  BY <1>1, <1>2, <1>3, PTL DEF OutputSpec

\* A step keeps the order of what is in the FIFO, and tells a reader that took
\* a block what is missing in front of it.
LEMMA OrderStep ==
  ASSUME Fifo!FifoInv, Fifo!OrderInv, [OutputNext]_all
  PROVE  Fifo!OrderInv' /\ [got' = got + 1 \/ since' < FifoSize]_got
<1>1. ASSUME UNCHANGED delivery
      PROVE  Fifo!OrderInv' /\ UNCHANGED got
  BY <1>1 DEF delivery, Fifo!OrderInv, Fifo!Before, Fifo!Filled, Fifo!Count, Fifo!Full
<1>2. CASE Next /\ UNCHANGED <<out, delivery>>
  BY <1>1, <1>2
<1>3. CASE \E d \in Slots : Deliver(d) /\ Fifo!Put
  <2>1. PICK a \in Fifo!Addresses, keeps \in BOOLEAN : Fifo!PutAt(a, keeps)
    BY <1>3 DEF Fifo!Put
  <2>2. UNCHANGED got
    BY <2>1 DEF Fifo!PutAt
  <2> QED
    BY <2>1, <2>2, PutKeepsOrder
<1>4. CASE Fifo!Application /\ UNCHANGED vars
  <2>1. ASSUME NEW a \in Fifo!Addresses, Fifo!FreeCalled(a) \/ Fifo!FreeTaken(a)
        PROVE  Fifo!OrderInv' /\ UNCHANGED got
    BY <2>1, FreeKeepsOrder DEF Fifo!FreeCalled, Fifo!FreeTaken, Fifo!Release
  <2>2. ASSUME NEW r \in Readers, Fifo!Look(r)
        PROVE  Fifo!OrderInv' /\ UNCHANGED got
    BY <2>2 DEF Fifo!Look, Fifo!queue, Fifo!memory, Fifo!OrderInv, Fifo!Before,
       Fifo!Filled, Fifo!Count, Fifo!Full
  <2>3. ASSUME NEW r \in Readers, Fifo!TakeNothing(r)
        PROVE  Fifo!OrderInv' /\ UNCHANGED got
    BY <2>3, NothingKeepsOrder DEF Fifo!TakeNothing
  <2> QED
    BY <1>4, <2>1, <2>2, <2>3, TakeKeepsOrder
    DEF Fifo!Application, Fifo!Reads, Fifo!Frees
<1>5. CASE UNCHANGED all
  BY <1>1, <1>5 DEF all
<1> QED
  BY <1>2, <1>3, <1>4, <1>5 DEF OutputNext

\* fifo_overflow: a reader is told of every block it does not get.
THEOREM ToldOfLoss == OutputSpec => NoSilentLoss
<1>1. OutputInit => Fifo!FifoInv /\ Fifo!OrderInv
  BY FifoStarts, OrderStarts
<1>2. Fifo!FifoInv /\ Fifo!OrderInv /\ [OutputNext]_all
        => /\ Fifo!FifoInv' /\ Fifo!OrderInv'
           /\ [got' = got + 1 \/ since' < FifoSize]_got
  BY OutputStep, OrderStep
<1> QED
  BY <1>1, <1>2, PTL DEF OutputSpec, NoSilentLoss
=============================================================================
