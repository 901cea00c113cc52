------------------------- MODULE PeerLifecycleProofs -------------------------
(***************************************************************************)
(* What PeerLifecycle promises for every value of its constants: the types *)
(* of its variables, that the lists of the sender name no freed child, and *)
(* that child_alive_count is wrong by what is not counted and nothing else.*)
(***************************************************************************)
EXTENDS PeerLifecycle, FiniteSetTheorems, TLAPS

-----------------------------------------------------------------------------
(* Arithmetic of a counter that wraps.                                     *)

\* A wrapped number is in range and differs from the number by whole turns.
LEMMA WrappedType == ASSUME NEW n \in Int
                     PROVE  /\ Wrapped(n) \in 0 .. Wrap - 1
                            /\ \E q \in Int : n = Wrap * q + Wrapped(n)
<1>1. n % Wrap \in 0 .. Wrap - 1
  BY LifecycleAssumption
<1>2. n \div Wrap \in Int /\ n = Wrap * (n \div Wrap) + (n % Wrap)
  BY LifecycleAssumption
<1> QED
  BY <1>1, <1>2 DEF Wrapped

\* A number in range is determined by any number it differs from by whole turns.
LEMMA WrappedUnique ==
  ASSUME NEW n \in Int, NEW q \in Int, NEW r \in 0 .. Wrap - 1, n = Wrap * q + r
  PROVE  Wrapped(n) = r
<1>1. PICK k \in Int : n = Wrap * k + Wrapped(n)
  BY WrappedType
<1>2. Wrapped(n) \in 0 .. Wrap - 1
  BY WrappedType
<1> DEFINE d == q - k
<1>3. Wrapped(n) - r = Wrap * d /\ d \in Int
  BY <1>1, <1>2, LifecycleAssumption
<1>4. d >= 1 => Wrap * d >= Wrap
  BY LifecycleAssumption
<1>5. d <= -1 => Wrap * d <= -Wrap
  BY LifecycleAssumption
<1> HIDE DEF d
<1>6. d = 0
  BY <1>2, <1>3, <1>4, <1>5, LifecycleAssumption
<1> QED
  BY <1>2, <1>3, <1>6, LifecycleAssumption

\* Counting on from a wrapped number and wrapping is wrapping the sum.
LEMMA WrappedSum ==
  ASSUME NEW n \in Int, NEW m \in Int
  PROVE  Wrapped(Wrapped(n) + m) = Wrapped(n + m)
<1>1. PICK k \in Int : n = Wrap * k + Wrapped(n)
  BY WrappedType
<1>2. Wrapped(n) \in Int
  BY WrappedType, LifecycleAssumption
<1>3. PICK q \in Int : Wrapped(n) + m = Wrap * q + Wrapped(Wrapped(n) + m)
  BY <1>2, WrappedType
<1>4. Wrapped(Wrapped(n) + m) \in 0 .. Wrap - 1
  BY <1>2, WrappedType
<1>5. n + m = Wrap * (k + q) + Wrapped(Wrapped(n) + m)
  BY <1>1, <1>2, <1>3, <1>4, LifecycleAssumption
<1> QED
  BY <1>4, <1>5, WrappedUnique
-----------------------------------------------------------------------------
(* Types.                                                                  *)

\* The child a packet belongs to is one of the list, alive, at that address.
LEMMA Matched ==
  ASSUME NEW a, NEW p \in Match(a)
  PROVE  p \in kids /\ p \in Alive /\ child[p].addr = a
BY DEF Match, First, Alive

\* A packet leaves a child of the same kind of record, alive as it was.
LEMMA ReceivedType ==
  ASSUME NEW r \in Child, r.addr \in Addrs, NEW kind \in Kinds
  PROVE  /\ Received(r, kind) \in Child
         /\ Received(r, kind).dead = r.dead
<1> DEFINE heard == [r EXCEPT !.age = 0]
           rtcp  == [heard EXCEPT !.auth = TRUE]
           sdes  == [rtcp EXCEPT !.name = Owner[r.addr], !.announced = TRUE]
<1>1. heard \in Child /\ heard.dead = r.dead
  BY DEF Child
<1>2. rtcp \in Child /\ rtcp.dead = r.dead
  BY DEF Child
<1>3. sdes \in Child /\ sdes.dead = r.dead
  BY LifecycleAssumption DEF Child
<1>4. Received(r, kind) \in {heard, rtcp, sdes}
  BY DEF Received, Kinds
<1> QED
  BY <1>1, <1>2, <1>3, <1>4

LEMMA NoChildType == NoChild \in Child /\ ~NoChild.dead
BY DEF NoChild, Child

\* Growing older and dying keep the type of a record.
LEMMA AgedType ==
  ASSUME NEW r \in Child
  PROVE  /\ Aged(r) \in Child /\ Aged(r).dead = r.dead
         /\ Killed(r) \in Child /\ Killed(r).dead
<1>1. Killed(r) \in Child /\ Killed(r).dead
  BY DEF Killed, Child
<1>2. Older(r.age, Timeout) \in Nat /\ Older(r.deadFor, RemoveAfter) \in Nat
  BY DEF Older, Child
<1>3. Aged(r) \in Child /\ Aged(r).dead = r.dead
  BY <1>2 DEF Aged, Child
<1> QED
  BY <1>1, <1>3

\* The children are finitely many.
LEMMA ChildrenFinite ==
  ASSUME TypeOK, NEW S, S \subseteq kids
  PROVE  IsFiniteSet(S) /\ Cardinality(S) \in Nat /\ S \subseteq Ids
<1>1. S \subseteq Ids
  BY LifecycleAssumption DEF TypeOK, Ids
<1>2. IsFiniteSet(Ids)
  BY FS_Interval, LifecycleAssumption DEF Ids
<1>3. IsFiniteSet(S)
  BY <1>1, <1>2, FS_Subset
<1> QED
  BY <1>1, <1>3, FS_CardinalityType

\* The count of a killed child, and the weight without a removed one, wrap.
LEMMA CountersType ==
  ASSUME TypeOK, NEW S, S \subseteq kids
  PROVE  /\ CountLess(S) \in 0 .. Wrap - 1 /\ WeightWithout(S) \in 0 .. Wrap - 1
         /\ Wrapped(aliveCount + 1) \in 0 .. Wrap - 1
         /\ Wrapped(totalWeight + weight) \in 0 .. Wrap - 1
         /\ Wrapped(drift - 1) \in 0 .. Wrap - 1
         /\ Wrapped(drift + 1) \in 0 .. Wrap - 1
<1>1. Cardinality(S \cap Alive) \in Nat /\ Cardinality(S) \in Nat
  BY ChildrenFinite DEF Alive
<1>2. aliveCount \in Int /\ totalWeight \in Int /\ drift \in Int /\ weight \in Nat
  BY LifecycleAssumption DEF TypeOK
<1>3. CountLess(S) \in 0 .. Wrap - 1
  BY <1>1, <1>2, WrappedType DEF CountLess
<1>4. weight * Cardinality(S) \in Int
  BY <1>1, <1>2
<1>5. totalWeight - weight * Cardinality(S)
        - (IF S # {} /\ kids \subseteq S THEN weight ELSE 0) \in Int
  BY <1>2, <1>4
<1>6. WeightWithout(S) \in 0 .. Wrap - 1
  BY <1>5, WrappedType DEF WeightWithout
<1> QED
  BY <1>2, <1>3, <1>6, WrappedType

\* The numbers of the rotation stay integers.
LEMMA RotationType ==
  ASSUME TypeOK
  PROVE  Signed(totalWeight) \in Int /\ AfterLeg \in Int
<1>1. \A n \in Int : Wrapped(n) \in Int
  BY WrappedType
<1>2. \A n \in Int : Signed(n) \in Int
  BY <1>1, LifecycleAssumption DEF Signed
<1>3. totalWeight \in Int /\ weightCounter \in Int /\ weight \in Int
  BY LifecycleAssumption DEF TypeOK
<1> QED
  BY <1>2, <1>3 DEF AfterLeg

\* What Reassociate does with the new child p and the old one q.
Moves(a, p, q) ==
  /\ Reassociates(p, "sdes")
  /\ child' = [child EXCEPT
       ![q] = [child[q] EXCEPT !.addr = a, !.dead = FALSE, !.age = 0],
       ![p] = Killed([child[p] EXCEPT !.name = Owner[a], !.auth = TRUE,
                                      !.age = 0])]
  /\ drift' = IF child[q].dead THEN Wrapped(drift - 1) ELSE drift
  /\ aliveCount' = CountLess({p})

\* Every variable has its type, initially and after every step.
LEMMA TypeInit == Init => TypeOK
<1> SUFFICES ASSUME Init PROVE TypeOK
  OBVIOUS
<1>1. 0 \in 0 .. Wrap - 1 /\ 0 \in 0 .. MaxPeers /\ 0 \in Int
  BY LifecycleAssumption
<1>2. srp \in BOOLEAN /\ weight \in Nat /\ wCount \in Nat
  BY LifecycleAssumption DEF Init
<1>3. child \in [Ids -> Child]
  BY NoChildType DEF Init
<1>4. kids \subseteq 1 .. peerCounter /\ peerCounter \in 0 .. MaxPeers
  BY <1>1 DEF Init
<1>5. /\ aliveCount \in 0 .. Wrap - 1 /\ totalWeight \in 0 .. Wrap - 1
      /\ weightCounter \in Int /\ drift \in 0 .. Wrap - 1
  BY <1>1 DEF Init
<1>6. left \in BOOLEAN
  BY Zenon DEF Init
<1>7. lost \in 0 .. 2
  BY DEF Init
<1> QED
  BY <1>2, <1>3, <1>4, <1>5, <1>6, <1>7 DEF TypeOK

LEMMA TypeStep == TypeOK /\ [Next]_vars => TypeOK'
<1> SUFFICES ASSUME TypeOK, [Next]_vars PROVE TypeOK'
  OBVIOUS
<1> USE LifecycleAssumption
<1>0. \A p \in kids : p \in Ids /\ child[p] \in Child
  BY DEF TypeOK, Ids
<1>1. ASSUME NEW a \in Addrs, NEW kind \in Kinds, NewChild(a, kind)
      PROVE  TypeOK'
  <2> DEFINE p == peerCounter + 1
             r == [NoChild EXCEPT !.addr = a]
  <2>1. r \in Child /\ r.addr = a
    BY DEF NoChild, Child
  <2>2. Received(r, kind) \in Child
    BY <2>1, ReceivedType
  <2>3. child' \in [Ids -> Child]
    BY <1>1, <2>2 DEF NewChild, TypeOK, Ids
  <2>4. kids' \subseteq 1 .. peerCounter' /\ peerCounter' \in 0 .. MaxPeers
    BY <1>1 DEF NewChild, TypeOK
  <2>5. aliveCount' \in 0 .. Wrap - 1 /\ totalWeight' \in 0 .. Wrap - 1
    BY <1>1, CountersType DEF NewChild, TypeOK
  <2> QED
    BY <1>1, <2>3, <2>4, <2>5 DEF NewChild, TypeOK
<1>2. ASSUME NEW a \in Addrs, NEW kind \in Kinds, Packet(a, kind)
      PROVE  TypeOK'
  <2>1. PICK p \in Match(a) : child' = [child EXCEPT ![p] = Received(child[p], kind)]
    BY <1>2 DEF Packet
  <2>2. Received(child[p], kind) \in Child
    BY <1>0, Matched, ReceivedType
  <2> QED
    BY <1>2, <2>1, <2>2 DEF Packet, TypeOK, counters
<1>3. ASSUME NEW a \in Addrs, Reassociate(a) PROVE TypeOK'
  <2>0. PICK p \in Match(a) : \E q \in TakenOver(p) : Moves(a, p, q)
    BY <1>3 DEF Reassociate, Moves
  <2>1. PICK q \in TakenOver(p) : Moves(a, p, q)
    BY <2>0
  <2>2. p \in kids /\ q \in kids
    BY Matched DEF TakenOver, SameName, First
  <2>3. [child[q] EXCEPT !.addr = a, !.dead = FALSE, !.age = 0] \in Child
    BY <1>0, <2>2 DEF Child
  <2>4. [child[p] EXCEPT !.name = Owner[a], !.auth = TRUE, !.age = 0] \in Child
    BY <1>0, <2>2 DEF Child
  <2>5. child' \in [Ids -> Child]
    BY <2>1, <2>3, <2>4, AgedType DEF TypeOK, Moves
  <2>6. aliveCount' \in 0 .. Wrap - 1 /\ drift' \in 0 .. Wrap - 1
    BY <2>1, <2>2, CountersType DEF TypeOK, Moves
  <2> QED
    BY <1>3, <2>5, <2>6 DEF Reassociate, TypeOK, counters
<1>4. ASSUME NEW a \in Addrs, NEW ok \in BOOLEAN, Eapol(a, ok) PROVE TypeOK'
  <2>1. PICK p \in Match(a) :
          child' = [child EXCEPT ![p].age = 0, ![p].eap = ok, ![p].auth = @ \/ ok]
    BY <1>4 DEF Eapol
  <2>2. child' \in [Ids -> Child]
    BY <1>0, <2>1, Matched DEF TypeOK, Child
  <2> QED
    BY <1>4, <2>2 DEF Eapol, TypeOK, counters
<1>5. ASSUME NEW a \in Addrs, EapTerminated(a) PROVE TypeOK'
  <2>1. PICK p \in Match(a) :
          /\ child' = [child EXCEPT
               ![p] = Killed([child[p] EXCEPT !.age = 0, !.eap = FALSE])]
          /\ aliveCount' = CountLess({p})
    BY <1>5 DEF EapTerminated
  <2>2. p \in kids
    BY Matched
  <2>5. [child[p] EXCEPT !.age = 0, !.eap = FALSE] \in Child
    BY <1>0, <2>2 DEF Child
  <2>3. child' \in [Ids -> Child]
    BY <2>1, <2>5, AgedType DEF TypeOK
  <2>4. aliveCount' \in 0 .. Wrap - 1
    BY <2>1, <2>2, CountersType
  <2> QED
    BY <1>5, <2>3, <2>4 DEF EapTerminated, TypeOK, counters
<1>6. ASSUME NEW c \in Ids, ReauthExpires(c) PROVE TypeOK'
  <2>1. child' \in [Ids -> Child]
    BY <1>6 DEF ReauthExpires, TypeOK, Child
  <2> QED
    BY <1>6, <2>1 DEF ReauthExpires, TypeOK, counters
<1>7. ASSUME NEW c \in Ids, Destroy(c) PROVE TypeOK'
  <2>1. child' \in [Ids -> Child]
    BY <1>7, NoChildType DEF Destroy, TypeOK
  <2>2. drift' \in 0 .. Wrap - 1 /\ totalWeight' \in 0 .. Wrap - 1
    BY <1>7, CountersType DEF Destroy, Remove, TypeOK
  <2> QED
    BY <1>7, <2>1, <2>2 DEF Destroy, Remove, TypeOK
<1>8. CASE TimeoutCheck
  <2>1. \A c \in Ids : child[c] \in Child
    BY DEF TypeOK
  <2>2. child' \in [Ids -> Child]
    BY <1>8, <2>1, AgedType, NoChildType DEF TimeoutCheck
  <2>3. Expired \subseteq kids /\ Removable \subseteq kids
    BY DEF Expired, Removable, Alive
  <2>4. aliveCount' \in 0 .. Wrap - 1 /\ totalWeight' \in 0 .. Wrap - 1
    BY <1>8, <2>3, CountersType DEF TimeoutCheck, Remove
  <2> QED
    BY <1>8, <2>2, <2>4 DEF TimeoutCheck, Remove, TypeOK
<1>9. CASE SendData
  <2>1. weightCounter' \in Int
    BY <1>9, RotationType DEF SendData
  <2>2. wCount' \in Nat
    BY <1>9 DEF SendData, TypeOK, Selected
  <2>3. lost' \in 0 .. 2
    BY <1>9 DEF SendData, Older, TypeOK
  <2> QED
    BY <1>9, <2>1, <2>2, <2>3 DEF SendData, TypeOK
<1>10. CASE UNCHANGED vars
  BY <1>10 DEF vars, counters, TypeOK
<1> QED
  BY <1>1, <1>2, <1>3, <1>4, <1>5, <1>6, <1>7, <1>8, <1>9, <1>10 DEF Next

-----------------------------------------------------------------------------
(* The lists of the sender.                                                *)

LEMMA DanglingStep == TypeOK /\ NoDangling /\ [Next]_vars => NoDangling'
<1> SUFFICES ASSUME TypeOK, NoDangling, [Next]_vars PROVE NoDangling'
  OBVIOUS
<1> USE DEF NoDangling
<1>0. \A S \in SUBSET kids : Current(S) \subseteq kids \cup {None}
  BY DEF Current, First, Alive
<1>1. ASSUME NEW a \in Addrs, NEW kind \in Kinds, NewChild(a, kind)
      PROVE  NoDangling'
  BY <1>1 DEF NewChild
<1>2. ASSUME NEW a \in Addrs, NEW kind \in Kinds, Packet(a, kind)
      PROVE  NoDangling'
  <2>1. PICK p \in Match(a) :
          oobPeer' \in IF kind = "oob" /\ Open(child[p]) THEN Current({p})
                       ELSE {oobPeer}
    BY <1>2 DEF Packet
  <2>2. Current({p}) \subseteq kids \cup {None}
    BY <1>0, Matched
  <2> QED
    BY <1>2, <2>1, <2>2 DEF Packet
<1>3. ASSUME NEW a \in Addrs, Reassociate(a) PROVE NoDangling'
  BY <1>3 DEF Reassociate
<1>4. ASSUME NEW a \in Addrs, NEW ok \in BOOLEAN, Eapol(a, ok) PROVE NoDangling'
  BY <1>4 DEF Eapol
<1>5. ASSUME NEW a \in Addrs, EapTerminated(a) PROVE NoDangling'
  BY <1>5 DEF EapTerminated
<1>6. ASSUME NEW c \in Ids, ReauthExpires(c) PROVE NoDangling'
  BY <1>6 DEF ReauthExpires
<1>7. ASSUME NEW c \in Ids, Destroy(c) PROVE NoDangling'
  BY <1>7 DEF Destroy, Remove, OobWithout
<1>8. CASE TimeoutCheck
  BY <1>8 DEF TimeoutCheck, Remove, OobWithout
<1>9. CASE SendData
  <2>1. SentTo \subseteq kids
    BY DEF SentTo, Served
  <2> QED
    BY <1>0, <1>9, <2>1 DEF SendData
<1>10. CASE UNCHANGED vars
  BY <1>10 DEF vars
<1> QED
  BY <1>1, <1>2, <1>3, <1>4, <1>5, <1>6, <1>7, <1>8, <1>9, <1>10 DEF Next

-----------------------------------------------------------------------------
(* The count of the children that are alive.                               *)

\* When as many children more are alive as were counted, and no other change of
\* the drift, the count stays explained.
LEMMA CountedOn ==
  ASSUME NEW n \in Int, NEW d \in Int, NEW m \in Int
  PROVE  Wrapped(Wrapped(n + d) + m) = Wrapped((n + m) + d)
<1>1. Wrapped(Wrapped(n + d) + m) = Wrapped((n + d) + m)
  BY WrappedSum
<1>2. (n + d) + m = (n + m) + d
  OBVIOUS
<1> QED
  BY <1>1, <1>2

\* The same when a wrapped drift takes the change up.
LEMMA CountDrifts ==
  ASSUME NEW n \in Int, NEW d \in Int, NEW m \in Int
  PROVE  Wrapped(n + Wrapped(d + m)) = Wrapped((n + m) + d)
<1>1. Wrapped(Wrapped(d + m) + n) = Wrapped((d + m) + n)
  BY WrappedSum
<1>2. Wrapped(d + m) \in Int
  BY WrappedType, LifecycleAssumption
<1>3. (d + m) + n = (n + m) + d /\ Wrapped(d + m) + n = n + Wrapped(d + m)
  BY <1>2
<1> QED
  BY <1>1, <1>3

\* Children that die leave the count by as many as they are.
LEMMA CountFalls ==
  ASSUME TypeOK, CountExplained, NEW S, S \subseteq Alive,
         NEW A, A = Alive \ S
  PROVE  CountLess(S) = Wrapped(Cardinality(A) + drift)
<1>1. IsFiniteSet(Alive) /\ Cardinality(Alive) \in Int
  BY ChildrenFinite DEF Alive
<1>2. Cardinality(S) \in Int /\ S \cap Alive = S
  BY ChildrenFinite DEF Alive
<1>3. Cardinality(A) = Cardinality(Alive) - Cardinality(S)
  <2>1. Cardinality(Alive \ S) = Cardinality(Alive) - Cardinality(Alive \cap S)
    BY <1>1, FS_Difference
  <2>2. Alive \cap S = S
    OBVIOUS
  <2> QED
    BY <2>1, <2>2
<1>4. drift \in Int
  BY LifecycleAssumption DEF TypeOK
<1>5. CountLess(S) = Wrapped(Wrapped(Cardinality(Alive) + drift) - Cardinality(S))
  BY <1>2 DEF CountLess, CountExplained
<1> DEFINE m == -Cardinality(S)
<1>6. m \in Int /\ Cardinality(A) = Cardinality(Alive) + m
  BY <1>1, <1>2, <1>3
<1>7. Wrapped(Cardinality(Alive) + drift) \in Int
  BY <1>1, <1>4, WrappedType, LifecycleAssumption
<1>8. CountLess(S) = Wrapped(Wrapped(Cardinality(Alive) + drift) + m)
  BY <1>2, <1>5, <1>7
<1> HIDE DEF m
<1> QED
  BY <1>1, <1>4, <1>6, <1>8, CountedOn

LEMMA CountStep == TypeOK /\ CountExplained /\ [Next]_vars => CountExplained'
<1> SUFFICES ASSUME TypeOK, CountExplained, [Next]_vars PROVE CountExplained'
  OBVIOUS
<1> USE LifecycleAssumption
<1>0. /\ \A c \in kids : c \in Ids /\ child[c] \in Child
      /\ child \in [Ids -> Child] /\ Alive \subseteq kids
      /\ IsFiniteSet(Alive) /\ Cardinality(Alive) \in Int
      /\ drift \in Int
  BY ChildrenFinite DEF TypeOK, Ids, Alive
\* A step that leaves the same children alive and counts nothing.
<1>a. ASSUME Alive' = Alive, aliveCount' = aliveCount, drift' = drift
         PROVE  CountExplained'
  BY <1>a DEF CountExplained
<1>1. ASSUME NEW a \in Addrs, NEW kind \in Kinds, NewChild(a, kind)
      PROVE  CountExplained'
  <2> DEFINE p == peerCounter + 1
             r == [NoChild EXCEPT !.addr = a]
  <2>1. p \in Ids /\ p \notin kids
    BY <1>1 DEF NewChild, TypeOK, Ids
  <2>2. r \in Child /\ r.addr = a /\ ~r.dead
    BY DEF NoChild, Child
  <2>3. child' = [child EXCEPT ![p] = Received(r, kind)] /\ kids' = kids \cup {p}
    BY <1>1 DEF NewChild
  <2>4. ~Received(r, kind).dead
    BY <2>2, ReceivedType
  <2> HIDE DEF p, r
  <2>5. Alive' = Alive \cup {p} /\ p \notin Alive
    BY <1>0, <2>1, <2>3, <2>4 DEF Alive
  <2>6. Cardinality(Alive') = Cardinality(Alive) + 1
    BY <1>0, <2>5, FS_AddElement
  <2>7. aliveCount' = Wrapped(Wrapped(Cardinality(Alive) + drift) + 1) /\ drift' = drift
    BY <1>1 DEF NewChild, CountExplained
  <2> QED
    BY <1>0, <2>6, <2>7, CountedOn DEF CountExplained
<1>2. ASSUME NEW a \in Addrs, NEW kind \in Kinds, Packet(a, kind)
      PROVE  CountExplained'
  <2>1. PICK p \in Match(a) : child' = [child EXCEPT ![p] = Received(child[p], kind)]
    BY <1>2 DEF Packet
  <2>2. p \in kids /\ Received(child[p], kind).dead = child[p].dead
    BY <1>0, Matched, ReceivedType
  <2>3. Alive' = Alive
    BY <1>0, <1>2, <2>1, <2>2 DEF Alive, Packet
  <2> QED
    BY <1>2, <1>a, <2>3 DEF Packet
<1>3. ASSUME NEW a \in Addrs, Reassociate(a) PROVE CountExplained'
  <2>0. PICK p \in Match(a) : \E q \in TakenOver(p) : Moves(a, p, q)
    BY <1>3 DEF Reassociate, Moves
  <2>1. PICK q \in TakenOver(p) : Moves(a, p, q)
    BY <2>0
  <2>2. p \in kids /\ p \in Alive /\ q \in kids /\ q # p
    BY Matched DEF TakenOver, SameName, First
  <2>9. child'[p].dead /\ ~child'[q].dead
    <3>1. [child[p] EXCEPT !.name = Owner[a], !.auth = TRUE, !.age = 0] \in Child
      BY <1>0, <2>2 DEF Child
    <3>2. child'[p].dead
      BY <1>0, <2>1, <2>2, <3>1, AgedType DEF Moves
    <3>3. child'[q] = [child[q] EXCEPT !.addr = a, !.dead = FALSE, !.age = 0]
      BY <1>0, <2>1, <2>2 DEF Moves
    <3>4. ~child'[q].dead
      BY <1>0, <2>2, <3>3 DEF Child
    <3> QED
      BY <3>2, <3>4
  <2>3. child'[p].dead /\ ~child'[q].dead /\ kids' = kids
    BY <1>3, <2>9 DEF Reassociate
  <2>4. \A c \in kids \ {p, q} : child'[c] = child[c]
    BY <1>0, <2>1 DEF Moves
  <2>5. Alive' = (Alive \ {p}) \cup {q}
    BY <2>2, <2>3, <2>4 DEF Alive
  <2>6. /\ aliveCount' = Wrapped(Cardinality(Alive \ {p}) + drift)
        /\ IsFiniteSet(Alive \ {p}) /\ Cardinality(Alive \ {p}) \in Int
    BY <1>0, <2>1, <2>2, CountFalls, FS_RemoveElement DEF Moves
  <2>7. CASE child[q].dead
    <3>1. q \notin Alive \ {p}
      BY <2>7 DEF Alive
    <3> DEFINE A == Alive \ {p}
               n == Cardinality(A) + 1
    <3>2. Cardinality(Alive') = n
      BY <2>5, <2>6, <3>1, FS_AddElement
    <3>3. n \in Int /\ Cardinality(A) = n + (-1)
      BY <2>6
    <3>4. drift' = Wrapped(drift + (-1))
      BY <1>0, <2>1, <2>7 DEF Moves
    <3>5. aliveCount' = Wrapped((n + (-1)) + drift)
      BY <2>6, <3>3
    <3> HIDE DEF n, A
    <3> QED
      BY <1>0, <3>2, <3>3, <3>4, <3>5, CountDrifts DEF CountExplained
  <2>8. CASE ~child[q].dead
    <3>1. Alive' = Alive \ {p} /\ drift' = drift
      BY <2>1, <2>2, <2>5, <2>8 DEF Moves, Alive
    <3> QED
      BY <2>6, <3>1 DEF CountExplained
  <2> QED
    BY <2>7, <2>8
<1>4. ASSUME NEW a \in Addrs, NEW ok \in BOOLEAN, Eapol(a, ok)
      PROVE  CountExplained'
  <2>1. \A c \in kids : child'[c].dead = child[c].dead
    BY <1>0, <1>4 DEF Eapol, Child
  <2>2. Alive' = Alive
    BY <1>4, <2>1 DEF Eapol, Alive
  <2> QED
    BY <1>4, <1>a, <2>2 DEF Eapol
<1>5. ASSUME NEW a \in Addrs, EapTerminated(a) PROVE CountExplained'
  <2>1. PICK p \in Match(a) :
          /\ child' = [child EXCEPT
               ![p] = Killed([child[p] EXCEPT !.age = 0, !.eap = FALSE])]
          /\ aliveCount' = CountLess({p})
    BY <1>5 DEF EapTerminated
  <2>2. p \in kids /\ p \in Alive
    BY Matched
  <2>3. child'[p].dead /\ \A c \in kids \ {p} : child'[c] = child[c]
    BY <1>0, <2>1, <2>2 DEF Killed, Child
  <2>4. Alive' = Alive \ {p} /\ drift' = drift
    BY <1>5, <2>2, <2>3 DEF Alive, EapTerminated
  <2> QED
    BY <2>1, <2>2, <2>4, CountFalls DEF CountExplained
<1>6. ASSUME NEW c \in Ids, ReauthExpires(c) PROVE CountExplained'
  <2>1. \A d \in kids : child'[d].dead = child[d].dead
    BY <1>0, <1>6 DEF ReauthExpires, Child
  <2>2. Alive' = Alive
    BY <1>6, <2>1 DEF ReauthExpires, Alive
  <2> QED
    BY <1>6, <1>a, <2>2 DEF ReauthExpires
<1>7. ASSUME NEW c \in Ids, Destroy(c) PROVE CountExplained'
  <2>1. kids' = kids \ {c} /\ aliveCount' = aliveCount /\ c \in kids
    BY <1>7 DEF Destroy, Remove
  <2>2. \A d \in kids \ {c} : child'[d] = child[d]
    BY <1>0, <1>7 DEF Destroy
  <2>3. Alive' = Alive \ {c}
    BY <2>1, <2>2 DEF Alive
  <2>4. CASE child[c].dead
    <3>1. Alive' = Alive /\ drift' = drift
      BY <1>7, <2>3, <2>4 DEF Alive, Destroy
    <3> QED
      BY <1>a, <2>1, <3>1
  <2>5. CASE ~child[c].dead
    <3> DEFINE n == Cardinality(Alive')
    <3>1. n = Cardinality(Alive) - 1
      BY <1>0, <2>1, <2>3, <2>5, FS_RemoveElement DEF Alive
    <3>2. n \in Int /\ n + 1 = Cardinality(Alive)
      BY <1>0, <3>1
    <3>3. drift' = Wrapped(drift + 1)
      BY <1>7, <2>5 DEF Destroy
    <3>4. aliveCount' = Wrapped((n + 1) + drift)
      BY <2>1, <3>2 DEF CountExplained
    <3>5. Wrapped(n + drift') = aliveCount'
      <4> HIDE DEF n
      <4> QED
        BY <1>0, <3>2, <3>3, <3>4, CountDrifts
    <3> QED
      BY <3>5 DEF CountExplained
  <2> QED
    BY <2>4, <2>5
<1>8. CASE TimeoutCheck
  <2>1. \A c \in kids' : /\ c \in kids /\ c \notin Removable
                         /\ child'[c] = IF c \in Expired THEN Killed(Aged(child[c]))
                                        ELSE Aged(child[c])
    BY <1>0, <1>8 DEF TimeoutCheck, Remove
  <2>2. \A c \in kids' : child'[c].dead <=> child[c].dead \/ c \in Expired
    <3> SUFFICES ASSUME NEW c \in kids'
                 PROVE  child'[c].dead <=> child[c].dead \/ c \in Expired
      OBVIOUS
    <3>1. /\ Aged(child[c]) \in Child /\ Aged(child[c]).dead = child[c].dead
          /\ Killed(Aged(child[c])).dead
      BY <1>0, <2>1, AgedType
    <3> QED
      BY <2>1, <3>1
  <2>3. kids' = kids \ Removable /\ Removable \cap Alive = {} /\ Expired \subseteq Alive
    BY <1>8 DEF TimeoutCheck, Remove, Removable, Expired
  <2>4. Alive' = Alive \ Expired
    BY <2>2, <2>3 DEF Alive
  <2>5. aliveCount' = CountLess(Expired) /\ drift' = drift
    BY <1>8 DEF TimeoutCheck
  <2> QED
    BY <2>3, <2>4, <2>5, CountFalls DEF CountExplained
<1>9. CASE SendData
  BY <1>9, <1>a DEF SendData, Alive
<1>10. CASE UNCHANGED vars
  BY <1>10, <1>a DEF vars, Alive
<1> QED
  BY <1>1, <1>2, <1>3, <1>4, <1>5, <1>6, <1>7, <1>8, <1>9, <1>10 DEF Next

-----------------------------------------------------------------------------
(* The theorems.                                                           *)

\* Every variable keeps its type: the counters of the listener stay in the range
\* of a uint32_t, and the ids of the children are those that were given out.
THEOREM LifecycleTypes == Spec => []TypeOK
<1> QED
  BY TypeInit, TypeStep, PTL DEF Spec

\* rist_peer_remove leaves no freed child in peer_lst or as oob_current_peer.
THEOREM NoneDangling == Spec => []NoDangling
<1>1. Init => NoDangling
  BY DEF Init, NoDangling
<1> QED
  BY <1>1, LifecycleTypes, DanglingStep, PTL DEF Spec

\* child_alive_count is wrong by the children destroyed alive and the dead ones
\* taken over, and by nothing else, whatever the range it wraps in.
THEOREM CountIsExplained == Spec => []CountExplained
<1>1. Init => CountExplained
  <2> SUFFICES ASSUME Init PROVE CountExplained
    OBVIOUS
  <2>1. Alive = {} /\ aliveCount = 0 /\ drift = 0
    BY DEF Init, Alive
  <2>2. Cardinality(Alive) = 0
    BY <2>1, FS_EmptySet
  <2>3. Wrapped(0) = 0
    <3>1. 0 \in 0 .. Wrap - 1 /\ 0 = Wrap * 0 + 0
      BY LifecycleAssumption
    <3> QED
      BY <3>1, WrappedUnique
  <2> QED
    BY <2>1, <2>2, <2>3 DEF CountExplained
<1> QED
  BY <1>1, LifecycleTypes, CountStep, PTL DEF Spec

-----------------------------------------------------------------------------
(* No two packets in a row are lost.                                       *)

\* What the rotation needs: until a child is removed, total_weight is the weight
\* of the listener; and after a packet that was lost, w_count has been refilled.
RotationInv ==
  /\ weight \in 0 .. Wrap - 1
  /\ ~left => totalWeight = IF kids = {} THEN 0 ELSE weight
  /\ lost = 1 => wCount = weight

\* A number in range is not changed by wrapping.
LEMMA WrappedSame == ASSUME NEW n \in 0 .. Wrap - 1 PROVE Wrapped(n) = n
<1>1. n \in Int /\ n = Wrap * 0 + n
  BY LifecycleAssumption
<1> QED
  BY <1>1, WrappedUnique

\* While the drift is 0 the count is not 0 when a child is alive.
LEMMA CountedWhenCalm ==
  ASSUME TypeOK, CountExplained, drift = 0, Alive # {}
  PROVE  aliveCount # 0
<1>1. IsFiniteSet(Alive) /\ Cardinality(Alive) \in Nat /\ Alive \subseteq Ids
  BY ChildrenFinite DEF Alive
<1>2. Cardinality(Alive) # 0
  BY <1>1, FS_EmptySet
<1>3. Cardinality(Alive) <= MaxPeers
  <2>1. IsFiniteSet(Ids) /\ Cardinality(Ids) = MaxPeers
    <3>1. 1 \in Int /\ MaxPeers \in Int /\ 1 .. MaxPeers = Ids
      BY LifecycleAssumption DEF Ids
    <3>2. Cardinality(1 .. MaxPeers) = IF 1 > MaxPeers THEN 0 ELSE MaxPeers - 1 + 1
      BY <3>1, FS_Interval
    <3>3. MaxPeers \in Nat
      BY LifecycleAssumption
    <3> QED
      BY <3>1, <3>2, <3>3, FS_Interval
  <2> QED
    BY <1>1, <2>1, FS_Subset
<1>4. Cardinality(Alive) \in 0 .. Wrap - 1
  BY <1>1, <1>3, LifecycleAssumption, WidthAssumption
<1>5. aliveCount = Wrapped(Cardinality(Alive))
  BY <1>1 DEF CountExplained
<1> QED
  BY <1>2, <1>4, <1>5, WrappedSame

\* A packet is lost only because w_count is used up.
LEMMA LostWhenUsedUp ==
  ASSUME TypeOK, CountExplained, Calm, Reachable # {}, SentTo = {}
  PROVE  weight > 0 /\ wCount = 0 /\ ~Skipped /\ ~left /\ kids # {}
<1>1. Reachable \subseteq Served /\ Reachable \subseteq Alive /\ Alive \subseteq kids
  BY DEF Reachable, Served, Alive, MaySend
<1>2. ~Skipped
  BY <1>1, CountedWhenCalm DEF Skipped, Calm
<1>3. ~Selected /\ ~Duplicated
  BY <1>1 DEF SentTo
<1>4. weight \in Nat /\ wCount \in Nat
  BY DEF TypeOK
<1>5. weight > 0 /\ wCount = 0
  BY <1>2, <1>3, <1>4 DEF Selected, Duplicated
<1> QED
  BY <1>1, <1>2, <1>5 DEF Calm

LEMMA RotationStep ==
  TypeOK /\ CountExplained /\ RotationInv /\ Carries /\ [Next]_vars
    => RotationInv' /\ Carries'
<1> SUFFICES ASSUME TypeOK, CountExplained, RotationInv, Carries, [Next]_vars
             PROVE  RotationInv' /\ Carries'
  OBVIOUS
<1> USE DEF RotationInv, Carries
\* Most steps do not touch the rotation.
<1>a. ASSUME UNCHANGED <<weight, kids, counters, left>>
      PROVE  RotationInv' /\ Carries'
  BY <1>a DEF counters
<1>1. ASSUME NEW a \in Addrs, NEW kind \in Kinds, NewChild(a, kind)
      PROVE  RotationInv' /\ Carries'
  <2>1. /\ UNCHANGED <<weight, wCount, left, lost>> /\ kids' # {}
        /\ totalWeight' = IF kids = {} THEN Wrapped(totalWeight + weight)
                          ELSE totalWeight
    BY <1>1 DEF NewChild
  <2>2. ~left => totalWeight' = weight
    <3>1. CASE kids = {} /\ ~left
      <4>1. totalWeight + weight = weight
        BY <3>1, LifecycleAssumption
      <4> QED
        BY <2>1, <3>1, <4>1, WrappedSame
    <3> QED
      BY <2>1, <3>1
  <2> QED
    BY <2>1, <2>2
<1>2. ASSUME NEW a \in Addrs, NEW kind \in Kinds, Packet(a, kind)
      PROVE  RotationInv' /\ Carries'
  BY <1>2, <1>a DEF Packet
<1>3. ASSUME NEW a \in Addrs, Reassociate(a) PROVE RotationInv' /\ Carries'
  BY <1>3, <1>a DEF Reassociate
<1>4. ASSUME NEW a \in Addrs, NEW ok \in BOOLEAN, Eapol(a, ok)
      PROVE  RotationInv' /\ Carries'
  BY <1>4, <1>a DEF Eapol
<1>5. ASSUME NEW a \in Addrs, EapTerminated(a) PROVE RotationInv' /\ Carries'
  BY <1>5, <1>a DEF EapTerminated
<1>6. ASSUME NEW c \in Ids, ReauthExpires(c) PROVE RotationInv' /\ Carries'
  BY <1>6, <1>a DEF ReauthExpires
<1>7. ASSUME NEW c \in Ids, Destroy(c) PROVE RotationInv' /\ Carries'
  <2>1. left' /\ UNCHANGED <<weight, wCount, lost>>
    BY <1>7 DEF Destroy, Remove
  <2> QED
    BY <2>1
<1>8. CASE TimeoutCheck
  <2>1. /\ UNCHANGED <<weight, wCount, lost>>
        /\ kids' = kids \ Removable /\ left' = (left \/ Removable # {})
        /\ totalWeight' = WeightWithout(Removable)
    BY <1>8 DEF TimeoutCheck, Remove
  <2>2. CASE Removable = {}
    <3>1. totalWeight - weight * Cardinality(Removable)
            - (IF Removable # {} /\ kids \subseteq Removable THEN weight ELSE 0)
          = totalWeight
      <4>1. Cardinality(Removable) = 0
        BY <2>2, FS_EmptySet
      <4>2. totalWeight \in Int /\ weight \in Int
        BY LifecycleAssumption DEF TypeOK
      <4> QED
        BY <2>2, <4>1, <4>2
    <3>2. totalWeight' = totalWeight
      BY <2>1, <3>1, WrappedSame DEF WeightWithout, TypeOK
    <3> QED
      BY <2>1, <2>2, <3>2
  <2>3. CASE Removable # {}
    BY <2>1, <2>3
  <2> QED
    BY <2>2, <2>3
<1>9. CASE SendData
  <2>1. /\ UNCHANGED <<weight, kids, totalWeight, left>>
        /\ wCount' = IF RoundOver \/ Skipped THEN weight
                     ELSE IF Selected THEN wCount - 1 ELSE wCount
        /\ lost' = IF Calm /\ Reachable # {} /\ SentTo = {}
                   THEN Older(lost, 1) ELSE 0
    BY <1>9 DEF SendData
  <2>2. CASE Calm /\ Reachable # {} /\ SentTo = {}
    <3>1. weight > 0 /\ wCount = 0 /\ ~Skipped /\ ~left /\ kids # {}
      BY <2>2, LostWhenUsedUp
    <3>2. lost = 0
      BY <3>1 DEF TypeOK
    <3>3. RoundOver
      BY <3>1 DEF RoundOver, Selected
    <3>4. lost' = 1 /\ wCount' = weight
      BY <2>1, <2>2, <3>2, <3>3 DEF Older
    <3> QED
      BY <2>1, <3>4
  <2>3. CASE ~(Calm /\ Reachable # {} /\ SentTo = {})
    <3>1. lost' = 0
      BY <2>1, <2>3
    <3> QED
      BY <2>1, <3>1
  <2> QED
    BY <2>2, <2>3
<1>10. CASE UNCHANGED vars
  BY <1>10, <1>a DEF vars, counters
<1> QED
  BY <1>1, <1>2, <1>3, <1>4, <1>5, <1>6, <1>7, <1>8, <1>9, <1>10 DEF Next

\* While child_alive_count is right and no child of a weighted listener has been
\* removed, the end of a round costs one packet and never two in a row.
THEOREM ListenerCarries == Spec => []Carries
<1>1. Init => RotationInv /\ Carries
  <2> SUFFICES ASSUME Init PROVE RotationInv /\ Carries
    OBVIOUS
  <2>1. weight \in 0 .. Wrap - 1
    BY WidthAssumption DEF Init
  <2> QED
    BY <2>1 DEF Init, RotationInv, Carries
<1> QED
  BY <1>1, LifecycleTypes, CountIsExplained, RotationStep, PTL DEF Spec
=============================================================================
