------------------------ MODULE SenderBalanceProofs ------------------------
(***************************************************************************)
(* For any number of legs and any weights: the rotation never loses two    *)
(* packets in a row, serves every leg of weight 0 that can be reached, and *)
(* in a steady bond loses nothing.                                         *)
(***************************************************************************)
EXTENDS SenderBalance, BondGuardsProofs

-----------------------------------------------------------------------------
(* Induction, and functions defined by recursion on the number of a leg.   *)

\* Induction up to m, for a set.
LEMMA UpTo ==
  ASSUME NEW m \in Nat, NEW S, 0 \in S, \A n \in 0 .. m - 1 : n \in S => n + 1 \in S
  PROVE  \A n \in 0 .. m : n \in S
<1> DEFINE Bad == {n \in 0 .. m : n \notin S}
<1>1. CASE Bad = {}
  BY <1>1
<1>2. CASE Bad # {}
  <2>1. PICK x \in Bad : \A y \in Bad : x <= y
    <3>1. Bad \subseteq Nat
      OBVIOUS
    <3> HIDE DEF Bad
    <3> QED BY <1>2, <3>1, Least
  <2>2. x \in 1 .. m /\ x \notin S
    BY <2>1
  <2>3. x - 1 \in 0 .. m - 1
    BY <2>2
  <2>4. x - 1 \in S
    <3>1. x - 1 \notin Bad
      <4>1. ~(x <= x - 1)
        BY <2>2
      <4> HIDE DEF Bad
      <4> QED BY <2>1, <4>1
    <3> QED BY <2>3, <3>1
  <2>5. (x - 1) + 1 \in S
    BY <2>3, <2>4
  <2>6. (x - 1) + 1 = x
    BY <2>2
  <2> QED BY <2>2, <2>5, <2>6
<1> QED BY <1>1, <1>2

\* From b on, one step T for each leg: there is such a function.
LEMMA Recursion ==
  ASSUME NEW b \in Int, NEW T \in [Legs \X Int -> Int]
  PROVE  \E g \in [0 .. NLegs -> Int] :
           g = [n \in 0 .. NLegs |-> IF n = 0 THEN b ELSE T[<<n, g[n - 1]>>]]
<1> DEFINE Is(m, g) == /\ g \in [0 .. m -> Int]
                       /\ g[0] = b
                       /\ \A n \in 1 .. m : g[n] = T[<<n, g[n - 1]>>]
           S == {m \in 0 .. NLegs : \E g : Is(m, g)}
<1>1. NLegs \in Nat
  BY GuardAssumption
<1>2. 0 \in S
  <2>1. Is(0, [n \in 0 .. 0 |-> b])
    OBVIOUS
  <2>2. 0 \in 0 .. NLegs
    BY <1>1
  <2> QED BY <2>1, <2>2
<1>3. ASSUME NEW m \in 0 .. NLegs - 1, m \in S
      PROVE  m + 1 \in S
  <2>1. PICK g : Is(m, g)
    BY <1>3
  <2> DEFINE h == [n \in 0 .. m + 1 |-> IF n = m + 1 THEN T[<<m + 1, g[m]>>]
                                        ELSE g[n]]
  <2>2. m \in Nat /\ m + 1 \in Legs /\ g[m] \in Int
    <3>1. m \in 0 .. m /\ m + 1 \in Legs
      BY <1>1 DEF Legs
    <3> QED BY <2>1, <3>1
  <2>3. T[<<m + 1, g[m]>>] \in Int
    BY <2>2
  <2>4. h \in [0 .. m + 1 -> Int]
    <3>1. ASSUME NEW n \in 0 .. m + 1, n # m + 1 PROVE n \in 0 .. m
      BY <3>1, <2>2
    <3> QED BY <2>1, <2>3, <3>1
  <2>5. h[0] = b
    BY <2>1, <2>2
  <2>6. ASSUME NEW n \in 1 .. m + 1 PROVE h[n] = T[<<n, h[n - 1]>>]
    <3>1. CASE n = m + 1
      <4>1. h[n] = T[<<n, g[m]>>]
        BY <3>1, <2>2
      <4>2. n - 1 = m /\ m # m + 1 /\ m \in 0 .. m + 1
        BY <3>1, <2>2
      <4>3. h[n - 1] = g[m]
        BY <4>2
      <4> QED BY <4>1, <4>3
    <3>2. CASE n # m + 1
      <4>1. n \in 1 .. m /\ n - 1 \in 0 .. m + 1 /\ n - 1 # m + 1 /\ n \in 0 .. m + 1
        BY <3>2, <2>2
      <4>2. h[n] = g[n] /\ h[n - 1] = g[n - 1]
        BY <4>1, <3>2
      <4> QED BY <2>1, <4>1, <4>2
    <3> QED BY <3>1, <3>2
  <2>7. Is(m + 1, h)
    BY <2>4, <2>5, <2>6
  <2>8. m + 1 \in 0 .. NLegs
    BY <1>1, <2>2
  <2> QED BY <2>7, <2>8
<1>4. NLegs \in S
  <2>1. \A n \in 0 .. NLegs : n \in S
    <3> HIDE DEF S
    <3> QED BY <1>1, <1>2, <1>3, UpTo
  <2>2. NLegs \in 0 .. NLegs
    BY <1>1
  <2> HIDE DEF S
  <2> QED BY <2>1, <2>2
<1>5. PICK g : Is(NLegs, g)
  BY <1>4
<1>6. ASSUME NEW n \in 0 .. NLegs
      PROVE  g[n] = IF n = 0 THEN b ELSE T[<<n, g[n - 1]>>]
  BY <1>5
<1> QED BY <1>5, <1>6

\* The sum of numbers, leg by leg.
SumIs(f, g) == g = [n \in 0 .. NLegs |-> IF n = 0 THEN 0 ELSE g[n - 1] + f[n]]

LEMMA TotalIs ==
  ASSUME NEW f \in [Legs -> Int]
  PROVE  \E g \in [0 .. NLegs -> Int] : SumIs(f, g) /\ Total(f) = g[NLegs]
<1> DEFINE T == [x \in Legs \X Int |-> x[2] + f[x[1]]]
<1>1. T \in [Legs \X Int -> Int]
  OBVIOUS
<1>2. PICK g \in [0 .. NLegs -> Int] :
        g = [n \in 0 .. NLegs |-> IF n = 0 THEN 0 ELSE T[<<n, g[n - 1]>>]]
  <2>1. 0 \in Int
    OBVIOUS
  <2> HIDE DEF T
  <2> QED BY ONLY <1>1, <2>1, Recursion
<1>3. SumIs(f, g)
  <2>1. ASSUME NEW n \in 0 .. NLegs, n # 0
        PROVE  T[<<n, g[n - 1]>>] = g[n - 1] + f[n]
    <3>1. n \in Legs /\ n - 1 \in 0 .. NLegs
      BY <2>1, GuardAssumption DEF Legs
    <3>2. g[n - 1] \in Int
      BY <3>1
    <3> QED BY <3>1, <3>2
  <2>2. g = [n \in 0 .. NLegs |-> IF n = 0 THEN 0 ELSE g[n - 1] + f[n]]
    <3> HIDE DEF T
    <3> QED BY <1>2, <2>1
  <2> QED BY <2>2 DEF SumIs
<1> DEFINE sum == CHOOSE h : SumIs(f, h)
<1>4. SumIs(f, sum)
  BY <1>3
<1>5. Total(f) = sum[NLegs]
  BY DEF Total, SumIs
<1> HIDE DEF sum
<1> DEFINE Same == {n \in 0 .. NLegs : sum[n] = g[n]}
<1>6. 0 \in Same
  BY <1>3, <1>4, GuardAssumption DEF SumIs
<1>7. ASSUME NEW n \in 0 .. NLegs - 1, n \in Same PROVE n + 1 \in Same
  <2>1. n + 1 \in 0 .. NLegs /\ n + 1 # 0 /\ (n + 1) - 1 = n
    BY GuardAssumption
  <2>2. sum[n + 1] = sum[n] + f[n + 1] /\ g[n + 1] = g[n] + f[n + 1]
    BY <1>3, <1>4, <2>1 DEF SumIs
  <2> QED BY <1>7, <2>1, <2>2
<1>8. NLegs \in Same
  <2>1. NLegs \in Nat /\ NLegs \in 0 .. NLegs
    BY GuardAssumption
  <2>2. \A n \in 0 .. NLegs : n \in Same
    <3> HIDE DEF Same
    <3> QED BY <1>6, <1>7, <2>1, UpTo
  <2> HIDE DEF Same
  <2> QED BY <2>1, <2>2
<1> QED BY <1>3, <1>5, <1>8

\* A sum of natural numbers is one, and none of them is larger.
LEMMA TotalType ==
  ASSUME NEW f \in [Legs -> Nat]
  PROVE  Total(f) \in Nat /\ \A l \in Legs : f[l] <= Total(f)
<1>1. PICK g \in [0 .. NLegs -> Int] : SumIs(f, g) /\ Total(f) = g[NLegs]
  <2>1. f \in [Legs -> Int]
    OBVIOUS
  <2> QED BY <2>1, TotalIs
<1> DEFINE S == {n \in 0 .. NLegs : /\ g[n] \in Nat
                                   /\ \A l \in 1 .. n : f[l] <= g[n]}
<1>2. NLegs \in Nat /\ NLegs \in 0 .. NLegs
  BY GuardAssumption
<1>3. 0 \in S
  BY <1>1, <1>2 DEF SumIs
<1>4. ASSUME NEW n \in 0 .. NLegs - 1, n \in S PROVE n + 1 \in S
  <2>1. n + 1 \in 0 .. NLegs /\ n + 1 # 0 /\ (n + 1) - 1 = n /\ n + 1 \in Legs
    BY <1>2 DEF Legs
  <2>2. g[n + 1] = g[n] + f[n + 1]
    BY <1>1, <2>1 DEF SumIs
  <2>3. g[n] \in Nat /\ f[n + 1] \in Nat /\ \A l \in 1 .. n : f[l] <= g[n]
    BY <1>4, <2>1
  <2>4. ASSUME NEW l \in 1 .. n + 1 PROVE f[l] <= g[n + 1]
    <3>1. l \in Legs
      BY <1>2 DEF Legs
    <3>2. f[l] \in Nat
      BY <3>1
    <3>3. CASE l = n + 1
      BY <2>2, <2>3, <3>3
    <3>4. CASE l # n + 1
      <4>1. l \in 1 .. n
        BY <3>4
      <4> QED BY <2>2, <2>3, <3>2, <4>1
    <3> QED BY <3>3, <3>4
  <2> QED BY <2>1, <2>2, <2>3, <2>4
<1>5. NLegs \in S
  <2>1. \A n \in 0 .. NLegs : n \in S
    <3> HIDE DEF S
    <3> QED BY <1>2, <1>3, <1>4, UpTo
  <2> HIDE DEF S
  <2> QED BY <1>2, <2>1
<1> QED BY <1>1, <1>5 DEF Legs

\* To change one number changes the sum as much.
LEMMA TotalPoint ==
  ASSUME NEW f \in [Legs -> Int], NEW l \in Legs, NEW w \in Int
  PROVE  Total([f EXCEPT ![l] = w]) = Total(f) - f[l] + w
<1> DEFINE h == [f EXCEPT ![l] = w]
<1>1. PICK g \in [0 .. NLegs -> Int] : SumIs(f, g) /\ Total(f) = g[NLegs]
  BY TotalIs
<1>2. PICK k \in [0 .. NLegs -> Int] : SumIs(h, k) /\ Total(h) = k[NLegs]
  <2>1. h \in [Legs -> Int]
    OBVIOUS
  <2> HIDE DEF h
  <2> QED BY <2>1, TotalIs
<1> DEFINE S == {n \in 0 .. NLegs :
                   /\ l <= n => k[n] = g[n] + (w - f[l])
                   /\ ~(l <= n) => k[n] = g[n]}
<1>3. NLegs \in Nat /\ NLegs \in 0 .. NLegs /\ l \in 1 .. NLegs /\ f[l] \in Int
  BY GuardAssumption DEF Legs
<1>4. 0 \in S
  BY <1>1, <1>2, <1>3 DEF SumIs
<1>5. ASSUME NEW n \in 0 .. NLegs - 1, n \in S PROVE n + 1 \in S
  <2>1. n + 1 \in 0 .. NLegs /\ n + 1 # 0 /\ (n + 1) - 1 = n /\ n + 1 \in Legs
        /\ n \in 0 .. NLegs
    BY <1>3 DEF Legs
  <2>2. g[n + 1] = g[n] + f[n + 1] /\ k[n + 1] = k[n] + h[n + 1]
    <3> HIDE DEF h
    <3> QED BY <1>1, <1>2, <2>1 DEF SumIs
  <2>3. h[n + 1] = IF n + 1 = l THEN w ELSE f[n + 1]
    BY <2>1
  <2>4. g[n] \in Int /\ k[n] \in Int /\ f[n + 1] \in Int
    BY <2>1
  <2>5. CASE n + 1 = l
    <3>1. ~(l <= n) /\ l <= n + 1 /\ f[n + 1] = f[l]
      BY <1>3, <2>5
    <3>2. k[n + 1] = g[n] + w /\ g[n + 1] = g[n] + f[l]
      <4> HIDE DEF h
      <4> QED BY <1>5, <2>2, <2>3, <2>5, <3>1
    <3>3. k[n + 1] = g[n + 1] + (w - f[l])
      <4>1. \A a, b, c \in Int : a + c = (a + b) + (c - b)
        OBVIOUS
      <4>2. g[n] + w = (g[n] + f[l]) + (w - f[l])
        BY <1>3, <2>4, <4>1
      <4> HIDE DEF h
      <4> QED BY ONLY <3>2, <4>2
    <3> QED BY <2>1, <3>1, <3>3
  <2>6. CASE n + 1 # l
    <3>1. l <= n + 1 <=> l <= n
      BY <1>3, <2>6
    <3>2. k[n + 1] = k[n] + f[n + 1]
      <4> HIDE DEF h
      <4> QED BY <2>2, <2>3, <2>6
    <3>3. CASE l <= n
      <4>1. k[n + 1] = g[n + 1] + (w - f[l])
        <5>1. \A a, b, c, d \in Int : (a + (c - d)) + b = (a + b) + (c - d)
          OBVIOUS
        <5>2. k[n] = g[n] + (w - f[l])
          BY <1>5, <3>3
        <5>3. (g[n] + (w - f[l])) + f[n + 1] = (g[n] + f[n + 1]) + (w - f[l])
          BY <1>3, <2>4, <5>1
        <5> HIDE DEF h
        <5> QED BY ONLY <2>2, <3>2, <5>2, <5>3
      <4> QED BY <2>1, <3>1, <3>3, <4>1
    <3>4. CASE ~(l <= n)
      BY <1>5, <2>1, <2>2, <3>1, <3>2, <3>4
    <3> QED BY <3>3, <3>4
  <2> QED BY <2>5, <2>6
<1>6. NLegs \in S
  <2>1. \A n \in 0 .. NLegs : n \in S
    <3> HIDE DEF S
    <3> QED BY <1>3, <1>4, <1>5, UpTo
  <2> HIDE DEF S
  <2> QED BY <1>3, <2>1
<1>7. k[NLegs] = g[NLegs] + (w - f[l])
  BY <1>3, <1>6
<1>8. g[NLegs] \in Int
  BY <1>3
<1> QED BY <1>1, <1>2, <1>3, <1>7, <1>8

\* Nothing from any leg is nothing.
LEMMA TotalZero ==
  ASSUME NEW f \in [Legs -> Int], \A l \in Legs : f[l] = 0
  PROVE  Total(f) = 0
<1>1. PICK g \in [0 .. NLegs -> Int] : SumIs(f, g) /\ Total(f) = g[NLegs]
  BY TotalIs
<1> DEFINE S == {n \in 0 .. NLegs : g[n] = 0}
<1>2. NLegs \in Nat /\ NLegs \in 0 .. NLegs
  BY GuardAssumption
<1>3. 0 \in S
  BY <1>1, <1>2 DEF SumIs
<1>4. ASSUME NEW n \in 0 .. NLegs - 1, n \in S PROVE n + 1 \in S
  <2>1. n + 1 \in 0 .. NLegs /\ n + 1 # 0 /\ (n + 1) - 1 = n /\ n + 1 \in Legs
    BY <1>2 DEF Legs
  <2>2. g[n + 1] = g[n] + f[n + 1]
    BY <1>1, <2>1 DEF SumIs
  <2> QED BY <1>4, <2>1, <2>2
<1>5. NLegs \in S
  <2>1. \A n \in 0 .. NLegs : n \in S
    <3> HIDE DEF S
    <3> QED BY <1>2, <1>3, <1>4, UpTo
  <2> HIDE DEF S
  <2> QED BY <1>2, <2>1
<1> QED BY <1>1, <1>5

\* What is left of the round after the legs that are passed over; nothing is
\* taken from it when there are none.
LEMMA SkippedType ==
  ASSUME TypeOK
  PROVE  /\ Skipped[NLegs] \in Int
         /\ Out \cup Idle = {} => Skipped[NLegs] = weightCounter
<1> DEFINE Less(n, c) == IF c - weight[n] <= 0 THEN totalWeight ELSE c - weight[n]
           T == [x \in Legs \X Int |-> IF x[1] \notin Out \cup Idle THEN x[2]
                                       ELSE Less(x[1], x[2])]
           Is(g) == g = [n \in 0 .. NLegs |->
                           IF n = 0 THEN weightCounter
                           ELSE IF n \notin Out \cup Idle THEN g[n - 1]
                           ELSE Less(n, g[n - 1])]
<1>1. T \in [Legs \X Int -> Int]
  BY DEF TypeOK, GuardTypeOK
<1>2. PICK g \in [0 .. NLegs -> Int] :
        g = [n \in 0 .. NLegs |-> IF n = 0 THEN weightCounter
                                   ELSE T[<<n, g[n - 1]>>]]
  <2>1. weightCounter \in Int
    BY DEF TypeOK
  <2> HIDE DEF T
  <2> QED BY ONLY <1>1, <2>1, Recursion
<1>3. Is(g)
  <2>1. ASSUME NEW n \in 0 .. NLegs, n # 0
        PROVE  T[<<n, g[n - 1]>>] = IF n \notin Out \cup Idle THEN g[n - 1]
                                    ELSE Less(n, g[n - 1])
    <3>1. n \in Legs /\ n - 1 \in 0 .. NLegs
      BY <2>1, GuardAssumption DEF Legs
    <3>2. g[n - 1] \in Int
      BY <3>1
    <3> HIDE DEF Less
    <3> QED BY <3>1, <3>2
  <2> HIDE DEF T, Less
  <2> QED BY <1>2, <2>1
<1>4. Is(Skipped)
  <2>1. Skipped = CHOOSE h : Is(h)
    BY DEF Skipped
  <2> HIDE DEF Is
  <2> QED BY <1>3, <2>1
<1> DEFINE S == {n \in 0 .. NLegs :
                   /\ Skipped[n] \in Int
                   /\ Out \cup Idle = {} => Skipped[n] = weightCounter}
<1>5. NLegs \in Nat /\ NLegs \in 0 .. NLegs
  BY GuardAssumption
<1>6. 0 \in S
  <2>1. Skipped[0] = weightCounter /\ weightCounter \in Int
    BY <1>4, <1>5 DEF TypeOK
  <2> QED BY <1>5, <2>1
<1>7. ASSUME NEW n \in 0 .. NLegs - 1, n \in S PROVE n + 1 \in S
  <2>1. n + 1 \in 0 .. NLegs /\ n + 1 # 0 /\ (n + 1) - 1 = n /\ n + 1 \in Legs
    BY <1>5 DEF Legs
  <2>2. Skipped[n + 1] = IF n + 1 \notin Out \cup Idle THEN Skipped[n]
                         ELSE Less(n + 1, Skipped[n])
    <3> HIDE DEF Less
    <3> QED BY <1>4, <2>1
  <2>3. Less(n + 1, Skipped[n]) \in Int
    <3>1. weight[n + 1] \in Nat /\ totalWeight \in Nat
      BY <2>1 DEF TypeOK, GuardTypeOK
    <3> QED BY <1>7, <3>1
  <2> HIDE DEF Less
  <2> QED BY <1>7, <2>1, <2>2, <2>3
<1>8. NLegs \in S
  <2>1. \A n \in 0 .. NLegs : n \in S
    <3> HIDE DEF S
    <3> QED BY <1>5, <1>6, <1>7, UpTo
  <2> HIDE DEF S
  <2> QED BY <1>5, <2>1
<1> QED BY <1>8

-----------------------------------------------------------------------------
(* What the rotation chooses.                                              *)

LEMMA LegsAreNat == Legs \subseteq Nat
BY GuardAssumption DEF Legs

\* A share is a natural number, and a leg with a weight has one.
LEMMA EffectiveType ==
  ASSUME TypeOK, NEW l \in Legs
  PROVE  Effective(l) \in Nat /\ (weight[l] # 0 => Effective(l) > 0)
<1>1. weight[l] \in Nat /\ ramp[l] \in Nat /\ RampTime \in Nat \ {0}
  BY GuardAssumption DEF TypeOK, GuardTypeOK, RampTime
<1>2. (weight[l] * ramp[l]) \div RampTime \in Nat
  <2>1. weight[l] * ramp[l] \in Nat
    BY <1>1
  <2>2. \A a \in Nat, d \in Nat \ {0} : a \div d \in Nat
    BY SMT
  <2> QED BY <1>1, <2>1, <2>2
<1> QED BY <1>1, <1>2 DEF Effective

\* A candidate exists only together with the leg that is selected.
LEMMA SelectedExists ==
  ASSUME TypeOK, Candidates # {}
  PROVE  \E l \in Selected : Selected = {l}
<1>1. Candidates \subseteq Legs /\ wCount \in [Legs -> Nat] /\ Legs \subseteq Nat
  BY LegsAreNat DEF TypeOK, GuardTypeOK, Candidates, Rotated, Joined
<1>2. Total(wCount) \in Nat /\ \A l \in Legs : wCount[l] <= Total(wCount)
  BY <1>1, TotalType
<1> DEFINE Used == {Total(wCount) - wCount[l] : l \in Candidates}
<1>3. PICK u \in Used : \A v \in Used : u <= v
  <2>1. Used \subseteq Nat /\ Used # {}
    <3>1. ASSUME NEW l \in Candidates PROVE Total(wCount) - wCount[l] \in Nat
      <4>1. wCount[l] \in Nat /\ wCount[l] <= Total(wCount)
        BY <1>1, <1>2
      <4> QED BY <1>2, <4>1
    <3> QED BY <3>1
  <2> HIDE DEF Used
  <2> QED BY <2>1, Least
<1>4. PICK m \in Candidates : u = Total(wCount) - wCount[m]
  BY <1>3
<1> DEFINE Most == {l \in Candidates : wCount[l] = wCount[m]}
<1>5. ASSUME NEW k \in Candidates PROVE wCount[k] <= wCount[m]
  <2>1. Total(wCount) - wCount[m] <= Total(wCount) - wCount[k]
    BY <1>3, <1>4
  <2>2. wCount[k] \in Nat /\ wCount[m] \in Nat
    BY <1>1
  <2> QED BY <1>2, <2>1, <2>2
<1>6. PICK l \in Most : \A k \in Most : l <= k
  <2>1. Most \subseteq Nat /\ Most # {}
    BY <1>1
  <2> HIDE DEF Most
  <2> QED BY <2>1, Least
<1>7. ASSUME NEW k \in Candidates
      PROVE  wCount[k] < wCount[l] \/ (wCount[k] = wCount[l] /\ l <= k)
  <2>1. wCount[k] \in Nat /\ wCount[m] \in Nat /\ wCount[l] = wCount[m]
    BY <1>1
  <2> QED BY <1>5, <1>6, <2>1
<1>8. l \in Selected
  BY <1>7 DEF Selected
<1>9. ASSUME NEW k \in Selected PROVE k = l
  <2>1. k \in Candidates /\ k \in Nat /\ l \in Nat /\ wCount[k] \in Nat
        /\ wCount[l] \in Nat
    BY <1>1 DEF Selected
  <2>2. wCount[l] < wCount[k] \/ (wCount[l] = wCount[k] /\ k <= l)
    BY <1>6 DEF Selected
  <2> QED BY <1>7, <2>1, <2>2
<1> QED BY <1>8, <1>9

\* Among idle legs that are up one is the best.
LEMMA BetterExists ==
  ASSUME TypeOK, NEW S, S \subseteq Legs, S # {}
  PROVE  \E l \in S : \A k \in S : Better(l, k)
<1> DEFINE P == IF \E l \in S : ~stalled[l] THEN {l \in S : ~stalled[l]} ELSE S
           Q == {l \in P : rtt[l] # 0}
<1>1. P \subseteq S /\ P # {}
  OBVIOUS
<1>2. ASSUME NEW l \in P, NEW k \in S
      PROVE  \/ ~stalled[l] /\ stalled[k]
             \/ k \in P /\ stalled[l] = stalled[k]
  <2>1. stalled[l] \in BOOLEAN /\ stalled[k] \in BOOLEAN
    BY <1>1 DEF TypeOK, GuardTypeOK
  <2> QED BY <1>1, <2>1
<1>3. CASE Q # {}
  <2>1. PICK l \in Q : \A k \in Q : rtt[l] < rtt[k] \/ (rtt[l] = rtt[k] /\ l <= k)
    <3>1. Q \subseteq Legs
      BY <1>1
    <3> HIDE DEF P, Q
    <3> QED BY <1>3, <3>1, BestLeg DEF TypeOK
  <2>2. ASSUME NEW k \in P
        PROVE  \/ rtt[l] # 0 /\ (rtt[k] = 0 \/ rtt[l] < rtt[k])
               \/ rtt[l] = rtt[k] /\ l <= k
    <3> HIDE DEF P
    <3> QED BY <2>1
  <2>3. l \in P
    <3> HIDE DEF P
    <3> QED BY <2>1
  <2>4. ASSUME NEW k \in S PROVE Better(l, k)
    <3> HIDE DEF P, Q
    <3> QED BY <1>2, <2>2, <2>3 DEF Better
  <2> QED BY <1>1, <2>3, <2>4
<1>4. CASE Q = {}
  <2>1. PICK l \in P : \A k \in P : l <= k
    <3>1. P \subseteq Nat
      <4> HIDE DEF P
      <4> QED BY <1>1, LegsAreNat
    <3> HIDE DEF P
    <3> QED BY <1>1, <3>1, Least
  <2>2. \A k \in P : rtt[k] = 0
    <3> HIDE DEF P
    <3> QED BY <1>4
  <2>3. ASSUME NEW k \in S PROVE Better(l, k)
    <3> HIDE DEF P, Q
    <3> QED BY <1>2, <2>1, <2>2 DEF Better
  <2> QED BY <1>1, <2>1, <2>3
<1> QED BY <1>3, <1>4

\* A packet is lost although a leg is up only when the legs of the rotation
\* have used up their shares.
LEMMA LostWhenUsedUp ==
  ASSUME TypeOK, SentTo = {}, Usable # {}
  PROVE  \E l \in Rotated : weight[l] # 0 /\ wCount[l] = 0
<1>1. legs \subseteq Legs /\ wCount \in [Legs -> Nat] /\ weight \in [Legs -> Nat]
  BY DEF TypeOK, GuardTypeOK
<1>2. Selected = {} /\ Fallback = {} /\ Duplicates = {}
  BY DEF SentTo
<1>3. Rotated # {}
  <2>1. SUFFICES ASSUME Rotated = {} PROVE FALSE
    OBVIOUS
  <2> DEFINE idle == {l \in Idle : status[l] = "up"}
  <2>2. idle # {}
    BY <2>1 DEF Usable, Rotated, Out, Joined
  <2>3. idle \subseteq Legs
    BY <1>1 DEF Idle, Joined
  <2>4. \E l \in idle : \A k \in idle : Better(l, k)
    <3> HIDE DEF idle
    <3> QED BY <2>2, <2>3, BetterExists
  <2>5. Fallback = {l \in idle : \A k \in idle : Better(l, k)}
    BY <1>2, <2>1 DEF Fallback
  <2> HIDE DEF idle
  <2> QED BY <1>2, <2>4, <2>5
<1>4. Candidates = {}
  BY <1>2, SelectedExists
<1>5. PICK l \in Rotated : TRUE
  BY <1>3
<1>6. l \in Legs
  BY <1>1 DEF Rotated, Joined
<1>7. weight[l] # 0
  BY <1>2 DEF Duplicates
<1>8. wCount[l] = 0
  BY <1>1, <1>4, <1>6, <1>7 DEF Candidates
<1> QED BY <1>7, <1>8

-----------------------------------------------------------------------------
(* The rotation and the guards.                                            *)

\* What the rotation does to the legs is a step of the guards or none.
LEMMA GuardsStep ==
  ASSUME TypeOK, [Next]_vars
  PROVE  [GuardNext]_guardVars
<1>1. CASE SendData \/ UNCHANGED vars
  BY <1>1 DEF SendData, vars
<1>2. CASE Guard
  BY <1>2 DEF Guard, GuardNext
<1>3. ASSUME NEW l \in Legs, NEW r \in Rtts \cup {rtt[l]}, Hear(l, r)
      PROVE  GuardNext
  BY <1>3 DEF Hear, GuardNext
<1>4. ASSUME NEW l \in Legs, Connect(l) PROVE UNCHANGED guardVars
  BY <1>4 DEF Connect
<1>5. ASSUME NEW l \in Legs, TimeOut(l) PROVE [GuardNext]_guardVars
  <2>1. CASE UNCHANGED silent
    BY <1>5, <2>1 DEF TimeOut, guardVars
  <2>2. CASE silent' = [silent EXCEPT ![l] = 0]
    <3>1. heard' = [heard EXCEPT ![l] = TRUE] /\ rtt' = [rtt EXCEPT ![l] = rtt[l]]
      BY <1>5 DEF TimeOut, TypeOK, GuardTypeOK
    <3>2. Receive(l, rtt[l])
      BY <1>5, <2>2, <3>1 DEF TimeOut, Receive
    <3> QED BY <3>2 DEF GuardNext
  <2> QED BY <1>5, <2>1, <2>2 DEF TimeOut
<1>6. ASSUME NEW l \in Legs, Remove(l) PROVE GuardNext
  BY <1>6 DEF Remove, GuardNext
<1>7. ASSUME NEW l \in Legs, NEW w \in NewWeights, WeightSet(l, w) PROVE GuardNext
  BY <1>7 DEF WeightSet, GuardNext
<1> QED BY <1>1, <1>2, <1>3, <1>4, <1>5, <1>6, <1>7 DEF Next

-----------------------------------------------------------------------------
(* The invariant.                                                          *)

\* total_weight is the sum over the legs in the list.
Shares     == [l \in Legs |-> IF l \in legs THEN weight[l] ELSE 0]
TotalExact == totalWeight = Total(Shares)

\* After a lost packet every leg has its share again.
Refilled ==
  /\ lost < 2
  /\ lost = 1 => \A l \in legs : weight[l] # 0 => wCount[l] > 0

BalanceInv == TypeOK /\ OnlyMuteLegs /\ TotalExact /\ Refilled

\* The weight of a leg in the list is part of the total.
LEMMA WeightInTotal ==
  ASSUME TypeOK, TotalExact
  PROVE  \A l \in legs : weight[l] <= totalWeight
<1>1. Shares \in [Legs -> Nat] /\ legs \subseteq Legs
  BY DEF TypeOK, GuardTypeOK, Shares
<1>2. \A l \in Legs : Shares[l] <= Total(Shares)
  BY <1>1, TotalType
<1> QED BY <1>1, <1>2 DEF TotalExact, Shares

LEMMA InitBalance ==
  ASSUME Init
  PROVE  BalanceInv
<1>1. GuardInv
  BY GuardInitInv DEF Init
<1>2. weight \in [Legs -> Nat] /\ legs = Legs
  BY <1>1 DEF GuardInv, GuardTypeOK, Init, GuardInit
<1>3. Shares = weight
  BY <1>2 DEF Shares
<1>4. TotalExact
  BY <1>3 DEF TotalExact, Init
<1>5. totalWeight \in Nat
  BY <1>2, TotalType DEF Init
<1>6. TypeOK
  <2>1. status \in [Legs -> Statuses]
    BY DEF Init, Statuses
  <2>2. trickle \in [Legs -> 0 .. Trickle]
    BY BalanceAssumption DEF Init
  <2> QED BY <1>1, <1>2, <1>5, <2>1, <2>2 DEF Init, TypeOK, GuardInv
<1> QED BY <1>1, <1>4, <1>6 DEF BalanceInv, GuardInv, Refilled, Init

\* A step that changes neither the list, the weights nor their sum.
LEMMA TotalKept ==
  ASSUME TotalExact, UNCHANGED <<legs, weight, totalWeight>>
  PROVE  TotalExact'
<1>1. Shares' = Shares
  BY DEF Shares
<1> QED BY <1>1 DEF TotalExact

\* A packet is sent.
LEMMA SendInv ==
  ASSUME BalanceInv, SendData
  PROVE  BalanceInv'
<1> USE DEF BalanceInv
<1>1. legs \subseteq Legs /\ wCount \in [Legs -> Nat] /\ weight \in [Legs -> Nat]
      /\ totalWeight \in Nat /\ weightCounter \in Int /\ lost \in 0 .. 2
  BY DEF TypeOK, GuardTypeOK
<1>2. UNCHANGED <<guardVars, status, totalWeight>>
  BY DEF SendData
<1>3. Joined \subseteq Legs /\ Selected \subseteq Legs /\ Trickles \subseteq Legs
      /\ \A l \in Selected : wCount[l] > 0
  BY <1>1 DEF Joined, Idle, Trickles, Rotated, Candidates, Selected
<1>4. TypeOK'
  <2>1. wCount' \in [Legs -> Nat]
    <3>1. \A l \in Legs : Effective(l) \in Nat
      BY EffectiveType
    <3>2. \A l \in Selected : wCount[l] - 1 \in Nat
      BY <1>1, <1>3
    <3>3. wCount' = [l \in Legs |->
             IF l \in legs /\ (RoundOver \/ l \in Out \cup Idle) THEN Effective(l)
             ELSE IF l \in Selected THEN wCount[l] - 1 ELSE wCount[l]]
      BY DEF SendData
    <3> QED BY <1>1, <3>1, <3>2, <3>3
  <2>2. weightCounter' \in Int
    <3>1. Cardinality(Selected) \in Nat
      <4>1. IsFiniteSet(Legs)
        BY GuardAssumption, FS_Interval DEF Legs
      <4> QED BY <1>3, <4>1, FS_Subset, FS_CardinalityType
    <3>2. AfterPacket \in Int
      BY <3>1, SkippedType DEF AfterPacket
    <3> QED BY <1>1, <3>2 DEF SendData
  <2>3. trickle' \in [Legs -> 0 .. Trickle]
    <3>1. \A l \in Legs : trickle[l] \in Nat /\ trickle[l] <= Trickle
      BY BalanceAssumption DEF TypeOK
    <3>2. \A l \in Trickles \ Trickled : trickle[l] + 1 \in 0 .. Trickle
      BY <1>3, <3>1, BalanceAssumption DEF Trickled
    <3>3. 0 \in 0 .. Trickle
      BY BalanceAssumption
    <3>4. trickle' = [l \in Legs |-> IF l \in Trickled THEN 0
                                    ELSE IF l \in Trickles THEN trickle[l] + 1
                                    ELSE trickle[l]]
      BY DEF SendData
    <3>5. trickle \in [Legs -> 0 .. Trickle]
      BY DEF TypeOK
    <3> QED BY <3>2, <3>3, <3>4, <3>5
  <2>4. sent' \subseteq Legs
    <3>1. Duplicates \subseteq Legs /\ Trickled \subseteq Legs /\ Fallback \subseteq Legs
      BY <1>3 DEF Duplicates, Rotated, Trickled, Fallback, Idle
    <3> QED BY <1>3, <3>1 DEF SendData, SentTo
  <2>5. missed' \subseteq Legs
    BY <1>1 DEF SendData, Usable
  <2>6. lost' \in 0 .. 2
    BY <1>1 DEF SendData, Older
  <2> QED BY <1>2, <2>1, <2>2, <2>3, <2>4, <2>5, <2>6
      DEF TypeOK, GuardTypeOK, guardVars
<1>5. OnlyMuteLegs'
  BY <1>2 DEF OnlyMuteLegs, guardVars
<1>6. TotalExact'
  BY <1>2, TotalKept DEF guardVars
<1>7. Refilled'
  <2>1. CASE SentTo = {} /\ Usable # {}
    <3>1. PICK k \in Rotated : weight[k] # 0 /\ wCount[k] = 0
      BY <2>1, LostWhenUsedUp
    <3>2. k \in legs /\ k \in Legs
      BY <1>1 DEF Rotated, Joined
    <3>3. lost = 0
      BY <1>1, <3>1, <3>2 DEF Refilled
    <3>4. lost' = 1
      BY <2>1, <3>3 DEF SendData, Older
    <3>5. RoundOver
      <4>1. totalWeight > 0
        <5>1. weight[k] <= totalWeight /\ weight[k] \in Nat
          BY <1>1, <3>2, WeightInTotal
        <5> QED BY <1>1, <3>1, <5>1
      <4>2. Selected = {}
        BY <2>1 DEF SentTo
      <4> QED BY <4>1, <4>2 DEF RoundOver
    <3>6. ASSUME NEW l \in legs', weight'[l] # 0 PROVE wCount'[l] > 0
      <4>1. l \in legs /\ l \in Legs /\ weight[l] # 0
        BY <1>1, <1>2, <3>6 DEF guardVars
      <4>2. wCount'[l] = Effective(l)
        BY <3>5, <4>1 DEF SendData
      <4> QED BY <4>1, <4>2, EffectiveType
    <3> QED BY <3>4, <3>6 DEF Refilled
  <2>2. CASE ~(SentTo = {} /\ Usable # {})
    <3>1. lost' = 0
      BY <2>2 DEF SendData
    <3> QED BY <3>1 DEF Refilled
  <2> QED BY <2>1, <2>2
<1> QED BY <1>4, <1>5, <1>6, <1>7

\* Every other step keeps it too.
LEMMA StepInv ==
  ASSUME BalanceInv, [Next]_vars
  PROVE  BalanceInv'
<1> USE DEF BalanceInv
<1>1. GuardInv'
  BY GuardsStep, GuardStepInv DEF GuardInv, TypeOK
<1>2. legs \subseteq Legs /\ weight \in [Legs -> Nat] /\ wCount \in [Legs -> Nat]
      /\ totalWeight \in Nat /\ Shares \in [Legs -> Nat]
  BY DEF TypeOK, GuardTypeOK, Shares
<1>3. CASE SendData
  BY <1>3, SendInv
<1>4. CASE Guard
  <2>1. UNCHANGED <<legs, weight, totalWeight, wCount, lost>>
    BY <1>4 DEF Guard, Check
  <2>2. TypeOK'
    <3>1. trickle' \in [Legs -> 0 .. Trickle]
      BY <1>4, BalanceAssumption DEF Guard, TypeOK
    <3> QED BY <1>1, <1>4, <3>1 DEF Guard, GuardInv, TypeOK
  <2>3. Refilled'
    BY <2>1 DEF Refilled
  <2> QED BY <1>1, <2>1, <2>2, <2>3, TotalKept DEF GuardInv
<1>5. ASSUME UNCHANGED <<legs, weight, totalWeight, balanceVars>>,
             status' \in [Legs -> Statuses]
      PROVE  BalanceInv'
  <2>1. TypeOK'
    BY <1>1, <1>5 DEF GuardInv, TypeOK, balanceVars
  <2>2. Refilled'
    BY <1>5 DEF Refilled, balanceVars
  <2> QED BY <1>1, <1>5, <2>1, <2>2, TotalKept DEF GuardInv
<1>6. ASSUME NEW l \in Legs, NEW r \in Rtts \cup {rtt[l]}, Hear(l, r)
      PROVE  BalanceInv'
  <2>1. status' \in [Legs -> Statuses]
    BY <1>6 DEF Hear, TypeOK, Statuses
  <2> QED BY <1>5, <1>6, <2>1 DEF Hear, Receive
<1>7. ASSUME NEW l \in Legs, Connect(l) PROVE BalanceInv'
  <2>1. status' \in [Legs -> Statuses]
    BY <1>7 DEF Connect, TypeOK, Statuses
  <2> QED BY <1>5, <1>7, <2>1 DEF Connect, guardVars
<1>8. ASSUME NEW l \in Legs, TimeOut(l) PROVE BalanceInv'
  <2>1. status' \in [Legs -> Statuses]
    BY <1>8 DEF TimeOut, TypeOK, Statuses
  <2> QED BY <1>5, <1>8, <2>1 DEF TimeOut
<1>9. ASSUME NEW l \in Legs, Remove(l) PROVE BalanceInv'
  <2>1. l \in legs /\ legs' = legs \ {l} /\ totalWeight' = totalWeight - weight[l]
        /\ UNCHANGED <<weight, status, balanceVars>>
    BY <1>9 DEF Remove, RemoveLeg
  <2>2. totalWeight' \in Nat
    <3>1. weight[l] <= totalWeight /\ weight[l] \in Nat
      BY <1>2, <2>1, WeightInTotal
    <3> QED BY <1>2, <2>1, <3>1
  <2>3. TypeOK'
    BY <1>1, <2>1, <2>2 DEF GuardInv, TypeOK, balanceVars
  <2>4. TotalExact'
    <3>1. Shares' = [Shares EXCEPT ![l] = 0]
      BY <2>1 DEF Shares
    <3>2. Shares[l] = weight[l]
      BY <2>1 DEF Shares
    <3>3. Total([Shares EXCEPT ![l] = 0]) = Total(Shares) - Shares[l] + 0
      <4>1. Shares \in [Legs -> Int] /\ 0 \in Int
        BY <1>2
      <4> QED BY <4>1, TotalPoint
    <3>4. Total(Shares) = totalWeight /\ totalWeight - weight[l] \in Int
      BY <1>2, <2>1, <2>2 DEF TotalExact
    <3> QED BY <2>1, <3>1, <3>2, <3>3, <3>4 DEF TotalExact
  <2>5. Refilled'
    BY <2>1 DEF Refilled, balanceVars
  <2> QED BY <1>1, <2>3, <2>4, <2>5 DEF GuardInv
<1>10. ASSUME NEW l \in Legs, NEW w \in NewWeights, WeightSet(l, w)
       PROVE  BalanceInv'
  <2>1. l \in legs /\ weight' = [weight EXCEPT ![l] = w]
        /\ wCount' = [wCount EXCEPT ![l] = w]
        /\ totalWeight' = totalWeight - weight[l] + w
        /\ UNCHANGED <<legs, status, weightCounter, trickle, sent, missed, lost>>
    BY <1>10 DEF WeightSet, SetWeight
  <2>2. w \in Nat
    BY GuardAssumption
  <2>3. totalWeight' \in Nat
    <3>1. weight[l] <= totalWeight /\ weight[l] \in Nat
      BY <1>2, <2>1, WeightInTotal
    <3> QED BY <1>2, <2>1, <2>2, <3>1
  <2>4. TypeOK'
    <3>1. wCount' \in [Legs -> Nat]
      BY <1>2, <2>1, <2>2
    <3> QED BY <1>1, <2>1, <2>3, <3>1 DEF GuardInv, TypeOK
  <2>5. TotalExact'
    <3>1. Shares' = [Shares EXCEPT ![l] = w]
      BY <1>2, <2>1 DEF Shares
    <3>2. Shares[l] = weight[l]
      BY <2>1 DEF Shares
    <3>3. Total([Shares EXCEPT ![l] = w]) = Total(Shares) - Shares[l] + w
      <4>1. Shares \in [Legs -> Int] /\ w \in Int
        BY <1>2, <2>2
      <4> QED BY <4>1, TotalPoint
    <3> QED BY <2>1, <3>1, <3>2, <3>3 DEF TotalExact
  <2>6. Refilled'
    <3>1. ASSUME NEW k \in legs, lost = 1, weight'[k] # 0 PROVE wCount'[k] > 0
      <4>1. CASE k = l
        BY <1>2, <2>1, <2>2, <3>1, <4>1
      <4>2. CASE k # l
        <5>1. weight'[k] = weight[k] /\ wCount'[k] = wCount[k]
          BY <1>2, <2>1, <4>2
        <5> QED BY <3>1, <5>1 DEF Refilled
      <4> QED BY <4>1, <4>2
    <3> QED BY <2>1, <3>1 DEF Refilled
  <2> QED BY <1>1, <2>4, <2>5, <2>6 DEF GuardInv
<1>11. CASE UNCHANGED vars
  <2>1. status' \in [Legs -> Statuses]
    BY <1>11 DEF vars, TypeOK
  <2> QED BY <1>5, <1>11, <2>1 DEF vars, guardVars
<1> QED BY <1>3, <1>4, <1>6, <1>7, <1>8, <1>9, <1>10, <1>11 DEF Next

-----------------------------------------------------------------------------
(* The theorems.                                                           *)

\* In every reachable state total_weight is the sum of the weights of the legs
\* in the list, and after a lost packet every leg has its share.
THEOREM BalanceCorrect == Spec => []BalanceInv
<1>1. Init => BalanceInv
  BY InitBalance
<1>2. BalanceInv /\ [Next]_vars => BalanceInv'
  BY StepInv
<1> QED BY <1>1, <1>2, PTL DEF Spec

\* The variables of the rotation keep their types: no share goes below zero,
\* and neither does total_weight.
THEOREM BalanceTyped == Spec => []TypeOK
<1>1. BalanceInv => TypeOK
  BY DEF BalanceInv
<1> QED BY <1>1, BalanceCorrect, PTL

\* rist_sender_send_data_balanced never loses two packets in a row while a leg
\* is up, whatever legs come, go, are weighed anew or kept out by a guard.
THEOREM NeverTwoLost == Spec => []NoTwoLost
<1>1. BalanceInv => NoTwoLost
  BY DEF BalanceInv, Refilled, NoTwoLost
<1> QED BY <1>1, BalanceCorrect, PTL

\* The rotation leaves the guards alone: whatever it does to the legs is
\* something BondGuards describes, so that all that is proved there holds here.
THEOREM RotationKeepsGuards == Spec => GuardSpec
<1>1. Init => GuardInit
  BY DEF Init
<1>2. BalanceInv /\ [Next]_vars => [GuardNext]_guardVars
  BY GuardsStep DEF BalanceInv
<1> QED BY <1>1, <1>2, BalanceCorrect, PTL DEF Spec, GuardSpec

-----------------------------------------------------------------------------
(* Legs of weight 0.                                                       *)

\* No guard keeps such a leg out.
DuplicateInv ==
  /\ missed = {}
  /\ \A l \in legs : weight[l] = 0 => ~muted[l] /\ ~stalled[l]

\* A leg of weight RIST_PEER_WEIGHT_DUPLICATE that is up gets every packet, with
\* whatever legs come and go beside it, unless the application gives that
\* weight to a leg that had another: the mute of a leg out of the bond is never
\* taken back.
THEOREM DuplicatesGetAll ==
  ASSUME 0 \notin NewWeights
  PROVE  Spec => []DuplicateGetsAll
<1>1. Init => DuplicateInv
  BY DEF Init, GuardInit, DuplicateInv
<1>2. ASSUME TypeOK, DuplicateInv, [Next]_vars PROVE DuplicateInv'
  <2> USE DEF DuplicateInv
  <2>1. legs \subseteq Legs /\ weight \in [Legs -> Nat]
    BY <1>2 DEF TypeOK, GuardTypeOK
  <2>2. CASE SendData
    <3>1. ASSUME NEW l \in Usable, weight[l] = 0 PROVE l \in SentTo
      <4>1. l \in Joined /\ l \notin Out /\ l \notin Idle
        BY <1>2, <3>1 DEF Usable, Joined, Out, Idle
      <4> QED BY <3>1, <4>1 DEF Rotated, Duplicates, SentTo
    <3>2. missed' = {}
      BY <2>2, <3>1 DEF SendData
    <3> QED BY <1>2, <2>2, <3>2 DEF SendData, guardVars
  <2>3. CASE Guard
    <3>1. UNCHANGED <<legs, weight, missed>>
      BY <2>3 DEF Guard, Check
    <3>2. ASSUME NEW l \in legs, weight[l] = 0 PROVE ~muted'[l] /\ ~stalled'[l]
      <4>1. l \in Legs /\ l \notin Bonded /\ l \notin Eligible
        BY <2>1, <3>2 DEF Bonded, Eligible
      <4>2. ~stalled'[l]
        BY <2>3, <4>1 DEF Guard, Check, StallCheck
      <4>3. muted'[l] = muted[l]
        <5>1. CASE Cardinality(Eligible) < 2
          BY <2>3, <5>1 DEF Guard, Check, MuteCheck
        <5>2. CASE ~(Cardinality(Eligible) < 2)
          <6>1. muted' = [k \in Legs |-> IF k \in Eligible THEN k \in Wants \ Keep
                                        ELSE muted[k]]
            BY <2>3, <5>2 DEF Guard, Check, MuteCheck
          <6> QED BY <4>1, <6>1
        <5> QED BY <5>1, <5>2
      <4> QED BY <1>2, <3>2, <4>2, <4>3
    <3> QED BY <1>2, <3>1, <3>2
  <2>4. ASSUME UNCHANGED <<legs, weight, muted, stalled, missed>>
        PROVE  DuplicateInv'
    BY <1>2, <2>4
  <2>5. ASSUME NEW l \in Legs, NEW r \in Rtts \cup {rtt[l]}, Hear(l, r)
        PROVE  DuplicateInv'
    BY <2>4, <2>5 DEF Hear, Receive, balanceVars
  <2>6. ASSUME NEW l \in Legs, Connect(l) PROVE DuplicateInv'
    BY <2>4, <2>6 DEF Connect, guardVars, balanceVars
  <2>7. ASSUME NEW l \in Legs, TimeOut(l) PROVE DuplicateInv'
    BY <2>4, <2>7 DEF TimeOut, balanceVars
  <2>8. ASSUME NEW l \in Legs, Remove(l) PROVE DuplicateInv'
    BY <1>2, <2>8 DEF Remove, RemoveLeg, balanceVars
  <2>9. ASSUME NEW l \in Legs, NEW w \in NewWeights, WeightSet(l, w)
        PROVE  DuplicateInv'
    <3>1. w # 0 /\ weight' = [weight EXCEPT ![l] = w]
          /\ UNCHANGED <<legs, muted, stalled, missed>>
      BY <2>9 DEF WeightSet, SetWeight
    <3> QED BY <1>2, <2>1, <3>1
  <2>10. CASE UNCHANGED vars
    BY <2>4, <2>10 DEF vars, guardVars, balanceVars
  <2> QED BY <1>2, <2>2, <2>3, <2>5, <2>6, <2>7, <2>8, <2>9, <2>10 DEF Next
<1>3. DuplicateInv => DuplicateGetsAll
  BY DEF DuplicateInv, DuplicateGetsAll
<1> QED BY <1>1, <1>2, <1>3, BalanceTyped, PTL DEF Spec

-----------------------------------------------------------------------------
(* A steady bond: all legs are up from the beginning and stay so, none is  *)
(* configured with rtt-drop, and none is removed or weighed anew.          *)

Steady == ~Churn /\ MuteLegs = {} /\ MaxChanges = 0

\* What each leg has left of its share.
Left == [l \in Legs |-> IF l \in InRotation THEN wCount[l] ELSE 0]

SteadyInv ==
  /\ legs = Legs /\ status = [l \in Legs |-> "up"] /\ changes = 0
  /\ muted = [l \in Legs |-> FALSE] /\ stalled = [l \in Legs |-> FALSE]
  /\ ramp = [l \in Legs |-> RampTime]
  /\ weightCounter = Total(Left)
  /\ totalWeight > 0 => weightCounter > 0
  /\ lost = 0

LEMMA SteadyInit ==
  ASSUME Steady, Init
  PROVE  SteadyInv
<1>1. TypeOK
  BY InitBalance DEF BalanceInv
<1>2. Left = weight
  BY <1>1 DEF Left, InRotation, Init, GuardInit, TypeOK, GuardTypeOK
<1>3. weightCounter = Total(Left) /\ totalWeight = weightCounter
  BY <1>2 DEF Init
<1> QED BY <1>3 DEF Steady, Init, GuardInit, SteadyInv

\* Every leg is in the rotation.
LEMMA AllRotated ==
  ASSUME SteadyInv
  PROVE  /\ Out \cup Idle = {} /\ Rotated = Legs
         /\ \A l \in Legs : Effective(l) = weight[l]
<1>1. Out = {} /\ Joined = Legs
  BY DEF SteadyInv, Out, Joined
<1>2. Idle = {}
  BY <1>1 DEF SteadyInv, Idle
<1> QED BY <1>1, <1>2 DEF SteadyInv, Rotated, Effective

\* A packet takes one from the round and one from the share of a leg, or ends
\* the round, and then both are whole again.
LEMMA SteadySend ==
  ASSUME BalanceInv, SteadyInv, SendData
  PROVE  SteadyInv'
<1> USE DEF SteadyInv
<1>1. weight \in [Legs -> Nat] /\ wCount \in [Legs -> Nat] /\ totalWeight \in Nat
      /\ weightCounter \in Int /\ TypeOK
  BY DEF BalanceInv, TypeOK, GuardTypeOK
<1>2. Out \cup Idle = {} /\ Rotated = Legs /\ \A l \in Legs : Effective(l) = weight[l]
  BY AllRotated
<1>3. UNCHANGED <<legs, weight, status, changes, muted, stalled, ramp, totalWeight>>
  BY DEF SendData, guardVars
<1>4. Left \in [Legs -> Nat] /\ InRotation \subseteq Legs /\ InRotation' = InRotation
  BY <1>1, <1>3 DEF Left, InRotation
<1>5. AfterPacket = weightCounter - Cardinality(Selected)
  BY <1>1, <1>2, SkippedType DEF AfterPacket
<1>6. wCount' = [l \in Legs |-> IF RoundOver THEN weight[l]
                               ELSE IF l \in Selected THEN wCount[l] - 1
                               ELSE wCount[l]]
  BY <1>2 DEF SendData
<1>7. lost' = 0 <=> ~(SentTo = {} /\ Usable # {})
  BY <1>1 DEF SendData, Older
<1>8. totalWeight = Total(weight)
  <2>1. Shares = weight
    BY <1>1 DEF Shares
  <2> QED BY <2>1 DEF BalanceInv, TotalExact
<1>9. CASE RoundOver
  <2>1. Left' = weight
    BY <1>1, <1>4, <1>6, <1>9 DEF Left, InRotation
  <2>2. weightCounter' = totalWeight
    BY <1>9 DEF SendData
  <2>3. Selected # {}
    <3>1. SUFFICES ASSUME Selected = {} PROVE FALSE
      OBVIOUS
    <3>2. Candidates = {}
      BY <1>1, <3>1, SelectedExists
    <3>3. ASSUME NEW l \in Legs PROVE Left[l] = 0
      BY <1>1, <1>2, <3>2 DEF Candidates, Left, InRotation
    <3>4. Left \in [Legs -> Int]
      BY <1>4
    <3>5. Total(Left) = 0
      BY <3>3, <3>4, TotalZero
    <3> QED BY <1>1, <1>9, <3>5 DEF RoundOver
  <2>4. lost' = 0
    BY <1>7, <2>3 DEF SentTo
  <2>5. totalWeight > 0
    BY <1>9 DEF RoundOver
  <2> QED BY <1>3, <1>8, <2>1, <2>2, <2>4, <2>5
<1>10. CASE ~RoundOver /\ Selected # {}
  <2>1. PICK l \in Selected : Selected = {l}
    <3>1. Candidates # {}
      BY <1>10 DEF Selected
    <3> QED BY <1>1, <3>1, SelectedExists
  <2>2. l \in Legs /\ l \in InRotation /\ wCount[l] > 0
    BY <1>2 DEF Selected, Candidates, InRotation
  <2>3. Left[l] = wCount[l] /\ wCount[l] - 1 \in Int
    BY <1>1, <2>2 DEF Left
  <2>4. Left' = [Left EXCEPT ![l] = wCount[l] - 1]
    BY <1>4, <1>6, <1>10, <2>1, <2>2 DEF Left
  <2>5. Total(Left') = Total(Left) - Left[l] + (wCount[l] - 1)
    <3>1. Left \in [Legs -> Int]
      BY <1>4
    <3>2. Total([Left EXCEPT ![l] = wCount[l] - 1]) =
            Total(Left) - Left[l] + (wCount[l] - 1)
      BY <2>2, <2>3, <3>1, TotalPoint
    <3> QED BY <2>4, <3>2
  <2>6. Cardinality(Selected) = 1
    BY <2>1, FS_Singleton
  <2>7. weightCounter' = weightCounter - 1
    BY <1>5, <1>10, <2>6 DEF SendData
  <2>8. weightCounter' = Total(Left')
    <3>1. \A a, b \in Int : a - b + (b - 1) = a - 1
      OBVIOUS
    <3>2. wCount[l] \in Int
      BY <1>1, <2>2
    <3>3. weightCounter - wCount[l] + (wCount[l] - 1) = weightCounter - 1
      BY <1>1, <3>1, <3>2
    <3> QED BY <2>3, <2>5, <2>7, <3>3
  <2>9. totalWeight > 0 => weightCounter' > 0
    <3>1. totalWeight > 0 => weightCounter - 1 # 0
      BY <1>5, <1>10, <2>6 DEF RoundOver
    <3> QED BY <1>1, <2>7, <3>1
  <2>10. lost' = 0
    BY <1>7, <1>10 DEF SentTo
  <2>11. Total(Left)' = Total(Left')
    OBVIOUS
  <2> QED BY <1>3, <2>8, <2>9, <2>10, <2>11
<1>11. CASE Selected = {} /\ ~RoundOver
  <2>1. totalWeight = 0
    BY <1>1, <1>11 DEF RoundOver
  <2>2. wCount' = wCount
    BY <1>1, <1>6, <1>11
  <2>3. Left' = Left
    BY <1>4, <2>2 DEF Left
  <2>4. weightCounter' = weightCounter
    <3>1. Cardinality(Selected) = 0
      BY <1>11, FS_EmptySet
    <3> QED BY <1>1, <1>5, <1>11, <3>1 DEF SendData
  <2>5. 1 \in Legs
    BY GuardAssumption DEF Legs
  <2>6. weight[1] = 0
    <3>1. weight[1] <= totalWeight
      BY <2>5, WeightInTotal DEF BalanceInv
    <3> QED BY <1>1, <2>1, <2>5, <3>1
  <2>7. SentTo # {}
    BY <1>2, <2>5, <2>6 DEF Duplicates, SentTo
  <2>8. lost' = 0
    BY <1>7, <2>7
  <2> QED BY <1>3, <2>1, <2>3, <2>4, <2>8
<1> QED BY <1>9, <1>10, <1>11

LEMMA SteadyStep ==
  ASSUME Steady, BalanceInv, SteadyInv, [Next]_vars
  PROVE  SteadyInv'
<1>1. ASSUME UNCHANGED <<legs, weight, status, changes, muted, stalled, ramp,
                         wCount, weightCounter, totalWeight, lost>>
      PROVE  SteadyInv'
  <2>1. Left' = Left
    BY <1>1 DEF Left, InRotation
  <2> QED BY <1>1, <2>1 DEF SteadyInv
<1>2. CASE SendData
  BY <1>2, SteadySend
<1>3. CASE Guard
  <2>1. UNCHANGED <<legs, weight, status, changes, wCount, weightCounter,
                    totalWeight, lost>>
    BY <1>3 DEF Guard, Check
  <2>2. stalled' = [l \in Legs |-> FALSE]
    BY <1>3 DEF Guard, Check, StallCheck, Steady, SteadyInv
  <2>3. Cardinality(Eligible) < 2
    <3>1. Eligible = {}
      BY DEF Eligible, Steady
    <3> QED BY <3>1, FS_EmptySet
  <2>4. muted' = muted /\ ramp' = [l \in Legs |-> Older(ramp[l], RampTime)]
    BY <1>3, <2>3 DEF Guard, Check, MuteCheck
  <2>5. ramp' = ramp
    <3>1. RampTime \in Nat
      BY GuardAssumption DEF RampTime
    <3> QED BY <2>4, <3>1 DEF SteadyInv, Older
  <2>6. stalled' = stalled
    BY <2>2 DEF SteadyInv
  <2> QED BY <1>1, <2>1, <2>4, <2>5, <2>6
<1>4. ASSUME NEW l \in Legs, NEW r \in Rtts \cup {rtt[l]}, Hear(l, r)
      PROVE  SteadyInv'
  <2>1. status' = status
    BY <1>4 DEF Hear, SteadyInv
  <2> QED BY <1>1, <1>4, <2>1 DEF Hear, Receive, balanceVars
<1>5. ASSUME NEW l \in Legs, Connect(l) \/ TimeOut(l) PROVE SteadyInv'
  BY <1>5 DEF Connect, TimeOut, Steady, SteadyInv
<1>6. changes = 0 /\ ~(changes < MaxChanges)
  BY DEF Steady, SteadyInv
<1>7. ASSUME NEW l \in Legs, Remove(l) PROVE SteadyInv'
  BY <1>6, <1>7 DEF Remove, RemoveLeg
<1>8. ASSUME NEW l \in Legs, NEW w \in NewWeights, WeightSet(l, w)
      PROVE  SteadyInv'
  BY <1>6, <1>8 DEF WeightSet, SetWeight
<1>9. CASE UNCHANGED vars
  BY <1>1, <1>9 DEF vars, guardVars, balanceVars
<1> QED BY <1>2, <1>3, <1>4, <1>5, <1>7, <1>8, <1>9 DEF Next

\* weight_counter is the sum of what the legs have left of their shares, so that
\* a round ends when all shares are used up, for any number of legs and weights.
THEOREM RoundAlwaysExact ==
  ASSUME Steady
  PROVE  Spec => []RoundExact
<1>1. Init => SteadyInv
  BY SteadyInit
<1>2. BalanceInv /\ SteadyInv /\ [Next]_vars => SteadyInv'
  BY SteadyStep
<1>3. SteadyInv => RoundExact
  BY DEF SteadyInv, RoundExact, Left
<1> QED BY <1>1, <1>2, <1>3, BalanceCorrect, PTL DEF Spec

\* rist_sender_send_data_balanced hands every packet of a steady bond to a leg.
THEOREM SteadyLosesNone ==
  ASSUME Steady
  PROVE  Spec => []NeverDropped
<1>1. Init => SteadyInv
  BY SteadyInit
<1>2. BalanceInv /\ SteadyInv /\ [Next]_vars => SteadyInv'
  BY SteadyStep
<1>3. SteadyInv => NeverDropped
  BY DEF SteadyInv, NeverDropped
<1> QED BY <1>1, <1>2, <1>3, BalanceCorrect, PTL DEF Spec
=============================================================================
