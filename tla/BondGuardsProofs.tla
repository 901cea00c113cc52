-------------------------- MODULE BondGuardsProofs --------------------------
(***************************************************************************)
(* For every number of legs and every threshold: the stall check and the   *)
(* mute check together never take the last leg out of the rotation.        *)
(***************************************************************************)
EXTENDS BondGuards, FiniteSetTheorems, WellFoundedInduction, TLAPS

\* Only a leg with rtt-drop is ever muted, and only one that was measured wants
\* to be.
OnlyMuteLegs == \A l \in Legs :
  /\ muted[l] => l \in MuteLegs
  /\ rtt[l] = 0 => ~mute[l].want

GuardInv == GuardTypeOK /\ OnlyMuteLegs

\* A set of natural numbers that is not empty has a least element.
LEMMA Least ==
  ASSUME NEW S, S \subseteq Nat, S # {}
  PROVE  \E x \in S : \A y \in S : x <= y
<1> DEFINE R == OpToRel(<, Nat)
<1>1. IsWellFoundedOn(R, Nat)
  BY NatLessThanWellFounded
<1>2. PICK x \in S : \A y \in S : ~(<<y, x>> \in R)
  <2> HIDE DEF R
  <2>1. QED BY <1>1, WFMin
<1>3. ASSUME NEW y \in S PROVE ~(y < x)
  <2>1. x \in Nat /\ y \in Nat /\ ~(<<y, x>> \in R)
    BY <1>2
  <2>2. QED BY <2>1 DEF OpToRel
<1> HIDE DEF R
<1>4. \A y \in S : x <= y
  <2>1. \A y \in S : y \in Nat /\ x \in Nat
    OBVIOUS
  <2>2. QED BY <1>3, <2>1
<1>5. QED BY <1>4

\* A set of legs that is not empty has a last one.
LEMMA LastLeg ==
  ASSUME NEW S, S \subseteq Legs, S # {}
  PROVE  \E l \in S : \A k \in S : k <= l
<1> DEFINE T == {NLegs - l : l \in S}
<1>1. T \subseteq Nat /\ T # {}
  <2>1. ASSUME NEW l \in S PROVE NLegs - l \in Nat
    <3>1. l \in Int /\ l <= NLegs /\ NLegs \in Int
      BY GuardAssumption DEF Legs
    <3>2. QED BY <3>1
  <2>2. QED BY <2>1
<1>2. PICK x \in T : \A y \in T : x <= y
  BY <1>1, Least
<1>3. PICK l \in S : x = NLegs - l
  BY <1>2
<1>4. ASSUME NEW k \in S PROVE k <= l
  <2>1. NLegs - l <= NLegs - k
    BY <1>2, <1>3
  <2>2. k \in Int /\ l \in Int /\ NLegs \in Int
    BY GuardAssumption DEF Legs
  <2>3. QED BY <2>1, <2>2
<1>5. QED BY <1>4

\* Of any legs one is the best: the lowest round trip time, then the first.
LEMMA BestLeg ==
  ASSUME GuardTypeOK, NEW S, S \subseteq Legs, S # {}
  PROVE  \E l \in S : \A k \in S :
           rtt[l] < rtt[k] \/ (rtt[l] = rtt[k] /\ l <= k)
<1>1. \A l \in Legs : l \in Nat /\ rtt[l] \in Nat
  <2>1. \A l \in Legs : l \in Nat
    BY GuardAssumption DEF Legs
  <2>2. \A l \in Legs : rtt[l] \in Rtts \cup {0}
    BY DEF GuardTypeOK
  <2>3. Rtts \cup {0} \subseteq Nat
    <3>1. Rtts \subseteq Nat \ {0}
      BY GuardAssumption
    <3>2. QED BY <3>1
  <2>4. QED BY <2>1, <2>2, <2>3
<1> DEFINE times == {rtt[l] : l \in S}
<1>2. PICK t \in times : \A u \in times : t <= u
  <2>1. times \subseteq Nat /\ times # {}
    BY <1>1
  <2>2. QED BY <2>1, Least
<1> DEFINE fastest == {l \in S : rtt[l] = t}
<1>3. PICK l \in fastest : \A k \in fastest : l <= k
  <2>1. fastest \subseteq Nat /\ fastest # {}
    BY <1>1, <1>2
  <2>2. QED BY <2>1, Least
<1>4. ASSUME NEW k \in S
      PROVE  rtt[l] < rtt[k] \/ (rtt[l] = rtt[k] /\ l <= k)
  <2>1. rtt[l] = t /\ t <= rtt[k]
    BY <1>2, <1>3
  <2>2. rtt[k] = t => l <= k
    BY <1>3
  <2>3. QED BY <2>1, <2>2, <1>1, <1>3
<1>5. QED BY <1>3, <1>4

\* The leg that is kept is one of the reserve, and there is one when no leg
\* carries and the reserve is not empty.
LEMMA KeepLeg ==
  ASSUME GuardTypeOK, Carriers = {}, Reserve # {}
  PROVE  \E k \in Reserve : k \in Keep
<1>1. Reserve \subseteq Legs
  BY DEF Reserve, Wants, Eligible, Bonded, GuardTypeOK
<1>2. Best \in Reserve
  <2>1. \E l \in Reserve : \A k \in Reserve :
          rtt[l] < rtt[k] \/ (rtt[l] = rtt[k] /\ l <= k)
    BY <1>1, BestLeg
  <2>2. QED BY <2>1 DEF Best
<1>3. Incumbents # {} => Incumbent \in Incumbents
  <2>1. Incumbents \subseteq Legs
    BY <1>1 DEF Incumbents
  <2>2. QED BY <2>1, LastLeg DEF Incumbent
<1>4. Incumbents \subseteq Reserve
  BY DEF Incumbents
<1>5. Keep = {Best} \/ (Incumbents # {} /\ Keep = {Incumbent})
  BY DEF Keep
<1>6. QED BY <1>2, <1>3, <1>4, <1>5

\* With two bonded legs, the stall check leaves one that is not stalled.
LEMMA StallLeaves ==
  ASSUME GuardTypeOK, StallCheck, Cardinality(Eligible) >= 2
  PROVE  \E l \in Bonded : ~stalled'[l]
<1>1. Bonded \subseteq legs /\ Bonded \subseteq Legs
  BY DEF Bonded, GuardTypeOK
<1>2. Bonded # {}
  <2>1. CASE Eligible = {}
    <3>1. Cardinality(Eligible) = 0
      BY <2>1, FS_EmptySet
    <3>2. QED BY <3>1
  <2>2. CASE Eligible # {}
    BY <2>2 DEF Eligible
  <2>3. QED BY <2>1, <2>2
<1>3. CASE Live # {}
  <2>1. PICK l \in Live : TRUE
    BY <1>3
  <2>2. l \in Bonded /\ ~Silent(l)
    BY <2>1 DEF Live
  <2>3. ~stalled'[l]
    BY <2>2, <1>1 DEF StallCheck
  <2>4. QED BY <2>2, <2>3
<1>4. CASE Live = {}
  BY <1>1, <1>2, <1>4 DEF StallCheck
<1>5. QED BY <1>3, <1>4

\* A check that has something to fail over to leaves a leg that carries.
LEMMA CheckCarries ==
  ASSUME GuardInv, Check, Cardinality(Eligible) >= 2
  PROVE  \E l \in Bonded : ~muted'[l] /\ ~stalled'[l]
<1>1. Bonded \subseteq Legs /\ GuardTypeOK /\ Eligible = Bonded \cap MuteLegs
  BY DEF GuardInv, GuardTypeOK, Bonded, Eligible
<1>2. muted' = [l \in Legs |-> IF l \in Eligible THEN l \in Wants \ Keep
                               ELSE muted[l]]
  <2>1. ~(Cardinality(Eligible) < 2)
    <3>1. IsFiniteSet(Legs)
      BY GuardAssumption, FS_Interval DEF Legs
    <3>2. IsFiniteSet(Eligible)
      BY <1>1, <3>1, FS_Subset
    <3>3. Cardinality(Eligible) \in Nat
      BY <3>2, FS_CardinalityType
    <3>4. QED BY <3>3
  <2>2. QED BY <2>1 DEF Check, MuteCheck
<1>3. CASE Carriers # {}
  <2>1. PICK l \in Carriers : TRUE
    BY <1>3
  <2>2. l \in Bonded /\ l \notin Wants /\ ~stalled'[l]
    BY <2>1 DEF Carriers
  <2>3. ~muted'[l]
    <3>1. CASE l \in Eligible
      BY <1>1, <1>2, <2>2, <3>1
    <3>2. CASE l \notin Eligible
      BY <1>1, <1>2, <2>2, <3>2 DEF GuardInv, OnlyMuteLegs
    <3>3. QED BY <3>1, <3>2
  <2>4. QED BY <2>2, <2>3
<1>4. CASE Carriers = {}
  <2>1. PICK l \in Bonded : ~stalled'[l]
    BY <1>1, StallLeaves DEF Check
  <2>2. l \in Reserve
    BY <2>1, <1>4 DEF Carriers, Reserve
  <2>3. PICK k \in Reserve : k \in Keep
    BY <1>1, <1>4, <2>2, KeepLeg
  <2>4. k \in Eligible /\ k \in Bonded /\ ~stalled'[k]
    BY <2>3 DEF Reserve, Wants, Eligible
  <2>5. ~muted'[k]
    BY <1>1, <1>2, <2>3, <2>4
  <2>6. QED BY <2>4, <2>5
<1>5. QED BY <1>3, <1>4

-----------------------------------------------------------------------------
(* The invariant.                                                          *)

\* An age grows, up to the largest that is kept.
LEMMA OlderRange ==
  ASSUME NEW most \in Nat, NEW age \in 0 .. most
  PROVE  Older(age, most) \in 0 .. most
BY DEF Older

\* RampTime is a dwell of a positive number of turns.
LEMMA RampTimeType ==
  RampTime \in Nat /\ DropSettle \in Nat /\ DropSettle <= RampTime
BY GuardAssumption DEF RampTime

\* A step of the hysteresis leaves a state of the hysteresis.
LEMMA MuteStepType ==
  ASSUME NEW m \in MuteStates, NEW r
  PROVE  MuteStep(m, r) \in MuteStates
<1> DEFINE age    == Older(m.age, RampTime)
           beyond == IF m.want THEN r < Restore ELSE r > Drop
           settle == IF m.want THEN 2 * DropSettle ELSE DropSettle
<1>1. m.want \in BOOLEAN /\ m.pending \in BOOLEAN /\ m.age \in 0 .. RampTime
  BY DEF MuteStates
<1>2. age \in 0 .. RampTime /\ 0 \in 0 .. RampTime
  BY <1>1, RampTimeType, OlderRange
<1>3. \/ MuteStep(m, r) = [m EXCEPT !.pending = FALSE, !.age = 0]
      \/ MuteStep(m, r) = [m EXCEPT !.pending = TRUE, !.age = 0]
      \/ MuteStep(m, r) = [m EXCEPT !.age = age]
      \/ MuteStep(m, r) = [want |-> ~m.want, pending |-> FALSE, age |-> 0]
  <2> HIDE DEF age, beyond, settle
  <2>1. MuteStep(m, r) =
          CASE ~beyond              -> [m EXCEPT !.pending = FALSE, !.age = 0]
            [] beyond /\ ~m.pending -> [m EXCEPT !.pending = TRUE, !.age = 0]
            [] beyond /\ m.pending /\ age < settle -> [m EXCEPT !.age = age]
            [] OTHER -> [want |-> ~m.want, pending |-> FALSE, age |-> 0]
    BY DEF MuteStep, age, beyond, settle
  <2>2. QED BY <2>1
<1> HIDE DEF age, beyond, settle
<1>4. CASE MuteStep(m, r) = [m EXCEPT !.pending = FALSE, !.age = 0]
  BY <1>2, <1>4 DEF MuteStates
<1>5. CASE MuteStep(m, r) = [m EXCEPT !.pending = TRUE, !.age = 0]
  BY <1>2, <1>5 DEF MuteStates
<1>6. CASE MuteStep(m, r) = [m EXCEPT !.age = age]
  BY <1>2, <1>6 DEF MuteStates
<1>7. CASE MuteStep(m, r) = [want |-> ~m.want, pending |-> FALSE, age |-> 0]
  BY <1>1, <1>2, <1>7 DEF MuteStates
<1>8. QED BY <1>3, <1>4, <1>5, <1>6, <1>7

\* So does the time that passes for a leg that does not step.
LEMMA MuteWaitType ==
  ASSUME NEW m \in MuteStates
  PROVE  MuteWait(m) \in MuteStates /\ MuteWait(m).want = m.want
<1>1. m.age \in 0 .. RampTime
  BY DEF MuteStates
<1>2. Older(m.age, RampTime) \in 0 .. RampTime
  BY <1>1, RampTimeType, OlderRange
<1>3. QED BY <1>2 DEF MuteWait, MuteStates

\* No leg is guarded at the start.
THEOREM GuardInitInv == GuardInit => GuardInv
<1> SUFFICES ASSUME GuardInit PROVE GuardInv
  OBVIOUS
<1>1. 0 \in 0 .. StallAfter + 1 /\ 0 \in 0 .. DropSettle /\ 0 \in 0 .. RampTime
      /\ RampTime \in 0 .. RampTime /\ 0 \in 0 .. MaxChanges
  BY GuardAssumption DEF RampTime
<1>2. [want |-> FALSE, pending |-> FALSE, age |-> 0] \in MuteStates
  BY <1>1 DEF MuteStates
<1>3. weight \in [Legs -> Nat]
  BY GuardAssumption DEF GuardInit
<1>4. GuardTypeOK
  BY <1>1, <1>2, <1>3 DEF GuardInit, GuardTypeOK
<1>5. OnlyMuteLegs
  BY DEF GuardInit, OnlyMuteLegs
<1>6. QED BY <1>4, <1>5 DEF GuardInv

\* The two checks keep the invariant.
LEMMA CheckInv ==
  ASSUME GuardInv, Check
  PROVE  GuardInv'
<1> USE DEF GuardInv
<1>1. /\ legs' \subseteq Legs /\ weight' \in [Legs -> Nat]
      /\ heard' \in [Legs -> BOOLEAN] /\ rtt' \in [Legs -> Rtts \cup {0}]
      /\ changes' \in 0 .. MaxChanges
  BY DEF Check, GuardTypeOK
<1>2. silent' \in [Legs -> 0 .. StallAfter + 1]
  <2>1. \A l \in Legs : Silence(l) \in 0 .. StallAfter + 1
    <3> SUFFICES ASSUME NEW l \in Legs PROVE Silence(l) \in 0 .. StallAfter + 1
      OBVIOUS
    <3>1. StallAfter + 1 \in Nat /\ silent[l] \in 0 .. StallAfter + 1
      BY GuardAssumption DEF GuardTypeOK
    <3>2. QED BY <3>1, OlderRange DEF Silence
  <2>2. QED BY <2>1 DEF Check
<1>3. stalled' \in [Legs -> BOOLEAN]
  <2>1. stalled \in [Legs -> BOOLEAN] /\ StallCheck
    BY DEF GuardTypeOK, Check
  <2>2. \A l \in Legs : (IF l \notin legs THEN stalled[l]
          ELSE Cardinality(Bonded) >= 2 /\ l \in Bonded /\ Silent(l) /\ Live # {})
            \in BOOLEAN
    BY <2>1
  <2>3. QED BY <2>1, <2>2 DEF StallCheck
<1>4. \A l \in Legs : /\ mute[l] \in MuteStates /\ muted[l] \in BOOLEAN
                      /\ sole[l] \in BOOLEAN /\ held[l] \in 0 .. DropSettle
                      /\ ramp[l] \in 0 .. RampTime
                      /\ Older(held[l], DropSettle) \in 0 .. DropSettle
                      /\ Older(ramp[l], RampTime) \in 0 .. RampTime
  <2> SUFFICES ASSUME NEW l \in Legs
               PROVE  /\ mute[l] \in MuteStates /\ muted[l] \in BOOLEAN
                      /\ sole[l] \in BOOLEAN /\ held[l] \in 0 .. DropSettle
                      /\ ramp[l] \in 0 .. RampTime
                      /\ Older(held[l], DropSettle) \in 0 .. DropSettle
                      /\ Older(ramp[l], RampTime) \in 0 .. RampTime
    OBVIOUS
  <2>1. /\ mute[l] \in MuteStates /\ muted[l] \in BOOLEAN /\ sole[l] \in BOOLEAN
        /\ held[l] \in 0 .. DropSettle /\ ramp[l] \in 0 .. RampTime
    BY DEF GuardTypeOK
  <2>2. QED BY <2>1, RampTimeType, OlderRange
<1>5. 0 \in 0 .. DropSettle /\ 0 \in 0 .. RampTime
  BY RampTimeType
<1>6. CASE Cardinality(Eligible) < 2
  <2>1. /\ mute' = [l \in Legs |-> MuteWait(mute[l])]
        /\ held' = [l \in Legs |-> IF sole[l] THEN Older(held[l], DropSettle) ELSE 0]
        /\ ramp' = [l \in Legs |-> Older(ramp[l], RampTime)]
        /\ UNCHANGED <<muted, sole>>
    BY <1>6 DEF Check, MuteCheck
  <2>2. mute' \in [Legs -> MuteStates]
    BY <2>1, <1>4, MuteWaitType
  <2>3. held' \in [Legs -> 0 .. DropSettle] /\ ramp' \in [Legs -> 0 .. RampTime]
    BY <2>1, <1>4, <1>5
  <2>4. GuardTypeOK'
    BY <1>1, <1>2, <1>3, <2>1, <2>2, <2>3 DEF GuardTypeOK
  <2>5. OnlyMuteLegs'
    <3>1. \A l \in Legs : mute'[l].want = mute[l].want
      BY <2>1, <1>4, MuteWaitType
    <3>2. rtt' = rtt
      BY DEF Check
    <3>3. QED BY <2>1, <3>1, <3>2 DEF OnlyMuteLegs
  <2>6. QED BY <2>4, <2>5
<1>7. CASE ~(Cardinality(Eligible) < 2)
  <2>1. /\ mute' = [l \in Legs |-> IF l \in Eligible /\ rtt[l] # 0
                                   THEN MuteStep(mute[l], rtt[l])
                                   ELSE MuteWait(mute[l])]
        /\ sole' = [l \in Legs |-> IF l \in Bonded THEN l \in Keep ELSE sole[l]]
        /\ held' = [l \in Legs |-> IF sole[l] /\ sole'[l]
                                   THEN Older(held[l], DropSettle) ELSE 0]
        /\ muted' = [l \in Legs |-> IF l \in Eligible THEN l \in Wants \ Keep
                                    ELSE muted[l]]
    BY <1>7 DEF Check, MuteCheck
  <2>2. ramp' = [l \in Legs |-> IF l \in Eligible /\ muted[l] /\ ~muted'[l] THEN 0
                                ELSE Older(ramp[l], RampTime)]
    BY <1>7 DEF Check, MuteCheck
  <2>3. mute' \in [Legs -> MuteStates]
    BY <2>1, <1>4, MuteWaitType, MuteStepType
  <2>4. held' \in [Legs -> 0 .. DropSettle] /\ ramp' \in [Legs -> 0 .. RampTime]
    BY <2>1, <2>2, <1>4, <1>5
  <2>5. sole' \in [Legs -> BOOLEAN] /\ muted' \in [Legs -> BOOLEAN]
    <3>1. ASSUME NEW l \in Legs
          PROVE  /\ (IF l \in Bonded THEN l \in Keep ELSE sole[l]) \in BOOLEAN
                 /\ (IF l \in Eligible THEN l \in Wants \ Keep ELSE muted[l])
                      \in BOOLEAN
      <4>1. sole[l] \in BOOLEAN /\ muted[l] \in BOOLEAN
        BY <1>4
      <4>2. (l \in Keep) \in BOOLEAN /\ (l \in Wants \ Keep) \in BOOLEAN
        OBVIOUS
      <4>3. (IF l \in Bonded THEN l \in Keep ELSE sole[l]) \in BOOLEAN
        BY <4>1, <4>2, Zenon
      <4>4. (IF l \in Eligible THEN l \in Wants \ Keep ELSE muted[l]) \in BOOLEAN
        BY <4>1, <4>2, Zenon
      <4>5. QED BY <4>3, <4>4
    <3>2. sole' \in [Legs -> BOOLEAN]
      BY <2>1, <3>1, Zenon
    <3>3. muted' \in [Legs -> BOOLEAN]
      BY <2>1, <3>1, Zenon
    <3>4. QED BY <3>2, <3>3
  <2>6. GuardTypeOK'
    BY <1>1, <1>2, <1>3, <2>3, <2>4, <2>5 DEF GuardTypeOK
  <2>7. OnlyMuteLegs'
    <3> SUFFICES ASSUME NEW l \in Legs
                 PROVE  /\ muted'[l] => l \in MuteLegs
                        /\ rtt'[l] = 0 => ~mute'[l].want
      BY DEF OnlyMuteLegs
    <3>1. muted'[l] => l \in MuteLegs
      BY <2>1 DEF OnlyMuteLegs, Eligible
    <3>2. ASSUME rtt'[l] = 0 PROVE ~mute'[l].want
      <4>1. rtt[l] = 0
        BY <3>2 DEF Check
      <4>2. mute'[l] = MuteWait(mute[l])
        BY <2>1, <4>1
      <4>3. QED BY <4>1, <4>2, <1>4, MuteWaitType DEF OnlyMuteLegs
    <3>3. QED BY <3>1, <3>2
  <2>8. QED BY <2>6, <2>7
<1>8. QED BY <1>6, <1>7

\* Every step keeps the invariant.
THEOREM GuardStepInv == GuardInv /\ [GuardNext]_guardVars => GuardInv'
<1> SUFFICES ASSUME GuardInv, [GuardNext]_guardVars PROVE GuardInv'
  OBVIOUS
<1>1. CASE Check
  BY <1>1, CheckInv
<1>2. ASSUME NEW l \in Legs, NEW r \in Rtts \cup {rtt[l]}, Receive(l, r)
      PROVE  GuardInv'
  <2>1. r \in Rtts \cup {0} /\ (r = 0 => rtt[l] = 0) /\ 0 \in 0 .. StallAfter + 1
    <3>1. 0 \notin Rtts /\ StallAfter \in Nat
      BY GuardAssumption
    <3>2. rtt[l] \in Rtts \cup {0}
      BY DEF GuardInv, GuardTypeOK
    <3>3. QED BY <3>1, <3>2
  <2>2. GuardTypeOK'
    BY <1>2, <2>1 DEF Receive, GuardInv, GuardTypeOK
  <2>3. OnlyMuteLegs'
    BY <1>2, <2>1 DEF Receive, GuardInv, GuardTypeOK, OnlyMuteLegs
  <2>4. QED BY <2>2, <2>3 DEF GuardInv
<1>3. ASSUME NEW l \in Legs, RemoveLeg(l) PROVE GuardInv'
  <2>1. changes' \in 0 .. MaxChanges
    BY <1>3, GuardAssumption DEF RemoveLeg, GuardInv, GuardTypeOK
  <2>2. QED BY <1>3, <2>1 DEF RemoveLeg, GuardInv, GuardTypeOK, OnlyMuteLegs
<1>4. ASSUME NEW l \in Legs, NEW w \in NewWeights, SetWeight(l, w)
      PROVE  GuardInv'
  <2>1. changes' \in 0 .. MaxChanges
    BY <1>4, GuardAssumption DEF SetWeight, GuardInv, GuardTypeOK
  <2>2. w \in Nat
    BY GuardAssumption
  <2>3. QED BY <1>4, <2>1, <2>2
        DEF SetWeight, GuardInv, GuardTypeOK, OnlyMuteLegs
<1>5. CASE UNCHANGED guardVars
  <2>1. GuardTypeOK'
    BY <1>5 DEF guardVars, GuardInv, GuardTypeOK
  <2>2. OnlyMuteLegs'
    BY <1>5 DEF guardVars, GuardInv, OnlyMuteLegs
  <2>3. QED BY <2>1, <2>2 DEF GuardInv
<1>6. QED BY <1>1, <1>2, <1>3, <1>4, <1>5 DEF GuardNext

\* In every reachable state the guards' state has its type, and only a leg with
\* rtt-drop is muted.
THEOREM GuardCorrect == GuardSpec => []GuardInv
<1>1. QED BY GuardInitInv, GuardStepInv, PTL DEF GuardSpec

THEOREM GuardTypesCorrect == GuardSpec => []GuardTypeOK
<1>1. GuardInv => GuardTypeOK
  BY DEF GuardInv
<1>2. QED BY GuardCorrect, <1>1, PTL

-----------------------------------------------------------------------------
(* The legs that carry.                                                    *)

\* Every turn of the checks with two bonded legs that may be muted leaves one
\* leg that is neither muted nor stalled, however many legs there are and
\* whatever was measured on them.
THEOREM KeepsCarrier == GuardSpec => CheckKeepsCarrier
<1> DEFINE Kept == Check /\ Cardinality(Eligible) >= 2 =>
                     \E l \in Bonded : ~muted'[l] /\ ~stalled'[l]
<1>1. GuardInv => Kept
  BY CheckCarries
<1>2. GuardInv /\ [GuardNext]_guardVars => [Kept]_guardVars
  BY <1>1
<1>3. QED BY <1>2, GuardCorrect, PTL DEF GuardSpec, CheckKeepsCarrier

\* A leg is muted only when the bond keeps a leg that carries.
THEOREM MuteLeavesCarrier == GuardSpec => LeavesCarrier
<1> DEFINE Left == \A l \in Legs : ~muted[l] /\ muted'[l] =>
                     \E k \in Bonded : ~muted'[k] /\ ~stalled'[k]
<1>1. ASSUME GuardInv, GuardNext PROVE Left
  <2>1. CASE Check
    <3>1. CASE Cardinality(Eligible) < 2
      <4>1. muted' = muted
        BY <2>1, <3>1 DEF Check, MuteCheck
      <4>2. QED BY <4>1
    <3>2. CASE Cardinality(Eligible) >= 2
      BY <1>1, <2>1, <3>2, CheckCarries
    <3>3. Cardinality(Eligible) \in Nat
      <4>1. IsFiniteSet(Legs)
        BY GuardAssumption, FS_Interval DEF Legs
      <4>2. Eligible \subseteq Legs
        BY <1>1 DEF Eligible, Bonded, GuardInv, GuardTypeOK
      <4>3. QED BY <4>1, <4>2, FS_Subset, FS_CardinalityType
    <3>4. QED BY <3>1, <3>2, <3>3
  <2>2. CASE ~Check
    <3>1. muted' = muted
      BY <1>1, <2>2 DEF GuardNext, Receive, RemoveLeg, SetWeight
    <3>2. QED BY <3>1
  <2>3. QED BY <2>1, <2>2
<1>2. GuardInv /\ [GuardNext]_guardVars => [Left]_guardVars
  <2> HIDE DEF Left
  <2>1. QED BY <1>1
<1>3. QED BY <1>2, GuardCorrect, PTL DEF GuardSpec, LeavesCarrier

-----------------------------------------------------------------------------
(* The role of the sole carrier.                                           *)

\* Only a leg with rtt-drop wants to be muted; two legs of the rotation never
\* have the role at once; and while no leg is given the weight 0, a leg of that
\* weight was never in the rotation and has no role.
RoleInv ==
  /\ \A l \in Legs : mute[l].want => l \in MuteLegs
  /\ \A l, k \in Bonded : sole[l] /\ sole[k] => l = k
  /\ 0 \notin NewWeights => \A l \in Legs : weight[l] = 0 => ~sole[l]

\* No leg is taken out of the rotation with weight 0 and put back later.
NoReturn == 0 \notin NewWeights \/ NewWeights \subseteq {0}

\* The check keeps one leg at most, a member of the reserve.
LEMMA KeepOne ==
  ASSUME GuardTypeOK
  PROVE  /\ Keep \subseteq Reserve
         /\ \A l, k \in Keep : l = k
         /\ Incumbents # {} => Incumbent \in Incumbents
<1>1. Reserve \subseteq Legs
  BY DEF Reserve, Wants, Eligible, Bonded, GuardTypeOK
<1>2. Reserve # {} => Best \in Reserve
  <2>1. ASSUME Reserve # {}
        PROVE  \E l \in Reserve : \A k \in Reserve :
                 rtt[l] < rtt[k] \/ (rtt[l] = rtt[k] /\ l <= k)
    BY <1>1, <2>1, BestLeg
  <2>2. QED BY <2>1 DEF Best
<1>3. Incumbents # {} => Incumbent \in Incumbents
  <2>1. Incumbents \subseteq Legs
    BY <1>1 DEF Incumbents
  <2>2. QED BY <2>1, LastLeg DEF Incumbent
<1>4. Incumbents \subseteq Reserve
  BY DEF Incumbents
<1>5. \/ Keep = {}
      \/ Keep = {Best} /\ Reserve # {}
      \/ Keep = {Incumbent} /\ Incumbents # {}
  BY DEF Keep
<1>6. QED BY <1>2, <1>3, <1>4, <1>5

\* What a check with something to fail over to does to the role.
LEMMA RoleCheck ==
  ASSUME GuardInv, Check, ~(Cardinality(Eligible) < 2)
  PROVE  /\ sole' = [l \in Legs |-> IF l \in Bonded THEN l \in Keep ELSE sole[l]]
         /\ \A l \in Legs : l \notin Eligible => mute'[l].want = mute[l].want
         /\ legs' = legs /\ weight' = weight
<1>1. \A l \in Legs : mute[l] \in MuteStates
  BY DEF GuardInv, GuardTypeOK
<1>2. QED BY <1>1, MuteWaitType DEF Check, MuteCheck

THEOREM RoleInitInv == GuardInit => RoleInv
<1> SUFFICES ASSUME GuardInit PROVE RoleInv
  OBVIOUS
<1>1. \A l \in Legs : ~mute[l].want /\ ~sole[l]
  BY DEF GuardInit
<1>2. Bonded \subseteq Legs
  BY DEF Bonded, GuardInit
<1>3. QED BY <1>1, <1>2 DEF RoleInv

\* Every step keeps it, as long as no leg comes back.
THEOREM RoleStepInv ==
  ASSUME NoReturn
  PROVE  GuardInv /\ RoleInv /\ [GuardNext]_guardVars => RoleInv'
<1> SUFFICES ASSUME GuardInv, RoleInv, [GuardNext]_guardVars PROVE RoleInv'
  OBVIOUS
<1>t. /\ GuardTypeOK /\ legs \subseteq Legs /\ weight \in [Legs -> Nat]
      /\ Bonded \subseteq Legs
  BY DEF GuardInv, GuardTypeOK, Bonded
<1>1. CASE Check /\ Cardinality(Eligible) < 2
  <2>1. /\ mute' = [l \in Legs |-> MuteWait(mute[l])] /\ sole' = sole
        /\ legs' = legs /\ weight' = weight
    BY <1>1 DEF Check, MuteCheck
  <2>2. \A l \in Legs : mute'[l].want = mute[l].want
    BY <1>t, <2>1, MuteWaitType DEF GuardTypeOK
  <2>3. QED BY <2>1, <2>2 DEF RoleInv, Bonded
<1>2. CASE Check /\ ~(Cardinality(Eligible) < 2)
  <2>1. /\ sole' = [l \in Legs |-> IF l \in Bonded THEN l \in Keep ELSE sole[l]]
        /\ \A l \in Legs : l \notin Eligible => mute'[l].want = mute[l].want
        /\ legs' = legs /\ weight' = weight
    BY <1>2, RoleCheck
  <2>2. Bonded' = Bonded
    BY <2>1 DEF Bonded
  <2>3. \A l \in Legs : mute'[l].want => l \in MuteLegs
    BY <2>1 DEF RoleInv, Eligible
  <2>4. \A l, k \in Bonded' : sole'[l] /\ sole'[k] => l = k
    BY <1>t, <2>1, <2>2, KeepOne
  <2>5. \A l \in Legs : weight'[l] = 0 => sole'[l] = sole[l]
    BY <2>1 DEF Bonded
  <2>6. QED BY <2>1, <2>3, <2>4, <2>5 DEF RoleInv
<1>3. ASSUME NEW l \in Legs, NEW r \in Rtts \cup {rtt[l]}, Receive(l, r)
      PROVE  RoleInv'
  BY <1>3 DEF Receive, RoleInv, Bonded
<1>4. ASSUME NEW l \in Legs, RemoveLeg(l) PROVE RoleInv'
  BY <1>4 DEF RemoveLeg, RoleInv, Bonded
<1>5. ASSUME NEW l \in Legs, NEW w \in NewWeights, SetWeight(l, w)
      PROVE  RoleInv'
  <2>1. /\ weight' = [weight EXCEPT ![l] = w] /\ legs' = legs
        /\ mute' = mute /\ sole' = sole
    BY <1>5 DEF SetWeight
  <2>2. CASE 0 \notin NewWeights
    <3>1. \A k \in Legs : weight'[k] = 0 => weight[k] = 0
      BY <1>t, <2>1, <2>2
    <3>2. \A k \in Bonded' : sole'[k] => k \in Bonded
      BY <1>t, <2>1, <2>2 DEF RoleInv, Bonded
    <3>3. QED BY <2>1, <3>1, <3>2 DEF RoleInv
  <2>3. CASE NewWeights \subseteq {0}
    <3>1. w = 0
      BY <2>3
    <3>2. Bonded' \subseteq Bonded
      BY <1>t, <2>1, <3>1 DEF Bonded
    <3>3. 0 \in NewWeights
      BY <3>1
    <3>4. QED BY <2>1, <3>2, <3>3 DEF RoleInv
  <2>4. QED BY <2>2, <2>3 DEF NoReturn
<1>6. CASE UNCHANGED guardVars
  BY <1>6 DEF guardVars, RoleInv, Bonded
<1>7. QED BY <1>1, <1>2, <1>3, <1>4, <1>5, <1>6 DEF GuardNext

\* While no leg is taken out with weight 0 and put back, the role stays with one
\* leg: it passes to another only when the leg that has it may give it up.
THEOREM RoleAlwaysHeld ==
  ASSUME NoReturn
  PROVE  GuardSpec => RoleHeld
<1> DEFINE Passed == \A l, k \in Legs : (sole[l] /\ l # k /\ ~sole[k] /\ sole'[k]) =>
             \/ ~mute'[l].want \/ stalled'[l] \/ l \notin Bonded
             \/ held[l] >= DropSettle - 1 /\ rtt[k] * Margin <= rtt[l]
<1>1. ASSUME GuardInv, RoleInv, RoleInv', GuardNext PROVE Passed
  <2> SUFFICES ASSUME NEW l \in Legs, NEW k \in Legs,
                      sole[l], l # k, ~sole[k], sole'[k],
                      mute'[l].want, ~stalled'[l], l \in Bonded
               PROVE  held[l] >= DropSettle - 1 /\ rtt[k] * Margin <= rtt[l]
    OBVIOUS
  <2>1. Check /\ ~(Cardinality(Eligible) < 2)
    <3>1. sole' # sole
      OBVIOUS
    <3>2. QED BY <1>1, <3>1
          DEF GuardNext, Receive, RemoveLeg, SetWeight, Check, MuteCheck
  <2>2. sole' = [j \in Legs |-> IF j \in Bonded THEN j \in Keep ELSE sole[j]]
    BY <1>1, <2>1, RoleCheck
  <2>3. k \in Keep
    BY <2>2
  <2>4. l \in Incumbents
    <3>1. l \in MuteLegs
      BY <1>1 DEF RoleInv
    <3>2. QED BY <3>1 DEF Incumbents, Reserve, Wants, Eligible
  <2>5. Incumbent \in Incumbents /\ Incumbents \subseteq Bonded
    BY <1>1, <2>4, KeepOne DEF GuardInv, Incumbents, Reserve, Wants, Eligible
  <2>6. Incumbent = l
    BY <1>1, <2>4, <2>5 DEF RoleInv, Incumbents
  <2>7. k = Best /\ Handover(l, k)
    BY <2>3, <2>4, <2>6 DEF Keep
  <2>8. held[l] \in Int /\ DropSettle \in Int
    BY <1>1, RampTimeType DEF GuardInv, GuardTypeOK
  <2>9. Older(held[l], DropSettle) >= DropSettle /\ rtt[k] * Margin <= rtt[l]
    BY <2>7 DEF Handover
  <2>10. held[l] >= DropSettle - 1
    BY <2>8, <2>9 DEF Older
  <2>11. QED BY <2>9, <2>10
<1>2. GuardInv /\ RoleInv /\ RoleInv' /\ [GuardNext]_guardVars
        => [Passed]_guardVars
  <2> HIDE DEF Passed
  <2>1. QED BY <1>1
<1>3. QED BY <1>2, GuardCorrect, RoleInitInv, RoleStepInv, PTL
      DEF GuardSpec, RoleHeld
=============================================================================
