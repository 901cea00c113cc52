--------------------------- MODULE SenderBalance ---------------------------
(***************************************************************************)
(* The weighted rotation of a bonded sender: rist_sender_send_data_balanced *)
(* hands every new packet to one leg, in proportion to the weights, and to *)
(* every leg of weight RIST_PEER_WEIGHT_DUPLICATE, going round the guards  *)
(* of BondGuards and the legs that are not connected.                      *)
(*                                                                         *)
(* Legs are callers; a listener with its children is a leg of another kind *)
(* and is not in this module.                                              *)
(***************************************************************************)
EXTENDS BondGuards

CONSTANTS
  Trickle,      \* config.rtt_drop_trickle, 0 is none
  BufferTime,   \* config.recovery_length_max
  Srp,          \* the legs authenticate with EAP
  Churn         \* legs may disconnect; else all are up from the beginning

ASSUME BalanceAssumption ==
  /\ Trickle \in Nat /\ BufferTime \in Nat
  /\ Srp \in BOOLEAN /\ Churn \in BOOLEAN

VARIABLES
  status,         \* what the leg's eap_ctx, authenticated and dead say
  wCount,         \* w_count
  weightCounter, totalWeight,
  trickle,        \* rtt_trickle_counter
  sent,           \* the legs the last packet went to
  missed,         \* the usable legs of weight 0 that it did not go to
  lost            \* packets lost in a row though a leg was usable, up to 2

balanceVars == <<wCount, weightCounter, trickle, sent, missed, lost>>
vars == <<guardVars, status, totalWeight, balanceVars>>

\* EAP is not finished; not authenticated; up; dead for less than the grace of
\* rist_peer_may_send; dead for longer.
Statuses == {"handshake", "connecting", "up", "fading", "dead"}

TypeOK ==
  /\ GuardTypeOK
  /\ status \in [Legs -> Statuses] /\ wCount \in [Legs -> Nat]
  /\ weightCounter \in Int /\ totalWeight \in Nat
  /\ trickle \in [Legs -> 0 .. Trickle]
  /\ sent \subseteq Legs /\ missed \subseteq Legs
  /\ lost \in 0 .. 2

\* The sum of a number for every leg.
Total(f) ==
  LET sum[n \in 0 .. NLegs] == IF n = 0 THEN 0 ELSE sum[n - 1] + f[n]
  IN sum[NLegs]

\* rist_start, after every leg was created.
Init ==
  /\ GuardInit
  /\ status = [l \in Legs |-> IF ~Churn THEN "up"
                              ELSE IF Srp THEN "handshake" ELSE "connecting"]
  /\ wCount = weight
  /\ totalWeight = Total(weight) /\ weightCounter = totalWeight
  /\ trickle = [l \in Legs |-> 0]
  /\ sent = {} /\ missed = {} /\ lost = 0

-----------------------------------------------------------------------------
(* rist_sender_send_data_balanced.                                         *)

\* rist_peer_effective_weight: a leg that has rejoined ramps up to its weight.
Effective(l) ==
  LET scaled == (weight[l] * ramp[l]) \div RampTime
  IN IF weight[l] <= 1 \/ ramp[l] = RampTime THEN weight[l]
     ELSE IF scaled = 0 THEN 1 ELSE scaled

\* In the list, past the EAP handshake, and one of three: not connected, kept
\* out by a guard, or in the rotation.
Joined  == {l \in legs : status[l] # "handshake"}
Out     == {l \in Joined : status[l] \in {"connecting", "dead"}}
Idle    == {l \in Joined \ Out : muted[l] \/ stalled[l]}
Rotated == Joined \ (Out \cup Idle)

\* weight_counter after the legs 1 .. n were skipped or not.
Skipped[n \in 0 .. NLegs] ==
  IF n = 0 THEN weightCounter
  ELSE IF n \notin Out \cup Idle THEN Skipped[n - 1]
  ELSE LET c == Skipped[n - 1] - weight[n] IN IF c <= 0 THEN totalWeight ELSE c

\* Mutant: the leg with the largest share, however much of it is used up.
SelectedHeaviest ==
  LET heavy == {l \in Rotated : weight[l] # 0}
  IN {l \in heavy : \A k \in heavy : weight[k] < weight[l]
                        \/ (weight[k] = weight[l] /\ l <= k)}
\* Mutant: a leg is a candidate although its share is used up.
CandidatesAny == {l \in Rotated : weight[l] # 0}
\* The leg with the most of its share left, the first of several.
Candidates == {l \in Rotated : weight[l] # 0 /\ wCount[l] > 0}
Selected   == {l \in Candidates : \A k \in Candidates :
                 wCount[k] < wCount[l] \/ (wCount[k] = wCount[l] /\ l <= k)}
\* Mutant: the legs of weight 0 are served only when no other leg is selected.
DuplicatesAlone == IF Selected # {} THEN {} ELSE {l \in Rotated : weight[l] = 0}
Duplicates == {l \in Rotated : weight[l] = 0}

\* A muted leg gets a copy of every Trickle-th packet, if it can arrive in time.
Trickles == {l \in Idle : /\ muted[l] /\ Trickle > 0 /\ status[l] = "up"
                          /\ rtt[l] \div 2 <= BufferTime \/ BufferTime = 0}
Trickled == {l \in Trickles : trickle[l] + 1 >= Trickle}

\* The safety net: if no leg is in the rotation, the best idle one.  A stalled
\* leg comes after any other, a leg without a sample after any with one.
Better(l, k) ==
  \/ ~stalled[l] /\ stalled[k]
  \/ /\ stalled[l] = stalled[k]
     /\ \/ rtt[l] # 0 /\ (rtt[k] = 0 \/ rtt[l] < rtt[k])
        \/ rtt[l] = rtt[k] /\ l <= k
Fallback ==
  LET idle == {l \in Idle : status[l] = "up"}
  IN IF Rotated # {} \/ Selected # {} THEN {}
     ELSE {l \in idle : \A k \in idle : Better(l, k)}

SentTo == Duplicates \cup Selected \cup Trickled \cup Fallback
Usable == {l \in legs : status[l] = "up"}

\* weight_counter after the packet; the round ends at zero or when no leg could
\* be selected, and then every leg gets its share anew.
AfterPacketKept == Skipped[NLegs]   \* mutant: the packet is not counted
AfterPacket == Skipped[NLegs] - Cardinality(Selected)
\* Mutants: a round ends only one way.
RoundOverAtZero   == totalWeight > 0 /\ AfterPacket = 0
RoundOverWhenNone == totalWeight > 0 /\ Selected = {}
RoundOver   == totalWeight > 0 /\ (AfterPacket = 0 \/ Selected = {})

SendData ==
  /\ weightCounter' = IF RoundOver THEN totalWeight ELSE AfterPacket
  /\ wCount' = [l \in Legs |->
       IF l \in legs /\ (RoundOver \/ l \in Out \cup Idle) THEN Effective(l)
       ELSE IF l \in Selected THEN wCount[l] - 1 ELSE wCount[l]]
  /\ trickle' = [l \in Legs |-> IF l \in Trickled THEN 0
                                ELSE IF l \in Trickles THEN trickle[l] + 1
                                ELSE trickle[l]]
  /\ sent' = SentTo
  /\ missed' = {l \in Usable : weight[l] = 0} \ SentTo
  /\ lost' = IF SentTo = {} /\ Usable # {} THEN Older(lost, 2) ELSE 0
  /\ UNCHANGED <<guardVars, status, totalWeight>>

-----------------------------------------------------------------------------
(* The guards and the state of the legs.                                   *)

\* A leg that rejoins starts its next trickle from the beginning.  Without
\* Churn no leg goes silent.
Guard ==
  /\ Check
  /\ Churn \/ \A l \in Legs : ~Silent(l)
  /\ trickle' = [l \in Legs |-> IF muted[l] /\ ~muted'[l] THEN 0 ELSE trickle[l]]
  /\ UNCHANGED <<status, totalWeight, wCount, weightCounter, sent, missed, lost>>

\* A packet from the other end: its reports revive a leg that was dead.
Hear(l, r) ==
  /\ Receive(l, r)
  /\ status' = [status EXCEPT ![l] = IF @ \in {"fading", "dead"} THEN "up" ELSE @]
  /\ UNCHANGED <<totalWeight, balanceVars>>

\* The EAP handshake succeeds; rist_peer_authenticate.
Connect(l) ==
  /\ l \in legs /\ heard[l] /\ status[l] \in {"handshake", "connecting"}
  /\ status' = [status EXCEPT ![l] = IF @ = "handshake" THEN "connecting" ELSE "up"]
  /\ UNCHANGED <<guardVars, totalWeight, balanceVars>>

\* rist_timeout_check: with EAP the session starts over, without it, or when
\* the last time was too short ago, kill_peer; then the grace of
\* rist_peer_may_send runs out.
TimeOut(l) ==
  /\ Churn /\ l \in legs /\ heard[l] /\ silent[l] > StallAfter
  /\ \/ /\ status[l] \in {"connecting", "up"} /\ Srp
        /\ status' = [status EXCEPT ![l] = "handshake"]
        /\ silent' = [silent EXCEPT ![l] = 0]
     \/ /\ status[l] = "up"
        /\ status' = [status EXCEPT ![l] = "fading"] /\ UNCHANGED silent
     \/ /\ status[l] = "fading"
        /\ status' = [status EXCEPT ![l] = "dead"] /\ UNCHANGED silent
  /\ UNCHANGED <<legs, weight, heard, rtt, mute, muted, stalled, sole, held,
                 ramp, changes, totalWeight, balanceVars>>

\* rist_peer_destroy takes the weight of the leg back.
Remove(l) ==
  /\ RemoveLeg(l)
  /\ totalWeight' = totalWeight - weight[l]
  /\ UNCHANGED <<status, balanceVars>>

\* rist_peer_weight_set leaves weight_counter as it is.
WeightSet(l, w) ==
  /\ SetWeight(l, w)
  /\ totalWeight' = totalWeight - weight[l] + w
  /\ wCount' = [wCount EXCEPT ![l] = w]
  /\ UNCHANGED <<status, weightCounter, trickle, sent, missed, lost>>

Next ==
  \/ SendData \/ Guard
  \/ \E l \in Legs : \/ \E r \in Rtts \cup {rtt[l]} : Hear(l, r)
                     \/ Connect(l) \/ TimeOut(l) \/ Remove(l)
                     \/ \E w \in NewWeights : WeightSet(l, w)

Spec == Init /\ [][Next]_vars
\* The application goes on writing, the protocol thread goes on sending.
FairSpec == Spec /\ WF_vars(SendData)

-----------------------------------------------------------------------------
(* Properties.                                                             *)

\* "Never silently drop a live packet when a usable leg exists."
NeverDropped == lost = 0

\* A packet that no leg was selected for ends the round, so the next one is
\* carried: two in a row are never lost while a leg is up.
NoTwoLost == lost < 2

\* "A peer configured with this weight receives a duplicate of every packet
\* instead of taking part in the weighted load-balancing rotation."
DuplicateGetsAll == missed = {}

\* What is left of the round is what the legs have left of their shares.
InRotation == {l \in legs : weight[l] # 0}
RoundExact ==
  weightCounter = Total([l \in Legs |-> IF l \in InRotation THEN wCount[l]
                                        ELSE 0])

\* "Share this leg should take in the weighted payload rotation": a leg that
\* stays up and outside the guards carries packets again and again.
EveryLegCarries ==
  \A l \in Legs : <>[](l \in Usable /\ ~muted[l] /\ ~stalled[l])
                    => []<>(l \in sent)
=============================================================================
