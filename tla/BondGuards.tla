----------------------------- MODULE BondGuards -----------------------------
(***************************************************************************)
(* Which legs of a bonded sender are taken out of the payload rotation:    *)
(* rist_sender_stall_check mutes a leg that has gone silent, and           *)
(* rist_sender_rtt_mute_check one whose round trip time stays too long.    *)
(* The protocol thread runs both, in this order and under peerlist_lock,   *)
(* every 250 ms.                                                           *)
(*                                                                         *)
(* A leg is a caller data peer; its number is its place in the peer list.  *)
(* One turn of the checks is one unit of time, and a stored instant is     *)
(* kept as its age in such turns, up to the largest age that is compared   *)
(* with anything.                                                          *)
(***************************************************************************)
EXTENDS Integers, FiniteSets

CONSTANTS
  NLegs,         \* legs 1 .. NLegs, in the order of the peer list
  MuteLegs,      \* the legs configured with rtt-drop
  Rtts,          \* smoothed round trip times that are measured
  Drop,          \* config.rtt_drop
  Restore,       \* config.rtt_restore, or 80% of Drop
  DropSettle,    \* config.rtt_drop_settle
  StallAfter,    \* RIST_STALL_MUTE_PINGS keepalive intervals
  InitWeights,   \* the configurations of config.weight to start from
  NewWeights,    \* what rist_peer_weight_set is called with
  MaxChanges     \* bound on removed legs and changed weights

Legs   == 1 .. NLegs
Margin == 2                   \* RIST_SOLE_CARRIER_MARGIN
RampTime == 2 * DropSettle    \* the rejoin dwell, and the ramp after it

ASSUME GuardAssumption ==
  /\ NLegs \in Nat \ {0} /\ MuteLegs \subseteq Legs
  /\ Rtts \subseteq Nat \ {0}
  /\ Drop \in Nat /\ Restore \in Nat /\ Restore < Drop
  /\ DropSettle \in Nat \ {0} /\ StallAfter \in Nat
  /\ InitWeights \subseteq [Legs -> Nat] /\ NewWeights \subseteq Nat
  /\ MaxChanges \in Nat

VARIABLES
  legs,      \* the legs in the peer list
  weight,    \* config.weight; 0 is RIST_PEER_WEIGHT_DUPLICATE
  heard,     \* last_pkt_received > 0
  silent,    \* age of last_pkt_received
  rtt,       \* eight_times_rtt / 8, 0 before the first sample
  mute,      \* rtt_mute_state: muted (here: want), pending, age of pending_since
  muted,     \* rtt_muted, what the rotation skips
  stalled,
  sole,      \* rtt_sole_carrier
  held,      \* age of rtt_sole_since
  ramp,      \* age of rtt_ramp_start, RampTime when it is over or never began
  changes

guardVars == <<legs, weight, heard, silent, rtt, mute, muted, stalled, sole,
               held, ramp, changes>>

MuteStates == [want : BOOLEAN, pending : BOOLEAN, age : 0 .. RampTime]

GuardTypeOK ==
  /\ legs \subseteq Legs /\ weight \in [Legs -> Nat]
  /\ heard \in [Legs -> BOOLEAN] /\ silent \in [Legs -> 0 .. StallAfter + 1]
  /\ rtt \in [Legs -> Rtts \cup {0}] /\ mute \in [Legs -> MuteStates]
  /\ muted \in [Legs -> BOOLEAN] /\ stalled \in [Legs -> BOOLEAN]
  /\ sole \in [Legs -> BOOLEAN] /\ held \in [Legs -> 0 .. DropSettle]
  /\ ramp \in [Legs -> 0 .. RampTime] /\ changes \in 0 .. MaxChanges

GuardInit ==
  /\ legs = Legs /\ weight \in InitWeights
  /\ heard = [l \in Legs |-> FALSE] /\ silent = [l \in Legs |-> 0]
  /\ rtt = [l \in Legs |-> 0]
  /\ mute = [l \in Legs |-> [want |-> FALSE, pending |-> FALSE, age |-> 0]]
  /\ muted = [l \in Legs |-> FALSE] /\ stalled = [l \in Legs |-> FALSE]
  /\ sole = [l \in Legs |-> FALSE] /\ held = [l \in Legs |-> 0]
  /\ ramp = [l \in Legs |-> RampTime] /\ changes = 0

\* Mutant: one past the largest age.
OlderPast(age, most) == IF age <= most THEN age + 1 ELSE most
Older(age, most) == IF age < most THEN age + 1 ELSE most

Bonded   == {l \in legs : weight[l] # 0}
Eligible == Bonded \cap MuteLegs

-----------------------------------------------------------------------------
(* rist_sender_stall_check.                                                *)

Silence(l) == Older(silent[l], StallAfter + 1)
Silent(l)  == heard[l] /\ Silence(l) > StallAfter
Live       == {l \in Bonded : ~Silent(l)}

\* With one leg, or with all of them silent, none is stalled.
StallCheck ==
  stalled' = [l \in Legs |->
                IF l \notin legs THEN stalled[l]
                ELSE Cardinality(Bonded) >= 2 /\ l \in Bonded /\ Silent(l)
                     /\ Live # {}]

-----------------------------------------------------------------------------
(* rist_sender_rtt_mute_check.                                             *)

\* Mutant: a muted leg has to be above Drop to rejoin.
MuteStepOneWay(m, r) ==
  LET age    == Older(m.age, RampTime)
      settle == IF m.want THEN 2 * DropSettle ELSE DropSettle
  IN IF r <= Drop THEN [m EXCEPT !.pending = FALSE, !.age = 0]
     ELSE IF ~m.pending THEN [m EXCEPT !.pending = TRUE, !.age = 0]
     ELSE IF age < settle THEN [m EXCEPT !.age = age]
     ELSE [want |-> ~m.want, pending |-> FALSE, age |-> 0]

\* rist_rtt_mute_step: a leg has to stay above Drop (below Restore) for the
\* whole dwell before it wants to be muted (to rejoin).
MuteStep(m, r) ==
  LET age    == Older(m.age, RampTime)
      beyond == IF m.want THEN r < Restore ELSE r > Drop
      settle == IF m.want THEN 2 * DropSettle ELSE DropSettle
  IN CASE ~beyond              -> [m EXCEPT !.pending = FALSE, !.age = 0]
       [] beyond /\ ~m.pending -> [m EXCEPT !.pending = TRUE, !.age = 0]
       [] beyond /\ m.pending /\ age < settle -> [m EXCEPT !.age = age]
       [] OTHER -> [want |-> ~m.want, pending |-> FALSE, age |-> 0]

\* Time passes for a leg whose hysteresis does not step.
MuteWait(m) == IF m.pending THEN [m EXCEPT !.age = Older(m.age, RampTime)] ELSE m

\* After the steps: who wants to be muted, and who can carry anyway.
Wants    == {l \in Eligible : mute'[l].want}
CarriersAny == Bonded \ Wants   \* mutant: a stalled leg counts as a carrier
Carriers == {l \in Bonded \ Wants : ~stalled'[l]}
Reserve  == {l \in Wants : ~stalled'[l]}

\* The reserve with the lowest round trip time, the first of several.
Best == CHOOSE l \in Reserve : \A k \in Reserve :
          rtt[l] < rtt[k] \/ (rtt[l] = rtt[k] /\ l <= k)
\* The last in the list that has the role.
Incumbents == {l \in Reserve : sole[l]}
Incumbent  == CHOOSE l \in Incumbents : \A k \in Incumbents : k <= l
\* rist_rtt_sole_carrier_handover
Handover(i, b) == /\ Older(held[i], DropSettle) >= DropSettle
                  /\ rtt[b] * Margin <= rtt[i]

\* Mutants: no leg is kept; the best leg is chosen anew in every check.
KeepNone == {}
KeepBest == IF Carriers # {} \/ Reserve = {} THEN {} ELSE {Best}
\* The leg that must go on carrying although it wants to be muted.
Keep == IF Carriers # {} \/ Reserve = {} THEN {}
        ELSE IF Incumbents = {} \/ Handover(Incumbent, Best) THEN {Best}
        ELSE {Incumbent}

MuteCheck ==
  LET rejoined(l) == l \in Eligible /\ muted[l] /\ ~muted'[l] IN
  IF Cardinality(Eligible) < 2
  THEN /\ mute' = [l \in Legs |-> MuteWait(mute[l])]
       /\ held' = [l \in Legs |-> IF sole[l] THEN Older(held[l], DropSettle) ELSE 0]
       /\ ramp' = [l \in Legs |-> Older(ramp[l], RampTime)]
       /\ UNCHANGED <<muted, sole>>
  ELSE /\ mute' = [l \in Legs |-> IF l \in Eligible /\ rtt[l] # 0
                                  THEN MuteStep(mute[l], rtt[l])
                                  ELSE MuteWait(mute[l])]
       /\ sole' = [l \in Legs |-> IF l \in Bonded THEN l \in Keep ELSE sole[l]]
       /\ held' = [l \in Legs |-> IF sole[l] /\ sole'[l]
                                  THEN Older(held[l], DropSettle) ELSE 0]
       /\ muted' = [l \in Legs |-> IF l \in Eligible THEN l \in Wants \ Keep
                                   ELSE muted[l]]
       /\ ramp' = [l \in Legs |-> IF rejoined(l) THEN 0
                                  ELSE Older(ramp[l], RampTime)]

\* One turn of the short tick in sender_pthread_protocol.
Check ==
  /\ StallCheck /\ MuteCheck
  /\ silent' = [l \in Legs |-> Silence(l)]
  /\ UNCHANGED <<legs, weight, heard, rtt, changes>>

-----------------------------------------------------------------------------
(* What else changes a leg.                                                *)

\* A packet arrives from the other end, with or without a new RTT sample.
Receive(l, r) ==
  /\ l \in legs
  /\ heard' = [heard EXCEPT ![l] = TRUE]
  /\ silent' = [silent EXCEPT ![l] = 0]
  /\ rtt' = [rtt EXCEPT ![l] = r]
  /\ UNCHANGED <<legs, weight, mute, muted, stalled, sole, held, ramp, changes>>

\* rist_peer_destroy
RemoveLeg(l) ==
  /\ l \in legs /\ changes < MaxChanges
  /\ legs' = legs \ {l} /\ changes' = changes + 1
  /\ UNCHANGED <<weight, heard, silent, rtt, mute, muted, stalled, sole, held,
                 ramp>>

\* rist_peer_weight_set
SetWeight(l, w) ==
  /\ l \in legs /\ changes < MaxChanges /\ w # weight[l]
  /\ weight' = [weight EXCEPT ![l] = w] /\ changes' = changes + 1
  /\ UNCHANGED <<legs, heard, silent, rtt, mute, muted, stalled, sole, held,
                 ramp>>

GuardNext ==
  \/ Check
  \/ \E l \in Legs : \/ \E r \in Rtts \cup {rtt[l]} : Receive(l, r)
                     \/ RemoveLeg(l)
                     \/ \E w \in NewWeights : SetWeight(l, w)

GuardSpec == GuardInit /\ [][GuardNext]_guardVars
\* The protocol thread runs its checks for ever.
GuardFairSpec == GuardSpec /\ WF_guardVars(Check)

-----------------------------------------------------------------------------
(* Properties.                                                             *)

\* "peer->rtt_muted ... is only set when pulling the leg still leaves a
\* carrier -- a bonded leg that is neither muted nor stalled."
LeavesCarrier ==
  [][\A l \in Legs : ~muted[l] /\ muted'[l] =>
       \E k \in Bonded : ~muted'[k] /\ ~stalled'[k]]_guardVars

\* The stall and the mute check run independently, but not so that together
\* they take every leg: after a check one is left that carries.
CheckKeepsCarrier ==
  [][Check /\ Cardinality(Eligible) >= 2 =>
       \E l \in Bonded : ~muted'[l] /\ ~stalled'[l]]_guardVars

\* The role of the sole carrier does not ping-pong: a leg that has it loses it
\* to another only when it no longer wants to be muted, stalls, leaves the
\* bond, when some leg carries again, or after a dwell and for a much better
\* leg.
RoleHeld ==
  [][\A l, k \in Legs : (sole[l] /\ l # k /\ ~sole[k] /\ sole'[k]) =>
       \/ ~mute'[l].want \/ stalled'[l] \/ l \notin Bonded
       \/ held[l] >= DropSettle - 1 /\ rtt[k] * Margin <= rtt[l]]_guardVars

\* A leg whose round trip time has come down for good rejoins the bond.
Restores ==
  \A l \in MuteLegs : <>[](l \in Eligible /\ Cardinality(Eligible) >= 2
                           /\ rtt[l] # 0 /\ rtt[l] < Restore)
                        => <>[](~muted[l])
=============================================================================
