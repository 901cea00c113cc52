---------------------------- MODULE PeerLifecycle ----------------------------
(***************************************************************************)
(* A sender that listens (Main profile): the children that receivers get   *)
(* when they call, how they authenticate, time out, come back from another *)
(* address and are removed, and what becomes of the packets that the       *)
(* listener is given to pass on to them.                                   *)
(*                                                                         *)
(* The listener is the only leg of the sender; legs that call are in       *)
(* SenderBalance.  A packet may come from any address at any time: a       *)
(* caller can go silent, move to another address and send from the old one *)
(* again.  What EAP decides is a free choice here: EapSrp is about that.   *)
(***************************************************************************)
EXTENDS Integers, FiniteSets

CONSTANTS
  MaxPeers,     \* bound on peer_counter
  Addrs,        \* the addresses callers send from
  Callers, Owner, \* the caller behind an address, known by its cname
  None,         \* no cname yet, no peer
  Srps,         \* eap_ctx is configured or not: what Init chooses from
  Weights,      \* config.weight of the listener: what Init chooses from
  Silent,       \* checks in two times rtcp_keepalive_interval
  Timeout,      \* checks in rist_peer_liveness_timeout
  RemoveAfter,  \* checks in the 5000 ms that a dead child is kept
  Grace,        \* checks in recovery_buffer_ticks
  Wrap          \* 2^32, the range of a uint32_t

ASSUME LifecycleAssumption ==
  /\ MaxPeers \in Nat /\ Owner \in [Addrs -> Callers]
  /\ None \notin Callers \cup Nat
  /\ Srps \subseteq BOOLEAN /\ Weights \subseteq Nat
  /\ Silent \in Nat /\ Timeout \in Nat /\ RemoveAfter \in Nat /\ Grace \in Nat
  /\ Wrap \in Nat \ {0}

\* peer_counter and config.weight are uint32_t.
ASSUME WidthAssumption == MaxPeers < Wrap /\ Weights \subseteq 0 .. Wrap - 1

Ids == 1 .. MaxPeers

VARIABLES
  srp, weight,
  kids,          \* the children of the listener: the later, the higher the id
  child,         \* their records
  peerCounter,
  aliveCount,    \* child_alive_count of the listener
  totalWeight, weightCounter,
  wCount,        \* w_count of the listener
  peerList,      \* peer_lst of the sender
  oobPeer,       \* oob_current_peer
  (* history *)
  drift,         \* children removed alive, less the dead ones taken over
  left,          \* a child has been removed
  lost           \* packets lost in a row though a child was there, up to 2

counters == <<totalWeight, weightCounter, wCount, lost>>
vars == <<srp, weight, kids, child, peerCounter, aliveCount, counters,
          peerList, oobPeer, drift, left>>

\* name is receiver_name, announced send_first_connection_event; eap is what
\* eap_is_authenticated says; age is the time since last_pkt_received, deadFor
\* the time since dead_since.
Child == [addr : Addrs \cup {None}, name : Callers \cup {None},
          announced : BOOLEAN, auth : BOOLEAN, eap : BOOLEAN,
          dead : BOOLEAN, age : Nat, deadFor : Nat]
NoChild == [addr |-> None, name |-> None, announced |-> FALSE, auth |-> FALSE,
            eap |-> FALSE, dead |-> FALSE, age |-> 0, deadFor |-> 0]

Alive == {c \in kids : ~child[c].dead}

TypeOK ==
  /\ srp \in BOOLEAN /\ weight \in Nat
  /\ kids \subseteq 1 .. peerCounter /\ peerCounter \in 0 .. MaxPeers
  /\ child \in [Ids -> Child]
  /\ aliveCount \in 0 .. Wrap - 1 /\ totalWeight \in 0 .. Wrap - 1
  /\ weightCounter \in Int /\ wCount \in Nat
  /\ drift \in 0 .. Wrap - 1 /\ left \in BOOLEAN /\ lost \in 0 .. 2

\* A sender with one listener, started.
Init ==
  /\ srp \in Srps /\ weight \in Weights
  /\ kids = {} /\ child = [c \in Ids |-> NoChild] /\ peerCounter = 0
  /\ aliveCount = 0
  /\ totalWeight = 0 /\ weightCounter = 0 /\ wCount = weight
  /\ peerList = {} /\ oobPeer = None
  /\ drift = 0 /\ left = FALSE /\ lost = 0

-----------------------------------------------------------------------------
(* Helpers.                                                                *)

WrappedNever(x) == x            \* mutant: a signed counter
Wrapped(x) == x % Wrap
\* An unsigned result assigned to the int weight_counter.
Signed(x) == IF 2 * Wrapped(x) < Wrap THEN Wrapped(x) ELSE Wrapped(x) - Wrap

\* The first child in the list that is in S: a set of one, or empty.
First(S) == {c \in S : \A d \in S : c <= d}

\* _librist_peer_match_peer_addr.
Match(a) == First({c \in kids : ~child[c].dead /\ child[c].addr = a})

\* Packets other than EAPOL are looked at only then.
Open(r) == ~srp \/ r.eap

\* kill_peer: the child, and the count once the children in S were killed.
\* The mutant looks at dead after it was set.
Killed(r) == [r EXCEPT !.dead = TRUE, !.deadFor = 0]
CountLessNone(S) == aliveCount
CountLess(S) == Wrapped(aliveCount - Cardinality(S \cap Alive))

\* A child after a packet, other than EAPOL, that it does not reassociate by.
Received(r, kind) ==
  LET heard  == [r EXCEPT !.age = 0]
      rtcp   == [heard EXCEPT !.auth = TRUE]
  IN CASE kind = "keepalive" \/ kind = "oob" \/ ~Open(r) -> heard
       [] kind = "rtcp" -> rtcp
       [] kind = "sdes" -> [rtcp EXCEPT !.name = Owner[r.addr],
                                        !.announced = TRUE]

Kinds == {"keepalive", "rtcp", "sdes", "oob"}

\* rist_recv_oob_data and rist_send_common_rtcp, called for every child in S in
\* turn, keep the peer they have unless it is dead: the first that is alive stays,
\* or the last, if all are dead.
Current(S) ==
  LET last == {c \in S : \A d \in S : d <= c}
  IN IF S = {} \/ oobPeer \in Alive THEN {oobPeer}
     ELSE IF S \cap Alive # {} THEN First(S \cap Alive) ELSE last

-----------------------------------------------------------------------------
(* Packets: rist_peer_recv.                                                *)

\* A packet from an address that no living child has: a child of its own, and
\* the packet is then handled as one of that child.
NewChild(a, kind) ==
  /\ Match(a) = {} /\ peerCounter < MaxPeers
  /\ LET p == peerCounter + 1
         r == [NoChild EXCEPT !.addr = a]
     IN /\ peerCounter' = p
        /\ kids' = kids \cup {p}
        /\ child' = [child EXCEPT ![p] = Received(r, kind)]
        /\ peerList' = peerList \cup {p}
        /\ oobPeer' = IF kind = "oob" /\ Open(r) /\ oobPeer \notin Alive
                      THEN p ELSE oobPeer
  /\ aliveCount' = Wrapped(aliveCount + 1)
  /\ totalWeight' = IF kids = {} THEN Wrapped(totalWeight + weight)
                    ELSE totalWeight
  /\ UNCHANGED <<srp, weight, weightCounter, wCount, drift, left, lost>>

\* try_listener_reassociate_by_cname: p has just said who it is.  The children
\* of the same name; the first that is dead or silent, unless one is neither.
SameName(p) == {c \in kids \ {p} : child[c].name = Owner[child[p].addr]}
Gone(c) == child[c].dead \/ child[c].age > Silent
TakenOver(p) ==
  IF \A c \in SameName(p) : Gone(c) THEN First(SameName(p)) ELSE {}

Reassociates(p, kind) ==
  /\ kind = "sdes" /\ srp /\ child[p].eap /\ ~child[p].announced
  /\ TakenOver(p) # {}

Packet(a, kind) ==
  \E p \in Match(a) :
    /\ ~Reassociates(p, kind)
    /\ child' = [child EXCEPT ![p] = Received(child[p], kind)]
    /\ oobPeer' \in IF kind = "oob" /\ Open(child[p]) THEN Current({p})
                    ELSE {oobPeer}
    /\ UNCHANGED <<srp, weight, kids, peerCounter, aliveCount, counters,
                   peerList, drift, left>>

\* The candidate gets the address and lives, the new child dies (kill_peer).
\* An EAPOL START goes out, but an authenticated session stays so meanwhile.
Reassociate(a) ==
  \E p \in Match(a) : \E q \in TakenOver(p) :
    /\ Reassociates(p, "sdes")
    /\ child' = [child EXCEPT
         ![q] = [child[q] EXCEPT !.addr = a, !.dead = FALSE, !.age = 0],
         ![p] = Killed([child[p] EXCEPT !.name = Owner[a], !.auth = TRUE,
                                        !.age = 0])]
    /\ drift' = IF child[q].dead THEN Wrapped(drift - 1) ELSE drift
    /\ aliveCount' = CountLess({p})
    /\ UNCHANGED <<srp, weight, kids, peerCounter, counters, peerList, oobPeer,
                   left>>

\* eap_process_eapol grants, leaves or withdraws the session.
Eapol(a, ok) ==
  \E p \in Match(a) :
    /\ srp
    /\ child' = [child EXCEPT ![p].age = 0, ![p].eap = ok, ![p].auth = @ \/ ok]
    /\ UNCHANGED <<srp, weight, kids, peerCounter, aliveCount, counters,
                   peerList, oobPeer, drift, left>>

\* EAP_AUTH_TERMINATED: the guesses are used up, and the child dies.
EapTerminated(a) ==
  \E p \in Match(a) :
    /\ srp
    /\ child' = [child EXCEPT
         ![p] = Killed([child[p] EXCEPT !.age = 0, !.eap = FALSE])]
    /\ aliveCount' = CountLess({p})
    /\ UNCHANGED <<srp, weight, kids, peerCounter, counters, peerList, oobPeer,
                   drift, left>>

\* eap_periodic: a session that was to be renewed was not.
ReauthExpires(c) ==
  /\ c \in kids /\ child[c].eap
  /\ child' = [child EXCEPT ![c].eap = FALSE]
  /\ UNCHANGED <<srp, weight, kids, peerCounter, aliveCount, counters, peerList,
                 oobPeer, drift, left>>

-----------------------------------------------------------------------------
(* Timeouts and removal.                                                   *)

\* rist_peer_remove, of all in S.  Each takes its weight from total_weight, and
\* the last child that of the listener as well.
WeightWithout(S) ==
  Wrapped(totalWeight - weight * Cardinality(S)
            - IF S # {} /\ kids \subseteq S THEN weight ELSE 0)
OobKept(S) == oobPeer                   \* mutant: removal leaves it
OobWithout(S) == IF oobPeer \in S THEN None ELSE oobPeer

Remove(S) ==
  /\ kids' = kids \ S
  /\ peerList' = peerList \ S
  /\ oobPeer' = OobWithout(S)
  /\ totalWeight' = WeightWithout(S)
  /\ left' = (left \/ S # {})

Older(n, limit) == IF n > limit THEN n ELSE n + 1

\* rist_timeout_check, once a second; times are counted in its periods.
Expired == {c \in Alive : child[c].age >= Timeout}
\* Mutant: removal waits until the listener has no child alive.
RemovableLast == {c \in kids \ Alive : Alive = {} /\ child[c].deadFor >= RemoveAfter}
Removable == {c \in kids \ Alive : child[c].deadFor >= RemoveAfter}

Aged(r) == [r EXCEPT !.age = Older(@, Timeout),
                     !.deadFor = IF r.dead THEN Older(@, RemoveAfter) ELSE @]

TimeoutCheck ==
  /\ child' = [c \in Ids |-> IF c \in Removable \/ c \notin kids THEN NoChild
                             ELSE IF c \in Expired THEN Killed(Aged(child[c]))
                             ELSE Aged(child[c])]
  /\ aliveCount' = CountLess(Expired)
  /\ Remove(Removable)
  /\ UNCHANGED <<srp, weight, peerCounter, weightCounter, wCount, drift, lost>>

\* rist_peer_destroy, of a child the application knows from its conn_cb.
Destroy(c) ==
  /\ c \in kids
  /\ child' = [child EXCEPT ![c] = NoChild]
  /\ drift' = IF child[c].dead THEN drift ELSE Wrapped(drift + 1)
  /\ Remove({c})
  /\ UNCHANGED <<srp, weight, peerCounter, aliveCount, weightCounter, wCount,
                 lost>>

-----------------------------------------------------------------------------
(* Data: rist_sender_send_data_balanced with the listener as its only leg. *)

\* rist_peer_may_send: a dead child is still sent to for one buffer.
MaySend(r) == ~r.dead \/ r.deadFor <= Grace
Served == {c \in kids : /\ child[c].auth /\ Open(child[c])
                        /\ MaySend(child[c])}

Skipped    == aliveCount = 0
Duplicated == ~Skipped /\ weight = 0
Selected   == ~Skipped /\ wCount > 0 /\ weight > 0

AfterLeg ==
  IF Skipped
    THEN LET c == Signed(weightCounter - weight)
         IN IF c <= 0 THEN Signed(totalWeight) ELSE c
  ELSE IF Selected THEN weightCounter - 1 ELSE weightCounter

RoundOverAtZero == totalWeight > 0 /\ AfterLeg = 0   \* mutant
RoundOver == totalWeight > 0 /\ (AfterLeg = 0 \/ ~Selected)

\* A child a packet can reach, and circumstances that explain why it did not.
Reachable == {c \in Alive : child[c].auth /\ Open(child[c])}
Calm == drift = 0 /\ (weight = 0 \/ ~left)

SentTo == IF Selected \/ Duplicated THEN Served ELSE {}

SendData ==
  /\ weightCounter' = IF RoundOver THEN Signed(totalWeight) ELSE AfterLeg
  /\ wCount' = IF RoundOver \/ Skipped THEN weight
               ELSE IF Selected THEN wCount - 1 ELSE wCount
  /\ oobPeer' \in Current(SentTo)
  /\ lost' = IF Calm /\ Reachable # {} /\ SentTo = {} THEN Older(lost, 1) ELSE 0
  /\ UNCHANGED <<srp, weight, kids, child, peerCounter, aliveCount, totalWeight,
                 peerList, drift, left>>

Next ==
  \/ \E a \in Addrs : \/ \E kind \in Kinds : NewChild(a, kind) \/ Packet(a, kind)
                      \/ Reassociate(a)
                      \/ \E ok \in BOOLEAN : Eapol(a, ok)
                      \/ EapTerminated(a)
  \/ \E c \in Ids : ReauthExpires(c) \/ Destroy(c)
  \/ TimeoutCheck
  \/ SendData

Spec == Init /\ [][Next]_vars
FairSpec == Spec /\ WF_vars(TimeoutCheck)

-----------------------------------------------------------------------------
(* Properties.                                                             *)

\* child_alive_count tells how many children are alive, except for two
\* things the code does not count: a child destroyed while it was alive, and a
\* dead one that was taken over by its caller from another address.
CountExplained == aliveCount = Wrapped(Cardinality(Alive) + drift)

\* The lists of the sender and the out-of-band peer name no child that was
\* freed, and each child is served by the timer of the sender.
NoDangling ==
  /\ peerList = kids
  /\ oobPeer \in kids \cup {None}

\* While child_alive_count is right, and no child of a weighted listener has
\* been removed, no two packets in a row are lost though a child can be
\* reached.  The rotation itself may lose one at the end of a round.
Carries == lost < 2

\* A dead child does not stay: it is removed, or its caller takes it over.
Forgotten == \A c \in Ids : (c \in kids \ Alive) ~> (c \notin kids \ Alive)
=============================================================================
