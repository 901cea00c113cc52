--------------------------- MODULE OrderedDelivery ---------------------------
(***************************************************************************)
(* What a librist receiver promises the application, without a ring, a     *)
(* clock or sequence numbers: it holds some of the packets of the stream   *)
(* and always hands over the oldest it holds.  A packet the reader has     *)
(* passed is never taken any more, and a block that does not follow the    *)
(* one before it is flagged.  ReceiverFlow implements it.                  *)
(***************************************************************************)
EXTENDS Integers

CONSTANT Packets   \* natural numbers, the stream in order

VARIABLES
  held,     \* the packets that are buffered
  fresh,    \* no block since the flow (re)started
  first, last, flag,   \* the latest block and its discontinuity flag
  turn      \* changes with every block, so that no block is a stutter

block == <<first, last, flag, turn>>
vars  == <<held, fresh, block>>

Init == /\ held = {} /\ fresh = FALSE
        /\ first = -1 /\ last = -1 /\ flag = FALSE /\ turn = FALSE

Oldest(n) == n \in held /\ \A k \in held : n <= k

\* A packet is buffered while the reader has not passed it.
Take(n) == /\ n \notin held /\ (fresh \/ n > last)
           /\ held' = held \cup {n}
           /\ UNCHANGED <<fresh, block>>

\* The flow starts again with one packet; what was buffered is lost.
Restart(n) == held' = {n} /\ fresh' = TRUE /\ UNCHANGED block

\* Packets n .. m, the oldest ones, are one block.
Deliver(n, m) ==
  /\ Oldest(n) /\ n .. m \subseteq held
  /\ held' = held \ (n .. m)
  /\ first' = n /\ last' = m /\ turn' = ~turn
  /\ flag' \in BOOLEAN
  /\ ~fresh => n > last /\ (n # last + 1 => flag')
  /\ fresh' = FALSE

\* The oldest packet was held for too long.
Discard(n) == Oldest(n) /\ held' = held \ {n} /\ UNCHANGED <<fresh, block>>

Next == \E n \in Packets : \/ Take(n) \/ Restart(n) \/ Discard(n)
                           \/ \E m \in Packets : n <= m /\ Deliver(n, m)

Spec == Init /\ [][Next]_vars

=============================================================================
