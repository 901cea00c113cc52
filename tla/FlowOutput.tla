---------------------------- MODULE FlowOutput -----------------------------
(***************************************************************************)
(* A receiver flow and the application that reads from it: ReceiverFlow    *)
(* whose output thread puts each block into the FIFO of DataOutFifo.       *)
(***************************************************************************)
EXTENDS ReceiverFlow

CONSTANTS FifoSize, Readers, MaxHeld   \* as in DataOutFifo

VARIABLES fifo, writeIndex, readIndex, overflow, puts, block, refs, mode, called,
          taken, found, got, since

ASSUME OutputAssumption ==
  FifoSize \in Nat \ {0} /\ MaxHeld \in Nat /\ NULL \notin Nat

Fifo == INSTANCE DataOutFifo

delivery == <<fifo, writeIndex, readIndex, overflow, puts, block, refs, mode, called,
              taken, found, got, since>>
all == <<vars, delivery>>

OutputInit == Init /\ Fifo!FifoInit

OutputNext ==
  \/ Next /\ UNCHANGED <<out, delivery>>
  \/ \E d \in Slots : Deliver(d) /\ Fifo!Put
  \/ Fifo!Application /\ UNCHANGED vars

\* As in FairSpec, and an application that goes on reading and frees what it
\* was given.
OutputSpec ==
  /\ OutputInit /\ [][OutputNext]_all
  /\ WF_vars(Tick) /\ WF_vars(Outputs) /\ WF_vars(Nack)
  /\ \A r \in Readers : WF_all(Fifo!Reads(r) /\ UNCHANGED vars)
  /\ WF_all(Fifo!Frees /\ UNCHANGED vars)

-----------------------------------------------------------------------------
(* Properties.                                                             *)

\* What the application has to free is what is alive.
BlocksFreedOnce == Fifo!RefsExact

\* The application learns of every block it misses because it was slow: the
\* next one it reads follows the one before in the order of output, or
\* RIST_DATA_FLAGS_OVERFLOW came with one of the FifoSize - 1 blocks before it.
NoSilentLoss == [][got' = got + 1 \/ since' < FifoSize]_got

\* Every block that fits into the FIFO is read, whoever else has it.
AllRead == \A i \in 0 .. FifoSize - 1 : (writeIndex = i) ~> (readIndex = i)
=============================================================================
