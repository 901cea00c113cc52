---------------------------- MODULE DataOutFifo ----------------------------
(***************************************************************************)
(* What happens to a block between receiver_output and the application:    *)
(* the data-out FIFO of a flow, which the output thread fills and          *)
(* rist_receiver_data_read2 empties, the callback that may be given the    *)
(* block as well, and the reference count that decides who frees it.       *)
(*                                                                         *)
(* The output thread holds f->mutex while it writes, a reader while it     *)
(* takes a block, so each is one step.  A reader looks for a flow with     *)
(* data before it has the mutex; what it saw may be gone when it has it.   *)
(*                                                                         *)
(* A block is its number in the order of output.  rist_delete_flow, which  *)
(* frees the FIFO of a flow, is not modelled.                              *)
(***************************************************************************)
EXTENDS Integers, FiniteSets

CONSTANTS
  FifoSize,   \* fifo_queue_size, a power of two
  Readers,    \* the threads that call rist_receiver_data_read2
  MaxHeld,    \* bound: blocks a callback, or the readers, have not freed yet
  NULL

Places == 0 .. FifoSize - 1
\* Addresses of blocks, enough for all there can be at a time.
Addresses == 1 .. FifoSize + 2 * MaxHeld
Modes  == {"read", "callback", "fd"}

VARIABLES
  fifo,                   \* dataout_fifo_queue, addresses
  writeIndex, readIndex,  \* dataout_fifo_queue_write_index, _read_index
  overflow,               \* fifo_overflow
  puts,                   \* blocks that came out of the flow so far
  block,                  \* the block at an address, NULL when it is free
  refs,                   \* its ref->refcnt
  mode,                   \* receiver_data_callback, receiver_data_fd, or none
  called, taken,          \* what a callback, and the readers, have to free
  found,                  \* readers that saw data and wait for f->mutex
  got,                    \* the last block a reader took, -1 before the first
  since                   \* blocks taken since one with RIST_DATA_FLAGS_OVERFLOW

queue   == <<fifo, writeIndex, readIndex>>
memory  == <<block, refs, called, taken>>
fifoVars == <<queue, overflow, puts, memory, mode, found, got, since>>

FifoInit ==
  /\ fifo = [i \in Places |-> NULL]
  /\ writeIndex = 0 /\ readIndex = 0 /\ overflow = FALSE
  /\ puts = 0
  /\ block = [a \in Addresses |-> NULL]
  /\ refs = [a \in Addresses |-> 0]
  /\ mode \in Modes /\ called = {} /\ taken = {}
  /\ found = {} /\ got = -1 /\ since = FifoSize

\* Mutant: the difference is not masked.
CountUnmasked == writeIndex - readIndex
Count == (writeIndex - readIndex) % FifoSize
NextPlace(i) == (i + 1) % FifoSize
Full == Count + 1 = FifoSize

-----------------------------------------------------------------------------
(* receiver_output, the end of its turn.                                   *)

\* The memory a block gets; which it is makes no difference.
Unused(a) == block[a] = NULL /\ \A k \in Addresses : k < a => block[k] # NULL

\* Mutant: no rist_ref_inc for the callback.
CreateShared(a, holders) ==
  /\ block' = [block EXCEPT ![a] = IF holders = 0 THEN NULL ELSE puts]
  /\ refs'  = [refs EXCEPT ![a] = IF holders = 0 THEN 0 ELSE 1]
\* new_data_block, and free_data_block at once if nobody is to hold it.
Create(a, holders) ==
  /\ block' = [block EXCEPT ![a] = IF holders = 0 THEN NULL ELSE puts]
  /\ refs'  = [refs EXCEPT ![a] = holders]

\* What is stored: the block, or nothing when it was written to a descriptor
\* and freed.
Stored(a) == IF mode = "fd" THEN NULL ELSE a

\* The next block, which a callback frees at once, or keeps.
PutAt(a, keeps) ==
  LET kept == IF keeps THEN 1 ELSE 0
  IN /\ Unused(a)
     /\ keeps => mode = "callback" /\ Cardinality(called) < MaxHeld
     /\ puts' = puts + 1
     /\ called' = IF keeps THEN called \cup {a} ELSE called
     /\ \/ /\ Full
           /\ overflow' = TRUE
           /\ Create(a, kept)
           /\ UNCHANGED queue
        \/ /\ ~Full
           /\ overflow' = FALSE
           /\ fifo' = [fifo EXCEPT ![writeIndex] = Stored(a)]
           /\ writeIndex' = NextPlace(writeIndex)
           /\ Create(a, IF mode = "fd" THEN 0 ELSE kept + 1)
           /\ UNCHANGED readIndex
     /\ UNCHANGED <<taken, mode, found, got, since>>
Put == \E a \in Addresses, keeps \in BOOLEAN : PutAt(a, keeps)

-----------------------------------------------------------------------------
(* rist_receiver_data_read2.                                               *)

\* rist_get_longest_flow_locked finds the flow.
Look(r) ==
  /\ r \notin found /\ Count > 0
  /\ found' = found \cup {r}
  /\ UNCHANGED <<queue, overflow, puts, memory, mode, got, since>>

\* Mutant: fifo_overflow is read when there is something to report of it.
TellsLate == overflow /\ Count = 1
Tells == overflow

Take(r) ==
  LET a == fifo[readIndex] IN
  /\ r \in found /\ Cardinality(taken) < MaxHeld
  /\ Count > 0 /\ a # NULL
  /\ found' = found \ {r}
  /\ fifo' = [fifo EXCEPT ![readIndex] = NULL]
  /\ readIndex' = NextPlace(readIndex)
  /\ taken' = taken \cup {a}
  /\ got' = block[a]
  /\ since' = IF Tells THEN 0 ELSE IF since < FifoSize THEN since + 1 ELSE since
  /\ UNCHANGED <<writeIndex, overflow, puts, block, refs, called, mode>>

\* "data_block is NULL but num > 0": another reader was quicker, or the block
\* had gone to the descriptor.
TakeNothing(r) ==
  /\ r \in found
  /\ Count > 0 => fifo[readIndex] = NULL
  /\ found' = found \ {r}
  /\ readIndex' = IF Count > 0 THEN NextPlace(readIndex) ELSE readIndex
  /\ UNCHANGED <<fifo, writeIndex, overflow, puts, memory, mode, got, since>>

-----------------------------------------------------------------------------
(* free_data_block, by the application.                                    *)

Release(a) ==
  /\ refs' = [refs EXCEPT ![a] = @ - 1]
  /\ block' = [block EXCEPT ![a] = IF refs[a] = 1 THEN NULL ELSE @]
  /\ UNCHANGED <<queue, overflow, puts, mode, found, got, since>>

FreeCalled(a) ==
  a \in called /\ Release(a) /\ called' = called \ {a} /\ UNCHANGED taken
FreeTaken(a) ==
  a \in taken /\ Release(a) /\ taken' = taken \ {a} /\ UNCHANGED called

Reads(r) == Look(r) \/ Take(r) \/ TakeNothing(r)
Frees    == \E a \in Addresses : FreeCalled(a) \/ FreeTaken(a)
Application == Frees \/ \E r \in Readers : Reads(r)

-----------------------------------------------------------------------------
(* Properties.                                                             *)

InFifo(a)   == \E i \in Places : fifo[i] = a
Holds(p)    == IF p THEN 1 ELSE 0

\* A block lives exactly as long as somebody has to free it, so none is freed
\* under a holder and none is forgotten: rist_ref_inc for the callback, the
\* block freed when the FIFO is full, and free_data_block in any order.
RefsExact ==
  /\ \A i, j \in Places : fifo[i] # NULL /\ fifo[i] = fifo[j] => i = j
  /\ \A a \in Addresses :
       /\ refs[a] = Holds(InFifo(a)) + Holds(a \in called) + Holds(a \in taken)
       /\ block[a] = NULL <=> refs[a] = 0

\* What RefsExact rests on: no block lies outside of the FIFO's two indices,
\* so that none is overwritten, and none that was taken is there still.
Filled(i) == (i - readIndex) % FifoSize < Count
FifoTypes ==
  /\ fifo \in [Places -> Addresses \cup {NULL}]
  /\ writeIndex \in Places /\ readIndex \in Places /\ puts \in Nat
  /\ block \in [Addresses -> Nat \cup {NULL}] /\ refs \in [Addresses -> Nat]
  /\ called \subseteq Addresses /\ taken \subseteq Addresses
FifoInv ==
  /\ FifoTypes /\ RefsExact
  /\ \A i \in Places : fifo[i] # NULL => Filled(i) /\ fifo[i] \notin taken

\* The number of the block in front of place i: of the one read last, or of the
\* one in the place before.
Before(i) == IF i = readIndex THEN got ELSE block[fifo[(i - 1) % FifoSize]]

\* Where blocks are missing in front of one in the FIFO, the reader was told,
\* or will be, no more than FifoSize - 1 blocks before it reads that one; and
\* where they are missing behind the last, fifo_overflow is set until the next
\* block comes, for which there is no place before a reader has seen it.
OrderInv ==
  /\ got \in Int /\ since \in 0 .. FifoSize
  /\ mode = "fd" => \A i \in Places : fifo[i] = NULL
  /\ mode # "fd" =>
       /\ \A i \in Places : Filled(i) =>
            /\ fifo[i] # NULL
            /\ \/ block[fifo[i]] = Before(i) + 1
               \/ since + ((i - readIndex) % FifoSize) + 1 < FifoSize
       /\ \/ puts = Before(writeIndex) + 1
          \/ overflow /\ (Full \/ since = 0)
=============================================================================
