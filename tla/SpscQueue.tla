----------------------------- MODULE SpscQueue -----------------------------
(***************************************************************************)
(* LockFreeSPSCQueue (include/core/lockfree_queue.h): a ring between one   *)
(* producer and one consumer.  Only the producer writes write_pos_, only   *)
(* the consumer read_pos_, and one slot stays free so that equal positions *)
(* mean an empty ring.                                                     *)
(*                                                                         *)
(* push and pop are two steps each: the check of the other side's position *)
(* with the access to the slot, and the release of the own position, from  *)
(* which the other side sees the change.                                   *)
(***************************************************************************)
EXTENDS Integers, Sequences

CONSTANTS
    Capacity,   \* capacity_, already rounded up to a power of two
    Item,       \* what the ring carries
    NoItem      \* what a new buffer holds

ASSUME SpscAssumption == Capacity \in Nat \ {0}

VARIABLES
    buffer_,
    write_pos_,
    read_pos_,
    filled,     \* the producer is between its two steps
    taken       \* the consumer is between its two steps

ringVars == <<buffer_, write_pos_, read_pos_, filled, taken>>

Slots == 0 .. Capacity - 1

RingInit ==
    /\ buffer_ = [i \in Slots |-> NoItem]
    /\ write_pos_ = 0 /\ read_pos_ = 0
    /\ filled = FALSE /\ taken = FALSE

\* pos & mask_
Masked(pos) == pos % Capacity

\* Here and below a definition named ...Slip is its neighbour with one plausible
\* mistake; no specification uses it, mutation runs do.
RingFullSlip == write_pos_ + 1 = read_pos_
RingFull == Masked(write_pos_ + 1) = read_pos_
RingEmpty == read_pos_ = write_pos_
RingSize == Masked(write_pos_ - read_pos_)

\* push, which returns false when RingFull.
PushFill(x) ==
    /\ ~filled /\ ~RingFull
    /\ buffer_' = [buffer_ EXCEPT ![write_pos_] = x]
    /\ filled' = TRUE
    /\ UNCHANGED <<write_pos_, read_pos_, taken>>

PushPublish ==
    /\ filled
    /\ write_pos_' = Masked(write_pos_ + 1)
    /\ filled' = FALSE
    /\ UNCHANGED <<buffer_, read_pos_, taken>>

\* pop, which returns false when RingEmpty; the caller keeps the item x.
PopCopy(x) ==
    /\ ~taken /\ ~RingEmpty
    /\ x = buffer_[read_pos_]
    /\ taken' = TRUE
    /\ UNCHANGED <<buffer_, write_pos_, read_pos_, filled>>

PopRelease ==
    /\ taken
    /\ read_pos_' = Masked(read_pos_ + 1)
    /\ taken' = FALSE
    /\ UNCHANGED <<buffer_, write_pos_, filled>>

RingNext == \/ \E x \in Item : PushFill(x) \/ PopCopy(x)
            \/ PushPublish \/ PopRelease

RingSpec == RingInit /\ [][RingNext]_ringVars

\* What the ring holds, oldest first: published and not yet released.
Contents == [i \in 1 .. RingSize |-> buffer_[Masked(read_pos_ + i - 1)]]
Held == {Contents[i] : i \in DOMAIN Contents}

Fifo == INSTANCE BoundedFifo WITH items <- Contents, popping <- taken, Room <- Capacity - 1

\* Type correctness of the ring.
RingTypeOK ==
    /\ buffer_ \in [Slots -> Item \cup {NoItem}]
    /\ write_pos_ \in Slots /\ read_pos_ \in Slots
    /\ filled \in BOOLEAN /\ taken \in BOOLEAN

\* lockfree_queue.h "Lock-free single-producer single-consumer queue": the ring is
\* a bounded queue, first in, first out, whatever its size and its wrap-around.
ActsAsFifo == Fifo!Spec
=============================================================================
