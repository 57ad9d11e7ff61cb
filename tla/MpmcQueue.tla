----------------------------- MODULE MpmcQueue -----------------------------
(***************************************************************************)
(* LockFreeMPMCQueue (include/core/lockfree_queue.h): a ring of atomic     *)
(* pointers.  push and pop each claim a position with fetch_add and then   *)
(* spin on the slot of that position: push until a compare-exchange finds  *)
(* it empty, pop until an exchange finds an item.  Both always return      *)
(* true; a pop of an empty queue never returns.                            *)
(*                                                                         *)
(* A call is two steps: the claim and the successful turn of the spin.     *)
(***************************************************************************)
EXTENDS Naturals, FiniteSets

CONSTANTS
    Capacity,   \* capacity_, already rounded up to a power of two
    NoItem      \* the null pointer

ASSUME QueueAssumption == Capacity \in Nat \ {0}

VARIABLES
    buffer_,    \* slot -> the item in it, or NoItem
    write_pos_,
    read_pos_,
    pushing,    \* the pushes that spin: [pos, item]
    popping,    \* the pops that spin: [pos, by]
    lapped      \* history: two pushes, or two pops, have waited for one slot

queueVars == <<buffer_, write_pos_, read_pos_, pushing, popping, lapped>>

Slots == 0 .. Capacity - 1

QueueInit ==
    /\ buffer_ = [i \in Slots |-> NoItem]
    /\ write_pos_ = 0 /\ read_pos_ = 0
    /\ pushing = {} /\ popping = {}
    /\ lapped = FALSE

\* pos & mask_
Index(pos) == pos % Capacity

PushClaim(x) ==
    /\ pushing' = pushing \cup {[pos |-> write_pos_, item |-> x]}
    /\ write_pos_' = write_pos_ + 1
    /\ lapped' = (lapped \/ \E p \in pushing : Index(p.pos) = Index(write_pos_))
    /\ UNCHANGED <<buffer_, read_pos_, popping>>

StoreSlip(p) == buffer_' = [buffer_ EXCEPT ![Index(p.pos)] = p.item]
Store(p) ==
    /\ buffer_[Index(p.pos)] = NoItem
    /\ buffer_' = [buffer_ EXCEPT ![Index(p.pos)] = p.item]

\* The compare-exchange succeeds and push returns.
PushStore(p) ==
    /\ p \in pushing
    /\ Store(p)
    /\ pushing' = pushing \ {p}
    /\ UNCHANGED <<write_pos_, read_pos_, popping, lapped>>

NextReadSlip == read_pos_ + 2
NextRead == read_pos_ + 1

PopClaim(t) ==
    /\ popping' = popping \cup {[pos |-> read_pos_, by |-> t]}
    /\ read_pos_' = NextRead
    /\ lapped' = (lapped \/ \E c \in popping : Index(c.pos) = Index(read_pos_))
    /\ UNCHANGED <<buffer_, write_pos_, pushing>>

\* The exchange finds item x and pop returns it.
PopTake(c, x) ==
    /\ c \in popping
    /\ x = buffer_[Index(c.pos)] /\ x # NoItem
    /\ buffer_' = [buffer_ EXCEPT ![Index(c.pos)] = NoItem]
    /\ popping' = popping \ {c}
    /\ UNCHANGED <<write_pos_, read_pos_, pushing, lapped>>

Stored == {buffer_[i] : i \in Slots} \ {NoItem}
=============================================================================
