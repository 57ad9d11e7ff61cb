---------------------------- MODULE BoundedFifo ----------------------------
(***************************************************************************)
(* What LockFreeSPSCQueue promises to its two threads: a queue of at most  *)
(* Room items, first in, first out.  The consumer sees the first item when *)
(* its pop begins and has it to itself until the pop ends.                 *)
(***************************************************************************)
EXTENDS Naturals, Sequences

CONSTANTS Item, Room

VARIABLES
    items,
    popping    \* the consumer is inside a pop that will succeed

Init == items = <<>> /\ popping = FALSE

Push(x) == /\ Len(items) < Room
           /\ items' = Append(items, x)
           /\ UNCHANGED popping

BeginPop == /\ ~popping /\ items # <<>>
            /\ popping' = TRUE
            /\ UNCHANGED items

EndPop == /\ popping
          /\ popping' = FALSE
          /\ items' = Tail(items)

Next == BeginPop \/ EndPop \/ \E x \in Item : Push(x)

Spec == Init /\ [][Next]_<<items, popping>>
=============================================================================
