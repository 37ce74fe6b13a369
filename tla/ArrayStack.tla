----------------------------- MODULE ArrayStack -----------------------------
(***************************************************************************)
(* The stack of Labs/L1: an array that doubles when it is full, and next,  *)
(* the index of its first free entry.  An action is a call; the caller     *)
(* pushes elements it has and destroys the stack when it is done.          *)
(*                                                                         *)
(* clear frees the array and keeps the pointer.  The next push writes      *)
(* through it and destroy frees it again: what follows is undefined, and   *)
(* the model stops there.                                                  *)
(***************************************************************************)
EXTENDS Integers, Sequences

CONSTANTS
  Elements,
  NoElement,                \* an entry nothing was stored in yet
  DEFAULT_STACK_CAPACITY,   \* of ADTs/arraystack.h
  Capacities,               \* what the caller asks for
  MaxCapacity               \* bound on growth

VARIABLES phase, capacity, next, theArray, cleared, held, freed, ret

vars == <<phase, capacity, next, theArray, cleared, held, freed, ret>>

Answer(status, elements, size) == [status |-> status, elements |-> elements, size |-> size]
Array(size) == [i \in 0..size - 1 |-> NoElement]

Init ==
  /\ phase = "none" /\ capacity = 0 /\ next = 0 /\ theArray = Array(0) /\ cleared = FALSE
  /\ held = Elements /\ freed = {} /\ ret = Answer(TRUE, <<>>, 0)

\* Three blocks are allocated; when one is refused the others are given back.
newStack ==
  /\ phase = "none"
  /\ \/ \E c \in Capacities :
          /\ capacity' = IF c <= 0 THEN DEFAULT_STACK_CAPACITY ELSE c
          /\ theArray' = Array(capacity')
          /\ phase' = "live" /\ ret' = Answer(TRUE, <<>>, 0)
     \/ ret' = Answer(FALSE, <<>>, 0) /\ UNCHANGED <<phase, capacity, theArray>>
  /\ UNCHANGED <<next, cleared, held, freed>>

\* A full array is doubled; realloc keeps its entries, or refuses.
Grown == [i \in 0..2 * capacity - 1 |-> IF i < capacity THEN theArray[i] ELSE NoElement]
st_push(e) ==
  /\ phase = "live" /\ e \in held
  /\ IF cleared
     THEN phase' = "undefined" /\ UNCHANGED <<capacity, next, theArray, held, ret>>
     ELSE /\ \/ /\ next < capacity \/ 2 * capacity <= MaxCapacity
                /\ capacity' = IF next < capacity THEN capacity ELSE 2 * capacity
                /\ theArray' = [IF next < capacity THEN theArray ELSE Grown EXCEPT ![next] = e]
                /\ next' = next + 1 /\ held' = held \ {e} /\ ret' = Answer(TRUE, <<>>, 0)
             \/ /\ next >= capacity
                /\ ret' = Answer(FALSE, <<>>, 0) /\ UNCHANGED <<capacity, theArray, next, held>>
          /\ UNCHANGED phase
  /\ UNCHANGED <<cleared, freed>>

(* Mutant: the entry read is the free one. *)
st_popAbove ==
  /\ phase = "live"
  /\ IF next > 0
     THEN /\ next' = next - 1
          /\ ret' = Answer(TRUE, <<theArray[next % capacity]>>, 0)
          /\ held' = held \union {theArray[next % capacity]}
     ELSE ret' = Answer(FALSE, <<>>, 0) /\ UNCHANGED <<next, held>>
  /\ UNCHANGED <<phase, capacity, theArray, cleared, freed>>
st_pop ==
  /\ phase = "live"
  /\ IF next > 0
     THEN /\ next' = next - 1
          /\ ret' = Answer(TRUE, <<theArray[next - 1]>>, 0)
          /\ held' = held \union {theArray[next - 1]}
     ELSE ret' = Answer(FALSE, <<>>, 0) /\ UNCHANGED <<next, held>>
  /\ UNCHANGED <<phase, capacity, theArray, cleared, freed>>

Looks == phase = "live" /\ UNCHANGED <<phase, capacity, next, theArray, cleared, held, freed>>
st_peek ==
  /\ Looks
  /\ ret' = IF next > 0 THEN Answer(TRUE, <<theArray[next - 1]>>, 0) ELSE Answer(FALSE, <<>>, 0)
\* size and isEmpty.
st_size == Looks /\ ret' = Answer(next = 0, <<>>, next)

\* toArray and itCreate: a copy from the top down, or none if the stack is empty or
\* an allocation is refused.
arrayDupl == [j \in 1..next |-> theArray[next - j]]
st_toArray ==
  /\ Looks
  /\ \/ next > 0 /\ ret' = Answer(TRUE, arrayDupl, next)
     \/ ret' = Answer(FALSE, <<>>, 0)

purge == freed' = freed \union {theArray[i] : i \in 0..next - 1}
st_clear ==
  /\ phase = "live"
  /\ IF cleared THEN phase' = "undefined" /\ UNCHANGED <<next, cleared, freed>>
     ELSE purge /\ next' = 0 /\ cleared' = TRUE /\ UNCHANGED phase
  /\ UNCHANGED <<capacity, theArray, held, ret>>
st_destroy ==
  /\ phase = "live"
  /\ IF cleared THEN phase' = "undefined" /\ UNCHANGED <<next, freed>>
     ELSE purge /\ next' = 0 /\ phase' = "gone"
  /\ UNCHANGED <<capacity, theArray, cleared, held, ret>>

Over == phase \in {"gone", "undefined"} /\ UNCHANGED vars

Next ==
  \/ newStack \/ (\E e \in Elements : st_push(e)) \/ st_pop
  \/ st_peek \/ st_size \/ st_toArray \/ st_clear \/ st_destroy \/ Over

Spec == Init /\ [][Next]_vars

-----------------------------------------------------------------------------

\* The array implements the stack: the elements below next, read downwards.
ES == INSTANCE ElementStack WITH stack <- arrayDupl
ImplementsStack == ES!Spec
=============================================================================
