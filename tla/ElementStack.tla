---------------------------- MODULE ElementStack ----------------------------
(***************************************************************************)
(* What a stack of Labs/L1 promises its one caller: the last element in is *)
(* the first out, a copy lists the elements from the top, an element is    *)
(* the caller's again once popped and is freed with the stack otherwise.   *)
(*                                                                         *)
(* A cleared stack can only be looked at: to push onto it, or to destroy   *)
(* it, has no defined effect.                                              *)
(***************************************************************************)
EXTENDS Integers, Sequences

CONSTANT Elements

VARIABLES
  phase,    \* "none", "live", "gone" or "undefined"
  stack,    \* the elements, top first
  cleared,
  held,     \* elements the caller has
  freed,    \* elements the stack has freed
  ret       \* what the last call answered

vars == <<phase, stack, cleared, held, freed, ret>>

Answer(status, elements, size) == [status |-> status, elements |-> elements, size |-> size]
Within == {stack[i] : i \in 1..Len(stack)}

Init ==
  /\ phase = "none" /\ stack = <<>> /\ cleared = FALSE
  /\ held = Elements /\ freed = {} /\ ret = Answer(TRUE, <<>>, 0)

Create ==
  /\ phase = "none"
  /\ \/ phase' = "live" /\ ret' = Answer(TRUE, <<>>, 0)
     \/ phase' = "none" /\ ret' = Answer(FALSE, <<>>, 0)
  /\ UNCHANGED <<stack, cleared, held, freed>>

Push ==
  /\ phase = "live" /\ ~cleared
  /\ \/ \E e \in held :
          /\ stack' = <<e>> \o stack /\ held' = held \ {e} /\ ret' = Answer(TRUE, <<>>, 0)
     \/ ret' = Answer(FALSE, <<>>, 0) /\ UNCHANGED <<stack, held>>
  /\ UNCHANGED <<phase, cleared, freed>>

Pop ==
  /\ phase = "live"
  /\ IF stack = <<>> THEN ret' = Answer(FALSE, <<>>, 0) /\ UNCHANGED <<stack, held>>
     ELSE /\ ret' = Answer(TRUE, <<Head(stack)>>, 0)
          /\ stack' = Tail(stack) /\ held' = held \union {Head(stack)}
  /\ UNCHANGED <<phase, cleared, freed>>

Look ==
  /\ phase = "live"
  /\ \/ ret' = IF stack = <<>> THEN Answer(FALSE, <<>>, 0) ELSE Answer(TRUE, <<Head(stack)>>, 0)
     \/ ret' = Answer(stack = <<>>, <<>>, Len(stack))
     \/ ret' = Answer(TRUE, stack, Len(stack)) /\ stack # <<>>
     \/ ret' = Answer(FALSE, <<>>, 0)
  /\ UNCHANGED <<phase, stack, cleared, held, freed>>

Clear ==
  /\ phase = "live" /\ ~cleared
  /\ stack' = <<>> /\ freed' = freed \union Within /\ cleared' = TRUE
  /\ UNCHANGED <<phase, held, ret>>

Destroy ==
  /\ phase = "live" /\ ~cleared
  /\ phase' = "gone" /\ stack' = <<>> /\ freed' = freed \union Within
  /\ UNCHANGED <<cleared, held, ret>>

Undefined ==
  /\ phase = "live" /\ cleared /\ phase' = "undefined"
  /\ UNCHANGED <<stack, cleared, held, freed, ret>>

Next == Create \/ Push \/ Pop \/ Look \/ Clear \/ Destroy \/ Undefined

Spec == Init /\ [][Next]_vars
=============================================================================
