--------------------------- MODULE ArrayStackProofs ---------------------------
(***************************************************************************)
(* The array of Labs/L1 is a stack, for any elements and any capacities    *)
(* asked for, however often it is doubled.                                 *)
(***************************************************************************)
EXTENDS ArrayStack, SequenceTheorems, TLAPS

\* What arraystack.h has to define: a positive capacity, for callers who ask for none.
Usable == DEFAULT_STACK_CAPACITY \in Nat \ {0} /\ Capacities \subseteq Int

-----------------------------------------------------------------------------
\* Entries below next hold elements, and there is room for them.
Inv ==
  /\ phase \in {"none", "live", "gone", "undefined"}
  /\ capacity \in Nat /\ next \in 0..capacity
  /\ phase = "none" => capacity = 0
  /\ phase = "live" => capacity # 0
  /\ theArray \in [0..capacity - 1 -> Elements \union {NoElement}]
  /\ \A i \in 0..next - 1 : theArray[i] \in Elements

LEMMA InitInv == Init => Inv
BY DEF Init, Inv, Array

\* The doubled array has the old entries, and a free one at next.
LEMMA GrowthKeeps ==
  ASSUME Inv, phase = "live", next = capacity
  PROVE  /\ Grown \in [0..2 * capacity - 1 -> Elements \union {NoElement}]
         /\ next \in 0..2 * capacity - 1
         /\ \A i \in 0..next - 1 : Grown[i] = theArray[i]
BY DEF Inv, Grown

\* A push writes above the entries in use.
LEMMA PushKeeps ==
  ASSUME NEW n \in Nat, NEW c \in Nat, n \in 0..c - 1, NEW a \in [0..c - 1 -> Elements \union {NoElement}],
         \A i \in 0..n - 1 : a[i] \in Elements, NEW e \in Elements
  PROVE  /\ [a EXCEPT ![n] = e] \in [0..c - 1 -> Elements \union {NoElement}]
         /\ \A i \in 0..n : [a EXCEPT ![n] = e][i] = IF i = n THEN e ELSE a[i]
         /\ \A i \in 0..n : [a EXCEPT ![n] = e][i] \in Elements
OBVIOUS

\* What a successful push leaves in the array.
LEMMA PushWrites ==
  ASSUME Inv, NEW e \in Elements, st_push(e), next' = next + 1
  PROVE  /\ Inv'
         /\ theArray'[next] = e /\ \A i \in 0..next - 1 : theArray'[i] = theArray[i]
<1>0. next \in Nat /\ next' # next
  BY DEF Inv
<1>1. phase = "live" /\ phase' = "live" /\ ~cleared
  BY <1>0, Zenon DEF st_push
<1>2. CASE next < capacity
  <2>1. /\ capacity' = capacity /\ theArray' = [theArray EXCEPT ![next] = e]
    BY <1>0, <1>1, <1>2 DEF st_push
  <2>2. next \in 0..capacity - 1 /\ capacity \in Nat
    BY <1>2 DEF Inv
  <2>3. /\ theArray' \in [0..capacity - 1 -> Elements \union {NoElement}]
        /\ \A i \in 0..next : theArray'[i] = IF i = next THEN e ELSE theArray[i]
        /\ \A i \in 0..next : theArray'[i] \in Elements
    BY <1>1, <2>1, <2>2, PushKeeps DEF Inv
  <2> QED BY <1>1, <2>1, <2>2, <2>3 DEF Inv
<1>3. CASE ~(next < capacity)
  <2>1. next = capacity
    BY <1>3 DEF Inv
  <2>2. capacity' = 2 * capacity /\ theArray' = [Grown EXCEPT ![next] = e]
    BY <1>0, <1>1, <1>3 DEF st_push
  <2>3. /\ Grown \in [0..2 * capacity - 1 -> Elements \union {NoElement}]
        /\ next \in 0..2 * capacity - 1 /\ \A i \in 0..next - 1 : Grown[i] = theArray[i]
    BY <1>1, <2>1, GrowthKeeps
  <2>4. PICK a \in [0..2 * capacity - 1 -> Elements \union {NoElement}] : a = Grown
    BY <2>3
  <2>5. PICK c \in Nat : c = 2 * capacity
    BY DEF Inv
  <2>6. /\ theArray' \in [0..c - 1 -> Elements \union {NoElement}]
        /\ \A i \in 0..next : theArray'[i] = IF i = next THEN e ELSE a[i]
        /\ \A i \in 0..next : theArray'[i] \in Elements
    BY <1>1, <2>2, <2>3, <2>4, <2>5, PushKeeps DEF Inv
  <2>7. next' \in 0..capacity' /\ capacity' \in Nat /\ capacity' # 0
    BY <1>1, <2>1, <2>2 DEF Inv
  <2> QED BY <1>1, <2>2, <2>3, <2>4, <2>5, <2>6, <2>7 DEF Inv
<1> QED BY <1>2, <1>3

LEMMA StepInv == ASSUME Usable, Inv, [Next]_vars PROVE Inv'
<1>1. CASE newStack
  <2>1. UNCHANGED next /\ next = 0 /\ phase = "none"
    BY <1>1 DEF Inv, newStack
  <2>2. CASE UNCHANGED <<phase, capacity, theArray>>
    BY <2>1, <2>2 DEF Inv
  <2>3. ASSUME NEW c \in Capacities, capacity' = (IF c <= 0 THEN DEFAULT_STACK_CAPACITY ELSE c),
               theArray' = Array(capacity'), phase' = "live"
        PROVE  Inv'
    <3>1. capacity' \in Nat \ {0}
      BY <2>3 DEF Usable
    <3> QED BY <2>1, <2>3, <3>1 DEF Inv, Array
  <2> QED BY <1>1, <2>2, <2>3 DEF newStack
<1>2. ASSUME NEW e \in Elements, st_push(e) PROVE Inv'
  <2>1. CASE next' = next + 1
    BY <1>2, <2>1, PushWrites
  <2>2. CASE next' # next + 1
    <3>1. UNCHANGED <<capacity, next, theArray>> /\ phase = "live" /\ phase' \in {"live", "undefined"}
      BY <1>2, <2>2 DEF st_push
    <3> QED BY <3>1 DEF Inv
  <2> QED BY <2>1, <2>2
<1>3. CASE st_pop
  <2>1. UNCHANGED <<phase, capacity, theArray>>
    BY <1>3 DEF st_pop
  <2>2. next' = next \/ (next > 0 /\ next' = next - 1)
    BY <1>3 DEF st_pop
  <2> QED BY <2>1, <2>2 DEF Inv
<1>4. CASE st_peek \/ st_size \/ st_toArray
  BY <1>4 DEF Inv, st_peek, st_size, st_toArray, Looks
<1>5. CASE st_clear \/ st_destroy
  BY <1>5 DEF Inv, st_clear, st_destroy
<1>6. CASE Over \/ UNCHANGED vars
  BY <1>6 DEF Inv, Over, vars
<1> QED BY <1>1, <1>2, <1>3, <1>4, <1>5, <1>6 DEF Next

-----------------------------------------------------------------------------
(* The elements, read from the top. *)

\* An array read downwards from an index.
LEMMA Downwards ==
  ASSUME NEW n \in Nat, NEW a, \A i \in 0..n - 1 : a[i] \in Elements
  PROVE  LET s == [j \in 1..n |-> a[n - j]] IN
         /\ s \in Seq(Elements)
         /\ Len(s) = n
         /\ \A j \in 1..n : s[j] = a[n - j]
<1>1. \A j \in 1..n : n - j \in 0..n - 1
  OBVIOUS
<1>2. [j \in 1..n |-> a[n - j]] \in [1..n -> Elements]
  BY <1>1
<1> QED BY <1>2

LEMMA StackFacts ==
  ASSUME Inv
  PROVE  /\ arrayDupl \in Seq(Elements) /\ Len(arrayDupl) = next /\ next \in Nat
         /\ \A j \in 1..next : arrayDupl[j] = theArray[next - j]
         /\ arrayDupl = <<>> <=> next = 0
<1>1. next \in Nat /\ \A i \in 0..next - 1 : theArray[i] \in Elements
  BY DEF Inv
<1>2. /\ arrayDupl \in Seq(Elements)
      /\ Len(arrayDupl) = next
      /\ \A j \in 1..next : arrayDupl[j] = theArray[next - j]
  BY <1>1, Downwards DEF arrayDupl
<1>3. arrayDupl = <<>> <=> Len(arrayDupl) = 0
  BY <1>2, EmptySeq
<1> QED BY <1>1, <1>2, <1>3

\* The same of the state a step leads to.
LEMMA StackFactsNext ==
  ASSUME Inv'
  PROVE  /\ arrayDupl' \in Seq(Elements) /\ Len(arrayDupl') = next'
         /\ \A j \in 1..next' : arrayDupl'[j] = theArray'[next' - j]
<1>0. capacity' \in Nat /\ next' \in 0..capacity'
  BY DEF Inv
<1>1. next' \in Nat
  BY <1>0
<1>2. \A i \in 0..next' - 1 : theArray'[i] \in Elements
  BY Zenon DEF Inv
<1>3. /\ arrayDupl' \in Seq(Elements)
      /\ Len(arrayDupl') = next'
      /\ \A j \in 1..next' : arrayDupl'[j] = theArray'[next' - j]
  BY <1>1, <1>2, Downwards DEF arrayDupl
<1> QED BY <1>3

LEMMA TopIs ==
  ASSUME Inv, next > 0
  PROVE  Head(arrayDupl) = theArray[next - 1]
<1>1. Head(arrayDupl) = arrayDupl[1] /\ 1 \in 1..next
  BY StackFacts
<1> QED BY <1>1, StackFacts

\* The freed elements are those of the stack.
LEMMA PurgeIs == ASSUME Inv PROVE ES!Within = {theArray[i] : i \in 0..next - 1}
<1>1. ES!Within = {arrayDupl[j] : j \in 1..next}
  BY StackFacts DEF ES!Within
<1>2. \A j \in 1..next : next - j \in 0..next - 1 /\ arrayDupl[j] = theArray[next - j]
  BY StackFacts
<1>3. \A i \in 0..next - 1 : next - i \in 1..next /\ next - (next - i) = i
  BY StackFacts
<1> QED BY <1>1, <1>2, <1>3

LEMMA SameStack ==
  ASSUME UNCHANGED next, \A i \in 0..next - 1 : theArray'[i] = theArray[i], Inv
  PROVE  arrayDupl' = arrayDupl
<1>1. \A j \in 1..next : theArray'[next - j] = theArray[next - j]
  BY DEF Inv
<1> QED BY <1>1 DEF arrayDupl

LEMMA PushRefines ==
  ASSUME Inv, Inv', NEW e \in Elements, st_push(e)
  PROVE  ES!Push \/ ES!Undefined
<1>1. CASE cleared
  <2>1. arrayDupl' = arrayDupl
    BY <1>1, SameStack DEF st_push
  <2> QED BY <1>1, <2>1 DEF st_push, ES!Undefined
<1>2. CASE ~cleared /\ next' = next + 1
  <2>1. theArray'[next] = e /\ \A i \in 0..next - 1 : theArray'[i] = theArray[i]
    BY <1>2, PushWrites
  <2>2. arrayDupl' = <<e>> \o arrayDupl
    <3> DEFINE t == <<e>> \o arrayDupl
    <3>1. /\ arrayDupl' \in Seq(Elements) /\ Len(arrayDupl') = next + 1
          /\ \A j \in 1..next + 1 : arrayDupl'[j] = theArray'[next + 1 - j]
      <4>1. next' = next + 1 /\ next \in Nat
        BY <1>2, StackFacts
      <4>2. /\ arrayDupl' \in Seq(Elements)
            /\ Len(arrayDupl') = next'
            /\ \A j \in 1..next' : arrayDupl'[j] = theArray'[next' - j]
        BY StackFactsNext
      <4>3. ASSUME NEW j \in 1..next + 1 PROVE arrayDupl'[j] = theArray'[next + 1 - j]
        BY <4>1, <4>2
      <4>4. Len(arrayDupl') = next + 1
        BY <4>1, <4>2
      <4> QED BY <4>2, <4>3, <4>4
    <3>2. /\ t \in Seq(Elements) /\ Len(t) = 1 + next
          /\ \A j \in 1..1 + next : t[j] = IF j <= 1 THEN <<e>>[j] ELSE arrayDupl[j - 1]
      <4>1. <<e>> \in Seq(Elements) /\ Len(<<e>>) = 1
        OBVIOUS
      <4> QED BY <4>1, StackFacts, ConcatProperties
    <3> HIDE DEF t
    <3>3. ASSUME NEW j \in 1..next + 1 PROVE arrayDupl'[j] = t[j]
      <4>1. next \in Nat
        BY StackFacts
      <4>2. CASE j = 1
        <5>1. t[j] = e /\ next + 1 - j = next
          BY <3>2, <4>1, <4>2
        <5> QED BY <2>1, <3>1, <5>1
      <4>3. CASE j # 1
        <5>1. j - 1 \in 1..next /\ next + 1 - j \in 0..next - 1 /\ next + 1 - j = next - (j - 1)
          BY <4>1, <4>3
        <5>2. t[j] = arrayDupl[j - 1]
          BY <3>2, <4>1, <4>3
        <5>3. arrayDupl[j - 1] = theArray[next - (j - 1)]
          BY <5>1, StackFacts
        <5> QED BY <2>1, <3>1, <5>1, <5>2, <5>3
      <4> QED BY <4>2, <4>3
    <3>4. Len(t) = next + 1
      BY <3>2, StackFacts
    <3>5. arrayDupl' = t
      BY <3>1, <3>2, <3>3, <3>4, SeqEqual
    <3> QED BY <3>5 DEF t
  <2>3. /\ e \in held /\ held' = held \ {e} /\ ret' = Answer(TRUE, <<>>, 0)
        /\ UNCHANGED <<phase, cleared, freed>> /\ phase = "live"
    <3>1. next' # next
      BY <1>2 DEF Inv
    <3> QED BY <1>2, <3>1 DEF st_push
  <2> QED BY <1>2, <2>2, <2>3 DEF ES!Push, ES!Answer, Answer
<1>3. CASE ~cleared /\ next' # next + 1
  <2>1. /\ UNCHANGED <<next, theArray, held, phase, cleared, freed>>
        /\ ret' = Answer(FALSE, <<>>, 0) /\ phase = "live"
    BY <1>3 DEF st_push
  <2>2. arrayDupl' = arrayDupl
    BY <2>1, SameStack
  <2> QED BY <1>3, <2>1, <2>2 DEF ES!Push, ES!Answer, Answer
<1> QED BY <1>1, <1>2, <1>3

LEMMA PopRefines == ASSUME Inv, Inv', st_pop PROVE ES!Pop
<1>1. CASE next > 0
  <2>1. arrayDupl # <<>> /\ Head(arrayDupl) = theArray[next - 1]
    BY <1>1, TopIs, StackFacts
  <2>2. next' = next - 1 /\ theArray' = theArray /\ next - 1 \in Nat
    BY <1>1 DEF st_pop, Inv
  <2>3. arrayDupl' = Tail(arrayDupl)
    <3>1. /\ arrayDupl' \in Seq(Elements) /\ Len(arrayDupl') = next - 1
          /\ \A j \in 1..next - 1 : arrayDupl'[j] = theArray[next - 1 - j]
      BY <2>2, StackFactsNext
    <3>2. /\ Tail(arrayDupl) \in Seq(Elements) /\ Len(Tail(arrayDupl)) = next - 1
          /\ \A j \in 1..next - 1 : Tail(arrayDupl)[j] = arrayDupl[j + 1]
      BY <2>1, StackFacts, HeadTailProperties
    <3>3. ASSUME NEW j \in 1..next - 1 PROVE arrayDupl'[j] = Tail(arrayDupl)[j]
      <4>1. j + 1 \in 1..next /\ next - (j + 1) = next - 1 - j
        BY <2>2, StackFacts
      <4> QED BY <3>1, <3>2, <4>1, StackFacts
    <3> QED BY <3>1, <3>2, <3>3, SeqEqual
  <2> QED BY <1>1, <2>1, <2>3 DEF st_pop, ES!Pop, ES!Answer, Answer
<1>2. CASE ~(next > 0)
  <2>1. arrayDupl = <<>>
    BY <1>2, StackFacts
  <2>2. arrayDupl' = arrayDupl
    BY <1>2, SameStack DEF st_pop
  <2> QED BY <1>2, <2>1, <2>2 DEF st_pop, ES!Pop, ES!Answer, Answer
<1> QED BY <1>1, <1>2

LEMMA LookRefines == ASSUME Inv, st_peek \/ st_size \/ st_toArray PROVE ES!Look
<1>1. phase = "live" /\ UNCHANGED <<phase, next, theArray, cleared, held, freed>>
  BY DEF st_peek, st_size, st_toArray, Looks
<1>2. arrayDupl' = arrayDupl
  BY <1>1, SameStack
<1>3. Len(arrayDupl) = next /\ (arrayDupl = <<>> <=> next = 0) /\ (next > 0 <=> next # 0)
  BY StackFacts
<1>4. CASE st_peek
  BY <1>1, <1>2, <1>3, <1>4, TopIs DEF st_peek, ES!Look, ES!Answer, Answer
<1>5. CASE st_size
  BY <1>1, <1>2, <1>3, <1>5 DEF st_size, ES!Look, ES!Answer, Answer
<1>6. CASE st_toArray
  BY <1>1, <1>2, <1>3, <1>6 DEF st_toArray, ES!Look, ES!Answer, Answer
<1> QED BY <1>4, <1>5, <1>6

LEMMA PurgeRefines == ASSUME Inv, Inv', st_clear \/ st_destroy PROVE ES!Clear \/ ES!Destroy \/ ES!Undefined
<1>1. CASE cleared
  <2>1. arrayDupl' = arrayDupl
    BY <1>1, SameStack DEF st_clear, st_destroy
  <2> QED BY <1>1, <2>1 DEF st_clear, st_destroy, ES!Undefined
<1>2. CASE ~cleared
  <2>1. next' = 0 /\ freed' = freed \union ES!Within
    BY <1>2, PurgeIs DEF st_clear, st_destroy, purge
  <2>2. arrayDupl' = <<>>
    BY <2>1 DEF arrayDupl
  <2> QED BY <1>2, <2>1, <2>2 DEF st_clear, st_destroy, ES!Clear, ES!Destroy
<1> QED BY <1>1, <1>2

LEMMA CreateRefines == ASSUME Inv, newStack PROVE ES!Create
<1>1. next = 0 /\ next' = 0
  BY DEF Inv, newStack
<1>2. arrayDupl' = arrayDupl
  BY <1>1 DEF arrayDupl
<1> QED BY <1>2 DEF newStack, ES!Create, ES!Answer, Answer

\* Whatever capacity is asked for and however often the array is doubled or memory is
\* refused, the calls of Labs/L1/ADTs/arraystack.c answer as a stack does.
THEOREM Refinement == ASSUME Usable PROVE Spec => ImplementsStack
<1>1. Spec => []Inv
  BY InitInv, StepInv, PTL DEF Spec
<1>2. Init => ES!Init
  BY DEF Init, ES!Init, ES!Answer, Answer, arrayDupl
<1>3. ASSUME Inv, Inv', [Next]_vars PROVE [ES!Next]_(ES!vars)
  <2>1. CASE Over \/ UNCHANGED vars
    <3>1. UNCHANGED vars
      BY <2>1 DEF Over
    <3>2. arrayDupl' = arrayDupl
      BY <3>1 DEF vars, arrayDupl
    <3> QED BY <3>1, <3>2 DEF vars, ES!vars
  <2> QED BY <1>3, <2>1, CreateRefines, PushRefines, PopRefines, LookRefines, PurgeRefines DEF Next, ES!Next
<1> QED BY <1>1, <1>2, <1>3, PTL DEF Spec, ImplementsStack, ES!Spec
=============================================================================
