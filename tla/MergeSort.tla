------------------------------ MODULE MergeSort ------------------------------
(***************************************************************************)
(* Projects/P0/sort.c: a merge sort of an array of pointers.  An element   *)
(* is a record; cmp compares keys.  Indexes start at 1; scratch is written *)
(* and copied back within one merge, so it is the value merge copies back. *)
(***************************************************************************)
EXTENDS Integers, Sequences

Element == [key : Int, at : Int]

cmp(x, y) == x.key - y.key

(* Mutant: of two equal elements the right one is taken first. *)
TakeStrict(x, y) == cmp(x, y) < 0
\* Whether merge takes the left of two elements.
TakesLeft(x, y) == cmp(x, y) <= 0

\* What the three loops of merge leave in scratch[i..H] when l1 and l2 are l[1] and l[2].
Scratch(a, L, M, H) ==
  LET from[l \in (L..M + 1) \X (M + 1..H + 1)] ==
        IF l[1] <= M /\ (l[2] > H \/ TakesLeft(a[l[1]], a[l[2]]))
        THEN <<a[l[1]]>> \o from[<<l[1] + 1, l[2]>>]
        ELSE IF l[2] <= H THEN <<a[l[2]]>> \o from[<<l[1], l[2] + 1>>]
        ELSE <<>>
  IN from

merge(a, L, M, H) ==
  LET scratch == Scratch(a, L, M, H)[<<L, M + 1>>]
  IN [j \in DOMAIN a |-> IF j \in L..H THEN scratch[j - L + 1] ELSE a[j]]

\* The array after a call of msort.
Call == {c \in [a : Seq(Element), low : Nat \ {0}, high : Nat] : c.high <= Len(c.a)}
msort[c \in Call] ==
  IF c.low < c.high
  THEN LET mid == (c.low + c.high) \div 2
           left == msort[[a |-> c.a, low |-> c.low, high |-> mid]]
           both == msort[[a |-> left, low |-> mid + 1, high |-> c.high]]
       IN merge(both, c.low, mid, c.high)
  ELSE c.a

sort(a) == msort[[a |-> a, low |-> 1, high |-> Len(a)]]
=============================================================================
