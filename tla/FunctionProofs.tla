--------------------------- MODULE FunctionProofs ---------------------------
(***************************************************************************)
(* What the functions of the repository compute, for every input: the      *)
(* merge sort sorts any array stably (sort.c), the text of any integer but *)
(* the most negative reads back as that integer, p1getword cuts any line   *)
(* into its words (p1fxns.c), and numbers are shortened by threes          *)
(* (uspsv4.c of directory v4).                                             *)
(*                                                                         *)
(* Induction is over sets: a set of naturals that has n whenever it has    *)
(* all below n has every natural, because the others would have a least.   *)
(***************************************************************************)
EXTENDS FunctionCalls, WellFoundedInduction, SequenceTheorems, FiniteSetTheorems, TLAPS

-----------------------------------------------------------------------------
(* Induction over the naturals, from their least elements, and recursive       *)
(* definitions that end.                                                       *)

\* Every nonempty set of naturals has a least element.
LEMMA LeastElement ==
  ASSUME NEW S \in SUBSET Nat, S # {}
  PROVE  \E n \in S : \A m \in S : n <= m
<1>1. IsWellFoundedOn(OpToRel(<, Nat), Nat)
  BY NatLessThanWellFounded
<1>2. PICK n \in S : \A m \in S : ~(<<m, n>> \in OpToRel(<, Nat))
  BY <1>1, WFMin
<1>3. ASSUME NEW m \in S PROVE n <= m
  <2>1. <<m, n>> \notin OpToRel(<, Nat)
    BY <1>2
  <2>2. <<m, n>> \in OpToRel(<, Nat) <=> m < n
    BY DEF OpToRel
  <2>3. ~(m < n)
    BY <2>1, <2>2, Zenon
  <2>4. m \in Nat /\ n \in Nat
    OBVIOUS
  <2> QED BY <2>3, <2>4
<1> QED BY <1>3

\* Induction, over the naturals that are in X.
LEMMA Induction ==
  ASSUME NEW X, \A n \in Nat : (\A m \in 0..n - 1 : m \in X) => n \in X
  PROVE  Nat \subseteq X
<1> SUFFICES ASSUME Nat \ X # {} PROVE FALSE
  OBVIOUS
<1>1. PICK n \in Nat \ X : \A m \in Nat \ X : n <= m
  BY LeastElement
<1>2. ASSUME NEW m \in 0..n - 1 PROVE m \in X
  BY <1>1
<1> QED BY <1>1, <1>2

\* Induction over the members of D, by a size that every member has.
LEMMA SizeInduction ==
  ASSUME NEW D, NEW size \in [D -> Nat], NEW X,
         \A c \in D : (\A d \in D : size[d] < size[c] => d \in X) => c \in X
  PROVE  D \subseteq X
<1> DEFINE Y == {n \in Nat : \A c \in D : size[c] = n => c \in X}
<1>1. ASSUME NEW n \in Nat, \A m \in 0..n - 1 : m \in Y PROVE n \in Y
  <2> SUFFICES ASSUME NEW c \in D, size[c] = n PROVE c \in X
    OBVIOUS
  <2>1. ASSUME NEW d \in D, size[d] < size[c] PROVE d \in X
    <3>1. size[d] \in 0..n - 1
      BY <2>1
    <3> QED BY <3>1, <1>1
  <2> QED BY <2>1
<1>2. Nat \subseteq Y
  BY <1>1, Induction
<1> QED BY <1>2

\* The functions on D whose value at c is in T[c].
Selections(D, U, T) == {f \in [D -> U] : \A c \in D : f[c] \in T[c]}

\* E turns a function in F into one in F, of which the value at c depends only on the
\* values that the former has at smaller arguments: a recursion that ends.
Shrinks(D, F, size, E) ==
  /\ size \in [D -> Nat]
  /\ E \in [F -> F]
  /\ \A f, g \in F, c \in D : (\A d \in D : size[d] < size[c] => f[d] = g[d]) => E[f][c] = E[g][c]

\* A recursive definition that ends defines a function.
LEMMA Recursion ==
  ASSUME NEW D, NEW U, NEW T, T \in [D -> SUBSET U], \A c \in D : T[c] # {},
         NEW size, NEW E, Shrinks(D, Selections(D, U, T), size, E)
  PROVE  \E f \in Selections(D, U, T) : f = E[f]
<1> DEFINE F == Selections(D, U, T)
           Good(n, f) == \A c \in D : size[c] < n => f[c] = E[f][c]
<1>s. size \in [D -> Nat]
  BY DEF Shrinks
<1>f. ASSUME NEW f \in F PROVE /\ f \in [D -> U] /\ \A c \in D : f[c] \in T[c]
                               /\ E[f] \in F
  BY <1>f DEF Selections, Shrinks
<1>e. ASSUME NEW f \in F, NEW g \in F, NEW c \in D, \A d \in D : size[d] < size[c] => f[d] = g[d]
      PROVE  E[f][c] = E[g][c]
  BY <1>e DEF Shrinks
<1>m. ASSUME NEW f \in [D -> U], \A c \in D : f[c] \in T[c] PROVE f \in F
  BY <1>m DEF Selections
<1> HIDE DEF F
<1>1. \A n \in Nat, f \in F, g \in F : Good(n, f) /\ Good(n, g) => \A c \in D : size[c] < n => f[c] = g[c]
  <2> SUFFICES ASSUME NEW n \in Nat, NEW f \in F, NEW g \in F, Good(n, f), Good(n, g)
               PROVE  \A c \in D : size[c] < n => f[c] = g[c]
    OBVIOUS
  <2> DEFINE X == {k \in Nat : k < n => \A c \in D : size[c] = k => f[c] = g[c]}
  <2>1. ASSUME NEW k \in Nat, \A m \in 0..k - 1 : m \in X PROVE k \in X
    <3> SUFFICES ASSUME k < n, NEW c \in D, size[c] = k PROVE f[c] = g[c]
      OBVIOUS
    <3>1. ASSUME NEW d \in D, size[d] < size[c] PROVE f[d] = g[d]
      <4>1. size[d] \in 0..k - 1 /\ size[d] < n
        BY <3>1, <1>s
      <4> QED BY <4>1, <2>1
    <3>2. E[f][c] = E[g][c]
      BY <3>1, <1>e
    <3> QED BY <3>2
  <2>2. Nat \subseteq X
    BY <2>1, <1>s, Induction
  <2> QED BY <2>2, <1>s
<1>2. \A n \in Nat : \E f \in F : Good(n, f)
  <2> DEFINE X == {n \in Nat : \E f \in F : Good(n, f)}
  <2>1. ASSUME NEW n \in Nat, \A m \in 0..n - 1 : m \in X PROVE n \in X
    <3>1. CASE n = 0
      <4> DEFINE f == [c \in D |-> CHOOSE u : u \in T[c]]
      <4>1. f \in F
        <5>1. \A c \in D : f[c] \in T[c] /\ f[c] \in U
          OBVIOUS
        <5> QED BY <5>1, <1>m
      <4>2. Good(n, f)
        BY <3>1, <1>s
      <4> QED BY <4>1, <4>2
    <3>2. CASE n # 0
      <4>1. n - 1 \in X
        BY <2>1, <3>2
      <4>2. PICK f \in F : Good(n - 1, f)
        BY <4>1
      <4> DEFINE g == E[f]
      <4>3. g \in F
        BY <1>f
      <4>4. ASSUME NEW c \in D, size[c] < n PROVE g[c] = E[g][c]
        <5>1. ASSUME NEW d \in D, size[d] < size[c] PROVE f[d] = g[d]
          BY <5>1, <4>4, <4>2, <1>s
        <5> QED BY <5>1, <1>e, <4>3
      <4> QED BY <4>3, <4>4
    <3> QED BY <3>1, <3>2
  <2>2. Nat \subseteq X
    BY <2>1, <1>s, Induction
  <2> QED BY <2>2, <1>s
<1> DEFINE G(n) == CHOOSE f \in F : Good(n, f)
<1>3. \A n \in Nat : G(n) \in F /\ Good(n, G(n))
  BY <1>2
<1> DEFINE f == [c \in D |-> G(size[c] + 1)[c]]
<1>4. f \in F
  <2>1. \A c \in D : f[c] \in T[c] /\ f[c] \in U
    BY <1>3, <1>f, <1>s
  <2> QED BY <2>1, <1>m
<1> HIDE DEF G, Good
<1>5. ASSUME NEW n \in Nat, NEW c \in D, size[c] < n PROVE f[c] = G(n)[c]
  <2>1. Good(size[c] + 1, G(n))
    BY <1>5, <1>3, <1>s DEF Good
  <2> QED BY <2>1, <1>1, <1>3, <1>s
<1>6. ASSUME NEW c \in D PROVE f[c] = E[f][c]
  <2> DEFINE n == size[c] + 1
  <2>1. f[c] = G(n)[c] /\ G(n)[c] = E[G(n)][c]
    BY <1>3, <1>s DEF Good
  <2>2. ASSUME NEW d \in D, size[d] < size[c] PROVE f[d] = G(n)[d]
    BY <1>5, <2>2, <1>s
  <2>3. E[f][c] = E[G(n)][c]
    BY <2>2, <1>e, <1>4, <1>3, <1>s
  <2> QED BY <2>1, <2>3
<1> HIDE DEF f
<1>7. f = E[f]
  BY <1>4, <1>f, <1>6
<1> QED BY <1>4, <1>7 DEF F

\* E has a fixpoint.
Defines(D, U, E) == \E f \in [D -> U] : f = E[f]

\* The same for a function whose values are all in one set.
LEMMA SimpleRecursion ==
  ASSUME NEW D, NEW U, U # {}, NEW size, NEW E, Shrinks(D, [D -> U], size, E)
  PROVE  Defines(D, U, E)
<1> DEFINE T == [c \in D |-> U]
<1>1. T \in [D -> SUBSET U] /\ \A c \in D : T[c] # {}
  OBVIOUS
<1>2. Selections(D, U, T) = [D -> U]
  BY DEF Selections
<1> HIDE DEF T
<1>3. Shrinks(D, Selections(D, U, T), size, E)
  BY <1>2
<1>4. \E f \in Selections(D, U, T) : f = E[f]
  BY <1>1, <1>3, Recursion
<1> QED BY <1>2, <1>4 DEF Defines

-----------------------------------------------------------------------------
(* The merge sort. *)

\* Where merge is called: L..M and M + 1..H are stretches of a, next to each other.
MergeCall(a, L, M, H) ==
  /\ a \in Seq(Element) /\ L \in Nat \ {0} /\ M \in Nat /\ H \in Nat
  /\ L <= M /\ M < H /\ H <= Len(a)

Places(L, M, H) == (L..M + 1) \X (M + 1..H + 1)

\* The body of Scratch, for any function in its own place.
ScratchBody(f, a, L, M, H) ==
  [l \in Places(L, M, H) |->
     IF l[1] <= M /\ (l[2] > H \/ TakesLeft(a[l[1]], a[l[2]]))
     THEN <<a[l[1]]>> \o f[<<l[1] + 1, l[2]>>]
     ELSE IF l[2] <= H THEN <<a[l[2]]>> \o f[<<l[1], l[2] + 1>>]
     ELSE <<>>]

\* A function as merge fills scratch exists: each step uses up an element.
LEMMA ScratchExists ==
  ASSUME NEW a, NEW L, NEW M, NEW H, MergeCall(a, L, M, H)
  PROVE  \E f \in [Places(L, M, H) -> Seq(Element)] : f = ScratchBody(f, a, L, M, H)
<1> DEFINE D == Places(L, M, H)
           U == Seq(Element)
           size == [l \in D |-> (M + 1 - l[1]) + (H + 1 - l[2])]
           E == [f \in [D -> U] |-> ScratchBody(f, a, L, M, H)]
<1>0. /\ a \in Seq(Element) /\ L \in Nat /\ M \in Nat /\ H \in Nat /\ L >= 1
      /\ L <= M /\ M < H /\ H <= Len(a)
  BY DEF MergeCall
<1>1. U # {}
  <2>1. <<>> \in U
    OBVIOUS
  <2> QED BY <2>1
<1>2. size \in [D -> Nat]
  BY <1>0 DEF Places
<1>3. ASSUME NEW f \in [D -> U] PROVE ScratchBody(f, a, L, M, H) \in [D -> U]
  <2>1. ASSUME NEW l \in D PROVE ScratchBody(f, a, L, M, H)[l] \in U
    <3>1. /\ l[1] \in L..M + 1 /\ l[2] \in M + 1..H + 1
      BY DEF Places
    <3>2. ASSUME l[1] <= M
          PROVE  /\ a[l[1]] \in Element
                 /\ <<l[1] + 1, l[2]>> \in D
      BY <1>0, <3>1, <3>2 DEF Places
    <3>3. ASSUME l[2] <= H
          PROVE  /\ a[l[2]] \in Element
                 /\ <<l[1], l[2] + 1>> \in D
      BY <1>0, <3>1, <3>3 DEF Places
    <3> HIDE DEF D
    <3>4. ASSUME l[1] <= M PROVE <<a[l[1]]>> \o f[<<l[1] + 1, l[2]>>] \in U
      BY <3>2, <3>4
    <3>5. ASSUME l[2] <= H PROVE <<a[l[2]]>> \o f[<<l[1], l[2] + 1>>] \in U
      BY <3>3, <3>5
    <3> QED BY <3>4, <3>5 DEF ScratchBody, D
  <2> QED BY <2>1 DEF ScratchBody
<1>4. E \in [[D -> U] -> [D -> U]]
  BY <1>3
<1>5. ASSUME NEW f \in [D -> U], NEW g \in [D -> U], NEW c \in D,
             \A d \in D : size[d] < size[c] => f[d] = g[d]
      PROVE  E[f][c] = E[g][c]
  <2>1. c[1] \in L..M + 1 /\ c[2] \in M + 1..H + 1
    BY DEF Places
  <2>2. ASSUME c[1] <= M PROVE f[<<c[1] + 1, c[2]>>] = g[<<c[1] + 1, c[2]>>]
    <3>1. <<c[1] + 1, c[2]>> \in D /\ size[<<c[1] + 1, c[2]>>] < size[c]
      BY <1>0, <2>1, <2>2 DEF Places
    <3> QED BY <3>1, <1>5
  <2>3. ASSUME c[2] <= H PROVE f[<<c[1], c[2] + 1>>] = g[<<c[1], c[2] + 1>>]
    <3>1. <<c[1], c[2] + 1>> \in D /\ size[<<c[1], c[2] + 1>>] < size[c]
      BY <1>0, <2>1, <2>3 DEF Places
    <3> QED BY <3>1, <1>5
  <2> QED BY <2>2, <2>3 DEF ScratchBody
<1> HIDE DEF D, U, size, E
<1>6. Shrinks(D, [D -> U], size, E)
  BY <1>2, <1>4, <1>5 DEF Shrinks
<1>7. Defines(D, U, E)
  BY <1>1, <1>6, SimpleRecursion
<1> QED BY <1>7 DEF Defines, E, D, U

\* Scratch is that function.
LEMMA ScratchDef ==
  ASSUME NEW a, NEW L, NEW M, NEW H, MergeCall(a, L, M, H)
  PROVE  Scratch(a, L, M, H) = ScratchBody(Scratch(a, L, M, H), a, L, M, H)
<1>1. PICK f \in [Places(L, M, H) -> Seq(Element)] : f = ScratchBody(f, a, L, M, H)
  BY ScratchExists
<1> QED BY <1>1 DEF Scratch, ScratchBody, Places

\* Strictly before, in the order the sort is to give: equal keys by their position.
Before(x, y) ==
  \/ x.key < y.key
  \/ x.key = y.key /\ x.at < y.at
Ordered(a, low, high) == \A j, l \in low..high : j < l => Before(a[j], a[l])
Stretch(a, low, high) == {a[j] : j \in low..high}

\* Before is a strict order.
LEMMA BeforeTransitive ==
  ASSUME NEW x \in Element, NEW y \in Element, NEW z \in Element, Before(x, y), Before(y, z)
  PROVE  Before(x, z)
BY DEF Before, Element

\* The order of merge is this one, if of equal keys the left has the smaller position.
LEMMA TakesLeftBefore ==
  ASSUME NEW x \in Element, NEW y \in Element
  PROVE  /\ TakesLeft(x, y) /\ x.at < y.at => Before(x, y)
         /\ ~TakesLeft(x, y) => Before(y, x)
<1>1. /\ x.key \in Int /\ y.key \in Int
      /\ x.at \in Int /\ y.at \in Int
  BY DEF Element
<1> QED BY <1>1 DEF TakesLeft, cmp, Before

\* What an element in front of a sequence does to it.
LEMMA PutInFront ==
  ASSUME NEW S, NEW x \in S, NEW t \in Seq(S)
  PROVE  /\ <<x>> \o t \in Seq(S) /\ Len(<<x>> \o t) = Len(t) + 1
         /\ (<<x>> \o t)[1] = x
         /\ \A j \in 1..Len(t) : (<<x>> \o t)[j + 1] = t[j]
         /\ \A j \in 2..Len(t) + 1 : (<<x>> \o t)[j] = t[j - 1]
OBVIOUS

\* An element before all of an ordered sequence is put in front of it.
LEMMA ConsOrdered ==
  ASSUME NEW x \in Element, NEW t \in Seq(Element), Ordered(t, 1, Len(t)),
         \A y \in Stretch(t, 1, Len(t)) : Before(x, y)
  PROVE  /\ Ordered(<<x>> \o t, 1, Len(<<x>> \o t))
         /\ Stretch(<<x>> \o t, 1, Len(<<x>> \o t)) = {x} \union Stretch(t, 1, Len(t))
<1> DEFINE s == <<x>> \o t
<1>1. /\ s \in Seq(Element) /\ Len(s) = Len(t) + 1 /\ s[1] = x /\ Len(t) \in Nat
      /\ \A j \in 1..Len(t) : s[j + 1] = t[j]
      /\ \A j \in 2..Len(t) + 1 : s[j] = t[j - 1]
  OBVIOUS
<1> HIDE DEF s
<1>2. ASSUME NEW j \in 1..Len(s), NEW l \in 1..Len(s), j < l PROVE Before(s[j], s[l])
  <2>1. l \in 2..Len(t) + 1 /\ s[l] = t[l - 1] /\ l - 1 \in 1..Len(t)
    BY <1>1, <1>2
  <2>2. CASE j = 1
    BY <2>1, <2>2, <1>1 DEF Stretch
  <2>3. CASE j # 1
    <3>1. j \in 2..Len(t) + 1 /\ s[j] = t[j - 1] /\ j - 1 \in 1..Len(t) /\ j - 1 < l - 1
      BY <1>1, <1>2, <2>3
    <3> QED BY <2>1, <3>1 DEF Ordered
  <2> QED BY <2>2, <2>3
<1>3. Stretch(s, 1, Len(s)) = {x} \union Stretch(t, 1, Len(t))
  <2>1. ASSUME NEW j \in 1..Len(s) PROVE s[j] \in {x} \union Stretch(t, 1, Len(t))
    <3>1. CASE j = 1
      BY <3>1, <1>1
    <3>2. CASE j # 1
      <4>1. s[j] = t[j - 1] /\ j - 1 \in 1..Len(t)
        BY <3>2, <1>1
      <4> QED BY <4>1 DEF Stretch
    <3> QED BY <3>1, <3>2
  <2>2. ASSUME NEW j \in 1..Len(t) PROVE t[j] \in Stretch(s, 1, Len(s))
    <3>1. s[j + 1] = t[j] /\ j + 1 \in 1..Len(s)
      BY <1>1
    <3> QED BY <3>1 DEF Stretch
  <2>3. x \in Stretch(s, 1, Len(s))
    BY <1>1 DEF Stretch
  <2> QED BY <2>1, <2>2, <2>3 DEF Stretch
<1> QED BY <1>2, <1>3 DEF s, Ordered

\* Two ordered stretches, the left one with the smaller positions.
Mergeable(a, L, M, H) ==
  /\ MergeCall(a, L, M, H)
  /\ Ordered(a, L, M) /\ Ordered(a, M + 1, H)
  /\ \A j \in L..M, l \in M + 1..H : a[j].at < a[l].at

\* What merge leaves in scratch when it has come to l[1] and l[2].
Rest(a, M, H, l) == Stretch(a, l[1], M) \union Stretch(a, l[2], H)
Merged(s, a, M, H, l) ==
  /\ s \in Seq(Element)
  /\ Len(s) = (M + 1 - l[1]) + (H + 1 - l[2])
  /\ Ordered(s, 1, Len(s))
  /\ Stretch(s, 1, Len(s)) = Rest(a, M, H, l)

\* One turn of the loops.
LEMMA MergeStep ==
  ASSUME NEW a, NEW L, NEW M, NEW H, Mergeable(a, L, M, H),
         NEW l1 \in L..M + 1, NEW l2 \in M + 1..H + 1, NEW t, NEW s
  PROVE  /\ l1 <= M /\ (l2 > H \/ TakesLeft(a[l1], a[l2])) /\ s = <<a[l1]>> \o t
              /\ Merged(t, a, M, H, <<l1 + 1, l2>>) => Merged(s, a, M, H, <<l1, l2>>)
         /\ ~(l1 <= M /\ (l2 > H \/ TakesLeft(a[l1], a[l2]))) /\ l2 <= H /\ s = <<a[l2]>> \o t
              /\ Merged(t, a, M, H, <<l1, l2 + 1>>) => Merged(s, a, M, H, <<l1, l2>>)
<1>0. /\ a \in Seq(Element) /\ L \in Nat /\ M \in Nat /\ H \in Nat /\ L >= 1
      /\ L <= M /\ M < H /\ H <= Len(a) /\ Len(a) \in Nat
  BY DEF Mergeable, MergeCall
<1>e. \A j \in L..H : a[j] \in Element
  BY <1>0
<1>o. /\ \A j, l \in L..M : j < l => Before(a[j], a[l])
      /\ \A j, l \in M + 1..H : j < l => Before(a[j], a[l])
      /\ \A j \in L..M, l \in M + 1..H : a[j].at < a[l].at
  BY DEF Mergeable, Ordered
<1>1. ASSUME l1 <= M, l2 > H \/ TakesLeft(a[l1], a[l2]), s = <<a[l1]>> \o t,
             Merged(t, a, M, H, <<l1 + 1, l2>>)
      PROVE  Merged(s, a, M, H, <<l1, l2>>)
  <2> DEFINE x == a[l1]
  <2>0. x \in Element /\ l1 \in L..M
    BY <1>0, <1>1, <1>e
  <2>1. /\ t \in Seq(Element) /\ Len(t) = (M + 1 - (l1 + 1)) + (H + 1 - l2)
        /\ Ordered(t, 1, Len(t))
        /\ Stretch(t, 1, Len(t)) = Stretch(a, l1 + 1, M) \union Stretch(a, l2, H)
    BY <1>1 DEF Merged, Rest
  <2>2. ASSUME NEW j \in l1 + 1..M PROVE Before(x, a[j])
    BY <1>0, <2>0, <1>o
  <2>3. ASSUME NEW j \in l2..H PROVE Before(x, a[j])
    <3>1. l2 \in M + 1..H /\ j \in M + 1..H /\ TakesLeft(x, a[l2])
      BY <1>0, <2>3, <1>1
    <3>2. a[l2] \in Element /\ a[j] \in Element /\ x.at < a[l2].at
      BY <1>0, <3>1, <1>e, <1>o, <2>0
    <3>3. Before(x, a[l2])
      BY <2>0, <3>1, <3>2, TakesLeftBefore
    <3>4. l2 = j \/ l2 < j
      BY <1>0, <2>3
    <3>5. CASE l2 = j
      BY <3>3, <3>5
    <3>6. CASE l2 < j
      <4>1. Before(a[l2], a[j])
        BY <3>6, <3>1, <1>o
      <4> QED BY <4>1, <3>3, <3>2, <2>0, BeforeTransitive
    <3> QED BY <3>4, <3>5, <3>6
  <2>4. Stretch(a, l1, M) = {x} \union Stretch(a, l1 + 1, M)
    BY <1>0, <2>0 DEF Stretch
  <2> HIDE DEF x
  <2>5. \A y \in Stretch(t, 1, Len(t)) : Before(x, y)
    BY <2>1, <2>2, <2>3 DEF Stretch
  <2>6. /\ Ordered(s, 1, Len(s))
        /\ Stretch(s, 1, Len(s)) = {x} \union Stretch(t, 1, Len(t))
    BY <2>0, <2>1, <2>5, <1>1, ConsOrdered DEF x
  <2>7. s \in Seq(Element) /\ Len(s) = Len(t) + 1
    BY <2>0, <2>1, <1>1 DEF x
  <2>8. Len(s) = (M + 1 - l1) + (H + 1 - l2)
    BY <2>7, <2>1, <1>0
  <2>9. Stretch(s, 1, Len(s)) = Stretch(a, l1, M) \union Stretch(a, l2, H)
    BY <2>6, <2>1, <2>4
  <2> QED BY <2>6, <2>7, <2>8, <2>9 DEF Merged, Rest
<1>2. ASSUME ~(l1 <= M /\ (l2 > H \/ TakesLeft(a[l1], a[l2]))), l2 <= H, s = <<a[l2]>> \o t,
             Merged(t, a, M, H, <<l1, l2 + 1>>)
      PROVE  Merged(s, a, M, H, <<l1, l2>>)
  <2> DEFINE x == a[l2]
  <2>0. x \in Element /\ l2 \in M + 1..H
    BY <1>0, <1>2, <1>e
  <2>1. /\ t \in Seq(Element) /\ Len(t) = (M + 1 - l1) + (H + 1 - (l2 + 1))
        /\ Ordered(t, 1, Len(t))
        /\ Stretch(t, 1, Len(t)) = Stretch(a, l1, M) \union Stretch(a, l2 + 1, H)
    BY <1>2 DEF Merged, Rest
  <2>2. ASSUME NEW j \in l2 + 1..H PROVE Before(x, a[j])
    BY <1>0, <2>0, <1>o
  <2>3. ASSUME NEW j \in l1..M PROVE Before(x, a[j])
    <3>1. l1 \in L..M /\ j \in L..M /\ ~TakesLeft(a[l1], x)
      BY <1>0, <2>3, <1>2
    <3>2. a[l1] \in Element /\ a[j] \in Element
      BY <1>0, <3>1, <1>e
    <3>3. Before(x, a[l1])
      BY <2>0, <3>1, <3>2, TakesLeftBefore
    <3>4. l1 = j \/ l1 < j
      BY <1>0, <2>3
    <3>5. CASE l1 = j
      BY <3>3, <3>5
    <3>6. CASE l1 < j
      <4>1. Before(a[l1], a[j])
        BY <3>6, <3>1, <1>o
      <4> QED BY <4>1, <3>3, <3>2, <2>0, BeforeTransitive
    <3> QED BY <3>4, <3>5, <3>6
  <2>4. Stretch(a, l2, H) = {x} \union Stretch(a, l2 + 1, H)
    BY <1>0, <2>0 DEF Stretch
  <2> HIDE DEF x
  <2>5. \A y \in Stretch(t, 1, Len(t)) : Before(x, y)
    BY <2>1, <2>2, <2>3 DEF Stretch
  <2>6. /\ Ordered(s, 1, Len(s))
        /\ Stretch(s, 1, Len(s)) = {x} \union Stretch(t, 1, Len(t))
    BY <2>0, <2>1, <2>5, <1>2, ConsOrdered DEF x
  <2>7. s \in Seq(Element) /\ Len(s) = Len(t) + 1
    BY <2>0, <2>1, <1>2 DEF x
  <2>8. Len(s) = (M + 1 - l1) + (H + 1 - l2)
    BY <2>7, <2>1, <1>0
  <2>9. Stretch(s, 1, Len(s)) = Stretch(a, l1, M) \union Stretch(a, l2, H)
    BY <2>6, <2>1, <2>4
  <2> QED BY <2>6, <2>7, <2>8, <2>9 DEF Merged, Rest
<1> QED BY <1>1, <1>2

\* The loops merge the two stretches, from every pair of positions on.
LEMMA ScratchMerges ==
  ASSUME NEW a, NEW L, NEW M, NEW H, Mergeable(a, L, M, H)
  PROVE  \A l \in Places(L, M, H) : Merged(Scratch(a, L, M, H)[l], a, M, H, l)
<1> DEFINE D == Places(L, M, H)
           S == Scratch(a, L, M, H)
           size == [l \in D |-> (M + 1 - l[1]) + (H + 1 - l[2])]
           X == {l \in D : Merged(S[l], a, M, H, l)}
<1>0. /\ a \in Seq(Element) /\ L \in Nat /\ M \in Nat /\ H \in Nat /\ L >= 1
      /\ L <= M /\ M < H /\ H <= Len(a)
  BY DEF Mergeable, MergeCall
<1>1. S = ScratchBody(S, a, L, M, H)
  BY ScratchDef DEF Mergeable
<1> HIDE DEF S
<1>2. size \in [D -> Nat]
  BY <1>0 DEF Places
<1>3. ASSUME NEW l \in D, \A d \in D : size[d] < size[l] => d \in X PROVE l \in X
  <2>1. PICK l1 \in L..M + 1, l2 \in M + 1..H + 1 : l = <<l1, l2>>
    BY DEF Places
  <2>2. CASE l1 <= M /\ (l2 > H \/ TakesLeft(a[l1], a[l2]))
    <3>1. <<l1 + 1, l2>> \in D /\ size[<<l1 + 1, l2>>] < size[l]
      BY <1>0, <2>1, <2>2 DEF Places
    <3>2. Merged(S[<<l1 + 1, l2>>], a, M, H, <<l1 + 1, l2>>)
      BY <3>1, <1>3
    <3>3. S[l] = <<a[l1]>> \o S[<<l1 + 1, l2>>]
      BY <1>1, <2>1, <2>2 DEF ScratchBody
    <3> QED BY <2>1, <2>2, <3>2, <3>3, MergeStep
  <2>3. CASE ~(l1 <= M /\ (l2 > H \/ TakesLeft(a[l1], a[l2]))) /\ l2 <= H
    <3>0. <<l1, l2 + 1>> \in D
      BY <1>0, <2>1, <2>3 DEF Places
    <3>1. <<l1, l2 + 1>> \in D /\ size[<<l1, l2 + 1>>] < size[l]
      BY <1>0, <2>1, <3>0
    <3>2. Merged(S[<<l1, l2 + 1>>], a, M, H, <<l1, l2 + 1>>)
      BY <3>1, <1>3
    <3>3. S[l] = <<a[l2]>> \o S[<<l1, l2 + 1>>]
      BY <1>1, <2>1, <2>3 DEF ScratchBody
    <3> QED BY <2>1, <2>3, <3>2, <3>3, MergeStep
  <2>4. CASE ~(l1 <= M /\ (l2 > H \/ TakesLeft(a[l1], a[l2]))) /\ ~(l2 <= H)
    <3>1. S[l] = <<>>
      BY <1>1, <2>1, <2>4 DEF ScratchBody
    <3>2. l1 = M + 1 /\ l2 = H + 1
      BY <1>0, <2>1, <2>4
    <3>3. Merged(<<>>, a, M, H, <<M + 1, H + 1>>)
      BY <1>0 DEF Merged, Rest, Ordered, Stretch
    <3> QED BY <2>1, <3>1, <3>2, <3>3
  <2> QED BY <2>2, <2>3, <2>4
<1> HIDE DEF size, X, D
<1>4. D \subseteq X
  BY <1>2, <1>3, SizeInduction
<1> QED BY <1>4 DEF X, D, S

\* Whatever the arrays hold, the loops fill exactly the places of both stretches.
LEMMA ScratchFills ==
  ASSUME NEW a, NEW L, NEW M, NEW H, MergeCall(a, L, M, H)
  PROVE  /\ Scratch(a, L, M, H)[<<L, M + 1>>] \in Seq(Element)
         /\ Len(Scratch(a, L, M, H)[<<L, M + 1>>]) = H + 1 - L
<1> DEFINE D == Places(L, M, H)
           S == Scratch(a, L, M, H)
           size == [l \in D |-> (M + 1 - l[1]) + (H + 1 - l[2])]
           X == {l \in D : S[l] \in Seq(Element) /\ Len(S[l]) = size[l]}
<1>0. /\ a \in Seq(Element) /\ L \in Nat /\ M \in Nat /\ H \in Nat /\ L >= 1
      /\ L <= M /\ M < H /\ H <= Len(a)
  BY DEF MergeCall
<1>1. S = ScratchBody(S, a, L, M, H)
  BY ScratchDef
<1> HIDE DEF S
<1>2. size \in [D -> Nat]
  BY <1>0 DEF Places
<1>3. ASSUME NEW l \in D, \A d \in D : size[d] < size[l] => d \in X PROVE l \in X
  <2>1. PICK l1 \in L..M + 1, l2 \in M + 1..H + 1 : l = <<l1, l2>>
    BY DEF Places
  <2>2. CASE l1 <= M /\ (l2 > H \/ TakesLeft(a[l1], a[l2]))
    <3>0. <<l1 + 1, l2>> \in D
      BY <1>0, <2>1, <2>2 DEF Places
    <3>1. size[<<l1 + 1, l2>>] < size[l] /\ size[l] = size[<<l1 + 1, l2>>] + 1
      BY <1>0, <2>1, <3>0
    <3>2. S[<<l1 + 1, l2>>] \in Seq(Element) /\ Len(S[<<l1 + 1, l2>>]) = size[<<l1 + 1, l2>>]
      BY <3>0, <3>1, <1>3
    <3>3. S[l] = <<a[l1]>> \o S[<<l1 + 1, l2>>]
      BY <1>1, <2>1, <2>2 DEF ScratchBody
    <3>4. a[l1] \in Element
      BY <1>0, <2>2
    <3>5. S[l] \in Seq(Element) /\ Len(S[l]) = Len(S[<<l1 + 1, l2>>]) + 1
      BY <3>2, <3>3, <3>4
    <3> QED BY <3>1, <3>2, <3>5
  <2>3. CASE ~(l1 <= M /\ (l2 > H \/ TakesLeft(a[l1], a[l2]))) /\ l2 <= H
    <3>0. <<l1, l2 + 1>> \in D
      BY <1>0, <2>1, <2>3 DEF Places
    <3>1. size[<<l1, l2 + 1>>] < size[l] /\ size[l] = size[<<l1, l2 + 1>>] + 1
      BY <1>0, <2>1, <3>0
    <3>2. S[<<l1, l2 + 1>>] \in Seq(Element) /\ Len(S[<<l1, l2 + 1>>]) = size[<<l1, l2 + 1>>]
      BY <3>0, <3>1, <1>3
    <3>3. S[l] = <<a[l2]>> \o S[<<l1, l2 + 1>>]
      BY <1>1, <2>1, <2>3 DEF ScratchBody
    <3>4. a[l2] \in Element
      BY <1>0, <2>1, <2>3
    <3>5. S[l] \in Seq(Element) /\ Len(S[l]) = Len(S[<<l1, l2 + 1>>]) + 1
      BY <3>2, <3>3, <3>4
    <3> QED BY <3>1, <3>2, <3>5
  <2>4. CASE ~(l1 <= M /\ (l2 > H \/ TakesLeft(a[l1], a[l2]))) /\ ~(l2 <= H)
    <3>1. S[l] = <<>>
      BY <1>1, <2>1, <2>4 DEF ScratchBody
    <3>2. l1 = M + 1 /\ l2 = H + 1
      BY <1>0, <2>1, <2>4
    <3>3. size[l] = 0
      BY <1>0, <2>1, <3>2
    <3>4. <<>> \in Seq(Element) /\ Len(<<>>) = 0
      OBVIOUS
    <3> HIDE DEF size
    <3> QED BY <3>1, <3>3, <3>4
  <2> QED BY <2>2, <2>3, <2>4
<1>5. <<L, M + 1>> \in D /\ size[<<L, M + 1>>] = H + 1 - L
  <2>1. <<L, M + 1>> \in D
    BY <1>0 DEF Places
  <2> QED BY <2>1, <1>0
<1> HIDE DEF size, X, D
<1>4. D \subseteq X
  BY <1>2, <1>3, SizeInduction
<1> QED BY <1>4, <1>5 DEF X, S

\* merge writes the stretch L..H of the array and nothing else.
Written(b, a, L, M, H) ==
  /\ b \in Seq(Element) /\ Len(b) = Len(a)
  /\ \A j \in L..H : b[j] = Scratch(a, L, M, H)[<<L, M + 1>>][j - L + 1]
  /\ \A j \in 1..Len(a) : j \notin L..H => b[j] = a[j]

\* merge writes its stretch from scratch and leaves the rest of the array alone.
LEMMA MergeWrites ==
  ASSUME NEW a, NEW L, NEW M, NEW H, MergeCall(a, L, M, H)
  PROVE  Written(merge(a, L, M, H), a, L, M, H)
<1> DEFINE s == Scratch(a, L, M, H)[<<L, M + 1>>]
           b == merge(a, L, M, H)
<1>0. /\ a \in Seq(Element) /\ L \in Nat /\ M \in Nat /\ H \in Nat /\ L >= 1
      /\ L <= M /\ M < H /\ H <= Len(a) /\ Len(a) \in Nat /\ DOMAIN a = 1..Len(a)
  BY DEF MergeCall
<1>1. s \in Seq(Element) /\ Len(s) = H + 1 - L
  BY ScratchFills
<1>2. b = [j \in 1..Len(a) |-> IF j \in L..H THEN s[j - L + 1] ELSE a[j]]
  BY <1>0 DEF merge
<1> HIDE DEF s, b
<1>3. ASSUME NEW j \in 1..Len(a) PROVE b[j] \in Element
  <2>1. CASE j \in L..H
    <3>1. j - L + 1 \in 1..Len(s)
      BY <1>0, <1>1, <2>1
    <3> QED BY <3>1, <2>1, <1>1, <1>2
  <2>2. CASE j \notin L..H
    BY <2>2, <1>0, <1>2
  <2> QED BY <2>1, <2>2
<1>4. b \in [1..Len(a) -> Element]
  BY <1>2, <1>3
<1>5. b \in Seq(Element) /\ Len(b) = Len(a)
  BY <1>4, <1>0
<1>6. \A j \in L..H : b[j] = s[j - L + 1]
  BY <1>0, <1>2
<1>7. \A j \in 1..Len(a) : j \notin L..H => b[j] = a[j]
  BY <1>2
<1> QED BY <1>5, <1>6, <1>7 DEF b, s, Written

\* b is a with the stretch low..high in order.
SortedBetween(b, a, low, high) ==
  /\ b \in Seq(Element) /\ Len(b) = Len(a)
  /\ Ordered(b, low, high)
  /\ Stretch(b, low, high) = Stretch(a, low, high)
  /\ \A j \in 1..Len(a) : j \notin low..high => b[j] = a[j]

\* merge of two ordered stretches, next to each other, is the ordered stretch.
LEMMA MergeSorts ==
  ASSUME NEW a, NEW L, NEW M, NEW H, Mergeable(a, L, M, H)
  PROVE  SortedBetween(merge(a, L, M, H), a, L, H)
<1> DEFINE s == Scratch(a, L, M, H)[<<L, M + 1>>]
           b == merge(a, L, M, H)
<1>0. /\ MergeCall(a, L, M, H)
      /\ a \in Seq(Element) /\ L \in Nat /\ M \in Nat /\ H \in Nat /\ L >= 1
      /\ L <= M /\ M < H /\ H <= Len(a) /\ Len(a) \in Nat
  BY DEF Mergeable, MergeCall
<1>1. /\ s \in Seq(Element) /\ Len(s) = H + 1 - L
      /\ Ordered(s, 1, Len(s))
      /\ Stretch(s, 1, Len(s)) = Stretch(a, L, M) \union Stretch(a, M + 1, H)
  <2>1. <<L, M + 1>> \in Places(L, M, H)
    BY <1>0 DEF Places
  <2>2. Merged(s, a, M, H, <<L, M + 1>>)
    BY <2>1, ScratchMerges
  <2>3. /\ s \in Seq(Element) /\ Len(s) = (M + 1 - L) + (H + 1 - (M + 1))
        /\ Ordered(s, 1, Len(s))
        /\ Stretch(s, 1, Len(s)) = Stretch(a, L, M) \union Stretch(a, M + 1, H)
    <3> HIDE DEF s
    <3> QED BY <2>2 DEF Merged, Rest
  <2>4. (M + 1 - L) + (H + 1 - (M + 1)) = H + 1 - L
    BY <1>0
  <2> QED BY <2>3, <2>4
<1>m. Written(b, a, L, M, H)
  BY <1>0, MergeWrites
<1>2. /\ b \in Seq(Element) /\ Len(b) = Len(a)
      /\ \A j \in L..H : b[j] = s[j - L + 1]
      /\ \A j \in 1..Len(a) : j \notin L..H => b[j] = a[j]
  BY <1>m DEF Written
<1> HIDE DEF s, b
<1>3. Ordered(b, L, H)
  <2>1. ASSUME NEW j \in L..H, NEW l \in L..H, j < l PROVE Before(b[j], b[l])
    <3>1. /\ j - L + 1 \in 1..Len(s) /\ l - L + 1 \in 1..Len(s)
          /\ j - L + 1 < l - L + 1
      BY <1>0, <1>1, <2>1
    <3>2. Before(s[j - L + 1], s[l - L + 1])
      BY <3>1, <1>1 DEF Ordered
    <3> QED BY <3>2, <1>2
  <2> QED BY <2>1 DEF Ordered
<1>4. Stretch(b, L, H) = Stretch(s, 1, Len(s))
  <2>1. ASSUME NEW j \in L..H PROVE b[j] \in Stretch(s, 1, Len(s))
    <3>1. j - L + 1 \in 1..Len(s)
      BY <1>0, <1>1
    <3> QED BY <3>1, <1>2 DEF Stretch
  <2>2. ASSUME NEW j \in 1..Len(s) PROVE s[j] \in Stretch(b, L, H)
    <3>1. /\ j + L - 1 \in L..H
          /\ (j + L - 1) - L + 1 = j
      BY <1>0, <1>1
    <3>2. b[j + L - 1] = s[j]
      BY <3>1, <1>2
    <3> QED BY <3>1, <3>2 DEF Stretch
  <2> QED BY <2>1, <2>2 DEF Stretch
<1>5. Stretch(a, L, H) = Stretch(a, L, M) \union Stretch(a, M + 1, H)
  BY <1>0 DEF Stretch
<1> QED BY <1>1, <1>2, <1>3, <1>4, <1>5 DEF SortedBetween, b

\* The body of msort, for any function in its own place.
Mid(c) == (c.low + c.high) \div 2
SortBody(f) ==
  [c \in Call |->
     IF c.low < c.high
     THEN merge(f[[a |-> f[[a |-> c.a, low |-> c.low, high |-> Mid(c)]],
                   low |-> Mid(c) + 1, high |-> c.high]], c.low, Mid(c), c.high)
     ELSE c.a]
SameLength == [c \in Call |-> {b \in Seq(Element) : Len(b) = Len(c.a)}]
CallSize == [c \in Call |-> IF c.low < c.high THEN c.high - c.low ELSE 0]

\* The two calls msort makes are calls, and of shorter stretches.
LEMMA InnerCalls ==
  ASSUME NEW c \in Call, c.low < c.high
  PROVE  /\ c.a \in Seq(Element) /\ c.low \in Nat \ {0} /\ c.high \in Nat /\ c.high <= Len(c.a)
         /\ Mid(c) \in Nat /\ c.low <= Mid(c) /\ Mid(c) < c.high
         /\ [a |-> c.a, low |-> c.low, high |-> Mid(c)] \in Call
         /\ CallSize[[a |-> c.a, low |-> c.low, high |-> Mid(c)]] < CallSize[c]
         /\ \A b \in Seq(Element) : Len(b) = Len(c.a) =>
              /\ MergeCall(b, c.low, Mid(c), c.high)
              /\ [a |-> b, low |-> Mid(c) + 1, high |-> c.high] \in Call
              /\ CallSize[[a |-> b, low |-> Mid(c) + 1, high |-> c.high]] < CallSize[c]
<1>1. c.a \in Seq(Element) /\ c.low \in Nat \ {0} /\ c.high \in Nat /\ c.high <= Len(c.a)
  BY DEF Call
<1>2. Mid(c) \in Nat /\ c.low <= Mid(c) /\ Mid(c) < c.high
  BY <1>1 DEF Mid
<1>3. CallSize[c] = c.high - c.low
  BY DEF CallSize
<1>4. [a |-> c.a, low |-> c.low, high |-> Mid(c)] \in Call
  <2>1. Len(c.a) \in Nat /\ Mid(c) <= Len(c.a)
    BY <1>1, <1>2
  <2> QED BY <1>1, <1>2, <2>1 DEF Call
<1>5. CallSize[[a |-> c.a, low |-> c.low, high |-> Mid(c)]] < CallSize[c]
  BY <1>1, <1>2, <1>3, <1>4 DEF CallSize
<1>6. ASSUME NEW b \in Seq(Element), Len(b) = Len(c.a)
      PROVE  /\ MergeCall(b, c.low, Mid(c), c.high)
             /\ [a |-> b, low |-> Mid(c) + 1, high |-> c.high] \in Call
             /\ CallSize[[a |-> b, low |-> Mid(c) + 1, high |-> c.high]] < CallSize[c]
  <2>1. MergeCall(b, c.low, Mid(c), c.high)
    BY <1>1, <1>2, <1>6 DEF MergeCall
  <2>2. [a |-> b, low |-> Mid(c) + 1, high |-> c.high] \in Call
    BY <1>1, <1>2, <1>6 DEF Call
  <2>3. CallSize[[a |-> b, low |-> Mid(c) + 1, high |-> c.high]] < CallSize[c]
    BY <1>1, <1>2, <1>3, <2>2 DEF CallSize
  <2> QED BY <2>1, <2>2, <2>3
<1> QED BY <1>1, <1>2, <1>4, <1>5, <1>6

\* A function as msort is defined exists: each half is shorter than the whole.
LEMMA SortExists == \E f \in Selections(Call, Seq(Element), SameLength) : f = SortBody(f)
<1> DEFINE F == Selections(Call, Seq(Element), SameLength)
           E == [f \in F |-> SortBody(f)]
<1>1. SameLength \in [Call -> SUBSET Seq(Element)] /\ \A c \in Call : SameLength[c] # {}
  <2>1. \A c \in Call : c.a \in SameLength[c]
    BY DEF SameLength, Call
  <2> QED BY <2>1 DEF SameLength
<1>2. CallSize \in [Call -> Nat]
  <2>1. \A c \in Call : c.low \in Nat /\ c.high \in Nat
    BY DEF Call
  <2> QED BY <2>1 DEF CallSize
<1>3. ASSUME NEW f \in F, NEW c \in Call
      PROVE  f[c] \in Seq(Element) /\ Len(f[c]) = Len(c.a)
  BY DEF Selections, SameLength
<1>4. ASSUME NEW f \in F PROVE SortBody(f) \in F
  <2>1. ASSUME NEW c \in Call PROVE SortBody(f)[c] \in Seq(Element) /\ Len(SortBody(f)[c]) = Len(c.a)
    <3>1. CASE c.low < c.high
      <4> DEFINE left == f[[a |-> c.a, low |-> c.low, high |-> Mid(c)]]
                 both == f[[a |-> left, low |-> Mid(c) + 1, high |-> c.high]]
      <4>1. left \in Seq(Element) /\ Len(left) = Len(c.a)
        BY <3>1, <1>3, InnerCalls
      <4> HIDE DEF left
      <4>2. both \in Seq(Element) /\ Len(both) = Len(c.a)
        BY <3>1, <4>1, <1>3, InnerCalls
      <4> HIDE DEF both
      <4>3. MergeCall(both, c.low, Mid(c), c.high)
        BY <3>1, <4>2, InnerCalls
      <4>4. SortBody(f)[c] = merge(both, c.low, Mid(c), c.high)
        BY <3>1 DEF SortBody, left, both
      <4>5. Written(merge(both, c.low, Mid(c), c.high), both, c.low, Mid(c), c.high)
        BY <4>3, MergeWrites
      <4> QED BY <4>2, <4>4, <4>5 DEF Written
    <3>2. CASE ~(c.low < c.high)
      <4>1. SortBody(f)[c] = c.a /\ c.a \in Seq(Element)
        BY <3>2 DEF SortBody, Call
      <4> QED BY <4>1
    <3> QED BY <3>1, <3>2
  <2>2. SortBody(f) = [c \in Call |-> SortBody(f)[c]]
    BY DEF SortBody
  <2>3. SortBody(f) \in [Call -> Seq(Element)]
    BY <2>1, <2>2
  <2> QED BY <2>1, <2>3 DEF Selections, SameLength
<1>5. ASSUME NEW f \in F, NEW g \in F, NEW c \in Call,
             \A d \in Call : CallSize[d] < CallSize[c] => f[d] = g[d]
      PROVE  E[f][c] = E[g][c]
  <2>1. CASE c.low < c.high
    <3> DEFINE left == f[[a |-> c.a, low |-> c.low, high |-> Mid(c)]]
               call == [a |-> left, low |-> Mid(c) + 1, high |-> c.high]
    <3>1. left \in Seq(Element) /\ Len(left) = Len(c.a)
      BY <2>1, <1>3, InnerCalls
    <3>2. left = g[[a |-> c.a, low |-> c.low, high |-> Mid(c)]]
      BY <2>1, <1>5, InnerCalls
    <3>3. f[call] = g[call]
      <4> HIDE DEF left
      <4> QED BY <2>1, <3>1, <1>5, InnerCalls
    <3>4. SortBody(f)[c] = merge(f[call], c.low, Mid(c), c.high)
      BY <2>1 DEF SortBody
    <3>5. SortBody(g)[c] = merge(g[call], c.low, Mid(c), c.high)
      BY <2>1, <3>2 DEF SortBody
    <3> QED BY <3>3, <3>4, <3>5
  <2>2. CASE ~(c.low < c.high)
    BY <2>2 DEF SortBody
  <2> QED BY <2>1, <2>2
<1>6. Shrinks(Call, F, CallSize, E)
  BY <1>2, <1>4, <1>5 DEF Shrinks
<1>7. \E f \in F : f = E[f]
  <2> DEFINE U == Seq(Element)
  <2>1. SameLength \in [Call -> SUBSET U] /\ \A c \in Call : SameLength[c] # {}
    BY <1>1
  <2>2. Shrinks(Call, Selections(Call, U, SameLength), CallSize, E)
    BY <1>6
  <2> HIDE DEF E, U
  <2>3. \E f \in Selections(Call, U, SameLength) : f = E[f]
    BY <2>1, <2>2, Recursion
  <2> QED BY <2>3 DEF U
<1> QED BY <1>7

\* msort is that function.
LEMMA SortDef == msort = SortBody(msort)
<1>1. PICK f \in Selections(Call, Seq(Element), SameLength) : f = SortBody(f)
  BY SortExists
<1>2. f = [c \in Call |->
            IF c.low < c.high
            THEN LET mid == (c.low + c.high) \div 2
                     left == f[[a |-> c.a, low |-> c.low, high |-> mid]]
                     both == f[[a |-> left, low |-> mid + 1, high |-> c.high]]
                 IN merge(both, c.low, mid, c.high)
            ELSE c.a]
  BY <1>1 DEF SortBody, Mid
<1>3. msort = [c \in Call |->
            IF c.low < c.high
            THEN LET mid == (c.low + c.high) \div 2
                     left == msort[[a |-> c.a, low |-> c.low, high |-> mid]]
                     both == msort[[a |-> left, low |-> mid + 1, high |-> c.high]]
                 IN merge(both, c.low, mid, c.high)
            ELSE c.a]
  BY <1>2 DEF msort
<1> QED BY <1>3 DEF SortBody, Mid

\* Every element of the stretch has the larger position than those before it, as in an
\* array that was numbered through.
Numbered(a, low, high) == \A j, l \in low..high : j < l => a[j].at < a[l].at

\* msort puts its stretch in order and leaves the rest alone, for stretches of any length.
LEMMA MsortSorts ==
  \A c \in Call : Numbered(c.a, c.low, c.high) => SortedBetween(msort[c], c.a, c.low, c.high)
<1> DEFINE X == {c \in Call : Numbered(c.a, c.low, c.high) => SortedBetween(msort[c], c.a, c.low, c.high)}
<1>1. CallSize \in [Call -> Nat]
  <2>1. \A c \in Call : c.low \in Nat /\ c.high \in Nat
    BY DEF Call
  <2> QED BY <2>1 DEF CallSize
<1>2. ASSUME NEW c \in Call, \A d \in Call : CallSize[d] < CallSize[c] => d \in X,
             Numbered(c.a, c.low, c.high)
      PROVE  SortedBetween(msort[c], c.a, c.low, c.high)
  <2>0. c.a \in Seq(Element) /\ c.low \in Nat \ {0} /\ c.high \in Nat /\ c.high <= Len(c.a)
        /\ Len(c.a) \in Nat
    BY DEF Call
  <2>1. CASE ~(c.low < c.high)
    <3>1. msort[c] = c.a
      <4>1. SortBody(msort)[c] = c.a
        BY <2>1 DEF SortBody
      <4> QED BY <4>1, SortDef
    <3>2. Ordered(c.a, c.low, c.high)
      BY <2>0, <2>1 DEF Ordered
    <3> QED BY <3>1, <3>2, <2>0 DEF SortedBetween
  <2>2. CASE c.low < c.high
    <3> DEFINE a == c.a
               L == c.low
               M == Mid(c)
               H == c.high
               c1 == [a |-> a, low |-> L, high |-> M]
               left == msort[c1]
               c2 == [a |-> left, low |-> M + 1, high |-> H]
               both == msort[c2]
    <3>1. L \in Nat /\ M \in Nat /\ H \in Nat /\ L >= 1 /\ L <= M /\ M < H /\ H <= Len(a)
      <4>1. Mid(c) \in Nat /\ c.low <= Mid(c) /\ Mid(c) < c.high
        BY <2>2, InnerCalls
      <4> QED BY <4>1, <2>0
    <3>2. SortedBetween(left, a, L, M)
      <4>1. Numbered(a, L, M)
        BY <1>2, <3>1 DEF Numbered
      <4>2. c1 \in Call /\ CallSize[c1] < CallSize[c] /\ c1.a = a /\ c1.low = L /\ c1.high = M
        BY <2>2, InnerCalls
      <4>3. c1 \in X
        BY <4>2, <1>2
      <4> HIDE DEF c1, a, L, M
      <4> QED BY <4>1, <4>2, <4>3
    <3>3. /\ left \in Seq(Element) /\ Len(left) = Len(a) /\ Ordered(left, L, M)
          /\ Stretch(left, L, M) = Stretch(a, L, M)
          /\ \A j \in 1..Len(a) : j \notin L..M => left[j] = a[j]
      BY <3>2 DEF SortedBetween
    <3>4. SortedBetween(both, left, M + 1, H)
      <4>1. Numbered(left, M + 1, H)
        <5>1. \A j \in M + 1..H : left[j] = a[j]
          BY <3>1, <3>3, <2>0
        <5> HIDE DEF left, M
        <5> QED BY <5>1, <3>1, <1>2 DEF Numbered
      <4>2. c2 \in Call /\ CallSize[c2] < CallSize[c] /\ c2.a = left /\ c2.low = M + 1 /\ c2.high = H
        <5> HIDE DEF left
        <5> QED BY <2>2, <3>3, InnerCalls
      <4>3. c2 \in X
        BY <4>2, <1>2
      <4> HIDE DEF c2, left, M, H
      <4> QED BY <4>1, <4>2, <4>3
    <3>5. /\ both \in Seq(Element) /\ Len(both) = Len(left) /\ Ordered(both, M + 1, H)
          /\ Stretch(both, M + 1, H) = Stretch(left, M + 1, H)
          /\ \A j \in 1..Len(left) : j \notin M + 1..H => both[j] = left[j]
      BY <3>4 DEF SortedBetween
    <3>6. msort[c] = merge(both, L, M, H)
      <4>1. SortBody(msort)[c] = merge(both, L, M, H)
        BY <2>2 DEF SortBody
      <4> QED BY <4>1, SortDef
    <3>n. \A j, l \in L..H : j < l => a[j].at < a[l].at
      BY <1>2 DEF Numbered
    <3> HIDE DEF a, L, M, H, c1, c2, left, both
    <3>l. Len(a) \in Nat
      BY <2>0 DEF a
    <3>7. /\ \A j \in L..M : both[j] = left[j]
          /\ \A j \in M + 1..H : left[j] = a[j]
      <4>1. ASSUME NEW j \in L..M PROVE both[j] = left[j]
        <5>1. j \in 1..Len(left) /\ j \notin M + 1..H
          BY <3>1, <3>3, <3>l
        <5> QED BY <5>1, <3>5
      <4>2. ASSUME NEW j \in M + 1..H PROVE left[j] = a[j]
        <5>1. j \in 1..Len(a) /\ j \notin L..M
          BY <3>1, <3>l
        <5> QED BY <5>1, <3>3
      <4> QED BY <4>1, <4>2
    <3>8. /\ Stretch(both, L, M) = Stretch(a, L, M)
          /\ Stretch(both, M + 1, H) = Stretch(a, M + 1, H)
      <4>1. Stretch(both, L, M) = Stretch(left, L, M)
        BY <3>7 DEF Stretch
      <4>2. Stretch(left, M + 1, H) = Stretch(a, M + 1, H)
        BY <3>7 DEF Stretch
      <4> QED BY <4>1, <4>2, <3>3, <3>5
    <3>9. Mergeable(both, L, M, H)
      <4>1. MergeCall(both, L, M, H)
        BY <3>1, <3>3, <3>5 DEF MergeCall
      <4>2. Ordered(both, L, M)
        BY <3>3, <3>7 DEF Ordered
      <4>3. ASSUME NEW j \in L..M, NEW l \in M + 1..H PROVE both[j].at < both[l].at
        <5>1. PICK j1 \in L..M : both[j] = a[j1]
          BY <3>8 DEF Stretch
        <5>2. PICK l1 \in M + 1..H : both[l] = a[l1]
          BY <3>8 DEF Stretch
        <5>3. j1 \in L..H /\ l1 \in L..H /\ j1 < l1
          BY <3>1
        <5> QED BY <5>1, <5>2, <5>3, <3>n
      <4> QED BY <4>1, <4>2, <4>3, <3>5 DEF Mergeable
    <3>10. SortedBetween(merge(both, L, M, H), both, L, H)
      BY <3>9, MergeSorts
    <3>11. Stretch(both, L, H) = Stretch(a, L, H)
      <4>1. Stretch(both, L, H) = Stretch(both, L, M) \union Stretch(both, M + 1, H)
        BY <3>1 DEF Stretch
      <4>2. Stretch(a, L, H) = Stretch(a, L, M) \union Stretch(a, M + 1, H)
        BY <3>1 DEF Stretch
      <4> QED BY <4>1, <4>2, <3>8
    <3>12. \A j \in 1..Len(a) : j \notin L..H => both[j] = a[j]
      BY <3>1, <3>3, <3>5, <3>l
    <3>13. SortedBetween(msort[c], a, L, H)
      BY <3>10, <3>11, <3>12, <3>3, <3>5, <3>6 DEF SortedBetween
    <3> QED BY <3>13 DEF a, L, H
  <2> QED BY <2>1, <2>2
<1>3. \A c \in Call : (\A d \in Call : CallSize[d] < CallSize[c] => d \in X) => c \in X
  BY <1>2
<1> HIDE DEF X
<1>4. Call \subseteq X
  BY <1>1, <1>3, SizeInduction
<1> QED BY <1>4 DEF X

\* sort.c sorts arrays of any length, and stably.
LEMMA SortSorts ==
  ASSUME NEW keys \in Seq(Int)
  PROVE  SortedBetween(sort(Keyed(keys)), Keyed(keys), 1, Len(keys))
<1> DEFINE a == Keyed(keys)
           c == [a |-> a, low |-> 1, high |-> Len(a)]
<1>1. a \in Seq(Element) /\ Len(a) = Len(keys) /\ Len(keys) \in Nat
  <2>1. a \in [1..Len(keys) -> Element]
    BY DEF Keyed, Element
  <2> QED BY <2>1
<1>2. Numbered(a, 1, Len(a))
  BY <1>1 DEF Numbered, Keyed
<1> HIDE DEF a
<1>3. c \in Call
  BY <1>1 DEF Call
<1>4. SortedBetween(msort[c], a, 1, Len(a))
  BY <1>2, <1>3, MsortSorts
<1> QED BY <1>1, <1>4 DEF sort, a

-----------------------------------------------------------------------------
(* Numbers. *)

\* The remainder of a number below its divisor is the number.
LEMMA ModSmall ==
  ASSUME NEW a \in Nat, NEW b \in Nat, a < b
  PROVE  a % b = a
OBVIOUS

\* A nonnegative integer that fits is not changed by wrapping.
LEMMA WrapFits ==
  ASSUME NEW v \in 0..MaxInt
  PROVE  Wrap(v, MostNegative) = v
<1>0. MaxInt \in Nat
  BY InputsAssumption
<1>1. /\ v - MostNegative \in Nat /\ -2 * MostNegative \in Nat
      /\ v - MostNegative < -2 * MostNegative
      /\ MostNegative \in Int
  BY <1>0 DEF MostNegative
<1>2. (v - MostNegative) % (-2 * MostNegative) = v - MostNegative
  BY <1>1, ModSmall
<1> QED BY <1>1, <1>2 DEF Wrap

\* The ten digits and their values.
LEMMA DigitFacts ==
  /\ \A j \in 1..10 : digits[j] \in Digits /\ Value(digits[j]) = j - 1
  /\ \A c \in Digits : Value(c) \in 0..9
  /\ "-" \notin Digits
<1>1. \A j, l \in 1..10 : digits[j] = digits[l] => j = l
  BY DEF digits
<1>2. "-" \notin Digits
  BY DEF digits, Digits
<1>3. \A j \in 1..10 : digits[j] \in Digits /\ Value(digits[j]) = j - 1
  BY <1>1 DEF Digits, Value
<1>4. \A c \in Digits : Value(c) \in 0..9
  BY <1>3 DEF Digits
<1> QED BY <1>2, <1>3, <1>4

DigitOf(n) == IF Rem(n, 10) >= 0 THEN digits[Rem(n, 10) + 1] ELSE "outside"
DigitsBody(f) == [n \in Int |-> IF n = 0 THEN <<>> ELSE <<DigitOf(n)>> \o f[Quot(n, 10)]]

\* The digits of n are one digit and those of the quotient by ten.
LEMMA DigitsDef == DigitsBackwards = DigitsBody(DigitsBackwards)
<1> DEFINE C == Digits \union {"outside"}
           U == Seq(C)
           size == [n \in Int |-> IF n >= 0 THEN n ELSE -n]
           E == [f \in [Int -> U] |-> DigitsBody(f)]
<1>1. U # {}
  <2>1. <<>> \in U
    OBVIOUS
  <2> QED BY <2>1
<1>2. size \in [Int -> Nat]
  OBVIOUS
<1>3. \A n \in Int : n # 0 => Quot(n, 10) \in Int /\ size[Quot(n, 10)] < size[n]
  BY DEF Quot
<1>4. \A n \in Int : DigitOf(n) \in C
  <2>1. ASSUME NEW n \in Int, Rem(n, 10) >= 0 PROVE Rem(n, 10) + 1 \in 1..10
    BY <2>1 DEF Rem
  <2>2. ASSUME NEW n \in Int, Rem(n, 10) >= 0 PROVE digits[Rem(n, 10) + 1] \in Digits
    BY <2>1, <2>2, DigitFacts
  <2> QED BY <2>2 DEF DigitOf
<1> HIDE DEF size, C
<1>5. ASSUME NEW f \in [Int -> U] PROVE DigitsBody(f) \in [Int -> U]
  <2>1. ASSUME NEW n \in Int, n # 0 PROVE <<DigitOf(n)>> \o f[Quot(n, 10)] \in U
    BY <2>1, <1>3, <1>4
  <2>2. <<>> \in U
    OBVIOUS
  <2> HIDE DEF U
  <2> QED BY <2>1, <2>2 DEF DigitsBody
<1>6. ASSUME NEW f \in [Int -> U], NEW g \in [Int -> U], NEW n \in Int,
             \A m \in Int : size[m] < size[n] => f[m] = g[m]
      PROVE  DigitsBody(f)[n] = DigitsBody(g)[n]
  BY <1>3, <1>6 DEF DigitsBody
<1> HIDE DEF U
<1>7. Shrinks(Int, [Int -> U], size, E)
  BY <1>2, <1>5, <1>6 DEF Shrinks
<1>8. \E f \in [Int -> U] : f = E[f]
  <2> DEFINE D == Int
  <2>1. Shrinks(D, [D -> U], size, E)
    BY <1>7
  <2> HIDE DEF E, D
  <2>2. Defines(D, U, E)
    BY <1>1, <2>1, SimpleRecursion
  <2> QED BY <2>2 DEF D, Defines
<1>9. PICK f \in [Int -> U] : f = DigitsBody(f)
  BY <1>8
<1>10. \E g : g = [n \in Int |->
         IF n = 0 THEN <<>>
         ELSE <<IF Rem(n, 10) >= 0 THEN digits[Rem(n, 10) + 1] ELSE "outside">> \o g[Quot(n, 10)]]
  BY <1>9 DEF DigitsBody, DigitOf
<1>11. DigitsBackwards = [n \in Int |->
         IF n = 0 THEN <<>>
         ELSE <<IF Rem(n, 10) >= 0 THEN digits[Rem(n, 10) + 1] ELSE "outside">>
                \o DigitsBackwards[Quot(n, 10)]]
  BY <1>10 DEF DigitsBackwards
<1> QED BY <1>11 DEF DigitsBody, DigitOf

\* The same for a number that is not negative.
LEMMA DigitsFrom ==
  /\ DigitsBackwards[0] = <<>>
  /\ \A n \in Int : n # 0 => DigitsBackwards[n] = <<DigitOf(n)>> \o DigitsBackwards[Quot(n, 10)]
<1> DEFINE D == DigitsBackwards
<1>1. D = DigitsBody(D)
  BY DigitsDef
<1> HIDE DEF D
<1>2. D[0] = <<>>
  BY <1>1 DEF DigitsBody
<1>3. ASSUME NEW n \in Int, n # 0 PROVE D[n] = <<DigitOf(n)>> \o D[Quot(n, 10)]
  <2>1. DigitsBody(D)[n] = <<DigitOf(n)>> \o D[Quot(n, 10)]
    BY <1>3 DEF DigitsBody
  <2> QED BY <2>1, <1>1
<1> QED BY <1>2, <1>3 DEF D

\* The loop of p1atoi over the first n characters, which are digits.
AnsBody(f, s, n, min) == [j \in 0..n |-> IF j = 0 THEN 0 ELSE Wrap(10 * f[j - 1] + Value(s[j]), min)]

\* The loop of p1atoi, a character at a time.
LEMMA AnsDef ==
  ASSUME NEW s \in Seq(Digits), NEW n \in 0..Len(s)
  PROVE  Ans(s, n, MostNegative) = AnsBody(Ans(s, n, MostNegative), s, n, MostNegative)
<1> DEFINE D == 0..n
           size == [j \in D |-> j]
           E == [f \in [D -> Int] |-> AnsBody(f, s, n, MostNegative)]
<1>0. Len(s) \in Nat /\ n \in Nat /\ n <= Len(s)
  OBVIOUS
<1>1. size \in [D -> Nat]
  OBVIOUS
<1>2. ASSUME NEW v \in Int PROVE Wrap(v, MostNegative) \in Int
  <2>1. /\ MostNegative \in Int /\ -2 * MostNegative \in Nat \ {0}
        /\ v - MostNegative \in Int
    BY InputsAssumption DEF MostNegative
  <2>2. \A a \in Int, b \in Nat \ {0} : a % b \in Int
    OBVIOUS
  <2> QED BY <2>1, <2>2 DEF Wrap
<1>3. ASSUME NEW f \in [D -> Int] PROVE AnsBody(f, s, n, MostNegative) \in [D -> Int]
  <2>1. ASSUME NEW j \in D, j # 0
        PROVE  Wrap(10 * f[j - 1] + Value(s[j]), MostNegative) \in Int
    <3>1. j - 1 \in D /\ j \in 1..Len(s)
      BY <1>0, <2>1
    <3>2. f[j - 1] \in Int /\ Value(s[j]) \in Int
      BY <3>1, DigitFacts
    <3>3. 10 * f[j - 1] + Value(s[j]) \in Int
      BY <3>2
    <3> QED BY <3>3, <1>2
  <2> QED BY <2>1 DEF AnsBody
<1>4. ASSUME NEW f \in [D -> Int], NEW g \in [D -> Int], NEW j \in D,
             \A l \in D : size[l] < size[j] => f[l] = g[l]
      PROVE  E[f][j] = E[g][j]
  <2>1. j # 0 => j - 1 \in D /\ size[j - 1] < size[j]
    OBVIOUS
  <2>2. j # 0 => f[j - 1] = g[j - 1]
    BY <2>1, <1>4
  <2> QED BY <2>2 DEF AnsBody
<1>5. Shrinks(D, [D -> Int], size, E)
  BY <1>1, <1>3, <1>4 DEF Shrinks
<1>6. Defines(D, Int, E)
  <2> HIDE DEF E, size, D
  <2> QED BY <1>5, SimpleRecursion
<1>7. PICK f \in [D -> Int] : f = AnsBody(f, s, n, MostNegative)
  BY <1>6 DEF Defines
<1> QED BY <1>7 DEF Ans, AnsBody

\* All characters are digits, so p1atoi comes to the end.
LEMMA ReadsToEnd ==
  ASSUME NEW s \in Seq(Digits)
  PROVE  p1atoi(s, MostNegative) = Ans(s, Len(s), MostNegative)[Len(s)]
<1>1. {j \in DOMAIN s : s[j] \notin Digits} = {}
  OBVIOUS
<1> QED BY <1>1 DEF p1atoi

\* One more digit at the end of a text multiplies by ten and adds.
LEMMA ReadDigit ==
  /\ p1atoi(<<>>, MostNegative) = 0
  /\ \A s \in Seq(Digits), c \in Digits :
       p1atoi(Append(s, c), MostNegative) = Wrap(10 * p1atoi(s, MostNegative) + Value(c), MostNegative)
<1>1. p1atoi(<<>>, MostNegative) = 0
  <2>1. <<>> \in Seq(Digits) /\ Len(<<>>) = 0 /\ 0 \in 0..0
    OBVIOUS
  <2>s. PICK s \in Seq(Digits) : s = <<>> /\ Len(s) = 0
    BY <2>1
  <2>2. PICK n \in 0..Len(s) : n = Len(s) /\ n = 0
    BY <2>s
  <2>3. Ans(s, n, MostNegative)[n] = 0
    BY <2>2, AnsDef DEF AnsBody
  <2>4. p1atoi(s, MostNegative) = Ans(s, n, MostNegative)[n]
    BY <2>2, ReadsToEnd
  <2> QED BY <2>s, <2>2, <2>3, <2>4
<1>2. ASSUME NEW s \in Seq(Digits), NEW c \in Digits
      PROVE  p1atoi(Append(s, c), MostNegative) = Wrap(10 * p1atoi(s, MostNegative) + Value(c), MostNegative)
  <2> DEFINE t == Append(s, c)
             n == Len(s)
             A == Ans(s, n, MostNegative)
             B == Ans(t, n + 1, MostNegative)
  <2>1. /\ t \in Seq(Digits) /\ Len(t) = n + 1 /\ n \in Nat /\ t[n + 1] = c
        /\ \A j \in 1..n : t[j] = s[j]
    OBVIOUS
  <2>2. A = AnsBody(A, s, n, MostNegative)
    BY AnsDef
  <2>3. B = AnsBody(B, t, n + 1, MostNegative)
    <3>1. t \in Seq(Digits) /\ n + 1 \in 0..Len(t)
      BY <2>1
    <3> HIDE DEF t, n
    <3> QED BY <3>1, AnsDef
  <2> HIDE DEF t, n, A, B
  <2>4. \A j \in 0..n : A[j] = B[j]
    <3> DEFINE X == {j \in Nat : j <= n => A[j] = B[j]}
    <3>1. ASSUME NEW j \in Nat, \A l \in 0..j - 1 : l \in X PROVE j \in X
      <4> SUFFICES ASSUME j <= n PROVE A[j] = B[j]
        OBVIOUS
      <4>1. j \in 0..n /\ j \in 0..n + 1
        BY <2>1
      <4>2. CASE j = 0
        BY <4>1, <4>2, <2>2, <2>3 DEF AnsBody
      <4>3. CASE j # 0
        <5>1. j - 1 \in 0..j - 1 /\ j - 1 <= n /\ j \in 1..n
          BY <4>1, <4>3, <2>1
        <5>2. A[j - 1] = B[j - 1] /\ s[j] = t[j]
          BY <5>1, <3>1, <2>1
        <5>3. A[j] = Wrap(10 * A[j - 1] + Value(s[j]), MostNegative)
          BY <4>1, <4>3, <2>2 DEF AnsBody
        <5>4. B[j] = Wrap(10 * B[j - 1] + Value(t[j]), MostNegative)
          BY <4>1, <4>3, <2>3 DEF AnsBody
        <5> QED BY <5>2, <5>3, <5>4
      <4> QED BY <4>2, <4>3
    <3> HIDE DEF X
    <3>2. Nat \subseteq X
      BY <3>1, Induction
    <3> QED BY <3>2, <2>1 DEF X
  <2>5. B[n + 1] = Wrap(10 * B[n] + Value(c), MostNegative)
    <3>1. n + 1 \in 0..n + 1 /\ n + 1 # 0 /\ n + 1 - 1 = n
      BY <2>1
    <3> QED BY <3>1, <2>1, <2>3 DEF AnsBody
  <2>6. p1atoi(s, MostNegative) = A[n]
    BY ReadsToEnd DEF A, n
  <2>7. p1atoi(t, MostNegative) = B[n + 1]
    BY <2>1, ReadsToEnd DEF B
  <2>8. B[n] = A[n]
    BY <2>1, <2>4
  <2> QED BY <2>5, <2>6, <2>7, <2>8 DEF t
<1> QED BY <1>1, <1>2

\* Reversing a sequence of digits, one digit at a time.
LEMMA ReverseFacts ==
  ASSUME NEW S, NEW t \in Seq(S), NEW x \in S
  PROVE  /\ Reverse(t) \in Seq(S) /\ Len(Reverse(t)) = Len(t)
         /\ Reverse(<<x>> \o t) = Append(Reverse(t), x)
         /\ Reverse(Append(t, x)) = <<x>> \o Reverse(t)
<1>1. Reverse(t) \in Seq(S) /\ Len(Reverse(t)) = Len(t)
  BY DEF Reverse
<1>2. Reverse(<<x>> \o t) = Append(Reverse(t), x)
  BY DEF Reverse
<1>3. Reverse(Append(t, x)) = <<x>> \o Reverse(t)
  BY DEF Reverse
<1> QED BY <1>1, <1>2, <1>3

\* Digits are taken off the right, and read back from the left they give the number.
LEMMA DigitsReadBack ==
  \A n \in Nat : n <= MaxInt =>
    /\ DigitsBackwards[n] \in Seq(Digits)
    /\ n # 0 => DigitsBackwards[n] # <<>>
    /\ p1atoi(Reverse(DigitsBackwards[n]), MostNegative) = n
<1> DEFINE D == DigitsBackwards
           P(n) == /\ D[n] \in Seq(Digits)
                   /\ n # 0 => D[n] # <<>>
                   /\ p1atoi(Reverse(D[n]), MostNegative) = n
           X == {n \in Nat : n <= MaxInt => P(n)}
<1>0. MaxInt \in Nat
  BY InputsAssumption
<1>1. ASSUME NEW n \in Nat, \A m \in 0..n - 1 : m \in X PROVE n \in X
  <2> SUFFICES ASSUME n <= MaxInt PROVE P(n)
    OBVIOUS
  <2>1. CASE n = 0
    <3>1. D[0] = <<>>
      BY DigitsFrom
    <3>2. <<>> \in Seq(Digits) /\ Reverse(<<>>) = <<>>
      BY DEF Reverse
    <3> HIDE DEF D
    <3> QED BY <2>1, <3>1, <3>2, ReadDigit
  <2>2. CASE n # 0
    <3> DEFINE q == n \div 10
               r == n % 10
    <3>1. q \in 0..n - 1 /\ q <= MaxInt /\ r \in 0..9 /\ 10 * q + r = n
      BY <2>2, <1>0
    <3>2. Quot(n, 10) = q /\ Rem(n, 10) = r
      BY DEF Quot, Rem
    <3>3. P(q)
      BY <3>1, <1>1
    <3>4. D[n] = <<digits[r + 1]>> \o D[q]
      <4> HIDE DEF D, q, r
      <4>2. D[n] = <<DigitOf(n)>> \o D[Quot(n, 10)]
        BY <2>2, DigitsFrom DEF D
      <4>3. r >= 0
        BY <3>1
      <4>4. DigitOf(n) = digits[r + 1]
        BY <3>2, <4>3 DEF DigitOf
      <4> QED BY <3>2, <4>2, <4>4
    <3>5. digits[r + 1] \in Digits /\ Value(digits[r + 1]) = r
      <4>1. PICK j \in 1..10 : j = r + 1 /\ j - 1 = r
        BY <3>1
      <4> HIDE DEF r
      <4>2. digits[j] \in Digits /\ Value(digits[j]) = j - 1
        BY DigitFacts
      <4> QED BY <4>1, <4>2
    <3> HIDE DEF D, q, r
    <3>6. PICK x \in Digits, t \in Seq(Digits) : x = digits[r + 1] /\ t = D[q]
      BY <3>3, <3>5
    <3>7. D[n] = <<x>> \o t /\ Value(x) = r
      BY <3>4, <3>5, <3>6
    <3>8. D[n] \in Seq(Digits) /\ D[n] # <<>>
      BY <3>7
    <3>9. Reverse(D[n]) = Append(Reverse(t), x) /\ Reverse(t) \in Seq(Digits)
      BY <3>7, ReverseFacts
    <3>10. p1atoi(Reverse(D[n]), MostNegative)
             = Wrap(10 * p1atoi(Reverse(t), MostNegative) + Value(x), MostNegative)
      BY <3>9, ReadDigit
    <3>11. p1atoi(Reverse(t), MostNegative) = q
      BY <3>3, <3>6
    <3>12. Wrap(10 * q + r, MostNegative) = n
      <4>1. n \in 0..MaxInt
        BY <1>0
      <4> QED BY <4>1, <3>1, WrapFits
    <3> QED BY <3>7, <3>8, <3>10, <3>11, <3>12
  <2> QED BY <2>1, <2>2
<1> HIDE DEF X
<1>2. Nat \subseteq X
  BY <1>1, Induction
<1> QED BY <1>2 DEF X

\* The text of an integer reads back as the integer, but for the most negative one.
LEMMA TextReadsBack ==
  ASSUME NEW n \in MostNegative + 1..MaxInt
  PROVE  Reads(p1itoa(n, MostNegative)) = n
<1>0. MaxInt \in Nat /\ MostNegative = -MaxInt - 1 /\ n \in Int /\ -MaxInt <= n /\ n <= MaxInt
  BY InputsAssumption DEF MostNegative
<1>1. ASSUME NEW m \in Nat, m <= MaxInt, m # 0
      PROVE  /\ DigitsBackwards[m] \in Seq(Digits)
             /\ Reverse(DigitsBackwards[m]) \in Seq(Digits)
             /\ Reverse(DigitsBackwards[m])[1] # "-"
             /\ p1atoi(Reverse(DigitsBackwards[m]), MostNegative) = m
  <2>1. PICK t \in Seq(Digits) : t = DigitsBackwards[m] /\ t # <<>> /\ p1atoi(Reverse(t), MostNegative) = m
    BY <1>1, DigitsReadBack
  <2>2. Reverse(t) \in Seq(Digits) /\ Len(Reverse(t)) = Len(t) /\ 1 \in 1..Len(t)
    BY <2>1 DEF Reverse
  <2>3. Reverse(t)[1] \in Digits
    BY <2>2
  <2> QED BY <2>1, <2>2, <2>3, DigitFacts
<1>2. CASE n = 0
  <2>1. p1itoa(n, MostNegative) = <<"0">>
    BY <1>2 DEF p1itoa
  <2>2. "0" \in Digits /\ Value("0") = 0
    <3>1. digits[1] = "0" /\ 1 \in 1..10
      BY DEF digits
    <3> QED BY <3>1, DigitFacts
  <2>3. <<"0">> = Append(<<>>, "0") /\ <<>> \in Seq(Digits) /\ <<"0">>[1] # "-"
    OBVIOUS
  <2>4. p1atoi(<<"0">>, MostNegative) = Wrap(10 * 0 + 0, MostNegative)
    BY <2>2, <2>3, ReadDigit
  <2>5. Wrap(0, MostNegative) = 0
    <3>1. 0 \in 0..MaxInt
      BY <1>0
    <3> QED BY <3>1, WrapFits
  <2>6. p1atoi(<<"0">>, MostNegative) = 0
    BY <2>4, <2>5
  <2> QED BY <1>2, <2>1, <2>3, <2>6 DEF Reads, p1atol
<1>3. CASE n > 0
  <2>1. p1itoa(n, MostNegative) = Reverse(DigitsBackwards[n])
    BY <1>0, <1>3 DEF p1itoa
  <2>2. n \in Nat /\ n <= MaxInt /\ n # 0
    BY <1>0, <1>3
  <2> QED BY <1>1, <2>1, <2>2 DEF Reads, p1atol
<1>4. CASE n < 0
  <2>1. /\ -n \in Nat /\ -n <= MaxInt /\ -n # 0 /\ n # 0
        /\ Negated(n, MostNegative) = -n
    BY <1>0, <1>4 DEF Negated
  <2>2. PICK m \in Nat : m = -n /\ m <= MaxInt /\ m # 0
    BY <2>1
  <2>3. p1itoa(n, MostNegative) = Reverse(Append(DigitsBackwards[m], "-"))
    BY <1>4, <2>1, <2>2 DEF p1itoa
  <2>4. PICK t \in Seq(Digits) : t = DigitsBackwards[m] /\ p1atoi(Reverse(t), MostNegative) = m
    BY <2>2, <1>1
  <2> DEFINE C == Digits \union {"-"}
  <2>5. t \in Seq(C) /\ "-" \in C /\ Reverse(t) \in Seq(C)
    <3>1. t \in Seq(C)
      OBVIOUS
    <3> HIDE DEF C
    <3>2. Reverse(t) \in Seq(C)
      BY <3>1 DEF Reverse
    <3> QED BY <3>1, <3>2 DEF C
  <2> HIDE DEF C
  <2>6. Reverse(Append(t, "-")) = <<"-">> \o Reverse(t)
    BY <2>5, ReverseFacts
  <2>7. PICK r \in Seq(C) : r = Reverse(t)
    BY <2>5
  <2>8. (<<"-">> \o r)[1] = "-" /\ Tail(<<"-">> \o r) = r
    BY <2>5
  <2>9. Reads(<<"-">> \o r) = -p1atoi(r, MostNegative)
    BY <2>8 DEF Reads
  <2>10. p1itoa(n, MostNegative) = <<"-">> \o r
    BY <2>3, <2>4, <2>6, <2>7
  <2>11. Reads(p1itoa(n, MostNegative)) = -m
    BY <2>4, <2>7, <2>9, <2>10
  <2> QED BY <2>2, <2>11, <1>0
<1> QED BY <1>0, <1>2, <1>3, <1>4

-----------------------------------------------------------------------------
(* Words. *)

Least(S) == CHOOSE j \in S : \A l \in S : j <= l

\* The least element of a set of naturals is in it, and least.
LEMMA LeastIs ==
  ASSUME NEW S \in SUBSET Nat, S # {}
  PROVE  Least(S) \in S /\ \A l \in S : Least(S) <= l
<1>1. \E j \in S : \A l \in S : j <= l
  BY LeastElement
<1> QED BY <1>1 DEF Least

\* The two searches along a line: where they stop and what they pass.
LEMMA Stops ==
  ASSUME NEW buf \in Seq(STRING), NEW i \in 1..Len(buf) + 1, NEW set
  PROVE  /\ FirstFrom(buf, i, set) \in i..Len(buf) + 1
         /\ \A j \in i..FirstFrom(buf, i, set) - 1 : buf[j] \notin set
         /\ FirstFrom(buf, i, set) <= Len(buf) => buf[FirstFrom(buf, i, set)] \in set
<1> DEFINE at == {j \in i..Len(buf) : buf[j] \in set}
           e == FirstFrom(buf, i, set)
<1>0. Len(buf) \in Nat /\ i \in Nat /\ i >= 1
  OBVIOUS
<1>1. CASE at = {}
  <2>1. e = Len(buf) + 1
    BY <1>1 DEF FirstFrom
  <2>2. \A j \in i..Len(buf) : buf[j] \notin set
    BY <1>1
  <2> HIDE DEF e
  <2> QED BY <1>0, <2>1, <2>2 DEF e
<1>2. CASE at # {}
  <2>1. e = Least(at)
    BY <1>2 DEF FirstFrom, Least
  <2>2. at \in SUBSET Nat
    BY <1>0
  <2>3. e \in at /\ \A l \in at : e <= l
    BY <1>2, <2>1, <2>2, LeastIs
  <2> HIDE DEF e
  <2>4. \A j \in i..e - 1 : buf[j] \notin set
    BY <1>0, <2>3
  <2> QED BY <1>0, <2>3, <2>4 DEF e
<1> QED BY <1>1, <1>2

\* Skipping stops at the first character that is no blank, or at the end.
LEMMA SkipStops ==
  ASSUME NEW buf \in Seq(STRING), NEW i \in 1..Len(buf) + 1
  PROVE  /\ SkipBlanks(buf, i) \in i..Len(buf) + 1
         /\ \A j \in i..SkipBlanks(buf, i) - 1 : buf[j] \in whitespace
         /\ SkipBlanks(buf, i) <= Len(buf) => buf[SkipBlanks(buf, i)] \notin whitespace
<1> DEFINE at == {j \in i..Len(buf) : buf[j] \notin whitespace}
           e == SkipBlanks(buf, i)
<1>0. Len(buf) \in Nat /\ i \in Nat /\ i >= 1
  OBVIOUS
<1>1. CASE at = {}
  <2>1. e = Len(buf) + 1
    BY <1>1 DEF SkipBlanks
  <2>2. \A j \in i..Len(buf) : buf[j] \in whitespace
    BY <1>1
  <2> HIDE DEF e
  <2> QED BY <1>0, <2>1, <2>2 DEF e
<1>2. CASE at # {}
  <2>1. e = Least(at)
    BY <1>2 DEF SkipBlanks, Least
  <2>2. at \in SUBSET Nat
    BY <1>0
  <2>3. e \in at /\ \A l \in at : e <= l
    BY <1>2, <2>1, <2>2, LeastIs
  <2> HIDE DEF e
  <2>4. \A j \in i..e - 1 : buf[j] \in whitespace
    BY <1>0, <2>3
  <2> QED BY <1>0, <2>3, <2>4 DEF e
<1> QED BY <1>1, <1>2

\* The fields of a result of p1getword.
LEMMA FieldsOf ==
  \A r, x, w : r = [index |-> x, word |-> w] => r.index = x /\ r.word = w
OBVIOUS

\* What p1getword finds from position i on: nothing but blanks, a quoted word or a bare one.
AtEnd(buf, i, b) == b = Len(buf) + 1 /\ p1getword(buf, i).index = -1
Quoted(buf, i, b, e) ==
  /\ b \in i..Len(buf) /\ buf[b] \in quotes /\ e \in b + 1..Len(buf) + 1
  /\ \A j \in b + 1..e - 1 : buf[j] # buf[b]
  /\ e <= Len(buf) => buf[e] = buf[b]
  /\ p1getword(buf, i).index = IF e <= Len(buf) THEN e + 1 ELSE e
  /\ p1getword(buf, i).word = SubSeq(buf, b + 1, e - 1)
Bare(buf, i, b, e) ==
  /\ b \in i..Len(buf) /\ buf[b] \notin quotes /\ e \in b + 1..Len(buf) + 1
  /\ \A j \in b..e - 1 : buf[j] \notin whitespace
  /\ e <= Len(buf) => buf[e] \in whitespace
  /\ p1getword(buf, i).index = e
  /\ p1getword(buf, i).word = SubSeq(buf, b, e - 1)

\* What p1getword finds after the blanks it skips.
LEMMA NextWord ==
  ASSUME NEW buf \in Seq(STRING), NEW i \in 1..Len(buf) + 1
  PROVE  \E b \in i..Len(buf) + 1 :
           /\ \A j \in i..b - 1 : buf[j] \in whitespace
           /\ b <= Len(buf) => buf[b] \notin whitespace
           /\ \/ AtEnd(buf, i, b)
              \/ \E e \in i..Len(buf) + 1 : Quoted(buf, i, b, e) \/ Bare(buf, i, b, e)
<1> DEFINE b == SkipBlanks(buf, i)
           quoted == b <= Len(buf) /\ buf[b] \in quotes
           first == IF quoted THEN b + 1 ELSE b
           e == FirstFrom(buf, first, IF quoted THEN {buf[b]} ELSE whitespace)
<1>0. Len(buf) \in Nat /\ i \in Nat /\ i >= 1
  OBVIOUS
<1>1. /\ b \in i..Len(buf) + 1
      /\ \A j \in i..b - 1 : buf[j] \in whitespace
      /\ b <= Len(buf) => buf[b] \notin whitespace
  BY SkipStops
<1>2. p1getword(buf, i) =
        IF b > Len(buf) THEN [index |-> -1, word |-> <<>>]
        ELSE [index |-> IF quoted /\ e <= Len(buf) THEN e + 1 ELSE e, word |-> SubSeq(buf, first, e - 1)]
  BY DEF p1getword
<1> HIDE DEF b
<1>3. CASE b > Len(buf)
  <2>1. AtEnd(buf, i, b)
    BY <1>0, <1>1, <1>2, <1>3 DEF AtEnd
  <2> QED BY <1>1, <2>1
<1>4. CASE b <= Len(buf) /\ buf[b] \in quotes
  <2>1. first = b + 1 /\ quoted
    BY <1>4
  <2>2. e = FirstFrom(buf, b + 1, {buf[b]})
    BY <2>1
  <2>3. b + 1 \in 1..Len(buf) + 1
    BY <1>0, <1>1, <1>4
  <2>4. /\ e \in b + 1..Len(buf) + 1
        /\ \A j \in b + 1..e - 1 : buf[j] \notin {buf[b]}
        /\ e <= Len(buf) => buf[e] \in {buf[b]}
    BY <2>2, <2>3, Stops
  <2>5. /\ p1getword(buf, i).index = IF e <= Len(buf) THEN e + 1 ELSE e
        /\ p1getword(buf, i).word = SubSeq(buf, b + 1, e - 1)
    <3>1. ~(b > Len(buf))
      BY <1>0, <1>1, <1>4
    <3> DEFINE at == IF quoted /\ e <= Len(buf) THEN e + 1 ELSE e
               w == SubSeq(buf, first, e - 1)
    <3>2. p1getword(buf, i) = [index |-> at, word |-> w]
      BY <1>2, <3>1
    <3>3. p1getword(buf, i).index = at /\ p1getword(buf, i).word = w
      <4> HIDE DEF at, w
      <4> QED BY <3>2, FieldsOf
    <3> QED BY <2>1, <3>3
  <2> HIDE DEF e
  <2>6. Quoted(buf, i, b, e) /\ e \in i..Len(buf) + 1
    BY <1>0, <1>1, <1>4, <2>4, <2>5 DEF Quoted
  <2> QED BY <1>1, <2>6
<1>5. CASE b <= Len(buf) /\ buf[b] \notin quotes
  <2>1. first = b /\ ~quoted
    BY <1>5
  <2>2. e = FirstFrom(buf, b, whitespace)
    BY <2>1
  <2>3. b \in 1..Len(buf) + 1
    BY <1>0, <1>1, <1>5
  <2>4. /\ e \in b..Len(buf) + 1
        /\ \A j \in b..e - 1 : buf[j] \notin whitespace
        /\ e <= Len(buf) => buf[e] \in whitespace
    BY <2>2, <2>3, Stops
  <2>5. /\ p1getword(buf, i).index = e
        /\ p1getword(buf, i).word = SubSeq(buf, b, e - 1)
    <3>1. ~(b > Len(buf))
      BY <1>0, <1>1, <1>5
    <3> DEFINE at == IF quoted /\ e <= Len(buf) THEN e + 1 ELSE e
               w == SubSeq(buf, first, e - 1)
    <3>2. p1getword(buf, i) = [index |-> at, word |-> w]
      BY <1>2, <3>1
    <3>3. p1getword(buf, i).index = at /\ p1getword(buf, i).word = w
      <4> HIDE DEF at, w
      <4> QED BY <3>2, FieldsOf
    <3> QED BY <2>1, <3>3
  <2> HIDE DEF e
  <2>6. e # b
    BY <1>1, <1>5, <2>4
  <2>7. Bare(buf, i, b, e) /\ e \in i..Len(buf) + 1
    BY <1>0, <1>1, <1>5, <2>4, <2>5, <2>6 DEF Bare
  <2> QED BY <1>1, <2>7
<1> QED BY <1>0, <1>1, <1>3, <1>4, <1>5

\* p1getword goes forward, so the loop of main ends.
LEMMA GoesForward ==
  ASSUME NEW buf \in Seq(STRING), NEW i \in 1..Len(buf) + 1, p1getword(buf, i).index # -1
  PROVE  /\ p1getword(buf, i).index \in i + 1..Len(buf) + 1
         /\ p1getword(buf, i).word \in Seq(STRING)
<1>0. Len(buf) \in Nat /\ i \in Nat /\ i >= 1
  OBVIOUS
<1>1. PICK b \in i..Len(buf) + 1 :
        \/ AtEnd(buf, i, b)
        \/ \E e \in i..Len(buf) + 1 : Quoted(buf, i, b, e) \/ Bare(buf, i, b, e)
  BY NextWord
<1>2. PICK e \in i..Len(buf) + 1 : Quoted(buf, i, b, e) \/ Bare(buf, i, b, e)
  BY <1>1 DEF AtEnd
<1>3. \A j \in 1..Len(buf) + 1 : SubSeq(buf, j, e - 1) \in Seq(STRING)
  <2>1. ASSUME NEW j \in 1..Len(buf) + 1 PROVE SubSeq(buf, j, e - 1) \in Seq(STRING)
    <3>1. e - 1 \in 0..Len(buf)
      BY <1>0
    <3>2. \A l \in j..e - 1 : buf[l] \in STRING
      BY <1>0
    <3> QED BY <1>0, <3>1, <3>2
  <2> QED BY <2>1
<1>4. CASE Quoted(buf, i, b, e)
  <2>1. b + 1 \in 1..Len(buf) + 1
    BY <1>0, <1>4 DEF Quoted
  <2> QED BY <1>0, <1>3, <1>4, <2>1 DEF Quoted
<1>5. CASE Bare(buf, i, b, e)
  <2>1. b \in 1..Len(buf) + 1
    BY <1>0, <1>5 DEF Bare
  <2> QED BY <1>0, <1>3, <1>5, <2>1 DEF Bare
<1> QED BY <1>2, <1>4, <1>5

ArgsBody(f, buf) ==
  [i \in 1..Len(buf) + 1 |->
     IF p1getword(buf, i).index = -1 THEN <<>>
     ELSE <<p1getword(buf, i).word>> \o f[p1getword(buf, i).index]]

\* main's loop over the words ends, and gives a list of words.
LEMMA ArgsDef ==
  ASSUME NEW buf \in Seq(STRING)
  PROVE  /\ ArgsFrom(buf) = ArgsBody(ArgsFrom(buf), buf)
         /\ \A i \in 1..Len(buf) + 1 : ArgsFrom(buf)[i] \in Seq(Seq(STRING))
<1> DEFINE D == 1..Len(buf) + 1
           U == Seq(Seq(STRING))
           size == [i \in D |-> Len(buf) + 1 - i]
           E == [f \in [D -> U] |-> ArgsBody(f, buf)]
           Next(i) == p1getword(buf, i).index
           Word(i) == p1getword(buf, i).word
<1>0. Len(buf) \in Nat
  OBVIOUS
<1>1. U # {}
  <2>1. <<>> \in U
    OBVIOUS
  <2> QED BY <2>1
<1>2. size \in [D -> Nat]
  BY <1>0
<1>3. ASSUME NEW i \in D, Next(i) # -1
      PROVE  Next(i) \in D /\ size[Next(i)] < size[i] /\ Word(i) \in Seq(STRING)
  <2>1. Next(i) \in i + 1..Len(buf) + 1 /\ Word(i) \in Seq(STRING)
    BY <1>3, GoesForward
  <2> HIDE DEF Next, Word
  <2>2. Next(i) \in D
    BY <2>1, <1>0
  <2> QED BY <2>1, <2>2, <1>0
<1>b. \A f : ArgsBody(f, buf) = [i \in D |-> IF Next(i) = -1 THEN <<>> ELSE <<Word(i)>> \o f[Next(i)]]
  BY DEF ArgsBody
<1>d. ArgsFrom(buf) = CHOOSE f : f = [i \in D |-> IF Next(i) = -1 THEN <<>> ELSE <<Word(i)>> \o f[Next(i)]]
  BY DEF ArgsFrom
<1> HIDE DEF size, Next, Word, D
<1>4. ASSUME NEW x \in Seq(STRING), NEW t \in U PROVE <<x>> \o t \in U
  OBVIOUS
<1>e. <<>> \in U
  OBVIOUS
<1> HIDE DEF U
<1>5. ASSUME NEW f \in [D -> U] PROVE ArgsBody(f, buf) \in [D -> U]
  <2>1. ASSUME NEW i \in D, Next(i) # -1 PROVE <<Word(i)>> \o f[Next(i)] \in U
    BY <2>1, <1>3, <1>4
  <2> QED BY <2>1, <1>b, <1>e
<1>6. ASSUME NEW f \in [D -> U], NEW g \in [D -> U], NEW i \in D,
             \A m \in D : size[m] < size[i] => f[m] = g[m]
      PROVE  ArgsBody(f, buf)[i] = ArgsBody(g, buf)[i]
  <2>1. Next(i) # -1 => f[Next(i)] = g[Next(i)]
    BY <1>3, <1>6
  <2>2. ArgsBody(f, buf)[i] = IF Next(i) = -1 THEN <<>> ELSE <<Word(i)>> \o f[Next(i)]
    BY <1>b
  <2>3. ArgsBody(g, buf)[i] = IF Next(i) = -1 THEN <<>> ELSE <<Word(i)>> \o g[Next(i)]
    BY <1>b
  <2> QED BY <2>1, <2>2, <2>3
<1>7. Shrinks(D, [D -> U], size, E)
  BY <1>2, <1>5, <1>6 DEF Shrinks
<1>8. Defines(D, U, E)
  <2> HIDE DEF E
  <2> QED BY <1>1, <1>7, SimpleRecursion
<1>9. PICK f \in [D -> U] : f = ArgsBody(f, buf)
  BY <1>8 DEF Defines
<1> DEFINE A == ArgsFrom(buf)
<1>10. A = [i \in D |-> IF Next(i) = -1 THEN <<>> ELSE <<Word(i)>> \o A[Next(i)]]
  BY <1>9, <1>b, <1>d
<1> HIDE DEF A
<1>11. D \subseteq {i \in D : A[i] \in U}
  <2> DEFINE X == {i \in D : A[i] \in U}
  <2>1. \A i \in D : (\A m \in D : size[m] < size[i] => m \in X) => i \in X
    <3> SUFFICES ASSUME NEW i \in D, \A m \in D : size[m] < size[i] => m \in X PROVE A[i] \in U
      OBVIOUS
    <3>1. CASE Next(i) = -1
      BY <3>1, <1>10, <1>e
    <3>2. CASE Next(i) # -1
      <4>1. A[i] = <<Word(i)>> \o A[Next(i)]
        BY <3>2, <1>10
      <4>2. A[Next(i)] \in U
        BY <3>2, <1>3
      <4> QED BY <3>2, <4>1, <4>2, <1>3, <1>4
    <3> QED BY <3>1, <3>2
  <2> HIDE DEF X
  <2>2. D \subseteq X
    BY <1>2, <2>1, SizeInduction
  <2> QED BY <2>2 DEF X
<1> QED BY <1>10, <1>11, <1>b DEF A, D, U

-----------------------------------------------------------------------------
(* One pass over the characters. *)

Modes == {"blank", "bare"} \union quotes
States == [mode : Modes, words : Seq(Seq(STRING)), word : Seq(STRING)]
Started == [mode |-> "blank", words |-> <<>>, word |-> <<>>]
ScanBody(f, line) == [j \in 0..Len(line) |-> IF j = 0 THEN Started ELSE Scan(f[j - 1], line[j])]

\* What Scan does, by the mode and the character.
LEMMA ScanCases ==
  ASSUME NEW st \in States, NEW c \in STRING
  PROVE  /\ st.mode = "blank" /\ c \in whitespace => Scan(st, c) = st
         /\ st.mode = "blank" /\ c \notin whitespace /\ c \in quotes =>
              Scan(st, c) = [mode |-> c, words |-> st.words, word |-> <<>>]
         /\ st.mode = "blank" /\ c \notin whitespace /\ c \notin quotes =>
              Scan(st, c) = [mode |-> "bare", words |-> st.words, word |-> <<c>>]
         /\ st.mode = "bare" /\ c \in whitespace =>
              Scan(st, c) = [mode |-> "blank", words |-> Append(st.words, st.word), word |-> <<>>]
         /\ st.mode \in quotes /\ c = st.mode =>
              Scan(st, c) = [mode |-> "blank", words |-> Append(st.words, st.word), word |-> <<>>]
         /\ st.mode = "bare" /\ c \notin whitespace =>
              Scan(st, c) = [mode |-> "bare", words |-> st.words, word |-> Append(st.word, c)]
         /\ st.mode \in quotes /\ c # st.mode =>
              Scan(st, c) = [mode |-> st.mode, words |-> st.words, word |-> Append(st.word, c)]
         /\ Scan(st, c) \in States
<1>0. /\ st = [mode |-> st.mode, words |-> st.words, word |-> st.word]
      /\ st.mode \in Modes /\ st.words \in Seq(Seq(STRING)) /\ st.word \in Seq(STRING)
      /\ "blank" \notin quotes /\ "bare" \notin quotes
      /\ "blank" \in Modes /\ "bare" \in Modes /\ \A q \in quotes : q \in Modes
  BY DEF States, Modes, quotes
<1> DEFINE grown == [mode |-> st.mode, words |-> st.words, word |-> Append(st.word, c)]
           closed == [mode |-> "blank", words |-> Append(st.words, st.word), word |-> <<>>]
           quoted == [mode |-> c, words |-> st.words, word |-> <<>>]
           begun == [mode |-> "bare", words |-> st.words, word |-> <<c>>]
<1>3. /\ grown \in States /\ closed \in States /\ (c \in quotes => quoted \in States) /\ begun \in States
  <2>1. /\ Append(st.word, c) \in Seq(STRING) /\ Append(st.words, st.word) \in Seq(Seq(STRING))
        /\ <<>> \in Seq(STRING) /\ <<c>> \in Seq(STRING)
    BY <1>0
  <2>2. \A m \in Modes, w \in Seq(Seq(STRING)), v \in Seq(STRING) :
          [mode |-> m, words |-> w, word |-> v] \in States
    BY DEF States
  <2>4. grown \in States
    BY <1>0, <2>1, <2>2
  <2>5. closed \in States
    BY <1>0, <2>1, <2>2
  <2>6. c \in quotes => quoted \in States
    BY <1>0, <2>1, <2>2
  <2>7. begun \in States
    BY <1>0, <2>1, <2>2
  <2> QED BY <2>4, <2>5, <2>6, <2>7
<1>2. /\ st.mode = "blank" /\ c \in whitespace => Scan(st, c) = st
      /\ st.mode = "blank" /\ c \notin whitespace /\ c \in quotes => Scan(st, c) = quoted
      /\ st.mode = "blank" /\ c \notin whitespace /\ c \notin quotes => Scan(st, c) = begun
      /\ st.mode # "blank" /\ (IF st.mode = "bare" THEN c \in whitespace ELSE c \in quotes /\ c = st.mode)
           => Scan(st, c) = closed
      /\ st.mode # "blank" /\ ~(IF st.mode = "bare" THEN c \in whitespace ELSE c \in quotes /\ c = st.mode)
           => Scan(st, c) = grown
  BY DEF Scan
<1> HIDE DEF grown, closed, quoted, begun
<1>4. Scan(st, c) \in States
  BY <1>2, <1>3
<1>5. /\ st.mode = "blank" /\ c \in whitespace => Scan(st, c) = st
      /\ st.mode = "blank" /\ c \notin whitespace /\ c \in quotes => Scan(st, c) = quoted
      /\ st.mode = "blank" /\ c \notin whitespace /\ c \notin quotes => Scan(st, c) = begun
      /\ st.mode = "bare" /\ c \in whitespace => Scan(st, c) = closed
      /\ st.mode \in quotes /\ c = st.mode => Scan(st, c) = closed
      /\ st.mode = "bare" /\ c \notin whitespace => Scan(st, c) = grown
      /\ st.mode \in quotes /\ c # st.mode => Scan(st, c) = grown
  BY <1>0, <1>2
<1> QED BY <1>4, <1>5 DEF grown, closed, quoted, begun

\* The states of the pass over the line are states, each from the one before it.
LEMMA ScanDef ==
  ASSUME NEW line \in Seq(STRING)
  PROVE  /\ ScanStates(line) \in [0..Len(line) -> States]
         /\ ScanStates(line)[0] = Started
         /\ \A j \in 1..Len(line) : ScanStates(line)[j] = Scan(ScanStates(line)[j - 1], line[j])
<1> DEFINE n == Len(line)
           D == 0..n
           size == [j \in D |-> j]
           E == [f \in [D -> States] |-> ScanBody(f, line)]
           S == ScanStates(line)
<1>0. n \in Nat /\ \A j \in 1..n : line[j] \in STRING
  OBVIOUS
<1>1. size \in [D -> Nat]
  OBVIOUS
<1>2. Started \in States
  <2>1. <<>> \in Seq(Seq(STRING)) /\ <<>> \in Seq(STRING)
    OBVIOUS
  <2> QED BY <2>1 DEF States, Started, Modes
<1>b. \A f : ScanBody(f, line) = [j \in D |-> IF j = 0 THEN Started ELSE Scan(f[j - 1], line[j])]
  BY DEF ScanBody
<1>d. S = CHOOSE f : f = [j \in D |-> IF j = 0 THEN Started ELSE Scan(f[j - 1], line[j])]
  BY DEF ScanStates, Started
<1>t. ASSUME NEW st \in States, NEW j \in D, j # 0 PROVE Scan(st, line[j]) \in States /\ j - 1 \in D
  <2>1. line[j] \in STRING /\ j - 1 \in D
    BY <1>0, <1>t
  <2> QED BY <2>1, ScanCases
<1>3. ASSUME NEW f \in [D -> States] PROVE ScanBody(f, line) \in [D -> States]
  <2>1. ASSUME NEW j \in D, j # 0 PROVE Scan(f[j - 1], line[j]) \in States
    <3>1. j - 1 \in D
      BY <1>0, <2>1
    <3> HIDE DEF D
    <3> QED BY <2>1, <3>1, <1>t
  <2> HIDE DEF D
  <2>2. ScanBody(f, line) = [j \in D |-> IF j = 0 THEN Started ELSE Scan(f[j - 1], line[j])]
    BY <1>b
  <2> QED BY <2>1, <2>2, <1>2
<1>4. ASSUME NEW f \in [D -> States], NEW g \in [D -> States], NEW j \in D,
             \A l \in D : size[l] < size[j] => f[l] = g[l]
      PROVE  E[f][j] = E[g][j]
  <2>1. j # 0 => f[j - 1] = g[j - 1]
    <3>1. j # 0 => j - 1 \in D /\ size[j - 1] < size[j]
      OBVIOUS
    <3> QED BY <3>1, <1>4
  <2> QED BY <2>1 DEF ScanBody
<1>5. Shrinks(D, [D -> States], size, E)
  BY <1>1, <1>3, <1>4 DEF Shrinks
<1>6. Defines(D, States, E)
  <2>1. States # {}
    BY <1>2
  <2> HIDE DEF E, size, D
  <2> QED BY <1>5, <2>1, SimpleRecursion
<1>7. PICK f \in [D -> States] : f = ScanBody(f, line)
  BY <1>6 DEF Defines
<1>8. S = [j \in D |-> IF j = 0 THEN Started ELSE Scan(S[j - 1], line[j])]
  <2> HIDE DEF D, S
  <2> QED BY <1>7, <1>b, <1>d
<1> HIDE DEF S
<1>9. S[0] = Started /\ \A j \in 1..n : S[j] = Scan(S[j - 1], line[j])
  BY <1>8, <1>0
<1>10. \A j \in D : S[j] \in States
  <2> DEFINE X == {j \in Nat : j <= n => S[j] \in States}
  <2>1. ASSUME NEW j \in Nat, \A m \in 0..j - 1 : m \in X PROVE j \in X
    <3> SUFFICES ASSUME j <= n PROVE S[j] \in States
      OBVIOUS
    <3>1. CASE j = 0
      BY <3>1, <1>2, <1>9
    <3>2. CASE j # 0
      <4>1. j - 1 \in 0..j - 1 /\ j - 1 <= n /\ j \in D /\ j \in 1..n
        BY <3>2, <1>0
      <4>2. S[j - 1] \in States
        BY <4>1, <2>1
      <4>3. Scan(S[j - 1], line[j]) \in States
        BY <3>2, <4>1, <4>2, <1>t
      <4> QED BY <4>1, <4>3, <1>9
    <3> QED BY <3>1, <3>2
  <2> HIDE DEF X
  <2>2. Nat \subseteq X
    BY <2>1, Induction
  <2> QED BY <2>2, <1>0 DEF X
<1> QED BY <1>8, <1>9, <1>10 DEF S, D

\* Induction along a stretch of the line.
LEMMA AlongLine ==
  ASSUME NEW low \in Nat, NEW high \in Nat, NEW X, low \in X,
         \A j \in low..high - 1 : j \in X => j + 1 \in X
  PROVE  low..high \subseteq X
<1> DEFINE Y == {n \in Nat : low + n <= high => low + n \in X}
<1>1. ASSUME NEW n \in Nat, \A m \in 0..n - 1 : m \in Y PROVE n \in Y
  <2> SUFFICES ASSUME low + n <= high PROVE low + n \in X
    OBVIOUS
  <2>1. CASE n = 0
    BY <2>1
  <2>2. CASE n # 0
    <3>1. n - 1 \in 0..n - 1 /\ low + (n - 1) \in low..high - 1 /\ low + (n - 1) + 1 = low + n
      BY <2>2
    <3>2. low + (n - 1) \in X
      BY <3>1, <1>1
    <3> QED BY <3>1, <3>2
  <2> QED BY <2>1, <2>2
<1> HIDE DEF Y
<1>2. Nat \subseteq Y
  BY <1>1, Induction
<1>3. ASSUME NEW j \in low..high PROVE j \in X
  <2>1. j - low \in Nat /\ low + (j - low) = j /\ low + (j - low) <= high
    OBVIOUS
  <2> QED BY <2>1, <1>2 DEF Y
<1> QED BY <1>3

\* A stretch of the line and the character after it.
LEMMA GrowsBy ==
  ASSUME NEW buf \in Seq(STRING), NEW first \in 1..Len(buf) + 1, NEW j \in first - 1..Len(buf) - 1
  PROVE  Append(SubSeq(buf, first, j), buf[j + 1]) = SubSeq(buf, first, j + 1)
<1>1. /\ j \in Int /\ j + 1 \in 1..Len(buf) /\ first \in Int /\ first >= 1 /\ first <= j + 1
      /\ Len(buf) \in Nat
  OBVIOUS
<1>2. \A l \in first..j + 1 : buf[l] \in STRING
  BY <1>1
<1> QED BY <1>1, <1>2

\* The word that begins at first has been read up to position j, and goes on to e - 1.
InWord(buf, first, j, m, W) ==
  ScanStates(buf)[j] = [mode |-> m, words |-> W, word |-> SubSeq(buf, first, j)]
GoesOn(buf, b, e, m) ==
  \A j \in b + 1..e - 1 : IF m = "bare" THEN buf[j] \notin whitespace ELSE buf[j] # m

\* One word, read from the quote or from its first character on.
LEMMA ScansWord ==
  ASSUME NEW buf \in Seq(STRING), NEW first \in 1..Len(buf) + 1, NEW b \in 1..Len(buf),
         first \in {b, b + 1},
         NEW e \in b + 1..Len(buf) + 1, NEW m, NEW W,
         m = "bare" \/ m \in quotes, GoesOn(buf, b, e, m), InWord(buf, first, b, m, W)
  PROVE  InWord(buf, first, e - 1, m, W)
<1> DEFINE S == ScanStates(buf)
           X == {j \in Nat : S[j] = [mode |-> m, words |-> W, word |-> SubSeq(buf, first, j)]}
<1>0. Len(buf) \in Nat /\ b \in Nat /\ e - 1 \in Nat /\ e - 1 \in b..e - 1 /\ e - 1 <= Len(buf)
  OBVIOUS
<1>1. b \in X
  BY <1>0 DEF InWord
<1>2. ASSUME NEW j \in b..e - 1 - 1, j \in X PROVE j + 1 \in X
  <2>1. /\ j + 1 \in 1..Len(buf) /\ j + 1 \in b + 1..e - 1 /\ j + 1 - 1 = j
        /\ j \in first - 1..Len(buf) - 1 /\ j \in 0..Len(buf)
    BY <1>0
  <2>2. S[j] \in States /\ S[j + 1] = Scan(S[j], buf[j + 1])
    <3>1. S \in [0..Len(buf) -> States] /\ \A l \in 1..Len(buf) : S[l] = Scan(S[l - 1], buf[l])
      BY ScanDef
    <3> HIDE DEF S
    <3> QED BY <2>1, <3>1
  <2>3. S[j] = [mode |-> m, words |-> W, word |-> SubSeq(buf, first, j)]
    BY <1>2
  <2>4. S[j].mode = m /\ S[j].words = W /\ S[j].word = SubSeq(buf, first, j)
    BY <2>3
  <2>5. buf[j + 1] \in STRING
    BY <2>1
  <2> HIDE DEF S
  <2>6. S[j + 1] = [mode |-> m, words |-> W, word |-> Append(SubSeq(buf, first, j), buf[j + 1])]
    <3>1. PICK st \in States : st = S[j]
      BY <2>2
    <3>2. PICK c \in STRING : c = buf[j + 1]
      BY <2>5
    <3>3. st.mode = m /\ S[j + 1] = Scan(st, c)
      BY <2>2, <2>4, <3>1, <3>2
    <3>4. Scan(st, c) = [mode |-> st.mode, words |-> st.words, word |-> Append(st.word, c)]
      <4>1. CASE m = "bare"
        <5>1. c \notin whitespace
          BY <2>1, <3>2, <4>1 DEF GoesOn
        <5> QED BY <3>3, <4>1, <5>1, ScanCases
      <4>2. CASE m \in quotes
        <5>1. c # m
          BY <2>1, <3>2, <4>2 DEF quotes, GoesOn
        <5> QED BY <3>3, <4>2, <5>1, ScanCases
      <4> QED BY <4>1, <4>2
    <3> QED BY <2>4, <3>1, <3>2, <3>3, <3>4
  <2>7. Append(SubSeq(buf, first, j), buf[j + 1]) = SubSeq(buf, first, j + 1)
    BY <2>1, GrowsBy
  <2> QED BY <1>0, <2>1, <2>6, <2>7
<1> HIDE DEF X, S
<1>3. b..e - 1 \subseteq X
  BY <1>0, <1>1, <1>2, AlongLine
<1> QED BY <1>0, <1>3 DEF X, S, InWord

-----------------------------------------------------------------------------
(* main's loop and the pass agree. *)

\* A word at the end of a list of words is the first of those that follow.
LEMMA AppendConcat ==
  ASSUME NEW T, NEW W \in Seq(T), NEW w \in T, NEW R \in Seq(T)
  PROVE  Append(W, w) \o R = W \o (<<w>> \o R)
OBVIOUS

\* Where main's loop may stand: at the end, or not within a word.
Outside(buf, i) ==
  \/ i = Len(buf) + 1
  \/ ScanStates(buf)[i - 1].mode = "blank"
  \/ ScanStates(buf)[i - 1].mode = "bare" /\ buf[i] \in whitespace

\* Blanks end the bare word before them, if there is one, and change nothing else.
LEMMA ScansBlanks ==
  ASSUME NEW buf \in Seq(STRING), NEW i \in 1..Len(buf), NEW b \in i..Len(buf) + 1,
         Outside(buf, i), \A j \in i..b - 1 : buf[j] \in whitespace,
         b <= Len(buf) => buf[b] \notin whitespace
  PROVE  /\ ScanStates(buf)[b - 1].mode = "blank"
         /\ ScanStates(buf)[b - 1].words = WordsOf(ScanStates(buf)[i - 1])
<1> DEFINE S == ScanStates(buf)
           W == WordsOf(S[i - 1])
           X == {j \in Nat : S[j].mode = "blank" /\ S[j].words = W}
<1>0. Len(buf) \in Nat /\ i \in Nat /\ i >= 1 /\ i <= Len(buf) /\ b \in Nat /\ i - 1 \in 0..Len(buf)
  OBVIOUS
<1>1. /\ \A j \in 0..Len(buf) : S[j] \in States
      /\ \A j \in 1..Len(buf) : S[j] = Scan(S[j - 1], buf[j])
  BY ScanDef
<1>2. \/ S[i - 1].mode = "blank"
      \/ S[i - 1].mode = "bare" /\ buf[i] \in whitespace
  <2>1. i # Len(buf) + 1
    BY <1>0
  <2> QED BY <2>1 DEF Outside
<1> HIDE DEF S
<1>3. CASE b = i
  <2>1. buf[i] \notin whitespace
    BY <1>0, <1>3
  <2> QED BY <1>2, <1>3, <2>1 DEF WordsOf, S
<1>4. CASE b # i
  <2>1. i \in i..b - 1 /\ buf[i] \in whitespace /\ buf[i] \in STRING /\ S[i - 1] \in States
        /\ S[i] = Scan(S[i - 1], buf[i]) /\ b - 1 \in i..b - 1 /\ b - 1 \in Nat
    BY <1>0, <1>1, <1>4
  <2>2. i \in X
    <3>1. CASE S[i - 1].mode = "blank"
      <4>1. S[i] = S[i - 1]
        BY <2>1, <3>1, ScanCases
      <4> QED BY <1>0, <3>1, <4>1 DEF WordsOf
    <3>2. CASE S[i - 1].mode = "bare"
      <4>1. S[i] = [mode |-> "blank", words |-> Append(S[i - 1].words, S[i - 1].word), word |-> <<>>]
        BY <2>1, <3>2, ScanCases
      <4> QED BY <1>0, <3>2, <4>1 DEF WordsOf
    <3> QED BY <1>2, <3>1, <3>2
  <2>3. ASSUME NEW j \in i..b - 1 - 1, j \in X PROVE j + 1 \in X
    <3>1. /\ j + 1 \in i..b - 1 /\ j + 1 \in 1..Len(buf) /\ j \in 0..Len(buf) /\ j + 1 - 1 = j
          /\ j + 1 \in Nat
      BY <1>0, <1>4
    <3>2. /\ buf[j + 1] \in whitespace /\ buf[j + 1] \in STRING
          /\ S[j] \in States /\ S[j + 1] = Scan(S[j], buf[j + 1])
      BY <1>1, <3>1
    <3>3. S[j].mode = "blank" /\ S[j].words = W
      BY <2>3
    <3>4. S[j + 1] = S[j]
      BY <3>2, <3>3, ScanCases
    <3> QED BY <3>1, <3>3, <3>4
  <2> HIDE DEF X
  <2>4. i..b - 1 \subseteq X
    BY <1>0, <2>1, <2>2, <2>3, AlongLine
  <2> QED BY <2>1, <2>4 DEF X, S
<1> QED BY <1>3, <1>4

\* A stretch of one character.
LEMMA OneLong ==
  ASSUME NEW buf \in Seq(STRING), NEW b \in 1..Len(buf)
  PROVE  SubSeq(buf, b, b) = <<buf[b]>>
<1>1. b \in Int /\ b - 1 \in b - 1..Len(buf) - 1 /\ b - 1 + 1 = b /\ b \in 1..Len(buf) + 1
  OBVIOUS
<1>2. Append(SubSeq(buf, b, b - 1), buf[b]) = SubSeq(buf, b, b)
  <2>1. Append(SubSeq(buf, b, b - 1), buf[b - 1 + 1]) = SubSeq(buf, b, b - 1 + 1)
    BY <1>1, GrowsBy
  <2> QED BY <1>1, <2>1
<1>3. SubSeq(buf, b, b - 1) = <<>>
  BY <1>1
<1>4. buf[b] \in STRING
  OBVIOUS
<1>5. Append(<<>>, buf[b]) = <<buf[b]>>
  BY <1>4
<1> QED BY <1>2, <1>3, <1>5

\* One round of main's loop and the characters it passes in one pass.
LEMMA OneWord ==
  ASSUME NEW buf \in Seq(STRING), NEW i \in 1..Len(buf), Outside(buf, i),
         p1getword(buf, i).index # -1
  PROVE  /\ Outside(buf, p1getword(buf, i).index)
         /\ WordsOf(ScanStates(buf)[p1getword(buf, i).index - 1])
              = Append(WordsOf(ScanStates(buf)[i - 1]), p1getword(buf, i).word)
<1> DEFINE S == ScanStates(buf)
           W == WordsOf(S[i - 1])
<1>0. Len(buf) \in Nat /\ i \in Nat /\ i >= 1 /\ i <= Len(buf) /\ i \in 1..Len(buf) + 1
  OBVIOUS
<1>1. /\ \A j \in 0..Len(buf) : S[j] \in States
      /\ \A j \in 1..Len(buf) : S[j] = Scan(S[j - 1], buf[j])
  BY ScanDef
<1>2. PICK b \in i..Len(buf) + 1 :
        /\ \A j \in i..b - 1 : buf[j] \in whitespace
        /\ b <= Len(buf) => buf[b] \notin whitespace
        /\ \/ AtEnd(buf, i, b)
           \/ \E e \in i..Len(buf) + 1 : Quoted(buf, i, b, e) \/ Bare(buf, i, b, e)
  BY <1>0, NextWord
<1>3. PICK e \in i..Len(buf) + 1 : Quoted(buf, i, b, e) \/ Bare(buf, i, b, e)
  BY <1>2 DEF AtEnd
<1>4. S[b - 1].mode = "blank" /\ S[b - 1].words = W
  BY <1>2, ScansBlanks
<1>5. b \in i..Len(buf) /\ b \in 1..Len(buf) /\ e \in b + 1..Len(buf) + 1
  BY <1>0, <1>3 DEF Quoted, Bare
<1>6. PICK st \in States : st = S[b - 1] /\ st.mode = "blank" /\ st.words = W
  BY <1>0, <1>1, <1>4, <1>5
<1>7. PICK c \in STRING : c = buf[b] /\ c \notin whitespace
  <2>1. buf[b] \in STRING /\ b <= Len(buf)
    BY <1>0, <1>5
  <2> QED BY <1>2, <2>1
<1>8. S[b] = Scan(st, c)
  BY <1>1, <1>5, <1>6, <1>7
<1>9. /\ e - 1 \in 1..Len(buf) /\ e - 1 \in Nat /\ e \in Nat
      /\ e <= Len(buf) => e \in 1..Len(buf) /\ e - 1 \in 0..Len(buf) /\ buf[e] \in STRING
  BY <1>0, <1>5
<1>10. CASE Quoted(buf, i, b, e)
  <2> DEFINE w == SubSeq(buf, b + 1, e - 1)
  <2>1. /\ c \in quotes /\ \A j \in b + 1..e - 1 : buf[j] # c
        /\ e <= Len(buf) => buf[e] = c
        /\ p1getword(buf, i).index = IF e <= Len(buf) THEN e + 1 ELSE e
        /\ p1getword(buf, i).word = w
    BY <1>7, <1>10 DEF Quoted
  <2>2. S[b] = [mode |-> c, words |-> W, word |-> <<>>]
    <3>1. Scan(st, c) = [mode |-> c, words |-> st.words, word |-> <<>>]
      BY <1>6, <1>7, <2>1, ScanCases
    <3> HIDE DEF S, W
    <3> QED BY <1>6, <1>8, <3>1
  <2>3. SubSeq(buf, b + 1, b) = <<>>
    BY <1>5
  <2>4. S[e - 1] = [mode |-> c, words |-> W, word |-> w]
    <3>1. c # "bare"
      BY <2>1 DEF quotes
    <3>3. PICK first \in 1..Len(buf) + 1 : first = b + 1 /\ first \in {b, b + 1}
      BY <1>0, <1>5
    <3>4. GoesOn(buf, b, e, c)
      BY <2>1, <3>1 DEF GoesOn
    <3> HIDE DEF W
    <3>5. InWord(buf, first, b, c, W)
      BY <2>2, <2>3, <3>3 DEF InWord
    <3>6. InWord(buf, first, e - 1, c, W)
      BY <1>5, <2>1, <3>3, <3>4, <3>5, ScansWord
    <3> QED BY <3>3, <3>6 DEF InWord
  <2> HIDE DEF w, S, W
  <2>5. c # "blank"
    BY <2>1 DEF quotes
  <2>6. CASE e <= Len(buf)
    <3>1. S[e] = [mode |-> "blank", words |-> Append(W, w), word |-> <<>>]
      <4>1. PICK u \in States : u = S[e - 1]
        BY <1>1, <1>9
      <4>2. u.mode = c /\ u.words = W /\ u.word = w
        BY <2>4, <4>1
      <4>3. S[e] = Scan(u, c)
        BY <1>1, <1>9, <2>1, <2>6, <4>1
      <4>4. Scan(u, c) = [mode |-> "blank", words |-> Append(u.words, u.word), word |-> <<>>]
        BY <2>1, <4>2, ScanCases
      <4> QED BY <4>2, <4>3, <4>4
    <3>2. p1getword(buf, i).index = e + 1 /\ e + 1 - 1 = e
      BY <2>1, <2>6, <1>9
    <3>3. S[e].mode = "blank" /\ WordsOf(S[e]) = Append(W, w)
      BY <3>1 DEF WordsOf
    <3> QED BY <2>1, <3>2, <3>3 DEF Outside, S, W
  <2>7. CASE ~(e <= Len(buf))
    <3>1. p1getword(buf, i).index = e /\ e = Len(buf) + 1
      BY <2>1, <2>7, <1>0, <1>5
    <3>2. WordsOf(S[e - 1]) = Append(W, w)
      BY <2>4, <2>5 DEF WordsOf
    <3> QED BY <2>1, <3>1, <3>2 DEF Outside, S, W
  <2> QED BY <2>6, <2>7
<1>11. CASE Bare(buf, i, b, e)
  <2> DEFINE w == SubSeq(buf, b, e - 1)
  <2>1. /\ c \notin quotes /\ \A j \in b..e - 1 : buf[j] \notin whitespace
        /\ e <= Len(buf) => buf[e] \in whitespace
        /\ p1getword(buf, i).index = e
        /\ p1getword(buf, i).word = w
    BY <1>7, <1>11 DEF Bare
  <2>2. S[b] = [mode |-> "bare", words |-> W, word |-> <<c>>]
    <3>1. Scan(st, c) = [mode |-> "bare", words |-> st.words, word |-> <<c>>]
      BY <1>6, <1>7, <2>1, ScanCases
    <3> HIDE DEF S, W
    <3> QED BY <1>6, <1>8, <3>1
  <2>3. SubSeq(buf, b, b) = <<c>>
    BY <1>5, <1>7, OneLong
  <2>4. S[e - 1] = [mode |-> "bare", words |-> W, word |-> w]
    <3>1. PICK m : m = "bare"
      OBVIOUS
    <3>3. PICK first \in 1..Len(buf) + 1 : first = b /\ first \in {b, b + 1}
      BY <1>0, <1>5
    <3>4. GoesOn(buf, b, e, m)
      BY <2>1, <3>1, <1>0, <1>5 DEF GoesOn
    <3> HIDE DEF W
    <3>5. InWord(buf, first, b, m, W)
      BY <2>2, <2>3, <3>1, <3>3 DEF InWord
    <3>6. InWord(buf, first, e - 1, m, W)
      BY <1>5, <3>1, <3>3, <3>4, <3>5, ScansWord
    <3> QED BY <3>1, <3>3, <3>6 DEF InWord
  <2> HIDE DEF w, S, W
  <2>5. S[e - 1].mode = "bare" /\ WordsOf(S[e - 1]) = Append(W, w)
    BY <2>4 DEF WordsOf
  <2>6. e = Len(buf) + 1 \/ buf[e] \in whitespace
    BY <1>0, <1>5, <2>1
  <2> QED BY <2>1, <2>5, <2>6 DEF Outside, S, W
<1> QED BY <1>3, <1>10, <1>11

\* p1getword called until it returns -1 gives the words of the line.
LEMMA WordsAgree ==
  ASSUME NEW buf \in Seq(STRING)
  PROVE  args(buf) = Scanned(buf)
<1> DEFINE D == 1..Len(buf) + 1
           A == ArgsFrom(buf)
           S == ScanStates(buf)
           T == Seq(STRING)
           size == [i \in D |-> Len(buf) + 1 - i]
           X == {i \in D : Outside(buf, i) => Scanned(buf) = WordsOf(S[i - 1]) \o A[i]}
<1>0. Len(buf) \in Nat
  OBVIOUS
<1>1. size \in [D -> Nat]
  BY <1>0
<1>2. /\ \A j \in 0..Len(buf) : S[j] \in States
      /\ S[0] = Started
  BY ScanDef
<1>3. \A i \in D : /\ A[i] \in Seq(T)
                   /\ p1getword(buf, i).index = -1 => A[i] = <<>>
                   /\ p1getword(buf, i).index # -1 =>
                        A[i] = <<p1getword(buf, i).word>> \o A[p1getword(buf, i).index]
  <2>1. /\ A = ArgsBody(A, buf)
        /\ \A i \in D : A[i] \in Seq(T)
    BY ArgsDef
  <2>2. ASSUME NEW i \in D
        PROVE  ArgsBody(A, buf)[i] = IF p1getword(buf, i).index = -1 THEN <<>>
                                     ELSE <<p1getword(buf, i).word>> \o A[p1getword(buf, i).index]
    BY DEF ArgsBody
  <2> HIDE DEF A
  <2> QED BY <2>1, <2>2
<1> HIDE DEF A, S, T
<1>4. \A j \in 0..Len(buf) : WordsOf(S[j]) \in Seq(T)
  <2>1. ASSUME NEW st \in States PROVE WordsOf(st) \in Seq(T)
    <3>1. st.words \in Seq(Seq(STRING)) /\ st.word \in Seq(STRING)
      BY DEF States
    <3>2. Append(st.words, st.word) \in Seq(Seq(STRING))
      BY <3>1
    <3>3. WordsOf(st) \in Seq(Seq(STRING))
      BY <3>1, <3>2 DEF WordsOf
    <3> QED BY <3>3 DEF T
  <2> QED BY <2>1, <1>2
<1>5. ASSUME NEW i \in D, \A d \in D : size[d] < size[i] => d \in X, Outside(buf, i)
      PROVE  Scanned(buf) = WordsOf(S[i - 1]) \o A[i]
  <2>0. i - 1 \in 0..Len(buf) /\ WordsOf(S[i - 1]) \in Seq(T)
    BY <1>0, <1>4
  <2>1. CASE i = Len(buf) + 1
    <3>1. p1getword(buf, i).index = -1
      <4>1. PICK b \in i..Len(buf) + 1 :
              \/ AtEnd(buf, i, b)
              \/ \E e \in i..Len(buf) + 1 : Quoted(buf, i, b, e) \/ Bare(buf, i, b, e)
        BY NextWord
      <4> QED BY <1>0, <2>1, <4>1 DEF AtEnd, Quoted, Bare
    <3>0. A[i] = <<>>
      BY <1>3, <3>1
    <3>2. A[i] = <<>> /\ i - 1 = Len(buf)
      BY <1>0, <2>1, <3>0
    <3>3. Scanned(buf) = WordsOf(S[i - 1])
      BY <3>2 DEF Scanned, S
    <3>4. WordsOf(S[i - 1]) \o <<>> = WordsOf(S[i - 1])
      BY <2>0
    <3> QED BY <3>2, <3>3, <3>4
  <2>2. CASE i \in 1..Len(buf) /\ p1getword(buf, i).index = -1
    <3>1. PICK b \in i..Len(buf) + 1 :
            /\ \A j \in i..b - 1 : buf[j] \in whitespace
            /\ b <= Len(buf) => buf[b] \notin whitespace
            /\ \/ AtEnd(buf, i, b)
               \/ \E e \in i..Len(buf) + 1 : Quoted(buf, i, b, e) \/ Bare(buf, i, b, e)
      BY NextWord
    <3>2. b = Len(buf) + 1
      <4>1. ~(\E e \in i..Len(buf) + 1 : Quoted(buf, i, b, e) \/ Bare(buf, i, b, e))
        BY <2>2, <1>0 DEF Quoted, Bare
      <4> QED BY <3>1, <4>1 DEF AtEnd
    <3>3. S[b - 1].mode = "blank" /\ S[b - 1].words = WordsOf(S[i - 1])
      BY <1>5, <2>2, <3>1, ScansBlanks DEF S
    <3>4. b - 1 = Len(buf)
      BY <1>0, <3>2
    <3>5. Scanned(buf) = WordsOf(S[i - 1])
      BY <3>3, <3>4 DEF Scanned, S, WordsOf
    <3>6. WordsOf(S[i - 1]) \o <<>> = WordsOf(S[i - 1])
      BY <2>0
    <3> QED BY <1>3, <2>2, <3>5, <3>6
  <2>3. CASE i \in 1..Len(buf) /\ p1getword(buf, i).index # -1
    <3>1. PICK k \in i + 1..Len(buf) + 1 : k = p1getword(buf, i).index
      BY <2>3, GoesForward
    <3>2. PICK w \in T : w = p1getword(buf, i).word
      BY <2>3, GoesForward DEF T
    <3>3. /\ Outside(buf, k)
          /\ WordsOf(S[k - 1]) = Append(WordsOf(S[i - 1]), w)
      BY <1>5, <2>3, <3>1, <3>2, OneWord DEF S
    <3>4. k \in D /\ size[k] < size[i]
      BY <1>0, <3>1
    <3>5. Scanned(buf) = WordsOf(S[k - 1]) \o A[k]
      BY <1>5, <3>3, <3>4
    <3>6. A[i] = <<w>> \o A[k] /\ A[k] \in Seq(T)
      BY <1>3, <2>3, <3>1, <3>2, <3>4
    <3>7. Append(WordsOf(S[i - 1]), w) \o A[k] = WordsOf(S[i - 1]) \o (<<w>> \o A[k])
      <4>1. PICK U \in Seq(T) : U = WordsOf(S[i - 1])
        BY <2>0
      <4>2. PICK R \in Seq(T) : R = A[k]
        BY <3>6
      <4>3. Append(U, w) \o R = U \o (<<w>> \o R)
        BY AppendConcat
      <4> QED BY <4>1, <4>2, <4>3
    <3> QED BY <3>3, <3>5, <3>6, <3>7
  <2>4. i = Len(buf) + 1 \/ i \in 1..Len(buf)
    BY <1>0
  <2> QED BY <2>1, <2>2, <2>3, <2>4
<1>6. \A i \in D : (\A d \in D : size[d] < size[i] => d \in X) => i \in X
  BY <1>5
<1>7. 1 \in D /\ 1 - 1 = 0
  BY <1>0
<1> HIDE DEF X, D, size
<1>8. D \subseteq X
  BY <1>1, <1>6, SizeInduction
<1>9. Outside(buf, 1) /\ WordsOf(S[0]) = <<>>
  BY <1>2, <1>7 DEF Outside, Started, WordsOf, S
<1>10. Scanned(buf) = WordsOf(S[0]) \o A[1]
  BY <1>7, <1>8, <1>9 DEF X
<1>11. A[1] \in Seq(T)
  BY <1>3, <1>7
<1>12. <<>> \o A[1] = A[1]
  BY <1>11
<1> QED BY <1>9, <1>10, <1>12 DEF args, A

-----------------------------------------------------------------------------
(* The calls. *)

\* What a call returns is the function of its input, and the input stays one of the unit.
CallInv ==
  /\ unit \in Functions /\ input \in Inputs(unit) /\ computed \in BOOLEAN
  /\ computed => output = Output(unit)

\* Computing the output of a call, or doing nothing, keeps the invariant.
LEMMA ComputeKeepsCallInv ==
  CallInv /\ [Compute]_callvars => CallInv'
<1> SUFFICES ASSUME CallInv, [Compute]_callvars PROVE CallInv'
  OBVIOUS
<1>1. CASE Compute
  <2>1. unit' = unit /\ input' = input /\ computed' = TRUE /\ output' = Output(unit)
    BY <1>1 DEF Compute
  <2>2. Inputs(unit)' = Inputs(unit) /\ Output(unit)' = Output(unit)
    BY <2>1 DEF Inputs, Output
  <2> QED BY <2>1, <2>2 DEF CallInv
<1>2. CASE UNCHANGED callvars
  <2>1. unit' = unit /\ input' = input /\ computed' = computed /\ output' = output
    BY <1>2 DEF callvars
  <2>2. Inputs(unit)' = Inputs(unit) /\ Output(unit)' = Output(unit)
    BY <2>1 DEF Inputs, Output
  <2> QED BY <2>1, <2>2 DEF CallInv
<1> QED BY <1>1, <1>2

\* The invariant of the calls: no run leaves an output behind that another call computed.
THEOREM OutputIsComputed == CallSpec => []CallInv
<1>1. CallInit => CallInv
  BY DEF CallInit, CallInv
<1> QED BY <1>1, ComputeKeepsCallInv, PTL DEF CallSpec

\* The words of any line, of any characters and any length: p1getword called until it
\* returns -1 gives what one pass over the characters gives (uspsv4, p1fxns.c).
THEOREM AnyLineAsScanned == CallSpec => []WordsAsScanned
<1>1. CallInv => WordsAsScanned
  <2> SUFFICES ASSUME CallInv, unit = "words", computed PROVE output = Scanned(input)
    BY DEF WordsAsScanned
  <2>1. input \in InputLines /\ output = args(input)
    BY DEF CallInv, Inputs, Output
  <2>2. PICK buf \in Seq(STRING) : buf = input
    BY <2>1, InputsAssumption
  <2>3. args(buf) = Scanned(buf)
    BY WordsAgree
  <2> QED BY <2>1, <2>2, <2>3
<1> QED BY <1>1, OutputIsComputed, PTL

\* For any width of the integers: the copies of the formatter give one text, and read
\* back it is the number, for all numbers but the most negative (p1fxns.c).
THEOREM AnyNumberReadsBack == CallSpec => []NumbersReadBack
<1>1. CallInv => NumbersReadBack
  <2> SUFFICES ASSUME CallInv, unit = "numbers", computed, input # MostNegative
               PROVE  Cardinality(output) = 1 /\ \A s \in output : Reads(s) = input
    BY DEF NumbersReadBack
  <2>1. /\ input \in MostNegative..MaxInt
        /\ output = {p1itoa(input, MostNegative), p1ltoa(input, MostNegative),
                     V4p1ltoa(input, MostNegative)}
    BY DEF CallInv, Inputs, Output
  <2>2. output = {p1itoa(input, MostNegative)}
    BY <2>1 DEF p1ltoa, V4p1ltoa
  <2>3. PICK n \in MostNegative + 1..MaxInt : n = input
    BY <2>1, InputsAssumption DEF MostNegative
  <2>4. Reads(p1itoa(n, MostNegative)) = n
    BY TextReadsBack
  <2>5. Cardinality(output) = 1
    BY <2>2, FS_Singleton
  <2> QED BY <2>2, <2>3, <2>4, <2>5
<1> QED BY <1>1, OutputIsComputed, PTL

\* An array of any length and any keys: merge sort puts it in order, loses nothing and
\* keeps the order of equal elements (sort.c).
THEOREM AnyArraySortsStably == CallSpec => []SortsStably
<1>1. CallInv => SortsStably
  <2> SUFFICES ASSUME CallInv, unit = "sort", computed PROVE SortsStably
    BY DEF SortsStably
  <2>1. PICK keys \in InputKeys : input = Keyed(keys) /\ output = sort(Keyed(keys))
    BY DEF CallInv, Inputs, Output
  <2>2. PICK k \in Seq(Int) : k = keys
    BY InputsAssumption
  <2>3. SortedBetween(sort(Keyed(k)), Keyed(k), 1, Len(k))
    BY SortSorts
  <2>4. PICK b \in Seq(Element) : b = output
    BY <2>1, <2>2, <2>3 DEF SortedBetween
  <2>5. PICK a : a = input /\ DOMAIN a = 1..Len(k)
    BY <2>1, <2>2 DEF Keyed
  <2>6. SortedBetween(b, a, 1, Len(k)) /\ Len(a) = Len(k)
    <3>1. Len(a) = Len(k)
      BY <2>1, <2>2, <2>5 DEF Keyed
    <3> QED BY <2>1, <2>2, <2>3, <2>4, <2>5, <3>1
  <2>7. DOMAIN b = 1..Len(k)
    BY <2>4, <2>6 DEF SortedBetween
  <2>8. {b[j] : j \in DOMAIN b} = {a[j] : j \in DOMAIN a}
    BY <2>5, <2>6, <2>7 DEF SortedBetween, Stretch
  <2>9. \A j, l \in DOMAIN b : j < l => Before(b[j], b[l])
    BY <2>6, <2>7 DEF SortedBetween, Ordered
  <2>10. {output[j] : j \in DOMAIN output} = {input[j] : j \in DOMAIN input}
    BY <2>4, <2>5, <2>8
  <2>11. \A j, l \in DOMAIN output : j < l => Before(output[j], output[l])
    BY <2>4, <2>9
  <2> QED BY <2>10, <2>11 DEF SortsStably, Before
<1> QED BY <1>1, OutputIsComputed, PTL

-----------------------------------------------------------------------------
(* Shortened numbers. *)

\* How often three digits can be dropped and leave one.
LEMMA Thirds ==
  ASSUME NEW n \in Nat \ {0}
  PROVE  /\ (n - 1) \div 3 \in Nat
         /\ 3 * ((n - 1) \div 3) <= n - 1 /\ n - 1 < 3 * ((n - 1) \div 3) + 3
OBVIOUS

\* collapse_num of a number of any length drops its digits by threes, as many as there
\* are units (uspsv4.c, directory v4).
THEOREM CollapsesByThrees ==
  ASSUME NEW num \in Seq(STRING), num # <<>>
  PROVE  collapse_num(num) = Shortened(num, Amounts)
<1> DEFINE n == Len(num)
           k == (n - 1) \div 3
           u == IF k <= Len(Amounts) THEN k ELSE Len(Amounts)
<1>1. n \in Nat \ {0}
  OBVIOUS
<1>2. k \in Nat /\ 3 * k <= n - 1 /\ n - 1 < 3 * k + 3
  BY <1>1, Thirds
<1>3. Shortened(num, Amounts) = IF u = 0 THEN num ELSE CutAt(num, n - 3 * u, Amounts[u])
  BY DEF Shortened, CutAt
<1>4. u = IF k <= 5 THEN k ELSE 5
  BY DEF Amounts
<1>5. collapse_num(num) =
        CASE n >= 16 -> CutAt(num, n - 15, <<"Q">>)
          [] n \in 13..15 -> CutAt(num, n - 12, <<"T">>)
          [] n \in 10..12 -> CutAt(num, n - 9, <<"B">>)
          [] n \in 7..9 -> CutAt(num, n - 6, <<"M">>)
          [] n \in 4..6 -> CutAt(num, n - 3, <<"K">>)
          [] OTHER -> num
  BY DEF collapse_num
<1> HIDE DEF n, k, u
<1>6. CASE n <= 3
  <2>1. u = 0 /\ ~(n >= 16) /\ n \notin 4..6 /\ n \notin 7..9 /\ n \notin 10..12 /\ n \notin 13..15
    BY <1>1, <1>2, <1>4, <1>6
  <2> QED BY <1>3, <1>5, <2>1, Zenon
<1>7. CASE n \in 4..6
  <2>1. u = 1 /\ u # 0 /\ n - 3 * u = n - 3
    BY <1>1, <1>2, <1>4, <1>7
  <2>2. ~(n >= 16) /\ n \notin 7..9 /\ n \notin 10..12 /\ n \notin 13..15
    BY <1>1, <1>7
  <2>3. collapse_num(num) = CutAt(num, n - 3, <<"K">>)
    BY <1>5, <1>7, <2>2, Zenon
  <2>4. Amounts[u] = <<"K">>
    BY <2>1 DEF Amounts
  <2>5. Shortened(num, Amounts) = CutAt(num, n - 3 * u, Amounts[u])
    BY <1>3, <2>1, Zenon
  <2> QED BY <2>1, <2>3, <2>4, <2>5, Zenon
<1>8. CASE n \in 7..9
  <2>1. u = 2 /\ u # 0 /\ n - 3 * u = n - 6
    BY <1>1, <1>2, <1>4, <1>8
  <2>2. ~(n >= 16) /\ n \notin 4..6 /\ n \notin 10..12 /\ n \notin 13..15
    BY <1>1, <1>8
  <2>3. collapse_num(num) = CutAt(num, n - 6, <<"M">>)
    BY <1>5, <1>8, <2>2, Zenon
  <2>4. Amounts[u] = <<"M">>
    BY <2>1 DEF Amounts
  <2>5. Shortened(num, Amounts) = CutAt(num, n - 3 * u, Amounts[u])
    BY <1>3, <2>1, Zenon
  <2> QED BY <2>1, <2>3, <2>4, <2>5, Zenon
<1>9. CASE n \in 10..12
  <2>1. u = 3 /\ u # 0 /\ n - 3 * u = n - 9
    BY <1>1, <1>2, <1>4, <1>9
  <2>2. ~(n >= 16) /\ n \notin 4..6 /\ n \notin 7..9 /\ n \notin 13..15
    BY <1>1, <1>9
  <2>3. collapse_num(num) = CutAt(num, n - 9, <<"B">>)
    BY <1>5, <1>9, <2>2, Zenon
  <2>4. Amounts[u] = <<"B">>
    BY <2>1 DEF Amounts
  <2>5. Shortened(num, Amounts) = CutAt(num, n - 3 * u, Amounts[u])
    BY <1>3, <2>1, Zenon
  <2> QED BY <2>1, <2>3, <2>4, <2>5, Zenon
<1>10. CASE n \in 13..15
  <2>1. u = 4 /\ u # 0 /\ n - 3 * u = n - 12
    BY <1>1, <1>2, <1>4, <1>10
  <2>2. ~(n >= 16) /\ n \notin 4..6 /\ n \notin 7..9 /\ n \notin 10..12
    BY <1>1, <1>10
  <2>3. collapse_num(num) = CutAt(num, n - 12, <<"T">>)
    BY <1>5, <1>10, <2>2, Zenon
  <2>4. Amounts[u] = <<"T">>
    BY <2>1 DEF Amounts
  <2>5. Shortened(num, Amounts) = CutAt(num, n - 3 * u, Amounts[u])
    BY <1>3, <2>1, Zenon
  <2> QED BY <2>1, <2>3, <2>4, <2>5, Zenon
<1>11. CASE n >= 16
  <2>1. u = 5 /\ u # 0 /\ n - 3 * u = n - 15
    BY <1>1, <1>2, <1>4, <1>11
  <2>2. n \notin 4..6 /\ n \notin 7..9 /\ n \notin 10..12 /\ n \notin 13..15
    BY <1>1, <1>11
  <2>3. collapse_num(num) = CutAt(num, n - 15, <<"Q">>)
    BY <1>5, <1>11, <2>2, Zenon
  <2>4. Amounts[u] = <<"Q">>
    BY <2>1 DEF Amounts
  <2>5. Shortened(num, Amounts) = CutAt(num, n - 3 * u, Amounts[u])
    BY <1>3, <2>1, Zenon
  <2> QED BY <2>1, <2>3, <2>4, <2>5, Zenon
<1> QED BY <1>1, <1>6, <1>7, <1>8, <1>9, <1>10, <1>11

\* The same of collapse_bytes, whose units end at terabytes (uspsv4.c, directory v4).
THEOREM BytesCollapseByThrees ==
  ASSUME NEW num \in Seq(STRING), num # <<>>
  PROVE  collapse_bytes(num) = Shortened(num, ByteAmounts)
<1> DEFINE n == Len(num)
           k == (n - 1) \div 3
           u == IF k <= Len(ByteAmounts) THEN k ELSE Len(ByteAmounts)
<1>1. n \in Nat \ {0}
  OBVIOUS
<1>2. k \in Nat /\ 3 * k <= n - 1 /\ n - 1 < 3 * k + 3
  BY <1>1, Thirds
<1>3. Shortened(num, ByteAmounts) = IF u = 0 THEN num ELSE CutAt(num, n - 3 * u, ByteAmounts[u])
  BY DEF Shortened, CutAt
<1>4. u = IF k <= 4 THEN k ELSE 4
  BY DEF ByteAmounts
<1>5. collapse_bytes(num) =
        CASE n >= 13 -> CutAt(num, n - 12, <<" ", "T", "B">>)
          [] n \in 10..12 -> CutAt(num, n - 9, <<" ", "G", "B">>)
          [] n \in 7..9 -> CutAt(num, n - 6, <<" ", "M", "B">>)
          [] n \in 4..6 -> CutAt(num, n - 3, <<" ", "K", "B">>)
          [] OTHER -> num
  BY DEF collapse_bytes
<1> HIDE DEF n, k, u
<1>6. CASE n <= 3
  <2>1. u = 0 /\ ~(n >= 13) /\ n \notin 4..6 /\ n \notin 7..9 /\ n \notin 10..12
    BY <1>1, <1>2, <1>4, <1>6
  <2> QED BY <1>3, <1>5, <2>1, Zenon
<1>7. CASE n \in 4..6
  <2>1. u = 1 /\ u # 0 /\ n - 3 * u = n - 3
    BY <1>1, <1>2, <1>4, <1>7
  <2>2. ~(n >= 13) /\ n \notin 7..9 /\ n \notin 10..12
    BY <1>1, <1>7
  <2>3. collapse_bytes(num) = CutAt(num, n - 3, <<" ", "K", "B">>)
    BY <1>5, <1>7, <2>2, Zenon
  <2>4. ByteAmounts[u] = <<" ", "K", "B">>
    BY <2>1 DEF ByteAmounts
  <2>5. Shortened(num, ByteAmounts) = CutAt(num, n - 3 * u, ByteAmounts[u])
    BY <1>3, <2>1, Zenon
  <2> QED BY <2>1, <2>3, <2>4, <2>5, Zenon
<1>8. CASE n \in 7..9
  <2>1. u = 2 /\ u # 0 /\ n - 3 * u = n - 6
    BY <1>1, <1>2, <1>4, <1>8
  <2>2. ~(n >= 13) /\ n \notin 4..6 /\ n \notin 10..12
    BY <1>1, <1>8
  <2>3. collapse_bytes(num) = CutAt(num, n - 6, <<" ", "M", "B">>)
    BY <1>5, <1>8, <2>2, Zenon
  <2>4. ByteAmounts[u] = <<" ", "M", "B">>
    BY <2>1 DEF ByteAmounts
  <2>5. Shortened(num, ByteAmounts) = CutAt(num, n - 3 * u, ByteAmounts[u])
    BY <1>3, <2>1, Zenon
  <2> QED BY <2>1, <2>3, <2>4, <2>5, Zenon
<1>9. CASE n \in 10..12
  <2>1. u = 3 /\ u # 0 /\ n - 3 * u = n - 9
    BY <1>1, <1>2, <1>4, <1>9
  <2>2. ~(n >= 13) /\ n \notin 4..6 /\ n \notin 7..9
    BY <1>1, <1>9
  <2>3. collapse_bytes(num) = CutAt(num, n - 9, <<" ", "G", "B">>)
    BY <1>5, <1>9, <2>2, Zenon
  <2>4. ByteAmounts[u] = <<" ", "G", "B">>
    BY <2>1 DEF ByteAmounts
  <2>5. Shortened(num, ByteAmounts) = CutAt(num, n - 3 * u, ByteAmounts[u])
    BY <1>3, <2>1, Zenon
  <2> QED BY <2>1, <2>3, <2>4, <2>5, Zenon
<1>10. CASE n >= 13
  <2>1. u = 4 /\ u # 0 /\ n - 3 * u = n - 12
    BY <1>1, <1>2, <1>4, <1>10
  <2>2. n \notin 4..6 /\ n \notin 7..9 /\ n \notin 10..12
    BY <1>1, <1>10
  <2>3. collapse_bytes(num) = CutAt(num, n - 12, <<" ", "T", "B">>)
    BY <1>5, <1>10, <2>2, Zenon
  <2>4. ByteAmounts[u] = <<" ", "T", "B">>
    BY <2>1 DEF ByteAmounts
  <2>5. Shortened(num, ByteAmounts) = CutAt(num, n - 3 * u, ByteAmounts[u])
    BY <1>3, <2>1, Zenon
  <2> QED BY <2>1, <2>3, <2>4, <2>5, Zenon
<1> QED BY <1>1, <1>6, <1>7, <1>8, <1>9, <1>10
=============================================================================
