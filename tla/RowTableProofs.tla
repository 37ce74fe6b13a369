---------------------------- MODULE RowTableProofs ----------------------------
(* For any lines, any number of rows and any capacity, every row belongs to  *)
(* the table or to the caller, the string heap counts exactly the fields     *)
(* there are, and the array is the list of LineList.                         *)
EXTENDS RowTable, FiniteSetTheorems, SequenceTheorems, TLAPS

USE RowTableConstants
-----------------------------------------------------------------------------
(* The fields of a set of rows are finitely many.                            *)

RowsTyped == theFields \in [Row -> Line \cup {NoLine}]

LEMMA LineDomain ==
    ASSUME NEW line \in Line
    PROVE  /\ DOMAIN line = 1..Len(line) /\ IsFiniteSet(DOMAIN line)
           /\ \A s : {i \in DOMAIN line : line[i] = s} \in SUBSET (DOMAIN line)
<1>1. DOMAIN line = 1..Len(line) /\ Len(line) \in Nat
  OBVIOUS
<1>2. IsFiniteSet(1..Len(line))
  BY <1>1, FS_Interval
<1> QED BY <1>1, <1>2

LEMMA UsesFinite ==
    ASSUME RowsTyped, NEW R \in SUBSET LiveRows, NEW s
    PROVE  /\ IsFiniteSet(Uses(R, s))
           /\ Cardinality(Uses(R, s)) \in Nat
<1> DEFINE F == {{r} \X DOMAIN theFields[r] : r \in R}
           f == [r \in R |-> {r} \X DOMAIN theFields[r]]
<1>1. IsFiniteSet(R)
  BY FS_Subset DEF LiveRows
<1>2. f \in Surjection(R, F)
  BY DEF Surjection
<1>3. IsFiniteSet(F)
  BY <1>1, <1>2, FS_Surjection
<1>4. ASSUME NEW r \in R PROVE IsFiniteSet({r} \X DOMAIN theFields[r])
  <2>1. theFields[r] \in Line
    BY DEF RowsTyped, LiveRows
  <2>2. IsFiniteSet({r}) /\ IsFiniteSet(DOMAIN theFields[r])
    BY <2>1, LineDomain, FS_Singleton
  <2> QED BY <2>2, FS_Product
<1>5. IsFiniteSet(FieldsOf(R))
  <2>1. \A T \in F : IsFiniteSet(T)
    BY <1>4
  <2>2. IsFiniteSet(UNION F)
    BY <1>3, <2>1, FS_UNION
  <2> QED BY <2>2 DEF FieldsOf
<1>6. Uses(R, s) \in SUBSET FieldsOf(R)
  BY DEF Uses
<1> QED BY <1>5, <1>6, FS_Subset, FS_CardinalityType

UsesIn(h, R, s) == {f \in UNION {{r} \X DOMAIN h[r] : r \in R} : h[f[1]][f[2]] = s}

LEMMA UsesPairs ==
    \A h, R, s, x : x \in UsesIn(h, R, s) <=> \E r \in R : \E i \in DOMAIN h[r] :
                                                x = <<r, i>> /\ h[r][i] = s
BY DEF UsesIn

RowFilled(r, line) == theFields' = [theFields EXCEPT ![r] = line]

(* Creating a row adds its fields to the counts ...                          *)
LEMMA CreateCounts ==
    ASSUME RowsTyped, CountsMatchRows, NEW r \in Row \ LiveRows, NEW line \in Line,
           RowFilled(r, line), count' = split(line)
    PROVE  /\ CountsMatchRows' /\ LiveRows' = LiveRows \cup {r}
           /\ RowsTyped' /\ count' \in [String -> Nat]
<1>1. /\ theFields'[r] = line
      /\ \A q \in Row \ {r} : theFields'[q] = theFields[q]
      /\ RowsTyped'
  BY DEF RowsTyped, RowFilled
<1>2. LiveRows' = LiveRows \cup {r}
  BY <1>1 DEF LiveRows
<1>3. ASSUME NEW s \in String
      PROVE  /\ count'[s] = Cardinality(Uses(LiveRows, s)')
             /\ count'[s] \in Nat
  <2> DEFINE I == {i \in DOMAIN line : line[i] = s}
             U == UsesIn(theFields, LiveRows, s)
             V == UsesIn(theFields', LiveRows', s)
             W == {r} \X I
  <2>1. /\ IsFiniteSet(I) /\ Cardinality(I) \in Nat /\ Cardinality(I) = Occurrences(line, s)
    BY LineDomain, FS_Subset, FS_CardinalityType DEF Occurrences
  <2>2. IsFiniteSet(U) /\ Cardinality(U) \in Nat
    BY UsesFinite DEF Uses, FieldsOf, UsesIn
  <2>3. \A q \in LiveRows : theFields'[q] = theFields[q]
    BY <1>1 DEF LiveRows
  <2>4. V = U \cup W
    <3>1. \A x : x \in V <=> \/ \E q \in LiveRows : \E i \in DOMAIN theFields[q] :
                                    x = <<q, i>> /\ theFields[q][i] = s
                             \/ \E i \in DOMAIN line : x = <<r, i>> /\ line[i] = s
      <4> TAKE x
      <4>1. x \in V <=> \E q \in LiveRows' : \E i \in DOMAIN theFields'[q] :
                                    x = <<q, i>> /\ theFields'[q][i] = s
        BY UsesPairs
      <4> HIDE DEF V
      <4> QED BY <4>1, <1>1, <1>2, <2>3
    <3>2. \A x : x \in U <=> \E q \in LiveRows : \E i \in DOMAIN theFields[q] :
                                    x = <<q, i>> /\ theFields[q][i] = s
      BY UsesPairs
    <3>3. \A x : x \in W <=> \E i \in DOMAIN line : x = <<r, i>> /\ line[i] = s
      OBVIOUS
    <3> HIDE DEF U, V, W
    <3>4. \A x : x \in V <=> x \in U \/ x \in W
      BY <3>1, <3>2, <3>3, Zenon
    <3> QED BY <3>4
  <2>5. U \cap W = {}
    <3> SUFFICES ASSUME NEW x \in U, x \in W PROVE FALSE
      OBVIOUS
    <3>1. PICK q \in LiveRows : \E i \in DOMAIN theFields[q] : x = <<q, i>>
      BY UsesPairs
    <3>2. q = r
      BY <3>1
    <3> QED BY <3>2
  <2>6. IsFiniteSet(W) /\ Cardinality(W) = Cardinality(I)
    <3>1. IsFiniteSet({r}) /\ Cardinality({r}) = 1
      BY FS_Singleton
    <3>2. IsFiniteSet(W) /\ Cardinality(W) = Cardinality({r}) * Cardinality(I)
      <4> HIDE DEF I
      <4> QED BY <2>1, <3>1, FS_Product
    <3> HIDE DEF I, W
    <3> QED BY <2>1, <3>1, <3>2
  <2>7. Cardinality(V) = Cardinality(U) + Cardinality(I)
    <3>1. Cardinality(U \cup W) = Cardinality(U) + Cardinality(W) - Cardinality(U \cap W)
      <4> HIDE DEF U, W
      <4> QED BY <2>2, <2>6, FS_Union
    <3>2. Cardinality(U \cap W) = 0
      BY <2>5, FS_EmptySet
    <3> HIDE DEF U, W, V, I
    <3> QED BY <2>1, <2>2, <2>4, <2>6, <3>1, <3>2
  <2>8. count'[s] = count[s] + Occurrences(line, s) /\ count[s] = Cardinality(U)
    BY DEF split, CountsMatchRows, Uses, FieldsOf, UsesIn
  <2> HIDE DEF U, V, W, I
  <2>9. count'[s] = Cardinality(V) /\ count'[s] \in Nat
    BY <2>1, <2>2, <2>7, <2>8
  <2> QED BY <2>9 DEF V, Uses, FieldsOf, UsesIn
<1>4. CountsMatchRows'
  BY <1>3 DEF CountsMatchRows
<1>5. count' \in [String -> Nat]
  BY <1>3 DEF split
<1> QED BY <1>1, <1>2, <1>4, <1>5

(* ... and destroying rows takes the fields of just these away.              *)
LEMMA DestroyCounts ==
    ASSUME RowsTyped, CountsMatchRows, NEW R \in SUBSET LiveRows,
           theFields' = Freed(R), count' = StringsFreed(R)
    PROVE  /\ CountsMatchRows' /\ LiveRows' = LiveRows \ R
           /\ RowsTyped' /\ count' \in [String -> Nat]
<1>1. /\ \A q \in Row : theFields'[q] = IF q \in R THEN NoLine ELSE theFields[q]
      /\ RowsTyped'
  BY DEF RowsTyped, Freed
<1>2. LiveRows' = LiveRows \ R
  BY <1>1 DEF LiveRows
<1>3. ASSUME NEW s \in String
      PROVE  /\ count'[s] = Cardinality(Uses(LiveRows, s)')
             /\ count'[s] \in Nat
  <2> DEFINE U == UsesIn(theFields, LiveRows, s)
             V == UsesIn(theFields', LiveRows', s)
             W == UsesIn(theFields, R, s)
  <2>1. /\ IsFiniteSet(U) /\ Cardinality(U) \in Nat
        /\ IsFiniteSet(W) /\ Cardinality(W) \in Nat
    BY UsesFinite DEF Uses, FieldsOf, UsesIn
  <2>2. \A q \in LiveRows' : theFields'[q] = theFields[q]
    BY <1>1, <1>2 DEF LiveRows
  <2>3. V = U \ W
    <3>1. \A x : x \in V <=> \E q \in LiveRows \ R : \E i \in DOMAIN theFields[q] :
                                    x = <<q, i>> /\ theFields[q][i] = s
      BY <1>2, <2>2, UsesPairs
    <3>2. \A x : x \in U <=> \E q \in LiveRows : \E i \in DOMAIN theFields[q] :
                                    x = <<q, i>> /\ theFields[q][i] = s
      BY UsesPairs
    <3>3. \A x : x \in W <=> \E q \in R : \E i \in DOMAIN theFields[q] :
                                    x = <<q, i>> /\ theFields[q][i] = s
      BY UsesPairs
    <3> HIDE DEF U, V, W
    <3>4. ASSUME NEW x, x \in V PROVE x \in U /\ x \notin W
      <4>1. PICK q \in LiveRows \ R : \E i \in DOMAIN theFields[q] : x = <<q, i>> /\ theFields[q][i] = s
        BY <3>1, <3>4
      <4>2. x \in U
        BY <3>2, <4>1
      <4>3. ASSUME NEW p \in R, NEW j, x = <<p, j>> PROVE FALSE
        BY <4>1, <4>3
      <4> QED BY <3>3, <4>2, <4>3
    <3>5. ASSUME NEW x, x \in U, x \notin W PROVE x \in V
      BY <3>1, <3>2, <3>3, <3>5
    <3> QED BY <3>4, <3>5
  <2>4. U \cap W = W
    BY UsesPairs
  <2>5. Cardinality(V) = Cardinality(U) - Cardinality(W) /\ Cardinality(V) \in Nat
    <3> HIDE DEF U, V, W
    <3>1. IsFiniteSet(U \ W) /\ Cardinality(U \ W) = Cardinality(U) - Cardinality(U \cap W)
      BY <2>1, FS_Difference
    <3> QED BY <2>1, <2>3, <2>4, <3>1, FS_CardinalityType
  <2>6. count'[s] = count[s] - Cardinality(W) /\ count[s] = Cardinality(U)
    BY DEF StringsFreed, CountsMatchRows, Uses, FieldsOf, UsesIn
  <2> HIDE DEF U, V, W
  <2>7. count'[s] = Cardinality(V) /\ count'[s] \in Nat
    BY <2>1, <2>5, <2>6
  <2> QED BY <2>7 DEF V, Uses, FieldsOf, UsesIn
<1>4. CountsMatchRows'
  BY <1>3 DEF CountsMatchRows
<1>5. count' \in [String -> Nat]
  BY <1>3 DEF StringsFreed
<1> QED BY <1>1, <1>2, <1>4, <1>5
-----------------------------------------------------------------------------
(* The inductive invariant.                                                  *)

Inv == TypeOK /\ capacity >= 1 /\ RowsOwned /\ CountsMatchRows

LEMMA RowFacts ==
    ASSUME Inv
    PROVE  /\ RowsTyped /\ Len(rows) \in Nat /\ size \in Nat /\ size <= Len(rows)
           /\ DOMAIN rows = 1..Len(rows)
           /\ \A i \in 1..size : rows[i] \in LiveRows /\ rows[i] \in Row
           /\ InTable \subseteq LiveRows /\ LiveRows \subseteq Row
           /\ hand # NoRow => hand \in LiveRows /\ hand \in Row
BY DEF Inv, TypeOK, RowsOwned, InTable, LiveRows, RowsTyped, capacity

LEMMA InitInv == Init => Inv
<1> SUFFICES ASSUME Init PROVE Inv
  OBVIOUS
<1> USE DEF Init
<1>1. rows \in Seq(Row \cup {NoRow}) /\ Len(rows) = DEFAULT_CAPACITY
  OBVIOUS
<1>2. LiveRows = {} /\ InTable = {}
  BY DEF LiveRows, InTable
<1>3. TypeOK /\ capacity >= 1
  BY <1>1 DEF TypeOK, capacity
<1>4. RowsOwned
  BY <1>2 DEF RowsOwned
<1>5. CountsMatchRows
  <2>1. \A s : Uses(LiveRows, s) = {}
    BY <1>2 DEF Uses, FieldsOf
  <2> QED BY <2>1, FS_EmptySet DEF CountsMatchRows
<1> QED BY <1>3, <1>4, <1>5 DEF Inv

LEMMA CreateKeepsInv ==
    ASSUME Inv, NEW line \in Line, Row_create(line)
    PROVE  Inv'
<1>1. PICK r \in Row \ LiveRows : hand' = r /\ RowFilled(r, line)
  BY DEF Row_create, RowFilled
<1>2. /\ CountsMatchRows' /\ LiveRows' = LiveRows \cup {r}
      /\ RowsTyped' /\ count' \in [String -> Nat]
  BY <1>1, RowFacts, CreateCounts DEF Row_create, Inv
<1>3. UNCHANGED <<rows, size>> /\ InTable' = InTable /\ hand = NoRow
  BY DEF Row_create, InTable
<1>4. TypeOK' /\ (capacity >= 1)'
  BY <1>1, <1>2, <1>3 DEF Inv, TypeOK, RowsTyped, capacity
<1>5. RowsOwned'
  BY <1>1, <1>2, <1>3, RowFacts DEF Inv, RowsOwned
<1> QED BY <1>2, <1>4, <1>5 DEF Inv

LEMMA DestroyHandKeepsInv ==
    ASSUME Inv, DestroyHand
    PROVE  Inv'
<1>1. {hand} \in SUBSET LiveRows
  BY RowFacts DEF DestroyHand
<1>2. /\ CountsMatchRows' /\ LiveRows' = LiveRows \ {hand}
      /\ RowsTyped' /\ count' \in [String -> Nat]
  BY <1>1, RowFacts, DestroyCounts DEF DestroyHand, r_destroy, Inv
<1>3. UNCHANGED <<rows, size>> /\ InTable' = InTable /\ hand' = NoRow
  BY DEF DestroyHand, InTable
<1>4. TypeOK' /\ (capacity >= 1)'
  BY <1>2, <1>3 DEF Inv, TypeOK, RowsTyped, capacity
<1>5. RowsOwned'
  BY <1>2, <1>3, RowFacts DEF Inv, RowsOwned
<1> QED BY <1>2, <1>4, <1>5 DEF Inv

LEMMA DestroyKeepsInv ==
    ASSUME Inv, t_destroy
    PROVE  Inv'
<1>1. /\ CountsMatchRows' /\ LiveRows' = LiveRows \ InTable
      /\ RowsTyped' /\ count' \in [String -> Nat]
  BY RowFacts, DestroyCounts DEF t_destroy, r_destroy, Inv
<1>2. /\ rows' \in Seq(Row \cup {NoRow}) /\ Len(rows') = DEFAULT_CAPACITY
      /\ size' = 0 /\ hand' = hand /\ InTable' = {}
  BY DEF t_destroy, InTable
<1>3. TypeOK' /\ (capacity >= 1)'
  BY <1>1, <1>2 DEF Inv, TypeOK, RowsTyped, capacity
<1>4. RowsOwned'
  BY <1>1, <1>2, RowFacts DEF Inv, RowsOwned
<1> QED BY <1>1, <1>3, <1>4 DEF Inv

(* There is room for the row, and what was in the array is where it was.     *)
LEMMA GrownFacts ==
    ASSUME Inv
    PROVE  /\ Grown \in Seq(Row \cup {NoRow}) /\ Len(Grown) \in Nat
           /\ Len(Grown) >= size + 1
           /\ \A i \in 1..size : Grown[i] = rows[i]
<1> USE RowFacts
<1>0. rows \in Seq(Row \cup {NoRow}) /\ capacity = Len(rows) /\ capacity >= 1
  BY DEF Inv, TypeOK, capacity
<1>1. CASE size < capacity
  BY <1>0, <1>1 DEF Grown
<1>2. CASE ~(size < capacity)
  <2> DEFINE more == [i \in 1..capacity |-> NoRow]
  <2>1. more \in Seq(Row \cup {NoRow}) /\ Len(more) = Len(rows)
    BY <1>0
  <2>2. Grown = rows \o more
    BY <1>2 DEF Grown
  <2> HIDE DEF more
  <2>3. /\ Grown \in Seq(Row \cup {NoRow}) /\ Len(Grown) = Len(rows) + Len(more)
        /\ \A i \in 1..Len(rows) : Grown[i] = rows[i]
    <3>1. /\ rows \o more \in Seq(Row \cup {NoRow})
          /\ Len(rows \o more) = Len(rows) + Len(more)
          /\ \A i \in 1..Len(rows) + Len(more) :
               (rows \o more)[i] = IF i <= Len(rows) THEN rows[i] ELSE more[i - Len(rows)]
      BY <1>0, <2>1, ConcatProperties
    <3>2. \A i \in 1..Len(rows) : i \in 1..Len(rows) + Len(more) /\ i <= Len(rows)
      BY <2>1, RowFacts
    <3> QED BY <2>2, <3>1, <3>2
  <2> QED BY <1>0, <1>2, <2>1, <2>3
<1> QED BY <1>1, <1>2

LEMMA Appended ==
    ASSUME Inv, t_append
    PROVE  /\ hand # NoRow /\ hand' = NoRow /\ size' = size + 1
           /\ UNCHANGED <<count, theFields>>
           /\ rows' \in Seq(Row \cup {NoRow}) /\ Len(rows') \in Nat /\ Len(rows') >= size + 1
           /\ rows'[size + 1] = hand
           /\ \A i \in 1..size : rows'[i] = rows[i]
<1>1. hand \in Row /\ hand # NoRow
  BY RowFacts DEF t_append
<1>2. rows' = [Grown EXCEPT ![size + 1] = hand]
  BY DEF t_append
<1>3. /\ rows' \in Seq(Row \cup {NoRow}) /\ Len(rows') = Len(Grown)
      /\ rows'[size + 1] = hand
      /\ \A i \in 1..size : rows'[i] = Grown[i]
  BY <1>1, <1>2, GrownFacts, RowFacts
<1> QED BY <1>1, <1>3, GrownFacts DEF t_append

LEMMA AppendKeepsInv ==
    ASSUME Inv, t_append
    PROVE  Inv'
<1>1. TypeOK' /\ (capacity >= 1)'
  BY Appended, RowFacts DEF Inv, TypeOK, capacity
<1>2. InTable' = InTable \cup {hand}
  <2>1. 1..size' = 1..size \cup {size + 1}
    BY Appended, RowFacts
  <2> QED BY <2>1, Appended, RowFacts DEF InTable
<1>3. LiveRows' = LiveRows
  BY Appended DEF LiveRows
<1>4. RowsOwned'
  <2>1. ASSUME NEW i \in 1..size', NEW j \in 1..size', rows'[i] = rows'[j] PROVE i = j
    <3>1. \A k \in 1..size' : k \in 1..size \/ k = size + 1
      BY Appended, RowFacts
    <3>2. \A k \in 1..size : rows[k] \in InTable
      BY DEF InTable
    <3> QED BY <2>1, <3>1, <3>2, Appended DEF Inv, RowsOwned
  <2>2. NoRow \notin InTable'
    BY <1>2, Appended, RowFacts
  <2> QED BY <1>2, <1>3, <2>1, <2>2, Appended DEF Inv, RowsOwned
<1>5. CountsMatchRows'
  <2>1. UNCHANGED <<count, theFields>>
    BY Appended
  <2> QED BY <2>1 DEF Inv, CountsMatchRows, Uses, FieldsOf, LiveRows
<1> QED BY <1>1, <1>4, <1>5 DEF Inv

LEMMA Removed ==
    ASSUME Inv, NEW n \in 1..size, t_remove(n)
    PROVE  /\ size' = size - 1 /\ size' \in Nat /\ hand' = hand
           /\ rows' \in Seq(Row \cup {NoRow}) /\ Len(rows') = Len(rows)
           /\ \A i \in 1..size' : rows'[i] = IF i < n THEN rows[i] ELSE rows[i + 1]
<1>1. /\ rows \in Seq(Row \cup {NoRow}) /\ Len(rows) \in Nat
      /\ size \in Nat /\ size <= Len(rows)
  BY RowFacts DEF Inv, TypeOK
<1>2. /\ rows' = [i \in DOMAIN rows |-> IF i \in n..size - 1 THEN rows[i + 1] ELSE rows[i]]
      /\ size' = size - 1 /\ hand' = hand
  BY DEF t_remove
<1>3. DOMAIN rows = 1..Len(rows)
  BY <1>1
<1>4. \A i \in 1..Len(rows) : rows'[i] = IF i \in n..size - 1 THEN rows[i + 1] ELSE rows[i]
  BY <1>2, <1>3
<1>5. \A i \in 1..Len(rows) : rows'[i] \in Row \cup {NoRow}
  BY <1>1, <1>4
<1>6. rows' \in Seq(Row \cup {NoRow}) /\ Len(rows') = Len(rows)
  BY <1>1, <1>2, <1>3, <1>5
<1> QED BY <1>1, <1>2, <1>4, <1>6

LEMMA RemoveKeepsInv ==
    ASSUME Inv, NEW n \in 1..size, t_remove(n)
    PROVE  Inv'
<1>1. {rows[n]} \in SUBSET LiveRows
  BY RowFacts
<1>2. /\ CountsMatchRows' /\ LiveRows' = LiveRows \ {rows[n]}
      /\ RowsTyped' /\ count' \in [String -> Nat]
  BY <1>1, RowFacts, DestroyCounts DEF t_remove, r_destroy, Inv
<1>3. TypeOK' /\ (capacity >= 1)'
  BY <1>2, Removed, RowFacts DEF Inv, TypeOK, RowsTyped, capacity
<1> DEFINE old(i) == IF i < n THEN i ELSE i + 1
<1>4. /\ \A i \in 1..size' : old(i) \in 1..size /\ old(i) # n /\ rows'[i] = rows[old(i)]
      /\ \A i, j \in 1..size' : old(i) = old(j) => i = j
      /\ \A k \in 1..size : k # n => \E i \in 1..size' : old(i) = k
  <2>1. \A i \in 1..size' : old(i) \in 1..size /\ old(i) # n /\ rows'[i] = rows[old(i)]
    BY Removed, RowFacts
  <2>2. \A i, j \in 1..size' : old(i) = old(j) => i = j
    BY Removed, RowFacts
  <2>3. ASSUME NEW k \in 1..size, k # n PROVE \E i \in 1..size' : old(i) = k
    <3>1. CASE k < n
      BY <3>1, Removed, RowFacts
    <3>2. CASE k > n
      <4>1. k - 1 \in 1..size' /\ old(k - 1) = k
        BY <3>2, Removed, RowFacts
      <4> QED BY <4>1
    <3> QED BY <2>3, <3>1, <3>2, RowFacts
  <2> QED BY <2>1, <2>2, <2>3
<1> HIDE DEF old
<1>5. \A i, j \in 1..size : rows[i] = rows[j] => i = j
  BY DEF Inv, RowsOwned
<1>6. InTable' = InTable \ {rows[n]}
  BY <1>4, <1>5 DEF InTable
<1>7. RowsOwned'
  <2>1. \A i, j \in 1..size' : rows'[i] = rows'[j] => i = j
    BY <1>4, <1>5
  <2>2. hand \notin InTable /\ LiveRows = InTable \cup ({hand} \ {NoRow}) /\ hand' = hand
    BY Removed DEF Inv, RowsOwned
  <2>3. rows[n] # hand
    BY <2>2 DEF InTable
  <2>4. hand' \notin InTable' /\ LiveRows' = InTable' \cup ({hand'} \ {NoRow})
    BY <1>2, <1>6, <2>2, <2>3
  <2> QED BY <2>1, <2>4 DEF RowsOwned
<1> QED BY <1>2, <1>3, <1>7 DEF Inv

LEMMA StepKeepsInv == Inv /\ [Next]_vars => Inv'
<1> SUFFICES ASSUME Inv, [Next]_vars PROVE Inv'
  OBVIOUS
<1>1. CASE Next
  BY <1>1, CreateKeepsInv, AppendKeepsInv, DestroyHandKeepsInv, RemoveKeepsInv, DestroyKeepsInv
     DEF Next
<1>2. CASE UNCHANGED vars
  BY <1>2 DEF vars, Inv, TypeOK, RowsOwned, CountsMatchRows, InTable, LiveRows, Uses, FieldsOf,
              capacity
<1> QED BY <1>1, <1>2

(* Rows and string references are right after every call.                    *)
THEOREM Invariance == Spec => []Inv
BY InitInv, StepKeepsInv, PTL DEF Spec

(* Every row that was made and not destroyed is in the table, once, or in    *)
(* the hands of the caller (r_create, t_append, t_remove, t_destroy).        *)
THEOREM RowsStayOwned == Spec => []RowsOwned
<1>1. Inv => RowsOwned
  BY DEF Inv
<1> QED BY <1>1, Invariance, PTL

(* The string heap counts exactly the fields of the rows there are: no call  *)
(* leaks a string, or frees one that a row still shows.                      *)
THEOREM CountsStayMatched == Spec => []CountsMatchRows
<1>1. Inv => CountsMatchRows
  BY DEF Inv
<1> QED BY <1>1, Invariance, PTL

(* Among others, size never passes capacity and no count goes below zero.    *)
THEOREM TypeCorrect == Spec => []TypeOK
<1>1. Inv => TypeOK
  BY DEF Inv
<1> QED BY <1>1, Invariance, PTL
-----------------------------------------------------------------------------
(* The array is the list of LineList.                                        *)

LEMMA AppendIs ==
    ASSUME NEW S, NEW s \in Seq(S), NEW t \in Seq(S), NEW e \in S,
           Len(t) = Len(s) + 1, t[Len(s) + 1] = e, \A i \in 1..Len(s) : t[i] = s[i]
    PROVE  t = Append(s, e)
<1>1. Len(s) \in Nat
  OBVIOUS
<1>2. /\ Append(s, e) \in Seq(S) /\ Len(Append(s, e)) = Len(s) + 1
      /\ \A i \in 1..Len(s) : Append(s, e)[i] = s[i]
      /\ Append(s, e)[Len(s) + 1] = e
  BY AppendProperties
<1>3. \A i \in 1..Len(s) + 1 : i \in 1..Len(s) \/ i = Len(s) + 1
  BY <1>1
<1>4. \A i \in 1..Len(t) : t[i] = Append(s, e)[i]
  BY <1>2, <1>3
<1> QED BY <1>2, <1>4, SeqEqual

Shifted(t, s, n) == /\ Len(t) = Len(s) - 1
                    /\ \A i \in 1..Len(t) : t[i] = IF i < n THEN s[i] ELSE s[i + 1]

LEMMA RemoveAtIs ==
    ASSUME NEW S, NEW s \in Seq(S), NEW t \in Seq(S), NEW n \in 1..Len(s), Shifted(t, s, n)
    PROVE  t = RemoveAt(s, n)
<1> USE DEF Shifted
<1> DEFINE a == SubSeq(s, 1, n - 1)
           b == SubSeq(s, n + 1, Len(s))
<1>1. Len(s) \in Nat /\ \A i \in 1..Len(s) : s[i] \in S
  OBVIOUS
<1>2. /\ a \in Seq(S) /\ Len(a) = n - 1
      /\ \A i \in 1..n - 1 : a[i] = s[i]
  <2>1. \A i \in 1..n - 1 : s[i] \in S
    BY <1>1
  <2>2. 1 \in Int /\ n - 1 \in Int
    BY <1>1
  <2>3. /\ a \in Seq(S) /\ Len(a) = (IF 1 <= n - 1 THEN n - 1 - 1 + 1 ELSE 0)
        /\ \A i \in 1..n - 1 - 1 + 1 : a[i] = s[1 + i - 1]
    BY <2>1, <2>2, SubSeqProperties
  <2> HIDE DEF a
  <2> QED BY <1>1, <2>3
<1>3. /\ b \in Seq(S) /\ Len(b) = Len(s) - n
      /\ \A i \in 1..Len(s) - n : b[i] = s[n + i]
  <2>1. \A i \in n + 1..Len(s) : s[i] \in S
    BY <1>1
  <2>2. n + 1 \in Int /\ Len(s) \in Int
    BY <1>1
  <2>3. /\ b \in Seq(S) /\ Len(b) = (IF n + 1 <= Len(s) THEN Len(s) - (n + 1) + 1 ELSE 0)
        /\ \A i \in 1..Len(s) - (n + 1) + 1 : b[i] = s[n + 1 + i - 1]
    BY <2>1, <2>2, SubSeqProperties
  <2> HIDE DEF b
  <2> QED BY <1>1, <2>3
<1> HIDE DEF a, b
<1>4. /\ a \o b \in Seq(S) /\ Len(a \o b) = Len(a) + Len(b)
      /\ \A i \in 1..Len(a) + Len(b) :
           (a \o b)[i] = IF i <= Len(a) THEN a[i] ELSE b[i - Len(a)]
  <2>1. a \in Seq(S) /\ b \in Seq(S)
    BY <1>2, <1>3
  <2> QED BY <2>1, ConcatProperties
<1> DEFINE c == a \o b
<1>5. /\ c \in Seq(S) /\ Len(c) = Len(a) + Len(b)
      /\ \A i \in 1..Len(a) + Len(b) : c[i] = IF i <= Len(a) THEN a[i] ELSE b[i - Len(a)]
  BY <1>4
<1> HIDE DEF c
<1>6. Len(c) = Len(t)
  BY <1>1, <1>2, <1>3, <1>5
<1>7. ASSUME NEW i \in 1..Len(t) PROVE t[i] = c[i]
  <2>1. CASE i < n
    <3>1. n \in Nat /\ i \in Nat /\ i \in 1..n - 1 /\ i \in 1..Len(t)
      BY <1>1, <2>1
    <3>2. i \in 1..Len(a) + Len(b) /\ i <= Len(a)
      BY <1>1, <1>2, <1>3, <3>1
    <3>3. c[i] = a[i] /\ a[i] = s[i] /\ t[i] = s[i]
      BY <1>2, <1>5, <2>1, <3>1, <3>2
    <3> QED BY <3>3
  <2>2. CASE ~(i < n)
    <3>1. i - Len(a) \in 1..Len(s) - n /\ n + (i - Len(a)) = i + 1
      BY <1>1, <1>2, <2>2
    <3>2. i \in 1..Len(a) + Len(b) /\ ~(i <= Len(a))
      BY <1>1, <1>2, <1>3, <2>2
    <3>3. c[i] = b[i - Len(a)]
      BY <1>5, <3>2
    <3>4. b[i - Len(a)] = s[n + (i - Len(a))]
      BY <1>3, <3>1
    <3>5. t[i] = s[i + 1]
      BY <2>2
    <3> QED BY <3>1, <3>3, <3>4, <3>5
  <2> QED BY <2>1, <2>2
<1>8. t = c
  BY <1>5, <1>6, <1>7, SeqEqual
<1> QED BY <1>8 DEF a, b, c, RemoveAt

LinesOf(h, r, n) == [i \in 1..n |-> h[r[i]]]

LEMMA LinesOfSeq ==
    ASSUME NEW h, NEW r, NEW n \in Nat, \A i \in 1..n : h[r[i]] \in Line
    PROVE  /\ LinesOf(h, r, n) \in Seq(Line) /\ Len(LinesOf(h, r, n)) = n
           /\ \A i \in 1..n : LinesOf(h, r, n)[i] = h[r[i]]
BY DEF LinesOf

LEMMA LinesFacts ==
    ASSUME Inv
    PROVE  /\ lines \in Seq(Line) /\ Len(lines) = size /\ DOMAIN lines = 1..size
           /\ \A i \in 1..size : lines[i] = theFields[rows[i]] /\ theFields[rows[i]] \in Line
           /\ hand # NoRow => theFields[hand] \in Line
<1>1. /\ \A i \in 1..size : theFields[rows[i]] \in Line
      /\ hand # NoRow => theFields[hand] \in Line
  BY RowFacts DEF RowsTyped, LiveRows
<1>2. lines = LinesOf(theFields, rows, size) /\ DOMAIN lines = 1..size
  BY DEF lines, LinesOf
<1> QED BY <1>1, <1>2, RowFacts, LinesOfSeq

LEMMA InitRefines == Init => List!Init
BY DEF Init, List!Init, lines, LineInHand

LEMMA CreateRefines ==
    ASSUME Inv, NEW line \in Line, Row_create(line)
    PROVE  List!Create(line)
<1>1. PICK r \in Row \ LiveRows : hand' = r /\ RowFilled(r, line)
  BY DEF Row_create, RowFilled
<1>2. /\ theFields'[r] = line
      /\ \A i \in 1..size : theFields'[rows[i]] = theFields[rows[i]]
  BY <1>1, RowFacts DEF RowsTyped, RowFilled
<1>3. hand = NoRow /\ UNCHANGED <<rows, size>> /\ r # NoRow
  BY DEF Row_create
<1>4. lines' = lines
  BY <1>2, <1>3 DEF lines
<1>5. LineInHand = NoLine /\ LineInHand' = line
  BY <1>1, <1>2, <1>3 DEF LineInHand
<1> QED BY <1>4, <1>5 DEF List!Create

LEMMA TakeRefines ==
    ASSUME Inv, t_append
    PROVE  List!Take
<1>1. /\ LineInHand = theFields[hand] /\ LineInHand # NoLine /\ LineInHand' = NoLine
      /\ theFields[hand] \in Line
  BY Appended, LinesFacts DEF LineInHand
<1>2. /\ size + 1 \in Nat /\ theFields' = theFields /\ size' = size + 1
      /\ \A k \in 1..size + 1 : k \in 1..size \/ k = size + 1
  BY Appended, RowFacts
<1>3. /\ \A i \in 1..size : theFields[rows'[i]] = theFields[rows[i]]
      /\ theFields[rows'[size + 1]] = theFields[hand]
  BY Appended
<1>4. \A i \in 1..size + 1 : theFields[rows'[i]] \in Line
  BY <1>1, <1>2, <1>3, LinesFacts
<1> DEFINE t == LinesOf(theFields, rows', size + 1)
<1>5. /\ t \in Seq(Line) /\ Len(t) = size + 1
      /\ \A i \in 1..size + 1 : t[i] = theFields[rows'[i]]
  BY <1>2, <1>4, LinesOfSeq
<1>6. lines' = t
  BY <1>2 DEF lines, LinesOf
<1> HIDE DEF t
<1>7. /\ Len(t) = Len(lines) + 1 /\ t[Len(lines) + 1] = theFields[hand]
      /\ \A i \in 1..Len(lines) : t[i] = lines[i]
  <2>1. Len(lines) = size /\ \A i \in 1..size : lines[i] = theFields[rows[i]]
    BY LinesFacts
  <2>2. /\ size + 1 \in 1..size + 1
        /\ \A i \in 1..size : i \in 1..size + 1
    BY RowFacts
  <2>3. t[size + 1] = theFields[hand]
    BY <1>3, <1>5, <2>2
  <2>4. \A i \in 1..size : t[i] = lines[i]
    BY <1>3, <1>5, <2>1, <2>2
  <2> QED BY <1>5, <2>1, <2>3, <2>4
<1>8. t = Append(lines, theFields[hand])
  BY <1>1, <1>5, <1>7, LinesFacts, AppendIs
<1> QED BY <1>1, <1>6, <1>8 DEF List!Take

LEMMA DropRefines ==
    ASSUME Inv, DestroyHand
    PROVE  List!Drop
<1>1. hand # NoRow /\ hand' = NoRow /\ UNCHANGED <<rows, size>>
  BY DEF DestroyHand
<1>2. \A i \in 1..size : rows[i] # hand
  BY DEF Inv, RowsOwned, InTable
<1>3. \A i \in 1..size : theFields'[rows[i]] = theFields[rows[i]]
  BY <1>2, RowFacts DEF DestroyHand, r_destroy, Freed
<1>4. lines' = lines
  BY <1>1, <1>3 DEF lines
<1>5. LineInHand # NoLine /\ LineInHand' = NoLine
  BY <1>1, LinesFacts DEF LineInHand
<1> QED BY <1>4, <1>5 DEF List!Drop

LEMMA DeleteRefines ==
    ASSUME Inv, NEW n \in 1..size, t_remove(n)
    PROVE  List!Delete(n)
<1>1. theFields' = Freed({rows[n]})
  BY DEF t_remove, r_destroy
<1>2. \A r \in Row : r # rows[n] => theFields'[r] = theFields[r]
  BY <1>1 DEF Freed
<1>3. LineInHand' = LineInHand
  <2>1. hand' = hand /\ hand # rows[n]
    BY Removed DEF Inv, RowsOwned, InTable
  <2> QED BY <1>2, <2>1, RowFacts DEF LineInHand
<1>4. size' \in Nat /\ size' = size - 1
  BY Removed
<1>5. ASSUME NEW i \in 1..size'
      PROVE  /\ theFields'[rows'[i]] \in Line
             /\ theFields'[rows'[i]] = IF i < n THEN lines[i] ELSE lines[i + 1]
  <2>1. PICK k \in 1..size : k # n /\ rows'[i] = rows[k] /\ k = IF i < n THEN i ELSE i + 1
    BY <1>4, Removed, RowFacts
  <2>2. rows[k] # rows[n] /\ rows[k] \in Row
    BY <2>1, RowFacts DEF Inv, RowsOwned
  <2>3. theFields'[rows'[i]] = lines[k] /\ lines[k] \in Line
    BY <1>2, <2>1, <2>2, LinesFacts
  <2> QED BY <2>1, <2>3
<1> DEFINE t == LinesOf(theFields', rows', size')
<1>6. /\ t \in Seq(Line) /\ Len(t) = size'
      /\ \A i \in 1..size' : t[i] = theFields'[rows'[i]]
  BY <1>4, <1>5, LinesOfSeq
<1>7. lines' = t
  BY DEF lines, LinesOf
<1> HIDE DEF t
<1>8. /\ n \in 1..Len(lines) /\ Len(t) = Len(lines) - 1
      /\ \A i \in 1..Len(t) : t[i] = IF i < n THEN lines[i] ELSE lines[i + 1]
  BY <1>4, <1>5, <1>6, LinesFacts
<1>9. t = RemoveAt(lines, n)
  <2>1. t \in Seq(Line) /\ lines \in Seq(Line)
    BY <1>6, LinesFacts
  <2>2. Shifted(t, lines, n) /\ n \in 1..Len(lines)
    BY <1>8 DEF Shifted
  <2> QED BY <2>1, <2>2, RemoveAtIs
<1> QED BY <1>3, <1>7, <1>9 DEF List!Delete, RemoveAt, List!RemoveAt

LEMMA DestroyRefines ==
    ASSUME Inv, t_destroy
    PROVE  List!Destroy
<1>1. size' = 0 /\ hand' = hand /\ theFields' = Freed(InTable)
  BY DEF t_destroy, r_destroy
<1>2. lines' = << >>
  BY <1>1 DEF lines
<1>3. LineInHand' = LineInHand
  <2>1. hand \notin InTable
    BY DEF Inv, RowsOwned
  <2>2. hand # NoRow => theFields'[hand] = theFields[hand]
    BY <1>1, <2>1, RowFacts DEF Freed
  <2> QED BY <1>1, <2>2 DEF LineInHand
<1> QED BY <1>2, <1>3 DEF List!Destroy

LEMMA StepRefines == Inv /\ [Next]_vars => [List!Next]_<<lines, LineInHand>>
<1> SUFFICES ASSUME Inv, [Next]_vars PROVE [List!Next]_<<lines, LineInHand>>
  OBVIOUS
<1>1. ASSUME NEW line \in Line, Row_create(line) PROVE List!Next
  BY <1>1, CreateRefines DEF List!Next
<1>2. CASE t_append
  BY <1>2, TakeRefines DEF List!Next
<1>3. CASE DestroyHand
  BY <1>3, DropRefines DEF List!Next
<1>4. ASSUME NEW n \in 1..size, t_remove(n) PROVE List!Next
  BY <1>4, DeleteRefines, LinesFacts DEF List!Next
<1>5. CASE t_destroy
  BY <1>5, DestroyRefines DEF List!Next
<1>6. CASE UNCHANGED vars
  BY <1>6 DEF vars, lines, LineInHand
<1> QED BY <1>1, <1>2, <1>3, <1>4, <1>5, <1>6 DEF Next

(* table.c keeps a list of lines: growing, shifting and freeing move no      *)
(* line, lose none and bring none back.                                      *)
THEOREM Refinement == Spec => ImplementsList
<1>1. Init => List!Init
  BY InitRefines
<1>2. Inv /\ [Next]_vars => [List!Next]_<<lines, LineInHand>>
  BY StepRefines
<1> QED BY <1>1, <1>2, Invariance, PTL DEF Spec, ImplementsList, List!Spec
=============================================================================
