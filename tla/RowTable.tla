------------------------------ MODULE RowTable ------------------------------
(* row.c and table.c of Projects/P4 as ttest.c uses them, in one thread:     *)
(* rows whose fields live on the string heap, and the table's array of them. *)
(* str_malloc and str_free count references; that they do so is shown in     *)
(* StrHeap.                                                                  *)
EXTENDS Naturals, Sequences, SequencesExt, FiniteSets

CONSTANTS Row, NoRow,        (* heap addresses of rows                        *)
          String,
          Line, NoLine,      (* what split makes of a line: its fields        *)
          DEFAULT_CAPACITY,
          MaxCapacity        (* bound: what realloc can still provide         *)

ASSUME RowTableConstants ==
    /\ NoRow \notin Row /\ IsFiniteSet(Row)
    /\ Line \subseteq Seq(String) /\ NoLine \notin Line
    /\ DEFAULT_CAPACITY \in Nat \ {0} /\ MaxCapacity \in Nat

VARIABLES count,     (* the string heap: per string, its reference count      *)
          theFields, (* per row, its fields, or NoLine if it is not allocated *)
          rows,      (* the array of the table, its length the capacity; an   *)
                     (* entry beyond size is leftover, or NoRow if never set  *)
          size,
          hand       (* the row the caller made and the table has not taken   *)

vars == <<count, theFields, rows, size, hand>>

capacity == Len(rows)
InTable == {rows[i] : i \in 1..size}
LiveRows == {r \in Row : theFields[r] # NoLine}
Occurrences(line, s) == Cardinality({i \in DOMAIN line : line[i] = s})

(* The places <<row, index>> of the fields of the rows in R, and those that  *)
(* hold the string s.                                                        *)
FieldsOf(R) == UNION {{r} \X DOMAIN theFields[r] : r \in R}
Uses(R, s) == {f \in FieldsOf(R) : theFields[f[1]][f[2]] = s}

(* Mutant: a repeated field is counted once. *)
split1(line) == [s \in String |-> count[s] + (IF s \in ToSet(line) THEN 1 ELSE 0)]
(* split: one str_malloc per field. *)
split(line) == [s \in String |-> count[s] + Occurrences(line, s)]

(* r_destroy of a set of rows: one str_free per field, and the row. *)
Freed(R) == [r \in Row |-> IF r \in R THEN NoLine ELSE theFields[r]]
StringsFreed(R) == [s \in String |-> count[s] - Cardinality(Uses(R, s))]
r_destroy(R) == count' = StringsFreed(R) /\ theFields' = Freed(R)
-----------------------------------------------------------------------------
Init == /\ count = [s \in String |-> 0]
        /\ theFields = [r \in Row |-> NoLine]
        /\ rows = [i \in 1..DEFAULT_CAPACITY |-> NoRow]
        /\ size = 0
        /\ hand = NoRow

Row_create(line) == /\ hand = NoRow
                    /\ \E r \in Row \ LiveRows :
                         /\ hand' = r
                         /\ theFields' = [theFields EXCEPT ![r] = line]
                    /\ count' = split(line)
                    /\ UNCHANGED <<rows, size>>

(* rows after a realloc that worked, or did not have to be tried. *)
Grown == IF size < capacity THEN rows
         ELSE rows \o [i \in 1..capacity |-> NoRow]

(* Mutant: the array grows over what it holds. *)
t_append_front == /\ hand # NoRow
                  /\ size < capacity \/ 2 * capacity <= MaxCapacity
                  /\ rows' = <<hand>> \o Front(Grown)
                  /\ size' = size + 1
                  /\ hand' = NoRow
                  /\ UNCHANGED <<count, theFields>>
t_append == /\ hand # NoRow
            /\ size < capacity \/ 2 * capacity <= MaxCapacity
            /\ rows' = [Grown EXCEPT ![size + 1] = hand]
            /\ size' = size + 1
            /\ hand' = NoRow
            /\ UNCHANGED <<count, theFields>>

(* If realloc fails, t_append returns false and changes nothing; the caller  *)
(* may destroy a row the table did not take.                                 *)
DestroyHand == /\ hand # NoRow
               /\ r_destroy({hand})
               /\ hand' = NoRow
               /\ UNCHANGED <<rows, size>>

(* Mutant: the shift stops one short. *)
t_remove_short(n) == /\ r_destroy({rows[n]})
                     /\ rows' = [i \in DOMAIN rows |->
                                   IF i \in n..size - 2 THEN rows[i + 1] ELSE rows[i]]
                     /\ size' = size - 1
                     /\ UNCHANGED hand
(* freeValue, and the rows after n move down. *)
t_remove(n) == /\ r_destroy({rows[n]})
               /\ rows' = [i \in DOMAIN rows |->
                             IF i \in n..size - 1 THEN rows[i + 1] ELSE rows[i]]
               /\ size' = size - 1
               /\ UNCHANGED hand

(* The table goes, and a new one is made. *)
t_destroy == /\ r_destroy(InTable)
             /\ rows' = [i \in 1..DEFAULT_CAPACITY |-> NoRow]
             /\ size' = 0
             /\ UNCHANGED hand

Next == \/ \E line \in Line : Row_create(line)
        \/ t_append \/ DestroyHand
        \/ \E n \in 1..size : t_remove(n)
        \/ t_destroy

Spec == Init /\ [][Next]_vars
-----------------------------------------------------------------------------
TypeOK == /\ count \in [String -> Nat]
          /\ theFields \in [Row -> Line \cup {NoLine}]
          /\ rows \in Seq(Row \cup {NoRow})
          /\ size \in 0..capacity
          /\ hand \in Row \cup {NoRow}

(* The string heap holds what the rows hold: a string's reference count is   *)
(* the number of fields, of rows in the table or in hand, that it is.        *)
CountsMatchRows ==
    \A s \in String : count[s] = Cardinality(Uses(LiveRows, s))

(* Every row there is belongs to the table, once, or to the caller; and the  *)
(* table and the caller have no row that is gone.                            *)
RowsOwned == /\ \A i, j \in 1..size : rows[i] = rows[j] => i = j
             /\ hand \notin InTable
             /\ LiveRows = InTable \cup ({hand} \ {NoRow})
-----------------------------------------------------------------------------
lines == [i \in 1..size |-> theFields[rows[i]]]
LineInHand == IF hand = NoRow THEN NoLine ELSE theFields[hand]

List == INSTANCE LineList WITH hand <- LineInHand

(* The array behaves as a list of lines: growing, shifting and freeing move  *)
(* no line, lose none and bring none back.                                   *)
ImplementsList == List!Spec
=============================================================================
