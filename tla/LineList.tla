------------------------------ MODULE LineList ------------------------------
(* What a table of rows is for (table.h, row.h of Projects/P4): a list of    *)
(* lines, appended at the end, removed by index, and one line in the hands   *)
(* of the caller.                                                            *)
EXTENDS Naturals, Sequences, SequencesExt

CONSTANTS Line, NoLine

VARIABLES lines, hand

Init == lines = << >> /\ hand = NoLine

Create(l) == hand = NoLine /\ hand' = l /\ UNCHANGED lines
Take      == hand # NoLine /\ lines' = Append(lines, hand) /\ hand' = NoLine
Drop      == hand # NoLine /\ hand' = NoLine /\ UNCHANGED lines
Delete(i) == lines' = RemoveAt(lines, i) /\ UNCHANGED hand
Destroy   == lines' = << >> /\ UNCHANGED hand

Next == \/ \E l \in Line : Create(l)
        \/ Take \/ Drop \/ Destroy
        \/ \E i \in DOMAIN lines : Delete(i)

Spec == Init /\ [][Next]_<<lines, hand>>
=============================================================================
