----------------------------- MODULE MCRowTable -----------------------------
(* A line with a repeated field, one with none, and two that share a field.  *)
EXTENDS RowTable, TLC

CONSTANTS x, y

MCLine == {<< >>, <<x, x>>, <<x, y>>}

Symmetries == Permutations(Row)
=============================================================================
