------------------------------ MODULE MCStrHeap ------------------------------
EXTENDS StrHeap, TLC

Symmetries == Permutations(Node)
=============================================================================
