-------------------------------- MODULE MCDts --------------------------------
EXTENDS Dts, TLC

Symmetries == Permutations(EventAddr) \cup Permutations(TimevalAddr)
=============================================================================
