------------------------------- MODULE MCUsps -------------------------------
(* Instances of Usps: the quanta 0 (none given), 20 (one tick) and 40 (two). *)
EXTENDS Usps

MCQuanta == {0, 20, 40}
OneTick == {20}
Programs4 == {"v4"}
=============================================================================
