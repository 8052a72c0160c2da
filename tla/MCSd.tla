-------------------------------- MODULE MCSd --------------------------------
(***************************************************************************)
(* Instances of the hand-off for TLC: the interface's threads are alike.   *)
(***************************************************************************)
EXTENDS Sd, TLC

CONSTANTS t1, t2

OneThread == {t1}
TwoThreads == {t1, t2}
Alike == Permutations(TwoThreads)
=============================================================================
