----------------------------- MODULE MCBringup ------------------------------
(* Values for TLC: one signed build beside the flashed one, every fault, and  *)
(* a hook that may run twice in a boot.                                       *)
EXTENDS Bringup

CONSTANTS b1

Bundles == {b1}
=============================================================================
