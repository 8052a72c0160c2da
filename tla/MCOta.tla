------------------------------- MODULE MCOta --------------------------------
(* Three releases of the interface, in the order they were signed. *)
EXTENDS Ota

CONSTANTS b1, b2, b3

One == {b1}
Two == {b1, b2}
Three == {b1, b2, b3}

MCEpoch == [b \in Bundle |-> CASE b = b1 -> 1 [] b = b2 -> 2 [] OTHER -> 3]
MCVersion ==
    [b \in Bundle \cup {Flashed} |-> IF b = Flashed THEN 0 ELSE MCEpoch[b]]
=============================================================================
