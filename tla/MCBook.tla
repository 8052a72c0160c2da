------------------------------- MODULE MCBook -------------------------------
(* One audiobook and one song, and a player that may restart once.           *)
EXTENDS Book, TLC

CONSTANTS b1, s1

OneBook == {b1}
OneSong == {s1}
=============================================================================
