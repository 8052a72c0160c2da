----------------------------- MODULE MCSettings -----------------------------
(* Four keys in a store with room for three: two of a pair that is set in    *)
(* batches, one that a reset removes and one that it keeps.                  *)
EXTENDS Settings, TLC

CONSTANTS user, session, swipe_thresh, gain, x, y

Keys == {user, session, swipe_thresh, gain}
Values == {x, y}
Account == {user, session}
Tuned == {swipe_thresh}

Sym == Permutations(Values) \cup Permutations(Account)
=============================================================================
