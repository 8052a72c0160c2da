----------------------------- MODULE MCScrobble -----------------------------
(* Two plays and one or two pairs of credentials for the scrobbler. *)
EXTENDS Scrobble, TLC

CONSTANTS p1, p2, k1, k2

Plays == {p1, p2}
OneKey == {k1}
Keys == {k1, k2}

\* Neither the plays nor the credentials are told apart by anything.
Alike == {f @@ g : f \in Permutations(Play), g \in Permutations(Cred)}
=============================================================================
