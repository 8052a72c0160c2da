---------------------------- MODULE UpdateSlots -----------------------------
(***************************************************************************)
(* What an update promises, without directories, markers or boots: there   *)
(* is one build to fall back on, at most one candidate being tried, a      *)
(* floor under the epochs that may still be tried, and a set of candidates *)
(* that will not be tried again.  Each change is a single step.            *)
(***************************************************************************)
EXTENDS Naturals

CONSTANTS Bundle, Nobody, Initial, Epoch

VARIABLES
    base,       \* the build the device falls back on
    candidate,  \* the build being tried, or Nobody
    floor,      \* epochs up to this one are not tried any more
    refused     \* candidates that were given up for good

slots == <<base, candidate, floor, refused>>

SlotsInit ==
    /\ base = Initial /\ candidate = Nobody
    /\ floor = 0 /\ refused = {}

\* A candidate is newer than everything accepted and was not refused before.
Try(b) ==
    /\ candidate = Nobody
    /\ Epoch[b] > floor /\ b \notin refused
    /\ candidate' = b
    /\ UNCHANGED <<base, floor, refused>>

\* The floor rises to the candidate, and only then may it replace the base.
Raise ==
    /\ candidate # Nobody
    /\ Epoch[candidate] > floor
    /\ floor' = Epoch[candidate]
    /\ UNCHANGED <<base, candidate, refused>>

Accept ==
    /\ candidate # Nobody
    /\ Epoch[candidate] = floor /\ candidate \notin refused
    /\ base' = candidate /\ candidate' = Nobody
    /\ UNCHANGED <<floor, refused>>

\* A refused candidate stays until it is dropped; one that can no longer be
\* identified is dropped without being refused.
Refuse ==
    /\ candidate # Nobody
    /\ refused' = refused \cup {candidate}
    /\ UNCHANGED <<base, candidate, floor>>

Drop ==
    /\ candidate # Nobody
    /\ candidate' = Nobody
    /\ UNCHANGED <<base, floor, refused>>

SlotsNext ==
    \/ \E b \in Bundle : Try(b)
    \/ Raise \/ Accept \/ Refuse \/ Drop

SlotsSpec == SlotsInit /\ [][SlotsNext]_slots
=============================================================================
