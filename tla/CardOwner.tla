----------------------------- MODULE CardOwner ------------------------------
(***************************************************************************)
(* What the hand-off of the SD card promises, without phases, handlers,    *)
(* deadlines or a player: the device uses the card or has lent it to a USB *)
(* host, never both, and a record that survives the interface says first   *)
(* what may be about to happen.  Each change is a single step.             *)
(***************************************************************************)
CONSTANT User

VARIABLES
    users,      \* who reads or writes the card, or is mounting it
    lent,       \* a host has the card, or a request to give it is on its way
    recorded    \* it is on record that the card may be lent

owner == <<users, lent, recorded>>

OwnerInit == users = {} /\ lent = FALSE /\ recorded = FALSE

\* Nobody new begins while the record is there, whether or not it is lent yet.
Use(u) ==
    /\ ~recorded
    /\ users' = users \cup {u}
    /\ UNCHANGED <<lent, recorded>>

\* One is done, or all are killed.
Leave(some) ==
    /\ users' = users \ some
    /\ UNCHANGED <<lent, recorded>>

\* The last user is gone: record, and only then lend.
Record ==
    /\ users = {}
    /\ recorded' = TRUE
    /\ UNCHANGED <<users, lent>>

Lend ==
    /\ recorded
    /\ lent' = TRUE
    /\ UNCHANGED <<users, recorded>>

\* The host has let go and no request is left: only then is the record removed.
Return ==
    /\ lent' = FALSE
    /\ UNCHANGED <<users, recorded>>

Forget ==
    /\ ~lent
    /\ recorded' = FALSE
    /\ UNCHANGED <<users, lent>>

OwnerNext ==
    \/ \E u \in User : Use(u)
    \/ \E some \in SUBSET User : Leave(some)
    \/ Record \/ Lend \/ Return \/ Forget

OwnerSpec == OwnerInit /\ [][OwnerNext]_owner

\* A lent card has no user here, and that it is lent is on record.
OneOwner == (lent => recorded) /\ (recorded => users = {})
=============================================================================
