------------------------------- MODULE Outbox -------------------------------
(***************************************************************************)
(* What scrobbling promises a listener, without a worker, sessions or      *)
(* rounds of a loop: plays go into a box once and in order, the oldest is  *)
(* delivered first, and only what was delivered is removed.  A loss of     *)
(* power takes the youngest, as far as they were not safe yet.             *)
(***************************************************************************)
EXTENDS Naturals, Sequences

CONSTANTS Play, Nothing

VARIABLES
    box,        \* the plays to be delivered, oldest first
    safe,       \* how many of them no loss of power takes
    posted,     \* plays that ever went in
    sending,    \* the play that is on its way, or Nothing
    delivered   \* plays the service has answered for

outbox == <<box, safe, posted, sending, delivered>>

OutboxInit ==
    /\ box = <<>> /\ safe = 0
    /\ posted = {} /\ sending = Nothing /\ delivered = {}

Post(p) ==
    /\ p \notin posted
    /\ box' = Append(box, p) /\ posted' = posted \cup {p}
    /\ UNCHANGED <<safe, sending, delivered>>

\* One at a time, the oldest first.
Dispatch ==
    /\ sending = Nothing /\ box # <<>>
    /\ sending' = Head(box)
    /\ UNCHANGED <<box, safe, posted, delivered>>

Deliver ==
    /\ sending # Nothing
    /\ delivered' = delivered \cup {sending}
    /\ UNCHANGED <<box, safe, posted, sending>>

\* It was delivered: the box is written anew without it.
Remove ==
    /\ sending \in delivered /\ box # <<>> /\ Head(box) = sending
    /\ box' = Tail(box) /\ safe' = Len(box) - 1
    /\ sending' = Nothing
    /\ UNCHANGED <<posted, delivered>>

\* No answer, or none that was noted: it will be sent again.
GiveUp ==
    /\ sending' = Nothing
    /\ UNCHANGED <<box, safe, posted, delivered>>

Lose ==
    /\ \E n \in safe .. Len(box) : box' = SubSeq(box, 1, n) /\ safe' = n
    /\ sending' = Nothing
    /\ UNCHANGED <<posted, delivered>>

OutboxNext ==
    \/ \E p \in Play : Post(p)
    \/ Dispatch \/ Deliver \/ Remove \/ GiveUp \/ Lose

OutboxSpec == OutboxInit /\ [][OutboxNext]_outbox
=============================================================================
