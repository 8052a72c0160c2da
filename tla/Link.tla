-------------------------------- MODULE Link --------------------------------
(* The line to the stock player (src/ui/ipc.c): frames arrive through the    *)
(* POSIX queue /ui, commands leave through /player.  A player that restarts  *)
(* unlinks /ui and creates it anew; the interface is still attached to the   *)
(* old queue until its receive thread opens the name again.                  *)
(*                                                                           *)
(* The player is external.  It is assumed to announce a track before it      *)
(* reports positions in it; a position that finds the queue full is dropped. *)
(* Where it is in a track is a choice: a book may begin again unannounced,   *)
(* and a seek that was sent may be carried out, lost or ignored.             *)
EXTENDS Naturals, Sequences

CONSTANTS
    Book, Song, \* what can be played: audiobooks, music
    NoTrack,    \* nothing is playing
    MaxPos,     \* bound: places in a book
    QLen,       \* bound: frames that fit in a queue
    MaxIds      \* bound: queues /ui that are ever created

Track == Book \cup Song
Pos == 0 .. MaxPos
Id == 1 .. MaxIds

ASSUME TracksApart == Book \cap Song = {} /\ NoTrack \notin Track
ASSUME BoundsTyped == MaxPos \in Nat /\ QLen \in Nat \ {0} /\ MaxIds \in Nat \ {0}

VARIABLES
    ids,        \* queues created so far
    named,      \* the queue that bears the name /ui; 0: the name is free
    sends,      \* the queue the player sends to; 0: it is still starting
    q,          \* the frames waiting in each queue
    pl,         \* the player's track
    rx,         \* g_rx: the queue the receive thread is attached to
    seen,       \* g_rx_dev, g_rx_ino: the identity recorded for it
    rxat,       \* how far rx_do_reopen is
    reopen,     \* g_rx_reopen: a reattach is requested
    reconn,     \* g_reconnected: a reattach the main loop has not taken yet
    st          \* g_state: path, position, pos_seq > path_seq as fresh, and
                \* (history) whether the player said this position of this
                \* track (own)

player == <<ids, named, sends, pl>>
line == <<rx, seen, rxat, reopen, reconn>>
linkVars == <<player, q, line, st>>

TrackFrame(t) == [kind |-> "track", track |-> t]
PosFrame(p) == [kind |-> "pos", pos |-> p, of |-> pl]

NoState == [path |-> NoTrack, pos |-> 0, fresh |-> FALSE, own |-> FALSE]

-----------------------------------------------------------------------------
(* The player. *)

Full(i) == Len(q[i]) >= QLen
Sends(f) == q' = [q EXCEPT ![sends] = Append(@, f)]

\* The player dies and another one starts: the name /ui is free for a moment.
PlayerStarts ==
    /\ sends # 0
    /\ named' = 0 /\ sends' = 0 /\ pl' = NoTrack
    /\ q' = [i \in Id |-> IF i = rx THEN q[i] ELSE <<>>]
    /\ UNCHANGED <<ids, line, st>>

PlayerCreates ==
    /\ sends = 0 /\ ids < MaxIds
    /\ ids' = ids + 1 /\ named' = ids' /\ sends' = ids'
    /\ UNCHANGED <<pl, q, line, st>>

\* Another track, by a key on the device, the player's own resume, or a command
\* of the interface.
PlayerSwitches(t) ==
    /\ sends # 0 /\ ~Full(sends) /\ t # pl
    /\ pl' = t
    /\ Sends(TrackFrame(t))
    /\ UNCHANGED <<ids, named, sends, line, st>>

\* Its positions in music do not matter here.
PlayerPlays ==
    /\ sends # 0 /\ pl \in Book
    /\ ~Full(sends) /\ \E p \in Pos : Sends(PosFrame(p))
    /\ UNCHANGED <<ids, named, sends, pl, line, st>>

PlayerStep ==
    \/ PlayerStarts \/ PlayerCreates \/ PlayerPlays
    \/ \E t \in Track \cup {NoTrack} : PlayerSwitches(t)

-----------------------------------------------------------------------------
(* The receive thread. *)

\* Mutant: the old track's position counts as one of the new track.
ParsedStale(f) ==
    IF f.kind = "pos"
    THEN [st EXCEPT !.pos = f.pos, !.fresh = TRUE, !.own = (f.of = st.path)]
    ELSE IF f.track = st.path THEN st
    ELSE IF f.track = NoTrack THEN NoState
    ELSE [st EXCEPT !.path = f.track, !.own = FALSE]

\* parse_a2 and parse_frame: a track that changes takes no position with it;
\* the end of playback clears the position, too.
Parsed(f) ==
    IF f.kind = "pos"
    THEN [st EXCEPT !.pos = f.pos, !.fresh = TRUE, !.own = (f.of = st.path)]
    ELSE IF f.track = st.path THEN st
    ELSE IF f.track = NoTrack THEN NoState
    ELSE [st EXCEPT !.path = f.track, !.fresh = FALSE, !.own = FALSE]

RxReads ==
    /\ rxat = "read" /\ q[rx] # <<>>
    /\ st' = Parsed(Head(q[rx]))
    /\ q' = [q EXCEPT ![rx] = Tail(@)]
    /\ UNCHANGED <<player, line>>

\* rx_do_reopen clears the request, then opens whatever bears the name; if
\* nothing does, it asks again.
RxClears ==
    /\ rxat = "read" /\ reopen
    /\ reopen' = FALSE /\ rxat' = "open"
    /\ UNCHANGED <<player, q, rx, seen, reconn, st>>

RxOpens ==
    /\ rxat = "open" /\ rxat' = "read"
    /\ \/ named = 0 /\ reopen' = TRUE /\ UNCHANGED <<q, rx, seen, reconn>>
       \/ /\ named # 0 /\ rx' = named /\ seen' = named /\ reconn' = TRUE
          /\ q' = [i \in Id |-> IF i = named THEN q[i] ELSE <<>>]
          /\ UNCHANGED reopen
    /\ UNCHANGED <<player, st>>

RxStep == RxReads \/ RxClears \/ RxOpens

\* ipc_health_check: the name does not lead to the queue we are attached to.
HealthCheck ==
    /\ named # 0 /\ named # seen
    /\ reopen' = TRUE
    /\ UNCHANGED <<player, q, rx, seen, rxat, reconn, st>>

-----------------------------------------------------------------------------
LinkInit ==
    /\ ids = 1 /\ named = 1 /\ sends = 1 /\ rx = 1 /\ seen = 1
    /\ q = [i \in Id |-> <<>>]
    /\ pl = NoTrack /\ st = NoState
    /\ rxat = "read" /\ reopen = FALSE /\ reconn = FALSE

LinkTypeOK ==
    /\ ids \in Id /\ {rx, seen} \subseteq Id /\ {named, sends} \subseteq Id \cup {0}
    /\ \A i \in Id : Len(q[i]) <= QLen
    /\ rxat \in {"read", "open"} /\ {reopen, reconn} \subseteq BOOLEAN
    /\ pl \in Track \cup {NoTrack}
    /\ st \in [path : Track \cup {NoTrack}, pos : Pos, fresh : BOOLEAN, own : BOOLEAN]
=============================================================================
