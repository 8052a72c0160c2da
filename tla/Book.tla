-------------------------------- MODULE Book --------------------------------
(* The audiobook session of the interface (src/ui/main.c): it waits for the  *)
(* player to load the book, seeks to the bookmark once, then saves where the *)
(* listener is.  A timer does this every 400 ms; between two turns the user  *)
(* may act, the player may go its own way, and the receive thread may        *)
(* reattach to another player.                                               *)
(*                                                                           *)
(* A position is a place: two places are further apart than the margins of   *)
(* the code (35 s to a jump, 3 s to a seek that arrived, up to 30 s that a    *)
(* rewind goes back), and within a place bookmarks do not differ.  0 is the   *)
(* beginning.  Deadlines, pauses, durations, the save interval and the end of *)
(* the 2.5 s after a tap or a seek are choices.                               *)
EXTENDS Link, Integers

CONSTANT NoBook

ASSUME NoBookApart == NoBook \notin Book

VARIABLES
    sess,       \* g_book_sess: the book of the session
    pending,    \* ~g_book_resume_done: a seek to the bookmark is owed
    confirmed,  \* g_book_confirmed: the player has reported this book
    target,     \* g_book_resume_target (and g_book_resume_ms while pending)
    ckptOk,     \* g_book_ckpt_ok: checkpoints are allowed
    lastPos,    \* g_book_last_pos: the position of the last turn; -1: none
    guarded,    \* now < g_sleep_seek_guard: the user sought or tapped just now
    leaving,    \* book_tick has seen another track and is ending the session
    ticked,     \* this turn of the main loop, which has yet to take a reattach,
                \* has served its timers
    bm,         \* BOOK_PROGRESS: the bookmark of each book; 0: none
    base        \* history: where the listener wanted to be in the session's
                \* book, or has come to since

session == <<sess, pending, confirmed, target, ckptOk, lastPos>>
turn == <<leaving, ticked>>
marks == <<bm, base>>
vars == <<linkVars, session, guarded, turn, marks>>

NoSession ==
    /\ sess' = NoBook /\ pending' = FALSE /\ confirmed' = FALSE
    /\ target' = 0 /\ ckptOk' = FALSE /\ lastPos' = -1

\* mdb_book_save.
Saves(b, p) == bm' = [bm EXCEPT ![b] = p]

\* Position 0 is never saved, but the beginning may be a little more than that.
Above0(p) == {p > 0, TRUE}

\* The last checkpoint of ui_cancel_book_resume.
Flushes == sess # NoBook /\ ckptOk /\ st.path = sess /\ st.fresh
Flush == \E above \in Above0(st.pos) :
            IF Flushes /\ above THEN Saves(sess, st.pos) ELSE UNCHANGED bm

Cancels == Flush /\ NoSession /\ base' = 0
CancelsUnsaved == NoSession /\ base' = 0 /\ UNCHANGED bm

-----------------------------------------------------------------------------
(* The main loop takes a reattach at the top of each turn, and serves its    *)
(* timers and the touch screen once in a turn: that matters only while there *)
(* is a reattach to take.                                                    *)
LoopTop ==
    /\ ~leaving /\ reconn /\ reconn' = FALSE /\ ticked' = FALSE
    /\ IF sess # NoBook THEN CancelsUnsaved ELSE UNCHANGED <<session, marks>>
    /\ UNCHANGED <<player, q, rx, seen, rxat, reopen, st, guarded, leaving>>

Ticks ==
    /\ ~leaving /\ ~ticked /\ ticked' = reconn
    /\ UNCHANGED <<guarded, linkVars>>
TicksOn == Ticks /\ UNCHANGED leaving

\* book_tick without a session: a book that plays, say after a restart of the
\* interface, is taken over.  A bookmark much deeper than the position means
\* that the player is not where the listener was.
TickAdopts ==
    /\ TicksOn /\ sess = NoBook /\ st.path \in Book
    /\ sess' = st.path /\ confirmed' = TRUE
    /\ IF bm[st.path] > st.pos
       THEN pending' = TRUE /\ target' = bm[st.path] /\ ckptOk' = FALSE /\ lastPos' = -1
       ELSE pending' = FALSE /\ target' = 0 /\ ckptOk' = TRUE /\ lastPos' = st.pos
    /\ base' = bm[st.path] /\ UNCHANGED bm

\* Another track: the session is over, or (before the book has been reported)
\* it is given up after a while.
TickSeesOther ==
    /\ Ticks /\ sess # NoBook /\ st.path # sess
    /\ leaving' = TRUE
    /\ UNCHANGED <<session, marks>>

\* ui_cancel_book_resume reads the state again: the receive thread may have gone
\* on meanwhile.
TickLeaves ==
    /\ leaving /\ leaving' = FALSE
    /\ Cancels
    /\ UNCHANGED <<guarded, ticked, linkVars>>

TickConfirms ==
    /\ TicksOn /\ sess # NoBook /\ st.path = sess /\ ~confirmed
    /\ confirmed' = TRUE
    /\ UNCHANGED <<sess, pending, target, ckptOk, lastPos, marks>>

\* The seek that is owed; if it cannot be sent, it stays owed.
TickResumes ==
    /\ TicksOn /\ sess # NoBook /\ st.path = sess /\ confirmed /\ pending
    /\ pending' \in BOOLEAN
    /\ UNCHANGED <<sess, confirmed, target, ckptOk, lastPos, marks>>

Tracking == TicksOn /\ sess # NoBook /\ st.path = sess /\ confirmed /\ ~pending

\* The position has gone far back.
JumpedBack == lastPos >= 0 /\ st.pos < lastPos

\* Nobody sought: the book began again.
TickBegunAgain ==
    /\ Tracking /\ st.fresh /\ JumpedBack /\ ~guarded
    /\ CancelsUnsaved

\* A position beyond the duration is of what the player has gone on to.
TickOverflows ==
    /\ Tracking /\ st.fresh /\ (JumpedBack => guarded)
    /\ CancelsUnsaved

\* The listener has come further, or went back on purpose.
Reaches == ckptOk' /\ (st.pos > base \/ (JumpedBack /\ guarded))

\* What a turn does with a position that it takes.
Tracks ==
    /\ lastPos' = st.pos
    /\ \E above \in Above0(st.pos) :
          /\ ckptOk' = (ckptOk \/ (above /\ st.pos = target))
          /\ \/ ckptOk' /\ above /\ Saves(sess, st.pos)
             \/ UNCHANGED bm
    /\ base' = IF Reaches THEN st.pos ELSE base
    /\ target' = IF ckptOk' THEN 0 ELSE target
    /\ UNCHANGED <<sess, pending, confirmed>>

\* Mutant: a jump back is taken from whoever made it.
TickTracksAnyJump == Tracking /\ st.fresh /\ Tracks

\* A position of this book: the next baseline, and the next checkpoint once the
\* seek is known to have arrived.  A jump back is taken if the user sought or
\* tapped a moment ago.
TickTracks == Tracking /\ st.fresh /\ (JumpedBack => guarded) /\ Tracks

\* No position of this track yet.
TickWaits == Tracking /\ ~st.fresh /\ UNCHANGED <<session, marks>>

Tick == TickAdopts \/ TickSeesOther \/ TickLeaves \/ TickConfirms \/ TickResumes
        \/ TickBegunAgain \/ TickOverflows \/ TickTracks \/ TickWaits

-----------------------------------------------------------------------------
(* The user. *)
Acts == ~leaving /\ UNCHANGED <<turn, linkVars>>

\* 2.5 s after the last of ui_defer_sleep and ui_book_user_seeked.
GuardEnds ==
    /\ guarded /\ guarded' = FALSE
    /\ UNCHANGED <<linkVars, session, turn, marks>>

\* A tap on play and pause, and a seek by next or previous that cannot be sent.
UserTaps == Acts /\ guarded' = TRUE /\ UNCHANGED <<session, marks>>

\* The ring, a chapter or, in a book, next and previous: a seek in the track on
\* screen.  ui_book_user_seeked makes it the bookmark of the session's book.
UserSeeks(p) ==
    /\ Acts /\ st.path # NoTrack
    /\ guarded' = TRUE
    /\ IF sess # NoBook /\ confirmed
       THEN /\ pending' = FALSE /\ target' = p /\ ckptOk' = FALSE
            /\ lastPos' = p /\ UNCHANGED <<sess, confirmed>>
            /\ Saves(sess, p) /\ base' = p
       ELSE UNCHANGED <<session, marks>>

\* book_row_cb and ui_play_book: from the bookmark as it was before the flush.
UserPlaysBook(b) ==
    /\ Acts /\ UNCHANGED guarded
    /\ Flush /\ base' = bm[b]
    /\ sess' = b /\ target' = bm[b] /\ confirmed' = FALSE /\ lastPos' = -1
    /\ pending' \in {bm[b] > 0, TRUE} /\ ckptOk' = ~pending'

\* ui_play_list_ex, ui_queue_jump, next and previous, the last with a guard: the
\* session is over.  So it is if the command for a book cannot be sent.
UserPlaysMusic ==
    /\ Acts /\ Cancels
    /\ guarded' \in {guarded, TRUE}

UserStep == \/ \E p \in Pos : UserSeeks(p)
            \/ \E b \in Book : UserPlaysBook(b)
            \/ UserPlaysMusic \/ UserTaps

\* The interface ends and starts again; its bookmarks are in the database.  If
\* there is no queue yet, ipc_start creates one, which a player that starts
\* later replaces.
UiRestarts ==
    /\ \/ named # 0 /\ UNCHANGED <<ids, named>>
       \/ named = 0 /\ ids < MaxIds /\ ids' = ids + 1 /\ named' = ids'
    /\ rx' = named' /\ seen' = named'
    /\ q' = [i \in Id |-> IF i = named THEN q[i] ELSE <<>>]
    /\ rxat' = "read" /\ reopen' = FALSE /\ reconn' = FALSE
    /\ st' = NoState /\ CancelsUnsaved
    /\ guarded' = FALSE /\ leaving' = FALSE /\ ticked' = FALSE
    /\ UNCHANGED <<sends, pl>>

-----------------------------------------------------------------------------
Init ==
    /\ LinkInit
    /\ sess = NoBook /\ pending = FALSE /\ confirmed = FALSE
    /\ target = 0 /\ ckptOk = FALSE /\ lastPos = -1
    /\ guarded = FALSE /\ leaving = FALSE /\ ticked = FALSE
    /\ bm \in [Book -> Pos] /\ base = 0

OnLine == UNCHANGED <<session, guarded, turn, marks>>

Next ==
    \/ (PlayerStep \/ RxStep \/ HealthCheck) /\ OnLine
    \/ LoopTop \/ Tick \/ UserStep \/ GuardEnds \/ UiRestarts

Spec == Init /\ [][Next]_vars

-----------------------------------------------------------------------------
TypeOK ==
    /\ LinkTypeOK
    /\ sess \in Book \cup {NoBook} /\ lastPos \in Pos \cup {-1}
    /\ {target, base} \subseteq Pos /\ bm \in [Book -> Pos]
    /\ {pending, confirmed, ckptOk, guarded, leaving, ticked} \subseteq BOOLEAN

BySeek == \E p \in Pos : UserSeeks(p)
ByLeaving == (\E b \in Book : UserPlaysBook(b)) \/ UserPlaysMusic \/ TickLeaves

\* The freshness test of book_tick and of the flush: unless the user sought, a
\* bookmark only ever becomes a position that the player reported of this very
\* book since it last switched to it, though the position on record outlives
\* track changes, the player itself and the attachment to its queue.
BookmarkOwn ==
    [][\A b \in Book : bm'[b] # bm[b] =>
          BySeek \/ (st.path = b /\ st.own /\ bm'[b] = st.pos)]_vars

\* What the resume, adoption, confirmation and jump guards are for: a player
\* that plays a book from somewhere else (restarted, begun again, seek ignored or
\* landed in another track) never takes the bookmark back behind where the
\* listener wanted to be in this session or has come to since.  Going back on
\* purpose is a seek, or a jump seen in the moment after a seek or a tap.  The
\* exception is the flush on leaving a book that has just jumped back, before the
\* next turn has judged the jump: that flush has no such guard.
BookmarkKept ==
    [][\A b \in Book : bm'[b] # bm[b] =>
          \/ b = sess /\ bm'[b] >= base
          \/ b = sess' /\ bm'[b] >= base'
          \/ JumpedBack /\ ByLeaving]_vars
=============================================================================
