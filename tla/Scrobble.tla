------------------------------ MODULE Scrobble ------------------------------
(***************************************************************************)
(* Scrobbling to Last.fm (ui/lastfm.c).  The main thread watches playback, *)
(* appends every play that earned it to the file lastfm.queue, and in each *)
(* round of its loop takes the one result of the one worker and starts the *)
(* next job.  A result does not say which line of the file it is about.    *)
(*                                                                         *)
(* A play is one listening to one track.  A session is named by its        *)
(* credentials and by the authorisation it was granted to.  g_gen starts   *)
(* over in every life of the interface; here it goes on counting, which is *)
(* the same since no job outlives its interface.                           *)
(***************************************************************************)
EXTENDS Naturals, Sequences

CONSTANTS
    Play,       \* the plays of this instance
    Cred,       \* pairs of API key and shared secret
    None,
    Cap,        \* LFM_QUEUE_MAX
    MaxGen,     \* bound on g_gen
    MaxLives,   \* bound on the restarts of the interface
    Faults      \* "full": /usr/data may be full; "cut": the power fails

ASSUME NoneApart == None \notin Play \cup Cred
ASSUME BoundsTyped ==
    Cap \in Nat \ {0} /\ MaxGen \in Nat \ {0} /\ MaxLives \in Nat
ASSUME FaultsKnown == Faults \subseteq {"full", "cut"}

VARIABLES
    queue,      \* lastfm.queue, oldest first
    synced,     \* how many of its lines are durable
    saved,      \* the credentials and the session in the settings file
    gen,        \* g_gen, counted over all lives
    cred, sk,   \* g_api_key with g_secret; g_sk
    auth, want, \* g_auth_state, g_auth_want_token
    at,         \* how far lastfm_poll is in this round
    job,        \* what the worker is doing (g_inflight)
    result,     \* g_result, while g_result_ready
    backoff,    \* g_backoff_ms is in the future
    enabled,    \* g_enabled
    cur, heard, \* the candidate, and that it was listened to long enough
    scrobbled, np,  \* g_scrobbled, g_np_pending
    lives,      \* restarts so far
    \* observations: read by properties only
    played,     \* plays that became a candidate
    kept,       \* plays that were appended
    answered,   \* plays the service took or refused for good
    unsure,     \* plays that may be sent again: no reply, or not removed
    lost        \* plays a power cut took out of the file

file == <<queue, synced>>
login == <<gen, cred, sk, saved, auth, want>>
worker == <<job, result, at, backoff>>
watcher == <<cur, heard, scrobbled, np, played, kept>>
outside == <<enabled, lives, lost>>
service == <<answered, unsure>>
vars == <<file, login, worker, watcher, outside, service>>

InFile == {queue[i] : i \in DOMAIN queue}
Connected == sk # None

\* Mutant: a result that was not looked at yet does not count.
BusyWorking == job # None

\* lfm_busy, and the test in lfm_start_job.
Busy == job # None \/ result # None

\* cfg_commit rewrites the whole settings file, or leaves it as it is.
Saves(c, s) ==
    \/ saved' = [cred |-> c, sk |-> s]
    \/ "full" \in Faults /\ UNCHANGED saved

-----------------------------------------------------------------------------
\* lfm_queue_append: 1 and 0 (a line more, or the file is at its cap and the
\* play is dropped) are done, -1 is to be tried again.
Appends(p, done) ==
    \/ /\ done /\ Len(queue) < Cap
       /\ queue' = Append(queue, p) /\ kept' = kept \cup {p}
    \/ done /\ Len(queue) >= Cap /\ UNCHANGED <<queue, kept>>
    \/ /\ ~done /\ "full" \in Faults /\ Len(queue) < Cap
       /\ UNCHANGED <<queue, kept>>

\* lfm_queue_pop: the rest is written aside, synced and renamed over the file;
\* when that fails the file stays as it was.
Pops ==
    \/ queue' = Tail(queue) /\ synced' = Len(queue) - 1 /\ UNCHANGED unsure
    \/ /\ "full" \in Faults
       /\ UNCHANGED file /\ unsure' = unsure \cup {result.play}

-----------------------------------------------------------------------------
\* The watcher runs while scrobbling is on and there is a session.
Watching == at = "idle" /\ enabled /\ Connected

\* Mutant: appended though it is in the file already.
FinalizeAgain ==
    IF cur # None /\ heard THEN \E done \in BOOLEAN : Appends(cur, done)
    ELSE UNCHANGED <<queue, kept>>

\* The outgoing candidate is appended if it earned it and is not yet.
Finalize ==
    IF cur # None /\ heard /\ ~scrobbled THEN \E done \in BOOLEAN : Appends(cur, done)
    ELSE UNCHANGED <<queue, kept>>

\* Another track, or the same from its beginning.
WatchStart(p) ==
    /\ Watching /\ p \notin played
    /\ Finalize
    /\ cur' = p /\ heard' = FALSE /\ scrobbled' = FALSE /\ np' = TRUE
    /\ played' = played \cup {p}
    /\ UNCHANGED <<synced, login, worker, outside, service>>

\* The candidate has been listened to long enough: append it, and try again
\* in the next round if that failed.
WatchOn ==
    /\ Watching /\ cur # None /\ ~scrobbled
    /\ heard' = TRUE
    /\ \E done \in BOOLEAN : Appends(cur, done) /\ scrobbled' = done
    /\ UNCHANGED <<synced, cur, np, played>>
    /\ UNCHANGED <<login, worker, outside, service>>

\* No track, or an audiobook.  What is known of a candidate is not read again
\* once it is gone.
WatchStop ==
    /\ Watching /\ cur # None
    /\ Finalize
    /\ cur' = None /\ heard' = FALSE /\ scrobbled' = FALSE /\ np' = FALSE
    /\ UNCHANGED <<synced, played>>
    /\ UNCHANGED <<login, worker, outside, service>>

-----------------------------------------------------------------------------
\* lastfm_set_credentials, then lastfm_auth_begin: a phone posted new keys.  The
\* two increments of g_gen are one here.
Provision(c) ==
    /\ at = "idle" /\ gen < MaxGen
    /\ at' = "take"
    /\ cred' = c /\ sk' = None /\ Saves(c, None)
    /\ gen' = gen + 1 /\ auth' = "token" /\ want' = TRUE
    /\ UNCHANGED <<file, job, result, backoff, watcher, outside, service>>

\* lastfm_auth_begin: "Connect account" or "Retry"; the page may be out of date
\* for a moment, so the state is not looked at.
Connect ==
    /\ at = "idle" /\ cred # None /\ gen < MaxGen
    /\ gen' = gen + 1 /\ auth' = "token" /\ want' = TRUE
    /\ UNCHANGED <<file, cred, sk, saved, worker, watcher, outside, service>>

\* lastfm_logout, from a page that may be out of date, too.  A token already
\* wanted is still asked for.
Logout ==
    /\ at = "idle" /\ cred # None /\ gen < MaxGen
    /\ sk' = None /\ Saves(cred, None)
    /\ gen' = gen + 1 /\ auth' = "idle"
    /\ UNCHANGED <<file, cred, want, worker, watcher, outside, service>>

SetEnabled ==
    /\ at = "idle" /\ cred # None
    /\ enabled' = ~enabled /\ Saves(cred, sk)
    /\ UNCHANGED <<file, gen, cred, sk, auth, want, worker, watcher, service>>
    /\ UNCHANGED <<lives, lost>>

-----------------------------------------------------------------------------
Taking == at \in {"idle", "take"} /\ at' = "drive"

\* Mutant: an answer to an authorisation that was given up is taken too.
TakesAny(kind, answers) ==
    /\ Taking /\ result # None /\ result' = None
    /\ result.kind = kind /\ result.ans \in answers
    /\ UNCHANGED <<job, watcher, outside, answered>>

\* lfm_handle_result: the result slot is emptied, then one of these.
Takes(kind, answers) ==
    /\ Taking /\ result # None /\ result' = None
    /\ result.kind = kind /\ result.ans \in answers
    /\ kind \in {"token", "session"} => result.gen = gen
    /\ UNCHANGED <<job, watcher, outside, answered>>

TakeNone ==
    /\ Taking /\ result = None
    /\ UNCHANGED <<file, login, job, result, backoff, watcher, outside, service>>

\* An answer to an authorisation that was given up.
TakeStale ==
    /\ Taking /\ result # None /\ result' = None
    /\ result.kind \in {"token", "session"} /\ result.gen # gen
    /\ UNCHANGED <<file, login, job, backoff, watcher, outside, service>>

TakeToken ==
    /\ Takes("token", {"ok", "error", "silent"})
    /\ auth' = IF result.ans = "ok" THEN "wait" ELSE "err"
    /\ UNCHANGED <<file, gen, cred, sk, saved, want, backoff, unsure>>

TakeGrant ==
    /\ Takes("session", {"ok"})
    /\ sk' = [cred |-> result.cred, for |-> result.gen]
    /\ Saves(cred, sk') /\ auth' = "ok"
    /\ UNCHANGED <<file, gen, cred, want, backoff, unsure>>

\* Not approved yet, or no reply: keep polling.  Anything else is an error.
TakeNoGrant ==
    /\ Takes("session", {"pending", "silent", "error"})
    /\ auth' = IF result.ans \in {"pending", "silent"} THEN auth ELSE "err"
    /\ UNCHANGED <<file, gen, cred, sk, saved, want, backoff, unsure>>

\* Mutant: any error of a scrobble ends the session.
TakeAnyRefusal ==
    /\ Takes("np", {"bad"}) \/ Takes("scrobble", {"bad", "error"})
    /\ sk' = None /\ Saves(cred, None)
    /\ UNCHANGED <<file, gen, cred, auth, want, backoff, unsure>>

\* Error 9, of either kind of request: lfm_clear_session.
TakeRefusal ==
    /\ Takes("np", {"bad"}) \/ Takes("scrobble", {"bad"})
    /\ sk' = None /\ Saves(cred, None)
    /\ UNCHANGED <<file, gen, cred, auth, want, backoff, unsure>>

TakeNowPlaying ==
    /\ Takes("np", {"ok", "silent"})
    /\ UNCHANGED <<file, login, backoff, unsure>>

\* Mutant: a reply that says nothing passes for an acknowledgement.
TakeSilence ==
    /\ Takes("scrobble", {"ok", "error", "silent"})
    /\ Pops
    /\ UNCHANGED <<login, backoff>>

\* Taken, or refused for good: the oldest line goes.
TakeScrobble ==
    /\ Takes("scrobble", {"ok", "error"})
    /\ Pops
    /\ UNCHANGED <<login, backoff>>

TakeBackoff ==
    /\ Takes("scrobble", {"busy", "silent"})
    /\ backoff' = TRUE
    /\ UNCHANGED <<file, login, unsure>>

TakeStep ==
    \/ TakeNone \/ TakeStale \/ TakeToken \/ TakeGrant \/ TakeNoGrant
    \/ TakeRefusal \/ TakeNowPlaying \/ TakeScrobble \/ TakeBackoff

-----------------------------------------------------------------------------
\* lfm_drive_token, lfm_drive_auth, lfm_drive_jobs: at most one of them starts
\* a job, in this order.
Driving == at = "drive" /\ at' = "idle"
Starts(j) ==
    /\ Driving /\ ~Busy
    /\ job' = j
    /\ UNCHANGED <<file, gen, cred, sk, saved, auth, result, backoff>>
    /\ UNCHANGED <<cur, heard, scrobbled, played, kept, outside, service>>
\* A job holds what its request is made of.
Auth(kind) == [kind |-> kind, gen |-> gen, cred |-> cred, sk |-> None, play |-> None]
Send(kind, p) == [kind |-> kind, gen |-> 0, cred |-> None, sk |-> sk, play |-> p]
MayDrive == enabled /\ Connected /\ ~backoff
Announces == np /\ cur # None      \* and the music is not paused

TokenStarts == want /\ want' = FALSE /\ Starts(Auth("token")) /\ UNCHANGED np
SessionStarts ==
    ~want /\ auth = "wait" /\ Starts(Auth("session")) /\ UNCHANGED <<want, np>>

\* Mutant: the announcement stays pending.
NowPlayingAgain ==
    ~want /\ MayDrive /\ Announces /\ Starts(Send("np", None)) /\ UNCHANGED <<want, np>>

NowPlayingStarts ==
    /\ ~want /\ MayDrive /\ Announces
    /\ np' = FALSE /\ Starts(Send("np", None)) /\ UNCHANGED want
ScrobbleStarts ==
    /\ ~want /\ MayDrive /\ queue # <<>>
    /\ Starts(Send("scrobble", Head(queue))) /\ UNCHANGED <<want, np>>

\* Mutant: only a wanted token is given up.
TokenExpires ==
    /\ at = "drive" /\ want
    /\ want' = FALSE /\ auth' = "err"
    /\ UNCHANGED <<at, file, gen, cred, sk, saved, job, result, backoff>>
    /\ UNCHANGED <<watcher, outside, service>>

\* Ten minutes are over; the round goes on to the jobs.
AuthExpires ==
    /\ at = "drive" /\ (want \/ auth = "wait")
    /\ want' = FALSE /\ auth' = "err"
    /\ UNCHANGED <<at, file, gen, cred, sk, saved, job, result, backoff>>
    /\ UNCHANGED <<watcher, outside, service>>

\* The worker is busy, there is nothing to send, or it is not yet time.
DriveNone ==
    /\ Driving
    /\ \/ Busy
       \/ ~want /\ ~MayDrive
       \/ ~want /\ queue = <<>>
    /\ UNCHANGED <<file, login, job, result, backoff, watcher, outside, service>>

DriveStep ==
    \/ TokenStarts \/ SessionStarts \/ NowPlayingStarts \/ ScrobbleStarts
    \/ AuthExpires \/ DriveNone

-----------------------------------------------------------------------------
\* What the service and the network can make of a request: done, error 9, not
\* approved yet, another error, errors 11, 16 and 29, no usable reply; as far as
\* the handler of the kind tells them apart.
Replies ==
    [token |-> {"ok", "error", "silent"},
     session |-> {"ok", "pending", "error", "silent"},
     np |-> {"ok", "bad", "silent"},
     scrobble |-> {"ok", "bad", "error", "busy", "silent"}]

Reply(j, a) == [kind |-> j.kind, gen |-> j.gen, cred |-> j.cred, sk |-> j.sk,
                play |-> j.play, ans |-> a]

\* lfm_worker: the answer goes to the result slot.
WorkerEnds(answers) ==
    /\ job # None
    /\ \E a \in answers \cap Replies[job.kind] :
         /\ result' = IF result # None THEN result ELSE Reply(job, a)
         /\ answered' = IF job.kind = "scrobble" /\ a \in {"ok", "error"}
                        THEN answered \cup {job.play} ELSE answered
    /\ job' = None
    /\ UNCHANGED <<file, login, at, backoff, watcher, outside, unsure>>
Served == {"ok", "bad", "pending", "error"}
Unserved == {"busy", "silent"}

BackoffEnds ==
    /\ backoff /\ backoff' = FALSE
    /\ UNCHANGED <<file, login, job, result, at, watcher, outside, service>>

\* The interface starts again: the worker and all memory are gone; a request
\* on its way may still be taken (its wget goes on).  The switch that could not
\* be saved is back where it was.
Restarts ==
    /\ lives < MaxLives /\ lives' = lives + 1
    /\ cred' = saved.cred /\ sk' = saved.sk
    /\ auth' = "idle" /\ want' = FALSE /\ at' = "idle"
    /\ job' = None /\ result' = None /\ backoff' = FALSE
    /\ cur' = None /\ heard' = FALSE /\ scrobbled' = FALSE /\ np' = FALSE
    /\ unsure' = unsure \cup ({r.play : r \in {job, result} \ {None}} \ {None})
    /\ IF "full" \in Faults THEN enabled' \in BOOLEAN ELSE UNCHANGED enabled
    /\ UNCHANGED <<gen, saved, played, kept, answered>>

UiRestarts == Restarts /\ UNCHANGED <<file, lost>>

\* Lines that were appended and not synced may be gone.
PowerCut ==
    /\ "cut" \in Faults /\ Restarts
    /\ \E n \in synced .. Len(queue) :
         /\ queue' = SubSeq(queue, 1, n) /\ synced' = n
         /\ lost' = lost \cup {queue[i] : i \in n + 1 .. Len(queue)}

-----------------------------------------------------------------------------
Init ==
    /\ queue = <<>> /\ synced = 0
    /\ gen = 1 /\ cred \in Cred \cup {None}
    /\ sk \in {None} \cup [cred : {cred} \ {None}, for : {0}]
    /\ saved = [cred |-> cred, sk |-> sk]
    /\ auth = "idle" /\ want = FALSE /\ at = "idle"
    /\ job = None /\ result = None /\ backoff = FALSE /\ enabled \in BOOLEAN
    /\ cur = None /\ heard = FALSE /\ scrobbled = FALSE /\ np = FALSE
    /\ lives = 0 /\ lost = {}
    /\ played = {} /\ kept = {} /\ answered = {} /\ unsure = {}

Next ==
    \/ \E p \in Play : WatchStart(p)
    \/ WatchOn \/ WatchStop
    \/ \E c \in Cred : Provision(c)
    \/ Connect \/ Logout \/ SetEnabled
    \/ TakeStep \/ DriveStep
    \/ WorkerEnds(Served) \/ WorkerEnds(Unserved)
    \/ BackoffEnds \/ UiRestarts \/ PowerCut

Spec == Init /\ [][Next]_vars

-----------------------------------------------------------------------------
Session == [cred : Cred, for : 0 .. MaxGen]
Job ==
    [kind : {"token", "session"}, gen : 1 .. MaxGen, cred : Cred, sk : {None},
     play : {None}] \cup
    [kind : {"np", "scrobble"}, gen : {0}, cred : {None}, sk : Session,
     play : Play \cup {None}]
Result ==
    [kind : {"token", "session"}, gen : 1 .. MaxGen, cred : Cred, sk : {None},
     play : {None}, ans : Served \cup Unserved] \cup
    [kind : {"np", "scrobble"}, gen : {0}, cred : {None}, sk : Session,
     play : Play \cup {None}, ans : Served \cup Unserved]

ASSUME NoneIsNoRecord == None \notin Session \cup Job \cup Result

\* Every variable has the kind of value the code keeps in it, and the file
\* never grows beyond LFM_QUEUE_MAX.
TypeOK ==
    /\ queue \in Seq(Play) /\ Len(queue) <= Cap /\ synced \in 0 .. Len(queue)
    /\ saved \in [cred : Cred \cup {None}, sk : Session \cup {None}]
    /\ gen \in 1 .. MaxGen /\ cred \in Cred \cup {None}
    /\ sk \in Session \cup {None}
    /\ auth \in {"idle", "token", "wait", "ok", "err"}
    /\ at \in {"idle", "take", "drive"}
    /\ job \in Job \cup {None}
    /\ result \in Result \cup {None}
    /\ cur \in Play \cup {None}
    /\ {want, backoff, enabled, heard, scrobbled, np} \subseteq BOOLEAN
    /\ lives \in 0 .. MaxLives
    /\ kept \cup played \cup answered \cup unsure \cup lost \subseteq Play

\* A play that was written to the file stays there until the service has
\* answered for that very play; only a power cut takes one that was not synced.
Kept == kept \subseteq InFile \cup answered \cup lost

\* The play in the worker's hands, or in the result that was not looked at yet.
Sending ==
    IF job # None /\ job.kind = "scrobble" THEN job.play
    ELSE IF result # None /\ result.kind = "scrobble" THEN result.play
    ELSE None

Box == INSTANCE Outbox WITH
    Nothing <- None, box <- queue, safe <- synced,
    posted <- kept, sending <- Sending, delivered <- answered

\* The file, the worker and the service are an outbox: every play is written
\* once, plays are sent in the order they were written, one at a time, and the
\* line that is removed is of the play that was answered for.
RefinesOutbox == Box!OutboxSpec

\* A session belongs to the credentials it is used and saved with: no answer
\* to an authorisation under other credentials is adopted.
SessionFits ==
    /\ sk # None => sk.cred = cred
    /\ saved.sk # None => saved.sk.cred = saved.cred

\* A session that the user did not end is only cleared when the service called
\* that very session invalid.
WipesOwn ==
    [][Connected /\ sk' = None /\ gen' = gen /\ lives' = lives
          => result # None /\ result.ans = "bad" /\ result.sk = sk]_vars

\* A play the service has answered for is sent again only if the answer was
\* lost with the interface, or the file could not be rewritten.
ResendsUnsure ==
    [][job = None /\ job' # None =>
          (job'.kind = "scrobble" /\ job'.play \in answered
              => job'.play \in unsure)]_vars

-----------------------------------------------------------------------------
\* The main loop and the worker go on, deadlines pass, and a service that is
\* asked again and again answers at last.
FairSpec ==
    /\ Spec
    /\ WF_vars(TakeStep) /\ WF_vars(DriveStep) /\ SF_vars(AuthExpires)
    /\ WF_vars(BackoffEnds)
    /\ WF_vars(WorkerEnds(Served) \/ WorkerEnds(Unserved))
    /\ SF_vars(WorkerEnds(Served))

\* An authorisation comes to an end: connected, refused, expired or given up.
AuthSettles == auth \in {"token", "wait"} ~> auth \notin {"token", "wait"}

\* While there is a session the file is worked off.
QueueDrains ==
    <>[](enabled /\ Connected) => \A p \in Play : []<>(p \notin InFile)
=============================================================================
