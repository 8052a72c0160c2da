----------------------------- MODULE SdHandoff ------------------------------
(***************************************************************************)
(* Handing the SD card to a USB host and taking it back: the storage       *)
(* controller of the interface's main thread (ui/main.c).  SdLife is what  *)
(* begins and ends around it; the stock player, which owns the gadget and  *)
(* does the mounting, is in Sd.                                            *)
(***************************************************************************)
EXTENDS SdGate

CONSTANTS
    MaxQueue,   \* bound: requests the player has not looked at yet
    MaxLives    \* bound: times the interface starts again

ASSUME BoundsTyped == MaxQueue \in Nat /\ MaxLives \in Nat

VARIABLES
    \* the main thread of the interface
    phase,      \* g_sd_phase
    expired,    \* g_sd_deadline has passed
    src,        \* g_source_mode: 0 local, 3 storage
    reissue,    \* g_sd_reissue
    quiesce,    \* g_sd_quiesce
    rst,        \* the restart under way: "no", "drain", "sync", "reboot"
    off,        \* the shutdown: "no", "drain", "sync", "handoff", "protected",
                \* "done"
    todo,       \* what the running handler does next, or "none"
    \* the cold-boot mount worker
    worker,     \* "off", "poll", "mounting", "mounted"
    nudged,     \* it has sent a synthetic insert event
    \* outside the interface
    marker,     \* /tmp/.diskos_sd_export_intent: "none", "D", "E", "H", "R"
    queue,      \* mode requests the player has not looked at yet
    player,     \* "preparing", "guarded", "unguarded", "replaced"
    timer,      \* the player's own power-off timer runs
    reborn,     \* the player is a new one and the interface has not noticed
    cold,       \* uptime is within the cold-boot window
    \* observed
    lives,      \* times the interface was started again
    eventSent   \* an insert event was sent this boot, by any interface

ctl == <<phase, expired, src, reissue>>
leave == <<quiesce, rst, off>>
ui == <<ctl, leave, todo>>
mount == <<worker, nudged, eventSent>>
stock == <<player, timer, reborn>>
outside == <<marker, queue, stock, cold, lives>>
vars == <<threads, gates, stray, faultFile, card, ui, mount, outside>>

Phases == {"LOCAL", "DRAIN", "WAIT_HOST", "HOST", "WAIT_LOCAL", "UNKNOWN"}
Pending == phase \in {"DRAIN", "WAIT_HOST", "WAIT_LOCAL"}

HostConfirmed == gadget = "host"

\* The machine is down.
Down == rst = "reboot" \/ off = "done"
Up == todo # "boot" /\ ~Down
\* The main thread is between two handlers.
Free == todo = "none" /\ ~Down

\* storage_unknown: both gates shut, for as long as this interface lives.
Unknown ==
    /\ phase' = "UNKNOWN" /\ SdIoHold /\ writable' = FALSE
    /\ UNCHANGED <<expired, src, reissue, hold, verdict>>

\* source_send: the frames reach the player or not; a failure may come after
\* the frame that matters.
Send(mode, ok) ==
    \/ ok /\ Len(queue) < MaxQueue /\ queue' = Append(queue, mode)
    \/ ~ok /\ Len(queue) < MaxQueue /\ queue' = Append(queue, mode)
    \/ ~ok /\ UNCHANGED queue

-----------------------------------------------------------------------------
(* ui_set_source_mode *)

\* May the user's choice be acted on at all?
MayChoose ==
    /\ Free /\ ~Pending /\ phase # "UNKNOWN" /\ ~hold /\ ~fault
    /\ verdict = "good"

\* To USB storage.  The mode mutex keeps the cold mount out.
ChooseStorage ==
    /\ MayChoose /\ phase = "LOCAL"
    /\ player \in {"guarded", "replaced"} /\ MediaLocal
    /\ worker \notin {"mounting", "mounted"}
    /\ marker' = "D"
    /\ SdIoHold /\ writable' = FALSE
    /\ phase' = "DRAIN" /\ expired' = FALSE /\ src' = 3
    /\ UNCHANGED <<hold, verdict, reissue, leave, todo>>
    /\ UNCHANGED <<threads, stray, faultFile, card, mount>>
    /\ UNCHANGED <<queue, stock, cold, lives>>

\* Back to local: the marker first, the request in SendReturn.
ChooseLocal ==
    /\ MayChoose /\ phase = "HOST"
    /\ marker' = "R"
    /\ phase' = "WAIT_LOCAL" /\ expired' = FALSE /\ todo' = "return"
    /\ UNCHANGED <<src, reissue, leave, gates>>
    /\ UNCHANGED <<threads, stray, faultFile, card, mount>>
    /\ UNCHANGED <<queue, stock, cold, lives>>

SendReturn ==
    /\ todo = "return" /\ todo' = "none"
    /\ \/ Send(0, TRUE) /\ UNCHANGED <<gates, ctl>>
       \/ Send(0, FALSE) /\ Unknown
    /\ UNCHANGED <<leave, threads, stray, faultFile, card, mount>>
    /\ UNCHANGED <<marker, stock, cold, lives>>

\* Local again while local: allowed at any time.
ChooseSame ==
    /\ MayChoose /\ phase = "LOCAL"
    /\ Send(0, TRUE) /\ src' = 0
    /\ UNCHANGED <<phase, expired, reissue, leave, todo, gates>>
    /\ UNCHANGED <<threads, stray, faultFile, card, mount>>
    /\ UNCHANGED <<marker, stock, cold, lives>>

-----------------------------------------------------------------------------
(* storage_tick: a timer of the main thread *)

\* Mutant: a quiesced card is opened again by the tick.
TickAnyway ==
    /\ Free /\ ~hold
    /\ IF fault
       THEN phase # "UNKNOWN" /\ Unknown /\ UNCHANGED todo
       ELSE /\ phase \in Phases \ {"HOST", "UNKNOWN"}
            /\ todo' = "tick" /\ UNCHANGED <<gates, ctl>>
    /\ UNCHANGED <<leave, threads, stray, faultFile, card, mount, outside>>

\* The tick looks at the decoder fault first.
Tick ==
    /\ Free /\ ~hold /\ ~quiesce
    /\ IF fault
       THEN phase # "UNKNOWN" /\ Unknown /\ UNCHANGED todo
       ELSE /\ phase \in Phases \ {"HOST", "UNKNOWN"}
            /\ todo' = "tick" /\ UNCHANGED <<gates, ctl>>
    /\ UNCHANGED <<leave, threads, stray, faultFile, card, mount, outside>>

\* Mutant: a closed gate stays closed.
TickIdle ==
    /\ todo = "tick" /\ phase = "LOCAL" /\ todo' = "none"
    /\ UNCHANGED <<gates, ctl, leave>>
    /\ UNCHANGED <<threads, stray, faultFile, card, mount, outside>>

TickLocal ==
    /\ todo = "tick" /\ phase = "LOCAL" /\ todo' = "none"
    /\ allowed' = (allowed \/ CanResume)
    /\ UNCHANGED <<fault, writable, hold, verdict, ctl, leave>>
    /\ UNCHANGED <<threads, stray, faultFile, card, mount, outside>>

\* Mutant: the export is asked for under the marker of the preparation.
TickUnmarked ==
    /\ todo = "tick" /\ phase = "DRAIN" /\ Drained
    /\ phase' = "WAIT_HOST" /\ expired' = FALSE /\ todo' = "export"
    /\ UNCHANGED <<src, reissue, gates, marker>>
    /\ UNCHANGED <<leave, threads, stray, faultFile, card, mount>>
    /\ UNCHANGED <<queue, stock, cold, lives>>

\* Every reader and writer has finished: record the export, then ask for it.
TickDrained ==
    /\ todo = "tick" /\ phase = "DRAIN" /\ Drained
    /\ \/ /\ marker' = "E" /\ phase' = "WAIT_HOST" /\ expired' = FALSE
          /\ todo' = "export"
          /\ UNCHANGED <<src, reissue, gates>>
       \/ UNCHANGED marker /\ todo' = "none" /\ Unknown
    /\ UNCHANGED <<leave, threads, stray, faultFile, card, mount>>
    /\ UNCHANGED <<queue, stock, cold, lives>>

SendExport ==
    /\ todo = "export" /\ todo' = "none"
    /\ \/ Send(3, TRUE) /\ UNCHANGED <<gates, ctl>>
       \/ Send(3, FALSE) /\ Unknown
    /\ UNCHANGED <<leave, threads, stray, faultFile, card, mount>>
    /\ UNCHANGED <<marker, stock, cold, lives>>

\* The host has the card and nothing of ours is mounted.
TickHost ==
    /\ todo = "tick" /\ phase = "WAIT_HOST" /\ todo' = "none"
    /\ HostConfirmed /\ ~mounted
    /\ \/ /\ marker' = "H" /\ phase' = "HOST" /\ reissue' = FALSE
          /\ UNCHANGED <<expired, src, gates>>
       \/ UNCHANGED marker /\ Unknown
    /\ UNCHANGED <<leave, threads, stray, faultFile, card, mount>>
    /\ UNCHANGED <<queue, stock, cold, lives>>

\* The card is back: forget the intent, then resume.
TickBack ==
    /\ todo = "tick" /\ phase = "WAIT_LOCAL"
    /\ MediaLocal
    /\ \/ marker' = "none" /\ todo' = "resume" /\ UNCHANGED <<gates, ctl>>
       \/ UNCHANGED marker /\ todo' = "none" /\ Unknown
    /\ UNCHANGED <<leave, threads, stray, faultFile, card, mount>>
    /\ UNCHANGED <<queue, stock, cold, lives>>

Resume ==
    /\ todo = "resume" /\ todo' = "none"
    /\ IF CanResume
       THEN /\ allowed' = TRUE /\ writable' = TRUE
            /\ phase' = "LOCAL" /\ src' = 0 /\ reissue' = FALSE
            /\ UNCHANGED <<expired, fault, hold, verdict>>
       ELSE Unknown
    /\ UNCHANGED <<leave, threads, stray, faultFile, card, mount, outside>>

\* Mutant: no deadline for the readers and writers to finish.
TickPatient ==
    /\ todo = "tick" /\ todo' = "none"
    /\ \/ phase = "DRAIN" /\ ~Drained
       \/ phase = "WAIT_HOST" /\ ~(HostConfirmed /\ ~mounted)
       \/ phase = "WAIT_LOCAL" /\ ~MediaLocal
    /\ UNCHANGED <<gates, ctl, queue, leave, threads, stray, faultFile, card>>
    /\ UNCHANGED <<mount, marker, stock, cold, lives>>

\* Nothing to see yet: give up at the deadline, or repeat a request that an
\* earlier interface may not have sent.
TickWait ==
    /\ todo = "tick" /\ todo' = "none"
    /\ \/ phase = "DRAIN" /\ ~Drained
       \/ phase = "WAIT_HOST" /\ ~(HostConfirmed /\ ~mounted)
       \/ phase = "WAIT_LOCAL" /\ ~MediaLocal
    /\ IF expired THEN Unknown /\ UNCHANGED queue
       ELSE IF reissue /\ verdict = "good"
       THEN LET mode == IF phase = "WAIT_HOST" THEN 3 ELSE 0 IN
            /\ \/ Send(mode, TRUE) /\ reissue' = FALSE
               \/ Send(mode, FALSE) /\ UNCHANGED reissue
            /\ UNCHANGED <<phase, expired, src, gates>>
       ELSE UNCHANGED <<gates, ctl, queue>>
    /\ UNCHANGED <<leave, threads, stray, faultFile, card, mount>>
    /\ UNCHANGED <<marker, stock, cold, lives>>

Expire ==
    /\ Up /\ Pending /\ ~expired
    /\ expired' = TRUE
    /\ UNCHANGED <<phase, src, reissue, leave, todo, gates, threads>>
    /\ UNCHANGED <<stray, faultFile, card, mount, outside>>

ControlStep ==
    \/ ChooseStorage \/ ChooseLocal \/ SendReturn \/ ChooseSame
    \/ Tick \/ TickLocal \/ TickDrained \/ SendExport \/ TickHost
    \/ TickBack \/ Resume \/ TickWait \/ Expire
=============================================================================
