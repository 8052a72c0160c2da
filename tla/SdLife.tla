------------------------------- MODULE SdLife -------------------------------
(***************************************************************************)
(* What begins and ends around the hand-off: the launch verdict and its    *)
(* revocation, the cold-boot mount (ui/main.c), the restart                *)
(* (ui/settings.c) and the shutdown (ui/power.c) that drain the card       *)
(* first, and the death and recovery of the interface.                     *)
(***************************************************************************)
EXTENDS SdHandoff

CONSTANTS
    DirectMount,    \* the firmware needs the interface to mount the card
    Overlap         \* a restart is asked for during a shutdown, or the other
                    \* way round: the code does not rule it out

ASSUME SwitchesTyped == DirectMount \in BOOLEAN /\ Overlap \in BOOLEAN

-----------------------------------------------------------------------------
(* sd_features_gate_cb *)

\* The launcher vouched for this player: admission opens, and the cold mount
\* starts within the first minutes of uptime.
VerdictGood ==
    /\ Free /\ verdict = "pending" /\ player = "guarded"
    /\ verdict' = "good"
    /\ worker' = IF cold /\ src = 0 THEN "poll" ELSE worker
    /\ nudged' = FALSE
    /\ UNCHANGED <<allowed, fault, writable, hold, ui, eventSent>>
    /\ UNCHANGED <<threads, stray, faultFile, card, outside>>

\* A negative verdict, none within half a minute, or the player it was about
\* is gone: closed for the life of this interface.
Revoke ==
    /\ Free /\ ~(verdict = "bad")
    /\ player # "guarded"
    /\ verdict' = "bad" /\ hold' = TRUE /\ writable' = FALSE /\ SdIoHold
    /\ thr' = TokensRevoked
    /\ phase' = "UNKNOWN"
    /\ UNCHANGED <<expired, src, reissue, leave, todo, dec>>
    /\ UNCHANGED <<stray, faultFile, card, mount, outside>>

-----------------------------------------------------------------------------
(* coldplug_thread *)

WorkerSeesMount ==
    /\ Up /\ worker = "poll" /\ mounted
    /\ worker' = "off"
    /\ UNCHANGED <<nudged, eventSent, threads, gates, stray, faultFile, card>>
    /\ UNCHANGED <<ui, outside>>

\* Under the mode mutex: local, not exported, not mounted, no export intended.
MayMount == src = 0 /\ ~Exported /\ ~mounted /\ writable

WorkerLocks ==
    /\ Up /\ worker = "poll" /\ MayMount /\ DirectMount /\ ~nudged
    /\ worker' = IF cold THEN "mounting" ELSE "off"
    /\ UNCHANGED <<nudged, eventSent, threads, gates, stray, faultFile, card>>
    /\ UNCHANGED <<ui, outside>>

WorkerMounts ==
    /\ worker = "mounting"
    /\ \/ worker' = "mounted" /\ mounted' = TRUE
       \/ worker' = "poll" /\ UNCHANGED mounted
    /\ UNCHANGED <<nudged, eventSent, threads, gates, stray, faultFile, gadget>>
    /\ UNCHANGED <<ui, outside>>

\* Mounted: is the card still not exported?
WorkerLooksAgain ==
    /\ worker = "mounted" /\ worker' = "off"
    /\ mounted' = (mounted /\ ~Exported)
    /\ UNCHANGED <<nudged, eventSent, threads, gates, stray, faultFile, gadget>>
    /\ UNCHANGED <<ui, outside>>

\* The stock player's own routine is asked to mount it, after enough failures.
WorkerNudges ==
    /\ Up /\ worker = "poll" /\ MayMount
    /\ nudged' = TRUE /\ eventSent' = TRUE
    /\ UNCHANGED <<worker, threads, gates, stray, faultFile, card, ui, outside>>

WorkerGivesUp ==
    /\ Up /\ worker = "poll"
    /\ worker' = "off"
    /\ UNCHANGED <<nudged, eventSent, threads, gates, stray, faultFile, card>>
    /\ UNCHANGED <<ui, outside>>

WorkerStep ==
    \/ WorkerSeesMount \/ WorkerLocks \/ WorkerMounts \/ WorkerLooksAgain
    \/ WorkerNudges \/ WorkerGivesUp

-----------------------------------------------------------------------------
(* The restart and the shutdown close the card with the same switch. *)

\* Mutant: readers only.
QuiesceReaders ==
    /\ quiesce' = TRUE /\ SdIoHold
    /\ thr' = TokensRevoked
    /\ UNCHANGED <<writable, hold, verdict, dec>>

\* ui_sd_quiesce_begin, and the decoders are stopped.
QuiesceBegin ==
    /\ quiesce' = TRUE /\ SdIoHold /\ writable' = FALSE
    /\ thr' = TokensRevoked
    /\ UNCHANGED <<hold, verdict, dec>>

\* Mutant: the phase is not looked at.
QuiesceEndAnyway ==
    /\ quiesce' = FALSE
    /\ writable' = TRUE /\ allowed' = (allowed \/ CanResume)
    /\ UNCHANGED <<fault, hold, verdict, threads>>

\* ui_sd_quiesce_end: the card is opened again, if it is still ours.
QuiesceEnd ==
    /\ quiesce' = FALSE
    /\ IF phase = "LOCAL" /\ ~hold
       THEN writable' = TRUE /\ allowed' = (allowed \/ CanResume)
       ELSE UNCHANGED <<writable, allowed>>
    /\ UNCHANGED <<fault, hold, verdict, threads>>

\* What neither of the two touches.
apart == <<ctl, todo, stray, faultFile, card, mount, marker, queue, cold, lives>>

(* boot_confirm_cb, restart_tick *)

RestartAsked ==
    /\ Free /\ rst = "no" /\ (Overlap \/ off = "no")
    /\ rst' = "drain" /\ QuiesceBegin
    /\ UNCHANGED <<off, apart, stock>>

RestartDrained ==
    /\ Free /\ rst = "drain" /\ Drained
    /\ rst' = "sync"
    /\ UNCHANGED <<off, quiesce, gates, threads, apart, stock>>

\* Readers did not finish, or the flush failed.
RestartRefused ==
    /\ Free /\ rst \in {"drain", "sync"}
    /\ rst' = "no" /\ QuiesceEnd
    /\ UNCHANGED <<off, apart, stock>>

\* The flush succeeded: the machine goes down.
Reboot ==
    /\ Free /\ rst = "sync"
    /\ rst' = "reboot"
    /\ UNCHANGED <<off, quiesce, gates, threads, apart, stock>>

(* power_shutdown_begin, power_shutdown_tick *)

ShutdownAsked ==
    /\ Free /\ off = "no" /\ (Overlap \/ rst = "no")
    /\ off' = "drain" /\ QuiesceBegin
    /\ UNCHANGED <<rst, apart, stock>>

ShutdownDrained ==
    /\ Free /\ off = "drain" /\ Drained
    /\ off' = "sync"
    /\ UNCHANGED <<rst, quiesce, gates, threads, apart, stock>>

ShutdownRefused ==
    /\ Free /\ off \in {"drain", "sync"}
    /\ off' = "no" /\ QuiesceEnd
    /\ UNCHANGED <<rst, apart, stock>>

\* The flush succeeded: the player's sleep timer is set to one second.
ShutdownTold ==
    /\ Free /\ off = "sync"
    /\ off' = "handoff" /\ timer' = TRUE
    /\ UNCHANGED <<rst, quiesce, gates, threads, apart, player, reborn>>

\* The player did not power off.  The timer is cancelled, but nothing tells
\* whether the player has seen that: the card stays closed.
ShutdownLate ==
    /\ Free /\ off = "handoff"
    /\ off' = "protected"
    /\ UNCHANGED <<rst, quiesce, gates, threads, apart, stock>>

\* A new player has no timer: the card may be used again.
NewGeneration ==
    /\ Free /\ reborn /\ reborn' = FALSE
    /\ IF off = "protected" THEN off' = "no" /\ QuiesceEnd
       ELSE UNCHANGED <<off, quiesce, gates, threads>>
    /\ UNCHANGED <<rst, apart, player, timer>>

LeaveStep ==
    \/ RestartAsked \/ RestartDrained \/ RestartRefused \/ Reboot
    \/ ShutdownAsked \/ ShutdownDrained \/ ShutdownRefused \/ ShutdownTold
    \/ ShutdownLate \/ NewGeneration

-----------------------------------------------------------------------------
\* The interface crashes, or replaces itself for a theme.  Its threads and its
\* memory are gone; a mount it had asked the kernel for is completed.
UiDies ==
    /\ Up /\ lives < MaxLives /\ lives' = lives + 1
    /\ thr' = [t \in Thread |-> Idle] /\ dec' = None
    /\ \/ UNCHANGED stray
       \/ "orphan" \in Faults /\ dec # None /\ stray' = TRUE
    /\ allowed' = FALSE /\ fault' = FALSE /\ writable' = TRUE
    /\ hold' = FALSE /\ verdict' = "pending"
    /\ phase' = "LOCAL" /\ expired' = FALSE /\ src' = 0 /\ reissue' = FALSE
    /\ quiesce' = FALSE /\ rst' = "no" /\ off' = "no" /\ todo' = "boot"
    /\ worker' = "off" /\ nudged' = FALSE
    /\ \/ UNCHANGED mounted
       \/ worker = "mounting" /\ mounted' = TRUE
    /\ UNCHANGED <<eventSent, faultFile, gadget, marker, queue, stock, cold>>

\* Mutant: what counts is the gadget, not that an export was asked for.
RecoveredFree ==
    IF marker \in {"E", "H"} /\ HostConfirmed /\ ~mounted THEN "HOST"
    ELSE IF marker = "R" THEN "WAIT_LOCAL"
    ELSE IF ~Exported THEN "LOCAL"
    ELSE "UNKNOWN"

\* What the intent marker says about the card (storage_init).
Recovered ==
    IF marker \in {"E", "H"} /\ HostConfirmed /\ ~mounted THEN "HOST"
    ELSE IF marker = "E" THEN "WAIT_HOST"
    ELSE IF marker = "R" THEN "WAIT_LOCAL"
    ELSE IF marker \in {"D", "none"} /\ ~Exported THEN "LOCAL"
    ELSE "UNKNOWN"

\* main and storage_init: the marker may not be writable, and the guard or the
\* work mode may be unconfirmed, which holds the card for this life.
UiStart ==
    /\ todo = "boot" /\ todo' = "none"
    /\ fault' = faultFile /\ allowed' = FALSE
    /\ hold' \in BOOLEAN
    /\ \E written \in (IF marker = "none" THEN {TRUE} ELSE BOOLEAN) :
         LET p == IF ~written /\ Recovered \in {"HOST", "LOCAL"}
                  THEN "UNKNOWN" ELSE Recovered
         IN /\ phase' = IF hold' THEN "UNKNOWN" ELSE p
            /\ marker' = CASE p = "HOST" -> "H" [] p = "LOCAL" -> "none"
                           [] OTHER -> marker
            /\ writable' = (phase' = "LOCAL")
            /\ src' = IF Recovered \in {"HOST", "WAIT_HOST", "WAIT_LOCAL"}
                      THEN 3 ELSE 0
            /\ reissue' = (p \in {"WAIT_HOST", "WAIT_LOCAL"})
    /\ expired' = FALSE
    /\ UNCHANGED <<verdict, leave, threads, stray, faultFile, card, mount>>
    /\ UNCHANGED <<queue, stock, cold, lives>>

LifeStep ==
    \/ VerdictGood \/ Revoke
    \/ WorkerStep
    \/ LeaveStep
    \/ UiDies \/ UiStart
=============================================================================
