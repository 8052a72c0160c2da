----------------------------- MODULE OtaLaunch ------------------------------
(***************************************************************************)
(* From readiness to a running user interface: the boot hook's choice of   *)
(* launch path, the launcher's ladder (src/launcher/diskos_launch.c) with  *)
(* its per-boot start count, its watcher, and the supervisor that falls    *)
(* back when a build does not keep running.  Who wins when the launcher    *)
(* and its supervisor race within one start is a choice.                   *)
(***************************************************************************)
EXTENDS OtaStore

LaunchRest == <<choice, blame, floor0>>

\* The flashed build is started by the hook itself, without the launcher.
HookFlashed ==
    /\ pc = "hook" /\ run.kind = "flashed"
    /\ pc' = "up" /\ ui' = Flashed
    /\ UNCHANGED <<disk, LaunchRest, run, starts, due, record, dl, seen>>

\* bump_starts: this start included, as far as it needs to be counted.
Bumped == IF starts <= MaxStarts THEN starts + 1 ELSE starts

\* The limit is never reached.
NeverDemoted == FALSE

Demoted == run.kind = "trial" /\ starts > MaxStarts

\* The launcher begins: no earlier proof may be inherited, the start of a trial
\* is counted, and one too many marks the trial for the next boot.
HookLauncher ==
    /\ pc = "hook" /\ run.kind \in {"trial", "good"}
    /\ pc' = "ladder"
    /\ mark' = [mark EXCEPT !["launched"] = None]
    /\ record' = None
    /\ starts' = IF run.kind = "trial" THEN Bumped ELSE starts
    /\ crashed' = (crashed \/ (run.kind = "trial" /\ Bumped > MaxStarts /\ WritesOk))
    /\ UNCHANGED <<dir, trial, accepted, rejected, notice, allow, full>>
    /\ UNCHANGED <<LaunchRest, run, ui, due, dl, seen>>

\* The rungs of the ladder below the target.
Fallbacks ==
    (IF run.kind = "trial" THEN {run.good} ELSE {})
        \cup {run.prev, Flashed, Stock}

\* A rung is refused when its file is missing, does not hash to what S97
\* published, cannot be copied or the budget is spent: any rung may be the one
\* that runs, but the target only while it is not demoted.
Ladder(b) ==
    /\ pc = "ladder" /\ b # None
    /\ b \in Fallbacks \/ (b = run.sha /\ ~Demoted)
    /\ pc' = "up" /\ ui' = b
    /\ due' = (b # Stock)
    /\ UNCHANGED <<disk, LaunchRest, run, starts, record, dl, seen>>

\* The watcher saw the exec succeed; for a trial the proof goes to /usr/data.
Watcher ==
    /\ pc = "up" /\ due
    /\ due' = FALSE
    /\ record' = ui
    /\ mark' = IF run.kind = "trial" /\ ui = run.sha /\ WritesOk
               THEN [mark EXCEPT !["launched"] = ui] ELSE mark
    /\ UNCHANGED <<dir, trial, crashed, accepted, rejected, notice, allow, full>>
    /\ UNCHANGED <<boot, run, starts, ui, dl, seen>>

\* The interface exits.  The supervisor starts the flashed build or the stock
\* one; a watcher that has not looked yet finds its parent gone.
UiExits ==
    /\ pc = "up" /\ ui # Stock
    /\ ui' \in {Flashed, Stock} \ {ui}
    /\ due' = FALSE /\ dl' = NoWork
    /\ UNCHANGED <<disk, boot, run, starts, record, seen>>

\* The vendor's init script runs the hook again in the same boot.
HookAgain ==
    /\ pc = "up" /\ run.kind # "none"
    /\ pc' = "hook" /\ ui' = None /\ due' = FALSE /\ dl' = NoWork
    /\ UNCHANGED <<disk, LaunchRest, run, starts, record, seen>>

LaunchStep ==
    \/ HookFlashed \/ HookLauncher \/ Watcher \/ UiExits \/ HookAgain
    \/ \E b \in Bundle \cup {Flashed, Stock} : Ladder(b)
=============================================================================
