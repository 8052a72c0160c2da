------------------------------- MODULE Start --------------------------------
(***************************************************************************)
(* From readiness to a running interface: the boot hook with its startup   *)
(* supervisor (diskos_ui_start, written by                                 *)
(* src/diskos_installer/imagebuild.py) beside the launcher                 *)
(* (src/src/launcher/diskos_launch.c) and the launcher's watchers.  They   *)
(* are separate processes that know of each other by the launch token, the *)
(* record of a launch and the process table.                               *)
(*                                                                         *)
(* The launcher may stop anywhere (a read stuck in the kernel): nothing is *)
(* assumed of its speed.  Why a rung of its ladder is refused is left out; *)
(* any may be, except that the last one needs no file of ours.             *)
(***************************************************************************)
EXTENDS Install

CONSTANT MaxLaunches    \* bound: times the vendor's script runs the hook in a boot

ASSUME LaunchesCount == MaxLaunches \in Nat \ {0}

VARIABLES
    sup,        \* the place in the hook
    launches,   \* launchers started in this boot; the last is the present one
    lp,         \* the launcher's place; "ui" once it has become an interface
    rung,       \* the build it is about to run, or has become
    token,      \* /tmp/.diskos_launch_token
    launched,   \* /tmp/.diskos_launched: the build on record
    watchers,   \* watchers that have not ended, each with its launcher and build
    other,      \* an interface the hook started itself
    ran         \* history: the builds a launcher became in this boot

startVars == <<sup, launches, lp, rung, token, launched, watchers, other, ran>>

\* The ladder, top to bottom.
Rung == {"target", "good", "prev", "flashed", "stock"}
Below == [target |-> "good", good |-> "prev", prev |-> "flashed",
          flashed |-> "stock", stock |-> "stock"]

Watcher == [by : 1 .. MaxLaunches, of : Rung, saw : {"nothing", "alive"}]

Alive == lp \notin {"none", "dead"}

-----------------------------------------------------------------------------
(* The launcher. *)

launcherRest == <<sup, launches, other, token>>

\* clear_records, before anything else.
ClearRecords ==
    /\ lp = "begin"
    /\ launched' = None /\ lp' = "load" /\ rung' = "target"
    /\ UNCHANGED <<launcherRest, watchers, ran>>

\* Missing, not what was published, over the budget, or no private copy.
SkipRung ==
    /\ lp = "load" /\ rung # "stock"
    /\ rung' = Below[rung]
    /\ UNCHANGED <<launcherRest, lp, launched, watchers, ran>>

\* A verified rung, in a private copy.
LoadRung ==
    /\ lp = "load" /\ rung # "stock"
    /\ lp' = "arm"
    /\ UNCHANGED <<launcherRest, rung, launched, watchers, ran>>

\* The stock interface, and the flashed one where no copy could be made, are
\* executed by name and leave no record.
ByName ==
    /\ lp = "load" /\ rung \in {"flashed", "stock"}
    /\ lp' = "last"
    /\ UNCHANGED <<launcherRest, rung, launched, watchers, ran>>

\* exec_proof: the token, then a watcher (there may be none to be had).
ArmWatcher ==
    /\ lp = "arm" /\ token
    /\ lp' = "last"
    /\ watchers' \in {watchers,
           watchers \cup {[by |-> launches, of |-> rung, saw |-> "nothing"]}}
    /\ UNCHANGED <<launcherRest, rung, launched, ran>>

\* The last look at the token before the exec itself.
LastLook ==
    /\ lp = "last" /\ token
    /\ lp' = "go"
    /\ UNCHANGED <<launcherRest, rung, launched, watchers, ran>>

Exec ==
    /\ lp = "go"
    /\ lp' = "ui" /\ ran' = ran \cup {rung}
    /\ UNCHANGED <<launcherRest, rung, launched, watchers>>

\* The exec fails: the watcher is told, and the next rung is tried, or first the
\* flashed build by its name.
ExecFails ==
    /\ lp = "go" /\ rung # "stock"
    /\ watchers' = {w \in watchers : w.by # launches \/ w.of # rung}
    /\ \/ lp' = "load" /\ rung' = Below[rung]
       \/ rung = "flashed" /\ lp' = "last" /\ UNCHANGED rung
    /\ UNCHANGED <<launcherRest, launched, ran>>

\* A revoked launcher starts nothing.
RevokedExit ==
    /\ lp \in {"arm", "last"} /\ ~token
    /\ lp' = "dead"
    /\ UNCHANGED <<launcherRest, rung, launched, watchers, ran>>

\* The interface that the launcher became ends.
UiEnds ==
    /\ lp = "ui" /\ lp' = "dead"
    /\ UNCHANGED <<launcherRest, rung, launched, watchers, ran>>

Launcher ==
    \/ ClearRecords \/ SkipRung \/ LoadRung \/ ByName \/ ArmWatcher
    \/ LastLook \/ Exec \/ ExecFails \/ RevokedExit \/ UiEnds

-----------------------------------------------------------------------------
(* The watchers. *)

watcherRest == <<sup, launches, lp, rung, token, other, ran>>

\* Its pipe is closed by the exec, by the end of the launcher, and by nothing
\* else but the byte that ends the watcher.
PipeClosed(w) == w.by # launches \/ lp \in {"ui", "dead"}

\* Mutant: a closed pipe is proof enough.
WatcherTrusts(w) ==
    /\ w.saw = "nothing" /\ PipeClosed(w)
    /\ watchers' = (watchers \ {w}) \cup {[w EXCEPT !.saw = "alive"]}
    /\ UNCHANGED <<watcherRest, launched>>

\* It looks whether its launcher, by whatever name, is still alive.
WatcherLooks(w) ==
    /\ w.saw = "nothing" /\ PipeClosed(w)
    /\ watchers' = (watchers \ {w}) \cup
           (IF w.by = launches /\ Alive THEN {[w EXCEPT !.saw = "alive"]} ELSE {})
    /\ UNCHANGED <<watcherRest, launched>>

WatcherWrites(w) ==
    /\ w.saw = "alive"
    /\ launched' = w.of /\ watchers' = watchers \ {w}
    /\ UNCHANGED watcherRest

-----------------------------------------------------------------------------
(* The hook and its supervisor. *)

supRest == <<launched, watchers, ran>>

\* What the hook starts at S98, by what S97 left.
HookStarts ==
    /\ sup = "idle" /\ at = "exit"
    /\ \/ ~(ready /\ OverrideOn) /\ sup' = "left" /\ other' = "stock"
       \/ ready /\ OverrideOn /\ run = None /\ sup' = "left" /\ other' = "mq_ui"
       \/ ready /\ OverrideOn /\ run # None /\ sup' = "fork" /\ UNCHANGED other
    /\ UNCHANGED <<supRest, launches, lp, rung, token>>

ForkLauncher ==
    /\ sup = "fork" /\ launches < MaxLaunches
    /\ token' = TRUE /\ launches' = launches + 1 /\ lp' = "begin"
    /\ sup' = "poll"
    /\ UNCHANGED <<supRest, rung, other>>

\* A record, the end of the launcher, or fifteen seconds.
PollEnds ==
    /\ sup = "poll" /\ sup' = "judge"
    /\ UNCHANGED <<supRest, launches, lp, rung, token, other>>

\* No record yet, alive, and not the stock interface.
Stuck == launched = None /\ Alive /\ ~(lp = "ui" /\ rung = "stock")

\* Mutant: a launcher that is alive is waited for.
JudgePatient ==
    /\ sup = "judge" /\ sup' = "wait"
    /\ UNCHANGED <<supRest, launches, lp, rung, token, other>>

Judge ==
    /\ sup = "judge" /\ sup' = IF Stuck THEN "revoke" ELSE "wait"
    /\ UNCHANGED <<supRest, launches, lp, rung, token, other>>

Revoke ==
    /\ sup = "revoke" /\ token' = FALSE /\ sup' = "kill"
    /\ UNCHANGED <<supRest, launches, lp, rung, other>>

\* Mutant: the token alone is to stop the launcher.
KillLauncherNot ==
    /\ sup = "kill" /\ sup' = "hash"
    /\ UNCHANGED <<supRest, launches, lp, rung, token, other>>

KillLauncher ==
    /\ sup = "kill" /\ lp' = "dead" /\ sup' = "hash"
    /\ UNCHANGED <<supRest, launches, rung, token, other>>

\* wait returns.  An interface that ran for half a minute is the watchdog's.
WaitEnds ==
    /\ sup = "wait" /\ ~Alive
    /\ token' = FALSE
    /\ sup' \in {"hash", "left"}
    /\ UNCHANGED <<supRest, launches, lp, rung, other>>

\* diskos_flashed_ok, within its ten seconds: the flashed build, or at once stock.
Fallback ==
    /\ sup = "hash"
    /\ other' \in {"flashed", "stock"}
    /\ sup' = "run"
    /\ UNCHANGED <<supRest, launches, lp, rung, token>>

\* The fallback ends: after a short run of the flashed build stock is next.
FallbackEnds ==
    /\ sup = "run"
    /\ \/ sup' = "left" /\ other' = "none"
       \/ other = "flashed" /\ other' = "stock" /\ UNCHANGED sup
    /\ UNCHANGED <<supRest, launches, lp, rung, token>>

Supervisor ==
    \/ HookStarts \/ ForkLauncher \/ PollEnds \/ Judge \/ Revoke
    \/ KillLauncher \/ WaitEnds \/ Fallback \/ FallbackEnds

\* The vendor's script runs the hook again in the same boot.
HookAgain ==
    /\ sup = "left" /\ launches \in 1 .. MaxLaunches - 1
    /\ sup' = "idle" /\ lp' = "none" /\ other' = "none"
    /\ UNCHANGED <<supRest, launches, rung, token>>

\* Nothing of this survives the power.
StartOff ==
    /\ sup' = "idle" /\ launches' = 0 /\ lp' = "none" /\ rung' = "target"
    /\ token' = FALSE /\ launched' = None /\ watchers' = {} /\ other' = "none"
    /\ ran' = {}

StartTypeOK ==
    /\ sup \in {"idle", "fork", "poll", "judge", "revoke", "kill", "wait", "hash",
               "run", "left"}
    /\ launches \in 0 .. MaxLaunches
    /\ lp \in {"none", "begin", "load", "arm", "last", "go", "ui", "dead"}
    /\ rung \in Rung /\ launched \in Rung \cup {None} /\ ran \subseteq Rung
    /\ token \in BOOLEAN /\ watchers \subseteq Watcher
    /\ other \in {"none", "mq_ui", "flashed", "stock"}

StartInit ==
    /\ sup = "idle" /\ launches = 0 /\ lp = "none" /\ rung = "target"
    /\ token = FALSE /\ launched = None /\ watchers = {} /\ other = "none"
    /\ ran = {}
=============================================================================
