------------------------------ MODULE Bringup -------------------------------
(***************************************************************************)
(* A boot from the installation of the chosen build to a running interface:*)
(* Install and Start one after the other, with power cuts at any step, and *)
(* what the two promise together.                                          *)
(***************************************************************************)
EXTENDS Start

bringupVars == <<installVars, startVars>>

Init == InstallInit /\ StartInit

\* S97 and what may interrupt it, until its supervisor lets the boot go on.
InstallStep ==
    /\ sup = "idle" /\ launches = 0
    /\ Script \/ Procedures \/ Signal \/ (at # "off" /\ TimedOut) \/ Decay
    /\ UNCHANGED startVars

StartStep ==
    /\ Launcher \/ Supervisor \/ HookAgain
        \/ \E w \in watchers : WatcherLooks(w) \/ WatcherWrites(w)
    /\ UNCHANGED installVars

\* A device that is switched off loses the rest of its work only if it has any.
PowerCut ==
    /\ "cut" \in Faults \/ sup = "left"
    /\ at # "off" /\ PowerOff /\ StartOff

Next == InstallStep \/ StartStep \/ PowerCut

\* The shell that supervises is not stopped by a stuck disk, and its waits are
\* bounded.  Nothing is assumed of the launcher, of S97 or of an interface.
SupervisorRuns ==
    sup \notin {"idle", "run", "left"} /\ Supervisor /\ UNCHANGED installVars

Spec == Init /\ [][Next]_bringupVars /\ WF_bringupVars(SupervisorRuns)

-----------------------------------------------------------------------------
TypeOK == InstallTypeOK /\ StartTypeOK

UiRuns == lp = "ui" \/ other # "none"

\* What the hook starts from /usr/data is the build that this boot chose,
\* executable and published by its link, whatever failed, was killed, or was
\* left by earlier boots (the fail-closed contract of S97): a launcher starts
\* only where there is a record of that very build.
VerifiedOnly ==
    /\ other = "mq_ui" => mqui = want /\ exec /\ link = "ours" /\ want \in Build
    /\ sup = "fork" => run = want /\ want \in Bundle /\ mqui = want

\* A boot in which nothing fails ends ready for the chosen build, in whatever
\* state earlier boots were cut off or the files were found.
Heals ==
    at = "exit" /\ calm =>
        /\ ready /\ mqui = want /\ exec /\ link = "ours"
        /\ run = IF want = Flashed THEN None ELSE want

\* The launcher and the supervisor's fallback are never both an interface: a
\* launcher that wakes up late cannot become a second one.
OneUi == ~(lp = "ui" /\ other # "none")

\* The record of a launch names a build that a launcher of this boot became:
\* not one that was only tried, and not one it was killed before.
RecordTrue == launched # None => launched \in ran

\* The first launch of a boot brings an interface up, wherever the launcher stops.
AUiComesUp ==
    (lp = "begin" /\ launches = 1) ~> (UiRuns \/ at = "off")
=============================================================================
