--------------------------- MODULE BringupProofs ----------------------------
(***************************************************************************)
(* What a boot promises from the installation of the chosen build to the   *)
(* running interface, for every set of builds, every combination of        *)
(* faults, any number of boots and any number of launches in one.          *)
(***************************************************************************)
EXTENDS Bringup, TLAPS

\* The chosen build is in place, executable and published.
Published == mqui = want /\ exec /\ link = "ours" /\ want \in Build

Choosing == {"off", "select", "exit"}
Ending == {"ready", "mark", "unarm"}

\* Why the hook may trust what it finds: from the end of the script on the
\* override is off or the verified build, and readiness and the record are
\* written nowhere else.
SafeInv ==
    /\ installed => Published /\ at \in Ending \cup {"clean", "exit"}
    /\ at \notin Choosing \cup Ending \cup Quarantining => want \in Build
    /\ at \in Quarantining /\ caller = "early" => want \in Build
    /\ at \in Publishing => mqui = want
    /\ at \in {"unlink", "ln"} => exec
    /\ at = "reverify" => Published
    /\ (at \in Ending \/ ready) /\ OverrideOn => Published
    /\ at = "mark" => OverrideOn
    /\ ready \/ run # None =>
          /\ at \in {"mark", "unarm", "exit"} \cup Quarantining
          /\ at \in Quarantining => caller = "trap"
    /\ run # None => run = want /\ want \in Bundle

\* What the run record of a boot says when it is written.
RunSays == run = IF want = Flashed THEN None ELSE want

\* Where a boot stands in which nothing has failed.
CalmInv ==
    calm =>
        /\ at \notin {"off", "final", "refuse"}
        /\ at # "select" => want \in Build
        /\ at \in Publishing => caller \in {"fast", "stage"}
        /\ at = "ln" => link = "none"
        /\ at \in Quarantining => caller = "early"
        /\ at \in {"qmove", "qprove"} => link = "none"
        /\ at \in {"check", "move"} => tmp = want
        /\ at = "clean" => installed
        /\ at \in Ending \cup {"exit"} => Published
        /\ at \in {"mark", "unarm", "exit"} => RunSays
        /\ at \in {"unarm", "exit"} => ready

\* The launcher's interface lives only while the supervisor looks on, and the
\* hook's own only after that; a watcher speaks of what its launcher became.
StartInv ==
    /\ sup # "idle" \/ launches > 0 => at = "exit"
    /\ other # "none" => sup \in {"run", "left"}
    /\ Alive => launches > 0 /\ sup \in {"poll", "judge", "revoke", "kill", "wait"}
    /\ lp = "ui" => rung \in ran
    /\ \A w \in watchers :
          /\ w.by <= launches
          /\ w.saw = "alive" => w.of \in ran
          /\ w.saw = "nothing" /\ w.by = launches /\ Alive =>
                w.of = rung /\ lp \in {"last", "go", "ui"}

BringupInv == TypeOK /\ SafeInv /\ CalmInv /\ StartInv /\ VerifiedOnly /\ RecordTrue

-----------------------------------------------------------------------------
\* Every command of the script, and everything that interrupts it, keeps the
\* types of what it works on.
LEMMA InstallTyped ==
    ASSUME InstallTypeOK, InstallStep
    PROVE  InstallTypeOK'
<1> USE BuildsApart DEF InstallTypeOK, Places, Publishing, Quarantining,
        PublishedTo, UnpublishedTo, QuarantinedTo, nand, script, told, Works,
        Breaks, Verify, DropTmp, Call, Build, Bytes, Links
<1>1. CASE StartS97 \/ Select \/ SweepTmp \/ FastPath \/ QuarantineEarly
  BY <1>1 DEF StartS97, Select, SweepTmp, FastPath, QuarantineEarly
<1>2. CASE StageTmp \/ CheckTmp \/ MoveTmp \/ Reverify \/ CleanTmp
  BY <1>2 DEF StageTmp, CheckTmp, MoveTmp, Reverify, CleanTmp
<1>3. CASE Finalize \/ Refuse \/ WriteRun \/ MarkReady \/ Unarm
  BY <1>3 DEF Finalize, Refuse, WriteRun, MarkReady, Unarm, SomethingThere,
      OverrideOn
<1>4. CASE PublishChmod \/ PublishUnlink \/ PublishLink
  BY <1>4 DEF PublishChmod, PublishUnlink, PublishLink
<1>5. CASE QuarantineLink \/ QuarantineMove \/ QuarantineProve
  BY <1>5 DEF QuarantineLink, QuarantineMove, QuarantineProve
<1>6. CASE Signal \/ TimedOut \/ Decay
  BY <1>6 DEF Signal, TimedOut, Decay, Working, HalfStaged
<1> QED
  BY <1>1, <1>2, <1>3, <1>4, <1>5, <1>6 DEF InstallStep, Script, Procedures
\* No command and no interruption of S97 leaves an unverified build trusted.
LEMMA SafeKept ==
    ASSUME InstallTypeOK, SafeInv, InstallStep
    PROVE  SafeInv'
<1> USE BuildsApart DEF InstallTypeOK, SafeInv, Published, Choosing, Ending,
        Publishing, Quarantining, OverrideOn, nand, script, told, Works, Breaks,
        Call, Build, Bytes
<1>1. CASE StartS97
  BY <1>1 DEF StartS97
<1>2. CASE Select
  BY <1>2 DEF Select
<1>3. CASE SweepTmp
  BY <1>3 DEF SweepTmp, DropTmp
<1>4. CASE FastPath
  BY <1>4 DEF FastPath, Verify
<1>5. CASE QuarantineEarly
  BY <1>5 DEF QuarantineEarly, SomethingThere
<1>6. CASE StageTmp
  BY <1>6 DEF StageTmp
<1>7. CASE CheckTmp
  BY <1>7 DEF CheckTmp, Verify
<1>8. CASE MoveTmp
  BY <1>8 DEF MoveTmp
<1>9. CASE Reverify
  BY <1>9 DEF Reverify
<1>10. CASE CleanTmp
  BY <1>10 DEF CleanTmp, DropTmp
<1>11. CASE Finalize
  BY <1>11 DEF Finalize, Verify
<1>12. CASE Refuse
  BY <1>12 DEF Refuse, SomethingThere
<1>13. CASE WriteRun
  BY <1>13 DEF WriteRun
<1>14. CASE MarkReady
  BY <1>14 DEF MarkReady
<1>15. CASE Unarm
  BY <1>15 DEF Unarm
<1>16. CASE PublishChmod
  BY <1>16 DEF PublishChmod, UnpublishedTo
<1>17. CASE PublishUnlink
  BY <1>17 DEF PublishUnlink
<1>18. CASE PublishLink
  BY <1>18 DEF PublishLink, PublishedTo, UnpublishedTo
<1>19. CASE QuarantineLink
  BY <1>19 DEF QuarantineLink
<1>20. CASE QuarantineMove
  BY <1>20 DEF QuarantineMove
<1>21. CASE QuarantineProve
  BY <1>21 DEF QuarantineProve, QuarantinedTo
<1>22. CASE Signal
  BY <1>22 DEF Signal, Working
<1>23. CASE at # "off" /\ TimedOut
  BY <1>23 DEF TimedOut, HalfStaged
<1>24. CASE Decay
  BY <1>24 DEF Decay
<1> QED
  BY <1>1, <1>2, <1>3, <1>4, <1>5, <1>6, <1>7, <1>8, <1>9, <1>10, <1>11, <1>12,
     <1>13, <1>14, <1>15, <1>16, <1>17, <1>18, <1>19, <1>20, <1>21, <1>22, <1>23, <1>24
     DEF InstallStep, Script, Procedures

\* A run of S97 without a failure goes on to readiness.
LEMMA CalmKept ==
    ASSUME InstallTypeOK, SafeInv, CalmInv, InstallStep
    PROVE  CalmInv'
<1> USE BuildsApart DEF InstallTypeOK, SafeInv, CalmInv, Published, RunSays, Choosing,
        Ending, Publishing, Quarantining, OverrideOn, nand, script, told, Works,
        Breaks, Call, Build, Bytes
<1>1. CASE StartS97
  BY <1>1 DEF StartS97
<1>2. CASE Select
  BY <1>2 DEF Select
<1>3. CASE SweepTmp
  BY <1>3 DEF SweepTmp, DropTmp
<1>4. CASE FastPath
  BY <1>4 DEF FastPath, Verify
<1>5. CASE QuarantineEarly
  BY <1>5 DEF QuarantineEarly, SomethingThere
<1>6. CASE StageTmp
  BY <1>6 DEF StageTmp
<1>7. CASE CheckTmp
  BY <1>7 DEF CheckTmp, Verify
<1>8. CASE MoveTmp
  BY <1>8 DEF MoveTmp
<1>9. CASE Reverify
  BY <1>9 DEF Reverify
<1>10. CASE CleanTmp
  BY <1>10 DEF CleanTmp, DropTmp
<1>11. CASE Finalize
  BY <1>11 DEF Finalize, Verify
<1>12. CASE Refuse
  BY <1>12 DEF Refuse, SomethingThere
<1>13. CASE WriteRun
  BY <1>13 DEF WriteRun
<1>14. CASE MarkReady
  BY <1>14 DEF MarkReady
<1>15. CASE Unarm
  BY <1>15 DEF Unarm
<1>16. CASE PublishChmod
  BY <1>16 DEF PublishChmod, UnpublishedTo
<1>17. CASE PublishUnlink
  BY <1>17 DEF PublishUnlink
<1>18. CASE PublishLink
  BY <1>18 DEF PublishLink, PublishedTo, UnpublishedTo
<1>19. CASE QuarantineLink
  BY <1>19 DEF QuarantineLink
<1>20. CASE QuarantineMove
  BY <1>20 DEF QuarantineMove
<1>21. CASE QuarantineProve
  BY <1>21 DEF QuarantineProve, QuarantinedTo
<1>22. CASE Signal
  BY <1>22 DEF Signal, Working
<1>23. CASE at # "off" /\ TimedOut
  BY <1>23 DEF TimedOut, HalfStaged
<1>24. CASE Decay
  BY <1>24 DEF Decay
<1> QED
  BY <1>1, <1>2, <1>3, <1>4, <1>5, <1>6, <1>7, <1>8, <1>9, <1>10, <1>11, <1>12,
     <1>13, <1>14, <1>15, <1>16, <1>17, <1>18, <1>19, <1>20, <1>21, <1>22, <1>23, <1>24
     DEF InstallStep, Script, Procedures

\* Launcher, watchers and supervisor keep the types of what they share.
LEMMA StartTyped ==
    ASSUME StartTypeOK, StartInv, StartStep
    PROVE  StartTypeOK'
<1> USE LaunchesCount DEF StartTypeOK, StartInv, Alive, Rung, Below, Watcher,
        launcherRest, supRest
<1>1. CASE ClearRecords
  BY <1>1 DEF ClearRecords
<1>2. CASE SkipRung
  BY <1>2 DEF SkipRung
<1>3. CASE LoadRung
  BY <1>3 DEF LoadRung
<1>4. CASE ByName
  BY <1>4 DEF ByName
<1>5. CASE ArmWatcher
  BY <1>5 DEF ArmWatcher
<1>6. CASE LastLook
  BY <1>6 DEF LastLook
<1>7. CASE Exec
  BY <1>7 DEF Exec
<1>8. CASE ExecFails
  BY <1>8 DEF ExecFails
<1>9. CASE RevokedExit
  BY <1>9 DEF RevokedExit
<1>10. CASE UiEnds
  BY <1>10 DEF UiEnds
<1>11. CASE HookStarts
  BY <1>11 DEF HookStarts
<1>12. CASE ForkLauncher
  BY <1>12 DEF ForkLauncher
<1>13. CASE PollEnds
  BY <1>13 DEF PollEnds
<1>14. CASE Judge
  BY <1>14 DEF Judge, Stuck
<1>15. CASE Revoke
  BY <1>15 DEF Revoke
<1>16. CASE KillLauncher
  BY <1>16 DEF KillLauncher
<1>17. CASE WaitEnds
  BY <1>17 DEF WaitEnds
<1>18. CASE Fallback
  BY <1>18 DEF Fallback
<1>19. CASE FallbackEnds
  BY <1>19 DEF FallbackEnds
<1>20. CASE HookAgain
  BY <1>20 DEF HookAgain
<1>21. CASE \E w \in watchers : WatcherLooks(w) \/ WatcherWrites(w)
  BY <1>21 DEF WatcherLooks, WatcherWrites, PipeClosed, watcherRest
<1> QED
  BY <1>1, <1>2, <1>3, <1>4, <1>5, <1>6, <1>7, <1>8, <1>9, <1>10, <1>11, <1>12,
     <1>13, <1>14, <1>15, <1>16, <1>17, <1>18, <1>19, <1>20, <1>21
     DEF StartStep, Launcher, Supervisor

\* However launcher, watchers and supervisor interleave, each stays in its place.
LEMMA StartKept ==
    ASSUME StartTypeOK, StartInv, StartStep
    PROVE  StartInv'
<1> USE LaunchesCount DEF StartTypeOK, StartInv, Alive, Watcher, launcherRest,
        supRest
<1>0. at' = at
  BY DEF StartStep, installVars, script
<1>1. CASE ClearRecords
  BY <1>0, <1>1 DEF ClearRecords
<1>2. CASE SkipRung
  BY <1>0, <1>2 DEF SkipRung
<1>3. CASE LoadRung
  BY <1>0, <1>3 DEF LoadRung
<1>4. CASE ByName
  BY <1>0, <1>4 DEF ByName
<1>5. CASE ArmWatcher
  BY <1>0, <1>5 DEF ArmWatcher
<1>6. CASE LastLook
  BY <1>0, <1>6 DEF LastLook
<1>7. CASE Exec
  BY <1>0, <1>7 DEF Exec
<1>8. CASE ExecFails
  BY <1>0, <1>8 DEF ExecFails
<1>9. CASE RevokedExit
  BY <1>0, <1>9 DEF RevokedExit
<1>10. CASE UiEnds
  BY <1>0, <1>10 DEF UiEnds
<1>11. CASE HookStarts
  BY <1>0, <1>11 DEF HookStarts
<1>12. CASE ForkLauncher
  BY <1>0, <1>12 DEF ForkLauncher
<1>13. CASE PollEnds
  BY <1>0, <1>13 DEF PollEnds
<1>14. CASE Judge
  BY <1>0, <1>14 DEF Judge, Stuck
<1>15. CASE Revoke
  BY <1>0, <1>15 DEF Revoke
<1>16. CASE KillLauncher
  BY <1>0, <1>16 DEF KillLauncher
<1>17. CASE WaitEnds
  BY <1>0, <1>17 DEF WaitEnds
<1>18. CASE Fallback
  BY <1>0, <1>18 DEF Fallback
<1>19. CASE FallbackEnds
  BY <1>0, <1>19 DEF FallbackEnds
<1>20. CASE HookAgain
  BY <1>0, <1>20 DEF HookAgain
<1>21. CASE \E w \in watchers : WatcherLooks(w) \/ WatcherWrites(w)
  BY <1>0, <1>21 DEF WatcherLooks, WatcherWrites, PipeClosed, watcherRest
<1> QED
  BY <1>1, <1>2, <1>3, <1>4, <1>5, <1>6, <1>7, <1>8, <1>9, <1>10, <1>11, <1>12,
     <1>13, <1>14, <1>15, <1>16, <1>17, <1>18, <1>19, <1>20, <1>21
     DEF StartStep, Launcher, Supervisor

\* The hook starts from /usr/data only what S97 vouches for.
LEMMA OnlyVerifiedKept ==
    ASSUME TypeOK, SafeInv, StartInv, VerifiedOnly, StartStep
    PROVE  VerifiedOnly'
<1> USE DEF VerifiedOnly, installVars, nand, script, told
<1>1. CASE Launcher
  <2>1. UNCHANGED <<sup, other>>
    BY <1>1 DEF Launcher, ClearRecords, SkipRung, LoadRung, ByName, ArmWatcher,
        LastLook, Exec, ExecFails, RevokedExit, UiEnds, launcherRest
  <2> QED
    BY <2>1 DEF StartStep
<1>2. CASE HookStarts
  <2>1. ready /\ OverrideOn => Published
    BY DEF SafeInv
  <2> QED
    BY <1>2, <2>1, BuildsApart DEF HookStarts, StartStep, StartInv, SafeInv,
        Published, Build
<1>3. CASE ForkLauncher \/ PollEnds \/ Judge \/ Revoke \/ KillLauncher \/ WaitEnds
  BY <1>3 DEF StartStep, ForkLauncher, PollEnds, Judge, Revoke, KillLauncher,
      WaitEnds
<1>4. CASE Fallback \/ FallbackEnds \/ HookAgain
  BY <1>4 DEF StartStep, Fallback, FallbackEnds, HookAgain
<1>5. CASE \E w \in watchers : WatcherLooks(w) \/ WatcherWrites(w)
  BY <1>5 DEF StartStep, WatcherLooks, WatcherWrites, watcherRest
<1> QED
  BY <1>1, <1>2, <1>3, <1>4, <1>5 DEF StartStep, Supervisor

\* A record is written by a watcher that saw its launcher as an interface, and is
\* gone, or still true, in the next launch.
LEMMA RecordKept ==
    ASSUME StartInv, RecordTrue, StartStep
    PROVE  RecordTrue'
<1> USE DEF RecordTrue
<1>1. CASE ClearRecords
  BY <1>1 DEF ClearRecords
<1>2. CASE Launcher /\ ~ClearRecords
  <2>1. UNCHANGED launched /\ ran \subseteq ran'
    BY <1>2 DEF Launcher, SkipRung, LoadRung, ByName, ArmWatcher, LastLook, Exec,
        ExecFails, RevokedExit, UiEnds
  <2> QED
    BY <2>1
<1>3. CASE Supervisor \/ HookAgain
  BY <1>3 DEF Supervisor, HookStarts, ForkLauncher, PollEnds, Judge, Revoke,
      KillLauncher, WaitEnds, Fallback, FallbackEnds, HookAgain, supRest
<1>4. CASE \E w \in watchers : WatcherLooks(w) \/ WatcherWrites(w)
  BY <1>4 DEF WatcherLooks, WatcherWrites, watcherRest, StartInv
<1> QED
  BY <1>1, <1>2, <1>3, <1>4 DEF StartStep

\* The power ends whatever ran, and leaves of S97 what is on /usr/data.
LEMMA PowerCutKept ==
    ASSUME BringupInv, PowerCut
    PROVE  BringupInv'
<1> USE BuildsApart DEF BringupInv, PowerCut, PowerOff, StartOff
<1>1. InstallTypeOK'
  BY DEF TypeOK, InstallTypeOK, HalfStaged, Bytes, Build, Places, Publishing,
      Quarantining
<1>2. StartTypeOK'
  <2>1. launches' \in 0 .. MaxLaunches /\ watchers' \subseteq Watcher
    BY LaunchesCount
  <2> QED
    BY <2>1 DEF StartTypeOK, Rung
<1>3. SafeInv' /\ CalmInv'
  BY DEF SafeInv, CalmInv, Choosing, Ending, Publishing, Quarantining
<1>4. StartInv' /\ VerifiedOnly' /\ RecordTrue'
  BY DEF StartInv, Alive, VerifiedOnly, RecordTrue
<1> QED
  BY <1>1, <1>2, <1>3, <1>4 DEF TypeOK

\* The starting state of a device that never booted.
LEMMA BringupStarts == Init => BringupInv
<1> SUFFICES ASSUME Init PROVE BringupInv
  OBVIOUS
<1> USE BuildsApart DEF Init, InstallInit, StartInit
<1>1. InstallTypeOK
  BY DEF InstallTypeOK, Bytes, Build, Links, Places, Publishing, Quarantining
<1>2. StartTypeOK
  <2>1. launches \in 0 .. MaxLaunches /\ watchers \subseteq Watcher
    BY LaunchesCount
  <2> QED
    BY <2>1 DEF StartTypeOK, Rung
<1>3. SafeInv /\ CalmInv
  BY DEF SafeInv, CalmInv, Choosing, Ending, Publishing, Quarantining
<1>4. StartInv /\ VerifiedOnly /\ RecordTrue
  BY DEF StartInv, Alive, VerifiedOnly, RecordTrue
<1> QED
  BY <1>1, <1>2, <1>3, <1>4 DEF BringupInv, TypeOK

LEMMA BringupKept == BringupInv /\ [Next]_bringupVars => BringupInv'
<1> SUFFICES ASSUME BringupInv, [Next]_bringupVars PROVE BringupInv'
  OBVIOUS
<1>1. CASE InstallStep
  <2>1. InstallTypeOK' /\ SafeInv' /\ CalmInv'
    BY <1>1, InstallTyped, SafeKept, CalmKept DEF BringupInv, TypeOK
  <2>2. StartTypeOK' /\ StartInv'
    BY <1>1 DEF InstallStep, startVars, BringupInv, TypeOK, StartTypeOK, StartInv,
        Alive
  <2>3. VerifiedOnly' /\ RecordTrue'
    BY <1>1 DEF InstallStep, startVars, BringupInv, StartInv, VerifiedOnly,
        RecordTrue
  <2> QED
    BY <2>1, <2>2, <2>3 DEF BringupInv, TypeOK
<1>2. CASE StartStep
  <2>1. InstallTypeOK' /\ SafeInv' /\ CalmInv'
    BY <1>2 DEF StartStep, installVars, nand, script, told, BringupInv, TypeOK,
        InstallTypeOK, SafeInv, CalmInv, Published, RunSays, OverrideOn
  <2>2. StartTypeOK' /\ StartInv'
    BY <1>2, StartTyped, StartKept DEF BringupInv, TypeOK
  <2>3. VerifiedOnly' /\ RecordTrue'
    BY <1>2, OnlyVerifiedKept, RecordKept DEF BringupInv
  <2> QED
    BY <2>1, <2>2, <2>3 DEF BringupInv, TypeOK
<1>3. CASE PowerCut
  BY <1>3, PowerCutKept
<1>4. CASE UNCHANGED bringupVars
  BY <1>4 DEF bringupVars, installVars, nand, script, told, startVars, BringupInv,
      TypeOK, InstallTypeOK, StartTypeOK, SafeInv, CalmInv, StartInv, Published,
      RunSays, OverrideOn, Alive, VerifiedOnly, RecordTrue
<1> QED
  BY <1>1, <1>2, <1>3, <1>4 DEF Next

THEOREM BringupInvariant == Spec => []BringupInv
  BY BringupStarts, BringupKept, PTL DEF Spec

\* Types.
THEOREM BringupTypes == Spec => []TypeOK
  BY BringupInvariant, PTL DEF BringupInv

\* The fail-closed contract of S97 and the hook (VerifiedOnly): what is started
\* from /usr/data is the chosen build, whatever failed before.
THEOREM OnlyVerifiedRuns == Spec => []VerifiedOnly
  BY BringupInvariant, PTL DEF BringupInv

\* A boot in which nothing fails repairs whatever it finds (Heals).
THEOREM BootsHeal == Spec => []Heals
<1>1. BringupInv => Heals
  BY DEF BringupInv, CalmInv, Heals, Published, RunSays, Ending
<1> QED
  BY <1>1, BringupInvariant, PTL

\* The launcher and the supervisor never have an interface each (OneUi).
THEOREM OneUiAtATime == Spec => []OneUi
<1>1. BringupInv => OneUi
  BY DEF BringupInv, StartInv, Alive, OneUi
<1> QED
  BY <1>1, BringupInvariant, PTL

\* The record of a launch is of a build that ran in this boot (RecordTrue).
THEOREM RecordsAreTrue == Spec => []RecordTrue
  BY BringupInvariant, PTL DEF BringupInv
=============================================================================
