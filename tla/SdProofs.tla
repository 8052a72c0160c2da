------------------------------ MODULE SdProofs ------------------------------
(***************************************************************************)
(* Theorems about module Sd for every set of worker threads, every bound   *)
(* and every choice of faults: the types, and the gates.                   *)
(***************************************************************************)
EXTENDS Sd, TLAPS

\* A request that is sent, or lost, leaves the queue within its bound.
LEMMA SendTyped ==
    ASSUME TypeOK, NEW mode \in {0, 3}, NEW ok \in BOOLEAN, Send(mode, ok)
    PROVE  queue' \in Seq({0, 3}) /\ Len(queue') <= MaxQueue
<1>1. queue \in Seq({0, 3}) /\ Len(queue) <= MaxQueue
  BY DEF TypeOK, OutsideOK
<1>2. queue' = queue \/ (Len(queue) < MaxQueue /\ queue' = Append(queue, mode))
  BY DEF Send
<1> QED BY <1>1, <1>2, BoundsTyped

\* The controller's handlers keep the types.
LEMMA ControlStepTyped ==
    ASSUME TypeOK, ChooseStorage \/ ChooseLocal \/ SendReturn \/ ChooseSame
       \/ Tick \/ TickLocal \/ TickDrained \/ SendExport \/ TickHost
       \/ TickBack \/ Resume \/ TickWait \/ Expire
    PROVE  TypeOK'
<1>1. CASE ChooseStorage
  <2>1. ThreadsOK' /\ CardOK' /\ LeaveOK' /\ MountOK'
    BY <1>1 DEF TypeOK, ThreadsOK, CardOK, LeaveOK, MountOK, ChooseStorage,
       threads, card, leave, mount
  <2>2. GatesOK'
    BY <1>1 DEF TypeOK, GatesOK, ChooseStorage, SdIoHold
  <2>3. ControlOK'
    BY <1>1 DEF TypeOK, ControlOK, ChooseStorage, Phases
  <2>4. OutsideOK'
    BY <1>1 DEF TypeOK, OutsideOK, ChooseStorage, stock
  <2> QED BY <2>1, <2>2, <2>3, <2>4 DEF TypeOK
<1>2. CASE ChooseLocal
  <2>1. ThreadsOK' /\ GatesOK' /\ CardOK' /\ LeaveOK' /\ MountOK'
    BY <1>2 DEF TypeOK, ThreadsOK, GatesOK, CardOK, LeaveOK, MountOK,
       ChooseLocal, threads, gates, card, leave, mount
  <2>2. ControlOK'
    BY <1>2 DEF TypeOK, ControlOK, ChooseLocal, Phases
  <2>3. OutsideOK'
    BY <1>2 DEF TypeOK, OutsideOK, ChooseLocal, stock
  <2> QED BY <2>1, <2>2, <2>3 DEF TypeOK
<1>3. CASE SendReturn
  <2>1. ThreadsOK' /\ CardOK' /\ LeaveOK' /\ MountOK'
    BY <1>3 DEF TypeOK, ThreadsOK, CardOK, LeaveOK, MountOK, SendReturn,
       threads, card, leave, mount
  <2>2. GatesOK'
    BY <1>3 DEF TypeOK, GatesOK, SendReturn, Unknown, SdIoHold, gates
  <2>3. ControlOK'
    BY <1>3 DEF TypeOK, ControlOK, SendReturn, Unknown, Phases, ctl
  <2>4. OutsideOK'
    BY <1>3, SendTyped DEF TypeOK, OutsideOK, SendReturn, stock
  <2> QED BY <2>1, <2>2, <2>3, <2>4 DEF TypeOK
<1>4. CASE ChooseSame
  <2>1. ThreadsOK' /\ GatesOK' /\ CardOK' /\ LeaveOK' /\ MountOK'
    BY <1>4 DEF TypeOK, ThreadsOK, GatesOK, CardOK, LeaveOK, MountOK,
       ChooseSame, threads, gates, card, leave, mount
  <2>2. ControlOK'
    BY <1>4 DEF TypeOK, ControlOK, ChooseSame
  <2>3. OutsideOK'
    BY <1>4, SendTyped DEF TypeOK, OutsideOK, ChooseSame, stock
  <2> QED BY <2>1, <2>2, <2>3 DEF TypeOK
<1>5. CASE Tick
  <2>1. ThreadsOK' /\ CardOK' /\ LeaveOK' /\ MountOK' /\ OutsideOK'
    BY <1>5 DEF TypeOK, ThreadsOK, CardOK, LeaveOK, MountOK, OutsideOK, Tick,
       threads, card, leave, mount, stock, outside
  <2>2. GatesOK'
    BY <1>5 DEF TypeOK, GatesOK, Tick, Unknown, SdIoHold, gates
  <2>3. ControlOK'
    BY <1>5 DEF TypeOK, ControlOK, Tick, Unknown, Phases, ctl
  <2> QED BY <2>1, <2>2, <2>3 DEF TypeOK
<1>6. CASE TickLocal
  <2>1. ThreadsOK' /\ CardOK' /\ LeaveOK' /\ MountOK' /\ OutsideOK'
    BY <1>6 DEF TypeOK, ThreadsOK, CardOK, LeaveOK, MountOK, OutsideOK,
       TickLocal, threads, card, leave, mount, stock, outside
  <2>2. GatesOK'
    BY <1>6 DEF TypeOK, GatesOK, TickLocal
  <2>3. ControlOK'
    BY <1>6 DEF TypeOK, ControlOK, TickLocal, ctl
  <2> QED BY <2>1, <2>2, <2>3 DEF TypeOK
<1>7. CASE TickDrained
  <2>1. ThreadsOK' /\ CardOK' /\ LeaveOK' /\ MountOK'
    BY <1>7 DEF TypeOK, ThreadsOK, CardOK, LeaveOK, MountOK, TickDrained,
       threads, card, leave, mount
  <2>2. GatesOK'
    BY <1>7 DEF TypeOK, GatesOK, TickDrained, Unknown, SdIoHold, gates
  <2>3. ControlOK'
    BY <1>7 DEF TypeOK, ControlOK, TickDrained, Unknown, Phases
  <2>4. OutsideOK'
    BY <1>7 DEF TypeOK, OutsideOK, TickDrained, stock
  <2> QED BY <2>1, <2>2, <2>3, <2>4 DEF TypeOK
<1>8. CASE SendExport
  <2>1. ThreadsOK' /\ CardOK' /\ LeaveOK' /\ MountOK'
    BY <1>8 DEF TypeOK, ThreadsOK, CardOK, LeaveOK, MountOK, SendExport,
       threads, card, leave, mount
  <2>2. GatesOK'
    BY <1>8 DEF TypeOK, GatesOK, SendExport, Unknown, SdIoHold, gates
  <2>3. ControlOK'
    BY <1>8 DEF TypeOK, ControlOK, SendExport, Unknown, Phases, ctl
  <2>4. OutsideOK'
    BY <1>8, SendTyped DEF TypeOK, OutsideOK, SendExport, stock
  <2> QED BY <2>1, <2>2, <2>3, <2>4 DEF TypeOK
<1>9. CASE TickHost
  <2>1. ThreadsOK' /\ CardOK' /\ LeaveOK' /\ MountOK'
    BY <1>9 DEF TypeOK, ThreadsOK, CardOK, LeaveOK, MountOK, TickHost,
       threads, card, leave, mount
  <2>2. GatesOK'
    BY <1>9 DEF TypeOK, GatesOK, TickHost, Unknown, SdIoHold, gates
  <2>3. ControlOK'
    BY <1>9 DEF TypeOK, ControlOK, TickHost, Unknown, Phases
  <2>4. OutsideOK'
    BY <1>9 DEF TypeOK, OutsideOK, TickHost, stock
  <2> QED BY <2>1, <2>2, <2>3, <2>4 DEF TypeOK
<1>10. CASE TickBack
  <2>1. ThreadsOK' /\ CardOK' /\ LeaveOK' /\ MountOK'
    BY <1>10 DEF TypeOK, ThreadsOK, CardOK, LeaveOK, MountOK, TickBack,
       threads, card, leave, mount
  <2>2. GatesOK'
    BY <1>10 DEF TypeOK, GatesOK, TickBack, Unknown, SdIoHold, gates
  <2>3. ControlOK'
    BY <1>10 DEF TypeOK, ControlOK, TickBack, Unknown, Phases, ctl
  <2>4. OutsideOK'
    BY <1>10 DEF TypeOK, OutsideOK, TickBack, stock
  <2> QED BY <2>1, <2>2, <2>3, <2>4 DEF TypeOK
<1>11. CASE Resume
  <2>1. ThreadsOK' /\ CardOK' /\ LeaveOK' /\ MountOK' /\ OutsideOK'
    BY <1>11 DEF TypeOK, ThreadsOK, CardOK, LeaveOK, MountOK, OutsideOK,
       Resume, threads, card, leave, mount, stock, outside
  <2>2. GatesOK'
    BY <1>11 DEF TypeOK, GatesOK, Resume, Unknown, SdIoHold
  <2>3. ControlOK'
    BY <1>11 DEF TypeOK, ControlOK, Resume, Unknown, Phases
  <2> QED BY <2>1, <2>2, <2>3 DEF TypeOK
<1>12. CASE TickWait
  <2>1. ThreadsOK' /\ CardOK' /\ LeaveOK' /\ MountOK'
    BY <1>12 DEF TypeOK, ThreadsOK, CardOK, LeaveOK, MountOK, TickWait,
       threads, card, leave, mount
  <2>2. GatesOK'
    BY <1>12 DEF TypeOK, GatesOK, TickWait, Unknown, SdIoHold, gates
  <2>3. ControlOK'
    BY <1>12 DEF TypeOK, ControlOK, TickWait, Unknown, Phases, ctl
  <2>4. OutsideOK'
    BY <1>12, SendTyped DEF TypeOK, OutsideOK, TickWait, stock
  <2> QED BY <2>1, <2>2, <2>3, <2>4 DEF TypeOK
<1>13. CASE Expire
  <2>1. ThreadsOK' /\ GatesOK' /\ CardOK' /\ LeaveOK' /\ MountOK' /\ OutsideOK'
    BY <1>13 DEF TypeOK, ThreadsOK, GatesOK, CardOK, LeaveOK, MountOK,
       OutsideOK, Expire, threads, gates, card, leave, mount, stock, outside
  <2>2. ControlOK'
    BY <1>13 DEF TypeOK, ControlOK, Expire
  <2> QED BY <2>1, <2>2 DEF TypeOK
<1> QED BY <1>1, <1>2, <1>3, <1>4, <1>5, <1>6, <1>7, <1>8, <1>9, <1>10, <1>11,
   <1>12, <1>13

\* The cold-boot mount keeps the types.
LEMMA WorkerStepTyped ==
    ASSUME TypeOK, WorkerSeesMount \/ WorkerLocks \/ WorkerMounts
       \/ WorkerLooksAgain \/ WorkerNudges \/ WorkerGivesUp
    PROVE  TypeOK'
<1>1. CASE WorkerSeesMount
  <2>1. ThreadsOK' /\ GatesOK' /\ CardOK' /\ ControlOK' /\ LeaveOK' /\ OutsideOK'
    BY <1>1 DEF TypeOK, ThreadsOK, GatesOK, CardOK, ControlOK, LeaveOK,
       OutsideOK, WorkerSeesMount, threads, gates, card, ctl, leave, ui,
       stock, outside
  <2>2. MountOK'
    BY <1>1 DEF TypeOK, MountOK, WorkerSeesMount
  <2> QED BY <2>1, <2>2 DEF TypeOK
<1>2. CASE WorkerLocks
  <2>1. ThreadsOK' /\ GatesOK' /\ CardOK' /\ ControlOK' /\ LeaveOK' /\ OutsideOK'
    BY <1>2 DEF TypeOK, ThreadsOK, GatesOK, CardOK, ControlOK, LeaveOK,
       OutsideOK, WorkerLocks, threads, gates, card, ctl, leave, ui, stock,
       outside
  <2>2. MountOK'
    BY <1>2 DEF TypeOK, MountOK, WorkerLocks
  <2> QED BY <2>1, <2>2 DEF TypeOK
<1>3. CASE WorkerMounts
  <2>1. ThreadsOK' /\ GatesOK' /\ ControlOK' /\ LeaveOK' /\ OutsideOK'
    BY <1>3 DEF TypeOK, ThreadsOK, GatesOK, ControlOK, LeaveOK, OutsideOK,
       WorkerMounts, threads, gates, ctl, leave, ui, stock, outside
  <2>2. CardOK'
    BY <1>3 DEF TypeOK, CardOK, WorkerMounts
  <2>3. MountOK'
    BY <1>3 DEF TypeOK, MountOK, WorkerMounts
  <2> QED BY <2>1, <2>2, <2>3 DEF TypeOK
<1>4. CASE WorkerLooksAgain
  <2>1. ThreadsOK' /\ GatesOK' /\ ControlOK' /\ LeaveOK' /\ OutsideOK'
    BY <1>4 DEF TypeOK, ThreadsOK, GatesOK, ControlOK, LeaveOK, OutsideOK,
       WorkerLooksAgain, threads, gates, ctl, leave, ui, stock, outside
  <2>2. CardOK'
    BY <1>4 DEF TypeOK, CardOK, WorkerLooksAgain
  <2>3. MountOK'
    BY <1>4 DEF TypeOK, MountOK, WorkerLooksAgain
  <2> QED BY <2>1, <2>2, <2>3 DEF TypeOK
<1>5. CASE WorkerNudges
  <2>1. ThreadsOK' /\ GatesOK' /\ CardOK' /\ ControlOK' /\ LeaveOK' /\ OutsideOK'
    BY <1>5 DEF TypeOK, ThreadsOK, GatesOK, CardOK, ControlOK, LeaveOK,
       OutsideOK, WorkerNudges, threads, gates, card, ctl, leave, ui, stock,
       outside
  <2>2. MountOK'
    BY <1>5 DEF TypeOK, MountOK, WorkerNudges
  <2> QED BY <2>1, <2>2 DEF TypeOK
<1>6. CASE WorkerGivesUp
  <2>1. ThreadsOK' /\ GatesOK' /\ CardOK' /\ ControlOK' /\ LeaveOK' /\ OutsideOK'
    BY <1>6 DEF TypeOK, ThreadsOK, GatesOK, CardOK, ControlOK, LeaveOK,
       OutsideOK, WorkerGivesUp, threads, gates, card, ctl, leave, ui, stock,
       outside
  <2>2. MountOK'
    BY <1>6 DEF TypeOK, MountOK, WorkerGivesUp
  <2> QED BY <2>1, <2>2 DEF TypeOK
<1> QED BY <1>1, <1>2, <1>3, <1>4, <1>5, <1>6

\* Restart and shutdown keep the types.
LEMMA LeaveStepTyped ==
    ASSUME TypeOK, RestartAsked \/ RestartDrained \/ RestartRefused
       \/ Reboot \/ ShutdownAsked \/ ShutdownDrained \/ ShutdownRefused
       \/ ShutdownTold \/ ShutdownLate \/ NewGeneration
    PROVE  TypeOK'
<1>1. CASE RestartAsked
  <2>1. CardOK' /\ ControlOK' /\ MountOK' /\ OutsideOK'
    BY <1>1 DEF TypeOK, CardOK, ControlOK, MountOK, OutsideOK, RestartAsked,
       card, ctl, mount, stock, apart
  <2>2. ThreadsOK'
    BY <1>1 DEF TypeOK, ThreadsOK, RestartAsked, QuiesceBegin, TokensRevoked
  <2>3. GatesOK'
    BY <1>1 DEF TypeOK, GatesOK, RestartAsked, QuiesceBegin, SdIoHold
  <2>4. LeaveOK'
    BY <1>1 DEF TypeOK, LeaveOK, RestartAsked, QuiesceBegin
  <2> QED BY <2>1, <2>2, <2>3, <2>4 DEF TypeOK
<1>2. CASE RestartDrained
  <2>1. ThreadsOK' /\ GatesOK' /\ CardOK' /\ ControlOK' /\ MountOK' /\ OutsideOK'
    BY <1>2 DEF TypeOK, ThreadsOK, GatesOK, CardOK, ControlOK, MountOK,
       OutsideOK, RestartDrained, threads, gates, card, ctl, mount, stock, apart
  <2>2. LeaveOK'
    BY <1>2 DEF TypeOK, LeaveOK, RestartDrained
  <2> QED BY <2>1, <2>2 DEF TypeOK
<1>3. CASE RestartRefused
  <2>1. ThreadsOK' /\ CardOK' /\ ControlOK' /\ MountOK' /\ OutsideOK'
    BY <1>3 DEF TypeOK, ThreadsOK, CardOK, ControlOK, MountOK, OutsideOK,
       RestartRefused, QuiesceEnd, threads, card, ctl, mount, stock, apart
  <2>2. GatesOK'
    BY <1>3 DEF TypeOK, GatesOK, RestartRefused, QuiesceEnd
  <2>3. LeaveOK'
    BY <1>3 DEF TypeOK, LeaveOK, RestartRefused, QuiesceEnd
  <2> QED BY <2>1, <2>2, <2>3 DEF TypeOK
<1>4. CASE Reboot
  <2>1. ThreadsOK' /\ GatesOK' /\ CardOK' /\ ControlOK' /\ MountOK' /\ OutsideOK'
    BY <1>4 DEF TypeOK, ThreadsOK, GatesOK, CardOK, ControlOK, MountOK,
       OutsideOK, Reboot, threads, gates, card, ctl, mount, stock, apart
  <2>2. LeaveOK'
    BY <1>4 DEF TypeOK, LeaveOK, Reboot
  <2> QED BY <2>1, <2>2 DEF TypeOK
<1>5. CASE ShutdownAsked
  <2>1. CardOK' /\ ControlOK' /\ MountOK' /\ OutsideOK'
    BY <1>5 DEF TypeOK, CardOK, ControlOK, MountOK, OutsideOK, ShutdownAsked,
       card, ctl, mount, stock, apart
  <2>2. ThreadsOK'
    BY <1>5 DEF TypeOK, ThreadsOK, ShutdownAsked, QuiesceBegin, TokensRevoked
  <2>3. GatesOK'
    BY <1>5 DEF TypeOK, GatesOK, ShutdownAsked, QuiesceBegin, SdIoHold
  <2>4. LeaveOK'
    BY <1>5 DEF TypeOK, LeaveOK, ShutdownAsked, QuiesceBegin
  <2> QED BY <2>1, <2>2, <2>3, <2>4 DEF TypeOK
<1>6. CASE ShutdownDrained
  <2>1. ThreadsOK' /\ GatesOK' /\ CardOK' /\ ControlOK' /\ MountOK' /\ OutsideOK'
    BY <1>6 DEF TypeOK, ThreadsOK, GatesOK, CardOK, ControlOK, MountOK,
       OutsideOK, ShutdownDrained, threads, gates, card, ctl, mount, stock,
       apart
  <2>2. LeaveOK'
    BY <1>6 DEF TypeOK, LeaveOK, ShutdownDrained
  <2> QED BY <2>1, <2>2 DEF TypeOK
<1>7. CASE ShutdownRefused
  <2>1. ThreadsOK' /\ CardOK' /\ ControlOK' /\ MountOK' /\ OutsideOK'
    BY <1>7 DEF TypeOK, ThreadsOK, CardOK, ControlOK, MountOK, OutsideOK,
       ShutdownRefused, QuiesceEnd, threads, card, ctl, mount, stock, apart
  <2>2. GatesOK'
    BY <1>7 DEF TypeOK, GatesOK, ShutdownRefused, QuiesceEnd
  <2>3. LeaveOK'
    BY <1>7 DEF TypeOK, LeaveOK, ShutdownRefused, QuiesceEnd
  <2> QED BY <2>1, <2>2, <2>3 DEF TypeOK
<1>8. CASE ShutdownTold
  <2>1. ThreadsOK' /\ GatesOK' /\ CardOK' /\ ControlOK' /\ MountOK'
    BY <1>8 DEF TypeOK, ThreadsOK, GatesOK, CardOK, ControlOK, MountOK,
       ShutdownTold, threads, gates, card, ctl, mount, apart
  <2>2. LeaveOK'
    BY <1>8 DEF TypeOK, LeaveOK, ShutdownTold
  <2>3. OutsideOK'
    BY <1>8 DEF TypeOK, OutsideOK, ShutdownTold, apart
  <2> QED BY <2>1, <2>2, <2>3 DEF TypeOK
<1>9. CASE ShutdownLate
  <2>1. ThreadsOK' /\ GatesOK' /\ CardOK' /\ ControlOK' /\ MountOK' /\ OutsideOK'
    BY <1>9 DEF TypeOK, ThreadsOK, GatesOK, CardOK, ControlOK, MountOK,
       OutsideOK, ShutdownLate, threads, gates, card, ctl, mount, stock, apart
  <2>2. LeaveOK'
    BY <1>9 DEF TypeOK, LeaveOK, ShutdownLate
  <2> QED BY <2>1, <2>2 DEF TypeOK
<1>10. CASE NewGeneration
  <2>1. ThreadsOK' /\ CardOK' /\ ControlOK' /\ MountOK'
    BY <1>10 DEF TypeOK, ThreadsOK, CardOK, ControlOK, MountOK, NewGeneration,
       QuiesceEnd, threads, card, ctl, mount, apart
  <2>2. GatesOK'
    BY <1>10 DEF TypeOK, GatesOK, NewGeneration, QuiesceEnd, gates
  <2>3. LeaveOK'
    BY <1>10 DEF TypeOK, LeaveOK, NewGeneration, QuiesceEnd
  <2>4. OutsideOK'
    BY <1>10 DEF TypeOK, OutsideOK, NewGeneration, apart
  <2> QED BY <2>1, <2>2, <2>3, <2>4 DEF TypeOK
<1> QED BY <1>1, <1>2, <1>3, <1>4, <1>5, <1>6, <1>7, <1>8, <1>9, <1>10

\* The verdict, the death and the start of the interface keep the types.
LEMMA LifeStepTyped ==
    ASSUME TypeOK, VerdictGood \/ Revoke \/ UiDies \/ UiStart
    PROVE  TypeOK'
<1>1. CASE VerdictGood
  <2>1. ThreadsOK' /\ CardOK' /\ ControlOK' /\ LeaveOK' /\ OutsideOK'
    BY <1>1 DEF TypeOK, ThreadsOK, CardOK, ControlOK, LeaveOK, OutsideOK,
       VerdictGood, threads, card, ctl, leave, ui, stock, outside
  <2>2. GatesOK'
    BY <1>1 DEF TypeOK, GatesOK, VerdictGood
  <2>3. MountOK'
    BY <1>1 DEF TypeOK, MountOK, VerdictGood
  <2> QED BY <2>1, <2>2, <2>3 DEF TypeOK
<1>2. CASE Revoke
  <2>1. CardOK' /\ LeaveOK' /\ MountOK' /\ OutsideOK'
    BY <1>2 DEF TypeOK, CardOK, LeaveOK, MountOK, OutsideOK, Revoke, card,
       leave, mount, stock, outside
  <2>2. ThreadsOK'
    BY <1>2 DEF TypeOK, ThreadsOK, Revoke, TokensRevoked
  <2>3. GatesOK'
    BY <1>2 DEF TypeOK, GatesOK, Revoke, SdIoHold
  <2>4. ControlOK'
    BY <1>2 DEF TypeOK, ControlOK, Revoke, Phases
  <2> QED BY <2>1, <2>2, <2>3, <2>4 DEF TypeOK
<1>3. CASE UiDies
  <2>1. ThreadsOK'
    BY <1>3 DEF TypeOK, ThreadsOK, UiDies, Idle
  <2>2. GatesOK'
    BY <1>3 DEF TypeOK, GatesOK, UiDies
  <2>3. CardOK'
    BY <1>3 DEF TypeOK, CardOK, UiDies
  <2>4. ControlOK'
    BY <1>3 DEF TypeOK, ControlOK, UiDies, Phases
  <2>5. LeaveOK'
    BY <1>3 DEF TypeOK, LeaveOK, UiDies
  <2>6. MountOK'
    BY <1>3 DEF TypeOK, MountOK, UiDies
  <2>7. OutsideOK'
    <3>1. lives' \in 0 .. MaxLives
      <4>1. lives' = lives + 1 /\ lives < MaxLives BY <1>3 DEF UiDies
      <4>2. lives \in 0 .. MaxLives BY DEF TypeOK, OutsideOK
      <4> QED BY <4>1, <4>2, BoundsTyped
    <3>2. UNCHANGED <<marker, queue, player, timer, reborn, cold>>
      BY <1>3 DEF UiDies, stock
    <3> QED BY <3>1, <3>2 DEF TypeOK, OutsideOK
  <2> QED BY <2>1, <2>2, <2>3, <2>4, <2>5, <2>6, <2>7 DEF TypeOK
<1>4. CASE UiStart
  <2>1. ThreadsOK' /\ CardOK' /\ LeaveOK' /\ MountOK'
    BY <1>4 DEF TypeOK, ThreadsOK, CardOK, LeaveOK, MountOK, UiStart, threads,
       card, leave, mount
  <2>2. GatesOK'
    <3>1. allowed' \in BOOLEAN /\ fault' \in BOOLEAN /\ hold' \in BOOLEAN
      BY <1>4 DEF TypeOK, CardOK, UiStart
    <3>2. writable' \in BOOLEAN
      BY <1>4 DEF UiStart
    <3>3. verdict' \in {"pending", "good", "bad"}
      BY <1>4 DEF TypeOK, GatesOK, UiStart
    <3> QED BY <3>1, <3>2, <3>3 DEF GatesOK
  <2>3. ControlOK'
    <3>1. PICK written \in BOOLEAN :
            LET p == IF ~written /\ Recovered \in {"HOST", "LOCAL"}
                     THEN "UNKNOWN" ELSE Recovered
            IN /\ phase' = IF hold' THEN "UNKNOWN" ELSE p
               /\ src' = IF Recovered \in {"HOST", "WAIT_HOST", "WAIT_LOCAL"}
                         THEN 3 ELSE 0
               /\ reissue' = (p \in {"WAIT_HOST", "WAIT_LOCAL"})
      BY <1>4 DEF UiStart
    <3>2. Recovered \in Phases BY DEF Recovered, Phases
    <3>3. phase' \in Phases BY ONLY <3>1, <3>2 DEF Phases
    <3>4. src' \in {0, 3} BY ONLY <3>1
    <3>5. reissue' \in BOOLEAN BY ONLY <3>1
    <3>6. expired' \in BOOLEAN /\ todo' = "none" BY <1>4 DEF UiStart
    <3> QED BY <3>3, <3>4, <3>5, <3>6 DEF ControlOK
  <2>4. OutsideOK'
    BY <1>4 DEF TypeOK, OutsideOK, UiStart, stock
  <2> QED BY <2>1, <2>2, <2>3, <2>4 DEF TypeOK
<1> QED BY <1>1, <1>2, <1>3, <1>4

\* The player and the clock keep the types.
LEMMA PlayerStepTyped ==
    ASSUME TypeOK, PlayerReady \/ PlayerReplaced \/ PlayerExports
       \/ PlayerReturns \/ PlayerMounts \/ CardPulled \/ PlayerPowersOff
       \/ PlayerSeesCancel \/ GetsLate
    PROVE  TypeOK'
<1>1. CASE PlayerReady
  <2>1. ThreadsOK' /\ GatesOK' /\ CardOK' /\ ControlOK' /\ LeaveOK' /\ MountOK'
    BY <1>1 DEF TypeOK, ThreadsOK, GatesOK, CardOK, ControlOK, LeaveOK,
       MountOK, PlayerReady, threads, gates, card, ctl, leave, ui, mount,
       rest, others
  <2>2. OutsideOK'
    BY <1>1 DEF TypeOK, OutsideOK, PlayerReady, rest, others
  <2> QED BY <2>1, <2>2 DEF TypeOK
<1>2. CASE PlayerReplaced
  <2>1. ThreadsOK' /\ GatesOK' /\ CardOK' /\ ControlOK' /\ LeaveOK' /\ MountOK'
    BY <1>2 DEF TypeOK, ThreadsOK, GatesOK, CardOK, ControlOK, LeaveOK,
       MountOK, PlayerReplaced, threads, gates, card, ctl, leave, ui, mount,
       rest
  <2>2. OutsideOK'
    <3>1. queue' \in Seq({0, 3}) /\ Len(queue') <= MaxQueue
      BY <1>2, BoundsTyped DEF PlayerReplaced
    <3>2. player' = "replaced" /\ timer' = FALSE /\ reborn' = TRUE
      BY <1>2 DEF PlayerReplaced
    <3>3. UNCHANGED <<marker, cold, lives>> BY <1>2 DEF PlayerReplaced, rest
    <3> QED BY <3>1, <3>2, <3>3 DEF TypeOK, OutsideOK
  <2> QED BY <2>1, <2>2 DEF TypeOK
<1>3. CASE PlayerExports
  <2>1. ThreadsOK' /\ GatesOK' /\ ControlOK' /\ LeaveOK' /\ MountOK'
    BY <1>3 DEF TypeOK, ThreadsOK, GatesOK, ControlOK, LeaveOK, MountOK,
       PlayerExports, threads, gates, ctl, leave, ui, mount, rest, others
  <2>2. CardOK'
    BY <1>3 DEF TypeOK, CardOK, PlayerExports, card, rest, others
  <2>3. OutsideOK'
    BY <1>3, BoundsTyped DEF TypeOK, OutsideOK, PlayerExports, rest, others
  <2> QED BY <2>1, <2>2, <2>3 DEF TypeOK
<1>4. CASE PlayerReturns
  <2>1. ThreadsOK' /\ GatesOK' /\ ControlOK' /\ LeaveOK' /\ MountOK'
    BY <1>4 DEF TypeOK, ThreadsOK, GatesOK, ControlOK, LeaveOK, MountOK,
       PlayerReturns, threads, gates, ctl, leave, ui, mount, rest, others
  <2>2. CardOK'
    BY <1>4 DEF TypeOK, CardOK, PlayerReturns, card, rest, others
  <2>3. OutsideOK'
    BY <1>4, BoundsTyped DEF TypeOK, OutsideOK, PlayerReturns, rest, others
  <2> QED BY <2>1, <2>2, <2>3 DEF TypeOK
<1>5. CASE PlayerMounts
  <2>1. ThreadsOK' /\ GatesOK' /\ ControlOK' /\ LeaveOK' /\ MountOK' /\ OutsideOK'
    BY <1>5 DEF TypeOK, ThreadsOK, GatesOK, ControlOK, LeaveOK, MountOK,
       OutsideOK, PlayerMounts, threads, gates, ctl, leave, ui, mount, rest,
       others
  <2>2. CardOK'
    BY <1>5 DEF TypeOK, CardOK, PlayerMounts, rest, others
  <2> QED BY <2>1, <2>2 DEF TypeOK
<1>6. CASE CardPulled
  <2>1. ThreadsOK' /\ GatesOK' /\ ControlOK' /\ LeaveOK' /\ MountOK' /\ OutsideOK'
    BY <1>6 DEF TypeOK, ThreadsOK, GatesOK, ControlOK, LeaveOK, MountOK,
       OutsideOK, CardPulled, threads, gates, ctl, leave, ui, mount, rest,
       others
  <2>2. CardOK'
    BY <1>6 DEF TypeOK, CardOK, CardPulled, rest, others
  <2> QED BY <2>1, <2>2 DEF TypeOK
<1>7. CASE PlayerPowersOff
  <2>1. GatesOK' /\ CardOK' /\ OutsideOK'
    BY <1>7 DEF TypeOK, GatesOK, CardOK, OutsideOK, PlayerPowersOff, gates,
       card, stock, outside
  <2>2. ThreadsOK'
    BY <1>7 DEF TypeOK, ThreadsOK, PlayerPowersOff, Idle
  <2>3. ControlOK'
    BY <1>7 DEF TypeOK, ControlOK, PlayerPowersOff, ctl
  <2>4. LeaveOK'
    BY <1>7 DEF TypeOK, LeaveOK, PlayerPowersOff
  <2>5. MountOK'
    BY <1>7 DEF TypeOK, MountOK, PlayerPowersOff
  <2> QED BY <2>1, <2>2, <2>3, <2>4, <2>5 DEF TypeOK
<1>8. CASE PlayerSeesCancel
  <2>1. ThreadsOK' /\ GatesOK' /\ CardOK' /\ ControlOK' /\ LeaveOK' /\ MountOK'
    BY <1>8 DEF TypeOK, ThreadsOK, GatesOK, CardOK, ControlOK, LeaveOK,
       MountOK, PlayerSeesCancel, threads, gates, card, ctl, leave, ui, mount,
       rest
  <2>2. OutsideOK'
    BY <1>8 DEF TypeOK, OutsideOK, PlayerSeesCancel, rest
  <2> QED BY <2>1, <2>2 DEF TypeOK
<1>9. CASE GetsLate
  <2>1. ThreadsOK' /\ GatesOK' /\ CardOK' /\ ControlOK' /\ LeaveOK' /\ MountOK'
    BY <1>9 DEF TypeOK, ThreadsOK, GatesOK, CardOK, ControlOK, LeaveOK,
       MountOK, GetsLate, threads, gates, card, ctl, leave, ui, mount
  <2>2. OutsideOK'
    BY <1>9 DEF TypeOK, OutsideOK, GetsLate, stock
  <2> QED BY <2>1, <2>2 DEF TypeOK
<1> QED BY <1>1, <1>2, <1>3, <1>4, <1>5, <1>6, <1>7, <1>8, <1>9

\* The interface's threads keep the types.
LEMMA UiThreadsTyped ==
    ASSUME TypeOK, NEW t \in Thread, ThreadStep(t), UNCHANGED <<ui, mount,
       outside>>
    PROVE  TypeOK'
<1>1. ControlOK' /\ LeaveOK' /\ MountOK' /\ OutsideOK'
  BY DEF TypeOK, ControlOK, LeaveOK, MountOK, OutsideOK, ui, ctl, leave,
     mount, outside, stock
<1>2. ThreadsOK' /\ GatesOK' /\ CardOK'
  <2>1. CASE TakeToken(t)
    BY <2>1 DEF TypeOK, ThreadsOK, GatesOK, CardOK, TakeToken, gates, card,
       threads, Idle
  <2>2. CASE BeginRefused(t)
    BY <2>2 DEF TypeOK, ThreadsOK, GatesOK, CardOK, BeginRefused, gates, card,
       threads
  <2>3. CASE Begin(t)
    BY <2>3 DEF TypeOK, ThreadsOK, GatesOK, CardOK, Begin, gates, card, threads
  <2>4. CASE End(t)
    BY <2>4 DEF TypeOK, ThreadsOK, GatesOK, CardOK, End, gates, card, threads,
       Idle
  <2>5. CASE WriteAsk(t)
    BY <2>5 DEF TypeOK, ThreadsOK, GatesOK, CardOK, WriteAsk, gates, card,
       threads
  <2>6. CASE WriteAnswer(t)
    BY <2>6 DEF TypeOK, ThreadsOK, GatesOK, CardOK, WriteAnswer, gates, card,
       threads
  <2>7. CASE WriteEnd(t)
    BY <2>7 DEF TypeOK, ThreadsOK, GatesOK, CardOK, WriteEnd, gates, card,
       threads
  <2>8. CASE Fork(t)
    BY <2>8 DEF TypeOK, ThreadsOK, GatesOK, CardOK, Fork, gates, card, threads
  <2>9. CASE DecoderExits(t)
    BY <2>9 DEF TypeOK, ThreadsOK, GatesOK, CardOK, DecoderExits, gates, card,
       threads
  <2>10. CASE DecoderStuck(t)
    BY <2>10 DEF TypeOK, ThreadsOK, GatesOK, CardOK, DecoderStuck, gates,
       card, threads
  <2> QED BY <2>1, <2>2, <2>3, <2>4, <2>5, <2>6, <2>7, <2>8, <2>9,
     <2>10 DEF ThreadStep
<1> QED BY <1>1, <1>2 DEF TypeOK

\* A decoder that exits on its own, or nothing at all, keeps the types.
LEMMA StrayStepTyped ==
    ASSUME TypeOK, StrayStep
    PROVE  TypeOK'
<1>1. ThreadsOK' /\ GatesOK' /\ CardOK'
  BY DEF TypeOK, ThreadsOK, GatesOK, CardOK, StrayStep, StrayExits, threads,
     gates, card
<1>2. ControlOK' /\ LeaveOK' /\ MountOK' /\ OutsideOK'
  BY DEF TypeOK, ControlOK, LeaveOK, MountOK, OutsideOK, StrayStep, ui, ctl,
     leave, mount, outside, stock
<1> QED BY <1>1, <1>2 DEF TypeOK

\* A step that changes nothing keeps the types.
LEMMA StutterTyped ==
    ASSUME TypeOK, UNCHANGED vars
    PROVE  TypeOK'
<1>1. ThreadsOK' /\ GatesOK' /\ CardOK'
  BY DEF TypeOK, ThreadsOK, GatesOK, CardOK, vars, threads, gates, card
<1>2. ControlOK' /\ LeaveOK' /\ MountOK' /\ OutsideOK'
  BY DEF TypeOK, ControlOK, LeaveOK, MountOK, OutsideOK, vars, ui, ctl, leave,
     mount, outside, stock
<1> QED BY <1>1, <1>2 DEF TypeOK

\* The initial states have the types.
LEMMA InitTyped == Init => TypeOK
<1> SUFFICES ASSUME Init PROVE TypeOK OBVIOUS
<1>1. ThreadsOK BY DEF Init, ThreadsOK, Idle
<1>2. GatesOK /\ CardOK BY DEF Init, GatesOK, CardOK
<1>3. ControlOK /\ LeaveOK /\ MountOK BY DEF Init, ControlOK, LeaveOK,
   MountOK, Phases
<1>4. queue \in Seq({0, 3}) /\ Len(queue) <= MaxQueue BY BoundsTyped DEF Init
<1>5. lives \in 0 .. MaxLives BY BoundsTyped DEF Init
<1>6. OutsideOK BY <1>4, <1>5 DEF Init, OutsideOK
<1> QED BY <1>1, <1>2, <1>3, <1>6 DEF TypeOK

\* Every step keeps the types.
LEMMA NextTyped ==
    ASSUME TypeOK, [Next]_vars
    PROVE  TypeOK'
<1>1. CASE ControlStep BY <1>1, ControlStepTyped DEF ControlStep
<1>2. CASE WorkerStep BY <1>2, WorkerStepTyped DEF WorkerStep
<1>3. CASE LeaveStep BY <1>3, LeaveStepTyped DEF LeaveStep
<1>4. CASE VerdictGood \/ Revoke \/ UiDies \/ UiStart BY <1>4, LifeStepTyped
<1>5. CASE PlayerStep BY <1>5, PlayerStepTyped DEF PlayerStep
<1>6. CASE UiThreads BY <1>6, UiThreadsTyped DEF UiThreads
<1>7. CASE StrayStep BY <1>7, StrayStepTyped
<1>8. CASE UNCHANGED vars BY <1>8, StutterTyped
<1> QED BY <1>1, <1>2, <1>3, <1>4, <1>5, <1>6, <1>7, <1>8 DEF Next, LifeStep

\* Every reachable state is well typed: in particular the mode requests to the
\* player and the phases of the hand-off are the ones of ui/main.c.
THEOREM TypesHold == Spec => []TypeOK
<1> QED BY InitTyped, NextTyped, PTL DEF Spec
=============================================================================
