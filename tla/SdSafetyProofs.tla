--------------------------- MODULE SdSafetyProofs ---------------------------
(***************************************************************************)
(* The safety of the SD card of module Sd for every set of worker threads, *)
(* every bound and every number of crashes, by two inductive invariants:   *)
(* HostInv, who has the card, and LeaveInv, that nobody starts using it    *)
(* when it must not be used any more.                                      *)
(***************************************************************************)
EXTENDS SdProofs

-----------------------------------------------------------------------------
(* Who has the card. *)


All(q, v) == \A i \in DOMAIN q : q[i] = v

\* Once v has been asked for, nothing else is asked for after it.
Stays(q, v) == \A i, j \in DOMAIN q : i < j /\ q[i] = v => q[j] = v

\* The phase in memory and the marker in the file agree whenever no handler is
\* between the two, and a handler that goes on finds the phase it left.
Told ==
    /\ todo = "boot" => phase = "LOCAL"
    /\ todo = "export" => phase = "WAIT_HOST"
    /\ todo = "return" => phase = "WAIT_LOCAL" /\ marker = "R"
    /\ todo = "resume" => phase = "WAIT_LOCAL" /\ marker = "none"
    /\ todo # "none" => off # "done"
    /\ todo # "boot" /\ off # "done" =>
       /\ phase = "LOCAL" => marker = "none"
       /\ phase = "DRAIN" => marker = "D"
       /\ phase = "WAIT_HOST" => marker = "E"
       /\ phase = "HOST" => marker = "H"
       /\ phase = "WAIT_LOCAL" /\ todo # "resume" => marker = "R"

\* What the marker says about the gadget and about the requests on their way.
Asked ==
    /\ marker \in {"none", "D"} => gadget = "free" /\ All(queue, 0)
    /\ marker = "E" => /\ gadget \in {"free", "arming", "host"}
                       /\ Stays(queue, 3)
                       /\ gadget # "free" => All(queue, 3)
    /\ marker = "H" => gadget = "host" /\ All(queue, 3)
    /\ marker = "R" => /\ gadget \in {"host", "leaving", "free"}
                       /\ Stays(queue, 0)
                       /\ gadget # "host" => All(queue, 0)

\* From the export marker on nobody of ours uses the card, and the cold-boot
\* mount is at work only while no export is intended.
Gone ==
    /\ todo = "boot" => thr = [t \in Thread |-> Idle] /\ dec = None
    /\ marker \in {"E", "H", "R"} => Leases = {} /\ Writing = {}
    /\ worker \in {"mounting", "mounted"} => marker = "none"

\* What only holds while no decoder outlives a crashed interface.
Covered == "orphan" \notin Faults => DecoderCovered
Unmounted == "orphan" \notin Faults => (Exported /\ mounted => faultFile)

HostInv == GatesShut /\ Covered /\ Told /\ Asked /\ Gone /\ Unmounted

-----------------------------------------------------------------------------
\* What the player's queue does to the requests that are on their way.
LEMMA QueueFacts ==
    /\ \A q \in Seq({0, 3}), v, w \in {0, 3} :
         /\ All(q, v) => All(Append(q, v), v)
         /\ Stays(q, v) => Stays(Append(q, v), v)
         /\ All(q, w) => Stays(q, v)
         /\ q # <<>> /\ All(q, v) => Head(q) = v
         /\ q # <<>> => Tail(q) \in Seq({0, 3})
         /\ q # <<>> /\ All(q, v) => All(Tail(q), v)
         /\ q # <<>> /\ Stays(q, v) => Stays(Tail(q), v)
         /\ q # <<>> /\ Stays(q, v) /\ Head(q) = v => All(q, v)
    /\ \A v \in {0, 3} : All(<<>>, v) /\ Stays(<<>>, v)
<1>1. ASSUME NEW q \in Seq({0, 3}), NEW v \in {0, 3}, NEW w \in {0, 3}
      PROVE  /\ All(q, v) => All(Append(q, v), v)
             /\ Stays(q, v) => Stays(Append(q, v), v)
             /\ All(q, w) => Stays(q, v)
  BY <1>1 DEF All, Stays
<1>2. ASSUME NEW q \in Seq({0, 3}), q # <<>>, NEW v \in {0, 3}
      PROVE  /\ Tail(q) \in Seq({0, 3})
             /\ All(q, v) => All(Tail(q), v) /\ Head(q) = v
             /\ Stays(q, v) => Stays(Tail(q), v)
             /\ Stays(q, v) /\ Head(q) = v => All(q, v)
  BY <1>2 DEF All, Stays
<1>3. \A v \in {0, 3} : All(<<>>, v) /\ Stays(<<>>, v)
  BY DEF All, Stays
<1> QED BY ONLY <1>1, <1>2, <1>3

\* The controller's handlers keep HostInv.
LEMMA ControlStepHost ==
    ASSUME TypeOK, HostInv, ChooseStorage \/ ChooseLocal \/ SendReturn
       \/ ChooseSame \/ Tick \/ TickLocal \/ TickDrained \/ SendExport
       \/ TickHost \/ TickBack \/ Resume \/ TickWait \/ Expire
    PROVE  HostInv'
<1>1. CASE ChooseStorage
  <2>1. Covered' /\ Unmounted'
    BY <1>1 DEF HostInv, Covered, Unmounted, ChooseStorage, DecoderCovered,
       Exported, threads, card
  <2>2. GatesShut'
    BY <1>1 DEF HostInv, GatesShut, ChooseStorage, SdIoHold, MayChoose,
       MediaLocal, Free, Pending, Exported, Down
  <2>3. Told'
    BY <1>1 DEF HostInv, Told, ChooseStorage, SdIoHold, MayChoose, MediaLocal,
       Free, Pending, Exported, Down, leave
  <2>4. Asked'
    BY <1>1, QueueFacts DEF HostInv, Told, Asked, ChooseStorage, SdIoHold,
       MayChoose, MediaLocal, Free, Pending, Exported, Down, card, TypeOK,
       OutsideOK
  <2>5. Gone'
    BY <1>1 DEF HostInv, Gone, Told, GatesShut, ChooseStorage, SdIoHold,
       Leases, Writing, MayChoose, MediaLocal, Free, Pending, Exported, Down,
       threads, mount
  <2> QED BY <2>1, <2>2, <2>3, <2>4, <2>5 DEF HostInv
<1>2. CASE ChooseLocal
  <2>1. Covered' /\ Unmounted'
    BY <1>2 DEF HostInv, Covered, Unmounted, ChooseLocal, DecoderCovered,
       Exported, threads, card
  <2>2. GatesShut'
    BY <1>2 DEF HostInv, GatesShut, ChooseLocal, MayChoose, Free, Pending,
       Down, gates
  <2>3. Told'
    BY <1>2 DEF HostInv, Told, ChooseLocal, MayChoose, Free, Pending, Down,
       leave
  <2>4. Asked'
    BY <1>2, QueueFacts DEF HostInv, Told, Asked, ChooseLocal, MayChoose,
       Free, Pending, Down, card, TypeOK, OutsideOK
  <2>5. Gone'
    BY <1>2 DEF HostInv, Gone, Told, GatesShut, ChooseLocal, Leases, Writing,
       MayChoose, Free, Pending, Down, threads, mount
  <2> QED BY <2>1, <2>2, <2>3, <2>4, <2>5 DEF HostInv
<1>3. CASE SendReturn
  <2>1. Covered' /\ Unmounted'
    BY <1>3 DEF HostInv, Covered, Unmounted, SendReturn, Unknown,
       DecoderCovered, Exported, threads, card
  <2>2. GatesShut'
    BY <1>3 DEF HostInv, GatesShut, SendReturn, Send, Unknown, SdIoHold,
       gates, ctl
  <2>3. Told'
    BY <1>3 DEF HostInv, Told, SendReturn, Send, Unknown, SdIoHold, ctl, leave
  <2>4. Asked'
    BY <1>3, QueueFacts DEF HostInv, Told, Asked, SendReturn, Send, Unknown,
       SdIoHold, card, TypeOK, OutsideOK
  <2>5. Gone'
    BY <1>3 DEF HostInv, Gone, Told, GatesShut, SendReturn, Send, Unknown,
       SdIoHold, Leases, Writing, threads, mount
  <2> QED BY <2>1, <2>2, <2>3, <2>4, <2>5 DEF HostInv
<1>4. CASE ChooseSame
  <2>1. GatesShut' /\ Covered' /\ Told' /\ Gone' /\ Unmounted'
    BY <1>4 DEF HostInv, GatesShut, Covered, Told, Gone, Unmounted,
       ChooseSame, DecoderCovered, Leases, Writing, Exported, threads, gates,
       card, leave, mount
  <2>2. Asked'
    <3>1. queue' = Append(queue, 0) /\ UNCHANGED <<marker, gadget>>
      BY <1>4 DEF ChooseSame, Send, card
    <3>2. marker = "none"
      BY <1>4 DEF HostInv, Told, ChooseSame, MayChoose, Free, Down
    <3>3. queue \in Seq({0, 3}) BY DEF TypeOK, OutsideOK
    <3> QED BY <3>1, <3>2, <3>3, QueueFacts DEF HostInv, Asked
  <2> QED BY <2>1, <2>2 DEF HostInv
<1>5. CASE Tick
  <2>1. Covered' /\ Asked' /\ Unmounted'
    BY <1>5 DEF HostInv, Covered, Asked, Unmounted, Tick, Unknown,
       DecoderCovered, Exported, threads, card, outside
  <2>2. GatesShut'
    BY <1>5 DEF HostInv, GatesShut, Tick, Unknown, SdIoHold, Free, Phases,
       Down, gates, ctl
  <2>3. Told'
    BY <1>5 DEF HostInv, Told, Tick, Unknown, SdIoHold, Free, Phases, Down,
       ctl, leave, outside
  <2>4. Gone'
    BY <1>5 DEF HostInv, Gone, Told, GatesShut, Tick, Unknown, SdIoHold,
       Leases, Writing, Free, Phases, Down, threads, mount, outside
  <2> QED BY <2>1, <2>2, <2>3, <2>4 DEF HostInv
<1>6. CASE TickLocal
  <2>1. Covered' /\ Asked' /\ Unmounted'
    BY <1>6 DEF HostInv, Covered, Asked, Unmounted, TickLocal, DecoderCovered,
       Exported, threads, card, outside
  <2>2. GatesShut'
    BY <1>6 DEF HostInv, GatesShut, TickLocal, CanResume, Leases, MediaLocal,
       Exported, ctl
  <2>3. Told'
    BY <1>6 DEF HostInv, Told, TickLocal, CanResume, Leases, MediaLocal,
       Exported, ctl, leave, outside
  <2>4. Gone'
    BY <1>6 DEF HostInv, Gone, Told, GatesShut, TickLocal, Leases, Writing,
       CanResume, MediaLocal, Exported, threads, mount, outside
  <2> QED BY <2>1, <2>2, <2>3, <2>4 DEF HostInv
<1>7. CASE TickDrained
  <2>1. Covered' /\ Unmounted'
    BY <1>7 DEF HostInv, Covered, Unmounted, TickDrained, Unknown,
       DecoderCovered, Exported, threads, card
  <2>2. GatesShut'
    BY <1>7 DEF HostInv, GatesShut, TickDrained, Unknown, SdIoHold, Drained,
       Leases, Writers, gates
  <2>3. Told'
    BY <1>7 DEF HostInv, Told, TickDrained, Unknown, SdIoHold, Drained,
       Leases, Writers, leave
  <2>4. Asked'
    BY <1>7, QueueFacts DEF HostInv, Told, Asked, TickDrained, Unknown,
       SdIoHold, Drained, Leases, Writers, card, TypeOK, OutsideOK
  <2>5. Gone'
    BY <1>7 DEF HostInv, Gone, Told, GatesShut, TickDrained, Unknown,
       SdIoHold, Leases, Writing, Drained, Writers, threads, mount
  <2> QED BY <2>1, <2>2, <2>3, <2>4, <2>5 DEF HostInv
<1>8. CASE SendExport
  <2>1. Covered' /\ Unmounted'
    BY <1>8 DEF HostInv, Covered, Unmounted, SendExport, Unknown,
       DecoderCovered, Exported, threads, card
  <2>2. GatesShut'
    BY <1>8 DEF HostInv, GatesShut, SendExport, Send, Unknown, SdIoHold,
       gates, ctl
  <2>3. Told'
    BY <1>8 DEF HostInv, Told, SendExport, Send, Unknown, SdIoHold, ctl, leave
  <2>4. Asked'
    BY <1>8, QueueFacts DEF HostInv, Told, Asked, SendExport, Send, Unknown,
       SdIoHold, card, TypeOK, OutsideOK
  <2>5. Gone'
    BY <1>8 DEF HostInv, Gone, Told, GatesShut, SendExport, Send, Unknown,
       SdIoHold, Leases, Writing, threads, mount
  <2> QED BY <2>1, <2>2, <2>3, <2>4, <2>5 DEF HostInv
<1>9. CASE TickHost
  <2>1. Covered' /\ Unmounted'
    BY <1>9 DEF HostInv, Covered, Unmounted, TickHost, Unknown,
       DecoderCovered, Exported, threads, card
  <2>2. GatesShut'
    BY <1>9 DEF HostInv, GatesShut, TickHost, Unknown, SdIoHold,
       HostConfirmed, gates
  <2>3. Told'
    BY <1>9 DEF HostInv, Told, TickHost, Unknown, SdIoHold, HostConfirmed, leave
  <2>4. Asked'
    BY <1>9, QueueFacts DEF HostInv, Told, Asked, TickHost, Unknown, SdIoHold,
       HostConfirmed, card, TypeOK, OutsideOK
  <2>5. Gone'
    BY <1>9 DEF HostInv, Gone, Told, GatesShut, TickHost, Unknown, SdIoHold,
       Leases, Writing, HostConfirmed, threads, mount
  <2> QED BY <2>1, <2>2, <2>3, <2>4, <2>5 DEF HostInv
<1>10. CASE TickBack
  <2>1. Covered' /\ Unmounted'
    BY <1>10 DEF HostInv, Covered, Unmounted, TickBack, Unknown,
       DecoderCovered, Exported, threads, card
  <2>2. GatesShut'
    BY <1>10 DEF HostInv, GatesShut, TickBack, Unknown, SdIoHold, MediaLocal,
       Exported, gates, ctl
  <2>3. Told'
    BY <1>10 DEF HostInv, Told, TickBack, Unknown, SdIoHold, MediaLocal,
       Exported, ctl, leave
  <2>4. Asked'
    BY <1>10, QueueFacts DEF HostInv, Told, Asked, TickBack, Unknown,
       SdIoHold, MediaLocal, Exported, card, TypeOK, OutsideOK
  <2>5. Gone'
    BY <1>10 DEF HostInv, Gone, Told, GatesShut, TickBack, Unknown, SdIoHold,
       Leases, Writing, MediaLocal, Exported, threads, mount
  <2> QED BY <2>1, <2>2, <2>3, <2>4, <2>5 DEF HostInv
<1>11. CASE Resume
  <2>1. Covered' /\ Asked' /\ Unmounted'
    BY <1>11 DEF HostInv, Covered, Asked, Unmounted, Resume, Unknown,
       DecoderCovered, Exported, threads, card, outside
  <2>2. GatesShut'
    BY <1>11 DEF HostInv, GatesShut, Resume, Unknown, SdIoHold, CanResume,
       Leases, MediaLocal, Exported
  <2>3. Told'
    BY <1>11 DEF HostInv, Told, Resume, Unknown, SdIoHold, CanResume, Leases,
       MediaLocal, Exported, leave, outside
  <2>4. Gone'
    BY <1>11 DEF HostInv, Gone, Told, GatesShut, Resume, Unknown, SdIoHold,
       Leases, Writing, CanResume, MediaLocal, Exported, threads, mount, outside
  <2> QED BY <2>1, <2>2, <2>3, <2>4 DEF HostInv
<1>12. CASE TickWait
  <2>1. Covered' /\ Unmounted'
    BY <1>12 DEF HostInv, Covered, Unmounted, TickWait, Unknown,
       DecoderCovered, Exported, threads, card
  <2>2. GatesShut'
    BY <1>12 DEF HostInv, GatesShut, TickWait, Send, Unknown, SdIoHold,
       Drained, HostConfirmed, MediaLocal, Leases, Writers, Exported, gates, ctl
  <2>3. Told'
    BY <1>12 DEF HostInv, Told, TickWait, Send, Unknown, SdIoHold, Drained,
       HostConfirmed, MediaLocal, Leases, Writers, Exported, ctl, leave
  <2>4. Asked'
    BY <1>12, QueueFacts DEF HostInv, Told, Asked, TickWait, Send, Unknown,
       SdIoHold, Drained, HostConfirmed, MediaLocal, Leases, Writers,
       Exported, card, TypeOK, OutsideOK
  <2>5. Gone'
    BY <1>12 DEF HostInv, Gone, Told, GatesShut, TickWait, Send, Unknown,
       SdIoHold, Leases, Writing, Drained, HostConfirmed, MediaLocal, Writers,
       Exported, threads, mount
  <2> QED BY <2>1, <2>2, <2>3, <2>4, <2>5 DEF HostInv
<1>13. CASE Expire
  <2>1. GatesShut' /\ Covered' /\ Told' /\ Asked' /\ Gone' /\ Unmounted'
    BY <1>13 DEF HostInv, GatesShut, Covered, Told, Asked, Gone, Unmounted,
       Expire, DecoderCovered, Leases, Writing, Exported, threads, gates,
       card, leave, mount, outside
  <2> QED BY <2>1 DEF HostInv
<1> QED BY <1>1, <1>2, <1>3, <1>4, <1>5, <1>6, <1>7, <1>8, <1>9, <1>10, <1>11,
   <1>12, <1>13

\* The cold-boot mount keeps HostInv.
LEMMA WorkerStepHost ==
    ASSUME TypeOK, HostInv, WorkerSeesMount \/ WorkerLocks \/ WorkerMounts
       \/ WorkerLooksAgain \/ WorkerNudges \/ WorkerGivesUp
    PROVE  HostInv'
<1>1. CASE WorkerSeesMount
  <2>1. GatesShut' /\ Covered' /\ Told' /\ Asked' /\ Unmounted'
    BY <1>1 DEF HostInv, GatesShut, Covered, Told, Asked, Unmounted,
       WorkerSeesMount, DecoderCovered, Exported, threads, gates, card, ctl,
       leave, ui, outside
  <2>2. Gone'
    BY <1>1 DEF HostInv, Gone, Told, GatesShut, WorkerSeesMount, Leases,
       Writing, Up, Down, threads, ui, outside
  <2> QED BY <2>1, <2>2 DEF HostInv
<1>2. CASE WorkerLocks
  <2>1. GatesShut' /\ Covered' /\ Told' /\ Asked' /\ Unmounted'
    BY <1>2 DEF HostInv, GatesShut, Covered, Told, Asked, Unmounted,
       WorkerLocks, DecoderCovered, Exported, threads, gates, card, ctl,
       leave, ui, outside
  <2>2. Gone'
    BY <1>2 DEF HostInv, Gone, Told, GatesShut, WorkerLocks, Leases, Writing,
       MayMount, Up, Exported, Down, threads, ui, outside
  <2> QED BY <2>1, <2>2 DEF HostInv
<1>3. CASE WorkerMounts
  <2>1. GatesShut' /\ Covered' /\ Told' /\ Asked'
    BY <1>3 DEF HostInv, GatesShut, Covered, Told, Asked, WorkerMounts,
       DecoderCovered, threads, gates, ctl, leave, ui, outside
  <2>2. Gone'
    BY <1>3 DEF HostInv, Gone, Told, GatesShut, WorkerMounts, Leases, Writing,
       threads, ui, outside
  <2>3. Unmounted'
    BY <1>3 DEF HostInv, Unmounted, Asked, Gone, Covered, DecoderCovered,
       WorkerMounts, Exported
  <2> QED BY <2>1, <2>2, <2>3 DEF HostInv
<1>4. CASE WorkerLooksAgain
  <2>1. GatesShut' /\ Covered' /\ Told' /\ Asked'
    BY <1>4 DEF HostInv, GatesShut, Covered, Told, Asked, WorkerLooksAgain,
       DecoderCovered, threads, gates, ctl, leave, ui, outside
  <2>2. Gone'
    BY <1>4 DEF HostInv, Gone, Told, GatesShut, WorkerLooksAgain, Leases,
       Writing, Exported, threads, ui, outside
  <2>3. Unmounted'
    BY <1>4 DEF HostInv, Unmounted, Asked, Gone, Covered, DecoderCovered,
       WorkerLooksAgain, Exported
  <2> QED BY <2>1, <2>2, <2>3 DEF HostInv
<1>5. CASE WorkerNudges
  <2>1. GatesShut' /\ Covered' /\ Told' /\ Asked' /\ Gone' /\ Unmounted'
    BY <1>5 DEF HostInv, GatesShut, Covered, Told, Asked, Gone, Unmounted,
       WorkerNudges, DecoderCovered, Leases, Writing, Exported, threads,
       gates, card, ctl, leave, ui, outside
  <2> QED BY <2>1 DEF HostInv
<1>6. CASE WorkerGivesUp
  <2>1. GatesShut' /\ Covered' /\ Told' /\ Asked' /\ Unmounted'
    BY <1>6 DEF HostInv, GatesShut, Covered, Told, Asked, Unmounted,
       WorkerGivesUp, DecoderCovered, Exported, threads, gates, card, ctl,
       leave, ui, outside
  <2>2. Gone'
    BY <1>6 DEF HostInv, Gone, Told, GatesShut, WorkerGivesUp, Leases,
       Writing, Up, Down, threads, ui, outside
  <2> QED BY <2>1, <2>2 DEF HostInv
<1> QED BY <1>1, <1>2, <1>3, <1>4, <1>5, <1>6

\* Restart and shutdown keep HostInv.
LEMMA LeaveStepHost ==
    ASSUME TypeOK, HostInv, RestartAsked \/ RestartDrained
       \/ RestartRefused \/ Reboot \/ ShutdownAsked \/ ShutdownDrained
       \/ ShutdownRefused \/ ShutdownTold \/ ShutdownLate \/ NewGeneration
    PROVE  HostInv'
<1>1. CASE RestartAsked
  <2>1. Told' /\ Asked' /\ Unmounted'
    BY <1>1 DEF HostInv, Told, Asked, Unmounted, RestartAsked, QuiesceBegin,
       Exported, card, ctl, apart
  <2>2. GatesShut'
    BY <1>1 DEF HostInv, GatesShut, RestartAsked, QuiesceBegin, SdIoHold,
       TokensRevoked, Free, Down, ctl, apart
  <2>3. Covered'
    BY <1>1 DEF HostInv, Covered, DecoderCovered, RestartAsked, QuiesceBegin,
       SdIoHold, TokensRevoked, Free, Down, apart, TypeOK, ThreadsOK
  <2>4. Gone'
    BY <1>1 DEF HostInv, Gone, Told, GatesShut, RestartAsked, QuiesceBegin,
       SdIoHold, TokensRevoked, Leases, Writing, Free, Down, mount, apart,
       TypeOK, ThreadsOK
  <2> QED BY <2>1, <2>2, <2>3, <2>4 DEF HostInv
<1>2. CASE RestartDrained
  <2>1. GatesShut' /\ Covered' /\ Told' /\ Asked' /\ Gone' /\ Unmounted'
    BY <1>2 DEF HostInv, GatesShut, Covered, Told, Asked, Gone, Unmounted,
       RestartDrained, DecoderCovered, Leases, Writing, Exported, threads,
       gates, card, ctl, mount, apart
  <2> QED BY <2>1 DEF HostInv
<1>3. CASE RestartRefused
  <2>1. Covered' /\ Told' /\ Asked' /\ Gone' /\ Unmounted'
    BY <1>3 DEF HostInv, Covered, Told, Asked, Gone, Unmounted,
       RestartRefused, QuiesceEnd, DecoderCovered, Leases, Writing, Exported,
       threads, card, ctl, mount, apart
  <2>2. GatesShut'
    BY <1>3 DEF HostInv, GatesShut, RestartRefused, QuiesceEnd, Free,
       CanResume, Down, Leases, MediaLocal, Exported, ctl, apart
  <2> QED BY <2>1, <2>2 DEF HostInv
<1>4. CASE Reboot
  <2>1. GatesShut' /\ Covered' /\ Told' /\ Asked' /\ Gone' /\ Unmounted'
    BY <1>4 DEF HostInv, GatesShut, Covered, Told, Asked, Gone, Unmounted,
       Reboot, DecoderCovered, Leases, Writing, Exported, threads, gates,
       card, ctl, mount, apart
  <2> QED BY <2>1 DEF HostInv
<1>5. CASE ShutdownAsked
  <2>1. Asked' /\ Unmounted'
    BY <1>5 DEF HostInv, Asked, Unmounted, ShutdownAsked, QuiesceBegin,
       Exported, card, apart
  <2>2. GatesShut'
    BY <1>5 DEF HostInv, GatesShut, ShutdownAsked, QuiesceBegin, SdIoHold,
       TokensRevoked, Free, Down, ctl, apart
  <2>3. Covered'
    BY <1>5 DEF HostInv, Covered, DecoderCovered, ShutdownAsked, QuiesceBegin,
       SdIoHold, TokensRevoked, Free, Down, apart, TypeOK, ThreadsOK
  <2>4. Told'
    BY <1>5 DEF HostInv, Told, ShutdownAsked, QuiesceBegin, SdIoHold,
       TokensRevoked, Free, Down, ctl, apart
  <2>5. Gone'
    BY <1>5 DEF HostInv, Gone, Told, GatesShut, ShutdownAsked, QuiesceBegin,
       SdIoHold, TokensRevoked, Leases, Writing, Free, Down, mount, apart,
       TypeOK, ThreadsOK
  <2> QED BY <2>1, <2>2, <2>3, <2>4, <2>5 DEF HostInv
<1>6. CASE ShutdownDrained
  <2>1. GatesShut' /\ Covered' /\ Asked' /\ Gone' /\ Unmounted'
    BY <1>6 DEF HostInv, GatesShut, Covered, Asked, Gone, Unmounted,
       ShutdownDrained, DecoderCovered, Leases, Writing, Exported, threads,
       gates, card, ctl, mount, apart
  <2>2. Told'
    BY <1>6 DEF HostInv, Told, ShutdownDrained, Drained, Free, Leases,
       Writers, Down, ctl, apart
  <2> QED BY <2>1, <2>2 DEF HostInv
<1>7. CASE ShutdownRefused
  <2>1. Covered' /\ Asked' /\ Gone' /\ Unmounted'
    BY <1>7 DEF HostInv, Covered, Asked, Gone, Unmounted, ShutdownRefused,
       QuiesceEnd, DecoderCovered, Leases, Writing, Exported, threads, card,
       mount, apart
  <2>2. GatesShut'
    BY <1>7 DEF HostInv, GatesShut, ShutdownRefused, QuiesceEnd, Free,
       CanResume, Down, Leases, MediaLocal, Exported, ctl, apart
  <2>3. Told'
    BY <1>7 DEF HostInv, Told, ShutdownRefused, QuiesceEnd, Free, CanResume,
       Down, Leases, MediaLocal, Exported, ctl, apart
  <2> QED BY <2>1, <2>2, <2>3 DEF HostInv
<1>8. CASE ShutdownTold
  <2>1. GatesShut' /\ Covered' /\ Asked' /\ Gone' /\ Unmounted'
    BY <1>8 DEF HostInv, GatesShut, Covered, Asked, Gone, Unmounted,
       ShutdownTold, DecoderCovered, Leases, Writing, Exported, threads,
       gates, card, ctl, mount, apart
  <2>2. Told'
    BY <1>8 DEF HostInv, Told, ShutdownTold, Free, Down, ctl, apart
  <2> QED BY <2>1, <2>2 DEF HostInv
<1>9. CASE ShutdownLate
  <2>1. GatesShut' /\ Covered' /\ Asked' /\ Gone' /\ Unmounted'
    BY <1>9 DEF HostInv, GatesShut, Covered, Asked, Gone, Unmounted,
       ShutdownLate, DecoderCovered, Leases, Writing, Exported, threads,
       gates, card, ctl, mount, apart
  <2>2. Told'
    BY <1>9 DEF HostInv, Told, ShutdownLate, Free, Down, ctl, apart
  <2> QED BY <2>1, <2>2 DEF HostInv
<1>10. CASE NewGeneration
  <2>1. Covered' /\ Asked' /\ Gone' /\ Unmounted'
    BY <1>10 DEF HostInv, Covered, Asked, Gone, Unmounted, NewGeneration,
       QuiesceEnd, DecoderCovered, Leases, Writing, Exported, threads, card,
       mount, apart
  <2>2. GatesShut'
    BY <1>10 DEF HostInv, GatesShut, NewGeneration, QuiesceEnd, Free,
       CanResume, Down, Leases, MediaLocal, Exported, gates, ctl, apart
  <2>3. Told'
    BY <1>10 DEF HostInv, Told, NewGeneration, QuiesceEnd, Free, CanResume,
       Down, Leases, MediaLocal, Exported, ctl, apart
  <2> QED BY <2>1, <2>2, <2>3 DEF HostInv
<1> QED BY <1>1, <1>2, <1>3, <1>4, <1>5, <1>6, <1>7, <1>8, <1>9, <1>10

\* The verdict, the death and the start of the interface keep HostInv.
LEMMA LifeStepHost ==
    ASSUME TypeOK, HostInv, VerdictGood \/ Revoke \/ UiDies \/ UiStart
    PROVE  HostInv'
<1>1. CASE VerdictGood
  <2>1. GatesShut' /\ Covered' /\ Told' /\ Asked' /\ Unmounted'
    BY <1>1 DEF HostInv, GatesShut, Covered, Told, Asked, Unmounted,
       VerdictGood, DecoderCovered, Exported, threads, card, ctl, leave, ui,
       outside
  <2>2. Gone'
    BY <1>1 DEF HostInv, Gone, Told, GatesShut, VerdictGood, Leases, Writing,
       Free, Down, threads, ui, outside
  <2> QED BY <2>1, <2>2 DEF HostInv
<1>2. CASE Revoke
  <2>1. Asked' /\ Unmounted'
    BY <1>2 DEF HostInv, Asked, Unmounted, Revoke, Exported, card, outside
  <2>2. GatesShut'
    BY <1>2 DEF HostInv, GatesShut, Revoke, SdIoHold, TokensRevoked, Free, Down
  <2>3. Covered'
    BY <1>2 DEF HostInv, Covered, DecoderCovered, Revoke, SdIoHold,
       TokensRevoked, Free, Down, TypeOK, ThreadsOK
  <2>4. Told'
    BY <1>2 DEF HostInv, Told, Revoke, SdIoHold, TokensRevoked, Free, Down,
       leave, outside
  <2>5. Gone'
    BY <1>2 DEF HostInv, Gone, Told, GatesShut, Revoke, SdIoHold,
       TokensRevoked, Leases, Writing, Free, Down, mount, outside, TypeOK,
       ThreadsOK
  <2> QED BY <2>1, <2>2, <2>3, <2>4, <2>5 DEF HostInv
<1>3. CASE UiDies
  <2>1. Asked'
    BY <1>3 DEF HostInv, Asked, UiDies
  <2>2. GatesShut'
    BY <1>3 DEF HostInv, GatesShut, UiDies, Idle, Up, Down
  <2>3. Covered'
    BY <1>3 DEF HostInv, Covered, DecoderCovered, UiDies, Idle, Up, Down,
       TypeOK, ThreadsOK
  <2>4. Told'
    BY <1>3 DEF HostInv, Told, UiDies, Idle, Up, Down
  <2>5. Gone'
    BY <1>3 DEF HostInv, Gone, Told, GatesShut, UiDies, Leases, Writing, Idle,
       Up, Down, TypeOK, ThreadsOK
  <2>6. Unmounted'
    BY <1>3 DEF HostInv, Unmounted, Asked, Gone, Covered, DecoderCovered,
       UiDies, Exported, Idle, Up, Down, TypeOK, ThreadsOK
  <2> QED BY <2>1, <2>2, <2>3, <2>4, <2>5, <2>6 DEF HostInv
<1>4. CASE UiStart
  <2>1. Covered' /\ Unmounted'
    BY <1>4 DEF HostInv, Covered, Unmounted, UiStart, DecoderCovered,
       Exported, threads, card
  <2>2. GatesShut'
    BY <1>4 DEF HostInv, GatesShut, UiStart, Recovered, Exported, HostConfirmed
  <2>3. Told'
    BY <1>4 DEF HostInv, Told, UiStart, Recovered, Exported, HostConfirmed,
       leave
  <2>4. Asked'
    BY <1>4, QueueFacts DEF HostInv, Told, Asked, UiStart, Recovered,
       Exported, HostConfirmed, card, TypeOK, OutsideOK
  <2>5. Gone'
    BY <1>4 DEF HostInv, Gone, Told, GatesShut, UiStart, Leases, Writing,
       Recovered, Exported, HostConfirmed, threads, mount
  <2> QED BY <2>1, <2>2, <2>3, <2>4, <2>5 DEF HostInv
<1> QED BY <1>1, <1>2, <1>3, <1>4

\* The player and the clock keep HostInv.
LEMMA PlayerStepHost ==
    ASSUME TypeOK, HostInv, PlayerReady \/ PlayerReplaced \/ PlayerExports
       \/ PlayerReturns \/ PlayerMounts \/ CardPulled \/ PlayerPowersOff
       \/ PlayerSeesCancel \/ GetsLate
    PROVE  HostInv'
<1>1. CASE PlayerReady
  <2>1. GatesShut' /\ Covered' /\ Told' /\ Asked' /\ Gone' /\ Unmounted'
    BY <1>1 DEF HostInv, GatesShut, Covered, Told, Asked, Gone, Unmounted,
       PlayerReady, DecoderCovered, Leases, Writing, Exported, threads, gates,
       card, ctl, leave, ui, mount, rest, others
  <2> QED BY <2>1 DEF HostInv
<1>2. CASE PlayerReplaced
  <2>1. GatesShut' /\ Covered' /\ Told' /\ Gone' /\ Unmounted'
    BY <1>2 DEF HostInv, GatesShut, Covered, Told, Gone, Unmounted,
       PlayerReplaced, DecoderCovered, Leases, Writing, Exported, threads,
       gates, card, ctl, leave, ui, mount, rest
  <2>2. Asked'
    BY <1>2, QueueFacts DEF HostInv, Told, Asked, PlayerReplaced, card, rest,
       TypeOK, OutsideOK
  <2> QED BY <2>1, <2>2 DEF HostInv
<1>3. CASE PlayerExports
  <2>0. /\ queue \in Seq({0, 3}) /\ queue # <<>> /\ Head(queue) = 3
        /\ ~All(queue, 0) /\ (Stays(queue, 3) => All(queue, 3))
    BY <1>3, QueueFacts DEF TypeOK, OutsideOK, PlayerExports
  <2>1. marker \in {"E", "H", "R"}
    BY <2>0 DEF HostInv, Asked, TypeOK, OutsideOK
  <2>2. GatesShut' /\ Covered' /\ Told' /\ Gone'
    BY <1>3 DEF HostInv, GatesShut, Covered, DecoderCovered, Told, Gone,
       PlayerExports, Leases, Writing, threads, gates, ctl, leave, ui, mount,
       rest, others
  <2>3. UNCHANGED <<marker, faultFile>>
    BY <1>3 DEF PlayerExports, rest, others
  <2>4. CASE /\ gadget = "free" /\ gadget' = "arming"
             /\ mounted' = (mounted /\ Busy) /\ queue' = queue
    <3>1. Asked' BY <2>0, <2>1, <2>3, <2>4 DEF HostInv, Asked
    <3>2. Leases = {} /\ Writing = {}
      BY <2>1 DEF HostInv, Gone
    <3>3. "orphan" \notin Faults /\ mounted' => faultFile
      BY <2>4, <3>2, NoneOutside
         DEF Busy, HostInv, Covered, DecoderCovered, Leases, TypeOK, ThreadsOK
    <3> QED BY <3>1, <3>3, <2>2, <2>3 DEF HostInv, Unmounted
  <2>5. CASE /\ gadget = "arming" /\ gadget' = "host"
             /\ mounted' = mounted /\ queue' = queue
    <3>1. Asked' BY <2>0, <2>1, <2>3, <2>5 DEF HostInv, Asked
    <3>2. Unmounted' BY <2>3, <2>5 DEF HostInv, Unmounted, Exported
    <3> QED BY <3>1, <3>2, <2>2 DEF HostInv
  <2>6. CASE /\ gadget = "host" /\ gadget' = gadget
             /\ mounted' = mounted /\ queue' = Tail(queue)
    <3>1. Asked' BY <2>0, <2>1, <2>3, <2>6, QueueFacts DEF HostInv, Asked
    <3>2. Unmounted' BY <2>3, <2>6 DEF HostInv, Unmounted, Exported
    <3> QED BY <3>1, <3>2, <2>2 DEF HostInv
  <2> QED BY <1>3, <2>4, <2>5, <2>6 DEF PlayerExports, card
<1>4. CASE PlayerReturns
  <2>0. /\ queue \in Seq({0, 3}) /\ queue # <<>> /\ Head(queue) = 0
        /\ ~All(queue, 3) /\ (Stays(queue, 0) => All(queue, 0))
    BY <1>4, QueueFacts DEF TypeOK, OutsideOK, PlayerReturns
  <2>1. /\ marker # "H" /\ (marker = "E" => gadget = "free")
        /\ marker = "R" => All(queue, 0)
    BY <2>0 DEF HostInv, Asked
  <2>2. GatesShut' /\ Covered' /\ Told' /\ Gone'
    BY <1>4 DEF HostInv, GatesShut, Covered, DecoderCovered, Told, Gone,
       PlayerReturns, Leases, Writing, threads, gates, ctl, leave, ui, mount,
       rest, others
  <2>3. UNCHANGED <<marker, faultFile>>
    BY <1>4 DEF PlayerReturns, rest, others
  <2>4. CASE /\ gadget \in {"host", "arming"} /\ gadget' = "leaving"
             /\ mounted' = mounted /\ queue' = queue
    <3>1. Asked' BY <2>0, <2>1, <2>3, <2>4 DEF HostInv, Asked, TypeOK, OutsideOK
    <3>2. Unmounted' BY <2>3, <2>4 DEF HostInv, Unmounted, Exported
    <3> QED BY <3>1, <3>2, <2>2 DEF HostInv
  <2>5. CASE gadget = "leaving" /\ gadget' = "free" /\ queue' = Tail(queue)
    <3>1. Asked'
      BY <2>0, <2>1, <2>3, <2>5, QueueFacts
         DEF HostInv, Asked, TypeOK, OutsideOK
    <3>2. Unmounted' BY <2>5 DEF Unmounted, Exported
    <3> QED BY <3>1, <3>2, <2>2 DEF HostInv
  <2>6. CASE /\ gadget = "free" /\ gadget' = gadget
             /\ mounted' = mounted /\ queue' = Tail(queue)
    <3>1. Asked'
      BY <2>0, <2>1, <2>3, <2>6, QueueFacts
         DEF HostInv, Asked, TypeOK, OutsideOK
    <3>2. Unmounted' BY <2>6 DEF Unmounted, Exported
    <3> QED BY <3>1, <3>2, <2>2 DEF HostInv
  <2> QED BY <1>4, <2>4, <2>5, <2>6 DEF PlayerReturns, card
<1>5. CASE PlayerMounts
  <2>1. GatesShut' /\ Covered' /\ Told' /\ Asked' /\ Gone'
    BY <1>5 DEF HostInv, GatesShut, Covered, Told, Asked, Gone, PlayerMounts,
       DecoderCovered, Leases, Writing, threads, gates, ctl, leave, ui, mount,
       rest, others
  <2>2. Unmounted'
    BY <1>5 DEF HostInv, Unmounted, Asked, Gone, Covered, DecoderCovered,
       PlayerMounts, Exported, rest, others
  <2> QED BY <2>1, <2>2 DEF HostInv
<1>6. CASE CardPulled
  <2>1. GatesShut' /\ Covered' /\ Told' /\ Asked' /\ Gone'
    BY <1>6 DEF HostInv, GatesShut, Covered, Told, Asked, Gone, CardPulled,
       DecoderCovered, Leases, Writing, threads, gates, ctl, leave, ui, mount,
       rest, others
  <2>2. Unmounted'
    BY <1>6 DEF HostInv, Unmounted, Asked, Gone, Covered, DecoderCovered,
       CardPulled, Exported, rest, others
  <2> QED BY <2>1, <2>2 DEF HostInv
<1>7. CASE PlayerPowersOff
  <2>1. GatesShut' /\ Asked' /\ Unmounted'
    BY <1>7 DEF HostInv, GatesShut, Asked, Unmounted, PlayerPowersOff,
       Exported, gates, card, ctl, outside
  <2>2. Covered'
    BY <1>7 DEF HostInv, Covered, DecoderCovered, PlayerPowersOff, Down, Idle,
       TypeOK, ThreadsOK
  <2>3. Told'
    BY <1>7 DEF HostInv, Told, PlayerPowersOff, Down, Idle, ctl, outside
  <2>4. Gone'
    BY <1>7 DEF HostInv, Gone, Told, GatesShut, PlayerPowersOff, Leases,
       Writing, Down, Idle, outside, TypeOK, ThreadsOK
  <2> QED BY <2>1, <2>2, <2>3, <2>4 DEF HostInv
<1>8. CASE PlayerSeesCancel
  <2>1. GatesShut' /\ Covered' /\ Told' /\ Asked' /\ Gone' /\ Unmounted'
    BY <1>8 DEF HostInv, GatesShut, Covered, Told, Asked, Gone, Unmounted,
       PlayerSeesCancel, DecoderCovered, Leases, Writing, Exported, threads,
       gates, card, ctl, leave, ui, mount, rest
  <2> QED BY <2>1 DEF HostInv
<1>9. CASE GetsLate
  <2>1. GatesShut' /\ Covered' /\ Told' /\ Asked' /\ Gone' /\ Unmounted'
    BY <1>9 DEF HostInv, GatesShut, Covered, Told, Asked, Gone, Unmounted,
       GetsLate, DecoderCovered, Leases, Writing, Exported, threads, gates,
       card, ctl, leave, ui, mount
  <2> QED BY <2>1 DEF HostInv
<1> QED BY <1>1, <1>2, <1>3, <1>4, <1>5, <1>6, <1>7, <1>8, <1>9

\* Threads of the interface: a lease is only granted, and a write only admitted,
\* in the local phase, when no export is intended.
LEMMA UiThreadsHost ==
    ASSUME TypeOK, HostInv, Up,
           NEW t \in Thread, ThreadStep(t), UNCHANGED <<ui, mount, outside>>
    PROVE  HostInv'
<1>1. UNCHANGED <<phase, todo, off, marker, queue, worker>>
  BY DEF ui, ctl, leave, mount, outside
<1>2. UNCHANGED <<writable, gadget,
   mounted>> /\ (allowed' => allowed) /\ (faultFile => faultFile')
  BY DEF ThreadStep, TakeToken, BeginRefused, Begin, End, WriteAsk, WriteAnswer,
         WriteEnd, Fork, DecoderExits, DecoderStuck, gates, card
<1>3. GatesShut' /\ Told' /\ Asked' /\ Unmounted'
  BY <1>1, <1>2 DEF HostInv, GatesShut, Told, Asked, Unmounted, Exported
<1>4. todo # "boot" /\ off # "done" /\ (worker \in {"mounting",
   "mounted"} => marker = "none")
  BY DEF Up, Down, HostInv, Gone
<1>5. ASSUME allowed \/ writable PROVE marker \notin {"E", "H", "R"}
  BY <1>4, <1>5 DEF HostInv, GatesShut, Told
<1>6. marker \in {"E", "H", "R"} => Leases' = {} /\ Writing' = {}
  <2>1. CASE TakeToken(t)
    BY <2>1 DEF HostInv, Gone, Leases, Writing, TypeOK, ThreadsOK, TakeToken,
       Idle
  <2>2. CASE BeginRefused(t)
    BY <2>2 DEF HostInv, Gone, Leases, Writing, TypeOK, ThreadsOK, BeginRefused
  <2>3. CASE Begin(t)
    BY <2>3, <1>5 DEF HostInv, Gone, Leases, Writing, TypeOK, ThreadsOK, Begin
  <2>4. CASE End(t)
    BY <2>4 DEF HostInv, Gone, Leases, Writing, TypeOK, ThreadsOK, End, Idle
  <2>5. CASE WriteAsk(t)
    BY <2>5 DEF HostInv, Gone, Leases, Writing, TypeOK, ThreadsOK, WriteAsk
  <2>6. CASE WriteAnswer(t)
    BY <2>6, <1>5 DEF HostInv, Gone, Leases, Writing, TypeOK, ThreadsOK,
       WriteAnswer
  <2>7. CASE WriteEnd(t)
    BY <2>7 DEF HostInv, Gone, Leases, Writing, TypeOK, ThreadsOK, WriteEnd
  <2>8. CASE Fork(t)
    BY <2>8 DEF HostInv, Gone, Leases, Writing, TypeOK, ThreadsOK, Fork
  <2>9. CASE DecoderExits(t)
    BY <2>9 DEF HostInv, Gone, Leases, Writing, TypeOK, ThreadsOK, DecoderExits
  <2>10. CASE DecoderStuck(t)
    BY <2>10 DEF HostInv, Gone, Leases, Writing, TypeOK, ThreadsOK, DecoderStuck
  <2> QED BY <2>1, <2>2, <2>3, <2>4, <2>5, <2>6, <2>7, <2>8, <2>9,
     <2>10 DEF ThreadStep
<1>7. Covered'
  <2>1. CASE TakeToken(t)
    BY <2>1, NoneOutside DEF HostInv, Covered, DecoderCovered, TypeOK,
       ThreadsOK, TakeToken, Idle
  <2>2. CASE BeginRefused(t)
    BY <2>2, NoneOutside DEF HostInv, Covered, DecoderCovered, TypeOK,
       ThreadsOK, BeginRefused
  <2>3. CASE Begin(t)
    BY <2>3, NoneOutside DEF HostInv, Covered, DecoderCovered, TypeOK,
       ThreadsOK, Begin
  <2>4. CASE End(t)
    BY <2>4, NoneOutside DEF HostInv, Covered, DecoderCovered, TypeOK,
       ThreadsOK, End, Idle
  <2>5. CASE WriteAsk(t)
    BY <2>5, NoneOutside DEF HostInv, Covered, DecoderCovered, TypeOK,
       ThreadsOK, WriteAsk
  <2>6. CASE WriteAnswer(t)
    BY <2>6, NoneOutside DEF HostInv, Covered, DecoderCovered, TypeOK,
       ThreadsOK, WriteAnswer
  <2>7. CASE WriteEnd(t)
    BY <2>7, NoneOutside DEF HostInv, Covered, DecoderCovered, TypeOK,
       ThreadsOK, WriteEnd
  <2>8. CASE Fork(t)
    BY <2>8, NoneOutside DEF HostInv, Covered, DecoderCovered, TypeOK,
       ThreadsOK, Fork
  <2>9. CASE DecoderExits(t)
    BY <2>9, NoneOutside DEF HostInv, Covered, DecoderCovered, TypeOK,
       ThreadsOK, DecoderExits
  <2>10. CASE DecoderStuck(t)
    BY <2>10, NoneOutside DEF HostInv, Covered, DecoderCovered, TypeOK,
       ThreadsOK, DecoderStuck
  <2> QED BY <2>1, <2>2, <2>3, <2>4, <2>5, <2>6, <2>7, <2>8, <2>9,
     <2>10 DEF ThreadStep
<1>8. Gone' BY <1>1, <1>4, <1>6 DEF Gone
<1> QED BY <1>3, <1>7, <1>8 DEF HostInv

\* A decoder that exits on its own, or nothing at all, keeps HostInv.
LEMMA StrayStepHost ==
    ASSUME HostInv, StrayStep \/ UNCHANGED vars
    PROVE  HostInv'
<1>1. UNCHANGED <<phase, allowed, writable, todo, off, marker, queue, gadget,
   mounted, faultFile, thr, dec, worker>> /\ (stray' => stray)
  BY DEF StrayStep, StrayExits, vars, threads, gates, card, ui, ctl, leave,
     mount, outside, stock
<1>2. GatesShut' /\ Covered' /\ Told'
  BY <1>1 DEF HostInv, GatesShut, Covered, DecoderCovered, Told
<1>3. Asked' BY <1>1 DEF HostInv, Asked
<1>4. Gone' BY <1>1 DEF HostInv, Gone, Leases, Writing
<1>5. Unmounted' BY <1>1 DEF HostInv, Unmounted, Exported
<1> QED BY <1>2, <1>3, <1>4, <1>5 DEF HostInv

\* The initial states have HostInv.
LEMMA InitHost == Init => HostInv
<1> SUFFICES ASSUME Init PROVE HostInv OBVIOUS
<1>1. GatesShut /\ Told BY DEF Init, GatesShut, Told
<1>2. Covered BY DEF Init, Covered, DecoderCovered
<1>3. Asked BY QueueFacts DEF Init, Asked
<1>4. Gone BY DEF Init, Gone
<1>5. Unmounted BY DEF Init, Unmounted, Exported
<1> QED BY <1>1, <1>2, <1>3, <1>4, <1>5 DEF HostInv

\* Every step keeps HostInv.
LEMMA NextHost ==
    ASSUME TypeOK, HostInv, [Next]_vars
    PROVE  HostInv'
<1>1. CASE ControlStep BY <1>1, ControlStepHost DEF ControlStep
<1>2. CASE WorkerStep BY <1>2, WorkerStepHost DEF WorkerStep
<1>3. CASE LeaveStep BY <1>3, LeaveStepHost DEF LeaveStep
<1>4. CASE VerdictGood \/ Revoke \/ UiDies \/ UiStart BY <1>4, LifeStepHost
<1>5. CASE PlayerStep BY <1>5, PlayerStepHost DEF PlayerStep
<1>6. CASE UiThreads BY <1>6, UiThreadsHost DEF UiThreads
<1>7. CASE StrayStep \/ UNCHANGED vars BY <1>7, StrayStepHost
<1> QED BY <1>1, <1>2, <1>3, <1>4, <1>5, <1>6, <1>7 DEF Next, LifeStep

\* Why the card is the host's alone: the inductive invariant of the hand-off.
LEMMA HostInvHolds == Spec => [](TypeOK /\ HostInv)
<1>1. Init => TypeOK /\ HostInv BY InitTyped, InitHost
<1>2. TypeOK /\ HostInv /\ [Next]_vars => (TypeOK /\ HostInv)'
  BY NextTyped, NextHost
<1> QED BY <1>1, <1>2, PTL DEF Spec

\* What the inductive invariant says of the two properties.
LEMMA HostInvShows ==
    ASSUME TypeOK, HostInv
    PROVE  /\ IntentRecorded
           /\ "orphan" \notin Faults => HostAlone
<1>1. ASSUME "orphan" \notin Faults, Exported
      PROVE  /\ Leases = {} /\ Writing = {} /\ dec = None
             /\ mounted => faultFile
  <2>1. marker \in {"E", "H", "R"}
    BY <1>1 DEF HostInv, Asked, Exported, TypeOK, OutsideOK
  <2>2. Leases = {} /\ Writing = {} BY <2>1 DEF HostInv, Gone
  <2>3. dec = None
    BY <1>1, <2>2 DEF HostInv, Covered, DecoderCovered, Leases, TypeOK,
       ThreadsOK
  <2> QED BY <1>1, <2>2, <2>3 DEF HostInv, Unmounted
<1>2. marker \in {"none", "D"} =>
         gadget = "free" /\ \A i \in DOMAIN queue : queue[i] = 0
  BY DEF HostInv, Asked, All
<1>3. IntentRecorded
  BY <1>2 DEF IntentRecorded, Exported, TypeOK, OutsideOK
<1> QED BY <1>1, <1>3 DEF HostAlone

\* The gates are shut in every phase but local, whatever handler, restart,
\* shutdown, crash or worker step comes in between (storage_tick,
\* ui_sd_quiesce_end, storage_init).
THEOREM GatesShutHolds == Spec => []GatesShut
<1>1. TypeOK /\ HostInv => GatesShut BY DEF HostInv
<1> QED BY <1>1, HostInvHolds, PTL

\* No request to export the card is under way, and no export in effect, without
\* a marker that tells a restarted interface so (sd_intent_write before
\* source_send).
THEOREM IntentRecordedHolds == Spec => []IntentRecorded
<1>1. TypeOK /\ HostInv => IntentRecorded BY HostInvShows
<1> QED BY <1>1, HostInvHolds, PTL

\* If no decoder outlives a crashed interface, every decoder that reads the card
\* is covered by a lease or by the recorded fault (art.c, sd_io_fault).
THEOREM DecoderCoveredHolds ==
    Spec /\ "orphan" \notin Faults => []DecoderCovered
<1>1. "orphan" \notin Faults /\ TypeOK /\ HostInv => DecoderCovered
  BY DEF HostInv, Covered
<1>2. CASE "orphan" \notin Faults BY <1>1, <1>2, HostInvHolds, PTL
<1> QED BY <1>2

\* If no decoder outlives a crashed interface, no thread of the interface has
\* the card in use, and nothing of ours is mounted, while the host has it or is
\* about to get it, for any number of threads and any crash.
THEOREM HostAloneHolds ==
    Spec /\ "orphan" \notin Faults => []HostAlone
<1>1. "orphan" \notin Faults /\ TypeOK /\ HostInv => HostAlone
  BY HostInvShows
<1>2. CASE "orphan" \notin Faults BY <1>1, <1>2, HostInvHolds, PTL
<1> QED BY <1>2

-----------------------------------------------------------------------------
(* After the launch verdict is revoked, and from the flush of a restart or of a *)
(* shutdown on. *)


Leaving == rst # "no" \/ off \in {"drain", "sync", "handoff", "protected"}
Flushing ==
    rst \in {"sync", "reboot"} \/ off \in {"sync", "handoff", "protected"}

\* A quiesced card has both gates shut, and no tick is under way that could
\* open them.
Shut == quiesce => ~allowed /\ ~writable /\ todo \notin {"tick", "resume"}

Booting ==
    todo = "boot" =>
        ~quiesce /\ rst = "no" /\ off = "no" /\ verdict = "pending"

\* A request that got its lease before the revocation starts no decoder.
Barred ==
    verdict = "bad" =>
        /\ hold /\ ~writable
        /\ \A t \in Thread : thr[t].lease => thr[t].token # "live"

\* What only holds while a restart and a shutdown do not overlap.
Closing ==
    ~Overlap =>
        /\ Leaving => quiesce
        /\ off \in {"drain", "sync", "handoff", "protected"} => rst = "no"
Emptied == ~Overlap => (Flushing => Leases = {} /\ Writing = {})

LeaveInv == Shut /\ Booting /\ Barred /\ Closing /\ Emptied

-----------------------------------------------------------------------------
\* Stopping the decoders leaves no token live, and every lease where it was.
LEMMA RevokedTokens ==
    ASSUME TypeOK, thr' = TokensRevoked
    PROVE  \A t \in Thread : /\ thr'[t].lease = thr[t].lease
                             /\ thr'[t].write = thr[t].write
                             /\ thr'[t].token # "live"
<1> SUFFICES ASSUME NEW t \in Thread
             PROVE  /\ thr'[t].lease = thr[t].lease
                    /\ thr'[t].write = thr[t].write
                    /\ thr'[t].token # "live"
    OBVIOUS
<1>1. thr[t] \in [lease : BOOLEAN, write : {"no", "asked", "writing"},
                  token : {"none", "live", "dead"}]
  BY DEF TypeOK, ThreadsOK
<1>2. thr'[t] = [thr[t] EXCEPT !.token = IF @ = "live" THEN "dead" ELSE @]
  BY DEF TokensRevoked
<1> QED BY <1>1, <1>2

\* The controller's handlers keep LeaveInv.
LEMMA ControlStepLeave ==
    ASSUME TypeOK, LeaveInv, ChooseStorage \/ ChooseLocal \/ SendReturn
       \/ ChooseSame \/ Tick \/ TickLocal \/ TickDrained \/ SendExport
       \/ TickHost \/ TickBack \/ Resume \/ TickWait \/ Expire
    PROVE  LeaveInv'
<1>1. CASE ChooseStorage
  <2>1. Booting' /\ Closing' /\ Emptied'
    BY <1>1 DEF LeaveInv, Booting, Closing, Emptied, ChooseStorage, Leaving,
       Flushing, Leases, Writing, threads, leave
  <2>2. Shut'
    BY <1>1 DEF LeaveInv, Shut, Booting, ChooseStorage, SdIoHold, MayChoose,
       MediaLocal, Free, Pending, Exported, Down, leave
  <2>3. Barred'
    BY <1>1 DEF LeaveInv, Barred, Booting, ChooseStorage, SdIoHold, MayChoose,
       MediaLocal, Free, Pending, Exported, Down, threads
  <2> QED BY <2>1, <2>2, <2>3 DEF LeaveInv
<1>2. CASE ChooseLocal
  <2>1. Barred' /\ Closing' /\ Emptied'
    BY <1>2 DEF LeaveInv, Barred, Closing, Emptied, ChooseLocal, Leaving,
       Flushing, Leases, Writing, threads, gates, leave
  <2>2. Shut'
    BY <1>2 DEF LeaveInv, Shut, Booting, ChooseLocal, MayChoose, Free,
       Pending, Down, gates, leave
  <2>3. Booting'
    BY <1>2 DEF LeaveInv, Booting, ChooseLocal, MayChoose, Free, Pending,
       Down, gates, leave
  <2> QED BY <2>1, <2>2, <2>3 DEF LeaveInv
<1>3. CASE SendReturn
  <2>1. Closing' /\ Emptied'
    BY <1>3 DEF LeaveInv, Closing, Emptied, SendReturn, Unknown, Leaving,
       Flushing, Leases, Writing, threads, leave
  <2>2. Shut'
    BY <1>3 DEF LeaveInv, Shut, Booting, SendReturn, Send, Unknown, SdIoHold,
       gates, leave
  <2>3. Booting'
    BY <1>3 DEF LeaveInv, Booting, SendReturn, Send, Unknown, SdIoHold, gates,
       leave
  <2>4. Barred'
    BY <1>3 DEF LeaveInv, Barred, Booting, SendReturn, Send, Unknown,
       SdIoHold, threads, gates
  <2> QED BY <2>1, <2>2, <2>3, <2>4 DEF LeaveInv
<1>4. CASE ChooseSame
  <2>1. Shut' /\ Booting' /\ Barred' /\ Closing' /\ Emptied'
    BY <1>4 DEF LeaveInv, Shut, Booting, Barred, Closing, Emptied, ChooseSame,
       Leaving, Flushing, Leases, Writing, threads, gates, leave
  <2> QED BY <2>1 DEF LeaveInv
<1>5. CASE Tick
  <2>1. Closing' /\ Emptied'
    BY <1>5 DEF LeaveInv, Closing, Emptied, Tick, Unknown, Leaving, Flushing,
       Leases, Writing, threads, leave
  <2>2. Shut'
    BY <1>5 DEF LeaveInv, Shut, Booting, Tick, Unknown, SdIoHold, Free,
       Phases, Down, gates, leave
  <2>3. Booting'
    BY <1>5 DEF LeaveInv, Booting, Tick, Unknown, SdIoHold, Free, Phases,
       Down, gates, leave
  <2>4. Barred'
    BY <1>5 DEF LeaveInv, Barred, Booting, Tick, Unknown, SdIoHold, Free,
       Phases, Down, threads, gates
  <2> QED BY <2>1, <2>2, <2>3, <2>4 DEF LeaveInv
<1>6. CASE TickLocal
  <2>1. Barred' /\ Closing' /\ Emptied'
    BY <1>6 DEF LeaveInv, Barred, Closing, Emptied, TickLocal, Leaving,
       Flushing, Leases, Writing, threads, leave
  <2>2. Shut'
    BY <1>6 DEF LeaveInv, Shut, Booting, TickLocal, CanResume, Leases,
       MediaLocal, Exported, leave
  <2>3. Booting'
    BY <1>6 DEF LeaveInv, Booting, TickLocal, CanResume, Leases, MediaLocal,
       Exported, leave
  <2> QED BY <2>1, <2>2, <2>3 DEF LeaveInv
<1>7. CASE TickDrained
  <2>1. Closing' /\ Emptied'
    BY <1>7 DEF LeaveInv, Closing, Emptied, TickDrained, Unknown, Leaving,
       Flushing, Leases, Writing, threads, leave
  <2>2. Shut'
    BY <1>7 DEF LeaveInv, Shut, Booting, TickDrained, Unknown, SdIoHold,
       Drained, Leases, Writers, gates, leave
  <2>3. Booting'
    BY <1>7 DEF LeaveInv, Booting, TickDrained, Unknown, SdIoHold, Drained,
       Leases, Writers, gates, leave
  <2>4. Barred'
    BY <1>7 DEF LeaveInv, Barred, Booting, TickDrained, Unknown, SdIoHold,
       Drained, Leases, Writers, threads, gates
  <2> QED BY <2>1, <2>2, <2>3, <2>4 DEF LeaveInv
<1>8. CASE SendExport
  <2>1. Closing' /\ Emptied'
    BY <1>8 DEF LeaveInv, Closing, Emptied, SendExport, Unknown, Leaving,
       Flushing, Leases, Writing, threads, leave
  <2>2. Shut'
    BY <1>8 DEF LeaveInv, Shut, Booting, SendExport, Send, Unknown, SdIoHold,
       gates, leave
  <2>3. Booting'
    BY <1>8 DEF LeaveInv, Booting, SendExport, Send, Unknown, SdIoHold, gates,
       leave
  <2>4. Barred'
    BY <1>8 DEF LeaveInv, Barred, Booting, SendExport, Send, Unknown,
       SdIoHold, threads, gates
  <2> QED BY <2>1, <2>2, <2>3, <2>4 DEF LeaveInv
<1>9. CASE TickHost
  <2>1. Closing' /\ Emptied'
    BY <1>9 DEF LeaveInv, Closing, Emptied, TickHost, Unknown, Leaving,
       Flushing, Leases, Writing, threads, leave
  <2>2. Shut'
    BY <1>9 DEF LeaveInv, Shut, Booting, TickHost, Unknown, SdIoHold,
       HostConfirmed, gates, leave
  <2>3. Booting'
    BY <1>9 DEF LeaveInv, Booting, TickHost, Unknown, SdIoHold, HostConfirmed,
       gates, leave
  <2>4. Barred'
    BY <1>9 DEF LeaveInv, Barred, Booting, TickHost, Unknown, SdIoHold,
       HostConfirmed, threads, gates
  <2> QED BY <2>1, <2>2, <2>3, <2>4 DEF LeaveInv
<1>10. CASE TickBack
  <2>1. Closing' /\ Emptied'
    BY <1>10 DEF LeaveInv, Closing, Emptied, TickBack, Unknown, Leaving,
       Flushing, Leases, Writing, threads, leave
  <2>2. Shut'
    BY <1>10 DEF LeaveInv, Shut, Booting, TickBack, Unknown, SdIoHold,
       MediaLocal, Exported, gates, leave
  <2>3. Booting'
    BY <1>10 DEF LeaveInv, Booting, TickBack, Unknown, SdIoHold, MediaLocal,
       Exported, gates, leave
  <2>4. Barred'
    BY <1>10 DEF LeaveInv, Barred, Booting, TickBack, Unknown, SdIoHold,
       MediaLocal, Exported, threads, gates
  <2> QED BY <2>1, <2>2, <2>3, <2>4 DEF LeaveInv
<1>11. CASE Resume
  <2>1. Closing' /\ Emptied'
    BY <1>11 DEF LeaveInv, Closing, Emptied, Resume, Unknown, Leaving,
       Flushing, Leases, Writing, threads, leave
  <2>2. Shut'
    BY <1>11 DEF LeaveInv, Shut, Booting, Resume, Unknown, SdIoHold,
       CanResume, Leases, MediaLocal, Exported, leave
  <2>3. Booting'
    BY <1>11 DEF LeaveInv, Booting, Resume, Unknown, SdIoHold, CanResume,
       Leases, MediaLocal, Exported, leave
  <2>4. Barred'
    BY <1>11 DEF LeaveInv, Barred, Booting, Resume, Unknown, SdIoHold,
       CanResume, Leases, MediaLocal, Exported, threads
  <2> QED BY <2>1, <2>2, <2>3, <2>4 DEF LeaveInv
<1>12. CASE TickWait
  <2>1. Closing' /\ Emptied'
    BY <1>12 DEF LeaveInv, Closing, Emptied, TickWait, Unknown, Leaving,
       Flushing, Leases, Writing, threads, leave
  <2>2. Shut'
    BY <1>12 DEF LeaveInv, Shut, Booting, TickWait, Send, Unknown, SdIoHold,
       Drained, HostConfirmed, MediaLocal, Leases, Writers, Exported, gates,
       leave
  <2>3. Booting'
    BY <1>12 DEF LeaveInv, Booting, TickWait, Send, Unknown, SdIoHold,
       Drained, HostConfirmed, MediaLocal, Leases, Writers, Exported, gates,
       leave
  <2>4. Barred'
    BY <1>12 DEF LeaveInv, Barred, Booting, TickWait, Send, Unknown, SdIoHold,
       Drained, HostConfirmed, MediaLocal, Leases, Writers, Exported, threads,
       gates
  <2> QED BY <2>1, <2>2, <2>3, <2>4 DEF LeaveInv
<1>13. CASE Expire
  <2>1. Shut' /\ Booting' /\ Barred' /\ Closing' /\ Emptied'
    BY <1>13 DEF LeaveInv, Shut, Booting, Barred, Closing, Emptied, Expire,
       Leaving, Flushing, Leases, Writing, threads, gates, leave
  <2> QED BY <2>1 DEF LeaveInv
<1> QED BY <1>1, <1>2, <1>3, <1>4, <1>5, <1>6, <1>7, <1>8, <1>9, <1>10, <1>11,
   <1>12, <1>13

\* The cold-boot mount keeps LeaveInv.
LEMMA WorkerStepLeave ==
    ASSUME TypeOK, LeaveInv, WorkerSeesMount \/ WorkerLocks \/ WorkerMounts
       \/ WorkerLooksAgain \/ WorkerNudges \/ WorkerGivesUp
    PROVE  LeaveInv'
<1>1. CASE WorkerSeesMount
  <2>1. Shut' /\ Booting' /\ Barred' /\ Closing' /\ Emptied'
    BY <1>1 DEF LeaveInv, Shut, Booting, Barred, Closing, Emptied,
       WorkerSeesMount, Leaving, Flushing, Leases, Writing, threads, gates,
       leave, ui
  <2> QED BY <2>1 DEF LeaveInv
<1>2. CASE WorkerLocks
  <2>1. Shut' /\ Booting' /\ Barred' /\ Closing' /\ Emptied'
    BY <1>2 DEF LeaveInv, Shut, Booting, Barred, Closing, Emptied,
       WorkerLocks, Leaving, Flushing, Leases, Writing, threads, gates, leave,
       ui
  <2> QED BY <2>1 DEF LeaveInv
<1>3. CASE WorkerMounts
  <2>1. Shut' /\ Booting' /\ Barred' /\ Closing' /\ Emptied'
    BY <1>3 DEF LeaveInv, Shut, Booting, Barred, Closing, Emptied,
       WorkerMounts, Leaving, Flushing, Leases, Writing, threads, gates,
       leave, ui
  <2> QED BY <2>1 DEF LeaveInv
<1>4. CASE WorkerLooksAgain
  <2>1. Shut' /\ Booting' /\ Barred' /\ Closing' /\ Emptied'
    BY <1>4 DEF LeaveInv, Shut, Booting, Barred, Closing, Emptied,
       WorkerLooksAgain, Leaving, Flushing, Leases, Writing, threads, gates,
       leave, ui
  <2> QED BY <2>1 DEF LeaveInv
<1>5. CASE WorkerNudges
  <2>1. Shut' /\ Booting' /\ Barred' /\ Closing' /\ Emptied'
    BY <1>5 DEF LeaveInv, Shut, Booting, Barred, Closing, Emptied,
       WorkerNudges, Leaving, Flushing, Leases, Writing, threads, gates,
       leave, ui
  <2> QED BY <2>1 DEF LeaveInv
<1>6. CASE WorkerGivesUp
  <2>1. Shut' /\ Booting' /\ Barred' /\ Closing' /\ Emptied'
    BY <1>6 DEF LeaveInv, Shut, Booting, Barred, Closing, Emptied,
       WorkerGivesUp, Leaving, Flushing, Leases, Writing, threads, gates,
       leave, ui
  <2> QED BY <2>1 DEF LeaveInv
<1> QED BY <1>1, <1>2, <1>3, <1>4, <1>5, <1>6

\* Restart and shutdown keep LeaveInv.
LEMMA LeaveStepLeave ==
    ASSUME TypeOK, LeaveInv, RestartAsked \/ RestartDrained
       \/ RestartRefused \/ Reboot \/ ShutdownAsked \/ ShutdownDrained
       \/ ShutdownRefused \/ ShutdownTold \/ ShutdownLate \/ NewGeneration
    PROVE  LeaveInv'
<1>1. CASE RestartAsked
  <2>1. Shut'
    BY <1>1 DEF LeaveInv, Shut, Booting, RestartAsked, QuiesceBegin, SdIoHold,
       TokensRevoked, Free, Down, apart
  <2>2. Booting'
    BY <1>1 DEF LeaveInv, Booting, RestartAsked, QuiesceBegin, SdIoHold,
       TokensRevoked, Free, Down, apart
  <2>3. Barred'
    <3>1. thr' = TokensRevoked /\ verdict' = verdict /\ hold' = hold /\ ~writable'
      BY <1>1 DEF RestartAsked, QuiesceBegin
    <3> QED BY <3>1, RevokedTokens DEF LeaveInv, Barred
  <2>4. Closing'
    BY <1>1 DEF LeaveInv, Closing, Booting, RestartAsked, QuiesceBegin,
       SdIoHold, TokensRevoked, Leaving, Free, Down
  <2>5. Emptied'
    BY <1>1 DEF LeaveInv, Emptied, Closing, Shut, RestartAsked, QuiesceBegin,
       SdIoHold, TokensRevoked, Flushing, Leaving, Leases, Writing, Free, Down
  <2> QED BY <2>1, <2>2, <2>3, <2>4, <2>5 DEF LeaveInv
<1>2. CASE RestartDrained
  <2>1. Shut' /\ Barred'
    BY <1>2 DEF LeaveInv, Shut, Barred, RestartDrained, threads, gates, apart
  <2>2. Booting'
    BY <1>2 DEF LeaveInv, Booting, RestartDrained, Drained, Free, Leases,
       Writers, Down, gates, apart
  <2>3. Closing'
    BY <1>2 DEF LeaveInv, Closing, Booting, RestartDrained, Leaving, Drained,
       Free, Leases, Writers, Down
  <2>4. Emptied'
    BY <1>2 DEF LeaveInv, Emptied, Closing, Shut, RestartDrained, Flushing,
       Leaving, Leases, Writing, Drained, Free, Writers, Down, threads
  <2> QED BY <2>1, <2>2, <2>3, <2>4 DEF LeaveInv
<1>3. CASE RestartRefused
  <2>1. Shut'
    BY <1>3 DEF LeaveInv, Shut, Booting, RestartRefused, QuiesceEnd, Free,
       CanResume, Down, Leases, MediaLocal, Exported, apart
  <2>2. Booting'
    BY <1>3 DEF LeaveInv, Booting, RestartRefused, QuiesceEnd, Free,
       CanResume, Down, Leases, MediaLocal, Exported, apart
  <2>3. Barred'
    BY <1>3 DEF LeaveInv, Barred, Booting, RestartRefused, QuiesceEnd, Free,
       CanResume, Down, Leases, MediaLocal, Exported, threads
  <2>4. Closing'
    BY <1>3 DEF LeaveInv, Closing, Booting, RestartRefused, QuiesceEnd,
       Leaving, Free, CanResume, Down, Leases, MediaLocal, Exported
  <2>5. Emptied'
    BY <1>3 DEF LeaveInv, Emptied, Closing, Shut, RestartRefused, QuiesceEnd,
       Flushing, Leaving, Leases, Writing, Free, CanResume, Down, MediaLocal,
       Exported, threads
  <2> QED BY <2>1, <2>2, <2>3, <2>4, <2>5 DEF LeaveInv
<1>4. CASE Reboot
  <2>1. Shut' /\ Barred'
    BY <1>4 DEF LeaveInv, Shut, Barred, Reboot, threads, gates, apart
  <2>2. Booting'
    BY <1>4 DEF LeaveInv, Booting, Reboot, Free, Down, gates, apart
  <2>3. Closing'
    BY <1>4 DEF LeaveInv, Closing, Booting, Reboot, Leaving, Free, Down
  <2>4. Emptied'
    BY <1>4 DEF LeaveInv, Emptied, Closing, Shut, Reboot, Flushing, Leaving,
       Leases, Writing, Free, Down, threads
  <2> QED BY <2>1, <2>2, <2>3, <2>4 DEF LeaveInv
<1>5. CASE ShutdownAsked
  <2>1. Shut'
    BY <1>5 DEF LeaveInv, Shut, Booting, ShutdownAsked, QuiesceBegin,
       SdIoHold, TokensRevoked, Free, Down, apart
  <2>2. Booting'
    BY <1>5 DEF LeaveInv, Booting, ShutdownAsked, QuiesceBegin, SdIoHold,
       TokensRevoked, Free, Down, apart
  <2>3. Barred'
    <3>1. thr' = TokensRevoked /\ verdict' = verdict /\ hold' = hold /\ ~writable'
      BY <1>5 DEF ShutdownAsked, QuiesceBegin
    <3> QED BY <3>1, RevokedTokens DEF LeaveInv, Barred
  <2>4. Closing'
    BY <1>5 DEF LeaveInv, Closing, Booting, ShutdownAsked, QuiesceBegin,
       SdIoHold, TokensRevoked, Leaving, Free, Down
  <2>5. Emptied'
    BY <1>5 DEF LeaveInv, Emptied, Closing, Shut, ShutdownAsked, QuiesceBegin,
       SdIoHold, TokensRevoked, Flushing, Leaving, Leases, Writing, Free, Down
  <2> QED BY <2>1, <2>2, <2>3, <2>4, <2>5 DEF LeaveInv
<1>6. CASE ShutdownDrained
  <2>1. Shut' /\ Barred'
    BY <1>6 DEF LeaveInv, Shut, Barred, ShutdownDrained, threads, gates, apart
  <2>2. Booting'
    BY <1>6 DEF LeaveInv, Booting, ShutdownDrained, Drained, Free, Leases,
       Writers, Down, gates, apart
  <2>3. Closing'
    BY <1>6 DEF LeaveInv, Closing, Booting, ShutdownDrained, Leaving, Drained,
       Free, Leases, Writers, Down
  <2>4. Emptied'
    BY <1>6 DEF LeaveInv, Emptied, Closing, Shut, ShutdownDrained, Flushing,
       Leaving, Leases, Writing, Drained, Free, Writers, Down, threads
  <2> QED BY <2>1, <2>2, <2>3, <2>4 DEF LeaveInv
<1>7. CASE ShutdownRefused
  <2>1. Shut'
    BY <1>7 DEF LeaveInv, Shut, Booting, ShutdownRefused, QuiesceEnd, Free,
       CanResume, Down, Leases, MediaLocal, Exported, apart
  <2>2. Booting'
    BY <1>7 DEF LeaveInv, Booting, ShutdownRefused, QuiesceEnd, Free,
       CanResume, Down, Leases, MediaLocal, Exported, apart
  <2>3. Barred'
    BY <1>7 DEF LeaveInv, Barred, Booting, ShutdownRefused, QuiesceEnd, Free,
       CanResume, Down, Leases, MediaLocal, Exported, threads
  <2>4. Closing'
    BY <1>7 DEF LeaveInv, Closing, Booting, ShutdownRefused, QuiesceEnd,
       Leaving, Free, CanResume, Down, Leases, MediaLocal, Exported
  <2>5. Emptied'
    BY <1>7 DEF LeaveInv, Emptied, Closing, Shut, ShutdownRefused, QuiesceEnd,
       Flushing, Leaving, Leases, Writing, Free, CanResume, Down, MediaLocal,
       Exported, threads
  <2> QED BY <2>1, <2>2, <2>3, <2>4, <2>5 DEF LeaveInv
<1>8. CASE ShutdownTold
  <2>1. Shut' /\ Barred'
    BY <1>8 DEF LeaveInv, Shut, Barred, ShutdownTold, threads, gates, apart
  <2>2. Booting'
    BY <1>8 DEF LeaveInv, Booting, ShutdownTold, Free, Down, gates, apart
  <2>3. Closing'
    BY <1>8 DEF LeaveInv, Closing, Booting, ShutdownTold, Leaving, Free, Down
  <2>4. Emptied'
    BY <1>8 DEF LeaveInv, Emptied, Closing, Shut, ShutdownTold, Flushing,
       Leaving, Leases, Writing, Free, Down, threads
  <2> QED BY <2>1, <2>2, <2>3, <2>4 DEF LeaveInv
<1>9. CASE ShutdownLate
  <2>1. Shut' /\ Barred'
    BY <1>9 DEF LeaveInv, Shut, Barred, ShutdownLate, threads, gates, apart
  <2>2. Booting'
    BY <1>9 DEF LeaveInv, Booting, ShutdownLate, Free, Down, gates, apart
  <2>3. Closing'
    BY <1>9 DEF LeaveInv, Closing, Booting, ShutdownLate, Leaving, Free, Down
  <2>4. Emptied'
    BY <1>9 DEF LeaveInv, Emptied, Closing, Shut, ShutdownLate, Flushing,
       Leaving, Leases, Writing, Free, Down, threads
  <2> QED BY <2>1, <2>2, <2>3, <2>4 DEF LeaveInv
<1>10. CASE NewGeneration
  <2>1. Shut'
    BY <1>10 DEF LeaveInv, Shut, Booting, NewGeneration, QuiesceEnd, Free,
       CanResume, Down, Leases, MediaLocal, Exported, gates, apart
  <2>2. Booting'
    BY <1>10 DEF LeaveInv, Booting, NewGeneration, QuiesceEnd, Free,
       CanResume, Down, Leases, MediaLocal, Exported, gates, apart
  <2>3. Barred'
    BY <1>10 DEF LeaveInv, Barred, Booting, NewGeneration, QuiesceEnd, Free,
       CanResume, Down, Leases, MediaLocal, Exported, threads, gates
  <2>4. Closing'
    BY <1>10 DEF LeaveInv, Closing, Booting, NewGeneration, QuiesceEnd,
       Leaving, Free, CanResume, Down, Leases, MediaLocal, Exported
  <2>5. Emptied'
    BY <1>10 DEF LeaveInv, Emptied, Closing, Shut, NewGeneration, QuiesceEnd,
       Flushing, Leaving, Leases, Writing, Free, CanResume, Down, MediaLocal,
       Exported, threads
  <2> QED BY <2>1, <2>2, <2>3, <2>4, <2>5 DEF LeaveInv
<1> QED BY <1>1, <1>2, <1>3, <1>4, <1>5, <1>6, <1>7, <1>8, <1>9, <1>10

\* The verdict, the death and the start of the interface keep LeaveInv.
LEMMA LifeStepLeave ==
    ASSUME TypeOK, LeaveInv, VerdictGood \/ Revoke \/ UiDies \/ UiStart
    PROVE  LeaveInv'
<1>1. CASE VerdictGood
  <2>1. Shut' /\ Closing' /\ Emptied'
    BY <1>1 DEF LeaveInv, Shut, Closing, Emptied, VerdictGood, Leaving,
       Flushing, Leases, Writing, threads, leave, ui
  <2>2. Booting'
    BY <1>1 DEF LeaveInv, Booting, VerdictGood, Free, Down, leave, ui
  <2>3. Barred'
    BY <1>1 DEF LeaveInv, Barred, Booting, VerdictGood, Free, Down, threads
  <2> QED BY <2>1, <2>2, <2>3 DEF LeaveInv
<1>2. CASE Revoke
  <2>1. Closing'
    BY <1>2 DEF LeaveInv, Closing, Revoke, Leaving, leave
  <2>2. Shut'
    BY <1>2 DEF LeaveInv, Shut, Booting, Revoke, SdIoHold, TokensRevoked,
       Free, Down, leave
  <2>3. Booting'
    BY <1>2 DEF LeaveInv, Booting, Revoke, SdIoHold, TokensRevoked, Free,
       Down, leave
  <2>4. Barred'
    <3>1. thr' = TokensRevoked /\ hold' = TRUE /\ writable' = FALSE
      BY <1>2 DEF Revoke
    <3> QED BY <3>1, RevokedTokens DEF Barred
  <2>5. Emptied'
    BY <1>2 DEF LeaveInv, Emptied, Closing, Shut, Revoke, SdIoHold,
       TokensRevoked, Flushing, Leaving, Leases, Writing, Free, Down, leave
  <2> QED BY <2>1, <2>2, <2>3, <2>4, <2>5 DEF LeaveInv
<1>3. CASE UiDies
  <2>1. Shut'
    BY <1>3 DEF LeaveInv, Shut, Booting, UiDies, Idle, Up, Down
  <2>2. Booting'
    BY <1>3 DEF LeaveInv, Booting, UiDies, Idle, Up, Down
  <2>3. Barred'
    BY <1>3 DEF LeaveInv, Barred, Booting, UiDies, Idle, Up, Down
  <2>4. Closing'
    BY <1>3 DEF LeaveInv, Closing, Booting, UiDies, Leaving, Idle, Up, Down
  <2>5. Emptied'
    BY <1>3 DEF LeaveInv, Emptied, Closing, Shut, UiDies, Flushing, Leaving,
       Leases, Writing, Idle, Up, Down
  <2> QED BY <2>1, <2>2, <2>3, <2>4, <2>5 DEF LeaveInv
<1>4. CASE UiStart
  <2>1. Closing' /\ Emptied'
    BY <1>4 DEF LeaveInv, Closing, Emptied, UiStart, Leaving, Flushing,
       Leases, Writing, threads, leave
  <2>2. Shut'
    BY <1>4 DEF LeaveInv, Shut, Booting, UiStart, Recovered, Exported,
       HostConfirmed, leave
  <2>3. Booting'
    BY <1>4 DEF LeaveInv, Booting, UiStart, Recovered, Exported,
       HostConfirmed, leave
  <2>4. Barred'
    BY <1>4 DEF LeaveInv, Barred, Booting, UiStart, Recovered, Exported,
       HostConfirmed, threads
  <2> QED BY <2>1, <2>2, <2>3, <2>4 DEF LeaveInv
<1> QED BY <1>1, <1>2, <1>3, <1>4

\* The player and the clock keep LeaveInv.
LEMMA PlayerStepLeave ==
    ASSUME TypeOK, LeaveInv, PlayerReady \/ PlayerReplaced \/ PlayerExports
       \/ PlayerReturns \/ PlayerMounts \/ CardPulled \/ PlayerPowersOff
       \/ PlayerSeesCancel \/ GetsLate
    PROVE  LeaveInv'
<1>1. CASE PlayerReady
  <2>1. Shut' /\ Booting' /\ Barred' /\ Closing' /\ Emptied'
    BY <1>1 DEF LeaveInv, Shut, Booting, Barred, Closing, Emptied,
       PlayerReady, Leaving, Flushing, Leases, Writing, threads, gates, leave,
       ui, rest, others
  <2> QED BY <2>1 DEF LeaveInv
<1>2. CASE PlayerReplaced
  <2>1. Shut' /\ Booting' /\ Barred' /\ Closing' /\ Emptied'
    BY <1>2 DEF LeaveInv, Shut, Booting, Barred, Closing, Emptied,
       PlayerReplaced, Leaving, Flushing, Leases, Writing, threads, gates,
       leave, ui, rest
  <2> QED BY <2>1 DEF LeaveInv
<1>3. CASE PlayerExports
  <2>1. Shut' /\ Booting' /\ Barred' /\ Closing' /\ Emptied'
    BY <1>3 DEF LeaveInv, Shut, Booting, Barred, Closing, Emptied,
       PlayerExports, Leaving, Flushing, Leases, Writing, threads, gates,
       leave, ui, rest, others
  <2> QED BY <2>1 DEF LeaveInv
<1>4. CASE PlayerReturns
  <2>1. Shut' /\ Booting' /\ Barred' /\ Closing' /\ Emptied'
    BY <1>4 DEF LeaveInv, Shut, Booting, Barred, Closing, Emptied,
       PlayerReturns, Leaving, Flushing, Leases, Writing, threads, gates,
       leave, ui, rest, others
  <2> QED BY <2>1 DEF LeaveInv
<1>5. CASE PlayerMounts
  <2>1. Shut' /\ Booting' /\ Barred' /\ Closing' /\ Emptied'
    BY <1>5 DEF LeaveInv, Shut, Booting, Barred, Closing, Emptied,
       PlayerMounts, Leaving, Flushing, Leases, Writing, threads, gates,
       leave, ui, rest, others
  <2> QED BY <2>1 DEF LeaveInv
<1>6. CASE CardPulled
  <2>1. Shut' /\ Booting' /\ Barred' /\ Closing' /\ Emptied'
    BY <1>6 DEF LeaveInv, Shut, Booting, Barred, Closing, Emptied, CardPulled,
       Leaving, Flushing, Leases, Writing, threads, gates, leave, ui, rest,
       others
  <2> QED BY <2>1 DEF LeaveInv
<1>7. CASE PlayerPowersOff
  <2>1. Shut'
    BY <1>7 DEF LeaveInv, Shut, Booting, PlayerPowersOff, Down, Idle, gates
  <2>2. Booting'
    BY <1>7 DEF LeaveInv, Booting, PlayerPowersOff, Down, Idle, gates
  <2>3. Barred'
    BY <1>7 DEF LeaveInv, Barred, Booting, PlayerPowersOff, Down, Idle, gates
  <2>4. Closing'
    BY <1>7 DEF LeaveInv, Closing, Booting, PlayerPowersOff, Leaving, Down, Idle
  <2>5. Emptied'
    BY <1>7 DEF LeaveInv, Emptied, Closing, Shut, PlayerPowersOff, Flushing,
       Leaving, Leases, Writing, Down, Idle
  <2> QED BY <2>1, <2>2, <2>3, <2>4, <2>5 DEF LeaveInv
<1>8. CASE PlayerSeesCancel
  <2>1. Shut' /\ Booting' /\ Barred' /\ Closing' /\ Emptied'
    BY <1>8 DEF LeaveInv, Shut, Booting, Barred, Closing, Emptied,
       PlayerSeesCancel, Leaving, Flushing, Leases, Writing, threads, gates,
       leave, ui, rest
  <2> QED BY <2>1 DEF LeaveInv
<1>9. CASE GetsLate
  <2>1. Shut' /\ Booting' /\ Barred' /\ Closing' /\ Emptied'
    BY <1>9 DEF LeaveInv, Shut, Booting, Barred, Closing, Emptied, GetsLate,
       Leaving, Flushing, Leases, Writing, threads, gates, leave, ui
  <2> QED BY <2>1 DEF LeaveInv
<1> QED BY <1>1, <1>2, <1>3, <1>4, <1>5, <1>6, <1>7, <1>8, <1>9

\* The interface's threads.
LEMMA UiThreadsLeave ==
    ASSUME TypeOK, LeaveInv, Up, NEW t \in Thread, ThreadStep(t),
           UNCHANGED <<ui, mount, outside>>
    PROVE  LeaveInv'
<1>1. UNCHANGED <<quiesce, rst, off, todo>> /\ todo # "boot"
  BY DEF ui, leave, ctl, Up
<1>2. UNCHANGED <<writable, hold, verdict>> /\ (allowed' => allowed)
  BY DEF ThreadStep, TakeToken, BeginRefused, Begin, End, WriteAsk, WriteAnswer,
         WriteEnd, Fork, DecoderExits, DecoderStuck, gates
<1>3. Shut' /\ Booting' /\ Closing'
  BY <1>1, <1>2 DEF LeaveInv, Shut, Booting, Closing, Leaving
<1>4. ~Overlap /\ Flushing => ~allowed /\ ~writable
  BY DEF LeaveInv, Closing, Shut, Leaving, Flushing
<1>5. Barred' /\ Emptied'
  <2>1. CASE TakeToken(t)
    BY <1>1, <1>2, <1>4, <2>1 DEF LeaveInv, Barred, Emptied, Flushing, Leases,
       Writing, TypeOK, ThreadsOK, TakeToken, Idle
  <2>2. CASE BeginRefused(t)
    BY <1>1, <1>2, <1>4, <2>2 DEF LeaveInv, Barred, Emptied, Flushing, Leases,
       Writing, TypeOK, ThreadsOK, BeginRefused
  <2>3. CASE Begin(t)
    BY <1>1, <1>2, <1>4, <2>3 DEF LeaveInv, Barred, Emptied, Flushing, Leases,
       Writing, TypeOK, ThreadsOK, Begin, MediaLocal
  <2>4. CASE End(t)
    BY <1>1, <1>2, <1>4, <2>4 DEF LeaveInv, Barred, Emptied, Flushing, Leases,
       Writing, TypeOK, ThreadsOK, End, Idle
  <2>5. CASE WriteAsk(t)
    BY <1>1, <1>2, <1>4, <2>5 DEF LeaveInv, Barred, Emptied, Flushing, Leases,
       Writing, TypeOK, ThreadsOK, WriteAsk
  <2>6. CASE WriteAnswer(t)
    BY <1>1, <1>2, <1>4, <2>6 DEF LeaveInv, Barred, Emptied, Flushing, Leases,
       Writing, TypeOK, ThreadsOK, WriteAnswer
  <2>7. CASE WriteEnd(t)
    BY <1>1, <1>2, <1>4, <2>7 DEF LeaveInv, Barred, Emptied, Flushing, Leases,
       Writing, TypeOK, ThreadsOK, WriteEnd
  <2>8. CASE Fork(t)
    BY <1>1, <1>2, <1>4, <2>8 DEF LeaveInv, Barred, Emptied, Flushing, Leases,
       Writing, TypeOK, ThreadsOK, Fork
  <2>9. CASE DecoderExits(t)
    BY <1>1, <1>2, <1>4, <2>9 DEF LeaveInv, Barred, Emptied, Flushing, Leases,
       Writing, TypeOK, ThreadsOK, DecoderExits
  <2>10. CASE DecoderStuck(t)
    BY <1>1, <1>2, <1>4, <2>10 DEF LeaveInv, Barred, Emptied, Flushing,
       Leases, Writing, TypeOK, ThreadsOK, DecoderStuck
  <2> QED BY <2>1, <2>2, <2>3, <2>4, <2>5, <2>6, <2>7, <2>8, <2>9,
     <2>10 DEF ThreadStep
<1> QED BY <1>3, <1>5 DEF LeaveInv

\* A decoder that exits on its own, or nothing at all.
LEMMA StrayStepLeave ==
    ASSUME LeaveInv, StrayStep \/ UNCHANGED vars
    PROVE  LeaveInv'
<1>1. UNCHANGED <<quiesce, rst, off, todo, allowed, writable, hold, verdict,
   thr>>
  BY DEF StrayStep, StrayExits, vars, threads, gates, ui, leave
<1>2. Shut' /\ Booting' /\ Closing'
  BY <1>1 DEF LeaveInv, Shut, Booting, Closing, Leaving
<1>3. Barred' /\ Emptied'
  BY <1>1 DEF LeaveInv, Barred, Emptied, Flushing, Leases, Writing
<1> QED BY <1>2, <1>3 DEF LeaveInv

\* Every step keeps LeaveInv.
LEMMA NextLeave ==
    ASSUME TypeOK, LeaveInv, [Next]_vars
    PROVE  LeaveInv'
<1>1. CASE ControlStep BY <1>1, ControlStepLeave DEF ControlStep
<1>2. CASE WorkerStep BY <1>2, WorkerStepLeave DEF WorkerStep
<1>3. CASE LeaveStep BY <1>3, LeaveStepLeave DEF LeaveStep
<1>4. CASE VerdictGood \/ Revoke \/ UiDies \/ UiStart BY <1>4, LifeStepLeave
<1>5. CASE PlayerStep BY <1>5, PlayerStepLeave DEF PlayerStep
<1>6. CASE UiThreads BY <1>6, UiThreadsLeave DEF UiThreads
<1>7. CASE StrayStep \/ UNCHANGED vars BY <1>7, StrayStepLeave
<1> QED BY <1>1, <1>2, <1>3, <1>4, <1>5, <1>6, <1>7 DEF Next, LifeStep

\* The initial states have LeaveInv.
LEMMA InitLeave == Init => LeaveInv
<1> SUFFICES ASSUME Init PROVE LeaveInv OBVIOUS
<1>1. Shut /\ Booting /\ Barred BY DEF Init, Shut, Booting, Barred
<1>2. Closing /\ Emptied BY DEF Init, Closing, Emptied, Leaving, Flushing
<1> QED BY <1>1, <1>2 DEF LeaveInv

\* Why nothing starts on a card that must not be used any more.
LEMMA LeaveInvHolds == Spec => [](TypeOK /\ LeaveInv)
<1>1. Init => TypeOK /\ LeaveInv BY InitTyped, InitLeave
<1>2. TypeOK /\ LeaveInv /\ [Next]_vars => (TypeOK /\ LeaveInv)'
  BY NextTyped, NextLeave
<1> QED BY <1>1, <1>2, PTL DEF Spec

-----------------------------------------------------------------------------
\* Reading, writing or a decoder starts only through an open gate, or for a
\* request that has its lease and whose token is still live.
Open ==
    \/ allowed /\ verdict = "good"
    \/ writable
    \/ \E t \in Thread : thr[t].lease /\ thr[t].token = "live"

\* Only the threads of the interface admit anything.
LEMMA AdmitsOpen ==
    ASSUME TypeOK, [Next]_vars, Admits
    PROVE  Open
<1>1. CASE UiThreads
  <2>1. PICK t \in Thread : ThreadStep(t) BY <1>1 DEF UiThreads
  <2>2. CASE TakeToken(t)
    BY <2>2, NoneOutside DEF Admits, Open, TypeOK, ThreadsOK, TakeToken, Idle
  <2>3. CASE BeginRefused(t)
    BY <2>3, NoneOutside DEF Admits, Open, TypeOK, ThreadsOK, BeginRefused
  <2>4. CASE Begin(t)
    BY <2>4, NoneOutside DEF Admits, Open, TypeOK, ThreadsOK, Begin, MediaLocal
  <2>5. CASE End(t)
    BY <2>5, NoneOutside DEF Admits, Open, TypeOK, ThreadsOK, End, Idle
  <2>6. CASE WriteAsk(t)
    BY <2>6, NoneOutside DEF Admits, Open, TypeOK, ThreadsOK, WriteAsk
  <2>7. CASE WriteAnswer(t)
    BY <2>7, NoneOutside DEF Admits, Open, TypeOK, ThreadsOK, WriteAnswer
  <2>8. CASE WriteEnd(t)
    BY <2>8, NoneOutside DEF Admits, Open, TypeOK, ThreadsOK, WriteEnd
  <2>9. CASE Fork(t)
    BY <2>9, NoneOutside DEF Admits, Open, TypeOK, ThreadsOK, Fork
  <2>10. CASE DecoderExits(t)
    BY <2>10, NoneOutside DEF Admits, Open, TypeOK, ThreadsOK, DecoderExits
  <2>11. CASE DecoderStuck(t)
    BY <2>11, NoneOutside DEF Admits, Open, TypeOK, ThreadsOK, DecoderStuck
  <2> QED BY <2>1, <2>2, <2>3, <2>4, <2>5, <2>6, <2>7, <2>8, <2>9, <2>10,
     <2>11 DEF ThreadStep
<1>2. CASE UNCHANGED <<thr, dec>>
  BY <1>2 DEF Admits
<1>3. CASE thr' = TokensRevoked /\ dec' = dec
  BY <1>3 DEF Admits, TokensRevoked, TypeOK, ThreadsOK
<1>4. CASE thr' = [t \in Thread |-> Idle] /\ dec' = None
  BY <1>4 DEF Admits, Idle
<1>5. CASE ControlStep \/ WorkerStep \/ VerdictGood \/ UiStart
  <2>1. UNCHANGED threads
    BY <1>5 DEF ControlStep, ChooseStorage, ChooseLocal, SendReturn, ChooseSame,
       Tick, TickLocal, TickDrained, SendExport, TickHost, TickBack, Resume,
       TickWait, Expire, WorkerStep, WorkerSeesMount, WorkerLocks, WorkerMounts,
       WorkerLooksAgain, WorkerNudges, WorkerGivesUp, VerdictGood, UiStart
  <2> QED BY <1>2, <2>1 DEF threads
<1>6. CASE LeaveStep \/ Revoke \/ UiDies
  <2>1. UNCHANGED threads \/ (thr' = TokensRevoked /\ dec' = dec)
        \/ (thr' = [t \in Thread |-> Idle] /\ dec' = None)
    BY <1>6 DEF LeaveStep, RestartAsked, RestartDrained, RestartRefused, Reboot,
       ShutdownAsked, ShutdownDrained, ShutdownRefused, ShutdownTold,
       ShutdownLate, NewGeneration, Revoke, UiDies, QuiesceBegin, QuiesceEnd
  <2> QED BY <1>2, <1>3, <1>4, <2>1 DEF threads
<1>7. CASE PlayerStep \/ StrayStep \/ UNCHANGED vars
  <2>1. UNCHANGED threads \/ (thr' = [t \in Thread |-> Idle] /\ dec' = None)
    BY <1>7 DEF PlayerStep, PlayerReady, PlayerReplaced, PlayerExports,
       PlayerReturns, PlayerMounts, CardPulled, PlayerPowersOff,
       PlayerSeesCancel, GetsLate, StrayStep, StrayExits, rest, others, vars
  <2> QED BY <1>2, <1>4, <2>1 DEF threads
<1> QED BY <1>1, <1>5, <1>6, <1>7 DEF Next, LifeStep

\* Only restart_tick, after the flush, takes the machine down.
LEMMA RestartSteps ==
    ASSUME [Next]_vars
    PROVE  UNCHANGED rst \/ rst' # "reboot" \/ rst = "sync"
<1>1. CASE ControlStep
  BY <1>1 DEF ControlStep, ChooseStorage, ChooseLocal, SendReturn, ChooseSame,
     Tick, TickLocal, TickDrained, SendExport, TickHost, TickBack, Resume,
     TickWait, Expire, leave
<1>2. CASE WorkerStep
  BY <1>2 DEF WorkerStep, WorkerSeesMount, WorkerLocks, WorkerMounts,
     WorkerLooksAgain, WorkerNudges, WorkerGivesUp, ui, leave
<1>3. CASE LeaveStep
  BY <1>3 DEF LeaveStep, RestartAsked, RestartDrained, RestartRefused, Reboot,
     ShutdownAsked, ShutdownDrained, ShutdownRefused, ShutdownTold,
     ShutdownLate, NewGeneration
<1>4. CASE VerdictGood \/ Revoke \/ UiDies \/ UiStart
  BY <1>4 DEF VerdictGood, Revoke, UiDies, UiStart, ui, leave
<1>5. CASE PlayerStep
  BY <1>5 DEF PlayerStep, PlayerReady, PlayerReplaced, PlayerExports,
     PlayerReturns, PlayerMounts, CardPulled, PlayerPowersOff,
     PlayerSeesCancel, GetsLate, ui, leave, rest, others
<1>6. CASE UiThreads \/ StrayStep \/ UNCHANGED vars
  BY <1>6 DEF UiThreads, StrayStep, vars, ui, leave
<1> QED BY <1>1, <1>2, <1>3, <1>4, <1>5, <1>6 DEF Next, LifeStep

\* No gate is open and no token is live once the card must not be used.
LEMMA ClosedAdmitsNone ==
    ASSUME TypeOK, LeaveInv, [Next]_vars,
           verdict = "bad" \/ (~Overlap /\ Flushing)
    PROVE  ~Admits
<1>1. ~Open
  BY DEF LeaveInv, Barred, Shut, Closing, Emptied, Leaving, Flushing, Leases,
     Open
<1> QED BY <1>1, AdmitsOpen

\* After the verdict is revoked this interface starts nothing on the card any
\* more, for any number of threads (sd_features_gate_cb, art.c).
THEOREM RevokedStaysShutHolds == Spec => RevokedStaysShut
<1>1. TypeOK /\ LeaveInv /\ [Next]_vars => [verdict = "bad" => ~Admits]_vars
  BY ClosedAdmitsNone
<1> QED BY <1>1, LeaveInvHolds, PTL DEF Spec, RevokedStaysShut

\* While no shutdown overlaps it, a restart takes the machine down with the card
\* unused, and nothing has been admitted since the flush (restart_tick).
THEOREM RestartQuietHolds == Spec /\ ~Overlap => RestartQuiet
<1>1. ASSUME TypeOK, LeaveInv, [Next]_vars, ~Overlap
      PROVE  /\ rst' = "reboot" => Leases = {} /\ Writing = {}
             /\ rst = "sync" => ~Admits
  <2>1. rst = "sync" => ~Admits BY <1>1, ClosedAdmitsNone DEF Flushing
  <2>2. rst' = "reboot" => rst \in {"sync", "reboot"}
    BY <1>1, RestartSteps
  <2> QED BY <1>1, <2>1, <2>2 DEF LeaveInv, Emptied, Flushing
<1>2. CASE ~Overlap
  <2>1. TypeOK /\ LeaveInv /\ [Next]_vars =>
          [/\ rst' = "reboot" => Leases = {} /\ Writing = {}
           /\ rst = "sync" => ~Admits]_vars
    BY <1>1, <1>2
  <2> QED BY <2>1, LeaveInvHolds, PTL DEF Spec, RestartQuiet
<1> QED BY <1>2

\* While no restart overlaps it, the same of a shutdown, until the player powers
\* the machine off, however late it does (power_shutdown_tick).
THEOREM PoweroffQuietHolds == Spec /\ ~Overlap => PoweroffQuiet
<1>1. ASSUME TypeOK, LeaveInv, [Next]_vars, ~Overlap,
             off \in {"sync", "handoff", "protected"}
      PROVE  ~Admits /\ (off' = "done" => Leases = {} /\ Writing = {})
  <2>1. ~Admits BY <1>1, ClosedAdmitsNone DEF Flushing
  <2> QED BY <1>1, <2>1 DEF LeaveInv, Emptied, Flushing
<1>2. CASE ~Overlap
  <2>1. TypeOK /\ LeaveInv /\ [Next]_vars =>
          [(off \in {"sync", "handoff", "protected"}) =>
           ~Admits /\ (off' = "done" => Leases = {} /\ Writing = {})]_vars
    BY <1>1, <1>2
  <2> QED BY <2>1, LeaveInvHolds, PTL DEF Spec, PoweroffQuiet
<1> QED BY <1>2

\* While no restart overlaps it, a shutdown the player did not carry out leaves
\* both gates shut (POWER_SHUTDOWN_PROTECTED).
THEOREM ProtectedStaysShutHolds == Spec /\ ~Overlap => []ProtectedStaysShut
<1>1. ~Overlap /\ TypeOK /\ LeaveInv => ProtectedStaysShut
  BY DEF LeaveInv, Closing, Leaving, Shut, ProtectedStaysShut
<1>2. CASE ~Overlap BY <1>1, <1>2, LeaveInvHolds, PTL
<1> QED BY <1>2

-----------------------------------------------------------------------------
(* The hand-off implements CardOwner. *)

OnRecord == marker \in {"E", "H", "R"}

\* A decoder is somebody's, and it has a lease for as long as it is.
DecoderOwned == dec # None => dec \in Thread /\ thr[dec].lease

\* Decoders are forked under a lease, and no lease ends before its decoder.
LEMMA DecoderOwnedStep ==
    ASSUME TypeOK, DecoderOwned, [Next]_vars
    PROVE  DecoderOwned'
<1>1. CASE UNCHANGED threads
  BY <1>1 DEF DecoderOwned, threads
<1>2. CASE thr' = TokensRevoked /\ UNCHANGED dec
  <2>1. \A t \in Thread : thr'[t].lease = thr[t].lease
    BY <1>2, RevokedTokens
  <2> QED
    BY <1>2, <2>1 DEF DecoderOwned
<1>3. CASE dec' = None
  BY <1>3 DEF DecoderOwned
<1>4. ASSUME NEW t \in Thread, ThreadStep(t)
      PROVE  DecoderOwned'
  <2>1. CASE TakeToken(t) \/ BeginRefused(t) \/ Begin(t) \/ WriteAsk(t)
             \/ WriteAnswer(t) \/ WriteEnd(t)
    BY <2>1 DEF TakeToken, BeginRefused, Begin, WriteAsk, WriteAnswer, WriteEnd,
       DecoderOwned, TypeOK, ThreadsOK, Idle
  <2>2. CASE End(t)
    BY <2>2 DEF End, DecoderOwned, TypeOK, ThreadsOK
  <2>3. CASE Fork(t)
    BY <2>3 DEF Fork, DecoderOwned
  <2>4. CASE DecoderExits(t) \/ DecoderStuck(t)
    BY <2>4, <1>3 DEF DecoderExits, DecoderStuck
  <2> QED
    BY <1>4, <2>1, <2>2, <2>3, <2>4 DEF ThreadStep
<1>5. CASE ControlStep
  BY <1>5, <1>1 DEF ControlStep, ChooseStorage, ChooseLocal, SendReturn,
     ChooseSame, Tick, TickLocal, TickDrained, SendExport, TickHost, TickBack,
     Resume, TickWait, Expire
<1>6. CASE LifeStep
  <2>1. CASE WorkerStep \/ VerdictGood \/ UiStart
    BY <2>1, <1>1 DEF WorkerStep, WorkerSeesMount, WorkerLocks, WorkerMounts,
       WorkerLooksAgain, WorkerNudges, WorkerGivesUp, VerdictGood, UiStart
  <2>2. CASE Revoke
    BY <2>2, <1>2 DEF Revoke
  <2>3. CASE LeaveStep
    BY <2>3, <1>1, <1>2 DEF LeaveStep, RestartAsked, RestartDrained,
       RestartRefused, Reboot, ShutdownAsked, ShutdownDrained, ShutdownRefused,
       ShutdownTold, ShutdownLate, NewGeneration, QuiesceBegin, QuiesceEnd
  <2>4. CASE UiDies
    BY <2>4, <1>3 DEF UiDies
  <2> QED
    BY <1>6, <2>1, <2>2, <2>3, <2>4 DEF LifeStep
<1>7. CASE PlayerStep
  BY <1>7, <1>1, <1>3 DEF PlayerStep, PlayerReady, PlayerReplaced,
     PlayerExports, PlayerReturns, PlayerMounts, CardPulled, PlayerPowersOff,
     PlayerSeesCancel, GetsLate, others, rest
<1>8. CASE StrayStep \/ UNCHANGED vars
  BY <1>8, <1>1 DEF StrayStep, StrayExits, vars
<1> QED
  BY <1>4, <1>5, <1>6, <1>7, <1>8 DEF Next, UiThreads

LEMMA DecoderOwnedHolds == Spec => []DecoderOwned
<1>1. Init => DecoderOwned
  BY DEF Init, DecoderOwned
<1> QED
  BY <1>1, DecoderOwnedStep, TypesHold, PTL DEF Spec

\* What is on record as lent has no user, as HostInv has it of leases and writes.
LEMMA RecordedUnused ==
    ASSUME TypeOK, HostInv, DecoderOwned
    PROVE  OnRecord => CardUsers = {}
<1> SUFFICES ASSUME OnRecord PROVE CardUsers = {}
  OBVIOUS
<1>1. Leases = {} /\ Writing = {} /\ worker \notin {"mounting", "mounted"}
  BY DEF HostInv, Gone, OnRecord
<1>2. \A t \in Thread : ~thr[t].lease /\ thr[t].write # "writing" /\ dec # t
  BY <1>1, NoneOutside DEF Leases, Writing, DecoderOwned
<1> QED
  BY <1>1, <1>2 DEF CardUsers

\* A step that only lets users go.
Leaves == CardUsers' \subseteq CardUsers /\ Lent' = Lent /\ OnRecord' = OnRecord

LEMMA LeavesIsLeave ==
    ASSUME Leaves
    PROVE  Owner!OwnerNext
<1>1. CardUsers \ CardUsers' \in SUBSET (Thread \cup {None})
  BY DEF CardUsers
<1>2. CardUsers' = CardUsers \ (CardUsers \ CardUsers')
  BY DEF Leaves
<1>3. Owner!Leave(CardUsers \ CardUsers')
  BY <1>2 DEF Owner!Leave, Leaves, OnRecord
<1> QED
  BY <1>1, <1>3 DEF Owner!OwnerNext

\* Leases, writes and decoders come to an end, and threads are killed.
LEMMA FewerUsers ==
    ASSUME \A t \in Thread : thr'[t].lease => thr[t].lease,
           \A t \in Thread : thr'[t].write = "writing" => thr[t].write = "writing",
           dec' \in {dec, None},
           worker' \in {"mounting", "mounted"} => worker \in {"mounting", "mounted"}
    PROVE  CardUsers' \subseteq CardUsers
BY NoneOutside DEF CardUsers

\* The controller: the record before the request, none after the return.
LEMMA ControlStepOwner ==
    ASSUME TypeOK, HostInv, DecoderOwned, ControlStep
    PROVE  Owner!OwnerNext
<1>1. UNCHANGED <<threads, card, worker>>
  BY DEF ControlStep, ChooseStorage, ChooseLocal, SendReturn, ChooseSame, Tick,
     TickLocal, TickDrained, SendExport, TickHost, TickBack, Resume, TickWait,
     Expire, mount
<1>2. CardUsers' = CardUsers
  BY <1>1 DEF CardUsers, threads
<1>3. Exported' = Exported
  BY <1>1 DEF Exported, card
<1>4. marker \in {"none", "D", "E", "H", "R"} /\ queue \in Seq({0, 3})
  BY DEF TypeOK, OutsideOK
<1>5. CASE UNCHANGED queue /\ OnRecord' = OnRecord
  BY <1>2, <1>3, <1>5, LeavesIsLeave DEF Leaves, Lent
<1>6. CASE UNCHANGED marker /\ queue' = Append(queue, 0)
  <2>1. (\E i \in DOMAIN queue' : queue'[i] = 3)
           <=> (\E i \in DOMAIN queue : queue[i] = 3)
    BY <1>4, <1>6
  <2> QED
    BY <1>2, <1>3, <1>6, <2>1, LeavesIsLeave DEF Leaves, Lent, OnRecord
<1>7. CASE UNCHANGED marker /\ queue' = Append(queue, 3) /\ OnRecord
  <2>1. Lent'
    <3>1. Len(queue) + 1 \in DOMAIN queue' /\ queue'[Len(queue) + 1] = 3
      BY <1>4, <1>7
    <3> QED
      BY <3>1 DEF Lent
  <2>2. Owner!Lend
    BY <1>2, <1>7, <2>1 DEF Owner!Lend, OnRecord
  <2> QED
    BY <2>2 DEF Owner!OwnerNext
<1>8. CASE ChooseStorage
  BY <1>5, <1>8 DEF ChooseStorage, HostInv, Told, MayChoose, Free, Down,
     OnRecord
<1>9. CASE ChooseLocal
  BY <1>5, <1>9 DEF ChooseLocal, HostInv, Told, MayChoose, Free, Down, OnRecord
<1>10. CASE SendReturn \/ ChooseSame
  BY <1>5, <1>6, <1>10 DEF SendReturn, ChooseSame, Send, OnRecord
<1>11. CASE Tick \/ TickLocal \/ Resume \/ Expire
  BY <1>5, <1>11 DEF Tick, TickLocal, Resume, Expire, outside, OnRecord
<1>12. CASE TickDrained
  <2>1. CASE marker' = "E" /\ ~OnRecord
    <3>1. CardUsers = {}
      <4>1. todo = "tick" /\ phase = "DRAIN" /\ Leases = {} /\ Writers = {}
        BY <1>12 DEF TickDrained, Drained
      <4>2. marker = "D"
        BY <4>1 DEF HostInv, Told
      <4>3. worker \notin {"mounting", "mounted"}
        BY <4>2 DEF HostInv, Gone
      <4>4. \A t \in Thread : /\ ~thr[t].lease /\ thr[t].write # "writing"
                              /\ dec # t
        BY <4>1, NoneOutside DEF Leases, Writers, DecoderOwned
      <4> QED
        BY <4>3, <4>4 DEF CardUsers
    <3>2. Lent' = Lent
      BY <1>3, <1>12 DEF Lent, TickDrained
    <3>3. Owner!Record
      BY <1>2, <2>1, <3>1, <3>2 DEF Owner!Record, OnRecord
    <3> QED
      BY <3>3 DEF Owner!OwnerNext
  <2> QED
    BY <1>5, <1>12, <2>1 DEF TickDrained, OnRecord
<1>13. CASE SendExport
  <2>1. OnRecord
    BY <1>13 DEF SendExport, HostInv, Told, OnRecord
  <2> QED
    BY <1>5, <1>7, <1>13, <2>1 DEF SendExport, Send, OnRecord
<1>14. CASE TickHost
  BY <1>5, <1>14 DEF TickHost, HostInv, Told, OnRecord
<1>15. CASE TickBack
  <2>1. CASE marker' = "none"
    <3>1. marker = "R" /\ gadget = "free"
      BY <1>15 DEF TickBack, HostInv, Told, MediaLocal, Exported
    <3>2. ~Lent
      BY <3>1 DEF HostInv, Asked, All, Lent, Exported
    <3>3. Lent' = Lent
      BY <1>3, <1>15 DEF Lent, TickBack
    <3>4. Owner!Forget
      BY <1>2, <2>1, <3>2, <3>3 DEF Owner!Forget
    <3> QED
      BY <3>4 DEF Owner!OwnerNext
  <2> QED
    BY <1>5, <1>15, <2>1 DEF TickBack, OnRecord
<1>16. CASE TickWait
  <2>1. todo = "tick" /\ UNCHANGED marker
    BY <1>16 DEF TickWait
  <2>2. phase = "WAIT_HOST" => OnRecord
    BY <2>1 DEF HostInv, Told, OnRecord
  <2>3. \/ UNCHANGED queue
        \/ queue' = Append(queue, 0)
        \/ queue' = Append(queue, 3) /\ phase = "WAIT_HOST"
    BY <1>16 DEF TickWait, Send, Unknown
  <2> QED
    BY <1>5, <1>6, <1>7, <2>1, <2>2, <2>3 DEF OnRecord
<1> QED
  BY <1>8, <1>9, <1>10, <1>11, <1>12, <1>13, <1>14, <1>15, <1>16
  DEF ControlStep

\* Verdict, cold mount, restart, shutdown, crash and recovery: only the mount
\* worker begins, and recovery changes what the record says, not that it is there.
LEMMA LifeStepOwner ==
    ASSUME TypeOK, HostInv, DecoderOwned, LifeStep
    PROVE  Owner!OwnerNext
<1>1. UNCHANGED <<gadget, queue>>
  BY DEF LifeStep, VerdictGood, Revoke, WorkerStep, WorkerSeesMount,
     WorkerLocks, WorkerMounts, WorkerLooksAgain, WorkerNudges, WorkerGivesUp,
     LeaveStep, RestartAsked, RestartDrained, RestartRefused, Reboot,
     ShutdownAsked, ShutdownDrained, ShutdownRefused, ShutdownTold,
     ShutdownLate, NewGeneration, UiDies, UiStart, apart, card, outside
<1>2. Lent' = Lent
  BY <1>1 DEF Lent, Exported
<1>3. OnRecord' = OnRecord
  <2>1. CASE UiStart
    <3>1. CASE marker' = marker
      BY <3>1 DEF OnRecord
    <3>2. CASE marker' = "H"
      BY <2>1, <3>2 DEF UiStart, Recovered, OnRecord, HostInv, Told
    <3>3. CASE marker' = "none"
      BY <2>1, <3>3 DEF UiStart, Recovered, OnRecord
    <3> QED
      BY <2>1, <3>1, <3>2, <3>3 DEF UiStart
  <2>2. CASE ~UiStart
    BY <2>2 DEF LifeStep, VerdictGood, Revoke, WorkerStep, WorkerSeesMount,
       WorkerLocks, WorkerMounts, WorkerLooksAgain, WorkerNudges, WorkerGivesUp,
       LeaveStep, RestartAsked, RestartDrained, RestartRefused, Reboot,
       ShutdownAsked, ShutdownDrained, ShutdownRefused, ShutdownTold,
       ShutdownLate, NewGeneration, UiDies, apart, outside, OnRecord
  <2> QED
    BY <2>1, <2>2
<1>4. CASE /\ thr' \in {thr, TokensRevoked, [t \in Thread |-> Idle]}
           /\ dec' \in {dec, None}
           /\ worker' \in {"mounting", "mounted"}
                 => worker \in {"mounting", "mounted"}
  <2>1. \A t \in Thread : /\ thr'[t].lease => thr[t].lease
                          /\ thr'[t].write = "writing" => thr[t].write = "writing"
    BY <1>4, RevokedTokens DEF Idle
  <2>2. CardUsers' \subseteq CardUsers
    BY <1>4, <2>1, FewerUsers
  <2> QED
    BY <1>2, <1>3, <2>2, LeavesIsLeave DEF Leaves
<1>5. CASE WorkerLocks
  <2>1. ~OnRecord
    <3>1. writable /\ todo # "boot" /\ off # "done"
      BY <1>5 DEF WorkerLocks, MayMount, Up, Down
    <3> QED
      BY <3>1 DEF HostInv, GatesShut, Told, OnRecord
  <2>2. CASE worker' = "mounting"
    <3>1. UNCHANGED threads
      BY <1>5 DEF WorkerLocks
    <3>2. CardUsers' = CardUsers \cup {None}
      BY <2>2, <3>1 DEF CardUsers, threads
    <3>3. Owner!Use(None)
      BY <1>2, <1>3, <2>1, <3>2 DEF Owner!Use, OnRecord
    <3> QED
      BY <3>3 DEF Owner!OwnerNext
  <2>3. CASE worker' # "mounting"
    BY <1>4, <1>5, <2>3 DEF WorkerLocks, threads
  <2> QED
    BY <2>2, <2>3
<1>6. CASE WorkerStep /\ ~WorkerLocks
  BY <1>4, <1>6 DEF WorkerStep, WorkerSeesMount, WorkerMounts,
     WorkerLooksAgain, WorkerNudges, WorkerGivesUp, threads
<1>7. CASE VerdictGood \/ Revoke \/ UiDies \/ UiStart
  BY <1>4, <1>7 DEF VerdictGood, Revoke, UiDies, UiStart, threads, mount
<1>8. CASE LeaveStep
  BY <1>4, <1>8 DEF LeaveStep, RestartAsked, RestartDrained, RestartRefused,
     Reboot, ShutdownAsked, ShutdownDrained, ShutdownRefused, ShutdownTold,
     ShutdownLate, NewGeneration, QuiesceBegin, QuiesceEnd, threads, apart,
     mount
<1> QED
  BY <1>5, <1>6, <1>7, <1>8 DEF LifeStep

\* The player: what it does with a request never makes the card lent.
LEMMA PlayerStepOwner ==
    ASSUME TypeOK, PlayerStep
    PROVE  Owner!OwnerNext
<1>1. UNCHANGED marker
  BY DEF PlayerStep, PlayerReady, PlayerReplaced, PlayerExports, PlayerReturns,
     PlayerMounts, CardPulled, PlayerPowersOff, PlayerSeesCancel, GetsLate,
     others, rest, outside
<1>2. queue \in Seq({0, 3})
  BY DEF TypeOK, OutsideOK
<1>3. CASE PlayerReplaced \/ PlayerExports \/ PlayerReturns
  <2>1. UNCHANGED <<threads, worker>>
    BY <1>3 DEF PlayerReplaced, PlayerExports, PlayerReturns, others, rest,
       mount
  <2>2. CardUsers' = CardUsers
    BY <2>1 DEF CardUsers, threads
  <2>3. queue # <<>> => \A i \in DOMAIN Tail(queue) :
                           i + 1 \in DOMAIN queue /\ Tail(queue)[i] = queue[i + 1]
    BY <1>2
  <2>4. queue # <<>> => 1 \in DOMAIN queue /\ Head(queue) = queue[1]
    BY <1>2
  <2>5. Lent' => Lent
    BY <1>3, <2>3, <2>4 DEF PlayerReplaced, PlayerExports, PlayerReturns, Lent,
       Exported, card, others, rest
  <2>6. CASE Lent' = Lent
    BY <1>1, <2>2, <2>6, LeavesIsLeave DEF Leaves, OnRecord
  <2>7. CASE Lent' # Lent
    <3>1. Lent' = FALSE
      BY <2>5, <2>7 DEF Lent
    <3>2. Owner!Return
      BY <1>1, <2>2, <3>1 DEF Owner!Return
    <3> QED
      BY <3>2 DEF Owner!OwnerNext
  <2> QED
    BY <2>6, <2>7
<1>4. CASE ~(PlayerReplaced \/ PlayerExports \/ PlayerReturns)
  <2>1. UNCHANGED <<queue, gadget>>
    BY <1>4 DEF PlayerStep, PlayerReady, PlayerMounts, CardPulled,
       PlayerPowersOff, PlayerSeesCancel, GetsLate, others, rest, card, outside
  <2>2. /\ thr' \in {thr, [t \in Thread |-> Idle]} /\ dec' \in {dec, None}
        /\ worker' \in {worker, "off"}
    BY <1>4 DEF PlayerStep, PlayerReady, PlayerMounts, CardPulled,
       PlayerPowersOff, PlayerSeesCancel, GetsLate, others, rest, mount, threads
  <2>3. CardUsers' \subseteq CardUsers
    BY <2>2, FewerUsers DEF Idle
  <2> QED
    BY <1>1, <2>1, <2>3, LeavesIsLeave DEF Leaves, Lent, Exported, OnRecord
<1> QED
  BY <1>3, <1>4

\* The worker threads: one begins only where nothing is on record.
LEMMA UiThreadsOwner ==
    ASSUME TypeOK, HostInv, DecoderOwned, Up, NEW t \in Thread, ThreadStep(t),
           UNCHANGED <<ui, mount, outside>>
    PROVE  Owner!OwnerNext
<1>1. UNCHANGED <<marker, queue, worker, gadget>>
  BY DEF mount, outside, ThreadStep, TakeToken, BeginRefused, Begin, End,
     WriteAsk, WriteAnswer, WriteEnd, Fork, DecoderExits, DecoderStuck, card
<1>2. Lent' = Lent /\ OnRecord' = OnRecord
  BY <1>1 DEF Lent, Exported, OnRecord
<1>3. allowed \/ writable => ~OnRecord
  BY DEF HostInv, GatesShut, Told, Up, Down, OnRecord
<1>4. CASE CardUsers' \subseteq CardUsers
  BY <1>2, <1>4, LeavesIsLeave DEF Leaves
<1>5. CASE (allowed \/ writable) /\ CardUsers' = CardUsers \cup {t}
  <2>1. Owner!Use(t)
    BY <1>2, <1>3, <1>5 DEF Owner!Use, OnRecord
  <2> QED
    BY <2>1 DEF Owner!OwnerNext
<1>6. thr \in [Thread -> [lease : BOOLEAN, write : {"no", "asked", "writing"},
                          token : {"none", "live", "dead"}]]
  BY DEF TypeOK, ThreadsOK
<1>7. CASE Begin(t)
  <2>1. thr' = [thr EXCEPT ![t].lease = TRUE] /\ allowed /\ UNCHANGED dec
    BY <1>7 DEF Begin
  <2>2. CardUsers' = CardUsers \cup {t}
    BY <1>1, <1>6, <2>1 DEF CardUsers
  <2> QED
    BY <1>5, <2>1, <2>2
<1>8. CASE WriteAnswer(t) /\ writable
  <2>1. UNCHANGED dec /\ \/ thr' = [thr EXCEPT ![t].write = "writing"]
                         \/ thr' = [thr EXCEPT ![t].write = "no"]
    BY <1>8 DEF WriteAnswer
  <2>2. CardUsers' = CardUsers \cup {t} \/ CardUsers' \subseteq CardUsers
    BY <1>1, <1>6, <2>1 DEF CardUsers
  <2> QED
    BY <1>4, <1>5, <1>8, <2>2
<1>9. CASE Fork(t)
  <2>1. CardUsers' = CardUsers
    BY <1>1, <1>9, NoneOutside DEF Fork, CardUsers
  <2> QED
    BY <1>4, <2>1
<1>10. CASE ~Begin(t) /\ ~(WriteAnswer(t) /\ writable) /\ ~Fork(t)
  <2>1. /\ \A u \in Thread : thr'[u].lease => thr[u].lease
        /\ \A u \in Thread : thr'[u].write = "writing" => thr[u].write = "writing"
    BY <1>6, <1>10 DEF ThreadStep, TakeToken, BeginRefused, End, WriteAsk,
       WriteAnswer, WriteEnd, DecoderExits, DecoderStuck, Idle
  <2>2. dec' \in {dec, None}
    BY <1>10 DEF ThreadStep, TakeToken, BeginRefused, End, WriteAsk,
       WriteAnswer, WriteEnd, DecoderExits, DecoderStuck
  <2> QED
    BY <1>1, <1>4, <2>1, <2>2, FewerUsers
<1> QED
  BY <1>7, <1>8, <1>9, <1>10

\* In every behaviour, whatever fails, crashes or is replaced in between, the
\* hand-off is one of CardOwner: the first request to lend the card comes after
\* the record, the record after the last user, no user after the record, and the
\* record goes only when no request is left (storage_tick, storage_init,
\* ui_set_source_mode, sd_io_begin, coldplug_thread).
THEOREM HandoffRefinesOwner == Spec => RefinesOwner
<1>1. Init => Owner!OwnerInit
  BY NoneOutside DEF Init, Owner!OwnerInit, CardUsers, Lent, Exported, Idle
<1>2. TypeOK /\ HostInv /\ DecoderOwned /\ [Next]_vars
      => [Owner!OwnerNext]_(Owner!owner)
  <2> SUFFICES ASSUME TypeOK, HostInv, DecoderOwned, [Next]_vars
               PROVE  Owner!OwnerNext
    OBVIOUS
  <2>1. CASE UiThreads
    BY <2>1, UiThreadsOwner DEF UiThreads
  <2>2. CASE StrayStep \/ UNCHANGED vars
    <3>1. UNCHANGED <<threads, worker, gadget, queue, marker>>
      BY <2>2 DEF StrayStep, StrayExits, vars, mount, card, outside
    <3> QED
      BY <3>1, LeavesIsLeave DEF Leaves, CardUsers, Lent, Exported, OnRecord,
         threads
  <2> QED
    BY <2>1, <2>2, ControlStepOwner, LifeStepOwner, PlayerStepOwner DEF Next
<1> QED
  BY <1>1, <1>2, HostInvHolds, DecoderOwnedHolds, PTL
  DEF Spec, RefinesOwner, Owner!OwnerSpec

\* What that means: the card is never lent without a record, nor used with one.
THEOREM CardHasOneOwner == Spec => []Owner!OneOwner
<1>1. Owner!OwnerInit => Owner!OneOwner
  BY DEF Owner!OwnerInit, Owner!OneOwner
<1>2. Owner!OneOwner /\ [Owner!OwnerNext]_(Owner!owner) => Owner!OneOwner'
  BY DEF Owner!OneOwner, Owner!OwnerNext, Owner!owner, Owner!Use, Owner!Leave,
     Owner!Record, Owner!Lend, Owner!Return, Owner!Forget
<1> QED
  BY <1>1, <1>2, HandoffRefinesOwner, PTL DEF RefinesOwner, Owner!OwnerSpec
=============================================================================
