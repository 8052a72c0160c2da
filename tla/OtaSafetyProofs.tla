-------------------------- MODULE OtaSafetyProofs ---------------------------
(***************************************************************************)
(* The safety properties of module Ota, for every instance: power cuts     *)
(* between any two steps, and all the faults, except where a theorem names *)
(* the one it excludes.  Each property has an inductive invariant of its   *)
(* own, kept by one phase of the boot, one kind of actor or one fault at a *)
(* time.                                                                   *)
(***************************************************************************)
EXTENDS OtaProofs, FiniteSetTheorems

\* Every promoted build is at or below the epoch e.
Covers(e) == \A b \in promoted : Epoch[b] <= e

Deciding ==
    {"judge", "again", "promoteClear", "promoteKeep", "promoteSwap", "refuse",
     "dropActive", "dropMarks", "note", "consume", "offer", "offerClear",
     "offerTake"}

\* Why the floor covers every promoted build: a build on trial is no older than
\* any of them, because the floor read at the start of the selection covered
\* them and the offered build had to exceed it.
FloorInv ==
    /\ FloorCoversPromoted
    /\ dir["active"] \in Bundle => Covers(Epoch[dir["active"]])
    /\ pc \in Deciding /\ choice = "none" => Covers(floor0)
    /\ pc \in {"promoteClear", "promoteKeep", "promoteSwap"}
          => Epoch[dir["active"]] <= accepted
    /\ pc \in {"offerClear", "offerTake"}
          => choice = "none" /\ dir["pending"] \in Bundle
             /\ Epoch[dir["pending"]] > floor0

\* The types this argument needs.
FloorTypes ==
    /\ dir \in [Slot -> Content]
    /\ accepted \in Nat /\ floor0 \in Nat
    /\ promoted \subseteq Bundle
    /\ Epoch \in [Bundle -> Nat] /\ MinUi \in Nat
    /\ None \notin Bundle /\ Torn \notin Bundle

-----------------------------------------------------------------------------
\* The types hold whenever the type invariant does.
LEMMA FloorTyped ==
    ASSUME TypeInv
    PROVE  FloorTypes
BY ValuesDistinct, NumbersTyped
   DEF FloorTypes, TypeInv, TypeOK, DiskOK, BootOK, SeenOK

\* A step that leaves the floor and the promoted builds alone, brings no build
\* on trial, and does not enter the selection or a promotion, keeps FloorInv.
LEMMA QuietStep ==
    ASSUME FloorInv, UNCHANGED <<promoted, accepted>>,
           dir'["active"] \in {dir["active"], None, Torn},
           None \notin Bundle, Torn \notin Bundle,
           pc' \in Deciding /\ choice' = "none" =>
               pc \in Deciding /\ choice = "none" /\ UNCHANGED floor0,
           pc' \notin {"promoteClear", "promoteKeep", "promoteSwap",
                       "offerClear", "offerTake"}
    PROVE  FloorInv'
BY DEF FloorInv, FloorCoversPromoted, Covers

\* Every step of the selection keeps FloorInv.
LEMMA BootStepFloor ==
    ASSUME TypeInv, FloorInv, BootStep
    PROVE  FloorInv'
<1>0. FloorTypes BY FloorTyped
<1>1. CASE PowerOn
  BY ONLY <1>0, <1>1, FloorInv, QuietStep DEF PowerOn, At, Then, OnDisk,
     FloorTypes, Deciding, disk, up, seen, Slot, Content
<1>2. CASE RestoreGood
  BY ONLY <1>0, <1>2, FloorInv, QuietStep DEF RestoreGood, Moved, At, Then,
     OnDisk,
     FloorTypes, Deciding, disk, up, seen, Slot, Content
<1>3. CASE SweepIncoming
  BY ONLY <1>0, <1>3, FloorInv, QuietStep DEF SweepIncoming, Removed, At,
     Then, OnDisk,
     FloorTypes, Deciding, disk, up, seen, Slot, Content
<1>4. CASE SettleAside
  BY ONLY <1>0, <1>4, FloorInv, QuietStep DEF SettleAside, Moved, Removed,
     At, Then, OnDisk,
     FloorTypes, Deciding, disk, up, seen, Slot, Content
<1>5. CASE DropOrphanTrial
  BY ONLY <1>0, <1>5, FloorInv DEF DropOrphanTrial, At, Then, OnDisk,
     FloorInv,
     FloorTypes, FloorCoversPromoted, Covers, Deciding, disk, up, seen, Slot,
     Content
<1>6. CASE NoActive
  BY ONLY <1>0, <1>6, FloorInv, QuietStep DEF NoActive, At, Then, OnDisk,
     FloorTypes, Deciding, disk, up, seen, Slot, Content
<1>7. CASE JudgeCrashed
  BY ONLY <1>0, <1>7, FloorInv, QuietStep DEF JudgeCrashed, RollBack, At,
     Then, OnDisk,
     FloorTypes, Deciding, disk, up, seen, Slot, Content
<1>8. CASE JudgeUnverified
  BY ONLY <1>0, <1>8, FloorInv, QuietStep DEF JudgeUnverified, RollBack, At,
     Then, OnDisk,
     FloorTypes, Deciding, disk, up, seen, Slot, Content
<1>9. CASE JudgeRevert
  BY ONLY <1>0, <1>9, FloorInv, QuietStep DEF JudgeRevert, Judged, RollBack,
     At, Then, OnDisk,
     FloorTypes, Deciding, disk, up, seen, Slot, Content
<1>10. CASE JudgeRaiseFloor
  BY ONLY <1>0, <1>10, FloorInv DEF JudgeRaiseFloor, Judged, Active,
     Verifies, At, Then, OnDisk, FloorInv,
     FloorTypes, FloorCoversPromoted, Covers, Deciding, disk, up, seen, Slot,
     Content
<1>11. CASE JudgeFloorLost
  BY ONLY <1>0, <1>11, FloorInv DEF JudgeFloorLost, Judged, Active, Verifies,
     At, Then, OnDisk, FloorInv,
     FloorTypes, FloorCoversPromoted, Covers, Deciding, disk, up, seen, Slot,
     Content
<1>12. CASE JudgeUnproven
  BY ONLY <1>0, <1>12, FloorInv, QuietStep DEF JudgeUnproven, Judged, At,
     Then, OnDisk,
     FloorTypes, Deciding, disk, up, seen, Slot, Content
<1>13. CASE TrialAgain
  BY ONLY <1>0, <1>13, FloorInv, QuietStep DEF TrialAgain, At, Then, OnDisk,
     FloorTypes, Deciding, disk, up, seen, Slot, Content
<1>14. CASE TrialOver
  BY ONLY <1>0, <1>14, FloorInv, QuietStep DEF TrialOver, RollBack, At, Then,
     OnDisk,
     FloorTypes, Deciding, disk, up, seen, Slot, Content
<1>15. CASE PromoteClear
  BY ONLY <1>0, <1>15, FloorInv DEF PromoteClear, Removed, At, Then, OnDisk,
     FloorInv,
     FloorTypes, FloorCoversPromoted, Covers, Deciding, disk, up, seen, Slot,
     Content
<1>16. CASE PromoteKeep
  BY ONLY <1>0, <1>16, FloorInv DEF PromoteKeep, Moved, At, Then, OnDisk,
     FloorInv,
     FloorTypes, FloorCoversPromoted, Covers, Deciding, disk, up, seen, Slot,
     Content
<1>17. CASE PromoteSwap
  BY ONLY <1>0, <1>17, FloorInv DEF PromoteSwap, Moved, Active, At, Then,
     OnDisk, FloorInv,
     FloorTypes, FloorCoversPromoted, Covers, Deciding, disk, up, seen, Slot,
     Content
<1>18. CASE PromoteFails
  BY ONLY <1>0, <1>18, FloorInv, QuietStep DEF PromoteFails, Moved, At, Then,
     OnDisk,
     FloorTypes, Deciding, disk, up, seen, Slot, Content
<1>19. CASE PromoteTidy
  BY ONLY <1>0, <1>19, FloorInv, QuietStep DEF PromoteTidy, At, Then, OnDisk,
     FloorTypes, Deciding, disk, up, seen, Slot, Content
<1>20. CASE Refuse
  BY ONLY <1>0, <1>20, FloorInv, QuietStep DEF Refuse, At, Then, OnDisk,
     FloorTypes, Deciding, disk, up, seen, Slot, Content
<1>21. CASE DropActive
  BY ONLY <1>0, <1>21, FloorInv, QuietStep DEF DropActive, Removed, At, Then,
     OnDisk,
     FloorTypes, Deciding, disk, up, seen, Slot, Content
<1>22. CASE DropMarks
  BY ONLY <1>0, <1>22, FloorInv, QuietStep DEF DropMarks, At, Then, OnDisk,
     FloorTypes, Deciding, disk, up, seen, Slot, Content
<1>23. CASE Note
  BY ONLY <1>0, <1>23, FloorInv, QuietStep DEF Note, At, Then, OnDisk,
     FloorTypes, Deciding, disk, up, seen, Slot, Content
<1>24. CASE ConsumeRevert
  BY ONLY <1>0, <1>24, FloorInv, QuietStep DEF ConsumeRevert, At, Then,
     OnDisk,
     FloorTypes, Deciding, disk, up, seen, Slot, Content
<1>25. CASE NoOffer
  BY ONLY <1>0, <1>25, FloorInv, QuietStep DEF NoOffer, At, Then, OnDisk,
     FloorTypes, Deciding, disk, up, seen, Slot, Content
<1>26. CASE OfferStart
  <2>1. Offered \in Bundle /\ Epoch[Offered] >= OfferFloor
    BY <1>26 DEF OfferStart, OfferOk, Verifies
  <2>2. OfferFloor >= floor0 + 1
    BY ONLY <1>0 DEF OfferFloor, FloorTypes
  <2>3. Epoch[Offered] > floor0
    BY ONLY <1>0, <2>1, <2>2 DEF FloorTypes, OfferFloor
  <2> QED
    BY ONLY <1>26, <2>1, <2>3, FloorInv
    DEF OfferStart, Offered, At, Then, FloorInv, FloorCoversPromoted, Covers,
        Deciding, disk, up, seen
<1>27. CASE OfferLater
  BY ONLY <1>0, <1>27, FloorInv, QuietStep DEF OfferLater, At, Then, OnDisk,
     FloorTypes, Deciding, disk, up, seen, Slot, Content
<1>28. CASE OfferClear
  BY ONLY <1>0, <1>28, FloorInv DEF OfferClear, At, Then, OnDisk, FloorInv,
     FloorTypes, FloorCoversPromoted, Covers, Deciding, disk, up, seen, Slot,
     Content
<1>29. CASE OfferTake
  BY ONLY <1>0, <1>29, FloorInv DEF OfferTake, Moved, At, Then, OnDisk,
     FloorInv,
     FloorTypes, FloorCoversPromoted, Covers, Deciding, disk, up, seen, Slot,
     Content
<1>29a. CASE OfferTakeFails
  BY ONLY <1>0, <1>29a, FloorInv, QuietStep DEF OfferTakeFails, At, Then, OnDisk,
     FloorTypes, Deciding, disk, up, seen, Slot, Content
<1>30. CASE OfferRefused
  BY ONLY <1>0, <1>30, FloorInv, QuietStep DEF OfferRefused, Offered, At,
     Then, OnDisk,
     FloorTypes, Deciding, disk, up, seen, Slot, Content
<1>31. CASE OfferDrop
  BY ONLY <1>0, <1>31, FloorInv, QuietStep DEF OfferDrop, Removed, At, Then,
     OnDisk,
     FloorTypes, Deciding, disk, up, seen, Slot, Content
<1>32. CASE NoFallback
  BY ONLY <1>0, <1>32, FloorInv, QuietStep DEF NoFallback, At, Then, OnDisk,
     FloorTypes, Deciding, disk, up, seen, Slot, Content
<1>33. CASE FallbackGood
  BY ONLY <1>0, <1>33, FloorInv, QuietStep DEF FallbackGood, At, Then, OnDisk,
     FloorTypes, Deciding, disk, up, seen, Slot, Content
<1>34. CASE FallbackBad
  BY ONLY <1>0, <1>34, FloorInv, QuietStep DEF FallbackBad, At, Then, OnDisk,
     FloorTypes, Deciding, disk, up, seen, Slot, Content
<1>35. CASE DropGood
  BY ONLY <1>0, <1>35, FloorInv, QuietStep DEF DropGood, Removed, At, Then,
     OnDisk,
     FloorTypes, Deciding, disk, up, seen, Slot, Content
<1>36. CASE UsePrev
  BY ONLY <1>0, <1>36, FloorInv, QuietStep DEF UsePrev, Moved, At, Then,
     OnDisk,
     FloorTypes, Deciding, disk, up, seen, Slot, Content
<1>37. CASE CheckPrev
  BY ONLY <1>0, <1>37, FloorInv, QuietStep DEF CheckPrev, Removed, At, Then,
     OnDisk,
     FloorTypes, Deciding, disk, up, seen, Slot, Content
<1>38. CASE KeepGood
  BY ONLY <1>0, <1>38, FloorInv, QuietStep DEF KeepGood, Removed, At, Then,
     OnDisk,
     FloorTypes, Deciding, disk, up, seen, Slot, Content
<1>39. CASE RaiseToGood
  BY ONLY <1>0, <1>39, FloorInv DEF RaiseToGood, Good, At, Then, OnDisk,
     FloorInv,
     FloorTypes, FloorCoversPromoted, Covers, Deciding, disk, up, seen, Slot,
     Content
<1>40. CASE Settle
  BY ONLY <1>0, <1>40, FloorInv, QuietStep DEF Settle, At, Then, OnDisk,
     FloorTypes, Deciding, disk, up, seen, Slot, Content
<1>41. CASE Publish
  BY ONLY <1>0, <1>41, FloorInv, QuietStep DEF Publish, At, Then, OnDisk,
     FloorTypes, Deciding, disk, up, seen, Slot, Content
<1>42. CASE PublishFails
  BY ONLY <1>0, <1>42, FloorInv, QuietStep DEF PublishFails, At, Then, OnDisk,
     FloorTypes, Deciding, disk, up, seen, Slot, Content
<1> QED
  BY <1>1, <1>2, <1>3, <1>4, <1>5, <1>6, <1>7, <1>8, <1>9, <1>10, <1>11, <1>12,
     <1>13, <1>14, <1>15, <1>16, <1>17, <1>18, <1>19, <1>20, <1>21, <1>22, <1>23,
     <1>24, <1>25, <1>26, <1>27, <1>28, <1>29, <1>29a, <1>30, <1>31, <1>32, <1>33, <1>34,
     <1>35, <1>36, <1>37, <1>38, <1>39, <1>40, <1>41, <1>42
  DEF BootStep

\* The interface and its worker touch neither the floor nor what is active.
LEMMA UiStepFloor ==
    ASSUME TypeInv, FloorInv, UiStep
    PROVE  FloorInv'
<1>0. FloorTypes BY FloorTyped
<1>1. /\ pc = "up" /\ UNCHANGED <<pc, promoted, accepted, choice, floor0>>
      /\ dir'["active"] = dir["active"]
  BY ONLY <1>0, UiStep
  DEF UiStep, StageBegin, StageFails, StageVerified, StageAside, StageCommit,
      StageCommitFails, StageDurable, StageUndo, StageSweep, DiscardAside,
      DiscardPending, AllowSwitch, HealthWrite, RevertWrite, RollbackTake,
      Worker, DiskosUp, Others, Moved, Removed, FloorTypes, Slot,
      disk, boot, up, seen
<1> QED BY ONLY <1>0, <1>1, FloorInv, QuietStep DEF FloorTypes, Deciding

\* The launcher starts interfaces and never promotes one.
LEMMA LaunchStepFloor ==
    ASSUME TypeInv, FloorInv, LaunchStep
    PROVE  FloorInv'
<1>0. FloorTypes BY FloorTyped
<1>1. /\ pc' \in {"up", "hook", "ladder"}
      /\ UNCHANGED <<promoted, accepted, dir>>
  BY ONLY LaunchStep
  DEF LaunchStep, HookFlashed, HookLauncher, Watcher, UiExits, HookAgain,
      Ladder, LaunchRest, disk, boot, up, seen
<1> QED BY ONLY <1>0, <1>1, FloorInv, QuietStep DEF FloorTypes, Deciding

\* A power cut, a full disk and a rotten file keep FloorInv.
LEMMA DeviceStepFloor ==
    ASSUME TypeInv, FloorInv,
           \/ PowerCut \/ FillOrFree
           \/ \E d \in {"active", "good", "good.prev"} : Decay(d)
    PROVE  FloorInv'
<1>0. FloorTypes BY FloorTyped
<1>1. CASE PowerCut
  <2>1. dir' = dir \/ \E d \in Slot : dir' = [dir EXCEPT ![d] = Torn]
    BY <1>1 DEF PowerCut, Doomed, Slot
  <2>2. pc' = "off" /\ UNCHANGED <<promoted, accepted>>
    BY <1>1 DEF PowerCut, seen
  <2>3. dir'["active"] \in {dir["active"], None, Torn}
    BY ONLY <1>0, <2>1 DEF FloorTypes, Slot
  <2> QED BY ONLY <1>0, <2>2, <2>3, FloorInv, QuietStep DEF FloorTypes, Deciding
<1>2. CASE FillOrFree
  <2>1. UNCHANGED <<dir, pc, promoted, accepted, choice, floor0>>
    BY ONLY <1>2 DEF FillOrFree, boot, seen
  <2> QED BY ONLY <1>0, <2>1, FloorInv
          DEF FloorInv, FloorCoversPromoted, Covers
<1>3. CASE \E d \in {"active", "good", "good.prev"} : Decay(d)
  <2>1. /\ pc \in {"off", "up"}
        /\ UNCHANGED <<pc, promoted, accepted>>
        /\ \E d \in Slot : dir' = [dir EXCEPT ![d] = Torn]
    BY ONLY <1>3 DEF Decay, Slot, boot, seen
  <2> QED BY ONLY <1>0, <2>1, FloorInv, QuietStep DEF FloorTypes, Deciding
<1> QED BY <1>1, <1>2, <1>3

\* Every step keeps FloorInv.
LEMMA FloorStep ==
    ASSUME TypeInv, FloorInv, [Next]_allVars
    PROVE  FloorInv'
<1>1. CASE BootStep BY <1>1, BootStepFloor
<1>2. CASE UiStep BY <1>2, UiStepFloor
<1>3. CASE LaunchStep BY <1>3, LaunchStepFloor
<1>4. CASE \/ PowerCut \/ FillOrFree
           \/ \E d \in {"active", "good", "good.prev"} : Decay(d)
  BY <1>4, DeviceStepFloor
<1>5. CASE UNCHANGED allVars
  <2>1. UNCHANGED <<dir, pc, promoted, accepted, choice, floor0>>
    BY ONLY <1>5 DEF allVars, vars, disk, boot, seen
  <2> QED BY ONLY <2>1, FloorInv DEF FloorInv, FloorCoversPromoted, Covers
<1> QED BY <1>1, <1>2, <1>3, <1>4, <1>5 DEF Next

\* FloorInv holds throughout.
LEMMA FloorInvariant == Spec => []FloorInv
<1>1. Init => FloorInv
  BY ValuesDistinct
  DEF Init, FloorInv, FloorCoversPromoted, Covers, Deciding, Slot
<1>2. TypeInv /\ FloorInv /\ [Next]_allVars => FloorInv'
  BY FloorStep
<1> QED
  BY <1>1, <1>2, TypeInvariant, PTL DEF Spec

\* Whatever is cut, fails or decays, the epoch on disk covers every build that
\* was ever promoted: ota_select writes it before the promoting rename, and
\* only lets builds on trial that are newer than the epoch it has read.
THEOREM FloorCoversEveryPromotion == Spec => []FloorCoversPromoted
<1>1. FloorInv => FloorCoversPromoted BY DEF FloorInv
<1> QED BY <1>1, FloorInvariant, PTL

-----------------------------------------------------------------------------
\* The phases of a boot, to reason about its steps a few at a time.
RestoreStep ==
    \/ PowerOn \/ RestoreGood \/ SweepIncoming \/ SettleAside
    \/ DropOrphanTrial
JudgeStep ==
    \/ NoActive \/ JudgeCrashed \/ JudgeUnverified \/ JudgeRevert
    \/ JudgeRaiseFloor \/ JudgeFloorLost \/ JudgeUnproven \/ TrialAgain
    \/ TrialOver
PromoteStep ==
    \/ PromoteClear \/ PromoteKeep \/ PromoteSwap \/ PromoteFails
    \/ PromoteTidy
RefuseStep ==
    \/ Refuse \/ DropActive \/ DropMarks \/ Note \/ ConsumeRevert
OfferStep ==
    \/ NoOffer \/ OfferStart \/ OfferLater \/ OfferClear \/ OfferTake
    \/ OfferTakeFails \/ OfferRefused \/ OfferDrop
FallbackStep ==
    \/ NoFallback \/ FallbackGood \/ FallbackBad \/ DropGood \/ UsePrev
    \/ CheckPrev \/ KeepGood \/ RaiseToGood
SettleStep ==
    \/ Settle \/ Publish \/ PublishFails

\* A step of the boot belongs to one of its phases.
LEMMA BootPhases ==
    ASSUME BootStep
    PROVE  \/ RestoreStep \/ JudgeStep \/ PromoteStep \/ RefuseStep
           \/ OfferStep \/ FallbackStep \/ SettleStep
BY DEF BootStep, RestoreStep, JudgeStep, PromoteStep, RefuseStep, OfferStep,
   FallbackStep, SettleStep

\* The types these arguments need.
Typed ==
    /\ dir \in [Slot -> Content]
    /\ mark \in [Marker -> Bundle \cup {None}]
    /\ trial \in [sha : Bundle \cup {None}, boots : 0 .. MaxBoots]
    /\ accepted \in Nat /\ floor0 \in Nat /\ tries \in Nat
    /\ dl \in [at : WorkStage, b : Bundle \cup {None}]
    /\ run.sha \in Bundle \cup {None, Flashed}
    /\ Held /\ Epoch \in [Bundle -> Nat] /\ MaxBoots \in Nat
    /\ {None, Torn} \cap Bundle = {} /\ None # Torn

\* The types hold whenever the type invariant does.
LEMMA TypesGiven ==
    ASSUME TypeInv
    PROVE  Typed
<1>1. tries \in Nat
  BY DEF TypeInv, TypeOK, SeenOK
<1>2. run.sha \in Bundle \cup {None, Flashed}
  BY DEF TypeInv, TypeOK, UpOK
<1> QED
  BY <1>1, <1>2, ValuesDistinct, NumbersTyped
  DEF Typed, TypeInv, TypeOK, DiskOK, BootOK, UpOK

Promoting == {"promoteClear", "promoteKeep", "promoteSwap"}

-----------------------------------------------------------------------------
\* Why a good build has vouched for itself: the only writer of `healthy` is the
\* build it names, and a promotion starts from that marker.
EarnedInv ==
    /\ mark["healthy"] # None => mark["healthy"] \in vouched
    /\ pc \in Promoting => dir["active"] \in vouched
    /\ \A d \in {"good", "good.prev"} : dir[d] \in Bundle => dir[d] \in vouched

\* A health marker, a promotion under way and an installed build keep naming
\* builds that vouched for themselves.
LEMMA EarnedStep ==
    ASSUME Typed, EarnedInv, [Next]_allVars
    PROVE  EarnedInv'
<1> USE DEF Typed, EarnedInv, Promoting, Judged, Proven, RollBack, TrialIsMe,
        LaunchRest, At, Then, OnDisk, Others, disk, boot, up, seen, Moved,
        Removed, Active, Good, Verifies, Slot, Content, Marker
<1>1. CASE RestoreStep
  BY <1>1
  DEF RestoreStep, PowerOn, RestoreGood, SweepIncoming, SettleAside,
      DropOrphanTrial
<1>2. CASE JudgeStep
  BY <1>2
  DEF JudgeStep, NoActive, JudgeCrashed, JudgeUnverified, JudgeRevert,
      JudgeRaiseFloor,
    JudgeFloorLost, JudgeUnproven, TrialAgain, TrialOver
<1>3. CASE PromoteStep
  BY <1>3
  DEF PromoteStep, PromoteClear, PromoteKeep, PromoteSwap, PromoteFails,
      PromoteTidy
<1>4. CASE RefuseStep
  BY <1>4
  DEF RefuseStep, Refuse, DropActive, DropMarks, Note, ConsumeRevert
<1>5. CASE OfferStep
  BY <1>5
  DEF OfferStep, NoOffer, OfferStart, OfferLater, OfferClear, OfferTake,
      OfferTakeFails, OfferRefused,
    OfferDrop
<1>6. CASE FallbackStep
  BY <1>6
  DEF FallbackStep, NoFallback, FallbackGood, FallbackBad, DropGood, UsePrev,
    CheckPrev, KeepGood, RaiseToGood
<1>7. CASE SettleStep
  BY <1>7
  DEF SettleStep, Settle, Publish, PublishFails
<1>8. CASE UiStep
  BY <1>8
  DEF UiStep, StageBegin, StageFails, StageVerified, StageAside, StageCommit,
    StageCommitFails, StageDurable, StageUndo, StageSweep, DiscardAside,
    DiscardPending, AllowSwitch, HealthWrite, RevertWrite, RollbackTake
<1>9. CASE LaunchStep
  BY <1>9
  DEF LaunchStep, HookFlashed, HookLauncher, Watcher, UiExits, HookAgain,
      Ladder
<1>10. CASE PowerCut
  BY <1>10 DEF PowerCut, Doomed, HalfUnlinked
<1>11. CASE FillOrFree
  BY <1>11 DEF FillOrFree
<1>12. CASE \E d \in {"active", "good", "good.prev"} : Decay(d)
  BY <1>12 DEF Decay
<1>13. CASE UNCHANGED allVars
  BY <1>13 DEF allVars, vars
<1> QED
  BY <1>1, <1>2, <1>3, <1>4, <1>5, <1>6, <1>7, <1>8, <1>9, <1>10, <1>11,
     <1>12,
     <1>13, BootPhases
  DEF Next

\* No build is good that did not, running, write its own health marker: neither
\* a marker left by an earlier trial nor a fallback speaks for it, whatever is
\* cut, fails or decays (S97diskos_install ota_select, ota_promote).
THEOREM GoodIsEarned ==
    Spec => []EarnedGood
<1>1. Init => EarnedInv
  BY ValuesDistinct DEF Init, EarnedInv, Slot, Marker, NoTrial, Promoting
<1>2. TypeInv /\ EarnedInv /\ [Next]_allVars => EarnedInv'
  BY TypesGiven, EarnedStep
<1>3. EarnedInv => EarnedGood
  BY DEF EarnedInv, EarnedGood
<1> QED
  BY <1>1, <1>2, <1>3, TypeInvariant, PTL DEF Spec

-----------------------------------------------------------------------------
\* Why a known good build survives: the promotion moves good/ aside before it
\* moves active/ in, and only a build that verified enters it; so nothing the
\* fallback looks at fails to verify.
BaseInv ==
    /\ dir["good"] \in promoted \cup {None}
    /\ dir["good.prev"] \in promoted \cup {None, Torn}
    /\ promoted = {} => dir["good.prev"] = None
    /\ KnownGoodSurvives
    /\ \A b \in promoted : Verifies(b, MinUi)
    /\ pc \in Promoting => Verifies(dir["active"], MinUi)
    /\ pc = "promoteKeep" => dir["good"] # None
    /\ pc \notin {"dropGood", "usePrev", "checkPrev"}

\* While no installed bundle decays, one whole promoted build stays in place.
LEMMA BaseStep ==
    ASSUME Typed, BaseInv, [Next]_allVars, "decay" \notin Faults
    PROVE  BaseInv'
<1> USE DEF Typed, BaseInv, Held, KnownGoodSurvives, Promoting, Judged,
        RollBack,
        LaunchRest, At, Then, OnDisk, Others, disk, boot, up, seen, Moved,
        Removed, Active, Good, Verifies, Slot, Content, Marker
<1>1. CASE RestoreStep
  BY <1>1
  DEF RestoreStep, PowerOn, RestoreGood, SweepIncoming, SettleAside,
      DropOrphanTrial
<1>2. CASE JudgeStep
  BY <1>2
  DEF JudgeStep, NoActive, JudgeCrashed, JudgeUnverified, JudgeRevert,
      JudgeRaiseFloor,
    JudgeFloorLost, JudgeUnproven, TrialAgain, TrialOver
<1>3. CASE PromoteStep
  BY <1>3
  DEF PromoteStep, PromoteClear, PromoteKeep, PromoteSwap, PromoteFails,
      PromoteTidy
<1>4. CASE RefuseStep
  BY <1>4
  DEF RefuseStep, Refuse, DropActive, DropMarks, Note, ConsumeRevert
<1>5. CASE OfferStep
  BY <1>5
  DEF OfferStep, NoOffer, OfferStart, OfferLater, OfferClear, OfferTake,
      OfferTakeFails, OfferRefused,
    OfferDrop
<1>6. CASE FallbackStep
  BY <1>6
  DEF FallbackStep, NoFallback, FallbackGood, FallbackBad, DropGood, UsePrev,
    CheckPrev, KeepGood, RaiseToGood
<1>7. CASE SettleStep
  BY <1>7
  DEF SettleStep, Settle, Publish, PublishFails
<1>8. CASE UiStep
  BY <1>8
  DEF UiStep, StageBegin, StageFails, StageVerified, StageAside, StageCommit,
    StageCommitFails, StageDurable, StageUndo, StageSweep, DiscardAside,
    DiscardPending, AllowSwitch, HealthWrite, RevertWrite, RollbackTake
<1>9. CASE LaunchStep
  BY <1>9
  DEF LaunchStep, HookFlashed, HookLauncher, Watcher, UiExits, HookAgain,
      Ladder
<1>10. CASE PowerCut
  BY <1>10 DEF PowerCut, Doomed, HalfUnlinked
<1>11. CASE FillOrFree
  BY <1>11 DEF FillOrFree
<1>12. CASE \E d \in {"active", "good", "good.prev"} : Decay(d)
  BY <1>12 DEF Decay
<1>13. CASE UNCHANGED allVars
  BY <1>13 DEF allVars, vars
<1> QED
  BY <1>1, <1>2, <1>3, <1>4, <1>5, <1>6, <1>7, <1>8, <1>9, <1>10, <1>11,
     <1>12,
     <1>13, BootPhases
  DEF Next

\* BaseInv holds throughout, while nothing decays.
LEMMA BaseInvariant == Spec /\ "decay" \notin Faults => []BaseInv
<1>1. Init => BaseInv
  BY ValuesDistinct DEF Init, BaseInv, Slot, Marker, KnownGoodSurvives,
     Promoting
<1>2. "decay" \notin Faults /\ TypeInv /\ BaseInv /\ [Next]_allVars => BaseInv'
  BY TypesGiven, BaseStep
<1>3. CASE "decay" \notin Faults
  BY <1>1, <1>2, <1>3, TypeInvariant, PTL DEF Spec
<1> QED
  BY <1>3

\* While the bytes of installed bundles stay what they are, a whole promoted
\* build lies under good/ or good.prev/ at every instant from the first
\* promotion on, wherever power is cut (S97diskos_install ota_promote and
\* ota_recover).
THEOREM KnownGoodIsKept ==
    Spec /\ "decay" \notin Faults => []KnownGoodSurvives
<1>1. BaseInv => KnownGoodSurvives
  BY DEF BaseInv
<1> QED
  BY <1>1, BaseInvariant, PTL

-----------------------------------------------------------------------------
\* Why a trial ends: each boot that chooses it raised its count on disk first,
\* and a boot that could not prove it and has no boots left drops it.
TrialInv ==
    /\ ~full /\ TrialBudget
    /\ dir["active"] \in Bundle => tries <= trial.boots
    /\ choice = "trial" /\ pc # "publish"
          => tries < trial.boots \/ mark["healthy"] = dir["active"]
    /\ pc \in Promoting => mark["healthy"] = dir["active"]
    /\ choice = "trial"
          => /\ pc \in {"consume", "offer", "fallback", "settle", "publish"}
             /\ dir["active"] \in Bundle
    /\ pc \in {"offerClear", "offerTake"} =>
          choice = "none" /\ trial.boots = 1 /\ dir["pending"] \in Bundle
    /\ pc \in {"promoteTidy", "dropMarks", "note"} => dir["active"] = None
    /\ pc \in {"consume", "offer", "offerClear", "offerTake"} /\ choice = "none"
          => dir["active"] \notin Bundle

\* While /usr/data has room, the count on disk bounds the boots of a trial.
LEMMA TrialStep ==
    ASSUME Typed, TrialInv, [Next]_allVars, "full" \notin Faults
    PROVE  TrialInv'
<1> USE DEF Typed, TrialInv, Held, Promoting, Worker, DiskosUp, TrialBudget,
        NoTrial, Judged, Proven, RollBack, Offered, OfferOk, WritesOk,
        BootsLeft, OnTrialSha, OneMoreBoot, TrialIsMe, LaunchRest, At, Then,
        OnDisk, Others, disk, boot, up, seen, Moved, Removed, Active, Good,
        Verifies, Slot, Content, Marker
<1>1. CASE RestoreStep
  BY <1>1
  DEF RestoreStep, PowerOn, RestoreGood, SweepIncoming, SettleAside,
      DropOrphanTrial
<1>2. CASE JudgeStep
  BY <1>2
  DEF JudgeStep, NoActive, JudgeCrashed, JudgeUnverified, JudgeRevert,
      JudgeRaiseFloor,
    JudgeFloorLost, JudgeUnproven, TrialAgain, TrialOver
<1>3. CASE PromoteStep
  BY <1>3
  DEF PromoteStep, PromoteClear, PromoteKeep, PromoteSwap, PromoteFails,
      PromoteTidy
<1>4. CASE RefuseStep
  BY <1>4
  DEF RefuseStep, Refuse, DropActive, DropMarks, Note, ConsumeRevert
<1>5. CASE OfferStep
  <2>1. CASE NoOffer
    BY <2>1 DEF NoOffer
  <2>2. CASE OfferStart
    BY <2>2 DEF OfferStart
  <2>3. CASE OfferLater
    BY <2>3 DEF OfferLater
  <2>4. CASE OfferClear
    BY <2>4 DEF OfferClear
  <2>5. CASE OfferTake
    BY <2>5 DEF OfferTake
  <2>5a. CASE OfferTakeFails
    BY <2>5a DEF OfferTakeFails
  <2>6. CASE OfferRefused
    BY <2>6 DEF OfferRefused
  <2>7. CASE OfferDrop
    BY <2>7 DEF OfferDrop
  <2> QED
    BY <1>5, <2>1, <2>2, <2>3, <2>4, <2>5, <2>5a, <2>6, <2>7
    DEF OfferStep
<1>6. CASE FallbackStep
  BY <1>6
  DEF FallbackStep, NoFallback, FallbackGood, FallbackBad, DropGood, UsePrev,
    CheckPrev, KeepGood, RaiseToGood
<1>7. CASE SettleStep
  BY <1>7
  DEF SettleStep, Settle, Publish, PublishFails
<1>8. CASE UiStep
  BY <1>8
  DEF UiStep, StageBegin, StageFails, StageVerified, StageAside, StageCommit,
    StageCommitFails, StageDurable, StageUndo, StageSweep, DiscardAside,
    DiscardPending, AllowSwitch, HealthWrite, RevertWrite, RollbackTake
<1>9. CASE LaunchStep
  BY <1>9
  DEF LaunchStep, HookFlashed, HookLauncher, Watcher, UiExits, HookAgain,
      Ladder
<1>10. CASE PowerCut
  BY <1>10 DEF PowerCut, Doomed, HalfUnlinked
<1>11. CASE FillOrFree
  BY <1>11 DEF FillOrFree
<1>12. CASE \E d \in {"active", "good", "good.prev"} : Decay(d)
  BY <1>12 DEF Decay
<1>13. CASE UNCHANGED allVars
  BY <1>13 DEF allVars, vars
<1> QED
  BY <1>1, <1>2, <1>3, <1>4, <1>5, <1>6, <1>7, <1>8, <1>9, <1>10, <1>11,
     <1>12,
     <1>13, BootPhases
  DEF Next

\* While writes to /usr/data succeed, no trial is chosen in more than
\* OTA_MAXBOOTS boots without its health marker, however those boots end
\* (S97diskos_install ota_select, section 1).
THEOREM TrialsAreBounded ==
    Spec /\ "full" \notin Faults => []TrialBudget
<1>1. Init => TrialInv
  BY ValuesDistinct, NumbersTyped DEF Init, TrialInv, Slot, Marker, NoTrial,
     Promoting, TrialBudget
<1>2. "full" \notin Faults /\ TypeInv /\ TrialInv /\ [Next]_allVars => TrialInv'
  BY TypesGiven, TrialStep
<1>3. TrialInv => TrialBudget
  BY DEF TrialInv, TrialBudget
<1>4. CASE "full" \notin Faults
  BY <1>1, <1>2, <1>3, <1>4, TypeInvariant, PTL DEF Spec
<1> QED
  BY <1>4

-----------------------------------------------------------------------------
\* Why a staged bundle is not lost, and a discarded one not brought back: at most
\* one of pending/ and pending.old/ is the bundle that waits, and the staging
\* worker removes the other only when the one that waits is in place.
StagedInv ==
    /\ staged => \/ dir["pending"] \in Bundle
                 \/ dir["pending"] = None /\ dir["pending.old"] \in Bundle
    /\ discarded => dir["pending"] \notin Bundle /\ dir["pending.old"] \notin Bundle
    /\ dl.at # "idle" => pc = "up"
    /\ dl.at \in {"verified", "aside"} => dir["incoming"] \in Bundle
    /\ dl.at = "aside" => dir["pending"] = None
    /\ dl.at = "commit" => ~discarded /\ (staged => dir["pending.old"] \in Bundle)
    /\ dl.at \in {"commit", "sweep"} => dir["pending"] \in Bundle
    /\ dl.at = "discard" => ~staged /\ dir["pending.old"] = None
    /\ pc = "offerDrop" => ~staged

\* Every step keeps the bundle that waits, and keeps a discarded one away.
LEMMA StagedStep ==
    ASSUME Typed, StagedInv, [Next]_allVars
    PROVE  StagedInv'
<1> USE DEF Typed, StagedInv, Judged, RollBack, Offered, NoWork, WorkStage,
        Worker, DiskosUp, LaunchRest, At, Then, OnDisk, Others, disk, boot,
        up, seen, Moved, Removed, Active, Good, Verifies, Slot, Content,
        Marker
<1>1. CASE RestoreStep
  BY <1>1
  DEF RestoreStep, PowerOn, RestoreGood, SweepIncoming, SettleAside,
      DropOrphanTrial
<1>2. CASE JudgeStep
  BY <1>2
  DEF JudgeStep, NoActive, JudgeCrashed, JudgeUnverified, JudgeRevert,
      JudgeRaiseFloor,
    JudgeFloorLost, JudgeUnproven, TrialAgain, TrialOver
<1>3. CASE PromoteStep
  BY <1>3
  DEF PromoteStep, PromoteClear, PromoteKeep, PromoteSwap, PromoteFails,
      PromoteTidy
<1>4. CASE RefuseStep
  BY <1>4
  DEF RefuseStep, Refuse, DropActive, DropMarks, Note, ConsumeRevert
<1>5. CASE OfferStep
  BY <1>5
  DEF OfferStep, NoOffer, OfferStart, OfferLater, OfferClear, OfferTake,
      OfferTakeFails, OfferRefused,
    OfferDrop
<1>6. CASE FallbackStep
  BY <1>6
  DEF FallbackStep, NoFallback, FallbackGood, FallbackBad, DropGood, UsePrev,
    CheckPrev, KeepGood, RaiseToGood
<1>7. CASE SettleStep
  BY <1>7
  DEF SettleStep, Settle, Publish, PublishFails
<1>8. CASE UiStep
  BY <1>8
  DEF UiStep, StageBegin, StageFails, StageVerified, StageAside, StageCommit,
    StageCommitFails, StageDurable, StageUndo, StageSweep, DiscardAside,
    DiscardPending, AllowSwitch, HealthWrite, RevertWrite, RollbackTake
<1>9. CASE LaunchStep
  BY <1>9
  DEF LaunchStep, HookFlashed, HookLauncher, Watcher, UiExits, HookAgain,
      Ladder
<1>10. CASE PowerCut
  BY <1>10 DEF PowerCut, Doomed, HalfUnlinked
<1>11. CASE FillOrFree
  BY <1>11 DEF FillOrFree
<1>12. CASE \E d \in {"active", "good", "good.prev"} : Decay(d)
  BY <1>12 DEF Decay
<1>13. CASE UNCHANGED allVars
  BY <1>13 DEF allVars, vars
<1> QED
  BY <1>1, <1>2, <1>3, <1>4, <1>5, <1>6, <1>7, <1>8, <1>9, <1>10, <1>11,
     <1>12,
     <1>13, BootPhases
  DEF Next

\* From its staging to the boot that decides about it, a staged bundle lies whole
\* under pending/ or pending.old/, also while another staging replaces it, is
\* cut, or fails (ui/ota.c stage_commit; S97diskos_install ota_recover).
THEOREM StagedIsKept ==
    Spec => []KeepsStaged
<1>1. Init => StagedInv
  BY ValuesDistinct DEF Init, StagedInv, Slot, Marker, NoWork
<1>2. TypeInv /\ StagedInv /\ [Next]_allVars => StagedInv'
  BY TypesGiven, StagedStep
<1>3. StagedInv => KeepsStaged
  BY DEF StagedInv, KeepsStaged
<1> QED
  BY <1>1, <1>2, <1>3, TypeInvariant, PTL DEF Spec

\* A build goes on trial only from pending/, by the rename that ends an offer.
LEMMA TrialFromPending ==
    ASSUME Typed, [Next]_allVars, TrialStarts
    PROVE  OfferTake /\ dir'["active"] = dir["pending"]
<1> USE DEF Typed, TrialStarts, Moved, Removed, Slot, Content
<1>1. CASE UNCHANGED allVars
  BY <1>1 DEF allVars, vars, disk
<1>2. CASE RestoreStep
  BY <1>2
  DEF RestoreStep, PowerOn, RestoreGood, SweepIncoming, SettleAside,
      DropOrphanTrial, disk, OnDisk, Others, Then, At, OfferOk, RollBack,
      LaunchRest, Offered, Worker, DiskosUp, Held, Judged, Active, Verifies
<1>3. CASE JudgeStep
  BY <1>3
  DEF JudgeStep, NoActive, JudgeCrashed, JudgeUnverified, JudgeRevert,
      JudgeRaiseFloor, JudgeFloorLost, JudgeUnproven, TrialAgain, TrialOver,
      disk, OnDisk, Others, Then, At, OfferOk, RollBack, LaunchRest, Offered,
      Worker, DiskosUp, Held, Judged, Active, Verifies
<1>4. CASE PromoteStep
  BY <1>4
  DEF PromoteStep, PromoteClear, PromoteKeep, PromoteSwap, PromoteFails,
      PromoteTidy, disk, OnDisk, Others, Then, At, OfferOk, RollBack,
      LaunchRest, Offered, Worker, DiskosUp, Held, Judged, Active, Verifies
<1>5. CASE RefuseStep
  BY <1>5
  DEF RefuseStep, Refuse, DropActive, DropMarks, Note, ConsumeRevert, disk,
      OnDisk, Others, Then, At, OfferOk, RollBack, LaunchRest, Offered, Worker,
      DiskosUp, Held, Judged, Active, Verifies
<1>6. CASE OfferStep
  <2>1. CASE OfferTake
    BY <2>1 DEF OfferTake
  <2>2. CASE ~OfferTake
    BY <1>6, <2>2
    DEF OfferStep, NoOffer, OfferStart, OfferLater, OfferClear, OfferTakeFails,
      OfferRefused,
        OfferDrop, disk, OnDisk
  <2> QED
    BY <2>1, <2>2
<1>7. CASE FallbackStep
  BY <1>7
  DEF FallbackStep, NoFallback, FallbackGood, FallbackBad, DropGood, UsePrev,
      CheckPrev, KeepGood, RaiseToGood, disk, OnDisk, Others, Then, At,
      OfferOk, RollBack, LaunchRest, Offered, Worker, DiskosUp, Held, Judged,
      Active, Verifies
<1>8. CASE SettleStep
  BY <1>8
  DEF SettleStep, Settle, Publish, PublishFails, disk, OnDisk, Others, Then,
      At, OfferOk, RollBack, LaunchRest, Offered, Worker, DiskosUp, Held,
      Judged, Active, Verifies
<1>9. CASE UiStep
  BY <1>9
  DEF UiStep, StageBegin, StageFails, StageVerified, StageAside, StageCommit,
      StageCommitFails, StageDurable, StageUndo, StageSweep, DiscardAside,
      DiscardPending, AllowSwitch, HealthWrite, RevertWrite, RollbackTake,
      disk, OnDisk, Others, Then, At, OfferOk, RollBack, LaunchRest, Offered,
      Worker, DiskosUp, Held, Judged, Active, Verifies
<1>10. CASE LaunchStep
  BY <1>10
  DEF LaunchStep, HookFlashed, HookLauncher, Watcher, UiExits, HookAgain,
      Ladder, disk, OnDisk, Others, Then, At, OfferOk, RollBack, LaunchRest,
      Offered, Worker, DiskosUp, Held, Judged, Active, Verifies
<1>11. CASE PowerCut
  BY <1>11 DEF PowerCut, Doomed
<1>12. CASE FillOrFree
  BY <1>12 DEF FillOrFree
<1>13. CASE \E d \in {"active", "good", "good.prev"} : Decay(d)
  BY <1>13 DEF Decay
<1> QED
  BY <1>1, <1>2, <1>3, <1>4, <1>5, <1>6, <1>7, <1>8, <1>9, <1>10, <1>11,
     <1>12, <1>13,
     BootPhases
  DEF Next

\* A bundle the user discarded does not go on trial: what recovery finds under
\* pending.old/ after a cut is never it (ui/ota.c ota_discard).
THEOREM DiscardedStaysOut == Spec => DiscardFinal
<1>1. Init => StagedInv
  BY ValuesDistinct DEF Init, StagedInv, Slot, NoWork
<1>2. TypeInv /\ StagedInv /\ [Next]_allVars => StagedInv'
  BY TypesGiven, StagedStep
<1>3. TypeInv /\ StagedInv /\ [Next]_allVars => [TrialStarts => ~discarded]_allVars
  <2> SUFFICES ASSUME TypeInv, StagedInv, [Next]_allVars, TrialStarts
               PROVE  ~discarded
    OBVIOUS
  <2>1. dir["pending"] \in Bundle
    BY TypesGiven, TrialFromPending DEF TrialStarts
  <2> QED
    BY <2>1 DEF StagedInv
<1> QED
  BY <1>1, <1>2, <1>3, TypeInvariant, PTL DEF Spec, DiscardFinal

-----------------------------------------------------------------------------
\* Why a request to go back is not lost: it names the build on trial, no build on
\* trial was ever promoted, and the boot that reads it is the next one.
GoBackInv ==
    /\ \A d \in {"good", "good.prev"} : dir[d] \in Bundle => dir[d] \in promoted
    /\ dir["active"] \in Bundle => dir["active"] \notin promoted
    /\ run.kind = "trial" /\ dir["active"] \in Bundle => dir["active"] = run.sha
    /\ run.kind # "none" => pc \in {"publish", "hook", "ladder", "up"}
    /\ goBack /\ dir["active"] \in Bundle
          => /\ mark["revert"] = dir["active"]
             /\ pc \in {"off", "restore", "sweep", "aside", "orphan", "judge",
                        "refuse", "dropActive", "hook", "ladder", "up"}

\* Every step keeps the request on disk until the boot that obeys it.
LEMMA GoBackStep ==
    ASSUME Typed, GoBackInv, [Next]_allVars, FloorInv
    PROVE  GoBackInv'
<1> USE DEF Typed, GoBackInv, FloorInv, Deciding, Worker, DiskosUp, Judged,
        Proven, RollBack, Reverted, TrialIsMe, NoRun, RunChosen, RunFlashed,
        Chosen, Covers, OfferOk, Offered, LaunchRest, At, Then, OnDisk,
        Others, disk, boot, up, seen, Moved, Removed, Active, Good, Verifies,
        Slot, Content, Marker
<1>1. CASE RestoreStep
  BY <1>1
  DEF RestoreStep, PowerOn, RestoreGood, SweepIncoming, SettleAside,
      DropOrphanTrial
<1>2. CASE JudgeStep
  BY <1>2
  DEF JudgeStep, NoActive, JudgeCrashed, JudgeUnverified, JudgeRevert,
      JudgeRaiseFloor,
    JudgeFloorLost, JudgeUnproven, TrialAgain, TrialOver
<1>3. CASE PromoteStep
  BY <1>3
  DEF PromoteStep, PromoteClear, PromoteKeep, PromoteSwap, PromoteFails,
      PromoteTidy
<1>4. CASE RefuseStep
  BY <1>4
  DEF RefuseStep, Refuse, DropActive, DropMarks, Note, ConsumeRevert
<1>5. CASE OfferStep
  BY <1>5
  DEF OfferStep, NoOffer, OfferStart, OfferLater, OfferClear, OfferTake,
      OfferTakeFails, OfferRefused,
    OfferDrop
<1>6. CASE FallbackStep
  BY <1>6
  DEF FallbackStep, NoFallback, FallbackGood, FallbackBad, DropGood, UsePrev,
    CheckPrev, KeepGood, RaiseToGood
<1>7. CASE SettleStep
  BY <1>7
  DEF SettleStep, Settle, Publish, PublishFails
<1>8. CASE UiStep
  BY <1>8
  DEF UiStep, StageBegin, StageFails, StageVerified, StageAside, StageCommit,
    StageCommitFails, StageDurable, StageUndo, StageSweep, DiscardAside,
    DiscardPending, AllowSwitch, HealthWrite, RevertWrite, RollbackTake
<1>9. CASE LaunchStep
  BY <1>9
  DEF LaunchStep, HookFlashed, HookLauncher, Watcher, UiExits, HookAgain,
      Ladder
<1>10. CASE PowerCut
  BY <1>10 DEF PowerCut, Doomed, HalfUnlinked
<1>11. CASE FillOrFree
  BY <1>11 DEF FillOrFree
<1>12. CASE \E d \in {"active", "good", "good.prev"} : Decay(d)
  BY <1>12 DEF Decay
<1>13. CASE UNCHANGED allVars
  BY <1>13 DEF allVars, vars
<1> QED
  BY <1>1, <1>2, <1>3, <1>4, <1>5, <1>6, <1>7, <1>8, <1>9, <1>10, <1>11,
     <1>12,
     <1>13, BootPhases
  DEF Next

\* Only the promoting rename makes a build a promoted one.
LEMMA PromotedBySwap ==
    ASSUME [Next]_allVars, promoted' # promoted
    PROVE  PromoteSwap
<1>1. CASE UNCHANGED allVars
  BY <1>1 DEF allVars, vars, seen
<1>2. CASE RestoreStep
  BY <1>2
  DEF RestoreStep, PowerOn, RestoreGood, SweepIncoming, SettleAside,
      DropOrphanTrial, seen, Others, RollBack, LaunchRest
<1>3. CASE JudgeStep
  BY <1>3
  DEF JudgeStep, NoActive, JudgeCrashed, JudgeUnverified, JudgeRevert,
      JudgeRaiseFloor, JudgeFloorLost, JudgeUnproven, TrialAgain, TrialOver,
      seen, Others, RollBack, LaunchRest
<1>4. CASE PromoteStep
  BY <1>4
  DEF PromoteStep, PromoteClear, PromoteKeep, PromoteFails, PromoteTidy, seen,
      Others, RollBack, LaunchRest
<1>5. CASE RefuseStep
  BY <1>5
  DEF RefuseStep, Refuse, DropActive, DropMarks, Note, ConsumeRevert, seen,
      Others, RollBack, LaunchRest
<1>6. CASE OfferStep
  BY <1>6
  DEF OfferStep, NoOffer, OfferStart, OfferLater, OfferClear, OfferTake,
      OfferTakeFails, OfferRefused, OfferDrop, seen, Others, RollBack, LaunchRest
<1>7. CASE FallbackStep
  BY <1>7
  DEF FallbackStep, NoFallback, FallbackGood, FallbackBad, DropGood, UsePrev,
      CheckPrev, KeepGood, RaiseToGood, seen, Others, RollBack, LaunchRest
<1>8. CASE SettleStep
  BY <1>8
  DEF SettleStep, Settle, Publish, PublishFails, seen, Others, RollBack,
      LaunchRest
<1>9. CASE UiStep
  BY <1>9
  DEF UiStep, StageBegin, StageFails, StageVerified, StageAside, StageCommit,
      StageCommitFails, StageDurable, StageUndo, StageSweep, DiscardAside,
      DiscardPending, AllowSwitch, HealthWrite, RevertWrite, RollbackTake,
      seen, Others, RollBack, LaunchRest
<1>10. CASE LaunchStep
  BY <1>10
  DEF LaunchStep, HookFlashed, HookLauncher, Watcher, UiExits, HookAgain,
      Ladder, seen, Others, RollBack, LaunchRest
<1>11. CASE PowerCut
  BY <1>11 DEF PowerCut, seen
<1>12. CASE FillOrFree
  BY <1>12 DEF FillOrFree, seen
<1>13. CASE \E d \in {"active", "good", "good.prev"} : Decay(d)
  BY <1>13 DEF Decay, seen
<1> QED
  BY <1>1, <1>2, <1>3, <1>4, <1>5, <1>6, <1>7, <1>8, <1>9, <1>10, <1>11,
     <1>12, <1>13,
     BootPhases
  DEF Next

\* GoBackInv holds throughout.
LEMMA GoBackInvariant == Spec => []GoBackInv
<1>1. Init => GoBackInv
  BY ValuesDistinct DEF Init, GoBackInv, NoRun, Slot
<1>2. TypeInv /\ FloorInv /\ GoBackInv /\ [Next]_allVars => GoBackInv'
  BY TypesGiven, GoBackStep
<1> QED
  BY <1>1, <1>2, FloorInvariant, TypeInvariant, PTL DEF Spec

\* A build comes to lie under good/, and no longer under active/, by the
\* promoting rename only.
LEMMA PromotionBySwap ==
    ASSUME TypeInv, FloorInv, GoBackInv, [Next]_allVars, Promotes
    PROVE  PromoteSwap
<1>1. GoBackInv'
  BY TypesGiven, GoBackStep
<1>2. dir["active"] \in promoted' /\ dir["active"] \notin promoted
  BY <1>1 DEF GoBackInv, Promotes
<1> QED
  BY <1>2, PromotedBySwap

\* Once the user asked to go back from the build on trial, that build is not
\* promoted, even if it vouched for itself before or does so after
\* (ui/ota.c ota_request_revert; S97diskos_install ota_select, section 1).
THEOREM GoBackBeatsHealth == Spec => GoBackWins
<1>1. TypeInv /\ FloorInv /\ GoBackInv /\ [Next]_allVars
      => [Promotes => ~goBack]_allVars
  <2> SUFFICES ASSUME TypeInv, FloorInv, GoBackInv, [Next]_allVars, Promotes
               PROVE  ~goBack
    OBVIOUS
  <2>1. pc = "promoteSwap"
    BY PromotionBySwap DEF PromoteSwap, At
  <2> QED
    BY <2>1 DEF GoBackInv, Promotes
<1> QED
  BY <1>1, FloorInvariant, GoBackInvariant, TypeInvariant, PTL
  DEF Spec, GoBackWins

-----------------------------------------------------------------------------
\* Why the floor only rises: what is on trial is newer than the floor it was
\* admitted under, and no other build is admitted before it is decided.
RisingInv ==
    /\ dir["active"] \in Bundle => accepted <= Epoch[dir["active"]]
    /\ choice = "none"
       /\ pc \in {"judge", "again", "refuse", "dropActive", "dropMarks", "note",
                  "consume", "offer", "offerClear", "offerTake"}
          => floor0 = accepted
    /\ pc \in {"offerClear", "offerTake"}
          => /\ choice = "none" /\ dir["pending"] \in Bundle
             /\ accepted < Epoch[dir["pending"]]
    /\ pc \in {"promoteTidy", "dropMarks", "note", "dropGood", "usePrev",
               "checkPrev", "keepGood", "raise"} => dir["active"] = None
    /\ choice = "none"
       /\ pc \in {"consume", "offer", "offerClear", "offerTake", "offerDrop",
                  "fallback"}
          => dir["active"] = None

\* While syncs succeed, the build on trial stays at or above the floor.
LEMMA RisingStep ==
    ASSUME Typed, RisingInv, [Next]_allVars, "sync" \notin Faults
    PROVE  RisingInv'
<1> USE DEF Typed, RisingInv, Worker, DiskosUp, WritesOk, Judged, RollBack,
        Proven, Offered, OfferOk, OfferFloor, LaunchRest, At, Then, OnDisk,
        Others, disk, boot, up, seen, Moved, Removed, Active, Good, Verifies,
        Slot, Content, Marker
<1>1. CASE RestoreStep
  BY <1>1
  DEF RestoreStep, PowerOn, RestoreGood, SweepIncoming, SettleAside,
      DropOrphanTrial
<1>2. CASE JudgeStep
  BY <1>2
  DEF JudgeStep, NoActive, JudgeCrashed, JudgeUnverified, JudgeRevert,
      JudgeRaiseFloor,
    JudgeFloorLost, JudgeUnproven, TrialAgain, TrialOver
<1>3. CASE PromoteStep
  BY <1>3
  DEF PromoteStep, PromoteClear, PromoteKeep, PromoteSwap, PromoteFails,
      PromoteTidy
<1>4. CASE RefuseStep
  BY <1>4
  DEF RefuseStep, Refuse, DropActive, DropMarks, Note, ConsumeRevert
<1>5. CASE OfferStep
  <2>1. CASE NoOffer
    BY <2>1 DEF NoOffer
  <2>2. CASE OfferStart
    <3>1. Offered \in Bundle /\ Epoch[Offered] >= OfferFloor
      BY <2>2 DEF OfferStart, OfferOk, Verifies
    <3>2. floor0 \in Nat /\ MinUi \in Nat
      BY NumbersTyped
    <3>3. OfferFloor >= floor0 + 1
      BY ONLY <3>2 DEF OfferFloor
    <3>4. Epoch[Offered] \in Nat /\ OfferFloor \in Nat
      BY ONLY <3>1, <3>2, NumbersTyped DEF OfferFloor
    <3>5. floor0 < Epoch[dir["pending"]] /\ dir["pending"] \in Bundle
      BY ONLY <3>1, <3>2, <3>3, <3>4 DEF Offered
    <3>6. floor0 = accepted
      BY ONLY RisingInv, <2>2 DEF RisingInv, OfferStart, At
    <3> QED
      BY <2>2, <3>5, <3>6 DEF OfferStart
  <2>3. CASE OfferLater
    BY <2>3 DEF OfferLater
  <2>4. CASE OfferClear
    BY <2>4 DEF OfferClear
  <2>5. CASE OfferTake
    BY <2>5 DEF OfferTake
  <2>5a. CASE OfferTakeFails
    BY <2>5a DEF OfferTakeFails
  <2>6. CASE OfferRefused
    BY <2>6 DEF OfferRefused
  <2>7. CASE OfferDrop
    BY <2>7 DEF OfferDrop
  <2> QED
    BY <1>5, <2>1, <2>2, <2>3, <2>4, <2>5, <2>5a, <2>6, <2>7
    DEF OfferStep
<1>6. CASE FallbackStep
  BY <1>6
  DEF FallbackStep, NoFallback, FallbackGood, FallbackBad, DropGood, UsePrev,
    CheckPrev, KeepGood, RaiseToGood
<1>7. CASE SettleStep
  BY <1>7
  DEF SettleStep, Settle, Publish, PublishFails
<1>8. CASE UiStep
  BY <1>8
  DEF UiStep, StageBegin, StageFails, StageVerified, StageAside, StageCommit,
    StageCommitFails, StageDurable, StageUndo, StageSweep, DiscardAside,
    DiscardPending, AllowSwitch, HealthWrite, RevertWrite, RollbackTake
<1>9. CASE LaunchStep
  BY <1>9
  DEF LaunchStep, HookFlashed, HookLauncher, Watcher, UiExits, HookAgain,
      Ladder
<1>10. CASE PowerCut
  BY <1>10 DEF PowerCut, Doomed, HalfUnlinked
<1>11. CASE FillOrFree
  BY <1>11 DEF FillOrFree
<1>12. CASE \E d \in {"active", "good", "good.prev"} : Decay(d)
  BY <1>12 DEF Decay
<1>13. CASE UNCHANGED allVars
  BY <1>13 DEF allVars, vars
<1> QED
  BY <1>1, <1>2, <1>3, <1>4, <1>5, <1>6, <1>7, <1>8, <1>9, <1>10, <1>11,
     <1>12,
     <1>13, BootPhases
  DEF Next

\* RisingInv holds throughout, while syncs succeed.
LEMMA RisingInvariant == Spec /\ "sync" \notin Faults => []RisingInv
<1>1. Init => RisingInv
  BY ValuesDistinct DEF Init, RisingInv, Slot
<1>2. "sync" \notin Faults /\ TypeInv /\ RisingInv /\ [Next]_allVars => RisingInv'
  BY TypesGiven, RisingStep
<1>3. CASE "sync" \notin Faults
  BY <1>1, <1>2, <1>3, TypeInvariant, PTL DEF Spec
<1> QED
  BY <1>3

\* While syncs succeed, the anti-rollback floor on disk never goes down, and so
\* no bundle once too old is admitted later (S97diskos_install
\* ota_write_accepted).
THEOREM FloorOnlyRises ==
    Spec /\ "sync" \notin Faults => FloorMonotone
<1>1. "sync" \notin Faults /\ TypeInv /\ RisingInv /\ [Next]_allVars
      => [accepted' >= accepted]_allVars
  <2> SUFFICES ASSUME "sync" \notin Faults, TypeInv, RisingInv, [Next]_allVars
               PROVE  accepted' >= accepted
    OBVIOUS
  <2>0. Typed
    BY TypesGiven
  <2>1. CASE UNCHANGED allVars
    BY <2>0, <2>1 DEF Typed, allVars, vars, disk
  <2>2. CASE RestoreStep
    BY <2>0, <2>2
    DEF RestoreStep, PowerOn, RestoreGood, SweepIncoming, SettleAside,
        DropOrphanTrial, Typed, Held, RisingInv, Good, disk, OnDisk, At,
        OfferOk, RollBack, LaunchRest, Others, Judged, Active, Verifies
  <2>3. CASE JudgeStep
    BY <2>0, <2>3
    DEF JudgeStep, NoActive, JudgeCrashed, JudgeUnverified, JudgeRevert,
        JudgeRaiseFloor, JudgeFloorLost, JudgeUnproven, TrialAgain, TrialOver,
        Typed, Held, RisingInv, Good, disk, OnDisk, At, OfferOk, RollBack,
        LaunchRest, Others, Judged, Active, Verifies
  <2>4. CASE PromoteStep
    BY <2>0, <2>4
    DEF PromoteStep, PromoteClear, PromoteKeep, PromoteSwap, PromoteFails,
        PromoteTidy, Typed, Held, RisingInv, Good, disk, OnDisk, At, OfferOk,
        RollBack, LaunchRest, Others, Judged, Active, Verifies
  <2>5. CASE RefuseStep
    BY <2>0, <2>5
    DEF RefuseStep, Refuse, DropActive, DropMarks, Note, ConsumeRevert, Typed,
        Held, RisingInv, Good, disk, OnDisk, At, OfferOk, RollBack, LaunchRest,
        Others, Judged, Active, Verifies
  <2>6. CASE OfferStep
    BY <2>0, <2>6
    DEF OfferStep, NoOffer, OfferStart, OfferLater, OfferClear, OfferTake,
        OfferTakeFails, OfferRefused, OfferDrop, Typed, Held, RisingInv, Good, disk, OnDisk,
        At, OfferOk, RollBack, LaunchRest, Others, Judged, Active, Verifies
  <2>7. CASE FallbackStep
    BY <2>0, <2>7
    DEF FallbackStep, NoFallback, FallbackGood, FallbackBad, DropGood,
        UsePrev,
        CheckPrev, KeepGood, RaiseToGood, Typed, Held, RisingInv, Good, disk,
        OnDisk, At, OfferOk, RollBack, LaunchRest, Others, Judged, Active,
        Verifies
  <2>8. CASE SettleStep
    BY <2>0, <2>8
    DEF SettleStep, Settle, Publish, PublishFails, Typed, Held, RisingInv,
        Good, disk, OnDisk, At, OfferOk, RollBack, LaunchRest, Others, Judged,
        Active, Verifies
  <2>9. CASE UiStep
    BY <2>0, <2>9
    DEF UiStep, StageBegin, StageFails, StageVerified, StageAside,
        StageCommit,
        StageCommitFails, StageDurable, StageUndo, StageSweep, DiscardAside,
        DiscardPending, AllowSwitch, HealthWrite, RevertWrite, RollbackTake,
        Typed, Held, RisingInv, Good, disk, OnDisk, At, OfferOk, RollBack,
        LaunchRest, Others, Judged, Active, Verifies
  <2>10. CASE LaunchStep
    BY <2>0, <2>10
    DEF LaunchStep, HookFlashed, HookLauncher, Watcher, UiExits, HookAgain,
        Ladder, Typed, Held, RisingInv, Good, disk, OnDisk, At, OfferOk,
        RollBack, LaunchRest, Others, Judged, Active, Verifies
  <2>11. CASE PowerCut
    BY <2>0, <2>11 DEF Typed, PowerCut
  <2>12. CASE FillOrFree
    BY <2>0, <2>12 DEF Typed, FillOrFree
  <2>13. CASE \E d \in {"active", "good", "good.prev"} : Decay(d)
    BY <2>0, <2>13 DEF Typed, Decay
  <2> QED
    BY <2>1, <2>2, <2>3, <2>4, <2>5, <2>6, <2>7, <2>8, <2>9, <2>10, <2>11,
       <2>12, <2>13,
       BootPhases
    DEF Next
<1>2. CASE "sync" \notin Faults
  BY <1>1, <1>2, RisingInvariant, TypeInvariant, PTL DEF Spec, FloorMonotone
<1> QED
  BY <1>2

-----------------------------------------------------------------------------
\* The file of refused shas: a new line is remembered, nothing comes in with it,
\* and nothing is forgotten while there are fewer than Keep lines.
LEMMA RememberAdds ==
    ASSUME NEW shas \in Seq(Bundle), NEW b \in Bundle
    PROVE  /\ Recalled(Remember(shas, b)) \subseteq Recalled(shas) \cup {b}
           /\ b \in Recalled(Remember(shas, b))
           /\ Len(Remember(shas, b)) <= Len(shas) + 1
           /\ Len(shas) < Keep
                => Recalled(Remember(shas, b)) = Recalled(shas) \cup {b}
<1> DEFINE old == IF Len(shas) < Keep THEN shas
                  ELSE SubSeq(shas, Len(shas) - Keep + 2, Len(shas))
<1>1. Remember(shas, b) = Append(old, b)
  BY DEF Remember
<1>2. /\ old \in Seq(Bundle) /\ Len(old) <= Len(shas)
      /\ \A i \in 1 .. Len(old) : old[i] \in Recalled(shas)
  <2>1. CASE Len(shas) < Keep
    BY <2>1 DEF Recalled
  <2>2. CASE ~(Len(shas) < Keep)
    <3> DEFINE m == Len(shas) - Keep + 2
    <3>1. Len(shas) \in Nat /\ Keep \in Nat /\ Keep >= 1 /\ Keep <= Len(shas)
      BY <2>2, NumbersTyped
    <3>2. m \in 1 .. Len(shas) + 1
      BY <3>1
    <3>3. old = SubSeq(shas, m, Len(shas))
      BY <2>2
    <3> HIDE DEF m, old
    <3>4. /\ SubSeq(shas, m, Len(shas)) \in Seq(Bundle)
          /\ Len(SubSeq(shas, m, Len(shas))) = Len(shas) - m + 1
          /\ \A i \in 1 .. Len(shas) - m + 1 :
                SubSeq(shas, m, Len(shas))[i] = shas[m + i - 1]
      BY <3>1, <3>2
    <3>5. \A i \in 1 .. Len(shas) - m + 1 : m + i - 1 \in 1 .. Len(shas)
      BY <3>1, <3>2
    <3>6. Len(shas) - m + 1 <= Len(shas)
      BY <3>1, <3>2
    <3> QED
      BY <3>3, <3>4, <3>5, <3>6 DEF Recalled
  <2> QED
    BY <2>1, <2>2
<1>4. Len(shas) < Keep => old = shas
  OBVIOUS
<1> HIDE DEF old
<1>5. /\ Len(Append(old, b)) = Len(old) + 1
      /\ Append(old, b)[Len(old) + 1] = b
      /\ \A i \in 1 .. Len(old) : Append(old, b)[i] = old[i]
  BY <1>2
<1>6. Recalled(Append(old, b)) = Recalled(old) \cup {b}
  BY <1>2, <1>5 DEF Recalled
<1>7. Recalled(old) \subseteq Recalled(shas)
  BY <1>2 DEF Recalled
<1> QED
  BY <1>1, <1>2, <1>4, <1>5, <1>6, <1>7

\* What is remembered is a bundle.
LEMMA RecalledBundles ==
    ASSUME NEW shas \in Seq(Bundle)
    PROVE  Recalled(shas) \subseteq Bundle
BY DEF Recalled

-----------------------------------------------------------------------------
\* Why a refused sha stays out.  The next boot comes to the same verdict about
\* a build that was refused but, power being cut, not yet dropped.
Condemned ==
    \/ crashed
    \/ mark["revert"] = dir["active"]
    \/ ~BootsLeft /\ ~Proven

Undecided ==
    {"off", "restore", "sweep", "aside", "orphan", "judge", "again", "refuse",
     "dropActive"}

RefusedInv ==
    /\ ~full
    /\ dir["active"] \in Recalled(rejected) => Condemned /\ pc \in Undecided
    /\ pc = "again" => ~crashed /\ mark["revert"] # dir["active"] /\ ~Proven
    /\ pc = "refuse" /\ blame.sha # None
          => blame.sha = dir["active"] /\ Condemned
    /\ pc \in {"offerClear", "offerTake"}
          => dir["pending"] \notin Recalled(rejected)

\* The types this argument needs.
RefusedTypes ==
    /\ dir \in [Slot -> Content]
    /\ {None, Torn} \cap Bundle = {}
    /\ Recalled(rejected) \subseteq Bundle

\* A step that refuses nothing, brings nothing on trial and leaves a condemned
\* build condemned keeps RefusedInv.
LEMMA RefusedQuiet ==
    ASSUME RefusedTypes, RefusedInv, UNCHANGED rejected, ~full',
           dir'["active"] \in {dir["active"], None, Torn},
           dir'["active"] \in Bundle /\ Condemned /\ pc \in Undecided
              => Condemned' /\ pc' \in Undecided,
           pc' \notin {"again", "refuse", "offerClear", "offerTake"}
    PROVE  RefusedInv'
BY DEF RefusedInv, RefusedTypes

\* The verdict depends on the trial, its markers and the crash flag only.
LEMMA CondemnedStays ==
    ASSUME dir'["active"] = dir["active"], UNCHANGED <<trial, crashed, mark>>
    PROVE  Condemned' = Condemned
BY DEF Condemned, BootsLeft, OnTrialSha, Proven, Active

\* A verdict that was recorded is reached again until the build is dropped.
LEMMA RefusedStep ==
    ASSUME TypeInv, RefusedInv, [Next]_allVars,
           "full" \notin Faults, "sync" \notin Faults
    PROVE  RefusedInv'
<1>a. RefusedTypes
  <2>1. rejected \in Seq(Bundle)
    BY DEF TypeInv, TypeOK, DiskOK
  <2> QED
    BY <2>1, RecalledBundles, ValuesDistinct
    DEF RefusedTypes, TypeInv, TypeOK, DiskOK
<1>b. ~full
  BY DEF RefusedInv
<1> USE <1>b DEF RefusedTypes
<1>1. CASE RestoreStep
  <2>1. /\ pc' \in {"restore", "sweep", "aside", "orphan", "judge"}
        /\ UNCHANGED <<rejected, full>> /\ dir'["active"] = dir["active"]
    BY ONLY <1>a, <1>1
    DEF RefusedTypes, RestoreStep, PowerOn, RestoreGood, SweepIncoming, SettleAside,
        DropOrphanTrial, At, Then, OnDisk, Moved, Removed, disk, Slot
  <2>2. dir["active"] \in Bundle => UNCHANGED <<trial, crashed, mark>>
    BY ONLY <1>a, <1>1
    DEF RefusedTypes, RestoreStep, PowerOn, RestoreGood, SweepIncoming, SettleAside,
        DropOrphanTrial, OnDisk, disk
  <2> QED
    BY ONLY <1>a, <1>b, <2>1, <2>2, RefusedInv, RefusedQuiet, CondemnedStays
    DEF Undecided
<1>2. CASE JudgeStep
  BY <1>a, <1>2
  DEF JudgeStep, NoActive, JudgeCrashed, JudgeUnverified, JudgeRevert,
      JudgeRaiseFloor, JudgeFloorLost, JudgeUnproven, TrialAgain, TrialOver,
      RefusedInv, Condemned, Undecided, BootsLeft, OnTrialSha, WritesOk, Judged,
      RollBack, Reverted, Proven, At, Then, Active, Verifies, disk
<1>3. CASE PromoteStep
  BY ONLY <1>a, <1>b, <1>3, RefusedInv, RefusedQuiet
  DEF RefusedTypes, PromoteStep, PromoteClear, PromoteKeep, PromoteSwap,
      PromoteFails,
      PromoteTidy, At, Then, OnDisk, Moved, Removed, Undecided, Slot
<1>4. CASE RefuseStep
  <2>1. CASE Refuse
    <3>1. pc = "refuse" /\ pc' = "dropActive"
          /\ UNCHANGED <<dir, trial, crashed, mark, full>>
      BY ONLY <2>1 DEF Refuse, At, Then
    <3>2. Condemned' = Condemned
      BY ONLY <3>1 DEF Condemned, BootsLeft, OnTrialSha, Proven, Active
    <3>3. CASE rejected' = rejected
      BY ONLY <3>1, <3>2, <3>3, RefusedInv DEF RefusedInv, Undecided
    <3>4. CASE rejected' # rejected
      <4>1. /\ blame.sha # None
            /\ rejected' = Remember(rejected, blame.sha)
        BY ONLY <2>1, <3>4 DEF Refuse
      <4>2. blame.sha = dir["active"] /\ Condemned
        BY ONLY <3>1, <4>1, RefusedInv DEF RefusedInv
      <4> QED
        BY ONLY <3>1, <3>2, <4>2, RefusedInv DEF RefusedInv, Undecided
    <3> QED
      BY <3>3, <3>4
  <2>2. CASE DropActive
    BY ONLY <1>a, <2>2, RefusedInv, RefusedQuiet
    DEF DropActive, Removed, At, Then, OnDisk, RefusedInv, Undecided, Slot
  <2>3. CASE DropMarks \/ Note \/ ConsumeRevert
    BY ONLY <1>a, <2>3, RefusedInv, RefusedQuiet
    DEF DropMarks, Note, ConsumeRevert, At, Then, RefusedInv, Undecided
  <2> QED
    BY <1>4, <2>1, <2>2, <2>3 DEF RefuseStep
<1>5. CASE OfferStep
  <2>1. CASE OfferStart \/ OfferClear \/ OfferTake
    BY ONLY <1>a, <1>b, <2>1, RefusedInv
    DEF RefusedTypes, OfferStart, OfferClear, OfferTake, OfferOk, Offered, RefusedInv,
        Undecided, At, Then, OnDisk, Moved, Slot
  <2>2. CASE NoOffer \/ OfferLater \/ OfferTakeFails \/ OfferRefused \/ OfferDrop
    BY ONLY <1>a, <1>b, <2>2, RefusedInv, RefusedQuiet
    DEF RefusedTypes, NoOffer, OfferLater, OfferTakeFails, OfferRefused, OfferDrop, At, Then, OnDisk,
        Removed, Undecided, Slot, disk
  <2> QED
    BY <1>5, <2>1, <2>2 DEF OfferStep
<1>6. CASE FallbackStep
  BY ONLY <1>a, <1>b, <1>6, RefusedInv, RefusedQuiet
  DEF RefusedTypes, FallbackStep, NoFallback, FallbackGood, FallbackBad, DropGood,
      UsePrev,
      CheckPrev, KeepGood, RaiseToGood, At, Then, OnDisk, Moved, Removed,
      Undecided, Slot, disk
<1>7. CASE SettleStep
  BY ONLY <1>a, <1>b, <1>7, RefusedInv, RefusedQuiet
  DEF SettleStep, Settle, Publish, PublishFails, At, Then, Undecided, disk
<1>8. CASE UiStep
  <2>1. /\ pc = "up" /\ UNCHANGED <<pc, rejected, full>>
        /\ dir'["active"] = dir["active"]
    BY ONLY <1>a, <1>8
    DEF RefusedTypes, UiStep, StageBegin, StageFails, StageVerified, StageAside,
        StageCommit, StageCommitFails, StageDurable, StageUndo, StageSweep,
        DiscardAside, DiscardPending, AllowSwitch, HealthWrite, RevertWrite,
        RollbackTake, Worker, DiskosUp, Others, Moved, Removed, Slot, disk,
        boot
  <2> QED
    BY ONLY <1>a, <1>b, <2>1, RefusedInv, RefusedQuiet DEF Undecided
<1>9. CASE LaunchStep
  <2>1. /\ pc \in {"hook", "ladder", "up"} /\ pc' \in {"hook", "ladder", "up"}
        /\ UNCHANGED <<dir, rejected, full>>
    BY ONLY <1>9
    DEF LaunchStep, HookFlashed, HookLauncher, Watcher, UiExits, HookAgain,
        Ladder, disk, boot
  <2> QED
    BY ONLY <1>a, <1>b, <2>1, RefusedInv, RefusedQuiet DEF Undecided
<1>10. CASE PowerCut
  <2>1. /\ pc' = "off" /\ UNCHANGED <<rejected, full>>
        /\ pc \in Undecided => UNCHANGED <<trial, crashed, mark>>
    BY ONLY <1>10 DEF PowerCut, HalfUnlinked, Undecided
  <2>2. dir' = dir \/ \E d \in Slot : dir' = [dir EXCEPT ![d] = Torn]
    BY ONLY <1>10 DEF PowerCut, Doomed, Slot
  <2>3. dir'["active"] \in {dir["active"], Torn}
    BY ONLY <1>a, <2>2 DEF RefusedTypes, Slot
  <2> QED
    BY ONLY <1>a, <1>b, <2>1, <2>3, RefusedInv, RefusedQuiet, CondemnedStays
    DEF RefusedTypes, Undecided
<1>11. CASE FillOrFree
  BY <1>11 DEF FillOrFree
<1>12. CASE \E d \in {"active", "good", "good.prev"} : Decay(d)
  <2>1. /\ pc \in {"off", "up"}
        /\ UNCHANGED <<pc, rejected, full, trial, crashed, mark>>
        /\ \E d \in Slot : dir' = [dir EXCEPT ![d] = Torn]
    BY ONLY <1>12 DEF Decay, Slot, boot
  <2>2. dir'["active"] \in {dir["active"], Torn}
    BY ONLY <1>a, <2>1 DEF RefusedTypes, Slot
  <2> QED
    BY ONLY <1>a, <1>b, <2>1, <2>2, RefusedInv, RefusedQuiet, CondemnedStays
    DEF RefusedTypes, Undecided
<1>13. CASE UNCHANGED allVars
  <2>1. UNCHANGED <<dir, trial, crashed, mark, rejected, full, pc, blame>>
    BY ONLY <1>13 DEF allVars, vars, disk, boot
  <2>2. (Condemned <=> Condemned') /\ (Proven <=> Proven')
    BY ONLY <2>1
    DEF Condemned, BootsLeft, OnTrialSha, Proven, Active
  <2> QED
    BY ONLY <2>1, <2>2, RefusedInv DEF RefusedInv
<1> QED
  BY <1>1, <1>2, <1>3, <1>4, <1>5, <1>6, <1>7, <1>8, <1>9, <1>10, <1>11,
     <1>12, <1>13, BootPhases
  DEF Next

\* RefusedInv holds throughout, while writes and syncs succeed.
LEMMA RefusedInvariant ==
    Spec /\ "full" \notin Faults /\ "sync" \notin Faults => []RefusedInv
<1>1. Init => RefusedInv
  BY ValuesDistinct DEF Init, RefusedInv, Recalled
<1>2. "full" \notin Faults /\ "sync" \notin Faults
      /\ TypeInv /\ RefusedInv /\ [Next]_allVars => RefusedInv'
  BY RefusedStep
<1>3. CASE "full" \notin Faults /\ "sync" \notin Faults
  BY <1>1, <1>2, <1>3, TypeInvariant, PTL DEF Spec
<1> QED
  BY <1>3

\* Only ota_rollback writes the file, and it records what it writes.
LEMMA RejectedByRefuse ==
    ASSUME [Next]_allVars, rejected' # rejected \/ refused' # refused
    PROVE  Refuse
<1>1. CASE RestoreStep
  BY <1>1
  DEF RestoreStep, PowerOn, RestoreGood, SweepIncoming, SettleAside,
      DropOrphanTrial,
      disk, seen, OnDisk, Others, RollBack, LaunchRest
<1>2. CASE JudgeStep
  BY <1>2
  DEF JudgeStep, NoActive, JudgeCrashed, JudgeUnverified, JudgeRevert,
      JudgeRaiseFloor, JudgeFloorLost, JudgeUnproven, TrialAgain, TrialOver,
      disk, seen, OnDisk, Others, RollBack, LaunchRest
<1>3. CASE PromoteStep
  BY <1>3
  DEF PromoteStep, PromoteClear, PromoteKeep, PromoteSwap, PromoteFails,
      PromoteTidy,
      disk, seen, OnDisk, Others, RollBack, LaunchRest
<1>4. CASE RefuseStep
  BY <1>4
  DEF RefuseStep, DropActive, DropMarks, Note, ConsumeRevert, OnDisk,
      seen
<1>5. CASE OfferStep
  BY <1>5
  DEF OfferStep, NoOffer, OfferStart, OfferLater, OfferClear, OfferTake,
      OfferTakeFails, OfferRefused, OfferDrop,
      disk, seen, OnDisk, Others, RollBack, LaunchRest
<1>6. CASE FallbackStep
  BY <1>6
  DEF FallbackStep, NoFallback, FallbackGood, FallbackBad, DropGood, UsePrev,
      CheckPrev, KeepGood, RaiseToGood,
      disk, seen, OnDisk, Others, RollBack, LaunchRest
<1>7. CASE SettleStep
  BY <1>7 DEF SettleStep, Settle, Publish, PublishFails,
      disk, seen, OnDisk, Others, RollBack, LaunchRest
<1>8. CASE UiStep
  BY <1>8
  DEF UiStep, StageBegin, StageFails, StageVerified, StageAside, StageCommit,
      StageCommitFails, StageDurable, StageUndo, StageSweep, DiscardAside,
      DiscardPending, AllowSwitch, HealthWrite, RevertWrite, RollbackTake,
      disk, seen, OnDisk, Others, RollBack, LaunchRest
<1>9. CASE LaunchStep
  BY <1>9
  DEF LaunchStep, HookFlashed, HookLauncher, Watcher, UiExits, HookAgain,
      Ladder,
      disk, seen, OnDisk, Others, RollBack, LaunchRest
<1>10. CASE PowerCut
  BY <1>10 DEF PowerCut, seen
<1>11. CASE FillOrFree
  BY <1>11 DEF FillOrFree, seen
<1>12. CASE \E d \in {"active", "good", "good.prev"} : Decay(d)
  BY <1>12 DEF Decay, seen
<1>13. CASE UNCHANGED allVars
  BY <1>13 DEF allVars, vars, disk, seen
<1> QED
  BY <1>1, <1>2, <1>3, <1>4, <1>5, <1>6, <1>7, <1>8, <1>9, <1>10, <1>11,
     <1>12, <1>13, BootPhases
  DEF Next

\* What the file remembers stays out, however many lines it has forgotten.
LEMMA RecalledStaysOut ==
    ASSUME TypeInv, FloorInv, GoBackInv, RefusedInv, [Next]_allVars
    PROVE  /\ TrialStarts => dir'["active"] \notin Recalled(rejected)
           /\ Promotes => dir'["good"] \notin Recalled(rejected)
<1>1. ASSUME TrialStarts
      PROVE  dir'["active"] \notin Recalled(rejected)
  <2>1. OfferTake /\ dir'["active"] = dir["pending"]
    BY <1>1, TypesGiven, TrialFromPending
  <2> QED
    BY <2>1 DEF OfferTake, At, RefusedInv
<1>2. ASSUME Promotes
      PROVE  dir'["good"] \notin Recalled(rejected)
  <2>1. pc = "promoteSwap"
    BY <1>2, PromotionBySwap DEF PromoteSwap, At
  <2> QED
    BY <1>2, <2>1 DEF Promotes, RefusedInv, Undecided
<1> QED
  BY <1>1, <1>2

\* The file `rejected` is never longer than what it can hold: no refusal makes
\* it forget an earlier one.
NeverForgets == [][rejected' # rejected => Len(rejected) < Keep]_allVars

AllRecalled == refused \subseteq Recalled(rejected)

\* While nothing is forgotten, the file remembers every sha ever refused.
LEMMA AllRecalledStep ==
    ASSUME TypeInv, AllRecalled, [Next]_allVars,
           rejected' # rejected => Len(rejected) < Keep
    PROVE  AllRecalled'
<1>1. CASE rejected' = rejected /\ refused' = refused
  BY ONLY <1>1, AllRecalled DEF AllRecalled
<1>2. CASE ~(rejected' = rejected /\ refused' = refused)
  <2>1. Refuse
    BY <1>2, RejectedByRefuse
  <2>2. /\ blame.sha # None
        /\ rejected' = Remember(rejected, blame.sha)
        /\ refused' = refused \cup {blame.sha}
    BY ONLY <1>2, <2>1 DEF Refuse
  <2>3. rejected \in Seq(Bundle) /\ blame.sha \in Bundle
    BY <2>2 DEF TypeInv, TypeOK, DiskOK, BootOK
  <2>4. CASE rejected' = rejected
    <3>1. blame.sha \in Recalled(rejected)
      BY ONLY <2>2, <2>3, <2>4, RememberAdds
    <3> QED
      BY ONLY <2>2, <2>4, <3>1, AllRecalled DEF AllRecalled
  <2>5. CASE Len(rejected) < Keep
    BY ONLY <2>2, <2>3, <2>5, RememberAdds, AllRecalled DEF AllRecalled
  <2> QED
    BY <2>4, <2>5
<1> QED
  BY <1>1, <1>2

\* Nothing is forgotten: the step facts above, at every step.
LEMMA AllRecalledInvariant == Spec /\ NeverForgets => []AllRecalled
<1>1. Init => AllRecalled
  BY DEF Init, AllRecalled
<1>2. TypeInv /\ AllRecalled /\ [Next]_allVars
      /\ [rejected' # rejected => Len(rejected) < Keep]_allVars => AllRecalled'
  <2> SUFFICES ASSUME TypeInv, AllRecalled, [Next]_allVars,
                      [rejected' # rejected => Len(rejected) < Keep]_allVars
               PROVE  AllRecalled'
    OBVIOUS
  <2>1. rejected' # rejected => Len(rejected) < Keep
    BY DEF allVars, vars, disk
  <2> QED
    BY <2>1, AllRecalledStep
<1> QED
  BY <1>1, <1>2, TypeInvariant, PTL DEF Spec, NeverForgets

\* As long as /usr/data takes what is written and the file of refused shas has
\* not yet had to forget one, no build a rollback refused is put on trial
\* again or promoted, wherever power is cut between the refusal and the removal
\* of the build (S97diskos_install ota_rollback, ota_is_rejected).
THEOREM RefusedForGood ==
    Spec /\ "full" \notin Faults /\ "sync" \notin Faults /\ NeverForgets
      => RefusedStaysOut
<1>1. TypeInv /\ FloorInv /\ GoBackInv /\ RefusedInv /\ AllRecalled
      /\ [Next]_allVars
      => [ /\ TrialStarts => dir'["active"] \notin refused
           /\ Promotes => dir'["good"] \notin refused ]_allVars
  BY RecalledStaysOut DEF AllRecalled
<1> QED
  BY <1>1, TypeInvariant, FloorInvariant, GoBackInvariant, RefusedInvariant,
     AllRecalledInvariant, PTL
  DEF Spec, RefusedStaysOut

-----------------------------------------------------------------------------
\* What is on trial changes by its removal, by damage, or by an offer taken.
LEMMA ActiveChanges ==
    ASSUME Typed, [Next]_allVars, ~OfferTake
    PROVE  dir'["active"] \in {dir["active"], None, Torn}
<1> USE DEF Typed, Moved, Removed, Slot
<1>1. CASE RestoreStep
  BY <1>1
  DEF RestoreStep, PowerOn, RestoreGood, SweepIncoming, SettleAside,
      DropOrphanTrial,
      disk, OnDisk, Others, At, Then, RollBack,
      LaunchRest, Worker, DiskosUp
<1>2. CASE JudgeStep
  BY <1>2
  DEF JudgeStep, NoActive, JudgeCrashed, JudgeUnverified, JudgeRevert,
      JudgeRaiseFloor, JudgeFloorLost, JudgeUnproven, TrialAgain, TrialOver,
      disk, OnDisk, Others, At, Then, RollBack,
      LaunchRest, Worker, DiskosUp
<1>3. CASE PromoteStep
  BY <1>3
  DEF PromoteStep, PromoteClear, PromoteKeep, PromoteSwap, PromoteFails,
      PromoteTidy,
      disk, OnDisk, Others, At, Then, RollBack,
      LaunchRest, Worker, DiskosUp
<1>4. CASE RefuseStep
  BY <1>4
  DEF RefuseStep, Refuse, DropActive, DropMarks, Note, ConsumeRevert,
      disk, OnDisk, Others, At, Then, RollBack,
      LaunchRest, Worker, DiskosUp
<1>5. CASE OfferStep
  BY <1>5
  DEF OfferStep, NoOffer, OfferStart, OfferLater, OfferClear, OfferTakeFails,
      OfferRefused,
      OfferDrop, disk, OnDisk
<1>6. CASE FallbackStep
  BY <1>6
  DEF FallbackStep, NoFallback, FallbackGood, FallbackBad, DropGood, UsePrev,
      CheckPrev, KeepGood, RaiseToGood,
      disk, OnDisk, Others, At, Then, RollBack,
      LaunchRest, Worker, DiskosUp
<1>7. CASE SettleStep
  BY <1>7 DEF SettleStep, Settle, Publish, PublishFails,
      disk, OnDisk, Others, At, Then, RollBack,
      LaunchRest, Worker, DiskosUp
<1>8. CASE UiStep
  BY <1>8
  DEF UiStep, StageBegin, StageFails, StageVerified, StageAside, StageCommit,
      StageCommitFails, StageDurable, StageUndo, StageSweep, DiscardAside,
      DiscardPending, AllowSwitch, HealthWrite, RevertWrite, RollbackTake,
      disk, OnDisk, Others, At, Then, RollBack,
      LaunchRest, Worker, DiskosUp
<1>9. CASE LaunchStep
  BY <1>9
  DEF LaunchStep, HookFlashed, HookLauncher, Watcher, UiExits, HookAgain,
      Ladder,
      disk, OnDisk, Others, At, Then, RollBack,
      LaunchRest, Worker, DiskosUp
<1>10. CASE PowerCut
  BY <1>10 DEF PowerCut, Doomed
<1>11. CASE FillOrFree
  BY <1>11 DEF FillOrFree
<1>12. CASE \E d \in {"active", "good", "good.prev"} : Decay(d)
  BY <1>12 DEF Decay
<1>13. CASE UNCHANGED allVars
  BY <1>13 DEF allVars, vars, disk
<1> QED
  BY <1>1, <1>2, <1>3, <1>4, <1>5, <1>6, <1>7, <1>8, <1>9, <1>10, <1>11,
     <1>12, <1>13, BootPhases
  DEF Next

\* Between a refusal and the removal of the refused build only a power cut can
\* come, and it is counted.
LEMMA DropIsNext ==
    ASSUME [Next]_allVars, pc = "dropActive", pc' # "dropActive"
    PROVE  DropActive \/ PowerCut
<1>1. CASE RestoreStep
  BY <1>1
  DEF RestoreStep, PowerOn, RestoreGood, SweepIncoming, SettleAside,
      DropOrphanTrial,
      At, Then, RollBack, Judged, Worker,
      DiskosUp, boot, LaunchRest
<1>2. CASE JudgeStep
  BY <1>2
  DEF JudgeStep, NoActive, JudgeCrashed, JudgeUnverified, JudgeRevert,
      JudgeRaiseFloor, JudgeFloorLost, JudgeUnproven, TrialAgain, TrialOver,
      At, Then, RollBack, Judged, Worker,
      DiskosUp, boot, LaunchRest
<1>3. CASE PromoteStep
  BY <1>3
  DEF PromoteStep, PromoteClear, PromoteKeep, PromoteSwap, PromoteFails,
      PromoteTidy,
      At, Then, RollBack, Judged, Worker,
      DiskosUp, boot, LaunchRest
<1>4. CASE RefuseStep
  BY <1>4 DEF RefuseStep, Refuse, DropMarks, Note, ConsumeRevert, At
<1>5. CASE OfferStep
  BY <1>5
  DEF OfferStep, NoOffer, OfferStart, OfferLater, OfferClear, OfferTake,
      OfferTakeFails, OfferRefused, OfferDrop,
      At, Then, RollBack, Judged, Worker,
      DiskosUp, boot, LaunchRest
<1>6. CASE FallbackStep
  BY <1>6
  DEF FallbackStep, NoFallback, FallbackGood, FallbackBad, DropGood, UsePrev,
      CheckPrev, KeepGood, RaiseToGood,
      At, Then, RollBack, Judged, Worker,
      DiskosUp, boot, LaunchRest
<1>7. CASE SettleStep
  BY <1>7 DEF SettleStep, Settle, Publish, PublishFails,
      At, Then, RollBack, Judged, Worker,
      DiskosUp, boot, LaunchRest
<1>8. CASE UiStep
  BY <1>8
  DEF UiStep, StageBegin, StageFails, StageVerified, StageAside, StageCommit,
      StageCommitFails, StageDurable, StageUndo, StageSweep, DiscardAside,
      DiscardPending, AllowSwitch, HealthWrite, RevertWrite, RollbackTake,
      At, Then, RollBack, Judged, Worker,
      DiskosUp, boot, LaunchRest
<1>9. CASE LaunchStep
  BY <1>9
  DEF LaunchStep, HookFlashed, HookLauncher, Watcher, UiExits, HookAgain,
      Ladder,
      At, Then, RollBack, Judged, Worker,
      DiskosUp, boot, LaunchRest
<1>10. CASE PowerCut
  BY <1>10
<1>11. CASE FillOrFree
  BY <1>11 DEF FillOrFree, boot
<1>12. CASE \E d \in {"active", "good", "good.prev"} : Decay(d)
  BY <1>12 DEF Decay
<1>13. CASE UNCHANGED allVars
  BY <1>13 DEF allVars, vars, boot
<1> QED
  BY <1>1, <1>2, <1>3, <1>4, <1>5, <1>6, <1>7, <1>8, <1>9, <1>10, <1>11,
     <1>12, <1>13, BootPhases
  DEF Next

\* The count of power cuts never goes down.
LEMMA CutsCounted ==
    ASSUME TypeInv, [Next]_allVars
    PROVE  /\ cuts' \in Nat /\ cuts \in Nat /\ cuts <= cuts'
           /\ PowerCut /\ pc # "up" => cuts' = cuts + 1
<1>1. cuts \in Nat
  BY MaxCutsTyped DEF TypeInv, TypeOK, SeenOK
<1>2. CASE PowerCut
  BY ONLY <1>1, <1>2 DEF PowerCut
<1>3. CASE ~PowerCut
  <2>1. cuts' = cuts
    BY ONLY <1>3, [Next]_allVars DEF Next, FillOrFree, Decay, allVars
  <2> QED
    BY ONLY <1>1, <1>3, <2>1
<1> QED
  BY <1>2, <1>3

-----------------------------------------------------------------------------
\* Why Keep lines can be enough.  A sha is written again only when power is cut
\* between its refusal and the removal of the build, so the file is no longer
\* than the refused builds and the cuts together.
CountInv ==
    /\ Len(rejected) <= Cardinality(refused) + cuts
    /\ dir["active"] \in refused /\ pc # "dropActive"
          => Len(rejected) < Cardinality(refused) + cuts

\* One line more for a refusal, one build or one power cut more as well.
LEMMA CountStep ==
    ASSUME TypeInv, RefusedInv, AllRecalled, CountInv, [Next]_allVars,
           IsFiniteSet(Bundle)
    PROVE  CountInv'
<1>1. /\ Typed /\ rejected \in Seq(Bundle)
      /\ refused \subseteq Bundle /\ IsFiniteSet(refused)
      /\ {None, Torn} \cap refused = {}
  <2>1. rejected \in Seq(Bundle) /\ refused \subseteq Bundle
    BY DEF TypeInv, TypeOK, DiskOK, SeenOK
  <2> QED
    BY <2>1, TypesGiven, FS_Subset, ValuesDistinct
<1>2. Cardinality(refused) \in Nat /\ Len(rejected) \in Nat
  BY <1>1, FS_CardinalityType
<1>3. /\ cuts' \in Nat /\ cuts \in Nat /\ cuts <= cuts'
      /\ PowerCut /\ pc # "up" => cuts' = cuts + 1
  BY CutsCounted
<1>4. CASE rejected' = rejected /\ refused' = refused
  <2>1. (Len(rejected) <= Cardinality(refused) + cuts)'
    BY ONLY <1>2, <1>3, <1>4, CountInv DEF CountInv
  <2>2. ASSUME dir'["active"] \in refused, pc' # "dropActive"
        PROVE  Len(rejected) < Cardinality(refused) + cuts'
    <3>1. dir'["active"] = dir["active"]
      <4>1. ~OfferTake
        <5>1. OfferTake => dir'["active"] = dir["pending"] /\ pc = "offerTake"
          BY ONLY <1>1 DEF OfferTake, Moved, Typed, Slot, At
        <5>2. pc = "offerTake" => dir["pending"] \notin refused
          BY DEF RefusedInv, AllRecalled
        <5> QED
          BY <2>2, <5>1, <5>2
      <4> QED
        BY <1>1, <2>2, <4>1, ActiveChanges
    <3>2. CASE pc # "dropActive"
      BY ONLY <1>2, <1>3, <2>2, <3>1, <3>2, CountInv DEF CountInv
    <3>3. CASE pc = "dropActive"
      <4>1. DropActive => dir'["active"] = None
        BY ONLY <1>1 DEF DropActive, Removed, Typed, Slot
      <4>2. PowerCut
        BY <1>1, <2>2, <3>3, <4>1, DropIsNext
      <4>3. cuts' = cuts + 1
        BY <1>3, <3>3, <4>2
      <4> QED
        BY ONLY <1>2, <1>3, <4>3, CountInv DEF CountInv
    <3> QED
      BY <3>2, <3>3
  <2> QED
    BY ONLY <1>4, <2>1, <2>2 DEF CountInv
<1>5. CASE ~(rejected' = rejected /\ refused' = refused)
  <2>1. Refuse
    BY <1>5, RejectedByRefuse
  <2>2. /\ blame.sha # None /\ pc = "refuse" /\ pc' = "dropActive"
        /\ rejected' = Remember(rejected, blame.sha)
        /\ refused' = refused \cup {blame.sha}
    BY ONLY <1>5, <2>1 DEF Refuse, At, Then
  <2>3. blame.sha = dir["active"] /\ blame.sha \in Bundle
    BY <2>2 DEF RefusedInv, TypeInv, TypeOK, BootOK
  <2>4. Len(rejected)' <= Len(rejected) + 1 /\ Len(rejected)' \in Nat
    <3>1. Remember(rejected, blame.sha) \in Seq(Bundle)
      BY <1>1, <2>3, RememberTyped DEF TypeInv, TypeOK, DiskOK
    <3> QED
      BY ONLY <1>1, <2>2, <2>3, <3>1, RememberAdds
  <2>5. CASE blame.sha \in refused
    <3>1. refused' = refused
      BY ONLY <2>2, <2>5
    <3>2. Len(rejected) < Cardinality(refused) + cuts
      BY ONLY <2>2, <2>3, <2>5, CountInv DEF CountInv
    <3>3. Cardinality(refused)' = Cardinality(refused)
      BY ONLY <3>1
    <3> QED
      BY ONLY <1>2, <1>3, <2>2, <2>4, <3>2, <3>3 DEF CountInv
  <2>6. CASE blame.sha \notin refused
    <3>1. Cardinality(refused)' = Cardinality(refused) + 1
      BY ONLY <1>1, <2>2, <2>6, FS_AddElement
    <3> QED
      BY ONLY <1>2, <1>3, <2>2, <2>4, <3>1, CountInv DEF CountInv
  <2> QED
    BY <2>5, <2>6
<1> QED
  BY <1>4, <1>5

\* With room for one line per bundle and per power cut nothing is forgotten.
LEMMA RoomForOneMore ==
    ASSUME TypeInv, RefusedInv, CountInv, [Next]_allVars, rejected' # rejected,
           IsFiniteSet(Bundle), Cardinality(Bundle) + MaxCuts <= Keep
    PROVE  Len(rejected) < Keep
<1>1. Refuse
  BY RejectedByRefuse
<1>2. blame.sha # None /\ pc = "refuse"
  BY <1>1 DEF Refuse, At
<1>3. blame.sha = dir["active"] /\ blame.sha \in Bundle
  BY <1>2 DEF RefusedInv, TypeInv, TypeOK, BootOK
<1>4. /\ refused \subseteq Bundle /\ rejected \in Seq(Bundle)
      /\ cuts \in Nat /\ MaxCuts \in Nat /\ cuts <= MaxCuts /\ Keep \in Nat
  BY MaxCutsTyped, NumbersTyped DEF TypeInv, TypeOK, DiskOK, SeenOK
<1>5. Cardinality(Bundle) \in Nat /\ Cardinality(refused) \in Nat
      /\ Len(rejected) \in Nat
  BY <1>4, FS_Subset, FS_CardinalityType
<1>6. CASE blame.sha \in refused
  <2>1. Len(rejected) < Cardinality(refused) + cuts
    BY ONLY <1>2, <1>3, <1>6, CountInv DEF CountInv
  <2>2. Cardinality(refused) <= Cardinality(Bundle)
    BY <1>4, FS_Subset
  <2> QED
    BY ONLY <1>4, <1>5, <2>1, <2>2, Cardinality(Bundle) + MaxCuts <= Keep
<1>7. CASE blame.sha \notin refused
  <2>1. Cardinality(refused \cup {blame.sha}) = Cardinality(refused) + 1
    BY <1>4, <1>7, FS_Subset, FS_AddElement
  <2>2. Cardinality(refused \cup {blame.sha}) <= Cardinality(Bundle)
    BY <1>3, <1>4, FS_Subset
  <2> QED
    BY ONLY <1>4, <1>5, <2>1, <2>2, CountInv, Cardinality(Bundle) + MaxCuts <= Keep
    DEF CountInv
<1> QED
  BY <1>6, <1>7

\* Where the file has a line for every bundle and every power cut in a boot,
\* it never forgets a sha, however the refusals and cuts fall: the hypothesis of
\* RefusedForGood and UpdateRefinesSlots holds (S97diskos_install ota_rollback).
THEOREM RoomSuffices ==
    /\ Spec /\ "full" \notin Faults /\ "sync" \notin Faults
    /\ IsFiniteSet(Bundle) /\ Cardinality(Bundle) + MaxCuts <= Keep
    => NeverForgets
<1> DEFINE Roomy == /\ "full" \notin Faults /\ "sync" \notin Faults
                    /\ IsFiniteSet(Bundle)
                    /\ Cardinality(Bundle) + MaxCuts <= Keep
<1>1. Init => CountInv /\ AllRecalled
  BY FS_EmptySet, ValuesDistinct DEF Init, CountInv, AllRecalled, Slot
<1>2. Roomy /\ TypeInv /\ RefusedInv /\ CountInv /\ AllRecalled /\ [Next]_allVars
      => CountInv' /\ AllRecalled'
  BY CountStep, AllRecalledStep, RoomForOneMore
<1>3. Roomy /\ TypeInv /\ RefusedInv /\ CountInv /\ [Next]_allVars
      => [rejected' # rejected => Len(rejected) < Keep]_allVars
  BY RoomForOneMore
<1>4. CASE Roomy
  <2>1. "full" \notin Faults /\ "sync" \notin Faults
    BY <1>4
  <2> HIDE DEF Roomy
  <2> QED
    BY <1>1, <1>2, <1>3, <1>4, <2>1, TypeInvariant, RefusedInvariant, PTL
    DEF Spec, NeverForgets
<1> QED
  BY <1>4

-----------------------------------------------------------------------------
\* The refinement.  What the directories hold, read as one base and one
\* candidate: the step lemmas below say which abstract step each phase takes.
Stutters ==
    UNCHANGED <<BaseOf, CandidateOf, accepted, refused>>

\* A step that moves neither what is on trial, nor the good builds, nor the
\* floor, nor the record of refusals, is no abstract step.
LEMMA SlotsQuiet ==
    ASSUME UNCHANGED <<accepted, refused>>,
           \A d \in {"active", "good", "good.prev"} : dir'[d] = dir[d]
    PROVE  Stutters
BY DEF Stutters, BaseOf, CandidateOf

\* What is on trial decides the candidate, the two good directories the base.
LEMMA SlotsParts ==
    /\ dir'["active"] = dir["active"] => UNCHANGED CandidateOf
    /\ UNCHANGED <<dir["good"], dir["good.prev"]>> => UNCHANGED BaseOf
BY DEF BaseOf, CandidateOf

\* All that the steps of the update rely on, gathered from its invariants.
SlotsInv ==
    /\ Typed /\ FloorInv /\ RisingInv /\ BaseInv /\ RefusedInv /\ AllRecalled

\* Recovery at the start of a boot puts a good build back and is no abstract
\* step.
LEMMA RestoreSlots ==
    ASSUME SlotsInv, RestoreStep
    PROVE  Stutters
<1> USE DEF SlotsInv, Typed, OnDisk, disk, seen, Slot
<1>1. CASE RestoreGood
  <2>1. CASE dir["good"] = None /\ dir["good.prev"] # None
    <3>1. /\ dir'["good"] = dir["good.prev"] /\ dir'["good.prev"] = None
          /\ dir'["active"] = dir["active"]
      BY <1>1, <2>1 DEF RestoreGood, Moved
    <3>2. UNCHANGED <<accepted, refused>>
      BY <1>1 DEF RestoreGood
    <3> QED
      BY <2>1, <3>1, <3>2 DEF Stutters, BaseOf, CandidateOf
  <2>2. CASE ~(dir["good"] = None /\ dir["good.prev"] # None)
    BY <1>1, <2>2, SlotsQuiet DEF RestoreGood
  <2> QED
    BY <2>1, <2>2
<1>2. CASE PowerOn \/ SweepIncoming \/ SettleAside \/ DropOrphanTrial
  BY <1>2, SlotsQuiet
  DEF PowerOn, SweepIncoming, SettleAside, DropOrphanTrial, Moved, Removed
<1> QED
  BY <1>1, <1>2 DEF RestoreStep

\* Judging a trial raises the floor to it, or is no abstract step.
LEMMA JudgeSlots ==
    ASSUME SlotsInv, JudgeStep, "full" \notin Faults, "sync" \notin Faults
    PROVE  Slots!Raise \/ Stutters
<1>1. CASE JudgeRaiseFloor
  <2>1. /\ dir["active"] \in Bundle /\ accepted' = Epoch[dir["active"]]
        /\ UNCHANGED <<dir, refused>>
    BY <1>1 DEF JudgeRaiseFloor, Judged, Verifies, Active, seen
  <2>2. accepted <= Epoch[dir["active"]] /\ accepted \in Nat
        /\ Epoch[dir["active"]] \in Nat
    BY <2>1 DEF SlotsInv, RisingInv, Typed
  <2>3. CandidateOf = dir["active"] /\ CandidateOf # None
    BY <2>1 DEF CandidateOf, SlotsInv, Typed
  <2>4. UNCHANGED <<BaseOf, CandidateOf, refused>>
    BY <2>1, SlotsParts
  <2>5. CASE accepted = Epoch[dir["active"]]
    BY <2>1, <2>4, <2>5 DEF Stutters
  <2>6. CASE accepted < Epoch[dir["active"]]
    BY <2>1, <2>2, <2>3, <2>4, <2>6 DEF Slots!Raise
  <2> QED
    BY ONLY <2>2, <2>5, <2>6
<1>2. CASE ~JudgeRaiseFloor
  BY <1>2, SlotsQuiet
  DEF JudgeStep, NoActive, JudgeCrashed, JudgeUnverified, JudgeRevert,
      JudgeFloorLost, JudgeUnproven, TrialAgain, TrialOver, RollBack, SlotsInv,
      RefusedInv, disk, seen
<1> QED
  BY <1>1, <1>2

\* The promoting rename accepts the candidate; the steps before and after it are
\* no abstract steps, and neither is undoing it.
LEMMA PromoteSlots ==
    ASSUME SlotsInv, PromoteStep
    PROVE  Slots!Accept \/ Stutters
<1> USE DEF SlotsInv, Typed, OnDisk, disk, seen, Slot
<1>1. CASE PromoteSwap
  <2>1. /\ dir["active"] \in Bundle
        /\ Epoch[dir["active"]] = accepted
        /\ dir["active"] \notin refused
    <3>1. pc = "promoteSwap"
      BY <1>1 DEF PromoteSwap, At
    <3>2. dir["active"] \in Bundle
      BY <3>1 DEF Held
    <3>3. Epoch[dir["active"]] <= accepted /\ accepted <= Epoch[dir["active"]]
      BY <3>1, <3>2 DEF FloorInv, RisingInv
    <3>4. Epoch[dir["active"]] \in Nat /\ accepted \in Nat
      BY <3>2
    <3>5. Epoch[dir["active"]] = accepted
      BY ONLY <3>3, <3>4
    <3> QED
      BY <3>1, <3>2, <3>5 DEF RefusedInv, Undecided, AllRecalled
  <2>2. /\ dir'["good"] = dir["active"] /\ dir'["active"] = None
        /\ UNCHANGED <<accepted, refused>>
    BY <1>1 DEF PromoteSwap, Moved, Active
  <2>3. /\ CandidateOf = dir["active"] /\ CandidateOf # None
        /\ CandidateOf' = None /\ BaseOf' = dir["active"]
    BY <2>1, <2>2 DEF CandidateOf, BaseOf
  <2> QED
    BY <2>1, <2>2, <2>3 DEF Slots!Accept
<1>2. CASE PromoteClear
  <2>1. CASE dir["good"] # None
    <3>1. dir["good"] \in Bundle /\ dir'["good"] = dir["good"]
          /\ dir'["active"] = dir["active"]
      BY <1>2, <2>1 DEF PromoteClear, Removed, BaseInv, Verifies
    <3> QED
      BY <1>2, <3>1 DEF PromoteClear, Stutters, BaseOf, CandidateOf
  <2>2. CASE dir["good"] = None
    BY <1>2, <2>2, SlotsQuiet DEF PromoteClear
  <2> QED
    BY <2>1, <2>2
<1>3. CASE PromoteKeep
  <2>1. dir["good"] \in Bundle
    BY <1>3 DEF PromoteKeep, At, BaseInv, Verifies
  <2>2. /\ dir'["good.prev"] = dir["good"] /\ dir'["good"] = None
        /\ dir'["active"] = dir["active"]
        /\ UNCHANGED <<accepted, refused>>
    BY <1>3 DEF PromoteKeep, Moved
  <2> QED
    BY <2>1, <2>2 DEF Stutters, BaseOf, CandidateOf
<1>4. CASE PromoteFails
  <2>1. CASE dir["good"] = None /\ dir["good.prev"] # None
    <3>1. /\ dir'["good"] = dir["good.prev"] /\ dir'["good.prev"] = None
          /\ dir'["active"] = dir["active"]
      BY <1>4, <2>1 DEF PromoteFails, Moved
    <3>2. UNCHANGED <<accepted, refused>>
      BY <1>4 DEF PromoteFails
    <3> QED
      BY <2>1, <3>1, <3>2 DEF Stutters, BaseOf, CandidateOf
  <2>2. CASE ~(dir["good"] = None /\ dir["good.prev"] # None)
    BY <1>4, <2>2, SlotsQuiet DEF PromoteFails
  <2> QED
    BY <2>1, <2>2
<1>5. CASE PromoteTidy
  BY <1>5, SlotsQuiet DEF PromoteTidy
<1> QED
  BY <1>1, <1>2, <1>3, <1>4, <1>5 DEF PromoteStep

\* Remembering a sha refuses the candidate, removing it drops the candidate.
LEMMA RefuseSlots ==
    ASSUME SlotsInv, TypeInv, RefuseStep
    PROVE  Slots!Refuse \/ Slots!Drop \/ Stutters
<1> USE DEF SlotsInv, Typed, OnDisk, disk, seen, Slot
<1>1. CASE Refuse
  <2>1. CASE refused' = refused
    BY <1>1, <2>1, SlotsQuiet DEF Refuse
  <2>2. CASE refused' # refused
    <3>1. /\ blame.sha # None /\ pc = "refuse"
          /\ refused' = refused \cup {blame.sha}
          /\ UNCHANGED <<dir, accepted>>
      BY <1>1, <2>2 DEF Refuse, At
    <3>2. blame.sha = dir["active"] /\ blame.sha \in Bundle
      BY <3>1 DEF RefusedInv, TypeInv, TypeOK, BootOK
    <3>3. CandidateOf = blame.sha /\ CandidateOf # None
      BY <3>2 DEF CandidateOf
    <3>4. UNCHANGED <<BaseOf, CandidateOf>>
      BY <3>1, SlotsParts
    <3> QED
      BY <3>1, <3>3, <3>4 DEF Slots!Refuse
  <2> QED
    BY <2>1, <2>2
<1>2. CASE DropActive
  <2>1. /\ dir'["active"] = None /\ dir'["good"] = dir["good"]
        /\ dir'["good.prev"] = dir["good.prev"]
        /\ UNCHANGED <<accepted, refused>>
    BY <1>2 DEF DropActive, Removed
  <2>2. BaseOf' = BaseOf /\ CandidateOf' = None
    BY <2>1 DEF BaseOf, CandidateOf
  <2> QED
    BY <2>1, <2>2 DEF Slots!Drop, Stutters
<1>3. CASE DropMarks \/ Note \/ ConsumeRevert
  BY <1>3, SlotsQuiet DEF DropMarks, Note, ConsumeRevert
<1> QED
  BY <1>1, <1>2, <1>3 DEF RefuseStep

\* Taking an offer tries a bundle above the floor that was not refused.
LEMMA OfferSlots ==
    ASSUME SlotsInv, OfferStep
    PROVE  (\E b \in Bundle : Slots!Try(b)) \/ Stutters
<1> USE DEF SlotsInv, Typed, OnDisk, disk, seen, Slot
<1>1. CASE OfferTake
  <2>1. pc = "offerTake"
    BY <1>1 DEF OfferTake, At
  <2>2. /\ dir["pending"] \in Bundle /\ accepted < Epoch[dir["pending"]]
        /\ dir["active"] = None
    BY <2>1 DEF RisingInv
  <2>3. dir["pending"] \notin refused
    BY <2>1 DEF RefusedInv, AllRecalled
  <2>4. /\ dir'["active"] = dir["pending"] /\ dir'["good"] = dir["good"]
        /\ dir'["good.prev"] = dir["good.prev"]
        /\ UNCHANGED <<accepted, refused>>
    BY <1>1 DEF OfferTake, Moved
  <2>5. /\ BaseOf' = BaseOf /\ CandidateOf = None
        /\ CandidateOf' = dir["pending"]
    BY <2>2, <2>4 DEF BaseOf, CandidateOf
  <2>6. Epoch[dir["pending"]] > accepted
    BY <2>2
  <2>7. Slots!Try(dir["pending"])
    BY ONLY <2>3, <2>4, <2>5, <2>6 DEF Slots!Try
  <2> QED
    BY <2>2, <2>7
<1>2. CASE NoOffer \/ OfferStart \/ OfferLater \/ OfferClear \/ OfferTakeFails
          \/ OfferRefused \/ OfferDrop
  BY <1>2, SlotsQuiet
  DEF NoOffer, OfferStart, OfferLater, OfferClear, OfferTakeFails, OfferRefused,
      OfferDrop,
      Removed
<1> QED
  BY <1>1, <1>2 DEF OfferStep

\* The fallback removes a build only when another whole one lies beside it, and
\* raises the floor to nothing newer: it is no abstract step.
LEMMA FallbackSlots ==
    ASSUME SlotsInv, FallbackStep
    PROVE  Stutters
<1> USE DEF SlotsInv, Typed, OnDisk, disk, seen, Slot
<1>1. CASE KeepGood
  <2>1. dir["good"] \in Bundle
    BY <1>1 DEF KeepGood, At, Held
  <2>2. /\ dir'["good"] = dir["good"] /\ dir'["active"] = dir["active"]
        /\ UNCHANGED <<accepted, refused>>
    BY <1>1 DEF KeepGood, Removed
  <2> QED
    BY <2>1, <2>2 DEF Stutters, BaseOf, CandidateOf
<1>2. CASE RaiseToGood
  <2>1. dir["good"] \in Bundle
    BY <1>2 DEF RaiseToGood, At, Held
  <2>2. Epoch[dir["good"]] <= accepted
    BY <2>1 DEF BaseInv, FloorInv, FloorCoversPromoted
  <2>3. Epoch[dir["good"]] \in Nat /\ accepted \in Nat
    BY <2>1
  <2>4. ~(Epoch[dir["good"]] > accepted)
    BY ONLY <2>2, <2>3
  <2>5. UNCHANGED <<dir, accepted, refused>>
    BY <1>2, <2>4 DEF RaiseToGood, Good
  <2> QED
    BY <2>5, SlotsQuiet
<1>3. CASE DropGood \/ UsePrev \/ CheckPrev
  BY <1>3 DEF DropGood, UsePrev, CheckPrev, At, BaseInv
<1>4. CASE NoFallback \/ FallbackGood \/ FallbackBad
  BY <1>4, SlotsQuiet DEF NoFallback, FallbackGood, FallbackBad
<1> QED
  BY <1>1, <1>2, <1>3, <1>4 DEF FallbackStep

\* Choosing what to run, the interface and the launcher leave the slots alone.
LEMMA RunningSlots ==
    ASSUME SlotsInv, SettleStep \/ UiStep \/ LaunchStep
    PROVE  Stutters
<1> USE DEF SlotsInv, Typed, Others, disk, seen, Slot
<1>1. CASE SettleStep
  BY <1>1, SlotsQuiet DEF SettleStep, Settle, Publish, PublishFails
<1>2. CASE UiStep
  <2>1. /\ UNCHANGED <<accepted, refused>>
        /\ \A d \in {"active", "good", "good.prev"} : dir'[d] = dir[d]
    BY <1>2
    DEF UiStep, StageBegin, StageFails, StageVerified, StageAside, StageCommit,
        StageCommitFails, StageDurable, StageUndo, StageSweep, DiscardAside,
        DiscardPending, AllowSwitch, HealthWrite, RevertWrite, RollbackTake,
        Moved, Removed
  <2> QED
    BY <2>1, SlotsQuiet
<1>3. CASE LaunchStep
  BY <1>3, SlotsQuiet
  DEF LaunchStep, HookFlashed, HookLauncher, Watcher, UiExits, HookAgain,
      Ladder
<1> QED
  BY <1>1, <1>2, <1>3

\* A power cut drops the candidate when it hits its removal; a removal of the
\* older good build that it hits leaves the newer one as the base.
LEMMA PowerCutSlots ==
    ASSUME SlotsInv, PowerCut
    PROVE  Slots!Drop \/ Stutters
<1> USE DEF SlotsInv, Typed, seen, Slot
<1>1. UNCHANGED <<accepted, refused>>
  BY DEF PowerCut
<1>2. CASE dir' = dir
  BY <1>1, <1>2, SlotsQuiet
<1>3. CASE dir' # dir
  <2>1. PICK d \in Doomed : dir' = [dir EXCEPT ![d] = Torn]
    BY <1>3 DEF PowerCut
  <2>2. \/ d \in {"pending", "pending.old"}
        \/ d = "active"
        \/ d = "good.prev" /\ dir["good"] \in Bundle
    <3>1. pc # "dropGood"
      BY DEF BaseInv
    <3>2. pc = "promoteClear" /\ dir["good"] # None => dir["good"] \in Bundle
      BY DEF BaseInv, Verifies
    <3>3. pc = "keepGood" => dir["good"] \in Bundle
      BY DEF Held
    <3> QED
      BY ONLY <2>1, <3>1, <3>2, <3>3 DEF Doomed
  <2>3. CASE d \in {"pending", "pending.old"}
    BY <1>1, <2>1, <2>3, SlotsQuiet
  <2>4. CASE d = "active"
    <3>1. /\ dir'["active"] = Torn /\ dir'["good"] = dir["good"]
          /\ dir'["good.prev"] = dir["good.prev"]
      BY <2>1, <2>4
    <3>2. BaseOf' = BaseOf /\ CandidateOf' = None
      BY <3>1 DEF BaseOf, CandidateOf
    <3> QED
      BY <1>1, <3>2 DEF Slots!Drop, Stutters
  <2>5. CASE d = "good.prev" /\ dir["good"] \in Bundle
    <3>1. dir'["active"] = dir["active"] /\ dir'["good"] = dir["good"]
      BY <2>1, <2>5
    <3> QED
      BY <1>1, <2>5, <3>1 DEF Stutters, BaseOf, CandidateOf
  <2> QED
    BY <2>2, <2>3, <2>4, <2>5
<1> QED
  BY <1>2, <1>3

\* Every step of the device is one step of the abstract update, or none.
LEMMA SlotsStep ==
    ASSUME SlotsInv, TypeInv, [Next]_allVars, Faults \subseteq {"rename"}
    PROVE  [Slots!SlotsNext]_(Slots!slots)
<1>1. CASE Stutters
  BY <1>1 DEF Stutters, Slots!slots
<1>2. CASE (\E b \in Bundle : Slots!Try(b)) \/ Slots!Raise \/ Slots!Accept
           \/ Slots!Refuse \/ Slots!Drop
  BY <1>2 DEF Slots!SlotsNext
<1>3. CASE RestoreStep
  BY <1>1, <1>3, RestoreSlots
<1>4. CASE JudgeStep
  BY <1>1, <1>2, <1>4, JudgeSlots
<1>5. CASE PromoteStep
  BY <1>1, <1>2, <1>5, PromoteSlots
<1>6. CASE RefuseStep
  BY <1>1, <1>2, <1>6, RefuseSlots
<1>7. CASE OfferStep
  BY <1>1, <1>2, <1>7, OfferSlots
<1>8. CASE FallbackStep
  BY <1>1, <1>8, FallbackSlots
<1>9. CASE SettleStep \/ UiStep \/ LaunchStep
  BY <1>1, <1>9, RunningSlots
<1>10. CASE PowerCut
  BY <1>1, <1>2, <1>10, PowerCutSlots
<1>11. CASE FillOrFree \/ \E d \in {"active", "good", "good.prev"} : Decay(d)
  BY <1>11 DEF FillOrFree, Decay
<1>12. CASE UNCHANGED allVars
  <2>1. Stutters
    BY <1>12, SlotsQuiet DEF allVars, vars, disk, seen
  <2> QED
    BY <1>1, <2>1
<1> QED
  BY <1>3, <1>4, <1>5, <1>6, <1>7, <1>8, <1>9, <1>10, <1>11, <1>12, BootPhases
  DEF Next

\* While writes, syncs and the installed bytes hold, and the file of refused
\* shas forgets none, the installer, the launcher and the interface together
\* implement the abstract update: one base, one candidate, one floor, whatever
\* step a power cut hits and also when the promoting rename fails
\* (S97diskos_install ota_select).
THEOREM UpdateRefinesSlots ==
    Spec /\ Faults \subseteq {"rename"} /\ NeverForgets => RefinesSlots
<1>1. Init => Slots!SlotsInit
  BY ValuesDistinct DEF Init, Slots!SlotsInit, BaseOf, CandidateOf, Slot
<1>2. Faults \subseteq {"rename"} /\ TypeInv /\ FloorInv /\ RisingInv /\ BaseInv
      /\ RefusedInv /\ AllRecalled /\ [Next]_allVars
      => [Slots!SlotsNext]_(Slots!slots)
  BY SlotsStep, TypesGiven DEF SlotsInv
<1>3. CASE Faults \subseteq {"rename"}
  <2>1. /\ "full" \notin Faults /\ "sync" \notin Faults
        /\ "decay" \notin Faults
    BY <1>3
  <2> QED
    BY <1>1, <1>2, <1>3, <2>1, TypeInvariant, FloorInvariant, RisingInvariant,
       BaseInvariant, RefusedInvariant, AllRecalledInvariant, PTL
    DEF Spec, RefinesSlots, Slots!SlotsSpec
<1> QED
  BY <1>3

\* In particular, for any instance whose file has a line for every bundle and
\* every power cut in a boot, with no hypothesis about its behaviours: the
\* abstract update is implemented and what was refused stays out.
THEOREM UpdateWithRoom ==
    /\ Spec /\ Faults \subseteq {"rename"}
    /\ IsFiniteSet(Bundle) /\ Cardinality(Bundle) + MaxCuts <= Keep
    => RefinesSlots /\ RefusedStaysOut
<1>1. CASE Faults \subseteq {"rename"}
  <2>1. "full" \notin Faults /\ "sync" \notin Faults
    BY <1>1
  <2> QED
    BY <1>1, <2>1, RoomSuffices, RefusedForGood, UpdateRefinesSlots, PTL
<1> QED
  BY <1>1
=============================================================================
