----------------------------- MODULE OtaProofs ------------------------------
(***************************************************************************)
(* Theorems about module Ota for every set of bundles, every assignment of *)
(* epochs and versions, every bound and every choice of faults.            *)
(***************************************************************************)
EXTENDS Ota, TLAPS

\* Why the types hold: what the code verified a moment ago is still a bundle
\* when it is used, and a record of a build names a real one.
Held ==
    /\ pc \in {"again", "promoteClear", "promoteKeep", "promoteSwap"}
          => dir["active"] \in Bundle
    /\ pc \in {"keepGood", "raise"} => dir["good"] \in Bundle
    /\ run.kind \in {"trial", "good"} => run.sha \in Bundle
    /\ due => pc = "up" /\ ui \in Bundle \cup {Flashed}

TypeInv == TypeOK /\ Held

-----------------------------------------------------------------------------
USE ValuesDistinct, NumbersTyped DEF Slot, Content, Marker, NoTrial, NoBlame,
    NoRun, NoWork, BootStage, WorkStage, Reasons

\* The file of refused shas stays a list of at most Keep bundles.
LEMMA RememberTyped ==
    ASSUME NEW shas \in Seq(Bundle), Len(shas) <= Keep, NEW b \in Bundle
    PROVE  /\ Remember(shas, b) \in Seq(Bundle)
           /\ Len(Remember(shas, b)) <= Keep
BY DEF Remember

\* Every step of the selection at boot keeps the types.
LEMMA BootStepTyped ==
    ASSUME TypeInv, BootStep, UNCHANGED cuts
    PROVE  TypeInv'
<1> USE DEF TypeInv, TypeOK, DiskOK, BootOK, UpOK, SeenOK, Held, At, Then, OnDisk, disk, boot, up, seen
<1>1. CASE PowerOn
  <2> USE <1>1 DEF PowerOn
  <2>1. DiskOK' OBVIOUS
  <2>2. BootOK' /\ UpOK' /\ Held' OBVIOUS
  <2>5. SeenOK' OBVIOUS
  <2> QED BY <2>1, <2>2, <2>5 DEF TypeInv, TypeOK
<1>2. CASE RestoreGood
  <2> USE <1>2 DEF RestoreGood, Moved
  <2>1. DiskOK' OBVIOUS
  <2>2. BootOK' /\ UpOK' /\ Held' OBVIOUS
  <2>5. SeenOK' OBVIOUS
  <2> QED BY <2>1, <2>2, <2>5 DEF TypeInv, TypeOK
<1>3. CASE SweepIncoming
  <2> USE <1>3 DEF SweepIncoming, Removed
  <2>1. DiskOK' OBVIOUS
  <2>2. BootOK' /\ UpOK' /\ Held' OBVIOUS
  <2>5. SeenOK' OBVIOUS
  <2> QED BY <2>1, <2>2, <2>5 DEF TypeInv, TypeOK
<1>4. CASE SettleAside
  <2> USE <1>4 DEF SettleAside, Moved, Removed
  <2>1. DiskOK' OBVIOUS
  <2>2. BootOK' /\ UpOK' /\ Held' OBVIOUS
  <2>5. SeenOK' OBVIOUS
  <2> QED BY <2>1, <2>2, <2>5 DEF TypeInv, TypeOK
<1>5. CASE DropOrphanTrial
  <2> USE <1>5 DEF DropOrphanTrial
  <2>1. DiskOK'
    <3>1. (dir \in [Slot -> Content])' OBVIOUS
    <3>2. (trial \in [sha : Bundle \cup {None}, boots : 0 .. MaxBoots])'
      <4>1. CASE dir["active"] = None
        <5>1. trial' = [sha |-> None, boots |-> 0] BY <4>1
        <5>2. 0 \in 0 .. MaxBoots OBVIOUS
        <5> QED BY ONLY <5>1, <5>2
      <4>2. CASE dir["active"] # None BY <4>2
      <4> QED BY <4>1, <4>2
    <3>3. (mark \in [Marker -> Bundle \cup {None}])'
      <4>1. CASE dir["active"] = None
        <5>1. mark' = [mark EXCEPT !["launched"] = None] BY <4>1
        <5>2. mark \in [Marker -> Bundle \cup {None}] OBVIOUS
        <5> QED BY ONLY <5>1, <5>2
      <4>2. CASE dir["active"] # None BY <4>2
      <4> QED BY <4>1, <4>2
    <3>4. (accepted \in Nat /\ notice \in Reasons)' OBVIOUS
    <3>5. (rejected \in Seq(Bundle) /\ Len(rejected) <= Keep)' OBVIOUS
    <3>6. (crashed \in BOOLEAN /\ allow \in BOOLEAN /\ full \in BOOLEAN)' OBVIOUS
    <3> QED BY <3>1, <3>2, <3>3, <3>4, <3>5, <3>6
  <2>2. BootOK' /\ UpOK' /\ Held' OBVIOUS
  <2>5. SeenOK' OBVIOUS
  <2> QED BY <2>1, <2>2, <2>5 DEF TypeInv, TypeOK
<1>6. CASE NoActive
  <2> USE <1>6 DEF NoActive, Active
  <2>1. DiskOK' OBVIOUS
  <2>2. BootOK' /\ UpOK' /\ Held' OBVIOUS
  <2>5. SeenOK' OBVIOUS
  <2> QED BY <2>1, <2>2, <2>5 DEF TypeInv, TypeOK
<1>7. CASE JudgeCrashed
  <2> USE <1>7 DEF JudgeCrashed, RollBack, Active, Verifies
  <2>1. DiskOK' OBVIOUS
  <2>2. BootOK' /\ UpOK' /\ Held' OBVIOUS
  <2>5. SeenOK' OBVIOUS
  <2> QED BY <2>1, <2>2, <2>5 DEF TypeInv, TypeOK
<1>8. CASE JudgeUnverified
  <2> USE <1>8 DEF JudgeUnverified, RollBack, Active, Verifies
  <2>1. DiskOK' OBVIOUS
  <2>2. BootOK' /\ UpOK' /\ Held' OBVIOUS
  <2>5. SeenOK' OBVIOUS
  <2> QED BY <2>1, <2>2, <2>5 DEF TypeInv, TypeOK
<1>9. CASE JudgeRevert
  <2> USE <1>9 DEF JudgeRevert, Judged, RollBack, Active, Verifies
  <2>1. DiskOK' OBVIOUS
  <2>2. BootOK' /\ UpOK' /\ Held' OBVIOUS
  <2>5. SeenOK' OBVIOUS
  <2> QED BY <2>1, <2>2, <2>5 DEF TypeInv, TypeOK
<1>10. CASE JudgeRaiseFloor
  <2> USE <1>10 DEF JudgeRaiseFloor, Judged, Active, Verifies
  <2>1. DiskOK' OBVIOUS
  <2>2. BootOK' /\ UpOK' /\ Held' OBVIOUS
  <2>5. SeenOK' OBVIOUS
  <2> QED BY <2>1, <2>2, <2>5 DEF TypeInv, TypeOK
<1>11. CASE JudgeFloorLost
  <2> USE <1>11 DEF JudgeFloorLost, Judged, Active, Verifies
  <2>1. DiskOK' OBVIOUS
  <2>2. BootOK' /\ UpOK' /\ Held' OBVIOUS
  <2>5. SeenOK' OBVIOUS
  <2> QED BY <2>1, <2>2, <2>5 DEF TypeInv, TypeOK
<1>12. CASE JudgeUnproven
  <2> USE <1>12 DEF JudgeUnproven, Judged, Active, Verifies
  <2>1. DiskOK' OBVIOUS
  <2>2. BootOK' /\ UpOK' /\ Held' OBVIOUS
  <2>5. SeenOK' OBVIOUS
  <2> QED BY <2>1, <2>2, <2>5 DEF TypeInv, TypeOK
<1>13. CASE TrialAgain
  <2> USE <1>13 DEF TrialAgain, BootsLeft, OneMoreBoot, OnTrialSha, Active
  <2>1. DiskOK'
    <3>1. (dir \in [Slot -> Content])' OBVIOUS
    <3>2. (trial \in [sha : Bundle \cup {None}, boots : 0 .. MaxBoots])'
      <4>1. CASE WritesOk
        <5>1. trial \in [sha : Bundle \cup {None}, boots : 0 .. MaxBoots] OBVIOUS
        <5>2. trial.boots < MaxBoots /\ MaxBoots \in Nat OBVIOUS
        <5>3. trial' = [trial EXCEPT !.boots = trial.boots + 1] BY <4>1
        <5> QED BY ONLY <5>1, <5>2, <5>3
      <4>2. CASE ~WritesOk BY <4>2
      <4> QED BY <4>1, <4>2
    <3>3. (mark \in [Marker -> Bundle \cup {None}])' OBVIOUS
    <3>4. (accepted \in Nat /\ notice \in Reasons)' OBVIOUS
    <3>5. (rejected \in Seq(Bundle) /\ Len(rejected) <= Keep)' OBVIOUS
    <3>6. (crashed \in BOOLEAN /\ allow \in BOOLEAN /\ full \in BOOLEAN)' OBVIOUS
    <3> QED BY <3>1, <3>2, <3>3, <3>4, <3>5, <3>6
  <2>2. BootOK' /\ UpOK' /\ Held' OBVIOUS
  <2>5. SeenOK' OBVIOUS
  <2> QED BY <2>1, <2>2, <2>5 DEF TypeInv, TypeOK
<1>14. CASE TrialOver
  <2> USE <1>14 DEF TrialOver, RollBack, BootsLeft, Active
  <2>1. DiskOK' OBVIOUS
  <2>2. BootOK' /\ UpOK' /\ Held' OBVIOUS
  <2>5. SeenOK' OBVIOUS
  <2> QED BY <2>1, <2>2, <2>5 DEF TypeInv, TypeOK
<1>15. CASE PromoteClear
  <2> USE <1>15 DEF PromoteClear, Removed
  <2>1. DiskOK'
    <3>1. (dir \in [Slot -> Content])'
      <4>1. CASE dir["good"] # None
        <5>1. dir' = [dir EXCEPT !["good.prev"] = None] BY <4>1
        <5>2. dir \in [Slot -> Content] OBVIOUS
        <5> QED BY ONLY <5>1, <5>2 DEF Content
      <4>2. CASE dir["good"] = None BY <4>2
      <4> QED BY <4>1, <4>2
    <3>2. (trial \in [sha : Bundle \cup {None}, boots : 0 .. MaxBoots])' OBVIOUS
    <3>3. (mark \in [Marker -> Bundle \cup {None}])' OBVIOUS
    <3>4. (accepted \in Nat /\ notice \in Reasons)' OBVIOUS
    <3>5. (rejected \in Seq(Bundle) /\ Len(rejected) <= Keep)' OBVIOUS
    <3>6. (crashed \in BOOLEAN /\ allow \in BOOLEAN /\ full \in BOOLEAN)' OBVIOUS
    <3> QED BY <3>1, <3>2, <3>3, <3>4, <3>5, <3>6
  <2>2. BootOK' OBVIOUS
  <2>3. UpOK' OBVIOUS
  <2>4. Held' OBVIOUS
  <2>5. SeenOK' OBVIOUS
  <2> QED BY <2>1, <2>2, <2>3, <2>4, <2>5 DEF TypeInv, TypeOK
<1>16. CASE PromoteKeep
  <2> USE <1>16 DEF PromoteKeep, Moved
  <2>1. DiskOK' OBVIOUS
  <2>2. BootOK' OBVIOUS
  <2>3. UpOK' OBVIOUS
  <2>4. Held' OBVIOUS
  <2>5. SeenOK' OBVIOUS
  <2> QED BY <2>1, <2>2, <2>3, <2>4, <2>5 DEF TypeInv, TypeOK
<1>17. CASE PromoteSwap
  <2> USE <1>17 DEF PromoteSwap, Moved, Active
  <2>1. DiskOK' OBVIOUS
  <2>2. BootOK' /\ UpOK' /\ Held' OBVIOUS
  <2>5. SeenOK' OBVIOUS
  <2> QED BY <2>1, <2>2, <2>5 DEF TypeInv, TypeOK
<1>18. CASE PromoteFails
  <2> USE <1>18 DEF PromoteFails, Moved
  <2>1. DiskOK' OBVIOUS
  <2>2. BootOK' /\ UpOK' /\ Held' OBVIOUS
  <2>5. SeenOK' OBVIOUS
  <2> QED BY <2>1, <2>2, <2>5 DEF TypeInv, TypeOK
<1>19. CASE PromoteTidy
  <2> USE <1>19 DEF PromoteTidy
  <2>1. DiskOK'
    <3>1. (dir \in [Slot -> Content])' OBVIOUS
    <3>2. (trial \in [sha : Bundle \cup {None}, boots : 0 .. MaxBoots])' OBVIOUS
    <3>3. (mark \in [Marker -> Bundle \cup {None}])' OBVIOUS
    <3>4. (accepted \in Nat /\ notice \in Reasons)' OBVIOUS
    <3>5. (rejected \in Seq(Bundle) /\ Len(rejected) <= Keep)' OBVIOUS
    <3>6. (crashed \in BOOLEAN /\ allow \in BOOLEAN /\ full \in BOOLEAN)' OBVIOUS
    <3> QED BY <3>1, <3>2, <3>3, <3>4, <3>5, <3>6
  <2>2. BootOK' /\ UpOK' /\ Held' OBVIOUS
  <2>5. SeenOK' OBVIOUS
  <2> QED BY <2>1, <2>2, <2>5 DEF TypeInv, TypeOK
<1>20. CASE Refuse
  <2> USE <1>20 DEF Refuse
  <2>1. DiskOK'
    <3>1. (dir \in [Slot -> Content])' OBVIOUS
    <3>2. (trial \in [sha : Bundle \cup {None}, boots : 0 .. MaxBoots])' OBVIOUS
    <3>3. (mark \in [Marker -> Bundle \cup {None}])' OBVIOUS
    <3>4. (accepted \in Nat /\ notice \in Reasons)' OBVIOUS
    <3>5. (rejected \in Seq(Bundle) /\ Len(rejected) <= Keep)'
      <4>1. CASE blame.sha # None /\ WritesOk
        <5>1. blame.sha \in Bundle BY <4>1
        <5>2. rejected' = Remember(rejected, blame.sha) BY <4>1
        <5>3. rejected \in Seq(Bundle) /\ Len(rejected) <= Keep OBVIOUS
        <5> QED BY ONLY <5>1, <5>2, <5>3, RememberTyped
      <4>2. CASE ~(blame.sha # None /\ WritesOk) BY <4>2
      <4> QED BY <4>1, <4>2
    <3>6. (crashed \in BOOLEAN /\ allow \in BOOLEAN /\ full \in BOOLEAN)' OBVIOUS
    <3> QED BY <3>1, <3>2, <3>3, <3>4, <3>5, <3>6
  <2>2. BootOK' /\ UpOK' /\ Held' OBVIOUS
  <2>5. SeenOK'
    <3>1. (vouched \subseteq Bundle \cup {Flashed} /\ promoted \subseteq Bundle)' OBVIOUS
    <3>2. (refused \subseteq Bundle)' OBVIOUS
    <3>3. (tries \in 0 .. MaxBoots + 1 /\ cuts \in 0 .. MaxCuts)' OBVIOUS
    <3>4. (goBack \in BOOLEAN /\ staged \in BOOLEAN /\ discarded \in BOOLEAN)' OBVIOUS
    <3> QED BY <3>1, <3>2, <3>3, <3>4
  <2> QED BY <2>1, <2>2, <2>5 DEF TypeInv, TypeOK
<1>21. CASE DropActive
  <2> USE <1>21 DEF DropActive, Removed
  <2>1. DiskOK' OBVIOUS
  <2>2. BootOK' /\ UpOK' /\ Held' OBVIOUS
  <2>5. SeenOK' OBVIOUS
  <2> QED BY <2>1, <2>2, <2>5 DEF TypeInv, TypeOK
<1>22. CASE DropMarks
  <2> USE <1>22 DEF DropMarks
  <2>1. DiskOK'
    <3>1. (dir \in [Slot -> Content])' OBVIOUS
    <3>2. (trial \in [sha : Bundle \cup {None}, boots : 0 .. MaxBoots])' OBVIOUS
    <3>3. (mark \in [Marker -> Bundle \cup {None}])' OBVIOUS
    <3>4. (accepted \in Nat /\ notice \in Reasons)' OBVIOUS
    <3>5. (rejected \in Seq(Bundle) /\ Len(rejected) <= Keep)' OBVIOUS
    <3>6. (crashed \in BOOLEAN /\ allow \in BOOLEAN /\ full \in BOOLEAN)' OBVIOUS
    <3> QED BY <3>1, <3>2, <3>3, <3>4, <3>5, <3>6
  <2>2. BootOK' /\ UpOK' /\ Held' OBVIOUS
  <2>5. SeenOK' OBVIOUS
  <2> QED BY <2>1, <2>2, <2>5 DEF TypeInv, TypeOK
<1>23. CASE Note
  <2> USE <1>23 DEF Note
  <2>1. DiskOK' OBVIOUS
  <2>2. BootOK' /\ UpOK' /\ Held' OBVIOUS
  <2>5. SeenOK' OBVIOUS
  <2> QED BY <2>1, <2>2, <2>5 DEF TypeInv, TypeOK
<1>24. CASE ConsumeRevert
  <2> USE <1>24 DEF ConsumeRevert
  <2>1. DiskOK' OBVIOUS
  <2>2. BootOK' /\ UpOK' /\ Held' OBVIOUS
  <2>5. SeenOK' OBVIOUS
  <2> QED BY <2>1, <2>2, <2>5 DEF TypeInv, TypeOK
<1>25. CASE NoOffer
  <2> USE <1>25 DEF NoOffer
  <2>1. DiskOK' OBVIOUS
  <2>2. BootOK' /\ UpOK' /\ Held' OBVIOUS
  <2>5. SeenOK' OBVIOUS
  <2> QED BY <2>1, <2>2, <2>5 DEF TypeInv, TypeOK
<1>26. CASE OfferStart
  <2> USE <1>26 DEF OfferStart, OfferOk, Offered, Verifies
  <2>1. DiskOK' OBVIOUS
  <2>2. BootOK' /\ UpOK' /\ Held' OBVIOUS
  <2>5. SeenOK' OBVIOUS
  <2> QED BY <2>1, <2>2, <2>5 DEF TypeInv, TypeOK
<1>27. CASE OfferLater
  <2> USE <1>27 DEF OfferLater
  <2>1. DiskOK'
    <3>1. (dir \in [Slot -> Content])' OBVIOUS
    <3>2. (trial \in [sha : Bundle \cup {None}, boots : 0 .. MaxBoots])' OBVIOUS
    <3>3. (mark \in [Marker -> Bundle \cup {None}])' OBVIOUS
    <3>4. (accepted \in Nat /\ notice \in Reasons)' OBVIOUS
    <3>5. (rejected \in Seq(Bundle) /\ Len(rejected) <= Keep)' OBVIOUS
    <3>6. (crashed \in BOOLEAN /\ allow \in BOOLEAN /\ full \in BOOLEAN)' OBVIOUS
    <3> QED BY <3>1, <3>2, <3>3, <3>4, <3>5, <3>6
  <2>2. BootOK' /\ UpOK' /\ Held' OBVIOUS
  <2>5. SeenOK' OBVIOUS
  <2> QED BY <2>1, <2>2, <2>5 DEF TypeInv, TypeOK
<1>28. CASE OfferClear
  <2> USE <1>28 DEF OfferClear
  <2>1. DiskOK' OBVIOUS
  <2>2. BootOK' /\ UpOK' /\ Held' OBVIOUS
  <2>5. SeenOK' OBVIOUS
  <2> QED BY <2>1, <2>2, <2>5 DEF TypeInv, TypeOK
<1>29. CASE OfferTake
  <2> USE <1>29 DEF OfferTake, Moved
  <2>1. DiskOK' OBVIOUS
  <2>2. BootOK' /\ UpOK' /\ Held' OBVIOUS
  <2>5. SeenOK'
    <3>1. (vouched \subseteq Bundle \cup {Flashed} /\ promoted \subseteq Bundle)' OBVIOUS
    <3>2. (refused \subseteq Bundle)' OBVIOUS
    <3>3. (tries \in 0 .. MaxBoots + 1 /\ cuts \in 0 .. MaxCuts)' OBVIOUS
    <3>4. (goBack \in BOOLEAN /\ staged \in BOOLEAN /\ discarded \in BOOLEAN)' OBVIOUS
    <3> QED BY <3>1, <3>2, <3>3, <3>4
  <2> QED BY <2>1, <2>2, <2>5 DEF TypeInv, TypeOK
<1>29a. CASE OfferTakeFails
  <2> USE <1>29a DEF OfferTakeFails
  <2>1. DiskOK' OBVIOUS
  <2>2. BootOK' /\ UpOK' /\ Held' OBVIOUS
  <2>5. SeenOK' OBVIOUS
  <2> QED BY <2>1, <2>2, <2>5 DEF TypeInv, TypeOK
<1>30. CASE OfferRefused
  <2> USE <1>30 DEF OfferRefused, Offered
  <2>1. DiskOK' OBVIOUS
  <2>2. BootOK' /\ UpOK' /\ Held' OBVIOUS
  <2>5. SeenOK' OBVIOUS
  <2> QED BY <2>1, <2>2, <2>5 DEF TypeInv, TypeOK
<1>31. CASE OfferDrop
  <2> USE <1>31 DEF OfferDrop, Removed
  <2>1. DiskOK' OBVIOUS
  <2>2. BootOK' /\ UpOK' /\ Held' OBVIOUS
  <2>5. SeenOK' OBVIOUS
  <2> QED BY <2>1, <2>2, <2>5 DEF TypeInv, TypeOK
<1>32. CASE NoFallback
  <2> USE <1>32 DEF NoFallback, Good
  <2>1. DiskOK' OBVIOUS
  <2>2. BootOK' /\ UpOK' /\ Held' OBVIOUS
  <2>5. SeenOK' OBVIOUS
  <2> QED BY <2>1, <2>2, <2>5 DEF TypeInv, TypeOK
<1>33. CASE FallbackGood
  <2> USE <1>33 DEF FallbackGood, Good, Verifies
  <2>1. DiskOK' OBVIOUS
  <2>2. BootOK' /\ UpOK' /\ Held' OBVIOUS
  <2>5. SeenOK' OBVIOUS
  <2> QED BY <2>1, <2>2, <2>5 DEF TypeInv, TypeOK
<1>34. CASE FallbackBad
  <2> USE <1>34 DEF FallbackBad, Good
  <2>1. DiskOK' OBVIOUS
  <2>2. BootOK' /\ UpOK' /\ Held' OBVIOUS
  <2>5. SeenOK' OBVIOUS
  <2> QED BY <2>1, <2>2, <2>5 DEF TypeInv, TypeOK
<1>35. CASE DropGood
  <2> USE <1>35 DEF DropGood, Removed
  <2>1. DiskOK' OBVIOUS
  <2>2. BootOK' /\ UpOK' /\ Held' OBVIOUS
  <2>5. SeenOK' OBVIOUS
  <2> QED BY <2>1, <2>2, <2>5 DEF TypeInv, TypeOK
<1>36. CASE UsePrev
  <2> USE <1>36 DEF UsePrev, Moved
  <2>1. DiskOK' OBVIOUS
  <2>2. BootOK' /\ UpOK' /\ Held' OBVIOUS
  <2>5. SeenOK' OBVIOUS
  <2> QED BY <2>1, <2>2, <2>5 DEF TypeInv, TypeOK
<1>37. CASE CheckPrev
  <2> USE <1>37 DEF CheckPrev, Good, Removed, Verifies
  <2>1. DiskOK'
    <3>1. (dir \in [Slot -> Content])'
      <4>1. dir' = dir \/ dir' = [dir EXCEPT !["good"] = None] OBVIOUS
      <4>2. dir \in [Slot -> Content] OBVIOUS
      <4> QED BY ONLY <4>1, <4>2 DEF Content
    <3>2. (trial \in [sha : Bundle \cup {None}, boots : 0 .. MaxBoots])' OBVIOUS
    <3>3. (mark \in [Marker -> Bundle \cup {None}])' OBVIOUS
    <3>4. (accepted \in Nat /\ notice \in Reasons)' OBVIOUS
    <3>5. (rejected \in Seq(Bundle) /\ Len(rejected) <= Keep)' OBVIOUS
    <3>6. (crashed \in BOOLEAN /\ allow \in BOOLEAN /\ full \in BOOLEAN)' OBVIOUS
    <3> QED BY <3>1, <3>2, <3>3, <3>4, <3>5, <3>6
  <2>2. BootOK' OBVIOUS
  <2>3. UpOK' OBVIOUS
  <2>4. Held' OBVIOUS
  <2>5. SeenOK' OBVIOUS
  <2> QED BY <2>1, <2>2, <2>3, <2>4, <2>5 DEF TypeInv, TypeOK
<1>38. CASE KeepGood
  <2> USE <1>38 DEF KeepGood, Removed
  <2>1. DiskOK' OBVIOUS
  <2>2. BootOK' /\ UpOK' /\ Held' OBVIOUS
  <2>5. SeenOK' OBVIOUS
  <2> QED BY <2>1, <2>2, <2>5 DEF TypeInv, TypeOK
<1>39. CASE RaiseToGood
  <2> USE <1>39 DEF RaiseToGood, Good
  <2>1. DiskOK' OBVIOUS
  <2>2. BootOK' /\ UpOK' /\ Held' OBVIOUS
  <2>5. SeenOK' OBVIOUS
  <2> QED BY <2>1, <2>2, <2>5 DEF TypeInv, TypeOK
<1>40. CASE Settle
  <2> USE <1>40 DEF Settle, RunChosen, RunFlashed, Chosen, IfVerified, Verifies, Active, Good
  <2>1. DiskOK' OBVIOUS
  <2>2. BootOK' /\ UpOK' /\ Held' OBVIOUS
  <2>5. SeenOK'
    <3>1. (vouched \subseteq Bundle \cup {Flashed} /\ promoted \subseteq Bundle)' OBVIOUS
    <3>2. (refused \subseteq Bundle)' OBVIOUS
    <3>3. (tries \in 0 .. MaxBoots + 1 /\ cuts \in 0 .. MaxCuts)' OBVIOUS
    <3>4. (goBack \in BOOLEAN /\ staged \in BOOLEAN /\ discarded \in BOOLEAN)' OBVIOUS
    <3> QED BY <3>1, <3>2, <3>3, <3>4
  <2> QED BY <2>1, <2>2, <2>5 DEF TypeInv, TypeOK
<1>41. CASE Publish
  <2> USE <1>41 DEF Publish
  <2>1. DiskOK' OBVIOUS
  <2>2. BootOK' /\ UpOK' /\ Held' OBVIOUS
  <2>5. SeenOK' OBVIOUS
  <2> QED BY <2>1, <2>2, <2>5 DEF TypeInv, TypeOK
<1>42. CASE PublishFails
  <2> USE <1>42 DEF PublishFails
  <2>1. DiskOK' OBVIOUS
  <2>2. BootOK' OBVIOUS
  <2>3. UpOK' OBVIOUS
  <2>4. Held' OBVIOUS
  <2>5. SeenOK' OBVIOUS
  <2> QED BY <2>1, <2>2, <2>3, <2>4, <2>5 DEF TypeInv, TypeOK
<1> QED BY <1>1, <1>2, <1>3, <1>4, <1>5, <1>6, <1>7, <1>8, <1>9, <1>10, <1>11, <1>12, <1>13, <1>14, <1>15, <1>16, <1>17, <1>18, <1>19, <1>20, <1>21, <1>22, <1>23, <1>24, <1>25, <1>26, <1>27, <1>28, <1>29, <1>29a, <1>30, <1>31, <1>32, <1>33, <1>34, <1>35, <1>36, <1>37, <1>38, <1>39, <1>40, <1>41, <1>42 DEF BootStep

\* Every step of the interface keeps the types.
LEMMA UiStepTyped ==
    ASSUME TypeInv, UiStep, UNCHANGED cuts
    PROVE  TypeInv'
<1> USE DEF TypeInv, TypeOK, DiskOK, BootOK, UpOK, SeenOK, Held, Others, Worker,
        DiskosUp, disk, boot, up, seen
<1>1. CASE StageFails
  <2> USE <1>1 DEF StageFails
  <2>1. DiskOK' OBVIOUS
  <2>2. BootOK' /\ UpOK' /\ Held' OBVIOUS
  <2>5. SeenOK' OBVIOUS
  <2> QED BY <2>1, <2>2, <2>5 DEF TypeInv, TypeOK
<1>2. CASE StageVerified
  <2> USE <1>2 DEF StageVerified, Verifies
  <2>1. DiskOK' OBVIOUS
  <2>2. BootOK' OBVIOUS
  <2>3. UpOK' OBVIOUS
  <2>4. Held' OBVIOUS
  <2>5. SeenOK' OBVIOUS
  <2> QED BY <2>1, <2>2, <2>3, <2>4, <2>5 DEF TypeInv, TypeOK
<1>3. CASE StageAside
  <2> USE <1>3 DEF StageAside, Moved
  <2>1. DiskOK' OBVIOUS
  <2>2. BootOK' OBVIOUS
  <2>3. UpOK' OBVIOUS
  <2>4. Held' OBVIOUS
  <2>5. SeenOK' OBVIOUS
  <2> QED BY <2>1, <2>2, <2>3, <2>4, <2>5 DEF TypeInv, TypeOK
<1>4. CASE StageCommit
  <2> USE <1>4 DEF StageCommit, Moved
  <2>1. DiskOK' OBVIOUS
  <2>2. BootOK' OBVIOUS
  <2>3. UpOK' OBVIOUS
  <2>4. Held' OBVIOUS
  <2>5. SeenOK' OBVIOUS
  <2> QED BY <2>1, <2>2, <2>3, <2>4, <2>5 DEF TypeInv, TypeOK
<1>5. CASE StageCommitFails
  <2> USE <1>5 DEF StageCommitFails
  <2>1. DiskOK' OBVIOUS
  <2>2. BootOK' /\ UpOK' /\ Held' OBVIOUS
  <2>5. SeenOK' OBVIOUS
  <2> QED BY <2>1, <2>2, <2>5 DEF TypeInv, TypeOK
<1>6. CASE StageDurable
  <2> USE <1>6 DEF StageDurable
  <2>1. DiskOK' OBVIOUS
  <2>2. BootOK' OBVIOUS
  <2>3. UpOK' OBVIOUS
  <2>4. Held' OBVIOUS
  <2>5. SeenOK' OBVIOUS
  <2> QED BY <2>1, <2>2, <2>3, <2>4, <2>5 DEF TypeInv, TypeOK
<1>7. CASE StageUndo
  <2> USE <1>7 DEF StageUndo
  <2>1. DiskOK' OBVIOUS
  <2>2. BootOK' /\ UpOK' /\ Held' OBVIOUS
  <2>5. SeenOK' OBVIOUS
  <2> QED BY <2>1, <2>2, <2>5 DEF TypeInv, TypeOK
<1>8. CASE StageSweep
  <2> USE <1>8 DEF StageSweep, Removed
  <2>1. DiskOK' OBVIOUS
  <2>2. BootOK' /\ UpOK' /\ Held' OBVIOUS
  <2>5. SeenOK' OBVIOUS
  <2> QED BY <2>1, <2>2, <2>5 DEF TypeInv, TypeOK
<1>9. CASE DiscardAside
  <2> USE <1>9 DEF DiscardAside, Removed
  <2>1. DiskOK' OBVIOUS
  <2>2. BootOK' OBVIOUS
  <2>3. UpOK' OBVIOUS
  <2>4. Held' OBVIOUS
  <2>5. SeenOK' OBVIOUS
  <2> QED BY <2>1, <2>2, <2>3, <2>4, <2>5 DEF TypeInv, TypeOK
<1>10. CASE DiscardPending
  <2> USE <1>10 DEF DiscardPending, Removed
  <2>1. DiskOK'
    <3>1. (dir \in [Slot -> Content])'
      <4>1. \/ dir' = dir
            \/ dir' = [dir EXCEPT !["pending"] = None]
            \/ dir' = [dir EXCEPT !["pending"] = Torn]
        OBVIOUS
      <4>2. dir \in [Slot -> Content] OBVIOUS
      <4> QED BY ONLY <4>1, <4>2 DEF Content
    <3>2. (trial \in [sha : Bundle \cup {None}, boots : 0 .. MaxBoots])' OBVIOUS
    <3>3. (mark \in [Marker -> Bundle \cup {None}])' OBVIOUS
    <3>4. (accepted \in Nat /\ notice \in Reasons)' OBVIOUS
    <3>5. (rejected \in Seq(Bundle) /\ Len(rejected) <= Keep)' OBVIOUS
    <3>6. (crashed \in BOOLEAN /\ allow \in BOOLEAN /\ full \in BOOLEAN)' OBVIOUS
    <3> QED BY <3>1, <3>2, <3>3, <3>4, <3>5, <3>6
  <2>2. BootOK' /\ UpOK' /\ Held' OBVIOUS
  <2>5. SeenOK' OBVIOUS
  <2> QED BY <2>1, <2>2, <2>5 DEF TypeInv, TypeOK
<1>11. CASE AllowSwitch
  <2> USE <1>11 DEF AllowSwitch
  <2>1. DiskOK' OBVIOUS
  <2>2. BootOK' /\ UpOK' /\ Held' OBVIOUS
  <2>5. SeenOK' OBVIOUS
  <2> QED BY <2>1, <2>2, <2>5 DEF TypeInv, TypeOK
<1>12. CASE HealthWrite
  <2> USE <1>12 DEF HealthWrite, TrialIsMe
  <2>1. DiskOK' OBVIOUS
  <2>2. BootOK' /\ UpOK' /\ Held' OBVIOUS
  <2>5. SeenOK' OBVIOUS
  <2> QED BY <2>1, <2>2, <2>5 DEF TypeInv, TypeOK
<1>13. CASE RevertWrite
  <2> USE <1>13 DEF RevertWrite, TrialIsMe
  <2>1. DiskOK' OBVIOUS
  <2>2. BootOK' /\ UpOK' /\ Held' OBVIOUS
  <2>5. SeenOK' OBVIOUS
  <2> QED BY <2>1, <2>2, <2>5 DEF TypeInv, TypeOK
<1>14. CASE RollbackTake
  <2> USE <1>14 DEF RollbackTake
  <2>1. DiskOK' OBVIOUS
  <2>2. BootOK' /\ UpOK' /\ Held' OBVIOUS
  <2>5. SeenOK' OBVIOUS
  <2> QED BY <2>1, <2>2, <2>5 DEF TypeInv, TypeOK
<1>15. CASE \E b \in Bundle : StageBegin(b)
  <2> USE <1>15 DEF StageBegin
  <2>1. DiskOK'
    <3>1. (dir \in [Slot -> Content])'
      <4>1. dir' = [dir EXCEPT !["pending"] = dir'["pending"],
                              !["pending.old"] = None,
                              !["incoming"] = Torn]
        OBVIOUS
      <4>2. dir'["pending"] \in {dir["pending"], dir["pending.old"]} OBVIOUS
      <4>3. dir \in [Slot -> Content] OBVIOUS
      <4> QED BY ONLY <4>1, <4>2, <4>3 DEF Content, Slot
    <3>2. (trial \in [sha : Bundle \cup {None}, boots : 0 .. MaxBoots])' OBVIOUS
    <3>3. (mark \in [Marker -> Bundle \cup {None}])' OBVIOUS
    <3>4. (accepted \in Nat /\ notice \in Reasons)' OBVIOUS
    <3>5. (rejected \in Seq(Bundle) /\ Len(rejected) <= Keep)' OBVIOUS
    <3>6. (crashed \in BOOLEAN /\ allow \in BOOLEAN /\ full \in BOOLEAN)' OBVIOUS
    <3> QED BY <3>1, <3>2, <3>3, <3>4, <3>5, <3>6
  <2>2. BootOK' /\ UpOK' /\ Held' OBVIOUS
  <2>5. SeenOK' OBVIOUS
  <2> QED BY <2>1, <2>2, <2>5 DEF TypeInv, TypeOK
<1> QED BY <1>1, <1>2, <1>3, <1>4, <1>5, <1>6, <1>7, <1>8, <1>9, <1>10, <1>11, <1>12, <1>13, <1>14, <1>15 DEF UiStep

\* Every step of the launcher keeps the types.
LEMMA LaunchStepTyped ==
    ASSUME TypeInv, LaunchStep, UNCHANGED cuts
    PROVE  TypeInv'
<1> USE DEF TypeInv, TypeOK, DiskOK, BootOK, UpOK, SeenOK, Held, LaunchRest,
        disk, boot, up, seen
<1>1. CASE HookFlashed
  <2> USE <1>1 DEF HookFlashed
  <2>1. DiskOK' OBVIOUS
  <2>2. BootOK' OBVIOUS
  <2>3. UpOK' OBVIOUS
  <2>4. Held' OBVIOUS
  <2>5. SeenOK' OBVIOUS
  <2> QED BY <2>1, <2>2, <2>3, <2>4, <2>5 DEF TypeInv, TypeOK
<1>2. CASE HookLauncher
  <2> USE <1>2 DEF HookLauncher, Bumped
  <2>1. DiskOK' OBVIOUS
  <2>2. BootOK' /\ UpOK' /\ Held' OBVIOUS
  <2>5. SeenOK' OBVIOUS
  <2> QED BY <2>1, <2>2, <2>5 DEF TypeInv, TypeOK
<1>3. CASE Watcher
  <2> USE <1>3 DEF Watcher
  <2>1. DiskOK' OBVIOUS
  <2>2. BootOK' OBVIOUS
  <2>3. UpOK' OBVIOUS
  <2>4. Held' OBVIOUS
  <2>5. SeenOK' OBVIOUS
  <2> QED BY <2>1, <2>2, <2>3, <2>4, <2>5 DEF TypeInv, TypeOK
<1>4. CASE UiExits
  <2> USE <1>4 DEF UiExits
  <2>1. DiskOK' OBVIOUS
  <2>2. BootOK' OBVIOUS
  <2>3. UpOK' OBVIOUS
  <2>4. Held' OBVIOUS
  <2>5. SeenOK' OBVIOUS
  <2> QED BY <2>1, <2>2, <2>3, <2>4, <2>5 DEF TypeInv, TypeOK
<1>5. CASE HookAgain
  <2> USE <1>5 DEF HookAgain
  <2>1. DiskOK' OBVIOUS
  <2>2. BootOK' OBVIOUS
  <2>3. UpOK' OBVIOUS
  <2>4. Held' OBVIOUS
  <2>5. SeenOK' OBVIOUS
  <2> QED BY <2>1, <2>2, <2>3, <2>4, <2>5 DEF TypeInv, TypeOK
<1>6. CASE \E b \in Bundle \cup {Flashed, Stock} : Ladder(b)
  <2> USE <1>6 DEF Ladder, Fallbacks
  <2>1. DiskOK' OBVIOUS
  <2>2. BootOK' /\ UpOK' /\ Held' OBVIOUS
  <2>5. SeenOK' OBVIOUS
  <2> QED BY <2>1, <2>2, <2>5 DEF TypeInv, TypeOK
<1> QED BY <1>1, <1>2, <1>3, <1>4, <1>5, <1>6 DEF LaunchStep

-----------------------------------------------------------------------------
\* A power cut keeps the types.
LEMMA PowerCutTyped ==
    ASSUME TypeInv, PowerCut
    PROVE  TypeInv'
<1> USE MaxCutsTyped DEF TypeInv, TypeOK, DiskOK, BootOK, UpOK, SeenOK, Held,
        PowerCut, seen
<1>1. (dir \in [Slot -> Content])'
  <2>1. dir' = dir \/ \E d \in Doomed : dir' = [dir EXCEPT ![d] = Torn] OBVIOUS
  <2>2. dir \in [Slot -> Content] OBVIOUS
  <2> QED BY ONLY <2>1, <2>2 DEF Content
<1>2. (trial \in [sha : Bundle \cup {None}, boots : 0 .. MaxBoots])'
  <2>1. trial' \in {trial, [sha |-> None, boots |-> 0]} BY DEF HalfUnlinked
  <2>2. trial \in [sha : Bundle \cup {None}, boots : 0 .. MaxBoots] OBVIOUS
  <2>3. 0 \in 0 .. MaxBoots OBVIOUS
  <2> QED BY ONLY <2>1, <2>2, <2>3
<1>11. (mark \in [Marker -> Bundle \cup {None}])'
  <2>1. \E m \in Marker : mark' \in {mark, [mark EXCEPT ![m] = None]}
    BY DEF HalfUnlinked
  <2>2. mark \in [Marker -> Bundle \cup {None}] OBVIOUS
  <2> QED BY ONLY <2>1, <2>2
<1>3. (crashed \in BOOLEAN)'
  <2>1. CASE UNCHANGED crashed BY <2>1
  <2>2. CASE HalfUnlinked
    <3>1. CASE UNCHANGED crashed BY <3>1
    <3>2. CASE crashed' = FALSE BY <3>2
    <3> QED BY <2>2, <3>1, <3>2 DEF HalfUnlinked
  <2> QED BY <2>1, <2>2
<1>4. /\ (accepted \in Nat /\ notice \in Reasons)'
      /\ (rejected \in Seq(Bundle) /\ Len(rejected) <= Keep)'
  OBVIOUS
<1>5. (allow \in BOOLEAN /\ full \in BOOLEAN)' OBVIOUS
<1>6. BootOK' OBVIOUS
<1>7. UpOK'
  <2>1. /\ run' = NoRun /\ starts' = 0 /\ ui' = None
        /\ due' = FALSE /\ record' = None /\ dl' = NoWork
    OBVIOUS
  <2>2. 0 \in 0 .. MaxStarts + 1 OBVIOUS
  <2> QED BY ONLY <2>1, <2>2 DEF UpOK, NoRun, NoWork, WorkStage
<1>8. Held' OBVIOUS
<1>9. (cuts \in 0 .. MaxCuts)'
  <2>1. cuts' = cuts \/ (cuts < MaxCuts /\ cuts' = cuts + 1) OBVIOUS
  <2>2. cuts \in 0 .. MaxCuts /\ MaxCuts \in Nat OBVIOUS
  <2> QED BY ONLY <2>1, <2>2
<1>10. SeenOK' BY <1>9
<1>12. DiskOK' BY <1>1, <1>2, <1>3, <1>4, <1>5, <1>11
<1> QED BY <1>6, <1>7, <1>8, <1>10, <1>12

\* A full volume and a decaying bundle keep the types.
LEMMA FaultsTyped ==
    ASSUME TypeInv,
           FillOrFree \/ \E d \in {"active", "good", "good.prev"} : Decay(d)
    PROVE  TypeInv'
<1> USE DEF TypeInv, TypeOK, DiskOK, BootOK, UpOK, SeenOK, Held,
        FillOrFree, Decay, boot, up, seen
<1>1. (dir \in [Slot -> Content])'
  <2>1. dir' = dir \/ \E d \in Slot : dir' = [dir EXCEPT ![d] = Torn] OBVIOUS
  <2>2. dir \in [Slot -> Content] OBVIOUS
  <2> QED BY ONLY <2>1, <2>2 DEF Content
<1>2. DiskOK'
  <2>1. (full \in BOOLEAN)'
    <3>1. CASE FillOrFree
      <4>1. full' = ~full BY <3>1
      <4> QED BY ONLY <4>1
    <3>2. CASE UNCHANGED full BY <3>2
    <3> QED BY <3>1, <3>2
  <2>2. /\ UNCHANGED <<trial, crashed, mark, accepted>>
        /\ UNCHANGED <<rejected, notice, allow>>
    OBVIOUS
  <2> QED BY <1>1, <2>1, <2>2
<1>3. BootOK'
  <2>1. UNCHANGED boot OBVIOUS
  <2>2. UNCHANGED <<pc, choice, blame, floor0>> BY ONLY <2>1 DEF boot
  <2>3. BootOK OBVIOUS
  <2> QED BY ONLY <2>2, <2>3 DEF BootOK
<1>4. UpOK' OBVIOUS
<1>5. Held'
  <2>1. /\ UNCHANGED dir \/ pc \in {"off", "up"}
        /\ UNCHANGED <<pc, run, ui, due>>
    OBVIOUS
  <2>2. Held OBVIOUS
  <2> QED BY ONLY <2>1, <2>2 DEF Held
<1>6. SeenOK' OBVIOUS
<1> QED BY <1>2, <1>3, <1>4, <1>5, <1>6

\* The type invariant with what is held between boots is inductive.
LEMMA TypeInvariant == Spec => []TypeInv
<1>1. Init => TypeInv
  <2> SUFFICES ASSUME Init PROVE TypeInv OBVIOUS
  <2> USE MaxCutsTyped DEF Init, TypeInv, TypeOK, Held
  <2>0. /\ 0 \in 0 .. MaxBoots /\ 0 \in 0 .. MaxBoots + 1
        /\ 0 \in 0 .. MaxStarts + 1 /\ 0 \in 0 .. MaxCuts
    OBVIOUS
  <2>1. DiskOK
    <3>1. /\ dir = [d \in Slot |-> None] /\ trial = NoTrial
          /\ mark = [m \in Marker |-> None] /\ accepted = 0
          /\ rejected = <<>> /\ notice = "none" /\ Keep \in Nat
      OBVIOUS
    <3>2. /\ dir \in [Slot -> Content]
          /\ trial \in [sha : Bundle \cup {None}, boots : 0 .. MaxBoots]
          /\ mark \in [Marker -> Bundle \cup {None}]
          /\ accepted \in Nat
          /\ rejected \in Seq(Bundle) /\ Len(rejected) <= Keep
          /\ notice \in Reasons
      BY ONLY <2>0, <3>1 DEF Content, NoTrial, Reasons
    <3>3. crashed = FALSE /\ allow = TRUE /\ full = FALSE OBVIOUS
    <3> QED BY ONLY <3>2, <3>3 DEF DiskOK
  <2>2. BootOK BY DEF BootOK
  <2>3. UpOK
    <3>1. /\ run = NoRun /\ starts = 0 /\ ui = None
          /\ due = FALSE /\ record = None /\ dl = NoWork
      OBVIOUS
    <3> QED BY ONLY <2>0, <3>1 DEF UpOK, NoRun, NoWork, WorkStage
  <2>4. Held OBVIOUS
  <2>5. SeenOK
    <3>1. /\ vouched = {} /\ promoted = {} /\ refused = {} /\ tries = 0
          /\ goBack = FALSE /\ staged = FALSE /\ discarded = FALSE
          /\ cuts = 0
      OBVIOUS
    <3> QED BY ONLY <2>0, <3>1 DEF SeenOK
  <2> QED BY <2>1, <2>2, <2>3, <2>4, <2>5
<1>2. TypeInv /\ [Next]_allVars => TypeInv'
  <2> SUFFICES ASSUME TypeInv, [Next]_allVars PROVE TypeInv' OBVIOUS
  <2>1. CASE BootStep /\ UNCHANGED cuts BY <2>1, BootStepTyped
  <2>2. CASE UiStep /\ UNCHANGED cuts BY <2>2, UiStepTyped
  <2>3. CASE LaunchStep /\ UNCHANGED cuts BY <2>3, LaunchStepTyped
  <2>4. CASE PowerCut BY <2>4, PowerCutTyped
  <2>5. CASE FillOrFree BY <2>5, FaultsTyped
  <2>6. CASE \E d \in {"active", "good", "good.prev"} : Decay(d)
    BY <2>6, FaultsTyped
  <2>7. CASE UNCHANGED allVars
    <3> USE <2>7 DEF TypeInv, TypeOK, allVars, vars, disk, boot, up, seen
    <3>1. DiskOK' BY DEF DiskOK
    <3>2. BootOK' BY DEF BootOK
    <3>3. UpOK' BY DEF UpOK
    <3>4. Held' BY DEF Held
    <3>5. SeenOK' BY DEF SeenOK
    <3> QED BY <3>1, <3>2, <3>3, <3>4, <3>5
  <2> QED BY <2>1, <2>2, <2>3, <2>4, <2>5, <2>6, <2>7 DEF Next
<1> QED BY <1>1, <1>2, PTL DEF Spec

\* Every reachable state is well typed: in particular the trial file never
\* counts more than OTA_MAXBOOTS boots and the file of refused shas stays
\* bounded, whatever the boots, the user and the faults do (ota_select).
THEOREM TypeCorrect == Spec => []TypeOK
<1>1. TypeInv => TypeOK BY DEF TypeInv
<1> QED BY <1>1, TypeInvariant, PTL
=============================================================================
