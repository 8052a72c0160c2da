------------------------------ MODULE OtaBoot -------------------------------
(***************************************************************************)
(* The build selection of the boot installer: ota_select and what it calls *)
(* in payload/S97diskos_install.  Every step is one change of /usr/data or *)
(* one decision, because power may be cut between any two of them; the     *)
(* next boot starts again at "restore" with whatever was left on disk.     *)
(***************************************************************************)
EXTENDS OtaStore

At(stage) == pc = stage
Then(stage) == pc' = stage
OnDisk == <<trial, crashed, mark, accepted, rejected, notice, allow, full>>

\* Power comes up.  The staging directory and the OTA files of the rootfs
\* exist; the floor is read once, before anything is decided.
PowerOn ==
    /\ At("off") /\ Then("restore")
    /\ UNCHANGED <<disk, choice, blame, floor0, up, seen>>

\* good.prev stands in for a good that a cut left between two renames.
RestoreGood ==
    /\ At("restore") /\ Then("sweep")
    /\ dir' = IF dir["good"] = None /\ dir["good.prev"] # None
              THEN Moved("good.prev", "good") ELSE dir
    /\ UNCHANGED <<OnDisk, choice, blame, floor0, up, seen>>

SweepIncoming ==
    /\ At("sweep") /\ Then("aside")
    /\ dir' = Removed("incoming")
    /\ UNCHANGED <<OnDisk, choice, blame, floor0, up, seen>>

\* An interrupted replacement of pending/: put the old one back, or drop it if
\* the new one made it.
SettleAside ==
    /\ At("aside") /\ Then("orphan")
    /\ dir' = IF dir["pending"] # None THEN Removed("pending.old")
              ELSE Moved("pending.old", "pending")
    /\ UNCHANGED <<OnDisk, choice, blame, floor0, up, seen>>

DropOrphanTrial ==
    /\ At("orphan") /\ Then("judge")
    /\ IF dir["active"] = None
       THEN /\ trial' = NoTrial
            /\ mark' = [mark EXCEPT !["launched"] = None]
       ELSE UNCHANGED <<trial, mark>>
    /\ floor0' = accepted
    /\ UNCHANGED <<dir, crashed, accepted, rejected, notice, allow, full>>
    /\ UNCHANGED <<choice, blame, up, seen>>

-----------------------------------------------------------------------------
\* 1. A build on trial: promote it, keep it on trial, or roll it back.

Active == dir["active"]
OnTrialSha == trial.sha = Active
\* Without the health marker of the user interface.
ProvenByLaunch == OnTrialSha /\ mark["launched"] = Active

\* The user interface vouched for these bytes, and the launcher recorded that
\* it was these bytes it started.
Proven ==
    /\ OnTrialSha
    /\ mark["healthy"] = Active
    /\ mark["launched"] = Active

\* Health is decided on before the request to go back.
RevertedUnproven == mark["revert"] = Active /\ ~Proven

\* The user asked to drop exactly this trial: beats everything, health included.
Reverted == mark["revert"] = Active

RollBack(why, sha) ==
    /\ Then("refuse")
    /\ blame' = [why |-> why, sha |-> sha]
    /\ UNCHANGED <<disk, choice, floor0, up, seen>>

NoActive ==
    /\ At("judge") /\ Active = None
    /\ Then("consume")
    /\ UNCHANGED <<disk, choice, blame, floor0, up, seen>>

\* The launcher gave up on the trial in an earlier boot.
JudgeCrashed ==
    /\ At("judge") /\ Active # None /\ crashed
    /\ RollBack("crashloop", IF Verifies(Active, MinUi) THEN Active ELSE None)

JudgeUnverified ==
    /\ At("judge") /\ Active # None /\ ~crashed
    /\ ~Verifies(Active, MinUi)
    /\ RollBack("verify", None)

Judged ==
    /\ At("judge") /\ ~crashed
    /\ Verifies(Active, MinUi)

JudgeRevert ==
    /\ Judged /\ Reverted
    /\ RollBack("user", Active)

\* Promotes without raising the floor.
JudgeNoFloor ==
    /\ Judged /\ ~Reverted /\ Proven
    /\ Then("promoteClear")
    /\ UNCHANGED <<disk, choice, blame, floor0, up, seen>>

\* ota_write_accepted: tmp, rename, sync, read back.
JudgeRaiseFloor ==
    /\ Judged /\ ~Reverted /\ Proven
    /\ WritesOk
    /\ accepted' = Epoch[Active]
    /\ Then("promoteClear")
    /\ UNCHANGED <<dir, trial, crashed, mark, rejected, notice, allow, full>>
    /\ UNCHANGED <<choice, blame, floor0, up, seen>>

\* The floor could not be made durable: the file may hold either value, and the
\* build is treated as one that has not proved itself.
JudgeFloorLost ==
    /\ Judged /\ ~Reverted /\ Proven
    /\ \/ full /\ UNCHANGED accepted
       \/ "sync" \in Faults /\ ~full /\ accepted' \in {accepted, Epoch[Active]}
    /\ Then("again")
    /\ UNCHANGED <<dir, trial, crashed, mark, rejected, notice, allow, full>>
    /\ UNCHANGED <<choice, blame, floor0, up, seen>>

JudgeUnproven ==
    /\ Judged /\ ~Reverted /\ ~Proven
    /\ Then("again")
    /\ UNCHANGED <<disk, choice, blame, floor0, up, seen>>

\* The boot count is compared one too late.
BootsLeftLate == OnTrialSha /\ trial.boots <= MaxBoots

BootsLeft == OnTrialSha /\ trial.boots < MaxBoots

\* The boot count stays as it is.
SameCount == trial

OneMoreBoot == [trial EXCEPT !.boots = @ + 1]

\* Another boot for the trial; the result of writing the count is not looked at.
TrialAgain ==
    /\ At("again") /\ BootsLeft
    /\ trial' = IF WritesOk THEN OneMoreBoot ELSE trial
    /\ choice' = "trial"
    /\ Then("consume")
    /\ UNCHANGED <<dir, crashed, mark, accepted, rejected, notice, allow, full>>
    /\ UNCHANGED <<blame, floor0, up, seen>>

TrialOver ==
    /\ At("again") /\ ~BootsLeft
    /\ RollBack("unhealthy", Active)

-----------------------------------------------------------------------------
\* Promotion: good -> good.prev, active -> good, then the markers of the trial.

PromoteClear ==
    /\ At("promoteClear")
    /\ IF dir["good"] # None
       THEN dir' = Removed("good.prev") /\ Then("promoteKeep")
       ELSE UNCHANGED dir /\ Then("promoteSwap")
    /\ UNCHANGED <<OnDisk, choice, blame, floor0, up, seen>>

\* The old good build is deleted instead of kept aside.
PromoteDrop ==
    /\ At("promoteKeep") /\ Then("promoteSwap")
    /\ dir' = Removed("good")
    /\ UNCHANGED <<OnDisk, choice, blame, floor0, up, seen>>

PromoteKeep ==
    /\ At("promoteKeep") /\ Then("promoteSwap")
    /\ dir' = Moved("good", "good.prev")
    /\ UNCHANGED <<OnDisk, choice, blame, floor0, up, seen>>

PromoteSwap ==
    /\ At("promoteSwap") /\ Then("promoteTidy")
    /\ dir' = Moved("active", "good")
    /\ promoted' = promoted \cup {Active}
    /\ UNCHANGED <<OnDisk, choice, blame, floor0, up>>
    /\ UNCHANGED <<vouched, refused, tries, goBack, staged, discarded>>

\* The rename failed: the old good build goes back, the trial stays a trial.
PromoteFails ==
    /\ At("promoteSwap") /\ "rename" \in Faults
    /\ dir' = IF dir["good"] = None /\ dir["good.prev"] # None
              THEN Moved("good.prev", "good") ELSE dir
    /\ choice' = "trial"
    /\ Then("consume")
    /\ UNCHANGED <<OnDisk, blame, floor0, up, seen>>

PromoteTidy ==
    /\ At("promoteTidy") /\ Then("consume")
    /\ trial' = NoTrial /\ crashed' = FALSE
    /\ mark' = [mark EXCEPT !["healthy"] = None, !["launched"] = None]
    /\ choice' = "good"
    /\ UNCHANGED <<dir, accepted, rejected, notice, allow, full>>
    /\ UNCHANGED <<blame, floor0, up, seen>>

-----------------------------------------------------------------------------
\* ota_rollback: remember the sha, drop the build, drop its markers, tell.

Refuse ==
    /\ At("refuse") /\ Then("dropActive")
    /\ IF blame.sha # None /\ WritesOk
       THEN /\ rejected' = Remember(rejected, blame.sha)
            /\ refused' = refused \cup {blame.sha}
       ELSE UNCHANGED <<rejected, refused>>
    /\ UNCHANGED <<dir, trial, crashed, mark, accepted, notice, allow, full>>
    /\ UNCHANGED <<choice, blame, floor0, up>>
    /\ UNCHANGED <<vouched, promoted, tries, goBack, staged, discarded>>

DropActive ==
    /\ At("dropActive") /\ Then("dropMarks")
    /\ dir' = Removed("active")
    /\ UNCHANGED <<OnDisk, choice, blame, floor0, up, seen>>

DropMarks ==
    /\ At("dropMarks") /\ Then("note")
    /\ trial' = NoTrial /\ crashed' = FALSE
    /\ mark' = [mark EXCEPT !["healthy"] = None, !["launched"] = None]
    /\ UNCHANGED <<dir, accepted, rejected, notice, allow, full>>
    /\ UNCHANGED <<choice, blame, floor0, up, seen>>

Note ==
    /\ At("note") /\ Then("consume")
    /\ notice' = IF WritesOk THEN blame.why ELSE notice
    /\ blame' = NoBlame
    /\ UNCHANGED <<dir, trial, crashed, mark, accepted, rejected, allow, full>>
    /\ UNCHANGED <<choice, floor0, up, seen>>

\* The revert request is spent, whatever it said.
ConsumeRevert ==
    /\ At("consume") /\ Then("offer")
    /\ mark' = [mark EXCEPT !["revert"] = None]
    /\ UNCHANGED <<dir, trial, crashed, accepted, rejected, notice, allow, full>>
    /\ UNCHANGED <<choice, blame, floor0, up, seen>>

-----------------------------------------------------------------------------
\* 2. A newly staged bundle: verified again, then put on trial.

Offered == dir["pending"]

\* Any validly signed bundle will do, however old.
AnyEpoch == MinUi

\* One more than the floor that was read when the selection started.
OfferFloor == IF floor0 + 1 > MinUi THEN floor0 + 1 ELSE MinUi

\* The rejected list is not looked at.
OfferVerifies == Verifies(Offered, OfferFloor)

OfferOk == Verifies(Offered, OfferFloor) /\ Offered \notin Recalled(rejected)

NoOffer ==
    /\ At("offer") /\ (choice # "none" \/ Offered = None)
    /\ Then("fallback")
    /\ UNCHANGED <<disk, choice, blame, floor0, up, seen>>

\* The boot count is on disk before the build is where a boot looks for it.
OfferStart ==
    /\ At("offer") /\ choice = "none" /\ OfferOk /\ WritesOk
    /\ trial' = [sha |-> Offered, boots |-> 1]
    /\ Then("offerClear")
    /\ UNCHANGED <<dir, crashed, mark, accepted, rejected, notice, allow, full>>
    /\ UNCHANGED <<choice, blame, floor0, up, seen>>

\* trial could not be written: the bundle waits for a later boot.
OfferLater ==
    /\ At("offer") /\ choice = "none" /\ OfferOk /\ ~WritesOk
    /\ mark' = [mark EXCEPT !["healthy"] = None, !["launched"] = None]
    /\ crashed' = FALSE
    /\ trial' = NoTrial
    /\ Then("fallback")
    /\ UNCHANGED <<dir, accepted, rejected, notice, allow, full>>
    /\ UNCHANGED <<choice, blame, floor0, up, seen>>

\* A marker of an earlier trial must not speak for this one.
OfferClear ==
    /\ At("offerClear") /\ Then("offerTake")
    /\ mark' = [mark EXCEPT !["healthy"] = None, !["launched"] = None]
    /\ crashed' = FALSE
    /\ UNCHANGED <<dir, trial, accepted, rejected, notice, allow, full>>
    /\ UNCHANGED <<choice, blame, floor0, up, seen>>

OfferTake ==
    /\ At("offerTake") /\ Then("fallback")
    /\ dir' = Moved("pending", "active")
    /\ choice' = "trial"
    /\ tries' = 0 /\ goBack' = FALSE /\ staged' = FALSE
    /\ UNCHANGED <<OnDisk, blame, floor0, up>>
    /\ UNCHANGED <<vouched, promoted, refused, discarded>>

\* The rename failed: the trial is called off, the bundle waits where it is.
OfferTakeFails ==
    /\ At("offerTake") /\ "rename" \in Faults /\ Then("fallback")
    /\ trial' = NoTrial
    /\ UNCHANGED <<dir, crashed, mark, accepted, rejected, notice, allow, full>>
    /\ UNCHANGED <<choice, blame, floor0, up, seen>>

OfferRefused ==
    /\ At("offer") /\ choice = "none" /\ Offered # None /\ ~OfferOk
    /\ Then("offerDrop")
    /\ staged' = FALSE
    /\ UNCHANGED <<disk, choice, blame, floor0, up>>
    /\ UNCHANGED <<vouched, promoted, refused, tries, goBack, discarded>>

OfferDrop ==
    /\ At("offerDrop") /\ Then("fallback")
    /\ dir' = Removed("pending")
    /\ UNCHANGED <<OnDisk, choice, blame, floor0, up, seen>>

-----------------------------------------------------------------------------
\* 3. Otherwise the last good bundle, verified again in this boot, or the one
\* it replaced; then 4. what the rest of the installer works from.

Good == dir["good"]

NoFallback ==
    /\ At("fallback") /\ (choice # "none" \/ Good = None)
    /\ Then("settle")
    /\ UNCHANGED <<disk, choice, blame, floor0, up, seen>>

FallbackGood ==
    /\ At("fallback") /\ choice = "none" /\ Verifies(Good, MinUi)
    /\ choice' = "good" /\ Then("keepGood")
    /\ UNCHANGED <<disk, blame, floor0, up, seen>>

FallbackBad ==
    /\ At("fallback") /\ choice = "none"
    /\ Good # None /\ ~Verifies(Good, MinUi)
    /\ Then("dropGood")
    /\ UNCHANGED <<disk, choice, blame, floor0, up, seen>>

DropGood ==
    /\ At("dropGood")
    /\ dir' = Removed("good")
    /\ Then(IF dir["good.prev"] = None THEN "settle" ELSE "usePrev")
    /\ UNCHANGED <<OnDisk, choice, blame, floor0, up, seen>>

UsePrev ==
    /\ At("usePrev") /\ Then("checkPrev")
    /\ dir' = Moved("good.prev", "good")
    /\ UNCHANGED <<OnDisk, choice, blame, floor0, up, seen>>

CheckPrev ==
    /\ At("checkPrev")
    /\ IF Verifies(Good, MinUi)
       THEN choice' = "good" /\ Then("keepGood") /\ UNCHANGED dir
       ELSE dir' = Removed("good") /\ Then("settle") /\ UNCHANGED choice
    /\ UNCHANGED <<OnDisk, blame, floor0, up, seen>>

\* The good build has been verified in a later boot than its promotion.
KeepGood ==
    /\ At("keepGood") /\ Then("raise")
    /\ dir' = Removed("good.prev")
    /\ UNCHANGED <<OnDisk, choice, blame, floor0, up, seen>>

RaiseToGood ==
    /\ At("raise") /\ Then("settle")
    /\ accepted' = IF Epoch[Good] > accepted /\ WritesOk
                   THEN Epoch[Good] ELSE accepted
    /\ UNCHANGED <<dir, trial, crashed, mark, rejected, notice, allow, full>>
    /\ UNCHANGED <<choice, blame, floor0, up, seen>>

Chosen == IF choice = "trial" THEN Active ELSE Good
IfVerified(d) == IF Verifies(dir[d], MinUi) THEN dir[d] ELSE None
RunFlashed ==
    [kind |-> "flashed", sha |-> Flashed, good |-> None, prev |-> None]
RunChosen ==
    [kind |-> choice, sha |-> Chosen,
     good |-> IF choice = "trial" THEN IfVerified("good") ELSE None,
     prev |-> IfVerified("good.prev")]

Settle ==
    /\ At("settle") /\ Then("publish")
    /\ run' = IF choice # "none" /\ Verifies(Chosen, MinUi)
              THEN RunChosen ELSE RunFlashed
    /\ tries' = IF choice = "trial" /\ mark["healthy"] # Active
                   /\ tries <= MaxBoots
                THEN tries + 1 ELSE tries
    /\ UNCHANGED <<disk, choice, blame, floor0>>
    /\ UNCHANGED <<starts, ui, due, record, dl>>
    /\ UNCHANGED <<vouched, promoted, refused, goBack, staged, discarded>>

\* The build is installed under /usr/data/mq_ui, verified there, and readiness
\* is published; otherwise the override is off and the vendor's UI starts.
Publish ==
    /\ At("publish") /\ Then("hook")
    /\ choice' = "none"
    /\ UNCHANGED <<disk, blame, floor0, up, seen>>

PublishFails ==
    /\ At("publish") /\ Then("up")
    /\ choice' = "none" /\ run' = NoRun /\ ui' = Stock
    /\ UNCHANGED <<disk, blame, floor0, starts, due, record, dl, seen>>

BootStep ==
    \/ PowerOn \/ RestoreGood \/ SweepIncoming \/ SettleAside \/ DropOrphanTrial
    \/ NoActive \/ JudgeCrashed \/ JudgeUnverified \/ JudgeRevert
    \/ JudgeRaiseFloor \/ JudgeFloorLost \/ JudgeUnproven
    \/ TrialAgain \/ TrialOver
    \/ PromoteClear \/ PromoteKeep \/ PromoteSwap \/ PromoteFails \/ PromoteTidy
    \/ Refuse \/ DropActive \/ DropMarks \/ Note \/ ConsumeRevert
    \/ NoOffer \/ OfferStart \/ OfferLater \/ OfferClear \/ OfferTake
    \/ OfferTakeFails \/ OfferRefused \/ OfferDrop
    \/ NoFallback \/ FallbackGood \/ FallbackBad \/ DropGood \/ UsePrev
    \/ CheckPrev \/ KeepGood \/ RaiseToGood
    \/ Settle \/ Publish \/ PublishFails
=============================================================================
