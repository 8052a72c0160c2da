------------------------------- MODULE OtaUi --------------------------------
(***************************************************************************)
(* What a running diskOS user interface does to the updates directory      *)
(* (ui/ota.c): the worker thread that downloads, verifies and stages a     *)
(* bundle, the discard of a staged bundle, and the health and go-back      *)
(* markers of a build on trial.                                            *)
(***************************************************************************)
EXTENDS OtaStore

DiskosUp == pc = "up" /\ ui \in Bundle \cup {Flashed}
Worker(at) == DiskosUp /\ dl.at = at
Others == <<trial, crashed, mark, accepted, rejected, notice, allow, full>>

\* ota_stage up to the first download: the setting, the version, then leftovers
\* of an interrupted staging are cleared and incoming/ is made afresh.
StageBegin(b) ==
    /\ Worker("idle") /\ allow
    /\ Version[b] > Version[ui]
    /\ dir' = [dir EXCEPT
          !["pending"] = IF @ = None THEN dir["pending.old"] ELSE @,
          !["pending.old"] = None,
          !["incoming"] = Torn]
    /\ dl' = [at |-> "fetch", b |-> b]
    /\ UNCHANGED <<Others, boot, run, starts, ui, due, record, seen>>

\* No network, no space, cancelled, over the signed size, or it does not verify.
StageFails ==
    /\ DiskosUp /\ dl.at \in {"fetch", "verified"}
    /\ dir' = [dir EXCEPT !["incoming"] = None]
    /\ dl' = NoWork
    /\ UNCHANGED <<Others, boot, run, starts, ui, due, record, seen>>

StageFloor == IF accepted + 1 > MinUi THEN accepted + 1 ELSE MinUi

\* All files are down and verified; `ready` is written last and all is synced.
StageVerified ==
    /\ Worker("fetch") /\ WritesOk
    /\ Verifies(dl.b, StageFloor)
    /\ dir' = [dir EXCEPT !["incoming"] = dl.b]
    /\ dl' = [dl EXCEPT !.at = "verified"]
    /\ UNCHANGED <<Others, boot, run, starts, ui, due, record, seen>>

\* The bundle it replaces is removed before the new one is in place.
StageReplace ==
    /\ Worker("verified")
    /\ dir' = Removed("pending")
    /\ dl' = [dl EXCEPT !.at = "aside"]
    /\ UNCHANGED <<Others, boot, run, starts, ui, due, record, seen>>

StageAside ==
    /\ Worker("verified")
    /\ dir' = IF dir["pending"] = None THEN dir
              ELSE Moved("pending", "pending.old")
    /\ dl' = [dl EXCEPT !.at = "aside"]
    /\ UNCHANGED <<Others, boot, run, starts, ui, due, record, seen>>

StageCommit ==
    /\ Worker("aside")
    /\ dir' = Moved("incoming", "pending")
    /\ dl' = [dl EXCEPT !.at = "commit"]
    /\ discarded' = FALSE
    /\ UNCHANGED <<Others, boot, run, starts, ui, due, record>>
    /\ UNCHANGED <<vouched, promoted, refused, tries, goBack, staged>>

\* The rename into place failed.
StageCommitFails ==
    /\ Worker("aside")
    /\ dir' = [dir EXCEPT !["pending"] = dir["pending.old"],
                          !["pending.old"] = None, !["incoming"] = None]
    /\ dl' = NoWork
    /\ UNCHANGED <<Others, boot, run, starts, ui, due, record, seen>>

\* The directory is synced: the bundle is staged.
StageDurable ==
    /\ Worker("commit")
    /\ dl' = [dl EXCEPT !.at = "sweep"]
    /\ staged' = TRUE
    /\ UNCHANGED <<disk, boot, run, starts, ui, due, record>>
    /\ UNCHANGED <<vouched, promoted, refused, tries, goBack, discarded>>

\* The directory could not be synced: everything goes back as it was.
StageUndo ==
    /\ Worker("commit")
    /\ dir' = [dir EXCEPT !["pending"] = dir["pending.old"],
                          !["pending.old"] = None, !["incoming"] = None]
    /\ dl' = NoWork
    /\ UNCHANGED <<Others, boot, run, starts, ui, due, record, seen>>

StageSweep ==
    /\ Worker("sweep")
    /\ dir' = Removed("pending.old")
    /\ dl' = NoWork
    /\ UNCHANGED <<Others, boot, run, starts, ui, due, record, seen>>

-----------------------------------------------------------------------------
\* ota_discard_pending, reached with the download dialog closed: pending.old
\* goes first, so a cut leaves a pending/ that can be discarded again.

\* pending.old is left behind.
DiscardPendingOnly ==
    /\ Worker("idle") /\ allow /\ dir["pending"] # None
    /\ dl' = [dl EXCEPT !.at = "discard"]
    /\ staged' = FALSE
    /\ UNCHANGED <<disk, boot, run, starts, ui, due, record>>
    /\ UNCHANGED <<vouched, promoted, refused, tries, goBack, discarded>>

DiscardAside ==
    /\ Worker("idle") /\ allow /\ dir["pending"] # None
    /\ dir' = Removed("pending.old")
    /\ dl' = [dl EXCEPT !.at = "discard"]
    /\ staged' = FALSE
    /\ UNCHANGED <<Others, boot, run, starts, ui, due, record>>
    /\ UNCHANGED <<vouched, promoted, refused, tries, goBack, discarded>>

\* A removal or the sync may fail, or the setting may not be saved: then
\* updates stay allowed and the user is told that nothing was discarded.
DiscardPending ==
    /\ Worker("discard")
    /\ \/ dir' = Removed("pending") /\ allow' = FALSE /\ discarded' = TRUE
       \/ /\ dir' \in {dir, Removed("pending"), [dir EXCEPT !["pending"] = Torn]}
          /\ UNCHANGED <<allow, discarded>>
    /\ dl' = NoWork
    /\ UNCHANGED <<trial, crashed, mark, accepted, rejected, notice, full>>
    /\ UNCHANGED <<boot, run, starts, ui, due, record>>
    /\ UNCHANGED <<vouched, promoted, refused, tries, goBack, staged>>

\* With no complete bundle staged the switch is simply saved, also while the
\* worker downloads: it has looked at the switch already.
AllowSwitch ==
    /\ DiskosUp /\ dl.at # "discard"
    /\ allow => dir["pending"] \notin Bundle
    /\ allow' = ~allow
    /\ UNCHANGED <<dir, trial, crashed, mark, accepted, rejected, notice, full>>
    /\ UNCHANGED <<boot, up, seen>>

-----------------------------------------------------------------------------
\* The proof a build on trial gives, and the request to drop it.

\* The run and launch records agree on a trial; who is running is not asked.
TrialByRecord == run.kind = "trial" /\ record = run.sha

\* trial_is_me: moreover the running executable hashes to that sha.
TrialIsMe == run.kind = "trial" /\ record = run.sha /\ ui = run.sha

HealthWrite ==
    /\ DiskosUp /\ TrialIsMe /\ WritesOk
    /\ mark' = [mark EXCEPT !["healthy"] = run.sha]
    /\ vouched' = vouched \cup {ui}
    /\ UNCHANGED <<dir, trial, crashed, accepted, rejected, notice, allow, full>>
    /\ UNCHANGED <<boot, up>>
    /\ UNCHANGED <<promoted, refused, tries, goBack, staged, discarded>>

RevertWrite ==
    /\ DiskosUp /\ TrialIsMe /\ WritesOk
    /\ mark' = [mark EXCEPT !["revert"] = run.sha]
    /\ goBack' = TRUE
    /\ UNCHANGED <<dir, trial, crashed, accepted, rejected, notice, allow, full>>
    /\ UNCHANGED <<boot, up>>
    /\ UNCHANGED <<vouched, promoted, refused, tries, staged, discarded>>

\* The rollback notice is taken, and shown once, when About is opened.
RollbackTake ==
    /\ DiskosUp /\ notice # "none"
    /\ notice' = "none"
    /\ UNCHANGED <<dir, trial, crashed, mark, accepted, rejected, allow, full>>
    /\ UNCHANGED <<boot, up, seen>>

UiStep ==
    \/ \E b \in Bundle : StageBegin(b)
    \/ StageFails \/ StageVerified \/ StageAside \/ StageCommit
    \/ StageCommitFails \/ StageDurable \/ StageUndo \/ StageSweep
    \/ DiscardAside \/ DiscardPending \/ AllowSwitch
    \/ HealthWrite \/ RevertWrite \/ RollbackTake
=============================================================================
