# A formal model of diskOS

diskOS replaces the user interface of a portable music player and keeps the
vendor's player process underneath. The repository holds the host installer
(`diskos_installer/`), the NAND writer (`flash/`), the boot scripts and the
launcher of the device (`payload/`, `src/launcher/`) and the interface itself
(`ui/`). This directory holds TLA+ modules translated from that code, the TLC
configurations that check them on small instances, and theorems about them that
the TLA+ proof system checks for every value of the constants.

`PROJECT.json` names, for every definition, the source lines it stands for; for
every property, a plausible bug of the code that breaks it; and every hazard of
the code with the properties that cover it. Paths below are relative to the
repository.

## 1. The system

### Components

| Component | State it keeps | Operations | Hard parts |
|---|---|---|---|
| Update installation at boot (`payload/S97diskos_install`) | directories and markers of `/usr/data/updates` | select a build: restore an interrupted replacement, judge the trial, promote or roll back, try a staged bundle, fall back on the good one, raise the floor, publish | a power cut after any disk operation; failing writes, syncs and renames; a full disk; markers of an earlier trial |
| Update staging and markers (`ui/ota.c`) | the staging worker, the setting `ota_allow`, the health, revert and notice markers | stage, discard, allow, vouch for oneself, go back | two directories replaced in steps on a worker thread; the user acts meanwhile; the next boot reads what is left |
| Launcher, boot hook and its supervisor (`src/launcher/diskos_launch.c`, hook of `imagebuild.py`) | starts counter, launch token, launch record | start, watch for the crash, demote, ladder of builds; give up on a launcher and start the fallback | which build is being run when several are on disk; crash loops; a launcher that is stuck and wakes up late; processes that know of each other by files |
| SD card gates (`ui/sdio.c`, `ui/art.c`, `ui/main.c`) | read gate and lease counter, write gate and writer counter, fault marker, revocation token, decoder child | begin/end a read or a write, fork a decoder, collect it, give up on it | any thread at any time; the gate closes between a check and its use |
| SD hand-off to a USB host (`ui/main.c`) | source mode phase, request, deadline, marker `/tmp/.diskos_sd_export_intent` | choose a mode, the tick, resume after a restart | requests may be lost or arrive late; the player acts on its own; the interface may die at any step |
| Verdict, cold mount, recovery (`ui/main.c`) | launch verdict, cold-boot worker | judge the player, mount the card at a cold boot, find out what a previous interface left | the watchdog replaces the player; an event that outlives the thread that sent it |
| Restart and shutdown (`ui/settings.c`, `ui/power.c`) | two phase machines and one shared quiesce switch | drain, flush, hand over to the player or to the kernel; refuse | two operations with one switch; a power-off timer nobody can read back |
| Messages to the player (`ui/ipc.c`) | queue identity, descriptors, what the player said last | send, receive, health check, reattach | a replaced player behind an old descriptor; frames that are lost, late or of the queue before |
| Audiobook session (`ui/main.c`, `ui/books.c`) | the book that plays, the confirmed place, the seek it owes, the bookmark in the library | start a book, tick, seek, reattach, adopt | the player moves by itself and begins again at zero; a seek it was told of may never be done |
| Guarded launch (`payload/S96diskos_select`, `ui/main.c`) | boot preference, candidate | select, report the verdict | a record of another attempt |
| Update pages (`ui/system.c`) | one modal, timers | check, download, keep, go back | timers against dialogs |
| Interface installation (`S97`, second half) | `/usr/data/mq_ui`, the link `mq_player` to it, readiness and run record in `/tmp` | verify, stage, rename, publish, quarantine, finalize | any command may fail, be trapped, killed or cut off; a quarantine that fails itself |
| Settings store (`ui/config.c`) | memory, file, what a power cut may still bring back | load, set, defer, begin, commit, remove, flush | a rewrite that fails, or whose rename is not on disk yet; a load that breaks off |
| Last.fm (`ui/lastfm.c`) | offline queue, one worker, its one-slot result, credentials | watch playback, queue, send, acknowledge, authorise | a crash after the service accepted; results of an old session |
| Music scanner (`ui/scanner.c`) | one database transaction, seen-set | scan, cancel, commit | the card leaves in mid-scan |
| NAND writer (`flash/my_write6.c`) | block position | skip bad blocks, erase, write, verify | a block that fails its verification and is written again |
| Host installer (`diskos_installer/`) | backup generations | stage, promote, discard, prune, flash, restore | a stop between two durable writes |
| Presentation, library queries, Wi-Fi, Bluetooth, artwork, vendored code | | | not planned, except where they touch the components above |

The processes share little. Boot scripts, launcher and interface communicate
through files only: those of `/usr/data`, which survive a power cut, and those
of `/tmp`, which do not. The interface is one main thread (handlers and a timer
tick) and a few worker threads; it talks to the stock player by message queues
and reads back the state of the USB gadget and of the mount. The player, the
firmware's watchdog and the USB host are not in the repository.

### What makes them correct

*Updates.* A build becomes the one to fall back on only after that very build,
running, vouched for itself; a build once promoted never leaves the device
without a whole promoted build; nothing older than what was promoted is ever
accepted; a refused or unwanted build stays away; a trial ends.

*SD card.* The host and the interface never use the card at the same time, also
across crashes, lost requests and a decoder that cannot be killed; a gate shut
for a reason stays shut while the reason lasts, and opens again afterwards;
machines go down with the card unused.

*Bring-up.* What the hook starts from `/usr/data` is the build this boot chose
and verified, whatever failed before; a boot without a failure repairs whatever
it finds; launcher and fallback are never both an interface, and one of them
becomes one; the record of a launch is true.

*Scrobbling.* A play that was written to the queue is neither lost nor, without
a reason, sent twice, although an answer does not say which line it is about;
keys and sessions of different authorisations are never mixed up; a session
ends only by the user or by a refusal of that very session.

*Settings.* What a caller was told is saved is there after the next power cut;
a store that is not marked dirty says what the file says; keys that are set in
one batch are never half set, in memory or on disk.

*Audiobooks.* A bookmark is a position the player reported of that very book,
or one the user sought; a position the player came to by itself never takes it
back behind where the listener wanted to be or has come to, although the player
begins again at zero after every restart.

## 2. The modules

```
OtaStore                 what the update keeps on disk and in /tmp
  |-- OtaBoot            S97diskos_install, one action per disk operation
  |-- OtaUi              ui/ota.c: staging, discarding, markers
  |-- OtaLaunch          diskos_launch.c and the boot hook
        Ota              the three composed, power cuts, faults, properties
          |-- UpdateSlots    (INSTANCE) what an update promises
          |-- OtaProofs      types
          |     OtaSafetyProofs  the floor and the promises of the update
          |-- MCOta          values for TLC
Install                  S97diskos_install after the choice, one action per command
  Start                  hook, supervisor, launcher and watchers
    Bringup              the two composed with power cuts, properties
      |-- BringupProofs      types and the four safety properties
      |-- MCBringup          values for TLC
SdGate                   leases, writers, decoders, token
  SdHandoff              modes, phases, markers, the tick
    SdLife               verdict, cold mount, recovery, restart, shutdown
      Sd                 composed with the stock player, properties
        |-- SdProofs         types
        |     SdSafetyProofs the host has the card alone; restart, shutdown,
        |                    revocation; the refinement
        |-- CardOwner        (INSTANCE) what the hand-off promises
        |-- MCSd             values for TLC
Scrobble                 ui/lastfm.c, the file, the service, properties
  |-- Outbox             (INSTANCE) what scrobbling promises
  |-- ScrobbleProofs     types, the queue, the sessions, the refinement
  |-- MCScrobble         values for TLC
Settings                 ui/config.c, its three files, properties
  |-- SettingsProofs     that what was saved stays
  |-- MCSettings         values for TLC
Link                     the player's queue, ui/ipc.c's receive thread
  Book                   the audiobook session on top of it, properties
    |-- BookProofs       types, whose positions, never back
    |-- MCBook           values for TLC
```

### Updates

`OtaStore` declares the files. A bundle is a model value with an epoch and a
version; a directory holds one, nothing, or `Torn` (files missing or changed:
it does not verify). Signatures are inside `Verifies`.

`OtaBoot` follows `ota_select` branch by branch. Its program counter `pc` is
the place in the script; each action is one operation on the disk, so a power
cut between any two is a `PowerCut` from that `pc`. `Then` is the order of the
script. The functions that only compute (`ota_key_ok`, `ota_epoch`) are guards.
What the interface installation does with the chosen build is `Publishes` or
`PublishFails` as a whole; its steps are in `Install`.

`OtaUi` is the worker of `ota_stage` as a machine (`dl.at`), one action per
step on the disk, beside the user's discard, the allow switch, the health
marker, the revert marker and the collection of the notice. `StageBegin` may
start for any newer bundle: it admits every caller of `ota_stage`. The allow
switch may be changed at any step of the worker, which looks at it once, and a
discard may fail in part, which leaves the switch on.

`OtaLaunch` is the hook, the launcher with its starts counter, the watcher that
writes `launched` and `trial.crashed`, and the ladder of builds.

`Ota` composes them and adds the environment: power cuts (`MaxCuts` of them in
the middle of a boot's work), a disk that fills and empties, bytes that rot
(`Decay`), failing syncs and renames. `Faults` says which an instance has.

`UpdateSlots` is the promise: one base build, one candidate, one floor. A
candidate is accepted or dropped, the floor rises before an acceptance, a
refused build is never a candidate. `Ota` implements it under `BaseOf` and
`CandidateOf`, which read the base out of `good` and `good.prev` at any step of
the four renames and removals of a promotion.

### Bring-up

`Install` takes over where `ota_select` has settled on a build (`want`, or none
without a manifest). `at` is the next command of the worker. A file has the
bytes of a build, or `Torn`, anything else; `link` is what is found at
`mq_player`. Every command may work, if its operands allow it, or break
(`Breaks`): a failed `rm` whose result nobody looks at goes on, a failed check
takes the other branch, and `quarantine` is three commands with the test of
`override_on` in the last. `publish_symlink` and `quarantine` are called from
several places; `caller` says from which, and where they return to. The trap of
the script, the kill by its supervisor after 180 seconds and a power cut may
come between any two commands. `calm` observes a boot in which diskOS was
selected and nothing failed.

`Start` has the three kinds of process of a launch. The launcher walks its
ladder (`rung`) and may stop anywhere; it looks at the token before it arms a
watcher and again before the exec. A watcher waits for its pipe to close, looks
whether its launcher is alive, and writes the record in a later step. The
supervisor forks, polls until there is a record, an end or fifteen seconds,
judges, and then either waits or revokes, kills and starts the fallback. The
vendor's script may run the hook again in the same boot (`HookAgain`), with the
record and the watchers of the first launch still there.

`Bringup` runs one after the other, cuts the power at any step, lets the files
decay between two boots, and states what the two promise together.

### SD card

`SdGate` has a record per worker thread: its lease, its write, the token of its
request. A thread begins a read (`lease_begin`), asks to write (a request
answered by the main thread through its tick), forks a decoder, gives up on it.
The fault flag in memory and the fault file in `/tmp` are separate, as in
`sdio.c`.

`SdHandoff` keeps the order of marker, phase and request: a handler that sends
is two steps (`todo`), since the interface may die in between and since what is
sent may be lost although the send reports success and the reverse.

`SdLife` has the verdict (`sd_features_gate_cb`), the cold-boot worker, the
resumption at start, and the machines of restart and shutdown over the one
switch `quiesce`. `UiDies` drops the memory of the interface and keeps the
files, the player's queue and what the player has been told.

`Sd` adds the stock player as the code in `ui/main.c` sees it: requests taken
from a bounded queue, the gadget armed and bound in two steps, the mount taken
away and given back or not, its replacement, its power-off timer.

`CardOwner` is the promise: users, whether the card is lent, and whether that is
on record. Users begin only while nothing is on record; the record is made when
the last is gone, the card is lent only with it, and it is removed only when the
card is back. The mapping (`Sd!RefinesOwner`) counts every lease, write and
decoder and the cold-boot worker's mount as users, and calls the card lent from
the moment a request for it is on its way, sent or not, until the gadget is free
and no such request is left: the record must outlive every request, also one
that a new interface repeats. A decoder that could not be collected is not a
user any more; that is what the fault is for.

### Scrobbling

`Scrobble` has one variable per static of `lastfm.c`: the candidate of the
watcher, the credentials and the session (also as the settings file has them),
the generation, the state of the authorisation, the request in the worker's
hands (`job`) and the result slot (`result`). A round of `lastfm_poll` is two
steps, `TakeStep` (one action per branch of `lfm_handle_result`) and `DriveStep`
(the three drivers in their order), because the worker may end in between;
handlers of the page and the watcher come between rounds. The file is a
sequence of plays, of which the first `synced` survive a power cut: appends are
not synced, a removal syncs what is left. `kept`, `answered`, `unsure` and
`lost` only observe. The service answers any request in any way the parser can
tell apart (`Replies`).

`Outbox` is what this promises without worker, sessions and rounds: plays go into
a box once and in order, the oldest is sent, one at a time, and only what was
delivered is removed. `Scrobble!RefinesOutbox` maps the box to the file, what is
safe in it to the synced lines, the play on its way to the scrobble of the job or
of the result nobody read yet, and what was delivered to `answered`. Whether the
interface learned of an answer does not show in the box: a restart, a failed
removal and a lost answer are all a `GiveUp`, and the play goes again.

### Settings

All calls of `config.c` are made on the main thread, so a call is one action,
a batch excepted, with the outcome of its write as a choice: done, renamed with the directory
sync failed, or not done. `mem`, `dirty`, `loadFailed` and `saveErr` are the
statics of the file, `file`, `legacy` and `swipe` the three files `cfg_load`
knows. `maybe` is the set of contents a power cut may leave (a renamed file
whose directory was not synced has two), and `promised` is what a caller was
last told of each key. Deferred sets, `cfg_remove_if` with its reload, and a
load that breaks off in mid-file are each an action. A batch is several:
`BatchBegins` takes the snapshot (`snap`, `snapDirty`), each of `BatchPuts` sets
one key of `Pair` in memory or is refused by a full store, and the end is
`BatchSaves`, one rewrite, or `BatchRollsBack`, which puts memory and the dirty
flag back. No other call comes in between, but the power may be cut.

The model keeps two places where the code is weaker than the promise one would
like to make, and `promised` says so: after `cfg_remove_if` returned -2, and
after a restart that follows an unsynced rename, the store calls an unchanged
value "fully persisted" (`config.c:185`) although the old file may come back
with a power cut. An unchanged set is therefore counted as a promise only when
no other content is possible. A batch whose rewrite failed leaves memory ahead
of the file and dirty, which `CleanMeansSaved` allows.

### Messages and audiobooks

`Link` is the player's end and ours: the queue `/ui`, which a restarted player
removes and creates again, so that the receive thread may go on listening to
nobody (`rx`); the identity check, the reopen request, and the reattach that the
main loop has yet to notice (`reconn`). `st` is the state on record: the track,
the position, whether that came after the track (`fresh`), and, as history,
whether the player said it of this track (`own`). It survives a reattach. Of the
player there is its track; where it is in it, each position frame chooses, so
that a book may begin again unannounced and a seek may be done, ignored, late or
lost without a variable for either. A position is a place on a short line
instead of milliseconds.

`Book` is the session: `ui_play_book` (flush, start, the target it owes),
`book_tick` (adoption, confirmation, the owed seek, jump guard, save),
`ui_cancel_book_resume`, the user's seeks and taps, and what the main loop does
when the queue was opened again. `guarded` is the 2.5 s window of
`g_sleep_seek_guard`: taps and seeks open it, `GuardEnds` closes it at any time,
and only while it is open does a turn take a big jump back; without it the
session is dropped unsaved (`TickBegunAgain`). `leaving` is the moment in which
`book_tick` has seen another track and `ui_cancel_book_resume` reads the state
once more. An interface that finds no queue creates one itself, which the player
then replaces. Places stand for the margins (35 s, 3 s, the 30 s of rewinding);
the deadline, the embargo and the save interval are choices. `base` observes
where the listener wanted to be in the session (the bookmark it was begun from,
or what was sought) or has come to since; a step of the player alone never
lowers it.

## 3. What TLC checks

| Run | Instance | Question |
|---|---|---|
| `ota_core` | two bundles, one power cut, failing renames | fallback, earned promotion, trial budget, staged bundle kept; refinement of `UpdateSlots`; floor never lowered; refused, unwanted, discarded builds stay out |
| `ota_worn` | one bundle, every fault | the floor with everything failing |
| `ota_live` | one bundle, one cut, fair | every trial is resolved; every staged bundle is decided |
| `bringup_core` | one signed build beside the flashed one, every fault, boots without bound, two launches in each | only verified builds are started; boots heal; one interface at a time; records are true; the first launch brings an interface up |
| `sd_core` | one thread, decoder that cannot be collected, two requests in flight, one crash | refinement of `CardOwner`; host alone, intent recorded, gates shut, decoders covered, closed after a shutdown, quiet restart and shutdown, revocation |
| `sd_live` | one thread, fair, no crash | a switch of modes ends; the gates open again |
| `sd_orphan` | a decoder outlives the interface | refuted: a decoder is covered (finding 1) |
| `sd_protected` | restart and shutdown overlap | refuted: closed after a shutdown (finding 2) |
| `scrobble_core` | two plays, two pairs of keys, a restart or power cut, a full partition | refinement of `Outbox`; no play dropped, none sent twice without reason, keys and sessions not mixed up, only the refused session wiped |
| `scrobble_live` | two plays, a file of one line, one restart, fair | an authorisation ends; the queue is worked off |
| `settings_core` | four keys, room for three, every fault, cuts and restarts without bound | a clean store is saved, what was saved survives, batches stay whole, refused or not |
| `book_core` | one book, one song, three places, a queue of one frame, two queues one after the other, taps and seeks at any time | bookmarks are the book's own, and a position the player came to by itself does not pull them back |

`ota_core` has 3.2 million distinct states, `ota_worn` 1.7, `sd_core` 2.5,
`scrobble_core` 1.8 and `settings_core` 2.3 (both with symmetry), and
`book_core` 0.5;
the others are smaller. The type invariants are theorems and no run checks them.

### Bounds, and why they are enough

* `Bundle`: two bundles give a good build, a build on trial and a staged
  replacement in every order of epochs the floor can tell apart; with one the
  worn-out device stays small enough for every fault at once. A third bundle
  only repeats the roles of `good.prev`.
* `MaxBoots` is 2, the script's own value (`S97diskos_install:227`): a trial has
  a boot that leaves it another and one that does not.
* `MaxStarts` is 1: the start that is allowed and the one that demotes.
* `MaxCuts` counts cuts in the middle of a boot. Switching off while an
  interface runs is not counted. One cut at any of the steps, then a boot that
  recovers and is itself complete; a cut of the recovery is what the theorems
  cover, and `MaxCuts = 2` was run once with one bundle.
* `Keep` is 8 as in the script. The ninth refusal makes the script forget the
  first, as it intends; `RefusedStaysOut` and `RefinesSlots` are promises of a
  list that has not forgotten anything, and `RoomSuffices` says how many builds
  and cuts that is.
* `Bundle` is one build in `bringup_core`: the installation compares bytes with
  those of the one build it wants, so a second signed build is to it what
  `Torn` is, and the flashed build is the other kind of choice. Boots, cuts and
  faults are unbounded. `MaxLaunches` 2 is a launch that meets what an earlier
  one of the same boot has left.
* `FloorMonotone` is stated for runs without a failing sync. With one, the value
  read at the start of the selection may be written over a newer one; what
  matters then, `FloorCoversPromoted`, is checked and proved with every fault.
* One `Thread` may hold a lease, write and own a decoder at the same time, and
  decodes are serialised by a mutex, so one is enough to meet every combination
  the gates can see. Two threads with symmetry (no crash, one request in flight:
  1.8 million states) pass as well, and the theorems hold for any number.
* `MaxQueue` 2 lets a withdrawn request stand behind the original. `MaxLives` 1
  is one crash of the interface, at every step; what is left of a second is
  what the first leaves.
* Two plays and two pairs of credentials: a line at the head, a line behind it,
  an authorisation under other keys. `Cap` is 2 in `scrobble_core`, so that two
  lines meet, and 1 in `scrobble_live`, so that the cap is met; the program has
  2000. `MaxGen` 3 is an authorisation given up for another. Three plays (7.7
  million states) pass as well.
* Four keys: a pair set in one batch, the key of the oldest file, one that a
  reset keeps; `Cap` 3 is the store that is full. `MaxPending` 2 contents after
  a power cut: the file and the one before it. Restarts and cuts are unbounded.
* `MaxPos` 2 has three places: the start, a bookmark, and one past it; a jump
  back is any of the steps down. A queue of one frame is full at once;
  `MaxIds` 2 is the queue of a player and that of its successor, or one the
  interface created in between. A queue of two frames (3.6 million states)
  passes as well.

Deadlock is checked in `bringup_core`. Elsewhere it is not: a device that is
switched off for good, and one whose user and player do nothing, stop.

### Fairness

`ota_live`: the boot scripts and the launcher run on while there is power, and
the device is switched off again at some time (strong fairness of `PowerCut`
from a running interface, since a trial is judged at boots). Nothing is assumed
of the user, of the staged build or of the interface's markers.

`bringup_core`: the supervisor's shell runs on (weak fairness), since each of its
waits is bounded by a count of seconds or ends with a process it waits for
(`WaitEnds` is enabled only then). Nothing is assumed of the launcher, of the
watchers, of S97 or of an interface. `AUiComesUp` is about the first launch of
a boot: a record of an earlier one, or one that its watcher writes late, ends
the poll of the second at once, and if the second launcher is then stuck the
supervisor waits for it.

`sd_live`: a handler that has begun returns, the tick timer fires again and
again (strong fairness: other handlers of the main thread come in between), a
deadline passes, an operation that was begun is refused or carried out within
its own deadline (`settings.c`, `power.c`), reads, writes and decoders come to
an end. These are timers of the code or bounded I/O. Nothing is assumed of the
user, of the player or of the card: a switch ends as uncertain if the player
never answers.

`scrobble_live`: the main loop goes round and the worker's bounded child ends
(weak fairness), the back-off passes, the ten minutes of an authorisation pass
(strong fairness of `AuthExpires`, which other drivers may precede in a round),
and a service that is asked again and again answers at last (strong fairness:
without it a queue need not drain, and the property is about the player's part).
Nothing is assumed of the user.

## 4. What is proved

TLAPS proves the following for every set of bundles or threads, every bound and
every number of crashes and power cuts.

| Theorem | Says | Assumes |
|---|---|---|
| `OtaProofs!TypeCorrect` | types of all update state, the boot count and the length of `rejected` bounded | named assumptions of `OtaStore`, `Ota` (also below) |
| `OtaSafetyProofs!FloorCoversEveryPromotion` | the floor covers every build ever promoted | nothing: every fault |
| `OtaSafetyProofs!GoodIsEarned` | the good build wrote its own health marker while it ran | nothing |
| `OtaSafetyProofs!KnownGoodIsKept` | once promoted, a whole good build is there at every instant | no bytes rot |
| `OtaSafetyProofs!TrialsAreBounded` | no trial runs in more boots than it is given | the partition is never full |
| `OtaSafetyProofs!StagedIsKept` | a staged bundle is whole until it is decided about | nothing |
| `OtaSafetyProofs!DiscardedStaysOut` | a discarded bundle does not go on trial | nothing |
| `OtaSafetyProofs!GoBackBeatsHealth` | a build to go back from is not promoted | nothing |
| `OtaSafetyProofs!FloorOnlyRises` | the floor never goes down | syncs do not fail |
| `OtaSafetyProofs!RefusedForGood` | a refused build neither goes on trial again nor becomes good | writes and syncs succeed, no refusal is forgotten |
| `OtaSafetyProofs!RoomSuffices` | no refusal is forgotten | writes and syncs succeed, `Cardinality(Bundle) + MaxCuts <= Keep` |
| `OtaSafetyProofs!UpdateRefinesSlots` | boots, launcher and worker implement `UpdateSlots` | at most renames fail, no refusal is forgotten |
| `OtaSafetyProofs!UpdateWithRoom` | the last two promises from the constants alone | at most renames fail, `Cardinality(Bundle) + MaxCuts <= Keep` |
| `BringupProofs!BringupTypes` | types of installation and start | assumptions of `Install`, `Start` (also below) |
| `BringupProofs!OnlyVerifiedRuns` | what the hook starts from `/usr/data` is the verified choice | nothing: every fault |
| `BringupProofs!BootsHeal` | a boot without a failure repairs whatever it finds | nothing of earlier boots |
| `BringupProofs!OneUiAtATime` | launcher and fallback are never both an interface | |
| `BringupProofs!RecordsAreTrue` | a record names a build that ran in this boot | |
| `SdProofs!TypesHold` | types of the hand-off, the player's queue bounded | assumptions of `SdGate` .. `Sd` (also below) |
| `SdSafetyProofs!GatesShutHolds` | both gates shut in every phase but local | |
| `SdSafetyProofs!HandoffRefinesOwner` | the hand-off implements `CardOwner` | nothing: every fault |
| `SdSafetyProofs!CardHasOneOwner` | a lent card is on record, a recorded one has no user | nothing: every fault |
| `SdSafetyProofs!IntentRecordedHolds` | no export without a marker on record | |
| `SdSafetyProofs!DecoderCoveredHolds` | every decoder covered by a lease or the fault | no decoder outlives an interface |
| `SdSafetyProofs!HostAloneHolds` | the host has the card alone | no decoder outlives an interface |
| `SdSafetyProofs!RevokedStaysShutHolds` | nothing admitted after the verdict is revoked | |
| `SdSafetyProofs!RestartQuietHolds` | a restart takes the machine down with the card unused | no shutdown overlaps |
| `SdSafetyProofs!PoweroffQuietHolds` | nothing admitted from the flush to power off | no restart overlaps |
| `SdSafetyProofs!ProtectedStaysShutHolds` | closed after a shutdown not carried out | no restart overlaps |
| `ScrobbleProofs!ScrobbleTypes` | types of the scrobbler, the file within its cap | assumptions of `Scrobble` (also below) |
| `ScrobbleProofs!NothingIsDropped` | a play leaves the file only for its own answer, or by a cut before it was durable | |
| `ScrobbleProofs!ScrobblerRefinesOutbox` | file, worker and service implement `Outbox` | nothing: every fault |
| `ScrobbleProofs!SessionsFit` | sessions belong to the keys beside them | |
| `ScrobbleProofs!OnlyOwnSessionWiped` | a session is wiped only for a refusal of itself | |
| `ScrobbleProofs!OnlyUnsureResent` | nothing answered is sent again but for a lost answer or a failed removal | |
| `SettingsProofs!SettingsTypes` | types of the store; the running file is one a cut may leave | assumptions of `Settings` (also below) |
| `SettingsProofs!CleanIsSaved` | a store not marked dirty says what the file says | |
| `SettingsProofs!SavedSettingsSurvive` | what was reported as saved is in every file a cut may leave | |
| `SettingsProofs!BatchesStayWhole` | the keys of a batch are never half set once the batch is over, also if a put was refused | |
| `BookProofs!BookTypes` | types of the session and of the queue | assumptions of `Link`, `Book` (also below) |
| `BookProofs!BookmarksAreOwn` | a bookmark the user did not seek is a position the player reported of that book | |
| `BookProofs!BookmarksAreKept` | no jump back outside the window of a seek or a tap takes a bookmark behind where the listener wanted to be or has come to, but in the flush on leaving | |

The hypotheses about overlaps and decoders are the findings: without them TLC
refutes `DecoderCovered` (`sd_orphan`) and `ProtectedStaysShut`
(`sd_protected`). Without the one about a full partition `TrialBudget` fails
(met on the way, below). Two more are limits nobody claims to pass: files
whose bytes rot are lost, and with a sync that fails the value of the floor read
at the start may be written over a newer one.

That a refused build stays out needs that writes and syncs succeed: with one
bundle and `Faults = {"full"}` or `{"sync"}` TLC refutes `RefusedStaysOut`. A
healthy build whose floor cannot be recorded is rolled back, and refused first;
if power is cut between the refusal and the removal, the next boot meets a build
on trial with a health marker, records its floor after all and promotes it. It
is a build that vouched for itself, so nothing unsafe becomes good; what the
comment promises of refused builds still does not hold of it. Rotting bytes are
no danger to this promise (`{"decay", "rename"}` passes), but they are to the
refinement: a base that rots is replaced by what was before it.

"No refusal is forgotten" (`NeverForgets`) is a property of the run: the list is
never full when a line is added. `RoomSuffices` derives it from the constants,
so that the hypothesis is met by every device that sees at most `Keep` builds
and cuts between two reflashes; the eight of the script are its answer to that.

### The arguments

*Types of the update.* `TypeOK` is not inductive: that the count on disk does
not pass `OTA_MAXBOOTS`, that only bundles are remembered as refused and that
only bundles become good need facts about the place in the script. `Held` has
them: while the trial is tried again or promoted, `active` is a bundle; while
the fallback is verified or the floor raised for it, `good` is one; a trial or a
good build that was chosen is named by a bundle; and a health mark is due only
while a build of diskOS is up.

*Floor.* `FloorInv` follows a promotion through the script. Beside the floor
itself it says that the epoch of an active bundle is at least that of every
build ever promoted, so that promoting it needs no more than its own epoch on
disk; that the floor the selection read at its start covers what was promoted
for as long as nothing was chosen; that from the raised floor to the last rename
the active epoch is on disk; and that an offered bundle on its way in was
compared with that floor. `QuietStep` disposes of all steps that touch neither
the floor nor the promoted builds, which leaves a handful of actions to argue
about.

*The other promises of the update.* Each has an invariant of its own, proved
one phase of the boot at a time on top of `TypeOK` and `Held`. `EarnedInv`: a
health marker names a build that vouched, and so does `active` while it is
being promoted. `BaseInv`: only promoted builds are under `good` and
`good.prev`, the build under promotion verifies until the last rename, and the
script never reaches the places where it would drop a good build.
`TrialInv`: the boots spent are at most the count on disk, and fewer when the
trial is about to be chosen again without a health marker; a count is started
only with a bundle still to be moved in. `StagedInv` has what each step of the
worker leaves under `incoming`, `pending` and `pending.old`, and that the worker
runs only while the boot scripts do not. `GoBackInv`: a build on trial that the
user wants to leave is named by the revert marker, and the script is at one of
the places from which a promotion cannot be reached without reading it.
`RisingInv`: an active bundle is at or above the floor, and while nothing was
chosen the value read at the start is the floor on disk.

*Refused builds.* `RefusedInv` says where a refused build can still be: under
`active`, because power was cut before it was removed. It is then `Condemned`,
having crashed, or being the one to go back from, or out of boots without a
health marker, and the script is at one of the places before the verdict
(`Undecided`), so that the boot cannot but come to the same verdict again. `AllRecalled`, that every
refused build is on the list, is kept by `remember` as long as it has room
(`RememberAdds`, `RecalledBundles`), and an offer is compared with the list
before it is moved in. For the room, `CountInv` counts lines: a build is
recorded once, and once more only when a cut came between the line and the
removal, so the list is never longer than the builds refused and the cuts spent
on such a place.

*Refinement.* `UpdateSlots` sees four things: the base, the candidate, the floor
and the refused. Each phase of the boot takes at most one of its steps: moving
an offer in is `Try`, the write of the floor is `Raise`, the last rename of a
promotion is `Accept`, the line in `rejected` is `Refuse`, and the removal,
complete or cut short by a loss of power, is `Drop`; everything else, the two
renames around `good` and the recovery of a cut between them included, stutters.
`SlotsInv` collects the facts from the invariants above that make these steps
legal: a promotion has its own epoch on disk and no refusal, an offer is above
the floor and not on the list, and `good.prev` is the base while `good` is away.

*Bring-up.* `BringupInv` has four parts beside the types. `SafeInv` says what may
be relied on at each command: that the bytes are those wanted while they are
being published, and that from the end of the script on, and wherever readiness
is on record, the override is off or is the published build; readiness and the
run record exist only at the end or in the trap's quarantine. `CalmInv` follows
a boot without a failure from command to command. `StartInv` says between which
steps of the supervisor a launcher can be alive and the hook can have an
interface of its own, and that a watcher which has not looked yet and whose
launcher is alive is of the rung being tried, and one that saw its launcher
alive is of a build that ran. Each action keeps each part; `VerifiedOnly` needs
`SafeInv` where the hook reads what S97 left, and `RecordTrue` needs the last
clause of `StartInv` where a watcher writes.

*Host.* `HostAlone` is not inductive: nothing in it says why no lease can begin
between the decision and the bind. `HostInv` adds the gates shut out of local
mode; `Told`, that the phase in memory and the marker in the file agree whenever
no handler is between the two, and what a handler that was begun will find;
`Asked`, what the marker says of the gadget and of the requests on their way;
`Gone`, that from the export marker on nobody holds a lease or writes, also
while the interface starts, and that the cold-boot worker mounts only while
there is no marker; and, if no decoder outlives an interface, `Covered` and
`Unmounted`: decoders have a lease or the fault, and the card is away unless the
fault is on record. All of it was checked with TLC on the instance of `sd_core`
before it was proved.

*Ownership.* The refinement of `CardOwner` needs `HostInv` where the controller
acts: that a drained card has no user is `Gone` and `DecoderOwned` (a decoder's
thread keeps its lease), that a request is sent under a record is `Told`, and
that the record is removed with no request left is `Asked`. Threads begin only
through open gates, which `GatesShut` and `Told` turn into "nothing on record".
What the player does needs no invariant: it can only end what was lent.

*Leaving.* `LeaveInv`: with the switch of restart and shutdown on, both gates
are shut and no tick or resumption is under way (`Shut`); while the interface
starts neither of the two has begun and the verdict is open (`Booting`); a bad
verdict means held, not writable, and no live token on a lease (`Barred`); and,
if the two never overlap, past its drain each finds the switch on (`Closing`)
and nothing in use (`Emptied`). `ClosedAdmitsNone` says that nothing is admitted
with closed gates whatever a thread does next; `AdmitsOpen` is its converse.

*Scrobbling.* None of the four properties is inductive. `Alone` says that there
is one request or one unread result, never both: a new request starts only when
the slot is empty and the slot is emptied only in the handler. From it follow
`AtHead` (the request, or its result, is of the line at the head, since lines
are appended behind and removed only by that result), `Own` (a request of a
session is of the present one, or there is none) and `Granted` (an authorisation
of the current generation names the current keys). `Distinct`, `Fresh` and
`Sent` say that a candidate is written once, so that a line whose play was
answered is the one about to go or one whose removal is known to have failed.
The refinement of `Outbox` follows from the same facts: `Fresh` for what goes
in, `AtHead` and `Noted` for what is removed, `Alone` for one at a time.

*Settings.* `SettingsInv` is inductive as a whole. Beside the three properties
it says that the running file is one of those a power cut may leave, that a
store which could not be loaded promises nothing, and that every content a cut
may leave is whole in the pairs. Two cases are hard. `cfg_remove_if` replaces
memory, after an unsynced rename, by what it reads back. And in a batch memory
may be half set, so that `BatchInv` speaks of the snapshot instead: it is whole,
it is what the file says if it was clean, memory differs from it in keys of the
batch only, and those already set have the batch's value; then the rewrite and
the roll-back both end in a whole store.

*Audiobooks.* `OwnInv` is about the order of frames: what the player said last
is where it is (`Said`), a queue not read yet begins with the name of a track,
and in the queue that is read a position at the head is of the track on record
(`Heads`). From it follows that a position taken as new is of that track
(`Fresh`), whatever was sent by whom before. `KeptInv` is about `base`. While
nothing may be saved, it is the target still owed; once saving is allowed (the
target was reached, or none was owed), no target is owed and `base` is at most the
position of the last turn, or zero. So a turn that finds a position far before
the last one either does not take it (the jump guard), or takes it in the window
of a seek or a tap, and then the listener wanted it: it becomes the new `base`.
A turn that takes a position which is no jump cannot fall behind. Without the
guard in `TickTracks` the proof stops at that action and TLC refutes the
property; that is the mutant of the property.

### Model-checked only

Liveness (`TrialResolved`, `StagedDecided`, `SwitchResolves`, `GatesReopen`,
`AuthSettles`, `QueueDrains`, `AUiComesUp`) is out of the prover's reach, as is everything
about ENABLED. Every invariant, action property and refinement that a run checks
is a theorem. `RefusedStaysOut` and `RefinesSlots` are theorems under the bound
on refusals above, and it is needed: the script remembers the last eight
(`Keep`), a ninth makes it forget the first, and since it appends without
looking for the same line, a cut between the refusal and the removal that is
repeated can fill the file with one of them.

## 5. Findings

1. *A decoder can outlive the accounting* (`sd_orphan`). `ui/sdio.h:5,14`
   promise that a lease covers every decoder child and that an unaccounted
   decoder is remembered across restarts of the interface. The marker is only
   written by a request that gives up; if the interface itself dies while a
   decoder runs, the next one knows nothing of it and may hand over the card.
2. *Restart and shutdown share a switch* (`sd_protected`).
   `ui/power.c:112-114` keeps the card closed while the player's power-off may
   be pending and tells the user to restart; a restart that is refused opens it.

Met on the way, and not runs:

* `S97diskos_install:227` gives a trial a number of boots; lines 338-341 do not
  look at whether the new count was written. On a full `/usr/data` the old count
  stays and the build is tried again at every boot. (`MCOta` with one bundle and
  `Faults = {"full"}` refutes `TrialBudget`.)
* `lfm_handle_result` (line 610) takes every numbered error but four for a bad
  entry and removes the line, those about the key or the signature too, where
  `docs/PRIVACY.md` has scrobbles queued "until they can be sent". An append to
  the queue that fails halfway leaves half a line, which the retry continues:
  one wrong scrobble of two.
* `settings.c:443-444` opens the card again when `reboot(2)` is refused although
  it has just started `reboot` in the background.
* `ui/main.c:1984-1989` says that after an insert event there is never a direct
  mount again. The memory of the event is a local variable of a thread of one
  interface (2059), and a second interface starts without it.
* The flush of a bookmark in `ui_cancel_book_resume` (`main.c:1073-1082`) has no
  guard against a position that jumped back, which `main.c:1247-1253` explains
  for the tick: the exception that `BookmarkKept` names. `book_row_cb` reads the
  bookmark before `ui_play_book` flushes a newer one, and adoption of a running
  book takes the position without asking how old it is.
* The 2.5 s after a seek of the user are started by play and pause taps too
  (`ui_defer_sleep`): a player that restarts within them passes for the user. A
  seek on a track the player has switched to by itself, before the next tick, is
  saved as the bookmark of the old book (`main.c:1104-1113`), and
  `ui_queue_jump` sets no embargo against adoption.
* `ipc.c:369-370` says that `ipc_rx_frames` guarantees the first audio settings;
  `ui_reapply_audio` runs on a reconnection only (`main.c:2781`). A health check
  that finds the queue changed between the clearing of the request and the
  opening asks for a second reattach, and an interface queue created again
  before the player's leaves commands to the orphan.
* The supervisor of the hook ends an interface that was not recorded within 15
  seconds (`imagebuild.py:357-360` has it act when no diskOS interface runs), a
  record of an attempt that failed ends its wait early, and the stock watchdog
  may start the stock interface while the hash of the fallback is taken. The
  fallback inherits the launch record of the trial, which `diskos_launch.c:35-36`
  rules out; the health marker does not depend on it (`ota.c:552`).

## 6. Abstractions and what is not modelled

* The network part of an update (manifest, download, cancellation): a fetched
  bundle is one of `Bundle`, and anything that goes wrong is `StageFails`.
* The first of the two promotion renames (good to good.prev,
  `S97diskos_install:327`) and those of the recovery (299, 305, 379) always
  succeed: `rename` is about the one that promotes a build and the one that puts
  it on trial. After a failure of the first, `mv` would move the new build into
  the directory of the old one, and the script would go on with the new one's
  name and the old one's files.
  A run record that cannot be written fails the installation in `Install`;
  `Publish` of `OtaBoot` always writes it.
* The user discards a staged bundle while the worker is idle.
* In `OtaBoot` and `OtaLaunch` the interface installation after the choice, the
  launch token and the supervisor are nondeterministic outcomes; `Install` and
  `Start` have them in steps, without the trial's bookkeeping.
* In `Install`, `/usr/data` is synchronous, as the firmware mounts it, and files
  decay between boots only. `verify_ui` is one comparison. The traps of the
  first lines, before `quarantine` exists, are the later ones. A device without
  `setsid`, where a killed worker's copy may go on, is left out, and so is
  `mq_ui.rejected`.
* In `Start`, why a rung is refused is left out: any may be, but the stock
  interface can always be executed. A killed launcher is dead at once: one stuck
  in the kernel runs no code of its own any more. Linux closes the files of a
  process shortly before it shows it as dead; a watcher that looks in between
  would take the dead launcher for an interface, and the model takes the two for
  one moment. Process ids are not used again. The vendor's watchdog, and the
  second launch site under its core dump flag, are not modelled.
* Return modes are limited to local; USB-DAC and Bluetooth receiver change no
  card state. `ChooseStorage` does not wait for the music scanner, which admits
  more than the code. The scanner is a worker thread with a lease.
* The player never exports the card unasked, and an unmount that fails twice in
  a row is not distinguished from one that fails.
* `PoweroffQuiet` is about the interface that asked. After a crash or a theme
  reload in the hand-off the player's timer may fire under the next interface:
  a hazard on record without a property, since nothing in the code claims more.
* `HostAlone` allows the card to stay mounted where a decoder could not be
  collected: its open file keeps the player from unmounting, and the interface
  reports the fault.
* In `OtaLaunch` the launcher's watcher either writes what it saw or not; one
  that has looked at its parent and not yet written when the interface dies is
  in `Start` only. The health marker needs the hash of the running executable
  all the same.
* Of the books: a bookmark that the library cannot write, the play mode and the
  slot kept for resuming, a resume target cut to a shorter duration
  (`main.c:1217`), positions within songs. `RxOpens` opens the queue and
  publishes it in one step. Volume and mode frames and the sending side
  (descriptor, generation, retries) are left out of `Link`: a command is what
  the player makes of it. That a reattach happens in the end is not
  checked: the instance with fairness is too large.
* A line of the queue file is whole or absent. A line that was removed stays
  removed: a failing directory sync after the rewrite, whose result the code
  ignores, and a rename that a power cut undoes, are left out. Threads that cannot be created are
  left out (the request stays where it was). What a phone posts are new
  credentials; `lastfm_set_credentials` and `lastfm_auth_begin` each count the
  generation up, in `Provision` once for both. A request whose `wget` outlives
  the interface may still be taken by the service: it is in `unsure`. Pausing
  only delays Now Playing and is part of `Announces`; the drivers' poll interval
  and the tests of the minimum length are in the choice of the actions.
* Not modelled at all: the components with `not_modelled` in `PROJECT.json`,
  each with its reason. Presentation and library queries run on one thread and
  keep no state worth a model; Wi-Fi and Bluetooth are mostly the supplicant's
  and bluez's behaviour; vendored code is not the program's own.

## 7. Plan

In this order:

1. `Select` (`S96diskos_select`, `launch_status` of `ui/main.c`): the choice of
   stock or diskOS before any of our code, and the verdict of `SdLife` as what it
   produces.
2. `Bringup` composed with `OtaBoot` in place of `Publishes` and with
   `OtaLaunch`'s bookkeeping of the trial.
3. `Writer` (`flash/my_write6.c`) and `Backups` (`diskos_installer/state.py`):
   the write loop as a function over a block map checked against a reference
   definition; generations under a stop at every durable write.
4. The transaction of the music scanner against a hand-off, and `Pages`
   (`ui/system.c`): the one modal against its three timers.

Theorems next: `Settings` as an implementation of an atomic store that
loses at most what it was told was unsure, and abstract specifications for `Book`
(a bookmark that no message of another track moves) and `Bringup` (an
installation that is whole or untouched).
