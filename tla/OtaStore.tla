------------------------------ MODULE OtaStore ------------------------------
(***************************************************************************)
(* What an over-the-air update keeps: the directories and marker files of  *)
(* /usr/data/updates, which survive a power cut, and the /tmp records of   *)
(* the current boot, which do not.  Three programs share this state and    *)
(* nothing else: the boot installer (module OtaBoot), the read-only        *)
(* launcher (OtaLaunch) and the running user interface (OtaUi).            *)
(*                                                                         *)
(* A bundle is named by the sha256 of its binary.  A directory holds a     *)
(* whole bundle, or is Torn: some of its files are missing or changed, so  *)
(* it does not verify.  The contents of a signature are not modelled; a    *)
(* bundle of the set Bundle carries valid ones.                            *)
(***************************************************************************)
EXTENDS Naturals, Sequences

CONSTANTS
    Bundle,     \* signed update bundles
    None,       \* no such file or directory
    Torn,       \* a directory that does not verify
    Flashed,    \* the diskOS build in the read-only rootfs
    Stock,      \* the vendor's build in the read-only rootfs
    Epoch,      \* the signed epoch of each bundle
    Version,    \* the version of each bundle and of the flashed build
    MinUi,      \* MIN_UI_EPOCH of the rootfs
    MaxBoots,   \* OTA_MAXBOOTS: boots a trial gets to prove itself
    Keep,       \* how many shas the file `rejected` remembers
    MaxStarts,  \* LAUNCH_MAX_TRIAL_STARTS: starts of a trial in one boot
    Faults      \* which faults of the environment this instance admits

ASSUME ValuesDistinct ==
    /\ {None, Torn, Flashed, Stock} \cap Bundle = {}
    /\ None # Torn /\ None # Flashed /\ None # Stock
    /\ Torn # Flashed /\ Torn # Stock /\ Flashed # Stock

ASSUME NumbersTyped ==
    /\ Epoch \in [Bundle -> Nat]
    /\ Version \in [Bundle \cup {Flashed} -> Nat]
    /\ MinUi \in Nat /\ MaxBoots \in Nat \ {0}
    /\ Keep \in Nat \ {0} /\ MaxStarts \in Nat \ {0}

\* "full": writes to /usr/data fail while it is full; "sync": the sync behind
\* the anti-rollback floor fails or times out; "rename": the rename that
\* promotes a build, or the one that puts it on trial, fails; "decay": the
\* bytes of an installed bundle change on NAND.
ASSUME FaultsKnown == Faults \subseteq {"full", "sync", "rename", "decay"}

VARIABLES
    \* on /usr/data
    dir,        \* contents of each directory of updates/
    trial,      \* the file trial: the sha on trial and its boot count
    crashed,    \* the file trial.crashed exists
    mark,       \* the sha named by healthy, revert and trial.launched
    accepted,   \* the epoch in the file accepted (0 when there is none)
    rejected,   \* the shas in the file rejected, oldest first
    notice,     \* the reason in the file rollback
    allow,      \* the setting ota_allow
    full,       \* /usr/data has no room for another file
    \* on tmpfs and in the processes of this boot
    pc,         \* where the boot is: see BootStage
    choice,     \* CH_KIND: the kind of build ota_select has chosen so far
    blame,      \* the reason and sha of the rollback under way
    floor0,     \* _acc: `accepted` as read when the selection started
    run,        \* /tmp/.diskos_run: what S97 verified this boot
    starts,     \* /tmp/.diskos_starts
    ui,         \* the user interface that is running
    due,        \* the launcher's watcher has yet to write its records
    record,     \* /tmp/.diskos_launched
    dl,         \* how far the staging worker is, and with which bundle
    \* observations: read by properties only
    vouched,    \* bundles that wrote their own health marker
    promoted,   \* bundles that became the good build
    refused,    \* bundles whose sha was remembered by a rollback
    tries,      \* boots the current trial was chosen without being vouched
                \* for, counted up to MaxBoots + 1
    goBack,     \* the user asked to drop the current trial
    staged,     \* a whole staged bundle waits for the next boot
    discarded   \* the user discarded the staged bundle, none staged since

disk == <<dir, trial, crashed, mark, accepted, rejected, notice, allow, full>>
boot == <<pc, choice, blame, floor0>>
up == <<run, starts, ui, due, record, dl>>
seen == <<vouched, promoted, refused, tries, goBack, staged, discarded>>
vars == <<disk, boot, up, seen>>

-----------------------------------------------------------------------------
Slot == {"incoming", "pending", "pending.old", "active", "good", "good.prev"}
Content == Bundle \cup {None, Torn}
Marker == {"healthy", "revert", "launched"}
NoTrial == [sha |-> None, boots |-> 0]
NoBlame == [why |-> "none", sha |-> None]
NoRun == [kind |-> "none", sha |-> None, good |-> None, prev |-> None]
NoWork == [at |-> "idle", b |-> None]

BootStage ==
    {"off", "restore", "sweep", "aside", "orphan", "judge", "again",
     "promoteClear", "promoteKeep", "promoteSwap", "promoteTidy",
     "refuse", "dropActive", "dropMarks", "note", "consume",
     "offer", "offerClear", "offerTake", "offerDrop",
     "fallback", "dropGood", "usePrev", "checkPrev", "keepGood", "raise",
     "settle", "publish", "hook", "ladder", "up"}
WorkStage ==
    {"idle", "fetch", "verified", "aside", "commit", "sweep", "discard"}
Reasons == {"none", "crashloop", "user", "unhealthy", "verify"}

\* The root-key verifier over one directory: every signature, the size and the
\* hash of the binary, and the epoch against the floor it is given.
Verifies(d, floor) == d \in Bundle /\ Epoch[d] >= floor

\* A rename inside updates/, and the removal of a directory.
Moved(from, to) == [dir EXCEPT ![to] = dir[from], ![from] = None]
Removed(d) == [dir EXCEPT ![d] = None]

\* tail -n 7 of the file, then the sha: at most Keep lines are remembered.
Remember(shas, b) ==
    Append(IF Len(shas) < Keep THEN shas
           ELSE SubSeq(shas, Len(shas) - Keep + 2, Len(shas)), b)
Recalled(shas) == {shas[i] : i \in 1 .. Len(shas)}

\* Writing a small file on /usr/data fails while it is full.
WritesOk == ~full
=============================================================================
