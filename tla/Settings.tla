------------------------------ MODULE Settings ------------------------------
(* The settings store of the interface (src/ui/config.c): key=value lines in *)
(* /usr/data/diskos.conf, held in memory and written as a whole.             *)
(*                                                                           *)
(* All calls are made on the interface's main thread, so a call is one       *)
(* action, and only the end of the interface comes between those of a batch; *)
(* a crash in the middle of a write is the action with the outcome           *)
(* the disk was left in, followed by Dies.  A write has three outcomes:      *)
(*   "ok"        temporary file synced, renamed, directory synced;           *)
(*   "unsynced"  renamed, but the directory was not synced: the file has     *)
(*               changed, and a power cut may still bring the old one back;  *)
(*   "fail"      the file is as it was.                                      *)
(* The syntax of a line is left out: a file is what it says of every key.    *)
EXTENDS Naturals, FiniteSets

CONSTANTS
    Key,        \* the keys the interface stores
    Val,        \* the values they may take
    Pair,       \* keys that are only ever set together, in one batch
    Reset,      \* keys that "reset settings" removes (sys_reset_match)
    SwipeKey,   \* the key imported from the oldest single-value file
    None,       \* no entry for this key, or no value that counts
    Absent,     \* no file
    Unsaid,     \* nothing was promised about this key
    Long,       \* a value that does not fit an entry
    Cap,        \* CFG_MAX: the entries the store can hold
    MaxPending, \* bound: contents that a power cut may choose from
    Faults      \* which of "write", "sync", "read", "cut" may happen

ASSUME KeysFit == Pair \subseteq Key /\ Reset \subseteq Key /\ SwipeKey \in Key \ Pair
ASSUME PairStaysTogether == Pair \subseteq Reset \/ Pair \cap Reset = {}
ASSUME Distinct == /\ None \notin Val /\ Long \notin Val \cup {None}
                   /\ Unsaid \notin Val \cup {None} /\ Absent \notin Val \cup {None}

Contents == [Key -> Val \cup {None}]

ASSUME AbsentIsNoFile == Absent \notin Contents

VARIABLES
    up,         \* the interface runs and has loaded its settings
    mem,        \* g_cfg: the settings in memory
    dirty,      \* g_dirty: a save is pending or has failed
    loadFailed, \* g_load_failed: the file could not be read, nothing is saved
    saveErr,    \* g_save_err: a failure the user has not been told of
    asked,      \* g_txn: what the batch that is open sets; None: no batch
    todo,       \* the keys of the batch that are yet to be set
    refused,    \* g_txn_err: one of its keys was refused
    snap,       \* g_snap, g_snap_n: the settings before the batch (Empty if
                \* none is open: what is left there then is never read)
    snapDirty,  \* g_snap_dirty
    file,       \* diskos.conf as the running system sees it
    legacy,     \* ipodos.conf of the time before the rename
    swipe,      \* the oldest file: one value of swipe_thresh, good or not
    maybe,      \* history: what diskos.conf may be after a power cut
    promised    \* history: what the store last told its caller was saved

old == <<legacy, swipe>>
batch == <<asked, todo, refused, snap, snapDirty>>
vars == <<up, mem, dirty, loadFailed, saveErr, batch, file, old, maybe, promised>>

Empty == [k \in Key |-> None]
Count(m) == Cardinality({k \in Key : m[k] # None})
Removed(m) == [k \in Key |-> IF k \in Reset THEN None ELSE m[k]]
\* What a read that broke off has put into the store.
Parts(m) == {[k \in Key |-> IF k \in got THEN m[k] ELSE None] :
                 got \in SUBSET Key}

-----------------------------------------------------------------------------
Outcome == {"ok"} \cup (IF "write" \in Faults THEN {"fail"} ELSE {})
                  \cup (IF "sync" \in Faults THEN {"unsynced"} ELSE {})

\* Mutant: the store counts as clean whatever became of the write.
RewriteClears(out, m, d) ==
    /\ out = "unsynced" => Cardinality(maybe \cup {m}) <= MaxPending
    /\ file' = IF out = "fail" THEN file ELSE m
    /\ maybe' = CASE out = "ok" -> {m}
                  [] out = "unsynced" -> maybe \cup {m}
                  [] OTHER -> maybe
    /\ dirty' = FALSE
    /\ saveErr' = (saveErr \/ out # "ok")

\* rewrite(): the whole of m is written; d says that m differs from the file.
Rewrite(out, m, d) ==
    /\ out = "unsynced" => Cardinality(maybe \cup {m}) <= MaxPending
    /\ file' = IF out = "fail" THEN file ELSE m
    /\ maybe' = CASE out = "ok" -> {m}
                  [] out = "unsynced" -> maybe \cup {m}
                  [] OTHER -> maybe
    /\ dirty' = IF out = "ok" THEN FALSE ELSE d
    /\ saveErr' = (saveErr \/ out # "ok")

\* A call that is refused changes nothing and raises the sticky error.
Refuse == /\ saveErr' = TRUE
          /\ UNCHANGED <<up, mem, dirty, loadFailed, batch, file, maybe, promised, old>>

\* The interface calls the store, and no batch is open.
Called == up /\ asked = None

\* put() takes an entry: it fits, and a new key finds room.
Takes(k, v) == v # Long /\ (mem[k] # None \/ Count(mem) < Cap)

\* Any setter after a failed load, with a value too long, or a full store.
SetRefused(k, v) == Called /\ (loadFailed \/ ~Takes(k, v)) /\ Refuse

\* Mutant: the value that is there is enough, a pending save or not.
SetUnchangedAnyway(k, v) ==
    /\ Called /\ ~loadFailed /\ mem[k] = v
    /\ promised' = IF maybe = {file} THEN [promised EXCEPT ![k] = v] ELSE promised
    /\ UNCHANGED <<up, mem, dirty, loadFailed, saveErr, batch, file, maybe, old>>

\* cfg_set_int of the value that is there: nothing to do, unless a save is
\* pending.  Whether it promises a durable value depends on how the file
\* came to be: see SavedIsDurable.
SetUnchanged(k, v) ==
    /\ Called /\ ~loadFailed /\ mem[k] = v /\ ~dirty
    /\ promised' = IF maybe = {file} THEN [promised EXCEPT ![k] = v] ELSE promised
    /\ UNCHANGED <<up, mem, dirty, loadFailed, saveErr, batch, file, maybe, old>>

\* cfg_set_int and cfg_set_str: into memory, then the whole file.
Set(k, v, out) ==
    /\ Called /\ ~loadFailed /\ Takes(k, v)
    /\ mem' = [mem EXCEPT ![k] = v]
    /\ Rewrite(out, mem', dirty \/ mem[k] # v)
    /\ promised' = [promised EXCEPT ![k] =
                      IF out = "ok" THEN v ELSE IF mem[k] = v THEN @ ELSE Unsaid]
    /\ UNCHANGED <<up, loadFailed, batch, old>>

\* cfg_set_int_deferred and cfg_set_str_deferred outside a batch.
SetDeferred(k, v) ==
    /\ Called /\ ~loadFailed /\ Takes(k, v)
    /\ mem' = [mem EXCEPT ![k] = v]
    /\ dirty' = (dirty \/ mem[k] # v)
    /\ promised' = [promised EXCEPT ![k] = IF mem[k] = v THEN @ ELSE Unsaid]
    /\ UNCHANGED <<up, loadFailed, saveErr, batch, file, maybe, old>>

\* cfg_flush.
Flush(out) ==
    /\ Called /\ ~loadFailed
    /\ Rewrite(out, mem, dirty)
    /\ promised' = IF out = "ok" THEN mem ELSE promised
    /\ UNCHANGED <<up, mem, loadFailed, batch, old>>

FlushRefused == Called /\ loadFailed /\ Refuse

\* cfg_begin takes a snapshot of the store.  After a failed load it does nothing,
\* and the sets and cfg_commit are refused like any call.
BatchBegins(v) ==
    /\ Called /\ ~loadFailed
    /\ asked' = v /\ todo' = Pair /\ refused' = FALSE
    /\ snap' = mem /\ snapDirty' = dirty
    /\ UNCHANGED <<up, mem, dirty, loadFailed, saveErr, file, maybe, promised, old>>

BatchUnread == Called /\ loadFailed /\ Refuse

\* The deferred set of one of its keys: its value may be too long.
BatchPuts(k, v) ==
    /\ k \in todo /\ todo' = todo \ {k} /\ v \in {asked, Long}
    /\ IF Takes(k, v)
       THEN /\ mem' = [mem EXCEPT ![k] = v] /\ dirty' = (dirty \/ mem[k] # v)
            /\ UNCHANGED <<refused, saveErr>>
       ELSE refused' = TRUE /\ saveErr' = TRUE /\ UNCHANGED <<mem, dirty>>
    /\ UNCHANGED <<up, loadFailed, asked, snap, snapDirty, file, maybe, promised, old>>

NoBatch == /\ asked' = None /\ todo' = {} /\ refused' = FALSE
           /\ snap' = Empty /\ snapDirty' = FALSE

\* cfg_commit of a batch that was taken as a whole.
BatchSaves(out) ==
    /\ asked # None /\ todo = {} /\ ~refused
    /\ Rewrite(out, mem, dirty)
    /\ promised' = [k \in Key |->
          IF k \notin Pair THEN promised[k]
          ELSE IF out = "ok" THEN asked
          ELSE IF snap[k] = asked THEN promised[k] ELSE Unsaid]
    /\ NoBatch /\ UNCHANGED <<up, mem, loadFailed, old>>

\* Mutant: g_n stays, and with it the entries that the batch has added.
BatchRollsBackValues ==
    /\ asked # None /\ todo = {} /\ refused
    /\ mem' = [k \in Key |-> IF snap[k] = None THEN mem[k] ELSE snap[k]]
    /\ dirty' = snapDirty /\ saveErr' = TRUE
    /\ NoBatch /\ UNCHANGED <<up, loadFailed, file, maybe, promised, old>>

\* cfg_commit after a key was refused: the store goes back to the snapshot.
BatchRollsBack ==
    /\ asked # None /\ todo = {} /\ refused
    /\ mem' = snap /\ dirty' = snapDirty /\ saveErr' = TRUE
    /\ NoBatch /\ UNCHANGED <<up, loadFailed, file, maybe, promised, old>>

\* cfg_remove_if: one save; a save that failed before the rename puts memory
\* back, one that failed after it reads the file again.
RemoveIf(out) ==
    /\ Called /\ ~loadFailed /\ Removed(mem) # mem
    /\ out = "unsynced" => Cardinality(maybe \cup {Removed(mem)}) <= MaxPending
    /\ file' = IF out = "fail" THEN file ELSE Removed(mem)
    /\ maybe' = CASE out = "ok" -> {Removed(mem)}
                  [] out = "unsynced" -> maybe \cup {Removed(mem)}
                  [] OTHER -> maybe
    /\ IF out = "fail" THEN UNCHANGED <<mem, dirty, loadFailed>>
       ELSE /\ dirty' = FALSE
            /\ \/ mem' = Removed(mem) /\ UNCHANGED loadFailed
               \/ /\ out = "unsynced" /\ "read" \in Faults
                  /\ mem' \in Parts(Removed(mem)) /\ loadFailed' = TRUE
    /\ saveErr' = (saveErr \/ out # "ok")
    /\ promised' = [k \in Key |->
          IF k \notin Reset \/ out = "fail" THEN promised[k]
          ELSE IF out = "ok" THEN None ELSE Unsaid]
    /\ UNCHANGED <<up, batch, old>>

RemoveRefused == Called /\ loadFailed /\ Refuse

\* cfg_take_save_error: the main loop shows "Couldn't save settings".
TakeSaveError ==
    /\ Called /\ saveErr /\ saveErr' = FALSE
    /\ UNCHANGED <<up, mem, dirty, loadFailed, batch, file, maybe, promised, old>>

-----------------------------------------------------------------------------
\* The interface ends, or the power does: then the disk decides.
Dies(c) ==
    /\ up /\ up' = FALSE
    /\ \/ c = file /\ UNCHANGED <<file, maybe>>
       \/ "cut" \in Faults /\ c \in maybe /\ file' = c /\ maybe' = {c}
    /\ mem' = Empty /\ dirty' = FALSE /\ loadFailed' = FALSE /\ saveErr' = FALSE
    /\ NoBatch /\ UNCHANGED <<promised, old>>

\* cfg_load of a file that is there, or of no file at all.
LoadFile ==
    /\ ~up /\ up' = TRUE
    /\ \/ file # Absent /\ mem' = file
       \/ file = Absent /\ legacy = Absent /\ swipe = Absent /\ UNCHANGED mem
    /\ UNCHANGED <<dirty, loadFailed, saveErr, batch, file, maybe, promised, old>>

\* cfg_load on the first boot after the rename: the settings of an older
\* interface are taken over and written to the new file.
Migrate(out) ==
    /\ ~up /\ file = Absent
    /\ \/ legacy # Absent /\ mem' = legacy
       \/ legacy = Absent /\ swipe # Absent /\ mem' = [Empty EXCEPT ![SwipeKey] = swipe]
    /\ up' = TRUE
    /\ Rewrite(out, mem', mem' # Empty)
    /\ UNCHANGED <<loadFailed, batch, promised, old>>

\* cfg_load that cannot read what is there, or cannot open a file for another
\* reason than its absence: the store is read-only from here.
LoadFails ==
    /\ ~up /\ "read" \in Faults
    /\ \/ mem' = Empty /\ UNCHANGED dirty
       \/ \E src \in {file, legacy} \ {Absent} :
             /\ src = legacy => file = Absent
             /\ mem' \in Parts(src)
             /\ dirty' = (file = Absent /\ mem' # Empty)
    /\ up' = TRUE /\ loadFailed' = TRUE
    /\ UNCHANGED <<saveErr, batch, file, maybe, promised, old>>

-----------------------------------------------------------------------------
\* The keys of the pair have been set together, or not at all.
Whole(c) == c # Absent => \A j, k \in Pair : c[j] = c[k]

\* A file some earlier interface has left.
Stored == {Absent} \cup {c \in Contents : Whole(c) /\ Count(c) <= Cap}

Init ==
    /\ up = FALSE /\ mem = Empty
    /\ dirty = FALSE /\ loadFailed = FALSE /\ saveErr = FALSE
    /\ asked = None /\ todo = {} /\ refused = FALSE
    /\ snap = Empty /\ snapDirty = FALSE
    /\ file \in Stored /\ legacy \in Stored
    /\ swipe \in Val \cup {None, Absent}
    /\ maybe = {file}
    /\ promised = [k \in Key |-> Unsaid]

Next ==
    \/ \E k \in Key \ Pair, v \in Val \cup {Long} :
          \/ SetRefused(k, v) \/ SetUnchanged(k, v) \/ SetDeferred(k, v)
          \/ \E out \in Outcome : Set(k, v, out)
    \/ \E v \in Val : BatchBegins(v)
    \/ \E k \in Pair, v \in Val \cup {Long} : BatchPuts(k, v)
    \/ \E out \in Outcome : BatchSaves(out) \/ Flush(out) \/ RemoveIf(out) \/ Migrate(out)
    \/ BatchUnread \/ BatchRollsBack
    \/ FlushRefused \/ RemoveRefused \/ TakeSaveError
    \/ \E c \in maybe : Dies(c)
    \/ LoadFile \/ LoadFails

Spec == Init /\ [][Next]_vars

-----------------------------------------------------------------------------
TypeOK ==
    /\ up \in BOOLEAN /\ dirty \in BOOLEAN
    /\ loadFailed \in BOOLEAN /\ saveErr \in BOOLEAN
    /\ mem \in Contents /\ snap \in Contents
    /\ asked \in Val \cup {None} /\ todo \subseteq Pair
    /\ refused \in BOOLEAN /\ snapDirty \in BOOLEAN
    /\ file \in Contents \cup {Absent} /\ legacy \in Contents \cup {Absent}
    /\ swipe \in Val \cup {None, Absent}
    /\ maybe \subseteq Contents \cup {Absent} /\ file \in maybe
    /\ promised \in [Key -> Val \cup {None, Unsaid}]

\* The guard of cfg_set_int's shortcut: a store that is not marked dirty says
\* what the file says, whatever failed, was rolled back or removed before.
CleanMeansSaved ==
    up /\ ~dirty /\ ~loadFailed => mem = IF file = Absent THEN Empty ELSE file

\* What the store has reported as saved is what the next boot reads, after any
\* crash or power cut, until someone sets or removes that key again.  (A value
\* the shortcut finds unchanged counts only if the file it was read from is
\* known to be on disk.)
SavedIsDurable ==
    \A k \in Key, c \in maybe :
        promised[k] # Unsaid => c # Absent /\ c[k] = promised[k]

\* The keys of a batch are never found half set: not in memory once cfg_commit
\* has returned, whatever was refused in between, not in the file, and not in
\* what a power cut may bring back.
WholeBatches ==
    /\ \A c \in maybe : Whole(c)
    /\ loadFailed \/ asked # None \/ Whole(mem)
=============================================================================
