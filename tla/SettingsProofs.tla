--------------------------- MODULE SettingsProofs ---------------------------
(* What the settings store promises, for every set of keys and values, every *)
(* capacity and every combination of faults.                                 *)
EXTENDS Settings, TLAPS

\* Memory, or the snapshot a batch may go back to, holds every value that was
\* reported as saved.
MemHolds ==
    up /\ ~loadFailed =>
        \A k \in Key : promised[k] # Unsaid =>
            promised[k] = IF asked = None THEN mem[k] ELSE snap[k]

\* The snapshot is a store that cfg_commit may go back to, and the keys that the
\* batch has set say what it sets, unless one of them was refused.
BatchInv ==
    asked # None =>
        /\ up /\ ~loadFailed
        /\ Whole(snap)
        /\ ~snapDirty => snap = IF file = Absent THEN Empty ELSE file
        /\ \A k \in Key \ Pair : mem[k] = snap[k]
        /\ ~refused => \A k \in Pair \ todo : mem[k] = asked

BatchTypes ==
    /\ asked \in Val \cup {None} /\ todo \subseteq Pair
    /\ refused \in BOOLEAN /\ snap \in Contents /\ snapDirty \in BOOLEAN

\* Before it has loaded, the store is as a new process finds it.
Fresh == ~up => mem = Empty /\ ~dirty /\ ~loadFailed

SettingsInv ==
    /\ TypeOK
    /\ Fresh
    /\ CleanMeansSaved
    /\ SavedIsDurable
    /\ MemHolds
    /\ BatchInv
    /\ WholeBatches
    /\ Whole(legacy)

USE DEF vars, old, batch

LEMMA EmptyIsContents == Empty \in Contents
  BY DEF Empty, Contents

\* The contents the operations write are contents, and they keep a pair whole.
LEMMA Written ==
    ASSUME NEW m \in Contents
    PROVE  /\ Removed(m) \in Contents
           /\ Parts(m) \subseteq Contents
           /\ Whole(m) => Whole(Removed(m))
           /\ \A k \in Key \ Pair, v \in Val :
                 /\ [m EXCEPT ![k] = v] \in Contents
                 /\ Whole(m) => Whole([m EXCEPT ![k] = v])
  <1>1. Removed(m) \in Contents
    BY DEF Removed, Contents
  <1>2. Parts(m) \subseteq Contents
    BY DEF Parts, Contents
  <1>3. ASSUME Whole(m) PROVE Whole(Removed(m))
    <2>1. m # Absent
      BY AbsentIsNoFile
    <2>2. \A j, k \in Pair : m[j] = m[k]
      BY <1>3, <2>1 DEF Whole
    <2>3. \A j, k \in Pair : Removed(m)[j] = Removed(m)[k]
      BY <2>2, KeysFit, PairStaysTogether DEF Removed
    <2> QED
      BY <2>3 DEF Whole
  <1>4. ASSUME NEW k \in Key \ Pair, NEW v \in Val
        PROVE  /\ [m EXCEPT ![k] = v] \in Contents
               /\ Whole(m) => Whole([m EXCEPT ![k] = v])
    <2>1. [m EXCEPT ![k] = v] \in Contents
      BY DEF Contents
    <2>2. \A j \in Pair : [m EXCEPT ![k] = v][j] = m[j]
      BY KeysFit DEF Contents
    <2> QED
      BY <2>1, <2>2, AbsentIsNoFile DEF Whole
  <1> QED
    BY <1>1, <1>2, <1>3, <1>4

\* A refused call disturbs nothing of it.
LEMMA RefuseKeeps == SettingsInv /\ Refuse => SettingsInv'
  BY DEF SettingsInv, Refuse, TypeOK, Fresh, CleanMeansSaved, SavedIsDurable,
         MemHolds, BatchInv, WholeBatches, Whole

\* A step outside a batch, or the last of one.
LEMMA NoBatchKeeps ==
    ASSUME TypeOK, NoBatch \/ (asked = None /\ UNCHANGED batch)
    PROVE  asked' = None /\ BatchTypes' /\ BatchInv'
  BY EmptyIsContents DEF NoBatch, TypeOK, BatchTypes, BatchInv

\* What a write leaves, whatever it writes: the file is one of the contents
\* written or there before, and a store still clean has been written.
LEMMA RewriteLeaves ==
    ASSUME TypeOK, NEW m \in Contents, NEW d \in BOOLEAN, NEW out \in Outcome,
           Rewrite(out, m, d)
    PROVE  /\ maybe' \subseteq maybe \cup {m}
           /\ maybe' \subseteq Contents \cup {Absent}
           /\ file' \in maybe' /\ file' \in {file, m}
           /\ dirty' \in BOOLEAN /\ saveErr' \in BOOLEAN
           /\ out = "ok" => maybe' = {m}
           /\ ~dirty' => file' = m \/ (~d /\ file' = file)
  BY DEF Rewrite, TypeOK, Outcome

LEMMA InitInv == Init => SettingsInv
  <1> SUFFICES ASSUME Init PROVE SettingsInv
    OBVIOUS
  <1>1. TypeOK
    BY EmptyIsContents DEF Init, TypeOK, Stored
  <1>2. Fresh /\ CleanMeansSaved /\ SavedIsDurable /\ MemHolds /\ BatchInv
    BY DEF Init, Fresh, CleanMeansSaved, SavedIsDurable, MemHolds, BatchInv
  <1>3. Whole(file) /\ Whole(legacy)
    BY DEF Init, Stored, Whole
  <1>4. Whole(Empty)
    BY KeysFit DEF Empty, Whole
  <1> QED
    BY <1>1, <1>2, <1>3, <1>4 DEF Init, SettingsInv, WholeBatches

\* A call or a load that writes the contents m, which are then the memory:
\* the promises it leaves must hold in m, and those it adds need the disk.
LEMMA WriteKeeps ==
    ASSUME SettingsInv,
           NEW m \in Contents, NEW d \in BOOLEAN, NEW out \in Outcome,
           Whole(m), Rewrite(out, m, d),
           mem' = m, up' = TRUE, ~loadFailed', UNCHANGED old,
           loadFailed' \in BOOLEAN,
           NoBatch \/ (asked = None /\ UNCHANGED batch),
           promised' \in [Key -> Val \cup {None, Unsaid}],
           ~d => m = IF file = Absent THEN Empty ELSE file,
           \A k \in Key : promised'[k] # Unsaid => m[k] = promised'[k],
           \A k \in Key : promised'[k] # Unsaid =>
                              out = "ok" \/ promised'[k] = promised[k]
    PROVE  SettingsInv'
  <1> USE DEF SettingsInv
  <1>0. m # Absent
    BY AbsentIsNoFile
  <1>1. /\ maybe' \subseteq maybe \cup {m}
        /\ maybe' \subseteq Contents \cup {Absent}
        /\ file' \in maybe' /\ file' \in {file, m}
        /\ dirty' \in BOOLEAN /\ saveErr' \in BOOLEAN
        /\ out = "ok" => maybe' = {m}
        /\ ~dirty' => file' = m \/ (~d /\ file' = file)
    BY RewriteLeaves
  <1>2. TypeOK'
    BY <1>1, NoBatchKeeps DEF TypeOK, BatchTypes
  <1>3. Fresh' /\ MemHolds' /\ BatchInv'
    BY NoBatchKeeps DEF Fresh, MemHolds
  <1>4. CleanMeansSaved'
    BY <1>0, <1>1 DEF CleanMeansSaved
  <1>5. SavedIsDurable'
    BY <1>0, <1>1 DEF SavedIsDurable
  <1>6. WholeBatches' /\ Whole(legacy)'
    BY <1>1 DEF WholeBatches, Whole
  <1> QED
    BY <1>2, <1>3, <1>4, <1>5, <1>6

LEMMA SetKeeps ==
    ASSUME SettingsInv, NEW k \in Key \ Pair, NEW v \in Val \cup {Long},
           NEW out \in Outcome, Set(k, v, out)
    PROVE  SettingsInv'
  <1> DEFINE m == [mem EXCEPT ![k] = v]
  <1>0. /\ v \in Val /\ mem' = m /\ up' = TRUE /\ up /\ ~loadFailed /\ ~loadFailed'
        /\ loadFailed' \in BOOLEAN /\ UNCHANGED <<old, batch>> /\ asked = None /\ TypeOK
        /\ Rewrite(out, m, dirty \/ mem[k] # v)
        /\ promised' = [promised EXCEPT ![k] =
               IF out = "ok" THEN v ELSE IF mem[k] = v THEN @ ELSE Unsaid]
    BY DEF Set, Takes, Called, SettingsInv, TypeOK
  <1>1. mem \in Contents /\ Whole(mem) /\ MemHolds /\ CleanMeansSaved
    BY <1>0 DEF SettingsInv, TypeOK, WholeBatches
  <1>2. m \in Contents /\ Whole(m)
    BY <1>0, <1>1, Written
  <1>3. promised' \in [Key -> Val \cup {None, Unsaid}]
    BY <1>0 DEF TypeOK
  <1>4. ~(dirty \/ mem[k] # v) => m = IF file = Absent THEN Empty ELSE file
    <2>1. mem[k] = v => m = mem
      BY <1>1 DEF Contents
    <2> QED
      BY <2>1, <1>0, <1>1 DEF CleanMeansSaved
  <1>5. \A j \in Key : promised'[j] # Unsaid =>
            m[j] = promised'[j] /\ (out = "ok" \/ promised'[j] = promised[j])
    BY <1>0, <1>1 DEF TypeOK, MemHolds, Contents
  <1> HIDE DEF m
  <1> QED
    <2> (dirty \/ mem[k] # v) \in BOOLEAN
      BY <1>0 DEF TypeOK
    <2> QED
      BY <1>0, <1>2, <1>3, <1>4, <1>5, WriteKeeps

\* Opening a batch, and setting one of its keys: only memory changes.
LEMMA BatchBeginsKeeps ==
    ASSUME SettingsInv, NEW v \in Val, BatchBegins(v)
    PROVE  SettingsInv'
  <1> USE DEF SettingsInv
  <1>1. /\ up /\ ~loadFailed /\ asked = None /\ asked' = v /\ v # None /\ v \in Val
        /\ snap' = mem /\ snapDirty' = dirty /\ todo' = Pair /\ ~refused' /\ refused' = FALSE
        /\ UNCHANGED <<up, mem, dirty, loadFailed, saveErr, file, maybe, promised, old>>
    BY Distinct DEF BatchBegins, Called
  <1>2. TypeOK'
    BY <1>1 DEF TypeOK
  <1>3. BatchInv'
    BY <1>1 DEF BatchInv, WholeBatches, CleanMeansSaved, Whole
  <1> QED
    BY <1>1, <1>2, <1>3 DEF Fresh, CleanMeansSaved, SavedIsDurable, MemHolds,
       WholeBatches, Whole

LEMMA BatchPutsKeeps ==
    ASSUME SettingsInv, NEW k \in Pair, NEW v \in Val \cup {Long}, BatchPuts(k, v)
    PROVE  SettingsInv'
  <1> USE DEF SettingsInv
  <1>1. /\ asked # None \/ v = Long
        /\ k \in todo /\ k \in Key /\ todo' = todo \ {k}
        /\ UNCHANGED <<up, loadFailed, asked, snap, snapDirty, file, maybe, promised, old>>
    BY KeysFit, Distinct DEF BatchPuts, TypeOK
  <1>2. mem \in Contents /\ dirty \in BOOLEAN /\ asked \in Val \cup {None}
    BY DEF TypeOK
  <1>3. CASE Takes(k, v)
    <2>1. /\ v = asked /\ v \in Val /\ v # None
          /\ mem' = [mem EXCEPT ![k] = v] /\ mem' \in Contents
          /\ dirty' = (dirty \/ mem[k] # v) /\ UNCHANGED <<refused, saveErr>>
      BY <1>1, <1>2, <1>3, Distinct DEF BatchPuts, Takes, Contents
    <2>2. /\ dirty' \in BOOLEAN /\ (~dirty' => ~dirty /\ mem' = mem)
          /\ \A j \in Key : mem'[j] = IF j = k THEN v ELSE mem[j]
      BY <1>1, <1>2, <2>1 DEF Contents
    <2>3. TypeOK'
      BY <1>1, <2>1, <2>2 DEF TypeOK
    <2>4. BatchInv'
      BY <1>1, <2>1, <2>2, KeysFit DEF BatchInv, Whole
    <2>5. CleanMeansSaved' /\ WholeBatches' /\ Fresh' /\ MemHolds' /\ SavedIsDurable'
      BY <1>1, <2>1, <2>2 DEF CleanMeansSaved, WholeBatches, Whole, Fresh, MemHolds,
         SavedIsDurable, BatchInv
    <2> QED
      BY <1>1, <2>3, <2>4, <2>5 DEF Whole
  <1>4. CASE ~Takes(k, v)
    <2>1. UNCHANGED <<mem, dirty>> /\ refused' = TRUE /\ saveErr' = TRUE
      BY <1>4 DEF BatchPuts
    <2> QED
      BY <1>1, <2>1 DEF TypeOK, BatchInv, CleanMeansSaved, WholeBatches, Whole, Fresh,
         MemHolds, SavedIsDurable
  <1> QED
    BY <1>3, <1>4

\* A batch that was taken as a whole: its keys say what it sets, and the others
\* what they said before.
LEMMA BatchSavesKeeps ==
    ASSUME SettingsInv, NEW out \in Outcome, BatchSaves(out)
    PROVE  SettingsInv'
  <1>1. /\ asked # None /\ todo = {} /\ ~refused /\ NoBatch
        /\ Rewrite(out, mem, dirty) /\ mem' = mem /\ UNCHANGED <<up, loadFailed, old>>
        /\ promised' = [k \in Key |->
               IF k \notin Pair THEN promised[k]
               ELSE IF out = "ok" THEN asked
               ELSE IF snap[k] = asked THEN promised[k] ELSE Unsaid]
    BY DEF BatchSaves
  <1>2. /\ up /\ ~loadFailed /\ mem \in Contents /\ dirty \in BOOLEAN
        /\ loadFailed \in BOOLEAN /\ asked \in Val /\ TypeOK /\ up' = TRUE
    BY <1>1 DEF SettingsInv, BatchInv, TypeOK
  <1>3. /\ \A k \in Key \ Pair : mem[k] = snap[k]
        /\ \A k \in Pair : mem[k] = asked
        /\ \A k \in Key : promised[k] # Unsaid => snap[k] = promised[k]
    BY <1>1, <1>2 DEF SettingsInv, BatchInv, MemHolds
  <1>4. Whole(mem)
    BY <1>3 DEF Whole
  <1>5. promised' \in [Key -> Val \cup {None, Unsaid}]
    BY <1>1, <1>2 DEF TypeOK
  <1>6. \A k \in Key : promised'[k] # Unsaid =>
            mem[k] = promised'[k] /\ (out = "ok" \/ promised'[k] = promised[k])
    BY <1>1, <1>3
  <1>7. ~dirty => mem = IF file = Absent THEN Empty ELSE file
    BY <1>2 DEF SettingsInv, CleanMeansSaved
  <1> QED
    BY <1>1, <1>2, <1>4, <1>5, <1>6, <1>7, WriteKeeps

\* One that was refused in part: the snapshot is whole, and clean if it says it.
LEMMA BatchRollsBackKeeps ==
    ASSUME SettingsInv, BatchRollsBack
    PROVE  SettingsInv'
  <1> USE DEF SettingsInv
  <1>1. /\ asked # None /\ mem' = snap /\ dirty' = snapDirty /\ saveErr' = TRUE /\ NoBatch
        /\ UNCHANGED <<up, loadFailed, file, maybe, promised, old>>
    BY DEF BatchRollsBack
  <1>2. /\ up /\ ~loadFailed /\ Whole(snap)
        /\ ~snapDirty => snap = IF file = Absent THEN Empty ELSE file
        /\ \A k \in Key : promised[k] # Unsaid => snap[k] = promised[k]
    BY <1>1 DEF BatchInv, MemHolds
  <1>3. asked' = None /\ BatchTypes' /\ BatchInv'
    BY <1>1, NoBatchKeeps
  <1>4. TypeOK'
    BY <1>1, <1>3 DEF TypeOK, BatchTypes
  <1>5. Fresh' /\ MemHolds' /\ CleanMeansSaved' /\ SavedIsDurable'
    BY <1>1, <1>2, <1>3 DEF Fresh, MemHolds, CleanMeansSaved, SavedIsDurable
  <1>6. WholeBatches' /\ Whole(legacy)'
    BY <1>1, <1>2 DEF WholeBatches, Whole
  <1> QED
    BY <1>3, <1>4, <1>5, <1>6

LEMMA FlushKeeps ==
    ASSUME SettingsInv, NEW out \in Outcome, Flush(out)
    PROVE  SettingsInv'
  <1>1. /\ mem \in Contents /\ Whole(mem) /\ dirty \in BOOLEAN
        /\ Rewrite(out, mem, dirty) /\ mem' = mem /\ up' = TRUE /\ up
        /\ ~loadFailed /\ ~loadFailed' /\ loadFailed' \in BOOLEAN /\ UNCHANGED <<old, batch>>
        /\ asked = None
    BY DEF Flush, Called, SettingsInv, TypeOK, WholeBatches
  <1>2. /\ promised' \in [Key -> Val \cup {None, Unsaid}]
        /\ \A k \in Key : promised'[k] # Unsaid =>
              mem[k] = promised'[k] /\ (out = "ok" \/ promised'[k] = promised[k])
    BY DEF Flush, Called, SettingsInv, TypeOK, MemHolds, Contents
  <1>3. ~dirty => mem = IF file = Absent THEN Empty ELSE file
    BY <1>1 DEF SettingsInv, CleanMeansSaved
  <1> QED
    BY <1>1, <1>2, <1>3, WriteKeeps

\* Nothing is promised while there is no file: what is imported meets no promise.
LEMMA MigrateKeeps ==
    ASSUME SettingsInv, NEW out \in Outcome, Migrate(out)
    PROVE  SettingsInv'
  <1>1. /\ file = Absent /\ file \in maybe /\ SavedIsDurable /\ Whole(legacy)
        /\ ~up /\ up' = TRUE /\ UNCHANGED <<loadFailed, batch, promised, old>>
        /\ asked = None /\ Rewrite(out, mem', mem' # Empty)
        /\ promised \in [Key -> Val \cup {None, Unsaid}]
        /\ ~loadFailed
    BY DEF Migrate, SettingsInv, TypeOK, Fresh, BatchInv
  <1>2. \A k \in Key : promised[k] = Unsaid
    BY <1>1 DEF SavedIsDurable
  <1>3. mem' \in Contents /\ Whole(mem')
    <2>1. CASE legacy # Absent /\ mem' = legacy
      BY <2>1, <1>1 DEF SettingsInv, TypeOK
    <2>2. ASSUME mem' = [Empty EXCEPT ![SwipeKey] = swipe], swipe # Absent
          PROVE  mem' \in Contents /\ Whole(mem')
      <3>1. swipe \in Val \cup {None}
        BY <2>2 DEF SettingsInv, TypeOK
      <3>2. mem' \in Contents
        BY <2>2, <3>1 DEF Empty, Contents
      <3>3. \A k \in Pair : mem'[k] = None
        BY <2>2, KeysFit DEF Empty
      <3> QED
        BY <3>2, <3>3, AbsentIsNoFile DEF Whole
    <2> QED
      BY <2>1, <2>2 DEF Migrate
  <1> QED
    <2>1. (mem' # Empty) \in BOOLEAN /\ loadFailed' \in BOOLEAN
      BY <1>1 DEF SettingsInv, TypeOK
    <2>2. ~(mem' # Empty) => mem' = IF file = Absent THEN Empty ELSE file
      BY <1>1
    <2> QED
      BY <1>1, <1>2, <1>3, <2>1, <2>2, WriteKeeps

\* Removing keys: one value for the pair, or both of its keys are gone.
LEMMA RemoveKeeps ==
    ASSUME SettingsInv, NEW out \in Outcome, RemoveIf(out)
    PROVE  SettingsInv'
  <1> USE DEF SettingsInv
  <1> DEFINE m == Removed(mem)
  <1>0. /\ mem \in Contents /\ Whole(mem) /\ up /\ up' = TRUE /\ ~loadFailed
        /\ m \in Contents /\ Whole(m) /\ Parts(m) \subseteq Contents
        /\ m # Absent /\ asked = None /\ UNCHANGED batch
        /\ asked' = None /\ BatchTypes' /\ BatchInv'
    BY Written, AbsentIsNoFile, NoBatchKeeps DEF RemoveIf, Called, TypeOK, WholeBatches
  <1>1. /\ maybe' \subseteq maybe \cup {m} /\ file' \in maybe'
        /\ out = "ok" => maybe' = {m}
        /\ out = "fail" => UNCHANGED <<file, maybe, mem, dirty, loadFailed>>
        /\ out # "fail" => file' = m /\ ~dirty' /\ (mem' = m \/ loadFailed')
        /\ mem' \in Contents /\ loadFailed' \in BOOLEAN /\ dirty' \in BOOLEAN
        /\ loadFailed' => mem' \in Contents
        /\ ~loadFailed' => mem' \in {mem, m}
    BY <1>0 DEF RemoveIf, TypeOK, Outcome
  <1>2. \A k \in Key : promised'[k] # Unsaid =>
            /\ m[k] = promised'[k] \/ (out = "fail" /\ mem[k] = promised'[k])
            /\ out = "ok" \/ promised'[k] = promised[k]
    BY <1>0 DEF RemoveIf, Removed, MemHolds
  <1> HIDE DEF m
  <1>3. TypeOK'
    <2>1. promised' \in [Key -> Val \cup {None, Unsaid}] /\ saveErr' \in BOOLEAN
      BY DEF RemoveIf, TypeOK
    <2> QED
      BY <1>0, <1>1, <2>1 DEF TypeOK, BatchTypes, RemoveIf
  <1>4. Fresh' /\ MemHolds' /\ CleanMeansSaved' /\ BatchInv'
    BY <1>0, <1>1, <1>2 DEF Fresh, MemHolds, CleanMeansSaved
  <1>5. SavedIsDurable'
    <2>1. CASE out = "fail"
      BY <2>1, <1>1, <1>2 DEF SavedIsDurable
    <2>2. CASE out # "fail"
      BY <2>2, <1>0, <1>1, <1>2 DEF SavedIsDurable
    <2> QED
      BY <2>1, <2>2
  <1>6. WholeBatches' /\ Whole(legacy)'
    <2>1. \A c \in maybe' : Whole(c)
      BY <1>0, <1>1 DEF WholeBatches
    <2>2. loadFailed' \/ Whole(mem')
      BY <1>0, <1>1
    <2>3. UNCHANGED legacy
      BY DEF RemoveIf
    <2> QED
      BY <2>1, <2>2, <2>3 DEF WholeBatches, Whole
  <1> QED
    BY <1>3, <1>4, <1>5, <1>6

\* The calls that only touch memory.
LEMMA MemoryCallsKeep ==
    ASSUME SettingsInv, NEW k \in Key \ Pair, NEW v \in Val \cup {Long},
           SetUnchanged(k, v) \/ SetDeferred(k, v)
    PROVE  SettingsInv'
  <1> USE DEF SettingsInv
  <1>0. /\ mem \in Contents /\ Whole(mem) /\ up /\ up' = TRUE
        /\ ~loadFailed /\ UNCHANGED <<loadFailed, saveErr, batch, file, maybe, old>>
        /\ asked = None /\ BatchInv'
    BY NoBatchKeeps DEF SetUnchanged, SetDeferred, Called, TypeOK, WholeBatches
  <1>1. CASE SetUnchanged(k, v)
    <2>1. mem[k] = v /\ ~dirty /\ UNCHANGED <<mem, dirty>>
      BY <1>1 DEF SetUnchanged
    <2>2. v \in Val
      BY <2>1, <1>0, Distinct DEF Contents
    <2>3. mem = IF file = Absent THEN Empty ELSE file
      BY <1>0, <2>1 DEF CleanMeansSaved
    <2>4. file # Absent /\ file[k] = v
      BY <2>1, <2>2, <2>3, Distinct DEF Empty
    <2>5. \A j \in Key : promised'[j] = promised[j] \/ (j = k /\ promised'[j] = v /\ maybe = {file})
      BY <1>1 DEF SetUnchanged, TypeOK
    <2>6. TypeOK'
      BY <1>0, <1>1, <2>1, <2>2 DEF TypeOK, SetUnchanged
    <2>7. Fresh' /\ MemHolds' /\ CleanMeansSaved'
      BY <1>0, <2>1, <2>5 DEF Fresh, MemHolds, CleanMeansSaved
    <2>8. SavedIsDurable'
      BY <1>0, <2>4, <2>5 DEF SavedIsDurable
    <2>9. WholeBatches' /\ Whole(legacy)'
      BY <1>0, <2>1 DEF WholeBatches, Whole
    <2> QED
      BY <1>0, <2>6, <2>7, <2>8, <2>9
  <1>2. CASE SetDeferred(k, v)
    <2>1. /\ v \in Val /\ mem' = [mem EXCEPT ![k] = v]
          /\ mem' \in Contents /\ Whole(mem')
      BY <1>0, <1>2, Written DEF SetDeferred, Takes
    <2>2. dirty' \in BOOLEAN /\ (~dirty' => ~dirty /\ mem' = mem)
      BY <1>0, <1>2, <2>1 DEF SetDeferred, TypeOK, Contents
    <2>3. \A j \in Key : promised'[j] # Unsaid =>
              promised'[j] = promised[j] /\ mem'[j] = mem[j]
      BY <1>0, <1>2, <2>1 DEF SetDeferred, TypeOK, Contents
    <2>4. TypeOK'
      BY <1>0, <1>2, <2>1, <2>2 DEF TypeOK, SetDeferred
    <2>5. Fresh' /\ MemHolds' /\ CleanMeansSaved'
      BY <1>0, <2>2, <2>3 DEF Fresh, MemHolds, CleanMeansSaved
    <2>6. SavedIsDurable'
      BY <1>0, <2>3 DEF SavedIsDurable
    <2>7. WholeBatches' /\ Whole(legacy)'
      BY <1>0, <2>1 DEF WholeBatches, Whole
    <2> QED
      BY <1>0, <2>4, <2>5, <2>6, <2>7
  <1> QED
    BY <1>1, <1>2

\* Whatever the disk holds after the crash, the promises hold of it.
LEMMA CrashKeeps ==
    ASSUME SettingsInv, NEW c \in maybe, Dies(c)
    PROVE  SettingsInv'
  <1> USE DEF SettingsInv
  <1>1. /\ ~up' /\ mem' = Empty /\ ~dirty' /\ ~loadFailed' /\ ~saveErr'
        /\ dirty' \in BOOLEAN /\ loadFailed' \in BOOLEAN /\ saveErr' \in BOOLEAN
        /\ maybe' \subseteq maybe /\ file' \in maybe'
        /\ UNCHANGED <<promised, old>>
        /\ asked' = None /\ BatchTypes' /\ BatchInv'
    BY NoBatchKeeps DEF Dies, TypeOK
  <1>2. TypeOK'
    BY <1>1, EmptyIsContents DEF TypeOK, BatchTypes, Dies
  <1>3. Fresh' /\ MemHolds' /\ CleanMeansSaved' /\ SavedIsDurable'
    BY <1>1 DEF Fresh, MemHolds, CleanMeansSaved, SavedIsDurable
  <1>4. WholeBatches' /\ Whole(legacy)'
    <2>1. Whole(Empty)
      BY KeysFit DEF Empty, Whole
    <2> QED
      BY <1>1, <2>1 DEF WholeBatches, Whole
  <1> QED
    BY <1>1, <1>2, <1>3, <1>4

\* Loading: the memory is the file, or what was read of it and nothing is
\* saved from then on.
LEMMA LoadKeeps == SettingsInv /\ (LoadFile \/ LoadFails) => SettingsInv'
  <1> SUFFICES ASSUME SettingsInv, LoadFile \/ LoadFails PROVE SettingsInv'
    OBVIOUS
  <1> USE DEF SettingsInv
  <1>1. /\ ~up /\ up' = TRUE /\ mem = Empty /\ ~dirty /\ ~loadFailed
        /\ UNCHANGED <<saveErr, batch, file, maybe, promised, old>>
        /\ Empty \in Contents /\ file \in maybe /\ asked = None /\ BatchInv'
    BY EmptyIsContents, NoBatchKeeps DEF LoadFile, LoadFails, Fresh, TypeOK, BatchInv
  <1>2. CASE LoadFile
    <2>1. /\ UNCHANGED <<dirty, loadFailed>>
          /\ mem' = IF file = Absent THEN Empty ELSE file
      BY <1>1, <1>2 DEF LoadFile
    <2>2. TypeOK' /\ Fresh' /\ CleanMeansSaved' /\ SavedIsDurable'
      BY <1>1, <2>1 DEF TypeOK, Fresh, CleanMeansSaved, SavedIsDurable
    <2>3. MemHolds'
      BY <1>1, <2>1 DEF SavedIsDurable, MemHolds
    <2>4. WholeBatches' /\ Whole(legacy)'
      <3>1. Whole(Empty)
        BY KeysFit DEF Empty, Whole
      <3> QED
        BY <1>1, <2>1, <3>1 DEF WholeBatches, Whole
    <2> QED
      BY <1>1, <2>2, <2>3, <2>4
  <1>3. CASE LoadFails
    <2>1. loadFailed' = TRUE /\ dirty' \in BOOLEAN /\ mem' \in Contents
      BY <1>1, <1>3, Written DEF LoadFails, TypeOK
    <2> QED
      BY <1>1, <2>1 DEF TypeOK, Fresh, MemHolds, CleanMeansSaved,
                        SavedIsDurable, WholeBatches, Whole
  <1> QED
    BY <1>2, <1>3

LEMMA NextKeeps == SettingsInv /\ [Next]_vars => SettingsInv'
  <1> SUFFICES ASSUME SettingsInv, [Next]_vars PROVE SettingsInv'
    OBVIOUS
  <1>1. ASSUME NEW k \in Key \ Pair, NEW v \in Val \cup {Long},
               SetRefused(k, v) \/ SetUnchanged(k, v) \/ SetDeferred(k, v)
        PROVE  SettingsInv'
    BY <1>1, RefuseKeeps, MemoryCallsKeep DEF SetRefused
  <1>2. ASSUME NEW k \in Key \ Pair, NEW v \in Val \cup {Long},
               NEW out \in Outcome, Set(k, v, out)
        PROVE  SettingsInv'
    BY <1>2, SetKeeps
  <1>3. ASSUME NEW v \in Val, BatchBegins(v)
        PROVE  SettingsInv'
    BY <1>3, BatchBeginsKeeps
  <1>4. ASSUME NEW k \in Pair, NEW v \in Val \cup {Long}, BatchPuts(k, v)
        PROVE  SettingsInv'
    BY <1>4, BatchPutsKeeps
  <1>5. ASSUME NEW out \in Outcome, BatchSaves(out) \/ Flush(out) \/ RemoveIf(out) \/ Migrate(out)
        PROVE  SettingsInv'
    BY <1>5, BatchSavesKeeps, FlushKeeps, RemoveKeeps, MigrateKeeps
  <1>6. CASE FlushRefused \/ RemoveRefused \/ BatchUnread \/ BatchRollsBack
    BY <1>6, RefuseKeeps, BatchRollsBackKeeps DEF FlushRefused, RemoveRefused, BatchUnread
  <1>7. CASE TakeSaveError \/ UNCHANGED vars
    <2>1. /\ UNCHANGED <<up, mem, dirty, loadFailed, batch, file, maybe, promised, old>>
          /\ saveErr' \in BOOLEAN
      BY <1>7 DEF TakeSaveError, SettingsInv, TypeOK
    <2> QED
      BY <2>1 DEF SettingsInv, TypeOK, Fresh, CleanMeansSaved,
                  SavedIsDurable, MemHolds, BatchInv, WholeBatches, Whole
  <1>8. ASSUME NEW c \in maybe, Dies(c) PROVE SettingsInv'
    BY <1>8, CrashKeeps
  <1>9. CASE LoadFile \/ LoadFails
    BY <1>9, LoadKeeps
  <1> QED
    BY <1>1, <1>2, <1>3, <1>4, <1>5, <1>6, <1>7, <1>8, <1>9 DEF Next

\* The invariant of the store.
THEOREM SettingsInvariant == Spec => []SettingsInv
  <1> QED
    BY InitInv, NextKeeps, PTL DEF Spec

\* Memory, files and promises stay in their types, and the file the system runs
\* with is among those a power cut may leave, whatever fails in cfg_load,
\* rewrite and cfg_remove_if.
THEOREM SettingsTypes == Spec => []TypeOK
  <1> QED
    BY SettingsInvariant, PTL DEF SettingsInv

\* A store that is not marked dirty says what its file says: the shortcut of
\* cfg_set_int (config.c, "unchanged AND fully persisted") skips no write that
\* is still owed, whatever was refused, rolled back, removed or lost before.
THEOREM CleanIsSaved == Spec => []CleanMeansSaved
  <1> QED
    BY SettingsInvariant, PTL DEF SettingsInv

\* A setting the store reported as saved is what every later boot reads, after
\* any sequence of failed writes, failed directory syncs and power cuts.
THEOREM SavedSettingsSurvive == Spec => []SavedIsDurable
  <1> QED
    BY SettingsInvariant, PTL DEF SettingsInv

\* The keys of a batch (the Last.fm account) are never half set: not in memory
\* once cfg_commit has saved or rolled back, not in the file, and not in what a
\* power cut may bring back, whichever of the keys were refused.
THEOREM BatchesStayWhole == Spec => []WholeBatches
  <1> QED
    BY SettingsInvariant, PTL DEF SettingsInv
=============================================================================
