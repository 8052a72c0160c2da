-------------------------------- MODULE Ota ---------------------------------
(***************************************************************************)
(* The life of an update on one device: boots, user interfaces, power cuts *)
(* at any step, and the faults the instance admits.                        *)
(***************************************************************************)
EXTENDS OtaBoot, OtaUi, OtaLaunch, FiniteSets

CONSTANT MaxCuts    \* bound: power cuts in the middle of a boot

ASSUME MaxCutsTyped == MaxCuts \in Nat

VARIABLE cuts       \* power cuts in the middle of a boot so far

allVars == <<vars, cuts>>

\* The directory an rm -rf is working on: a cut may leave half of it.
Doomed ==
    CASE pc = "aside" /\ dir["pending"] # None -> {"pending.old"}
      [] pc = "promoteClear" /\ dir["good"] # None -> {"good.prev"}
      [] pc = "dropActive" -> {"active"}
      [] pc = "offerDrop" -> {"pending"}
      [] pc = "dropGood" -> {"good"}
      [] pc = "keepGood" -> {"good.prev"}
      [] pc = "up" /\ dl.at = "sweep" -> {"pending.old"}
      [] pc = "up" /\ dl.at = "discard" -> {"pending"}
      [] OTHER -> {}

\* An rm -f of several markers removes them one at a time: a cut may leave the
\* later ones.
HalfUnlinked ==
    \/ /\ pc \in {"promoteTidy", "dropMarks"}
       /\ trial' = NoTrial
       /\ \/ UNCHANGED <<crashed, mark>>
          \/ /\ crashed' = FALSE
             /\ mark' \in {mark, [mark EXCEPT !["launched"] = None]}
    \/ /\ pc = "offerClear"
       /\ mark' = [mark EXCEPT !["healthy"] = None]
       /\ crashed' \in {crashed, FALSE}
       /\ UNCHANGED trial

\* Power goes away, by the user's doing or not: tmpfs and every process go with
\* it, the disk keeps what was renamed.
PowerCut ==
    /\ pc # "off"
    /\ IF pc = "up" THEN UNCHANGED cuts
       ELSE cuts < MaxCuts /\ cuts' = cuts + 1
    /\ \/ UNCHANGED <<dir, trial, crashed, mark>>
       \/ /\ \E d \in Doomed : dir[d] \in Bundle /\ dir' = [dir EXCEPT ![d] = Torn]
          /\ UNCHANGED <<trial, crashed, mark>>
       \/ HalfUnlinked /\ UNCHANGED dir
    /\ pc' = "off" /\ choice' = "none" /\ blame' = NoBlame /\ floor0' = 0
    /\ run' = NoRun /\ starts' = 0 /\ ui' = None
    /\ due' = FALSE /\ record' = None /\ dl' = NoWork
    /\ UNCHANGED <<accepted, rejected, notice, allow, full, seen>>

\* /usr/data fills up, or room is made on it.
FillOrFree ==
    /\ "full" \in Faults
    /\ full' = ~full
    /\ UNCHANGED <<dir, trial, crashed, mark, accepted, rejected, notice, allow>>
    /\ UNCHANGED <<boot, up, seen, cuts>>

\* The bytes of an installed bundle change while it is not being looked at.
Decay(d) ==
    /\ "decay" \in Faults
    /\ pc \in {"off", "up"} /\ dir[d] \in Bundle
    /\ dir' = [dir EXCEPT ![d] = Torn]
    /\ UNCHANGED <<trial, crashed, mark, accepted, rejected, notice, allow, full>>
    /\ UNCHANGED <<boot, up, seen, cuts>>

Init ==
    /\ dir = [d \in Slot |-> None]
    /\ trial = NoTrial /\ crashed = FALSE
    /\ mark = [m \in Marker |-> None]
    /\ accepted = 0 /\ rejected = <<>> /\ notice = "none"
    /\ allow = TRUE /\ full = FALSE
    /\ pc = "off" /\ choice = "none" /\ blame = NoBlame /\ floor0 = 0
    /\ run = NoRun /\ starts = 0 /\ ui = None
    /\ due = FALSE /\ record = None /\ dl = NoWork
    /\ vouched = {} /\ promoted = {} /\ refused = {}
    /\ tries = 0 /\ goBack = FALSE /\ staged = FALSE /\ discarded = FALSE
    /\ cuts = 0

Next ==
    \/ BootStep /\ UNCHANGED cuts
    \/ UiStep /\ UNCHANGED cuts
    \/ LaunchStep /\ UNCHANGED cuts
    \/ PowerCut
    \/ FillOrFree
    \/ \E d \in {"active", "good", "good.prev"} : Decay(d)

Spec == Init /\ [][Next]_allVars

-----------------------------------------------------------------------------
DiskOK ==
    /\ dir \in [Slot -> Content]
    /\ trial \in [sha : Bundle \cup {None}, boots : 0 .. MaxBoots]
    /\ mark \in [Marker -> Bundle \cup {None}]
    /\ accepted \in Nat
    /\ rejected \in Seq(Bundle) /\ Len(rejected) <= Keep
    /\ notice \in Reasons
    /\ crashed \in BOOLEAN /\ allow \in BOOLEAN /\ full \in BOOLEAN
BootOK ==
    /\ pc \in BootStage /\ choice \in {"none", "trial", "good"}
    /\ blame \in [why : Reasons, sha : Bundle \cup {None}]
    /\ floor0 \in Nat
UpOK ==
    /\ run \in [kind : {"none", "flashed", "trial", "good"},
                sha : Bundle \cup {None, Flashed},
                good : Bundle \cup {None}, prev : Bundle \cup {None}]
    /\ starts \in 0 .. MaxStarts + 1
    /\ ui \in Bundle \cup {None, Flashed, Stock}
    /\ due \in BOOLEAN
    /\ record \in Bundle \cup {None, Flashed}
    /\ dl \in [at : WorkStage, b : Bundle \cup {None}]
SeenOK ==
    /\ vouched \subseteq Bundle \cup {Flashed}
    /\ promoted \subseteq Bundle /\ refused \subseteq Bundle
    /\ tries \in 0 .. MaxBoots + 1 /\ goBack \in BOOLEAN
    /\ staged \in BOOLEAN /\ discarded \in BOOLEAN
    /\ cuts \in 0 .. MaxCuts

\* Every variable has the kind of value the code keeps in it, and the boot
\* count on disk never passes OTA_MAXBOOTS.
TypeOK == DiskOK /\ BootOK /\ UpOK /\ SeenOK

\* The anti-rollback floor is on disk before a build becomes the good one, so
\* it covers every build ever promoted, whatever step a power cut hits.
FloorCoversPromoted == \A b \in promoted : Epoch[b] <= accepted

\* From the first promotion on there is, at every instant of every boot, a
\* whole promoted build under good/ or good.prev/ to fall back on.
KnownGoodSurvives ==
    promoted # {} => dir["good"] \in promoted \/ dir["good.prev"] \in promoted

\* A build becomes good only after that very build, running, wrote its own
\* health marker: neither a stale marker nor a fallback can speak for it.
EarnedGood == dir["good"] \in Bundle => dir["good"] \in vouched

\* While writes to /usr/data succeed, a trial is chosen in at most OTA_MAXBOOTS
\* boots without having vouched for itself, however those boots end.
TrialBudget == tries <= MaxBoots

\* A staged bundle is never lost between its staging and the boot that decides
\* about it, not even while another staging replaces it.
KeepsStaged ==
    staged => dir["pending"] \in Bundle \/ dir["pending.old"] \in Bundle

TrialStarts == dir["active"] = None /\ dir'["active"] \in Bundle
Promotes ==
    /\ dir["active"] \in Bundle /\ dir'["active"] = None
    /\ dir'["good"] = dir["active"]

\* The floor never goes down.
FloorMonotone == [][accepted' >= accepted]_allVars

\* A sha that a rollback remembered is never put on trial again, and never
\* promoted.
RefusedStaysOut ==
    [][(TrialStarts => dir'["active"] \notin refused)
       /\ (Promotes => dir'["good"] \notin refused)]_allVars

\* After "Go back" the trial in question is not promoted, even if it was or is
\* vouched for.
GoBackWins == [][Promotes => ~goBack]_allVars

\* A staged bundle the user discarded never goes on trial: recovery does not
\* bring it back.
DiscardFinal == [][TrialStarts => ~discarded]_allVars

-----------------------------------------------------------------------------
\* The directories and markers together implement one base, one candidate, one
\* floor and one set of refused builds.
BaseOf ==
    IF dir["good"] \in Bundle THEN dir["good"]
    ELSE IF dir["good.prev"] \in Bundle THEN dir["good.prev"] ELSE Flashed
CandidateOf == IF dir["active"] \in Bundle THEN dir["active"] ELSE None

Slots == INSTANCE UpdateSlots WITH
    Nobody <- None, Initial <- Flashed,
    base <- BaseOf, candidate <- CandidateOf, floor <- accepted

\* Every step of the installer, the launcher and the interface, cut short or
\* not, is one step of the abstract update or none.
RefinesSlots == Slots!SlotsSpec

-----------------------------------------------------------------------------
\* The boot and the launcher keep running once power is on; the device is
\* switched off again at some point; nothing is assumed of the user or of the
\* interface.
FairSpec ==
    /\ Spec
    /\ WF_allVars(BootStep /\ UNCHANGED cuts)
    /\ WF_allVars(pc \in {"hook", "ladder"} /\ LaunchStep /\ UNCHANGED cuts)
    /\ SF_allVars(pc = "up" /\ PowerCut)

\* A trial does not last forever: it is promoted or dropped.
TrialResolved == (dir["active"] # None) ~> (dir["active"] = None)

\* A staged bundle is put on trial or dropped, also when a trial is under way
\* as it is staged.
StagedDecided == (dir["pending"] # None) ~> (dir["pending"] = None)
=============================================================================
