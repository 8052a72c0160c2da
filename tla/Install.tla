------------------------------ MODULE Install -------------------------------
(***************************************************************************)
(* How the chosen build becomes the one the boot hook starts: the second   *)
(* half of src/payload/S97diskos_install.  The worker verifies or installs *)
(* /usr/data/mq_ui, publishes it by the link mq_player, and ends by saying *)
(* so in /tmp; what it cannot verify it takes out of the hook's way.  Each *)
(* action is one command of the script.                                    *)
(*                                                                         *)
(* The bytes of a file are those of a build, or Torn: anything else.  All  *)
(* writes to /usr/data are synchronous, so a power cut falls between two   *)
(* commands or into a copy.                                                *)
(***************************************************************************)
EXTENDS Naturals, FiniteSets

CONSTANTS
    Bundle,     \* signed builds that ota_select may settle on
    Flashed,    \* the build inside the read-only system
    Torn,       \* bytes of no known build
    None,
    Faults      \* of "io", "signal", "late", "cut", "decay"

Build == Bundle \cup {Flashed}
Bytes == Build \cup {Torn, None}

ASSUME FaultsKnown == Faults \subseteq {"io", "signal", "late", "cut", "decay"}
ASSUME BuildsApart ==
    /\ Flashed \notin Bundle
    /\ Torn \notin Build /\ None \notin Build \cup {Torn}

VARIABLES
    mqui,       \* the bytes of /usr/data/mq_ui
    exec,       \* its exec bit
    link,       \* what is at /usr/data/mq_player
    tmp,        \* the bytes of /usr/data/.mq_ui.tmp
    at,         \* the next command of the worker; "off", or "exit" at its end
    caller,     \* who called publish_symlink or quarantine
    want,       \* MSHA: what verify_ui compares with
    installed,  \* the script's flag of that name
    run,        \* /tmp/.diskos_run: the signed build this boot verified
    ready,      \* /tmp/.diskos_ready
    calm        \* history: diskOS was selected and nothing failed in this boot

nand == <<mqui, exec, link, tmp>>
script == <<at, caller, want, installed, calm>>
told == <<run, ready>>
installVars == <<nand, script, told>>

\* A link to mq_ui, another file, or a directory in its place.
Links == {"none", "ours", "file", "dir"}

\* override_on: the hook's own test of the two names.
OverrideOn == mqui # None /\ link \in {"ours", "file"}

\* [ -e mq_ui ] || [ -e mq_player ]: a link that leads nowhere does not exist.
SomethingThere == mqui # None \/ link \in {"file", "dir"}

-----------------------------------------------------------------------------
(* How a command ends. *)

\* The command does what it is for.
Works(next) == at' = next /\ UNCHANGED calm
\* It fails although nothing is wrong with its operands.
Breaks(next) == "io" \in Faults /\ at' = next /\ calm' = FALSE

\* verify_ui on given bytes: a read that fails or hangs rejects them too.
Verify(bytes, yes, no) ==
    \/ bytes = want /\ Works(yes)
    \/ bytes # want /\ Works(no)
    \/ Breaks(no)

\* rm -f .mq_ui.tmp, whose failure nobody looks at.
DropTmp(next) ==
    /\ \/ tmp' = None /\ Works(next)
       \/ UNCHANGED tmp /\ Breaks(next)
    /\ UNCHANGED <<mqui, exec, link, caller, want, installed, told>>

Call(procedure, from) == at' = procedure /\ caller' = from

-----------------------------------------------------------------------------
(* publish_symlink and quarantine, called from several places. *)

PublishedTo == IF caller = "stage" THEN "reverify" ELSE "ready"
UnpublishedTo == IF caller = "stage" THEN "clean" ELSE "qlink"

PublishChmod ==
    /\ at = "chmod"
    /\ \/ exec' = TRUE /\ Works("unlink")
       \/ UNCHANGED exec /\ Breaks(UnpublishedTo)
    /\ UNCHANGED <<mqui, link, tmp, caller, want, installed, told>>

\* Mutant: ln -sf is trusted to replace whatever is there.
PublishUnlinkSkipped ==
    /\ at = "unlink" /\ Works("ln")
    /\ UNCHANGED <<nand, caller, want, installed, told>>

PublishUnlink ==
    /\ at = "unlink"
    /\ \/ link' = "none" /\ Works("ln")
       \/ UNCHANGED link /\ Breaks("ln")
    /\ UNCHANGED <<mqui, exec, tmp, caller, want, installed, told>>

\* ln -sf replaces a file, but goes into a directory; readlink tells, and may
\* itself fail on a link that is right.
PublishLink ==
    /\ at = "ln"
    /\ \/ /\ link # "dir" /\ link' = "ours" /\ Works(PublishedTo)
          /\ installed' = (installed \/ caller = "fast")
       \/ link = "dir" /\ Works(UnpublishedTo) /\ UNCHANGED <<link, installed>>
       \/ Breaks(UnpublishedTo) /\ UNCHANGED <<link, installed>>
       \/ /\ link # "dir" /\ link' = "ours" /\ Breaks(UnpublishedTo)
          /\ UNCHANGED installed
    /\ UNCHANGED <<mqui, exec, tmp, caller, want, told>>

QuarantineLink ==
    /\ at = "qlink"
    /\ \/ link' = "none" /\ Works("qmove")
       \/ UNCHANGED link /\ Breaks("qmove")
    /\ UNCHANGED <<mqui, exec, tmp, caller, want, installed, told>>

QuarantineMove ==
    /\ at = "qmove"
    /\ \/ mqui' = None /\ exec' = FALSE /\ Works("qprove")
       \/ UNCHANGED <<mqui, exec>> /\ Breaks("qprove")
    /\ UNCHANGED <<link, tmp, caller, want, installed, told>>

QuarantinedTo == CASE caller = "early" -> "stage"
                   [] caller = "trap" -> "exit"
                   [] OTHER -> "ready"

\* Mutant: a quarantine that failed is followed by the end of the script.
QuarantineProveLenient ==
    /\ at = "qprove"
    /\ \/ ~OverrideOn /\ Works(QuarantinedTo) /\ UNCHANGED <<mqui, exec>>
       \/ /\ OverrideOn /\ mqui' = None /\ exec' = FALSE
          /\ Works(QuarantinedTo)
       \/ OverrideOn /\ Breaks("ready") /\ UNCHANGED <<mqui, exec>>
    /\ UNCHANGED <<link, tmp, caller, want, installed, told>>

\* The override is proven off, or the binary itself has to go; if it cannot,
\* the script ends without a word.
QuarantineProve ==
    /\ at = "qprove"
    /\ \/ ~OverrideOn /\ Works(QuarantinedTo) /\ UNCHANGED <<mqui, exec>>
       \/ /\ OverrideOn /\ mqui' = None /\ exec' = FALSE
          /\ Works(QuarantinedTo)
       \/ OverrideOn /\ Breaks("exit") /\ UNCHANGED <<mqui, exec>>
    /\ UNCHANGED <<link, tmp, caller, want, installed, told>>

Procedures ==
    \/ PublishChmod \/ PublishUnlink \/ PublishLink
    \/ QuarantineLink \/ QuarantineMove \/ QuarantineProve

-----------------------------------------------------------------------------
(* The script. *)

\* rcS comes to S97; S96 has recorded the choice of this boot.
StartS97 ==
    /\ at = "off"
    /\ \/ at' = "select" /\ calm' = TRUE
       \/ at' = "exit" /\ calm' = FALSE
    /\ UNCHANGED <<nand, caller, want, installed, told>>

\* ota_select has settled on a build; without a manifest there is none.
Select ==
    /\ at = "select"
    /\ \/ want' \in Build /\ at' = "sweep" /\ UNCHANGED <<caller, calm>>
       \/ want' = None /\ Call("qlink", "noman") /\ calm' = FALSE
    /\ UNCHANGED <<nand, installed, told>>

SweepTmp == at = "sweep" /\ DropTmp("fast")

\* The build is there already: only its name has to be repaired.
FastPath ==
    /\ at = "fast" /\ Verify(mqui, "chmod", "early") /\ caller' = "fast"
    /\ UNCHANGED <<nand, want, installed, told>>

\* What does not verify is out of the way before the copy begins.
QuarantineEarly ==
    /\ at = "early"
    /\ IF SomethingThere THEN Call("qlink", "early")
       ELSE at' = "stage" /\ UNCHANGED caller
    /\ UNCHANGED <<nand, want, installed, calm, told>>

\* A hard link of a bundle's binary, or a copy.
StageTmp ==
    /\ at = "stage"
    /\ \/ tmp' = want /\ Works("check")
       \/ tmp' \in {tmp, Torn, None} /\ Breaks("clean")
    /\ UNCHANGED <<mqui, exec, link, caller, want, installed, told>>

CheckTmp ==
    /\ at = "check" /\ Verify(tmp, "move", "clean")
    /\ UNCHANGED <<nand, caller, want, installed, told>>

\* Verified again, made executable and renamed into place.
MoveTmp ==
    /\ at = "move"
    /\ \/ /\ tmp = want /\ mqui' = tmp /\ exec' = TRUE /\ tmp' = None
          /\ Works("chmod") /\ caller' = "stage"
       \/ Breaks("clean") /\ UNCHANGED <<mqui, exec, tmp, caller>>
    /\ UNCHANGED <<link, want, installed, told>>

Reverify ==
    /\ at = "reverify"
    /\ \/ mqui = want /\ installed' = TRUE /\ Works("clean")
       \/ mqui # want /\ Works("clean") /\ UNCHANGED installed
       \/ Breaks("clean") /\ UNCHANGED installed
    /\ UNCHANGED <<nand, caller, want, told>>

CleanTmp == at = "clean" /\ DropTmp(IF installed THEN "ready" ELSE "final")

\* Nothing was published: what verifies is repaired, and the rest must go.
Finalize ==
    /\ at = "final" /\ Verify(mqui, "chmod", "refuse") /\ caller' = "final"
    /\ UNCHANGED <<nand, want, installed, told>>

Refuse ==
    /\ at = "refuse"
    /\ IF SomethingThere THEN Call("qlink", "final")
       ELSE at' = "ready" /\ UNCHANGED caller
    /\ UNCHANGED <<nand, want, installed, calm, told>>

\* disarm, first part: no readiness without an override, and a run record only
\* for a signed build.
WriteRun ==
    /\ at = "ready"
    /\ \/ ~OverrideOn /\ Works("exit") /\ UNCHANGED run
       \/ OverrideOn /\ run' = (IF want = Flashed THEN None ELSE want) /\ Works("mark")
       \/ OverrideOn /\ Breaks("mark") /\ UNCHANGED run
    /\ UNCHANGED <<nand, caller, want, installed, ready>>

MarkReady ==
    /\ at = "mark"
    /\ \/ ready' = TRUE /\ Works("unarm")
       \/ UNCHANGED ready /\ Breaks("unarm")
    /\ UNCHANGED <<nand, caller, want, installed, run>>

\* The traps are taken down and the worker ends.
Unarm ==
    /\ at = "unarm" /\ at' = "exit"
    /\ UNCHANGED <<nand, caller, want, installed, calm, told>>

Script ==
    \/ StartS97 \/ Select \/ SweepTmp \/ FastPath \/ QuarantineEarly
    \/ StageTmp \/ CheckTmp \/ MoveTmp \/ Reverify \/ CleanTmp
    \/ Finalize \/ Refuse \/ WriteRun \/ MarkReady \/ Unarm

-----------------------------------------------------------------------------
(* What interrupts it. *)

Working == at \notin {"off", "exit"}

\* A copy that is killed or cut off stays unfinished.
HalfStaged == IF at = "stage" THEN {tmp, Torn} ELSE {tmp}

\* The trap: quarantine, unless the install is complete.
Signal ==
    /\ "signal" \in Faults /\ Working
    /\ calm' = FALSE
    /\ IF installed THEN at' = "exit" /\ UNCHANGED caller ELSE Call("qlink", "trap")
    /\ UNCHANGED <<nand, want, installed, told>>

\* The supervisor's 180 seconds are over: the worker's whole group is killed and
\* the boot goes on; the worker may just have ended by itself.
TimedOut ==
    /\ "late" \in Faults
    /\ at' = "exit" /\ ready' = FALSE /\ calm' = FALSE
    /\ tmp' \in HalfStaged
    /\ UNCHANGED <<mqui, exec, link, caller, want, installed, run>>

\* The power goes, and /tmp is empty again.
PowerOff ==
    /\ at' = "off" /\ caller' = "fast" /\ want' = None /\ installed' = FALSE
    /\ run' = None /\ ready' = FALSE /\ calm' = FALSE
    /\ tmp' \in HalfStaged
    /\ UNCHANGED <<mqui, exec, link>>

\* Between two boots the files of /usr/data decay, or somebody replaces them.
Decay ==
    /\ "decay" \in Faults /\ at = "off"
    /\ mqui' \in {mqui, Torn} /\ exec' \in BOOLEAN /\ link' \in Links
    /\ mqui' = None => exec' = FALSE
    /\ UNCHANGED <<tmp, script, told>>

Places == {"off", "select", "sweep", "fast", "early", "stage", "check", "move",
           "reverify", "clean", "final", "refuse", "ready", "mark", "unarm", "exit"}
Publishing == {"chmod", "unlink", "ln"}
Quarantining == {"qlink", "qmove", "qprove"}

InstallTypeOK ==
    /\ {mqui, tmp} \subseteq Bytes /\ link \in Links
    /\ {exec, installed, ready, calm} \subseteq BOOLEAN
    /\ at \in Places \cup Publishing \cup Quarantining
    /\ caller \in {"fast", "stage", "final", "early", "noman", "trap"}
    /\ at \in Publishing => caller \in {"fast", "stage", "final"}
    /\ at \in Quarantining => caller # "stage"
    /\ want \in Build \cup {None} /\ run \in Bundle \cup {None}

InstallInit ==
    /\ mqui = None /\ exec = FALSE /\ link = "none" /\ tmp = None
    /\ at = "off" /\ caller = "fast" /\ want = None /\ installed = FALSE
    /\ run = None /\ ready = FALSE /\ calm = FALSE
=============================================================================
