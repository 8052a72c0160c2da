--------------------------------- MODULE Sd ---------------------------------
(***************************************************************************)
(* The SD card between the interface, the stock player and a USB host: the *)
(* interface of SdLife composed with the player, which is external: it is  *)
(* modelled from how ui/main.c talks to it and from what it reads of the   *)
(* gadget and of the mount.                                                *)
(***************************************************************************)
EXTENDS SdLife

\* Open files keep the card from being unmounted.
Busy == Leases # {} \/ Writing # {} \/ dec # None \/ stray

rest == <<threads, gates, stray, faultFile, ui, mount, marker, cold, lives>>
others == <<rest, timer, reborn>>

PlayerReady ==
    /\ player = "preparing"
    /\ player' \in {"guarded", "unguarded"}
    /\ UNCHANGED <<others, card, queue>>

\* The firmware's watchdog respawned the stock player: nobody vouches for it.
PlayerReplaced ==
    /\ player = "guarded"
    /\ player' = "replaced" /\ queue' = <<>>
    /\ timer' = FALSE /\ reborn' = TRUE
    /\ UNCHANGED <<rest, card>>

\* Storage: unmount, set the backing file, then bind the controller.
PlayerExports ==
    /\ player # "preparing" /\ queue # <<>> /\ Head(queue) = 3
    /\ \/ /\ gadget = "free" /\ gadget' = "arming"
          /\ mounted' = (mounted /\ Busy)
          /\ UNCHANGED queue
       \/ gadget = "arming" /\ gadget' = "host" /\ UNCHANGED <<mounted, queue>>
       \/ gadget = "host" /\ queue' = Tail(queue) /\ UNCHANGED card
    /\ UNCHANGED <<others, player>>

\* Local: unbind, then clear the backing file and mount, which may fail.
PlayerReturns ==
    /\ player # "preparing" /\ queue # <<>> /\ Head(queue) = 0
    /\ \/ gadget = "host" /\ gadget' = "leaving" /\ UNCHANGED <<mounted, queue>>
       \/ gadget = "arming" /\ gadget' = "leaving" /\ UNCHANGED <<mounted, queue>>
       \/ /\ gadget = "leaving" /\ gadget' = "free"
          /\ mounted' \in BOOLEAN /\ queue' = Tail(queue)
       \/ gadget = "free" /\ queue' = Tail(queue) /\ UNCHANGED card
    /\ UNCHANGED <<others, player>>

\* A card is inserted or announced again: the player mounts it.
PlayerMounts ==
    /\ player # "preparing" /\ gadget = "free" /\ ~mounted
    /\ mounted' = TRUE
    /\ UNCHANGED <<others, gadget, queue, player>>

CardPulled ==
    /\ mounted /\ gadget = "free"
    /\ mounted' = FALSE
    /\ UNCHANGED <<others, gadget, queue, player>>

\* The sleep timer ran out: the interface is killed and the machine powered off.
PlayerPowersOff ==
    /\ timer /\ player # "preparing" /\ ~Down
    /\ off' = "done" /\ todo' = "none" /\ worker' = "off"
    /\ thr' = [t \in Thread |-> Idle] /\ dec' = None
    /\ UNCHANGED <<gates, stray, faultFile, card, ctl, quiesce, rst>>
    /\ UNCHANGED <<nudged, eventSent, outside>>

PlayerSeesCancel ==
    /\ timer /\ off = "protected"
    /\ timer' = FALSE
    /\ UNCHANGED <<rest, player, reborn, card, queue>>

GetsLate ==
    /\ cold
    /\ cold' = FALSE
    /\ UNCHANGED <<threads, gates, stray, faultFile, card, ui, mount>>
    /\ UNCHANGED <<marker, queue, stock, lives>>

PlayerStep ==
    \/ PlayerReady \/ PlayerReplaced \/ PlayerExports \/ PlayerReturns
    \/ PlayerMounts \/ CardPulled \/ PlayerPowersOff \/ PlayerSeesCancel
    \/ GetsLate

-----------------------------------------------------------------------------
Init ==
    /\ thr = [t \in Thread |-> Idle] /\ dec = None
    /\ allowed = FALSE /\ fault = FALSE /\ writable = TRUE
    /\ hold = FALSE /\ verdict = "pending"
    /\ stray = FALSE /\ faultFile = FALSE
    /\ gadget = "free" /\ mounted = FALSE
    /\ phase = "LOCAL" /\ expired = FALSE /\ src = 0 /\ reissue = FALSE
    /\ quiesce = FALSE /\ rst = "no" /\ off = "no" /\ todo = "boot"
    /\ worker = "off" /\ nudged = FALSE /\ eventSent = FALSE
    /\ marker = "none" /\ queue = <<>> /\ player = "preparing" /\ cold = TRUE
    /\ timer = FALSE /\ reborn = FALSE /\ lives = 0

UiThreads ==
    /\ Up /\ \E t \in Thread : ThreadStep(t)
    /\ UNCHANGED <<ui, mount, outside>>

StrayStep == StrayExits /\ UNCHANGED <<ui, mount, outside>>

Next == ControlStep \/ LifeStep \/ PlayerStep \/ UiThreads \/ StrayStep

Spec == Init /\ [][Next]_vars

-----------------------------------------------------------------------------
ThreadsOK ==
    /\ thr \in [Thread -> [lease : BOOLEAN, write : {"no", "asked", "writing"},
                           token : {"none", "live", "dead"}]]
    /\ dec \in Thread \cup {None}
GatesOK ==
    /\ allowed \in BOOLEAN /\ fault \in BOOLEAN /\ writable \in BOOLEAN
    /\ hold \in BOOLEAN /\ verdict \in {"pending", "good", "bad"}
CardOK ==
    /\ stray \in BOOLEAN /\ faultFile \in BOOLEAN /\ mounted \in BOOLEAN
    /\ gadget \in {"free", "arming", "host", "leaving"}
ControlOK ==
    /\ phase \in Phases /\ src \in {0, 3}
    /\ expired \in BOOLEAN /\ reissue \in BOOLEAN
    /\ todo \in {"none", "boot", "tick", "export", "return", "resume"}
LeaveOK ==
    /\ quiesce \in BOOLEAN /\ rst \in {"no", "drain", "sync", "reboot"}
    /\ off \in {"no", "drain", "sync", "handoff", "protected", "done"}
MountOK ==
    /\ worker \in {"off", "poll", "mounting", "mounted"}
    /\ nudged \in BOOLEAN /\ eventSent \in BOOLEAN
OutsideOK ==
    /\ marker \in {"none", "D", "E", "H", "R"}
    /\ queue \in Seq({0, 3}) /\ Len(queue) <= MaxQueue
    /\ player \in {"preparing", "guarded", "unguarded", "replaced"}
    /\ timer \in BOOLEAN /\ reborn \in BOOLEAN /\ cold \in BOOLEAN
    /\ lives \in 0 .. MaxLives
TypeOK ==
    /\ ThreadsOK /\ GatesOK /\ CardOK /\ ControlOK
    /\ LeaveOK /\ MountOK /\ OutsideOK

\* While the card is, or may be, the host's, the interface has no read lease,
\* no write and no decoder of its own on it, and it is not mounted either,
\* unless a decoder that could not be collected kept the player from it.
HostAlone ==
    Exported =>
        /\ Leases = {} /\ Writing = {} /\ dec = None
        /\ mounted => faultFile

\* Whatever a crash interrupts, a new interface can tell from the marker that
\* an export may be on its way or in effect.
IntentRecorded ==
    (\E i \in DOMAIN queue : queue[i] = 3) \/ Exported
        => marker \in {"E", "H", "R"}

\* Both gates stay shut in every phase but local, whichever handler, restart
\* or thread comes in between.
GatesShut == phase # "LOCAL" => ~allowed /\ ~writable

\* Who uses the card: threads with a lease, a write or a decoder of their own,
\* and the cold-boot worker while it mounts (it is no Thread: None).
CardUsers ==
    {t \in Thread : thr[t].lease \/ thr[t].write = "writing" \/ dec = t}
        \cup {w \in {None} : worker \in {"mounting", "mounted"}}

Lent == Exported \/ \E i \in DOMAIN queue : queue[i] = 3

Owner == INSTANCE CardOwner WITH
    User <- Thread \cup {None},
    users <- CardUsers, lent <- Lent, recorded <- marker \in {"E", "H", "R"}

\* Every step of a handler, a worker thread, the player or a crash is one step
\* of the abstract ownership or none: nobody starts to use a card that is on
\* record as lent, the record comes before the first request and is removed
\* after the last, in whatever order the requests are looked at.
RefinesOwner == Owner!OwnerSpec

\* Every decoder is covered by the lease of its request, or by the fault that
\* shuts the gates of this interface and of the next.
DecoderCovered ==
    /\ dec # None => thr[dec].lease
    /\ stray => faultFile

\* Reading starts, writing starts, a decoder starts.
Admits ==
    \/ \E t \in Thread : ~thr[t].lease /\ thr'[t].lease
    \/ \E t \in Thread : thr[t].write # "writing" /\ thr'[t].write = "writing"
    \/ dec = None /\ dec' # None

\* After the launch verdict is revoked, this interface starts no read, no write
\* and no decoder any more, not even for a request that is under way.
RevokedStaysShut == [][verdict = "bad" => ~Admits]_vars

\* The machine is only restarted while the card is not in use, and nothing has
\* been admitted since the flush began.
RestartQuiet ==
    [][/\ rst' = "reboot" => Leases = {} /\ Writing = {}
       /\ rst = "sync" => ~Admits]_vars

\* The same of the shutdown, from the flush until the player powers the machine
\* off, however late it does, while the interface that asked for it lives.
PoweroffQuiet ==
    [][(off \in {"sync", "handoff", "protected"}) =>
       ~Admits /\ (off' = "done" => Leases = {} /\ Writing = {})]_vars

\* After a shutdown that the player did not carry out the card stays closed.
ProtectedStaysShut == off = "protected" => ~allowed /\ ~writable

\* Once an insert event has been sent, the interface never mounts the card
\* itself any more in this boot.  No run checks it: it holds for one interface
\* only, since the next one does not know of the event (README, section 5).
NudgeIsFinal == [][worker' = "mounting" => ~eventSent]_vars

-----------------------------------------------------------------------------
\* A handler that has begun is finished, timers fire between two actions of the
\* user, threads and decoders come to an end, and a restart is carried out or
\* refused within its deadlines.  Nothing is assumed of the user, of the player
\* or of the card.
FairSpec ==
    /\ Spec
    /\ WF_vars(todo # "none" /\ (ControlStep \/ UiStart))
    /\ SF_vars(Tick)
    /\ WF_vars(Expire)
    /\ WF_vars(RestartRefused \/ Reboot)
    /\ WF_vars(ShutdownRefused \/ ShutdownTold)
    /\ \A t \in Thread :
         /\ WF_vars(Up /\ (WriteAnswer(t) \/ WriteEnd(t)) /\ UNCHANGED <<ui, mount, outside>>)
         /\ WF_vars(Up /\ (DecoderExits(t) \/ DecoderStuck(t)) /\ UNCHANGED <<ui, mount, outside>>)
         /\ SF_vars(Up /\ End(t) /\ UNCHANGED <<ui, mount, outside>>)

\* A switch between local and storage ends: done, refused or uncertain, unless
\* the machine is going down.
SwitchResolves ==
    Pending ~> ~Pending \/ Down \/ off \in {"handoff", "protected"}

\* While the card stays local and nothing is wrong, reading and writing are
\* admitted again: a refused restart, a refused shutdown or a return leaves no
\* gate shut.
GatesReopen ==
    <>[](phase = "LOCAL" /\ MediaLocal /\ rst = "no" /\ off = "no" /\ ~fault)
        => []<>(allowed /\ writable)
=============================================================================
