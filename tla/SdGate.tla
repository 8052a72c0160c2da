------------------------------- MODULE SdGate -------------------------------
(***************************************************************************)
(* The SD card's gates: read leases (ui/sdio.c), write admission           *)
(* (ui/main.c) and the artwork decoders that read the card in a child      *)
(* process (ui/art.c), used by the interface's worker threads.  Also the   *)
(* state they share with the storage controller and the stock player.      *)
(***************************************************************************)
EXTENDS Naturals, Sequences, FiniteSets

CONSTANTS
    Thread,     \* worker threads of the interface: scanner, artwork, covers
    None,
    Faults      \* "stuck": a killed decoder may not be collected in time;
                \* "orphan": a decoder may outlive a crashed interface

ASSUME NoneOutside == None \notin Thread
ASSUME FaultsKnown == Faults \subseteq {"stuck", "orphan"}

VARIABLES
    \* the interface's worker threads
    thr,        \* per thread: its lease, its write, its decode token
    dec,        \* the thread whose decoder child runs, or None
    \* gates, in the interface's memory
    allowed,    \* g_allowed of sdio.c
    fault,      \* g_fault of sdio.c
    writable,   \* g_sd_writable
    hold,       \* g_sd_hold
    verdict,    \* g_launch_verdict: "pending", "good", "bad"
    \* outside the interface
    stray,      \* a decoder nobody waits for is reading the card
    faultFile,  \* /tmp/.diskos_sd_io_fault exists
    gadget,     \* the USB gadget: "free", "arming", "host", "leaving"
    mounted     \* the card is mounted at /tmp/sdcard

threads == <<thr, dec>>
gates == <<allowed, fault, writable, hold, verdict>>
card == <<gadget, mounted>>

Idle == [lease |-> FALSE, write |-> "no", token |-> "none"]

Leases == {t \in Thread : thr[t].lease}             \* g_users
Writers == {t \in Thread : thr[t].write # "no"}     \* g_sd_writers
Writing == {t \in Thread : thr[t].write = "writing"}

\* Mutant: readers only.
DrainedReaders == Leases = {}

\* Every admitted reader and writer has finished.
Drained == Leases = {} /\ Writers = {}

\* Conservative: everything but a free gadget counts as exported.
Exported == gadget # "free"
MediaLocal == verdict = "good" /\ ~hold /\ ~Exported /\ mounted

CanResume == ~fault /\ Leases = {} /\ MediaLocal

-----------------------------------------------------------------------------
\* An artwork request notes the revocation count before it asks for a lease.
TakeToken(t) ==
    /\ thr[t] = Idle
    /\ thr' = [thr EXCEPT ![t].token = "live"]
    /\ UNCHANGED <<dec, gates, stray, faultFile, card>>

BeginRefused(t) ==
    /\ thr[t].token # "none" /\ ~thr[t].lease /\ ~(allowed /\ MediaLocal)
    /\ thr' = [thr EXCEPT ![t].token = "none"]
    /\ UNCHANGED <<dec, gates, stray, faultFile, card>>

Begin(t) ==
    /\ ~thr[t].lease /\ thr[t].write = "no"
    /\ allowed /\ MediaLocal
    /\ thr' = [thr EXCEPT ![t].lease = TRUE]
    /\ UNCHANGED <<dec, gates, stray, faultFile, card>>

End(t) ==
    /\ thr[t].lease /\ thr[t].write = "no" /\ dec # t
    /\ thr' = [thr EXCEPT ![t] = Idle]
    /\ UNCHANGED <<dec, gates, stray, faultFile, card>>

\* A writer counts itself before it looks at the gate.
WriteAsk(t) ==
    /\ thr[t].write = "no" /\ thr[t].token = "none"
    /\ thr' = [thr EXCEPT ![t].write = "asked"]
    /\ UNCHANGED <<dec, gates, stray, faultFile, card>>

WriteAnswer(t) ==
    /\ thr[t].write = "asked"
    /\ thr' = [thr EXCEPT ![t].write =
                  IF writable /\ ~Exported THEN "writing" ELSE "no"]
    /\ UNCHANGED <<dec, gates, stray, faultFile, card>>

WriteEnd(t) ==
    /\ thr[t].write = "writing"
    /\ thr' = [thr EXCEPT ![t].write = "no"]
    /\ UNCHANGED <<dec, gates, stray, faultFile, card>>

\* Mutant: the token is not compared before the fork.
ForkAnyway(t) ==
    /\ thr[t].lease /\ thr[t].token # "none" /\ dec = None
    /\ dec' = t
    /\ UNCHANGED <<thr, gates, stray, faultFile, card>>

\* Decodes are serialised; a request whose token was revoked starts no decoder.
Fork(t) ==
    /\ thr[t].lease /\ thr[t].token = "live" /\ dec = None
    /\ dec' = t
    /\ UNCHANGED <<thr, gates, stray, faultFile, card>>

DecoderExits(t) ==
    /\ dec = t
    /\ dec' = None
    /\ UNCHANGED <<thr, gates, stray, faultFile, card>>

\* Mutant: the fault is not left in a file.
DecoderForgotten(t) ==
    /\ "stuck" \in Faults /\ dec = t
    /\ dec' = None /\ stray' = TRUE
    /\ thr' = [thr EXCEPT ![t].token = "dead"]
    /\ fault' = TRUE /\ allowed' = FALSE
    /\ UNCHANGED <<writable, hold, verdict, faultFile, card>>

\* The decoder was killed and did not go away: sd_io_fault, then the request
\* gives up.
DecoderStuck(t) ==
    /\ "stuck" \in Faults /\ dec = t
    /\ dec' = None /\ stray' = TRUE
    /\ thr' = [thr EXCEPT ![t].token = "dead"]
    /\ fault' = TRUE /\ faultFile' = TRUE /\ allowed' = FALSE
    /\ UNCHANGED <<writable, hold, verdict, card>>

StrayExits ==
    /\ stray
    /\ stray' = FALSE
    /\ UNCHANGED <<threads, gates, faultFile, card>>

ThreadStep(t) ==
    \/ TakeToken(t) \/ BeginRefused(t) \/ Begin(t) \/ End(t)
    \/ WriteAsk(t) \/ WriteAnswer(t) \/ WriteEnd(t)
    \/ Fork(t) \/ DecoderExits(t) \/ DecoderStuck(t)

-----------------------------------------------------------------------------
\* art_kill_all: no request of before starts another decoder.  The decoders
\* that run are killed: they exit when they get to it.
TokensRevoked ==
    [t \in Thread |->
        [thr[t] EXCEPT !.token = IF @ = "live" THEN "dead" ELSE @]]

SdIoHold == allowed' = FALSE /\ fault' = (fault \/ faultFile)
=============================================================================
