--------------------------- MODULE ScrobbleProofs ---------------------------
(***************************************************************************)
(* The scrobbler (module Scrobble): the inductive invariant that ties the  *)
(* one worker's request and its result to the oldest line of the file and  *)
(* to the session, and what follows from it for every set of plays and     *)
(* credentials and every bound.                                            *)
(***************************************************************************)
EXTENDS Scrobble, SequenceTheorems, TLAPS

\* A request in the worker's hands, or one whose result was not looked at yet.
Open == {job, result} \ {None}

\* There is one of them at most.
Alone == job = None \/ result = None

\* An authorisation under way was begun with keys, and what asks or answers for
\* the current one names the current keys.
Granted ==
    /\ want \/ auth = "wait" => cred # None
    /\ \A r \in Open : r.kind \in {"token", "session"} =>
          r.gen \in 0 .. gen /\ (r.gen = gen => r.cred = cred)

\* A request of a session is of the one there is, if there still is one.
Own == \A r \in Open : r.kind \in {"np", "scrobble"} => sk = None \/ r.sk = sk

\* A scrobble under way is of the oldest line of the file.
AtHead == \A r \in Open : r.kind = "scrobble" => queue # <<>> /\ r.play = queue[1]

\* A result that stands for an answer about its play.
Answers(r) == r # None /\ r.kind = "scrobble" /\ r.ans \in {"ok", "error"}
Noted == Answers(result) => result.play \in answered

\* No play is in the file twice, and what was answered was once in it.
Distinct ==
    /\ \A i, j \in DOMAIN queue : queue[i] = queue[j] => i = j
    /\ InFile \cup answered \subseteq kept

\* The candidate is written only once.
Fresh ==
    /\ kept \subseteq played
    /\ cur # None => cur \in played
    /\ cur # None /\ ~scrobbled => cur \notin kept

\* A line whose play was answered is about to go, or is known to be left over.
Sent ==
    \A i \in DOMAIN queue : queue[i] \in answered =>
        queue[i] \in unsure \/ (Answers(result) /\ queue[i] = result.play)

\* What is said of the file and of the requests that are about it.
FileInv == AtHead /\ Noted /\ Distinct /\ Sent /\ Kept

\* What is said of the session and of the requests made in its name.
LoginInv == Granted /\ Own /\ SessionFits

IInv == TypeOK /\ Alone /\ FileInv /\ LoginInv /\ Fresh

-----------------------------------------------------------------------------
\* A line more at the end leaves the other lines where they are.
LEMMA Appended ==
    ASSUME NEW s \in Seq(Play), NEW p \in Play
    PROVE  /\ Append(s, p) \in Seq(Play) /\ Append(s, p) # <<>>
           /\ Len(Append(s, p)) = Len(s) + 1
           /\ DOMAIN s = 1 .. Len(s)
           /\ DOMAIN Append(s, p) = 1 .. Len(s) + 1
           /\ \A i \in 1 .. Len(s) : Append(s, p)[i] = s[i]
           /\ Append(s, p)[Len(s) + 1] = p
<1>1. Append(s, p) \in Seq(Play) BY AppendProperties
<1>2. QED BY <1>1, AppendProperties, LenProperties

\* Without its first line the file has the others, in their order.
LEMMA Popped ==
    ASSUME NEW s \in Seq(Play), s # <<>>
    PROVE  /\ Tail(s) \in Seq(Play)
           /\ Len(s) \in Nat \ {0} /\ Len(Tail(s)) = Len(s) - 1
           /\ DOMAIN s = 1 .. Len(s) /\ DOMAIN Tail(s) = 1 .. Len(s) - 1
           /\ \A i \in 1 .. Len(s) - 1 : Tail(s)[i] = s[i + 1]
<1>1. Tail(s) \in Seq(Play) /\ Len(Tail(s)) = Len(s) - 1 BY HeadTailProperties
<1>2. Len(s) \in Nat \ {0} BY EmptySeq
<1>3. DOMAIN s = 1 .. Len(s) /\ DOMAIN Tail(s) = 1 .. Len(Tail(s))
  BY <1>1, LenProperties
<1>4. QED BY <1>1, <1>2, <1>3, HeadTailProperties

\* A power cut leaves the first lines.
LEMMA CutShort ==
    ASSUME NEW s \in Seq(Play), NEW n \in 0 .. Len(s)
    PROVE  /\ SubSeq(s, 1, n) \in Seq(Play) /\ Len(SubSeq(s, 1, n)) = n
           /\ DOMAIN s = 1 .. Len(s) /\ DOMAIN SubSeq(s, 1, n) = 1 .. n
           /\ \A i \in 1 .. n : SubSeq(s, 1, n)[i] = s[i]
<1>1. Len(s) \in Nat /\ DOMAIN s = 1 .. Len(s) BY LenProperties
<1>2. SubSeq(s, 1, n) \in Seq(Play) BY <1>1, SMT
<1>3. Len(SubSeq(s, 1, n)) = n BY <1>1, SMT
<1>4. \A i \in 1 .. n : SubSeq(s, 1, n)[i] = s[i] BY <1>1, SMT
<1>5. QED BY <1>1, <1>2, <1>3, <1>4, LenProperties

-----------------------------------------------------------------------------
\* Nothing the watcher or the outside does to the file disturbs the requests:
\* what was not yet written may be appended.
LEMMA AppendsKeeps ==
    ASSUME TypeOK, FileInv, NEW p \in Play, p \notin kept, NEW done \in BOOLEAN,
           Appends(p, done), UNCHANGED <<job, result, answered, unsure, lost>>
    PROVE  /\ queue' \in Seq(Play) /\ Len(queue') <= Cap
           /\ synced \in 0 .. Len(queue')
           /\ FileInv'
           /\ kept \subseteq kept' /\ kept' \subseteq kept \cup {p}
           /\ ~done => kept' = kept
<1> USE BoundsTyped
<1>0. queue \in Seq(Play) /\ Len(queue) \in Nat BY LenProperties DEF TypeOK
<1>1. CASE queue' = Append(queue, p) /\ kept' = kept \cup {p} /\ done /\ Len(queue) < Cap
  <2>1. /\ queue' \in Seq(Play) /\ queue' # <<>> /\ Len(queue') = Len(queue) + 1
        /\ DOMAIN queue = 1 .. Len(queue) /\ DOMAIN queue' = 1 .. Len(queue) + 1
        /\ \A i \in 1 .. Len(queue) : queue'[i] = queue[i]
        /\ queue'[Len(queue) + 1] = p
    BY <1>0, <1>1, Appended
  <2>2. queue # <<>> => queue'[1] = queue[1] BY <1>0, <2>1, EmptySeq
  <2>3. AtHead' BY <2>1, <2>2 DEF FileInv, AtHead, Open
  <2>4. Noted' BY DEF FileInv, Noted, Answers
  <2>5. InFile' = InFile \cup {p} BY <1>0, <2>1 DEF InFile
  <2>6. Distinct'
    <3>1. \A i \in DOMAIN queue : queue[i] # p BY DEF FileInv, Distinct, InFile
    <3>2. \A i, j \in DOMAIN queue' : queue'[i] = queue'[j] => i = j
      BY <1>0, <2>1, <3>1 DEF FileInv, Distinct
    <3>3. QED BY <1>1, <2>5, <3>2 DEF FileInv, Distinct
  <2>7. Sent'
    <3>1. p \notin answered BY DEF FileInv, Distinct
    <3>2. QED BY <1>0, <2>1, <3>1 DEF FileInv, Sent, Answers
  <2>8. Kept' BY <1>1, <2>5 DEF FileInv, Kept
  <2>9. QED BY <1>0, <1>1, <2>1, <2>3, <2>4, <2>6, <2>7, <2>8 DEF FileInv, TypeOK
<1>2. CASE UNCHANGED <<queue, kept>>
  BY <1>0, <1>2 DEF FileInv, AtHead, Open, Noted, Answers, Distinct, InFile, Sent, Kept,
     TypeOK
<1>3. QED BY <1>1, <1>2 DEF Appends

\* No step that leaves the file, the answers and the requests about it alone,
\* or drops such a request, disturbs what is said of them.
LEMMA FileRests ==
    ASSUME FileInv, UNCHANGED <<queue, kept, answered, lost>>,
           unsure \subseteq unsure',
           \A r \in Open' : r.kind = "scrobble" =>
               r \in Open \/ (queue # <<>> /\ r.play = queue[1]),
           Answers(result') => result' = result,
           Answers(result) => result' = result \/ result.play \in unsure'
    PROVE  FileInv'
<1>1. AtHead' BY DEF FileInv, AtHead
<1>2. Noted' BY DEF FileInv, Noted
<1>3. Distinct' BY DEF FileInv, Distinct, InFile
<1>4. Sent' BY DEF FileInv, Sent, Answers
<1>5. Kept' BY DEF FileInv, Kept, InFile
<1>6. QED BY <1>1, <1>2, <1>3, <1>4, <1>5 DEF FileInv

-----------------------------------------------------------------------------
\* Another track, or the same again.
LEMMA WatchStartStep ==
    ASSUME IInv, NEW p \in Play, WatchStart(p)
    PROVE  IInv'
<1>1. /\ queue' \in Seq(Play) /\ Len(queue') <= Cap /\ synced \in 0 .. Len(queue')
      /\ FileInv' /\ kept' \subseteq kept \cup {cur} /\ kept \subseteq kept'
      /\ kept' = kept \/ cur # None
  <2>0. UNCHANGED <<job, result, answered, unsure, lost>>
    BY DEF WatchStart, worker, outside, service
  <2>1. CASE cur # None /\ heard /\ ~scrobbled
    <3>1. PICK done \in BOOLEAN : Appends(cur, done) BY <2>1 DEF WatchStart, Finalize
    <3>2. cur \in Play /\ cur \notin kept BY <2>1 DEF IInv, TypeOK, Fresh
    <3>3. QED BY <2>0, <2>1, <3>1, <3>2, AppendsKeeps DEF IInv
  <2>2. CASE ~(cur # None /\ heard /\ ~scrobbled)
    <3>1. UNCHANGED <<queue, kept>> BY <2>2 DEF WatchStart, Finalize
    <3>2. FileInv'
      BY <2>0, <3>1, FileRests DEF IInv, Open
    <3>3. QED BY <3>1, <3>2 DEF IInv, TypeOK
  <2>3. QED BY <2>1, <2>2
<1>2. /\ cur' = p /\ p \notin played /\ played' = played \cup {p}
      /\ heard' = FALSE /\ scrobbled' = FALSE /\ np' = TRUE
      /\ UNCHANGED <<synced, login, worker, outside, service>>
  BY DEF WatchStart
<1>3. cur # None => cur \in played BY DEF IInv, Fresh
<1>4. TypeOK'
  <2>1. kept' \subseteq Play BY <1>1 DEF IInv, TypeOK
  <2>2. QED
    BY <1>1, <1>2, <2>1 DEF IInv, TypeOK, login, worker, outside, service
<1>5. Fresh' BY <1>1, <1>2, <1>3 DEF IInv, Fresh
<1>6. Alone' /\ LoginInv'
  BY <1>2 DEF IInv, Alone, LoginInv, Granted, Own, Open, SessionFits, login, worker
<1>7. QED BY <1>1, <1>4, <1>5, <1>6 DEF IInv

\* The candidate was listened to long enough.
LEMMA WatchOnStep ==
    ASSUME IInv, WatchOn
    PROVE  IInv'
<1>1. UNCHANGED <<job, result, answered, unsure, lost>>
  BY DEF WatchOn, worker, outside, service
<1>2. PICK done \in BOOLEAN : Appends(cur, done) /\ scrobbled' = done BY DEF WatchOn
<1>3. cur \in Play /\ cur \notin kept BY DEF WatchOn, IInv, TypeOK, Fresh
<1>4. /\ queue' \in Seq(Play) /\ Len(queue') <= Cap /\ synced \in 0 .. Len(queue')
      /\ FileInv' /\ kept \subseteq kept' /\ kept' \subseteq kept \cup {cur}
      /\ ~done => kept' = kept
  BY <1>1, <1>2, <1>3, AppendsKeeps DEF IInv
<1>5. heard' = TRUE /\ UNCHANGED <<synced, cur, np, played, login, worker, outside, service>>
  BY DEF WatchOn
<1>6. TypeOK'
  <2>1. kept' \subseteq Play BY <1>3, <1>4 DEF IInv, TypeOK
  <2>2. QED
    BY <1>2, <1>4, <1>5, <2>1 DEF IInv, TypeOK, login, worker, outside, service
<1>7. Fresh' BY <1>2, <1>4, <1>5 DEF IInv, Fresh, WatchOn
<1>8. Alone' /\ LoginInv'
  BY <1>5 DEF IInv, Alone, LoginInv, Granted, Own, Open, SessionFits, login, worker
<1>9. QED BY <1>4, <1>6, <1>7, <1>8 DEF IInv

\* No track any more.
LEMMA WatchStopStep ==
    ASSUME IInv, WatchStop
    PROVE  IInv'
<1>1. /\ queue' \in Seq(Play) /\ Len(queue') <= Cap /\ synced \in 0 .. Len(queue')
      /\ FileInv' /\ kept' \subseteq kept \cup {cur} /\ kept \subseteq kept'
  <2>0. UNCHANGED <<job, result, answered, unsure, lost>>
    BY DEF WatchStop, worker, outside, service
  <2>1. CASE cur # None /\ heard /\ ~scrobbled
    <3>1. PICK done \in BOOLEAN : Appends(cur, done) BY <2>1 DEF WatchStop, Finalize
    <3>2. cur \in Play /\ cur \notin kept BY <2>1 DEF IInv, TypeOK, Fresh
    <3>3. QED BY <2>0, <3>1, <3>2, AppendsKeeps DEF IInv
  <2>2. CASE ~(cur # None /\ heard /\ ~scrobbled)
    <3>1. UNCHANGED <<queue, kept>> BY <2>2 DEF WatchStop, Finalize
    <3>2. FileInv' BY <2>0, <3>1, FileRests DEF IInv, Open
    <3>3. QED BY <3>1, <3>2 DEF IInv, TypeOK
  <2>3. QED BY <2>1, <2>2
<1>2. /\ cur # None /\ cur' = None /\ heard' = FALSE /\ scrobbled' = FALSE /\ np' = FALSE
      /\ UNCHANGED <<synced, played, login, worker, outside, service>>
  BY DEF WatchStop
<1>3. cur \in played /\ cur \in Play BY <1>2 DEF IInv, Fresh, TypeOK
<1>4. TypeOK'
  <2>1. kept' \subseteq Play BY <1>1, <1>3 DEF IInv, TypeOK
  <2>2. QED
    BY <1>1, <1>2, <2>1 DEF IInv, TypeOK, login, worker, outside, service
<1>5. Fresh' BY <1>1, <1>2, <1>3 DEF IInv, Fresh
<1>6. Alone' /\ LoginInv'
  BY <1>2 DEF IInv, Alone, LoginInv, Granted, Own, Open, SessionFits, login, worker
<1>7. QED BY <1>1, <1>4, <1>5, <1>6 DEF IInv

-----------------------------------------------------------------------------
\* New keys, a new authorisation, the end of the session, the switch: what is
\* under way is left to itself, and only what it may be used for changes.
LEMMA UserStep ==
    ASSUME IInv, (\E c \in Cred : Provision(c)) \/ Connect \/ Logout \/ SetEnabled
    PROVE  IInv'
<1> USE BoundsTyped
<1>1. UNCHANGED <<file, job, result, watcher, service, lost>>
  BY DEF Provision, Connect, Logout, SetEnabled, worker, outside
<1>2. FileInv' BY <1>1, FileRests DEF IInv, Open, file, watcher, service
<1>3. Fresh' BY <1>1 DEF IInv, Fresh, watcher
<1>4. Alone' BY <1>1 DEF IInv, Alone
<1>5. gen \in Nat /\ LoginInv BY DEF IInv, TypeOK
<1>6. ASSUME NEW c \in Cred, Provision(c) PROVE TypeOK' /\ LoginInv'
  <2>1. TypeOK'
    BY <1>6 DEF IInv, TypeOK, Provision, Saves, file, watcher, outside, service
  <2>2. LoginInv'
    BY <1>5, <1>6, NoneApart
    DEF LoginInv, Granted, Own, Open, SessionFits, Provision, Saves
  <2>3. QED BY <2>1, <2>2
<1>7. ASSUME Connect PROVE TypeOK' /\ LoginInv'
  <2>1. TypeOK'
    BY <1>7 DEF IInv, TypeOK, Connect, file, worker, watcher, outside, service
  <2>2. LoginInv'
    BY <1>5, <1>7 DEF LoginInv, Granted, Own, Open, SessionFits, Connect, worker
  <2>3. QED BY <2>1, <2>2
<1>8. ASSUME Logout PROVE TypeOK' /\ LoginInv'
  <2>1. TypeOK'
    BY <1>8 DEF IInv, TypeOK, Logout, Saves, file, worker, watcher, outside, service
  <2>2. LoginInv'
    BY <1>5, <1>8 DEF LoginInv, Granted, Own, Open, SessionFits, Logout, Saves, worker
  <2>3. QED BY <2>1, <2>2
<1>9. ASSUME SetEnabled PROVE TypeOK' /\ LoginInv'
  <2>1. TypeOK'
    BY <1>9 DEF IInv, TypeOK, SetEnabled, Saves, file, worker, watcher, service
  <2>2. LoginInv'
    BY <1>5, <1>9 DEF LoginInv, Granted, Own, Open, SessionFits, SetEnabled, Saves, worker
  <2>3. QED BY <2>1, <2>2
<1>10. QED BY <1>2, <1>3, <1>4, <1>6, <1>7, <1>8, <1>9 DEF IInv

-----------------------------------------------------------------------------
\* What a request of an authorisation and a request of a session consist of.
LEMMA AuthParts ==
    ASSUME TypeOK, NEW r \in Open, r.kind \in {"token", "session"}
    PROVE  r.gen \in 1 .. MaxGen /\ r.cred \in Cred /\ r.sk = None /\ r.play = None
BY DEF TypeOK, Open, Job, Result

\* The parts of a request that is sent in a session's name.
LEMMA SendParts ==
    ASSUME TypeOK, NEW r \in Open, r.kind \in {"np", "scrobble"}
    PROVE  r.sk \in Session /\ r.play \in Play \cup {None}
BY DEF TypeOK, Open, Job, Result

\* Once the result is looked at nothing is under way.
LEMMA Taken ==
    ASSUME IInv, result # None, result' = None, job' = job
    PROVE  Open' = {} /\ Alone' /\ result \in Open
BY DEF IInv, Alone, Open

\* No result, one of an old authorisation, or the answer to a token request.
LEMMA TakeAuthStep ==
    ASSUME IInv, TakeNone \/ TakeStale \/ TakeToken \/ TakeGrant \/ TakeNoGrant
    PROVE  IInv'
<1> USE BoundsTyped
<1>1. /\ UNCHANGED <<file, gen, cred, want, job, backoff, watcher, outside, service>>
      /\ at' = "drive"
      /\ result' = result \/ (result' = None /\ result # None /\ ~Answers(result))
  <2>1. CASE TakeNone BY <2>1 DEF TakeNone, Taking, login
  <2>2. CASE TakeStale BY <2>2 DEF TakeStale, Taking, login, Answers
  <2>3. CASE TakeToken BY <2>3 DEF TakeToken, Takes, Taking, service, Answers
  <2>4. CASE TakeGrant BY <2>4 DEF TakeGrant, Takes, Taking, service, Answers
  <2>5. CASE TakeNoGrant BY <2>5 DEF TakeNoGrant, Takes, Taking, service, Answers
  <2>6. QED BY <2>1, <2>2, <2>3, <2>4, <2>5
<1>2. FileInv'
  BY <1>1, FileRests DEF IInv, Open, Answers, file, watcher, outside, service
<1>3. Fresh' BY <1>1 DEF IInv, Fresh, watcher
<1>4. Alone' BY <1>1 DEF IInv, Alone
<1>5. LoginInv BY DEF IInv
<1>6. ASSUME TakeNone \/ TakeStale PROVE TypeOK' /\ LoginInv'
  <2>1. UNCHANGED login BY <1>6 DEF TakeNone, TakeStale
  <2>2. TypeOK'
    BY <1>1, <2>1 DEF IInv, TypeOK, file, login, watcher, outside, service
  <2>3. LoginInv'
    BY <1>1, <1>5, <2>1 DEF LoginInv, Granted, Own, Open, SessionFits, login
  <2>4. QED BY <2>2, <2>3
<1>7. ASSUME TakeToken PROVE TypeOK' /\ LoginInv'
  <2>1. /\ UNCHANGED <<sk, saved>> /\ result # None /\ result' = None
        /\ result.kind = "token" /\ result.gen = gen /\ auth' \in {"wait", "err"}
    BY <1>7 DEF TakeToken, Takes
  <2>2. Open' = {} /\ result \in Open BY <1>1, <2>1, Taken
  <2>3. cred # None
    <3>1. result.cred = cred BY <1>5, <2>1, <2>2 DEF LoginInv, Granted
    <3>2. QED BY <2>1, <2>2, <3>1, AuthParts, NoneApart DEF IInv
  <2>4. TypeOK'
    BY <1>1, <2>1 DEF IInv, TypeOK, file, watcher, outside, service
  <2>5. LoginInv'
    BY <1>1, <1>5, <2>1, <2>2, <2>3 DEF LoginInv, Granted, Own, SessionFits
  <2>6. QED BY <2>4, <2>5
<1>8. ASSUME TakeGrant PROVE TypeOK' /\ LoginInv'
  <2>1. /\ result # None /\ result' = None /\ auth' = "ok"
        /\ result.kind = "session" /\ result.gen = gen
        /\ sk' = [cred |-> result.cred, for |-> result.gen]
        /\ saved' = [cred |-> cred, sk |-> sk'] \/ saved' = saved
    BY <1>8 DEF TakeGrant, Takes, Saves
  <2>2. Open' = {} /\ result \in Open BY <1>1, <2>1, Taken
  <2>3. result.cred = cred /\ cred \in Cred
    <3>1. result.cred = cred BY <1>5, <2>1, <2>2 DEF LoginInv, Granted
    <3>2. QED BY <2>1, <2>2, <3>1, AuthParts DEF IInv
  <2>4. sk' \in Session BY <2>1, <2>3 DEF Session, IInv, TypeOK
  <2>5. TypeOK'
    BY <1>1, <2>1, <2>4 DEF IInv, TypeOK, file, watcher, outside, service
  <2>6. LoginInv'
    BY <1>1, <1>5, <2>1, <2>2, <2>3, NoneApart DEF LoginInv, Granted, Own, SessionFits
  <2>7. QED BY <2>5, <2>6
<1>9. ASSUME TakeNoGrant PROVE TypeOK' /\ LoginInv'
  <2>1. /\ UNCHANGED <<sk, saved>> /\ result # None /\ result' = None
        /\ auth' = auth \/ auth' = "err"
    BY <1>9 DEF TakeNoGrant, Takes
  <2>2. Open' = {} BY <1>1, <2>1, Taken
  <2>3. TypeOK'
    BY <1>1, <2>1 DEF IInv, TypeOK, file, watcher, outside, service
  <2>4. LoginInv'
    BY <1>1, <1>5, <2>1, <2>2 DEF LoginInv, Granted, Own, SessionFits
  <2>5. QED BY <2>3, <2>4
<1>10. QED BY <1>2, <1>3, <1>4, <1>6, <1>7, <1>8, <1>9 DEF IInv

\* The answer to a request of the session that leaves the file alone.
LEMMA TakeSendStep ==
    ASSUME IInv, TakeRefusal \/ TakeNowPlaying \/ TakeBackoff
    PROVE  IInv'
<1>1. /\ UNCHANGED <<file, gen, cred, auth, want, job, watcher, outside, service>>
      /\ at' = "drive" /\ backoff' \in BOOLEAN
      /\ result # None /\ result' = None /\ ~Answers(result)
      /\ \/ UNCHANGED <<sk, saved>>
         \/ sk' = None /\ (saved' = [cred |-> cred, sk |-> None] \/ saved' = saved)
  <2>0. backoff \in BOOLEAN BY DEF IInv, TypeOK
  <2>1. CASE TakeRefusal
    BY <2>0, <2>1 DEF TakeRefusal, Takes, Taking, Saves, service, Answers
  <2>2. CASE TakeNowPlaying
    BY <2>0, <2>2 DEF TakeNowPlaying, Takes, Taking, login, service, Answers
  <2>3. CASE TakeBackoff
    BY <2>3 DEF TakeBackoff, Takes, Taking, login, service, Answers
  <2>4. QED BY <2>1, <2>2, <2>3
<1>2. FileInv'
  BY <1>1, FileRests DEF IInv, Open, Answers, file, watcher, outside, service
<1>3. Fresh' BY <1>1 DEF IInv, Fresh, watcher
<1>4. Open' = {} /\ Alone' BY <1>1, Taken
<1>5. TypeOK'
  BY <1>1 DEF IInv, TypeOK, file, watcher, outside, service
<1>6. LoginInv'
  BY <1>1, <1>4 DEF IInv, LoginInv, Granted, Own, SessionFits
<1>7. QED BY <1>2, <1>3, <1>4, <1>5, <1>6 DEF IInv

\* The play at the head of the file was answered for: its line goes, or stays
\* and is known to have stayed.
LEMMA TakeScrobbleStep ==
    ASSUME IInv, TakeScrobble
    PROVE  IInv'
<1> USE BoundsTyped
<1>1. /\ UNCHANGED <<login, backoff, job, watcher, outside, answered>>
      /\ at' = "drive" /\ result # None /\ result' = None
      /\ result.kind = "scrobble" /\ result.ans \in {"ok", "error"} /\ Answers(result)
      /\ Pops
  BY DEF TakeScrobble, Takes, Taking, Answers
<1>2. Open' = {} /\ Alone' /\ result \in Open BY <1>1, Taken
<1>3. /\ queue # <<>> /\ result.play = queue[1] /\ result.play \in answered
      /\ queue \in Seq(Play) /\ Len(queue) <= Cap /\ UNCHANGED kept
  BY <1>1, <1>2 DEF IInv, TypeOK, FileInv, AtHead, Noted, watcher
<1>4. FileInv' /\ queue' \in Seq(Play) /\ Len(queue') <= Cap
      /\ synced' \in 0 .. Len(queue') /\ unsure' \subseteq Play
  <2>1. CASE queue' = Tail(queue) /\ synced' = Len(queue) - 1 /\ unsure' = unsure
    <3>1. /\ queue' \in Seq(Play) /\ Len(queue) \in Nat \ {0} /\ Len(queue') = Len(queue) - 1
          /\ DOMAIN queue = 1 .. Len(queue) /\ DOMAIN queue' = 1 .. Len(queue) - 1
          /\ \A i \in 1 .. Len(queue) - 1 : queue'[i] = queue[i + 1]
      BY <1>3, <2>1, Popped
    <3>2. AtHead' /\ Noted' BY <1>1, <1>2 DEF AtHead, Noted, Answers
    <3>3. InFile' \subseteq InFile /\ InFile \subseteq InFile' \cup {queue[1]}
      <4>1. InFile' \subseteq InFile BY <3>1 DEF InFile
      <4>2. ASSUME NEW i \in DOMAIN queue, i # 1 PROVE queue[i] \in InFile'
        <5>1. i - 1 \in DOMAIN queue' /\ queue'[i - 1] = queue[i] BY <3>1, <4>2
        <5>2. QED BY <5>1 DEF InFile
      <4>3. QED BY <4>1, <4>2 DEF InFile
    <3>4. \A i \in DOMAIN queue' : queue'[i] = queue[i + 1] /\ i + 1 \in DOMAIN queue
                                   /\ queue'[i] # queue[1]
      BY <3>1 DEF IInv, FileInv, Distinct
    <3>5. Distinct'
      <4>1. \A i, j \in DOMAIN queue' : queue'[i] = queue'[j] => i = j
        BY <3>1, <3>4 DEF IInv, FileInv, Distinct
      <4>2. QED BY <1>1, <1>3, <3>3, <4>1 DEF IInv, FileInv, Distinct
    <3>6. Sent' BY <1>1, <1>3, <2>1, <3>4 DEF IInv, FileInv, Sent, Answers
    <3>7. Kept' BY <1>1, <1>3, <3>3 DEF IInv, FileInv, Kept, outside
    <3>8. QED
      BY <1>3, <2>1, <3>1, <3>2, <3>5, <3>6, <3>7 DEF FileInv, IInv, TypeOK
  <2>2. CASE UNCHANGED file /\ unsure' = unsure \cup {result.play}
    <3>1. result.play \in Play BY <1>3, EmptySeq, ElementOfSeq
    <3>2. FileInv'
      BY <1>1, <1>2, <1>3, <2>2, FileRests DEF IInv, Answers, file, outside
    <3>3. QED BY <1>3, <2>2, <3>1, <3>2 DEF file, IInv, TypeOK
  <2>3. QED BY <1>1, <2>1, <2>2 DEF Pops
<1>5. Fresh' BY <1>1 DEF IInv, Fresh, watcher
<1>6. TypeOK' BY <1>1, <1>4 DEF IInv, TypeOK, login, watcher, outside
<1>7. LoginInv' BY <1>1, <1>2 DEF IInv, LoginInv, Granted, Own, SessionFits, login
<1>8. QED BY <1>2, <1>4, <1>5, <1>6, <1>7 DEF IInv

-----------------------------------------------------------------------------
\* A request is started: it is typed, names the current keys or the session,
\* and a scrobble is of the head of the file.
LEMMA StartStep ==
    ASSUME IInv, TokenStarts \/ SessionStarts \/ NowPlayingStarts \/ ScrobbleStarts
    PROVE  IInv'
<1> USE BoundsTyped
<1>1. /\ UNCHANGED <<file, gen, cred, sk, saved, auth, result, backoff>>
      /\ UNCHANGED <<cur, heard, scrobbled, played, kept, outside, service>>
      /\ at' = "idle" /\ job = None /\ result = None
      /\ want' \in {want, FALSE} /\ np' \in {np, FALSE}
  BY DEF TokenStarts, SessionStarts, NowPlayingStarts, ScrobbleStarts, Starts, Driving, Busy
<1>2. gen \in 1 .. MaxGen /\ cred \in Cred \cup {None} /\ sk \in Session \cup {None}
      /\ want \in BOOLEAN /\ np \in BOOLEAN
  BY DEF IInv, TypeOK
<1>3. /\ job' \in Job /\ Open' \subseteq {job'}
      /\ job'.kind \in {"token", "session"} => job'.gen = gen /\ job'.cred = cred
      /\ job'.kind \in {"np", "scrobble"} => job'.sk = sk
      /\ job'.kind = "scrobble" => queue # <<>> /\ job'.play = queue[1]
  <2>0. Open' \subseteq {job'} BY <1>1 DEF Open
  <2>1. ASSUME NEW kind \in {"token", "session"}, job' = Auth(kind), cred # None
        PROVE  /\ job' \in Job /\ job'.kind = kind
               /\ job'.gen = gen /\ job'.cred = cred
    BY <1>2, <2>1 DEF Auth, Job
  <2>2. ASSUME NEW kind \in {"np", "scrobble"}, NEW p \in Play \cup {None},
               job' = Send(kind, p), sk # None
        PROVE  /\ job' \in Job /\ job'.kind = kind
               /\ job'.sk = sk /\ job'.play = p
    BY <1>2, <2>2 DEF Send, Job
  <2>3. CASE TokenStarts
    <3>1. job' = Auth("token") /\ cred # None
      BY <2>3 DEF TokenStarts, Starts, IInv, LoginInv, Granted
    <3>2. QED BY <2>0, <2>1, <3>1
  <2>4. CASE SessionStarts
    <3>1. job' = Auth("session") /\ cred # None
      BY <2>4 DEF SessionStarts, Starts, IInv, LoginInv, Granted
    <3>2. QED BY <2>0, <2>1, <3>1
  <2>5. CASE NowPlayingStarts
    <3>1. job' = Send("np", None) /\ sk # None
      BY <2>5 DEF NowPlayingStarts, Starts, MayDrive, Connected
    <3>2. QED BY <2>0, <2>2, <3>1
  <2>6. CASE ScrobbleStarts
    <3>1. job' = Send("scrobble", queue[1]) /\ sk # None /\ queue # <<>>
      BY <2>6 DEF ScrobbleStarts, Starts, MayDrive, Connected
    <3>2. queue[1] \in Play BY <3>1, EmptySeq, ElementOfSeq DEF IInv, TypeOK
    <3>3. QED BY <2>0, <2>2, <3>1, <3>2
  <2>7. QED BY <2>3, <2>4, <2>5, <2>6
<1>4. TypeOK'
  <2>1. want' \in BOOLEAN /\ np' \in BOOLEAN BY <1>1, <1>2
  <2>2. QED BY <1>1, <1>3, <2>1 DEF IInv, TypeOK, file, outside, service
<1>5. Alone' BY <1>1 DEF Alone
<1>6. FileInv'
  <2>1. ~Answers(result) BY <1>1 DEF Answers
  <2>2. QED BY <1>1, <1>3, <2>1, FileRests DEF IInv, Answers, file, outside, service
<1>7. LoginInv'
  <2>1. Granted'
    <3>1. want' \/ auth' = "wait" => cred' # None
      BY <1>1 DEF IInv, LoginInv, Granted
    <3>2. QED BY <1>1, <1>2, <1>3, <3>1 DEF Granted
  <2>2. Own' BY <1>1, <1>3 DEF Own
  <2>3. SessionFits' BY <1>1 DEF IInv, LoginInv, SessionFits
  <2>4. QED BY <2>1, <2>2, <2>3 DEF LoginInv
<1>8. Fresh' BY <1>1 DEF IInv, Fresh
<1>9. QED BY <1>4, <1>5, <1>6, <1>7, <1>8 DEF IInv

\* An authorisation is given up, nothing can be started, a pause is over.
LEMMA IdleStep ==
    ASSUME IInv, AuthExpires \/ DriveNone \/ BackoffEnds
    PROVE  IInv'
<1>1. /\ UNCHANGED <<file, gen, cred, sk, saved, job, result, watcher, outside, service>>
      /\ at' \in {at, "idle"} /\ backoff' \in {backoff, FALSE}
      /\ \/ UNCHANGED <<want, auth>>
         \/ want' = FALSE /\ auth' = "err"
  BY DEF AuthExpires, DriveNone, BackoffEnds, Driving, login
<1>2. TypeOK'
  <2>1. backoff' \in BOOLEAN /\ want' \in BOOLEAN BY <1>1 DEF IInv, TypeOK
  <2>2. auth' \in {auth, "err"} BY <1>1
  <2>3. QED BY <1>1, <2>1, <2>2 DEF IInv, TypeOK, file, watcher, outside, service
<1>3. FileInv'
  BY <1>1, FileRests DEF IInv, Open, Answers, file, watcher, outside, service
<1>4. LoginInv'
  BY <1>1 DEF IInv, LoginInv, Granted, Own, Open, SessionFits
<1>5. QED BY <1>1, <1>2, <1>3, <1>4 DEF IInv, Alone, Fresh, watcher

-----------------------------------------------------------------------------
\* The worker leaves its result.
LEMMA WorkerStep ==
    ASSUME IInv, WorkerEnds(Served) \/ WorkerEnds(Unserved)
    PROVE  IInv'
<1>1. /\ job # None /\ job' = None /\ result = None
      /\ UNCHANGED <<file, login, at, backoff, watcher, outside, unsure>>
  BY DEF WorkerEnds, IInv, Alone
<1>2. PICK a \in Served \cup Unserved :
        /\ result' = Reply(job, a)
        /\ answered' = IF job.kind = "scrobble" /\ a \in {"ok", "error"}
                       THEN answered \cup {job.play} ELSE answered
  BY <1>1 DEF WorkerEnds
<1>3. /\ result'.kind = job.kind /\ result'.gen = job.gen /\ result'.cred = job.cred
      /\ result'.sk = job.sk /\ result'.play = job.play /\ result'.ans = a
  BY <1>2 DEF Reply
<1>4. job \in Open /\ Open' = {result'} \ {None} BY <1>1 DEF Open
<1>5. job \in Job BY <1>1 DEF IInv, TypeOK
<1>6. job.kind = "scrobble" => queue # <<>> /\ job.play = queue[1] /\ 1 \in DOMAIN queue
                               /\ job.play \in kept /\ job.play \in Play
  <2>1. ASSUME job.kind = "scrobble" PROVE queue # <<>> /\ job.play = queue[1]
    BY <1>4, <2>1 DEF IInv, FileInv, AtHead
  <2>2. queue \in Seq(Play) BY DEF IInv, TypeOK
  <2>3. ASSUME queue # <<>> PROVE 1 \in DOMAIN queue /\ queue[1] \in Play
    BY <2>2, <2>3, EmptySeq, ElementOfSeq, LenProperties
  <2>4. QED BY <2>1, <2>3 DEF IInv, FileInv, Distinct, InFile
<1>7. answered \subseteq answered' /\ answered' \subseteq kept
  BY <1>2, <1>6 DEF IInv, FileInv, Distinct
<1>8. result' \in Result
  <2>1. CASE job.kind \in {"token", "session"}
    BY <1>2, <1>5, <2>1 DEF Reply, Job, Result
  <2>2. CASE job.kind \in {"np", "scrobble"}
    BY <1>2, <1>5, <2>2 DEF Reply, Job, Result
  <2>3. QED BY <1>5, <2>1, <2>2 DEF Job
<1>9. TypeOK'
  <2>1. answered' \subseteq Play BY <1>7 DEF IInv, TypeOK
  <2>2. QED BY <1>1, <1>8, <2>1 DEF IInv, TypeOK, file, login, watcher, outside
<1>10. Alone' BY <1>1 DEF Alone
<1>11. FileInv'
  <2>1. AtHead' BY <1>1, <1>3, <1>4, <1>6 DEF AtHead, file
  <2>2. Noted' BY <1>2, <1>3 DEF Noted, Answers
  <2>3. Distinct' BY <1>1, <1>7 DEF IInv, FileInv, Distinct, InFile, file, watcher
  <2>4. Sent'
    <3>1. result' # None BY <1>8, NoneIsNoRecord
    <3>2. QED
      BY <1>1, <1>2, <1>3, <1>6, <3>1 DEF IInv, FileInv, Sent, Answers, file
  <2>5. Kept' BY <1>1, <1>7 DEF IInv, FileInv, Kept, InFile, file, watcher, outside
  <2>6. QED BY <2>1, <2>2, <2>3, <2>4, <2>5 DEF FileInv
<1>12. LoginInv'
  BY <1>1, <1>3, <1>4 DEF IInv, LoginInv, Granted, Own, SessionFits, login
<1>13. QED
  BY <1>1, <1>9, <1>10, <1>11, <1>12 DEF IInv, Fresh, watcher

\* The interface starts again, perhaps because the power was cut: nothing is
\* under way, and what was may be sent again.
LEMMA RestartStep ==
    ASSUME IInv, UiRestarts \/ PowerCut
    PROVE  IInv'
<1> USE BoundsTyped
<1>1. Restarts BY DEF UiRestarts, PowerCut
<1>2. /\ job' = None /\ result' = None /\ Open' = {}
      /\ UNCHANGED <<gen, saved, played, kept, answered>>
      /\ cred' = saved.cred /\ sk' = saved.sk
      /\ cur' = None /\ want' = FALSE /\ auth' = "idle"
      /\ unsure' = unsure \cup ({r.play : r \in Open} \ {None})
  BY <1>1 DEF Restarts, Open
<1>3. queue \in Seq(Play) /\ Len(queue) \in Nat BY LenProperties DEF IInv, TypeOK
<1>4. PICK n \in 0 .. Len(queue) :
        /\ queue' = SubSeq(queue, 1, n) /\ synced' \in 0 .. n
        /\ lost' = lost \cup {queue[i] : i \in n + 1 .. Len(queue)}
  <2>1. CASE UiRestarts
    <3>1. UNCHANGED <<queue, synced, lost>> BY <2>1 DEF UiRestarts, file
    <3>2. SubSeq(queue, 1, Len(queue)) = queue BY <1>3, SubSeqFull
    <3>3. {queue[i] : i \in Len(queue) + 1 .. Len(queue)} = {} BY <1>3
    <3>4. synced \in 0 .. Len(queue) BY DEF IInv, TypeOK
    <3>5. /\ Len(queue) \in 0 .. Len(queue)
          /\ queue' = SubSeq(queue, 1, Len(queue)) /\ synced' \in 0 .. Len(queue)
          /\ lost' = lost \cup {queue[i] : i \in Len(queue) + 1 .. Len(queue)}
      <4>1. Len(queue) \in 0 .. Len(queue) BY <1>3
      <4>2. lost' = lost \cup {} BY <3>1
      <4>3. QED BY <3>1, <3>2, <3>3, <3>4, <4>1, <4>2
    <3>6. QED BY <3>5, Zenon
  <2>2. CASE PowerCut
    <3>1. synced \in 0 .. Len(queue) BY DEF IInv, TypeOK
    <3>2. PICK n \in synced .. Len(queue) :
            /\ queue' = SubSeq(queue, 1, n) /\ synced' = n
            /\ lost' = lost \cup {queue[i] : i \in n + 1 .. Len(queue)}
      BY <2>2 DEF PowerCut
    <3>3. n \in 0 .. Len(queue) /\ synced' \in 0 .. n BY <1>3, <3>1, <3>2
    <3>4. QED BY <3>2, <3>3, Zenon
  <2>3. QED BY <2>1, <2>2
<1>5. /\ queue' \in Seq(Play) /\ Len(queue') = n
      /\ DOMAIN queue = 1 .. Len(queue) /\ DOMAIN queue' = 1 .. n
      /\ \A i \in 1 .. n : queue'[i] = queue[i]
  BY <1>3, <1>4, CutShort
<1>6. lost' \subseteq Play
  <2>1. \A i \in n + 1 .. Len(queue) : queue[i] \in Play BY <1>3, <1>4, ElementOfSeq
  <2>2. QED BY <1>4, <2>1 DEF IInv, TypeOK
<1>7. unsure' \subseteq Play
  <2>1. \A r \in Open : r.play \in Play \cup {None} BY DEF IInv, TypeOK, Open, Job, Result
  <2>2. QED BY <1>2, <2>1 DEF IInv, TypeOK
<1>8. TypeOK'
  <2>1. /\ heard' = FALSE /\ scrobbled' = FALSE /\ np' = FALSE /\ backoff' = FALSE
        /\ at' = "idle" /\ lives' \in 0 .. MaxLives /\ enabled' \in BOOLEAN
    BY <1>1 DEF Restarts, IInv, TypeOK
  <2>2. Len(queue') <= Cap BY <1>3, <1>4, <1>5 DEF IInv, TypeOK
  <2>3. synced' \in 0 .. Len(queue') BY <1>4, <1>5
  <2>4. QED BY <1>2, <1>5, <1>6, <1>7, <2>1, <2>2, <2>3 DEF IInv, TypeOK
<1>9. FileInv'
  <2>1. AtHead' /\ Noted' BY <1>2 DEF AtHead, Noted, Answers
  <2>2. Distinct'
    BY <1>2, <1>4, <1>5 DEF IInv, FileInv, Distinct, InFile
  <2>3. Sent'
    <3>1. Answers(result) => result \in Open /\ result.play \in Play /\ result.play \in unsure'
      <4>1. SUFFICES ASSUME Answers(result)
                     PROVE  result \in Open /\ result.play \in Play /\ result.play \in unsure'
        OBVIOUS
      <4>2. result \in Open BY <4>1 DEF Answers, Open
      <4>3. queue # <<>> /\ result.play = queue[1]
        BY <4>1, <4>2 DEF Answers, IInv, FileInv, AtHead
      <4>4. result.play \in Play BY <1>3, <4>3, EmptySeq, ElementOfSeq
      <4>5. QED BY <1>2, <4>2, <4>4, NoneApart
    <3>2. QED BY <1>2, <1>4, <1>5, <3>1 DEF IInv, FileInv, Sent
  <2>4. Kept'
    <3>1. \A i \in DOMAIN queue : queue[i] \in InFile' \cup lost'
      <4>1. ASSUME NEW i \in 1 .. n PROVE queue[i] \in InFile'
        BY <1>5, <4>1 DEF InFile
      <4>2. ASSUME NEW i \in n + 1 .. Len(queue) PROVE queue[i] \in lost'
        BY <1>4, <4>2
      <4>3. QED BY <1>3, <1>4, <1>5, <4>1, <4>2
    <3>2. lost \subseteq lost' BY <1>4
    <3>3. QED BY <1>2, <3>1, <3>2 DEF IInv, FileInv, Kept, InFile
  <2>5. QED BY <2>1, <2>2, <2>3, <2>4 DEF FileInv
<1>10. LoginInv' BY <1>2 DEF IInv, LoginInv, Granted, Own, SessionFits
<1>11. Alone' /\ Fresh' BY <1>2 DEF Alone, Fresh, IInv
<1>12. QED BY <1>8, <1>9, <1>10, <1>11 DEF IInv

-----------------------------------------------------------------------------
\* The program starts in it.
LEMMA InitInv == Init => IInv
<1> USE BoundsTyped, NoneApart
<1> SUFFICES ASSUME Init PROVE IInv OBVIOUS
<1>1. queue \in Seq(Play) /\ Len(queue) = 0 /\ DOMAIN queue = {}
  BY EmptySeq, LenProperties DEF Init
<1>2. cred \in Cred \cup {None} /\ (sk = None \/ (sk \in Session /\ sk.cred = cred))
  BY DEF Init, Session
<1>3. TypeOK
  <2>1. saved \in [cred : Cred \cup {None}, sk : Session \cup {None}]
    BY <1>2 DEF Init
  <2>2. gen \in 1 .. MaxGen /\ lives \in 0 .. MaxLives /\ synced \in 0 .. Len(queue)
        /\ Len(queue) <= Cap
    BY <1>1 DEF Init
  <2>3. {want, backoff, enabled, heard, scrobbled, np} \subseteq BOOLEAN BY DEF Init
  <2>4. QED BY <1>1, <1>2, <2>1, <2>2, <2>3 DEF Init, TypeOK
<1>4. Alone /\ Open = {} BY DEF Init, Alone, Open
<1>5. FileInv
  BY <1>1, <1>4 DEF Init, FileInv, AtHead, Noted, Answers, Distinct, Sent, Kept, InFile
<1>6. LoginInv BY <1>2, <1>4 DEF Init, LoginInv, Granted, Own, SessionFits
<1>7. Fresh BY DEF Init, Fresh
<1>8. QED BY <1>3, <1>4, <1>5, <1>6, <1>7 DEF IInv

\* Every step keeps the invariant.
LEMMA NextInv == IInv /\ [Next]_vars => IInv'
<1> SUFFICES ASSUME IInv, [Next]_vars PROVE IInv' OBVIOUS
<1>1. CASE \E p \in Play : WatchStart(p) BY <1>1, WatchStartStep
<1>2. CASE WatchOn \/ WatchStop BY <1>2, WatchOnStep, WatchStopStep
<1>3. CASE (\E c \in Cred : Provision(c)) \/ Connect \/ Logout \/ SetEnabled
  BY <1>3, UserStep
<1>4. CASE TakeStep
  BY <1>4, TakeAuthStep, TakeSendStep, TakeScrobbleStep DEF TakeStep
<1>5. CASE DriveStep BY <1>5, StartStep, IdleStep DEF DriveStep
<1>6. CASE WorkerEnds(Served) \/ WorkerEnds(Unserved) BY <1>6, WorkerStep
<1>7. CASE BackoffEnds BY <1>7, IdleStep
<1>8. CASE UiRestarts \/ PowerCut BY <1>8, RestartStep
<1>9. CASE UNCHANGED vars
  BY <1>9 DEF vars, file, login, worker, watcher, outside, service, IInv, TypeOK, Alone,
     FileInv, AtHead, Noted, Answers, Distinct, Sent, Kept, InFile, LoginInv, Granted, Own,
     Open, SessionFits, Fresh
<1>10. QED
  BY <1>1, <1>2, <1>3, <1>4, <1>5, <1>6, <1>7, <1>8, <1>9 DEF Next

-----------------------------------------------------------------------------
\* Every variable has the kind of value the code keeps in it, and the file never
\* grows beyond LFM_QUEUE_MAX.
THEOREM ScrobbleTypes == Spec => []TypeOK
<1>1. IInv => TypeOK BY DEF IInv
<1>2. QED BY <1>1, InitInv, NextInv, PTL DEF Spec

\* What was written to lastfm.queue stays until the service has answered for it:
\* lfm_queue_pop always removes the line the answer is about, though nothing in
\* the result says which one that is.
THEOREM NothingIsDropped == Spec => []Kept
<1>1. IInv => Kept BY DEF IInv, FileInv
<1>2. QED BY <1>1, InitInv, NextInv, PTL DEF Spec

\* The session in memory and the one in the settings file belong to the keys
\* they are beside, whatever was re-entered while an authorisation ran.
THEOREM SessionsFit == Spec => []SessionFits
<1>1. IInv => SessionFits BY DEF IInv, LoginInv
<1>2. QED BY <1>1, InitInv, NextInv, PTL DEF Spec

\* lfm_clear_session ends only the session the refused request was made in.
THEOREM OnlyOwnSessionWiped == Spec => WipesOwn
<1> DEFINE A == Connected /\ sk' = None /\ gen' = gen /\ lives' = lives
                  => result # None /\ result.ans = "bad" /\ result.sk = sk
<1>1. IInv /\ [Next]_vars => [A]_vars
  <2> SUFFICES ASSUME IInv, Next, Connected, sk' = None, gen' = gen, lives' = lives
               PROVE  result # None /\ result.ans = "bad" /\ result.sk = sk
    OBVIOUS
  <2>0. gen \in Nat /\ lives \in Nat /\ sk # None /\ sk' # sk
    BY DEF IInv, TypeOK, Connected
  <2>1. CASE TakeRefusal
    <3>1. result # None /\ result \in Open /\ result.kind \in {"np", "scrobble"}
          /\ result.ans = "bad"
      BY <2>1 DEF TakeRefusal, Takes, Open
    <3>2. QED BY <2>0, <3>1 DEF IInv, LoginInv, Own
  <2>2. CASE TakeGrant
    <3>1. /\ result # None /\ result \in Open /\ result.kind = "session"
          /\ sk' = [cred |-> result.cred, for |-> result.gen]
      BY <2>2 DEF TakeGrant, Takes, Open
    <3>2. sk' \in Session
      <4>1. result.cred \in Cred /\ result.gen \in 1 .. MaxGen
        BY <3>1, AuthParts DEF IInv
      <4>2. QED BY <3>1, <4>1, BoundsTyped DEF Session
    <3>3. QED BY <3>2, NoneIsNoRecord
  <2>3. CASE TakeStep /\ ~TakeRefusal /\ ~TakeGrant
    BY <2>0, <2>3 DEF TakeStep, TakeNone, TakeStale, TakeToken, TakeNoGrant, TakeNowPlaying,
       TakeScrobble, TakeBackoff, login
  <2>4. CASE DriveStep
    BY <2>0, <2>4 DEF DriveStep, TokenStarts, SessionStarts, NowPlayingStarts,
       ScrobbleStarts, Starts, AuthExpires, DriveNone, login
  <2>5. CASE (\E c \in Cred : Provision(c)) \/ Connect \/ Logout \/ SetEnabled
    BY <2>0, <2>5 DEF Provision, Connect, Logout, SetEnabled
  <2>6. CASE (\E p \in Play : WatchStart(p)) \/ WatchOn \/ WatchStop
    BY <2>0, <2>6 DEF WatchStart, WatchOn, WatchStop, login
  <2>7. CASE WorkerEnds(Served) \/ WorkerEnds(Unserved) \/ BackoffEnds
    BY <2>0, <2>7 DEF WorkerEnds, BackoffEnds, login
  <2>8. CASE UiRestarts \/ PowerCut
    BY <2>0, <2>8 DEF UiRestarts, PowerCut, Restarts
  <2>9. QED BY <2>1, <2>2, <2>3, <2>4, <2>5, <2>6, <2>7, <2>8 DEF Next
<1>2. QED BY <1>1, InitInv, NextInv, PTL DEF Spec, WipesOwn

\* A line whose play the service has answered for is sent again only when its
\* answer went down with the interface, or its removal failed.
THEOREM OnlyUnsureResent == Spec => ResendsUnsure
<1> DEFINE A == job = None /\ job' # None =>
                  (job'.kind = "scrobble" /\ job'.play \in answered
                      => job'.play \in unsure)
<1>1. IInv /\ [Next]_vars => [A]_vars
  <2> SUFFICES ASSUME IInv, Next, job = None, job' # None, job'.kind = "scrobble",
                      job'.play \in answered
               PROVE  job'.play \in unsure
    OBVIOUS
  <2>1. CASE ScrobbleStarts
    <3>1. result = None /\ queue # <<>> /\ job'.play = queue[1]
      BY <2>1 DEF ScrobbleStarts, Starts, Busy, Send
    <3>2. 1 \in DOMAIN queue BY <3>1, EmptySeq, LenProperties DEF IInv, TypeOK
    <3>3. QED BY <3>1, <3>2 DEF IInv, FileInv, Sent, Answers
  <2>2. CASE TokenStarts \/ SessionStarts \/ NowPlayingStarts
    BY <2>2 DEF TokenStarts, SessionStarts, NowPlayingStarts, Starts, Auth, Send
  <2>3. CASE AuthExpires \/ DriveNone BY <2>3 DEF AuthExpires, DriveNone
  <2>4. CASE TakeStep
    BY <2>4 DEF TakeStep, TakeNone, TakeStale, TakeToken, TakeGrant, TakeNoGrant,
       TakeRefusal, TakeNowPlaying, TakeScrobble, TakeBackoff, Takes
  <2>5. CASE (\E c \in Cred : Provision(c)) \/ Connect \/ Logout \/ SetEnabled
    BY <2>5 DEF Provision, Connect, Logout, SetEnabled, worker
  <2>6. CASE (\E p \in Play : WatchStart(p)) \/ WatchOn \/ WatchStop
    BY <2>6 DEF WatchStart, WatchOn, WatchStop, worker
  <2>7. CASE WorkerEnds(Served) \/ WorkerEnds(Unserved) \/ BackoffEnds
    BY <2>7 DEF WorkerEnds, BackoffEnds
  <2>8. CASE UiRestarts \/ PowerCut BY <2>8 DEF UiRestarts, PowerCut, Restarts
  <2>9. QED BY <2>1, <2>2, <2>3, <2>4, <2>5, <2>6, <2>7, <2>8 DEF Next, DriveStep
<1>2. QED BY <1>1, InitInv, NextInv, PTL DEF Spec, ResendsUnsure

-----------------------------------------------------------------------------
(* The scrobbler implements Outbox. *)

\* A line more is a play that was never written before; otherwise nothing is
\* posted.
LEMMA AppendsPosts ==
    ASSUME NEW p \in Play, p \notin kept, NEW done \in BOOLEAN, Appends(p, done),
           UNCHANGED <<synced, job, result, answered>>
    PROVE  (\E q \in Play : Box!Post(q)) \/ UNCHANGED Box!outbox
<1>1. Sending' = Sending BY DEF Sending
<1>2. CASE queue' = Append(queue, p) /\ kept' = kept \cup {p}
  <2>1. Box!Post(p) BY <1>1, <1>2 DEF Box!Post
  <2>2. QED BY <2>1
<1>3. CASE UNCHANGED <<queue, kept>> BY <1>1, <1>3 DEF Box!outbox
<1>4. QED BY <1>2, <1>3 DEF Appends

\* Steps that touch neither file nor answers: the request stays what it is, or
\* is given up.
LEMMA BoxRests ==
    ASSUME UNCHANGED <<file, kept, answered>>, Sending' \in {Sending, None}
    PROVE  Box!GiveUp \/ UNCHANGED Box!outbox
BY DEF Box!GiveUp, Box!outbox, file

\* A new track, a track heard long enough, no track.
LEMMA WatchBox ==
    ASSUME IInv, (\E p \in Play : WatchStart(p)) \/ WatchOn \/ WatchStop
    PROVE  (\E q \in Play : Box!Post(q)) \/ UNCHANGED Box!outbox
<1>1. UNCHANGED <<synced, job, result, answered>>
  BY DEF WatchStart, WatchOn, WatchStop, worker, service
<1>2. cur # None /\ ~scrobbled => cur \in Play /\ cur \notin kept
  BY DEF IInv, TypeOK, Fresh
<1>3. CASE UNCHANGED <<queue, kept>>
  BY <1>1, <1>3 DEF Box!outbox, Sending
<1>4. CASE cur # None /\ ~scrobbled /\ \E done \in BOOLEAN : Appends(cur, done)
  BY <1>1, <1>2, <1>4, AppendsPosts
<1>5. QED BY <1>3, <1>4 DEF WatchStart, WatchOn, WatchStop, Finalize

\* Results: the only one that touches the file is the answer for its head.
LEMMA TakeBox ==
    ASSUME IInv, TakeStep
    PROVE  Box!Remove \/ Box!GiveUp \/ UNCHANGED Box!outbox
<1>1. UNCHANGED <<job, kept, answered>>
  BY DEF TakeStep, TakeNone, TakeStale, TakeToken, TakeGrant, TakeNoGrant,
     TakeRefusal, TakeNowPlaying, TakeScrobble, TakeBackoff, Takes, watcher,
     service
<1>2. result' \in {result, None}
  BY DEF TakeStep, TakeNone, TakeStale, TakeToken, TakeGrant, TakeNoGrant,
     TakeRefusal, TakeNowPlaying, TakeScrobble, TakeBackoff, Takes
<1>3. Sending' \in {Sending, None}
  BY <1>1, <1>2 DEF Sending, IInv, Alone
<1>4. CASE UNCHANGED file
  BY <1>1, <1>3, <1>4, BoxRests
<1>5. CASE TakeScrobble /\ queue' = Tail(queue) /\ synced' = Len(queue) - 1
  <2>1. /\ result # None /\ result' = None /\ result.kind = "scrobble"
        /\ Answers(result) /\ result \in Open /\ job = None
    BY <1>5 DEF TakeScrobble, Takes, Answers, Open, IInv, Alone
  <2>2. Sending = result.play /\ Sending' = None
    BY <1>1, <2>1 DEF Sending
  <2>3. queue # <<>> /\ result.play = queue[1] /\ result.play \in answered
    BY <2>1 DEF IInv, FileInv, AtHead, Noted
  <2>4. Head(queue) = queue[1]
    BY <2>3 DEF IInv, TypeOK
  <2>5. Box!Remove
    BY <1>1, <1>5, <2>2, <2>3, <2>4 DEF Box!Remove
  <2>6. QED BY <2>5
<1>6. QED
  BY <1>4, <1>5 DEF TakeStep, TakeNone, TakeStale, TakeToken, TakeGrant,
     TakeNoGrant, TakeRefusal, TakeNowPlaying, TakeScrobble, TakeBackoff, Pops

\* Requests: a scrobble is of the head of the file, and nothing else is sent.
LEMMA DriveBox ==
    ASSUME IInv, DriveStep
    PROVE  Box!Dispatch \/ UNCHANGED Box!outbox
<1>1. UNCHANGED <<file, kept, answered, result>>
  BY DEF DriveStep, TokenStarts, SessionStarts, NowPlayingStarts, ScrobbleStarts,
     AuthExpires, DriveNone, Starts, watcher, service
<1>2. CASE ScrobbleStarts
  <2>1. /\ job = None /\ result = None /\ queue # <<>>
        /\ job' = Send("scrobble", Head(queue))
    BY <1>2 DEF ScrobbleStarts, Starts, Busy
  <2>2. job' # None
    <3>1. Head(queue) \in Play /\ sk \in Session
      BY <1>2, <2>1 DEF IInv, TypeOK, ScrobbleStarts, MayDrive, Connected
    <3>2. job' \in Job BY <2>1, <3>1 DEF Send, Job
    <3>3. QED BY <3>2, NoneIsNoRecord
  <2>3. Sending = None /\ Sending' = Head(queue)
    BY <2>1, <2>2 DEF Sending, Send
  <2>4. Box!Dispatch
    BY <1>1, <2>1, <2>3 DEF Box!Dispatch, file
  <2>5. QED BY <2>4
<1>3. CASE ~ScrobbleStarts
  <2>1. job' = job \/ (job = None /\ result = None /\ job'.kind # "scrobble")
    BY <1>3 DEF DriveStep, TokenStarts, SessionStarts, NowPlayingStarts,
       AuthExpires, DriveNone, Starts, Busy, Auth, Send
  <2>2. Sending' = Sending
    BY <1>1, <2>1 DEF Sending
  <2>3. QED BY <1>1, <2>2 DEF Box!outbox, file
<1>4. QED BY <1>2, <1>3

\* The worker: an answer delivers what was sent.
LEMMA WorkerBox ==
    ASSUME IInv, WorkerEnds(Served) \/ WorkerEnds(Unserved)
    PROVE  Box!Deliver \/ UNCHANGED Box!outbox
<1>1. /\ job # None /\ job' = None /\ result = None
      /\ UNCHANGED <<file, kept>>
  BY DEF WorkerEnds, IInv, Alone, watcher
<1>2. PICK a \in Served \cup Unserved :
        /\ result' = Reply(job, a)
        /\ answered' = IF job.kind = "scrobble" /\ a \in {"ok", "error"}
                       THEN answered \cup {job.play} ELSE answered
  BY <1>1 DEF WorkerEnds
<1>3. result' # None
  <2>1. job \in Job BY <1>1 DEF IInv, TypeOK
  <2>2. result' \in Result
    <3>1. CASE job.kind \in {"token", "session"}
      BY <1>2, <2>1, <3>1 DEF Reply, Job, Result
    <3>2. CASE job.kind \in {"np", "scrobble"}
      BY <1>2, <2>1, <3>2 DEF Reply, Job, Result
    <3>3. QED BY <2>1, <3>1, <3>2 DEF Job
  <2>3. QED BY <2>2, NoneIsNoRecord
<1>4. result'.kind = job.kind /\ result'.play = job.play
  BY <1>2 DEF Reply
<1>5. Sending' = Sending
  BY <1>1, <1>3, <1>4 DEF Sending
<1>6. CASE answered' = answered
  BY <1>1, <1>5, <1>6 DEF Box!outbox, file
<1>7. CASE job.kind = "scrobble" /\ answered' = answered \cup {job.play}
  <2>1. Sending = job.play BY <1>1, <1>7 DEF Sending
  <2>2. job.play # None
    <3>1. job \in Open BY <1>1 DEF Open
    <3>2. queue # <<>> /\ job.play = queue[1]
      BY <1>7, <3>1 DEF IInv, FileInv, AtHead
    <3>3. queue[1] \in Play BY <3>2, EmptySeq, ElementOfSeq DEF IInv, TypeOK
    <3>4. QED BY <3>2, <3>3, NoneApart
  <2>3. Box!Deliver BY <1>1, <1>5, <1>7, <2>1, <2>2 DEF Box!Deliver, file
  <2>4. QED BY <2>3
<1>8. QED BY <1>2, <1>6, <1>7

\* A restart gives up what is under way; a power cut loses unsafe lines.
LEMMA RestartBox ==
    ASSUME IInv, UiRestarts \/ PowerCut
    PROVE  Box!GiveUp \/ Box!Lose \/ UNCHANGED Box!outbox
<1>1. job' = None /\ result' = None /\ UNCHANGED <<kept, answered>>
  BY DEF UiRestarts, PowerCut, Restarts
<1>2. Sending' = None BY <1>1 DEF Sending
<1>3. CASE UiRestarts BY <1>1, <1>2, <1>3, BoxRests DEF UiRestarts
<1>4. CASE PowerCut
  <2>1. Box!Lose BY <1>1, <1>2, <1>4 DEF Box!Lose, PowerCut
  <2>2. QED BY <2>1
<1>5. QED BY <1>3, <1>4

\* Whatever is answered, lost, restarted or cut off, the file and the worker are
\* an outbox: plays are written once and sent in order, and the line that goes
\* is of the play the service answered for (lfm_queue_append, lfm_drive_jobs,
\* lfm_handle_result, lfm_queue_pop).
THEOREM ScrobblerRefinesOutbox == Spec => RefinesOutbox
<1>1. Init => Box!OutboxInit BY DEF Init, Box!OutboxInit, Sending
<1>2. IInv /\ [Next]_vars => [Box!OutboxNext]_(Box!outbox)
  <2> SUFFICES ASSUME IInv, [Next]_vars PROVE [Box!OutboxNext]_(Box!outbox)
    OBVIOUS
  <2>1. CASE (\E p \in Play : WatchStart(p)) \/ WatchOn \/ WatchStop
    BY <2>1, WatchBox DEF Box!OutboxNext
  <2>2. CASE (\E c \in Cred : Provision(c)) \/ Connect \/ Logout \/ SetEnabled
    BY <2>2, BoxRests DEF Provision, Connect, Logout, SetEnabled, watcher,
       worker, service, Box!OutboxNext, Sending
  <2>3. CASE TakeStep BY <2>3, TakeBox DEF Box!OutboxNext
  <2>4. CASE DriveStep BY <2>4, DriveBox DEF Box!OutboxNext
  <2>5. CASE WorkerEnds(Served) \/ WorkerEnds(Unserved)
    BY <2>5, WorkerBox DEF Box!OutboxNext
  <2>6. CASE BackoffEnds \/ UNCHANGED vars
    BY <2>6, BoxRests DEF BackoffEnds, vars, watcher, worker, service,
       Box!OutboxNext, Sending
  <2>7. CASE UiRestarts \/ PowerCut BY <2>7, RestartBox DEF Box!OutboxNext
  <2>8. QED BY <2>1, <2>2, <2>3, <2>4, <2>5, <2>6, <2>7 DEF Next
<1>3. QED
  BY <1>1, <1>2, InitInv, NextInv, PTL DEF Spec, RefinesOutbox, Box!OutboxSpec
=============================================================================
