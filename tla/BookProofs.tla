----------------------------- MODULE BookProofs -----------------------------
(* Proofs about the audiobook session, for every set of tracks, every bound   *)
(* and any number of players.  BookmarkOwn is not inductive: that a fresh     *)
(* position is one of the track on record rests on the order of the frames in *)
(* every queue, on what the player has said last, and on the first frame of a *)
(* new player's queue being a track.                                          *)
EXTENDS Book, SequenceTheorems, TLAPS

Says(f) == IF f.kind = "track" THEN f.track ELSE f.of

Frame == [kind : {"track"}, track : Track \cup {NoTrack}]
         \cup [kind : {"pos"}, pos : Pos, of : Track]

\* Each position follows a frame of the same track.
Follows(s) == \A k \in 2 .. Len(s) : s[k].kind = "pos" => Says(s[k - 1]) = s[k].of

Typed ==
    /\ TypeOK
    /\ q \in [Id -> Seq(Frame)]

\* The name leads to the queue that the player sends to, if there is a player; a
\* queue that is yet to be created, or bears the name without a player, is empty.
Named ==
    /\ sends # 0 => named = sends
    /\ named <= ids
    /\ \A i \in Id : i > ids => q[i] = <<>>
    /\ sends = 0 /\ named # 0 => q[named] = <<>>

\* What the player has said last is where it is; before it has said anything,
\* or to an interface that has heard it all, it is nowhere or where it said.
Said ==
    IF sends = 0 THEN pl = NoTrack
    ELSE IF q[sends] # <<>> THEN Says(q[sends][Len(q[sends])]) = pl
    ELSE pl = NoTrack \/ (sends = rx /\ st.path \in {pl, NoTrack})

\* A queue that is not read yet begins with a track; in the one that is read, a
\* position at the head is of the track on record, if there is one.
Heads ==
    \A i \in Id : q[i] # <<>> /\ q[i][1].kind = "pos" =>
        i = rx /\ st.path \in {q[i][1].of, NoTrack}

Fresh == st.path # NoTrack /\ st.fresh => st.own

OnLineInv ==
    /\ Named /\ Said /\ Heads /\ Fresh
    /\ \A i \in Id : Follows(q[i])

OwnInv == Typed /\ OnLineInv

-----------------------------------------------------------------------------
(* Queues. *)

USE DEF Track, Pos, Id

LEMMA FramesTyped ==
    ASSUME Typed
    PROVE  /\ \A t \in Track \cup {NoTrack} : TrackFrame(t) \in Frame
           /\ \A p \in Pos : pl \in Track => PosFrame(p) \in Frame
BY DEF Typed, TypeOK, LinkTypeOK, TrackFrame, PosFrame, Frame

LEMMA FollowsAppend ==
    ASSUME NEW s \in Seq(Frame), NEW f \in Frame, Follows(s),
           f.kind = "pos" => s = <<>> \/ Says(s[Len(s)]) = f.of
    PROVE  Follows(Append(s, f))
<1> SUFFICES ASSUME NEW k \in 2 .. Len(Append(s, f)), Append(s, f)[k].kind = "pos"
             PROVE  Says(Append(s, f)[k - 1]) = Append(s, f)[k].of
  BY DEF Follows
<1>0. Len(Append(s, f)) = Len(s) + 1 /\ Len(s) \in Nat
  OBVIOUS
<1>1. CASE k = Len(s) + 1
  <2>1. Append(s, f)[k] = f /\ k - 1 \in 1 .. Len(s) /\ k - 1 = Len(s)
    BY <1>0, <1>1
  <2>2. Append(s, f)[k - 1] = s[Len(s)]
    BY <2>1
  <2>3. s # <<>>
    BY <2>1
  <2> QED
    BY <2>1, <2>2, <2>3
<1>2. CASE k # Len(s) + 1
  <2>1. k \in 2 .. Len(s) /\ k - 1 \in 1 .. Len(s)
    BY <1>0, <1>2
  <2>2. Append(s, f)[k] = s[k] /\ Append(s, f)[k - 1] = s[k - 1]
    BY <2>1
  <2> QED
    BY <2>1, <2>2 DEF Follows
<1> QED
  BY <1>1, <1>2

LEMMA FollowsTail ==
    ASSUME NEW s \in Seq(Frame), s # <<>>, Follows(s)
    PROVE  /\ Follows(Tail(s))
           /\ Tail(s) # <<>> => Tail(s)[1] = s[2] /\ Tail(s)[Len(Tail(s))] = s[Len(s)]
           /\ Tail(s) = <<>> => Len(s) = 1
           /\ Tail(s) # <<>> /\ s[2].kind = "pos" => Says(s[1]) = s[2].of
<1>0. Len(s) \in Nat \ {0} /\ Tail(s) \in Seq(Frame) /\ Len(Tail(s)) = Len(s) - 1
  BY EmptySeq, HeadTailProperties
<1>1. \A k \in 1 .. Len(s) - 1 : Tail(s)[k] = s[k + 1]
  BY <1>0, HeadTailProperties
<1>2. Follows(Tail(s))
  BY <1>0, <1>1 DEF Follows
<1>3. Tail(s) # <<>> => Len(s) >= 2
  BY <1>0, EmptySeq
<1>4. Tail(s) = <<>> => Len(s) = 1
  BY <1>0, EmptySeq
<1> QED
  BY <1>0, <1>1, <1>2, <1>3, <1>4 DEF Follows

\* What the player sends joins the end of the queue the player sends to.
LEMMA SendsKeepsLine ==
    ASSUME OwnInv, sends # 0, NEW f \in Frame, Sends(f),
           UNCHANGED <<ids, named, sends, rx, st>>,
           \/ f.kind = "track" /\ pl' = f.track
           \/ f.kind = "pos" /\ f.of = pl /\ UNCHANGED pl
    PROVE  OnLineInv'
<1> DEFINE s == q[sends]
<1>0. sends \in Id /\ s \in Seq(Frame) /\ q \in [Id -> Seq(Frame)]
  BY DEF OwnInv, Typed, TypeOK, LinkTypeOK
<1>1. q'[sends] = Append(s, f) /\ (\A i \in Id : i # sends => q'[i] = q[i])
      /\ q' \in [Id -> Seq(Frame)]
  BY <1>0 DEF Sends
<1>2. /\ Append(s, f) # <<>> /\ Append(s, f)[Len(Append(s, f))] = f
      /\ s = <<>> => Append(s, f)[1] = f
      /\ s # <<>> => Append(s, f)[1] = s[1]
  BY <1>0, EmptySeq, AppendProperties
<1>3. f.kind = "pos" => s = <<>> \/ Says(s[Len(s)]) = f.of
  BY DEF OwnInv, OnLineInv, Said
<1>4. Says(f) = pl'
  BY DEF Says, Frame
<1>5. \A i \in Id : Follows(q[i])'
  BY <1>0, <1>1, <1>3, FollowsAppend DEF OwnInv, OnLineInv
<1>6. Said'
  BY <1>1, <1>2, <1>4 DEF Said
<1>7. Named'
  BY <1>0, <1>1 DEF Named, OwnInv, OnLineInv, Typed, TypeOK, LinkTypeOK
<1>8. Heads'
  <2> SUFFICES ASSUME NEW i \in Id, q'[i] # <<>>, q'[i][1].kind = "pos"
               PROVE  i = rx /\ st.path \in {q'[i][1].of, NoTrack}
    BY DEF Heads
  <2>1. CASE i = sends /\ s = <<>>
    <3>1. f.kind = "pos" /\ f.of = pl /\ q'[i][1] = f
      BY <2>1, <1>1, <1>2 DEF Frame
    <3>2. pl # NoTrack
      BY <3>1, TracksApart DEF Frame
    <3> QED
      BY <2>1, <3>1, <3>2 DEF OwnInv, OnLineInv, Said
  <2>2. CASE i # sends \/ s # <<>>
    <3>1. q[i] # <<>> /\ q'[i][1] = q[i][1]
      BY <2>2, <1>1, <1>2
    <3> QED
      BY <3>1 DEF OwnInv, OnLineInv, Heads
  <2> QED
    BY <2>1, <2>2
<1> QED
  BY <1>5, <1>6, <1>7, <1>8 DEF OwnInv, OnLineInv, Fresh

\* Steps that touch neither a queue nor what is on record.
LEMMA QuietKeepsLine ==
    ASSUME OnLineInv, UNCHANGED <<ids, named, sends, pl, q, rx, st>>
    PROVE  OnLineInv'
BY DEF OnLineInv, Named, Said, Heads, Fresh, Follows, Says

-----------------------------------------------------------------------------
(* The player. *)

\* Only one queue keeps its frames.
LEMMA OthersEmptied ==
    ASSUME OwnInv, NEW n, q' = [i \in Id |-> IF i = n THEN q[i] ELSE <<>>]
    PROVE  q' \in [Id -> Seq(Frame)] /\ \A i \in Id : Len(q'[i]) <= QLen
<1>1. \A i \in Id : q'[i] \in {q[i], <<>>}
  OBVIOUS
<1>2. <<>> \in Seq(Frame) /\ Len(<<>>) = 0 /\ QLen \in Nat
  BY EmptySeq, BoundsTyped
<1>3. q' = [i \in Id |-> q'[i]]
  OBVIOUS
<1> QED
  BY <1>1, <1>2, <1>3 DEF OwnInv, Typed, TypeOK, LinkTypeOK

LEMMA PlayerKeepsTypes ==
    ASSUME OwnInv, PlayerStep, OnLine
    PROVE  Typed'
<1> USE DEF OwnInv, Typed, TypeOK, LinkTypeOK, OnLine, session, turn, marks, line
<1>1. CASE PlayerStarts
  <2>1. q' \in [Id -> Seq(Frame)] /\ \A i \in Id : Len(q'[i]) <= QLen
    BY <1>1, OthersEmptied DEF PlayerStarts
  <2> QED
    BY <1>1, <2>1 DEF PlayerStarts
<1>2. CASE PlayerCreates
  <2>1. ids' = ids + 1 /\ named' = ids' /\ sends' = ids' /\ ids' \in Id
    BY <1>2, BoundsTyped DEF PlayerCreates
  <2> QED
    BY <1>2, <2>1 DEF PlayerCreates
<1>3. ASSUME NEW f \in Frame, sends # 0, ~Full(sends), Sends(f)
      PROVE  q' \in [Id -> Seq(Frame)] /\ \A i \in Id : Len(q'[i]) <= QLen
  <2>1. sends \in Id /\ q[sends] \in Seq(Frame) /\ Len(q[sends]) < QLen
    BY <1>3, BoundsTyped DEF Full
  <2>2. Append(q[sends], f) \in Seq(Frame) /\ Len(Append(q[sends], f)) <= QLen
    BY <1>3, <2>1, AppendProperties, BoundsTyped
  <2> QED
    BY <1>3, <2>1, <2>2 DEF Sends
<1>4. CASE \E t \in Track \cup {NoTrack} : PlayerSwitches(t)
  <2>1. PICK t \in Track \cup {NoTrack} : PlayerSwitches(t)
    BY <1>4
  <2>2. q' \in [Id -> Seq(Frame)] /\ \A i \in Id : Len(q'[i]) <= QLen
    BY <2>1, <1>3, FramesTyped DEF PlayerSwitches
  <2> QED
    BY <2>1, <2>2 DEF PlayerSwitches
<1>5. CASE PlayerPlays
  <2>1. q' \in [Id -> Seq(Frame)] /\ \A i \in Id : Len(q'[i]) <= QLen
    BY <1>5, <1>3, FramesTyped DEF PlayerPlays
  <2> QED
    BY <1>5, <2>1 DEF PlayerPlays
<1> QED
  BY <1>1, <1>2, <1>4, <1>5 DEF PlayerStep

LEMMA PlayerKeepsLine ==
    ASSUME OwnInv, PlayerStep
    PROVE  OnLineInv'
<1>1. CASE PlayerStarts
  <2>1. \A i \in Id : q'[i] = IF i = rx THEN q[i] ELSE <<>>
    BY <1>1 DEF PlayerStarts
  <2>2. UNCHANGED <<ids, rx, st>> /\ sends' = 0 /\ named' = 0 /\ pl' = NoTrack
    BY <1>1 DEF PlayerStarts, line
  <2>3. Follows(<<>>)
    BY DEF Follows
  <2>4. Named'
    <3>1. ids \in Nat
      BY BoundsTyped DEF OwnInv, Typed, TypeOK, LinkTypeOK
    <3>2. \A i \in Id : i > ids' => q'[i] = <<>>
      BY <2>1, <2>2 DEF OwnInv, OnLineInv, Named
    <3>3. named' <= ids'
      BY <2>2, <3>1
    <3> QED
      BY <2>2, <3>2, <3>3 DEF Named
  <2>5. Said' /\ Fresh'
    BY <2>2 DEF OwnInv, OnLineInv, Said, Fresh
  <2>6. Heads'
    BY <2>1, <2>2 DEF OwnInv, OnLineInv, Heads
  <2>7. \A i \in Id : Follows(q[i])'
    BY <2>1, <2>3 DEF OwnInv, OnLineInv, Follows, Says
  <2> QED
    BY <2>4, <2>5, <2>6, <2>7 DEF OnLineInv
<1>2. CASE PlayerCreates
  <2>1. /\ sends' = ids + 1 /\ named' = sends' /\ ids' = ids + 1
        /\ UNCHANGED <<pl, q, rx, st>>
    BY <1>2 DEF PlayerCreates, line
  <2>2. sends' \in Id /\ sends' # 0 /\ q'[sends'] = <<>> /\ pl' = NoTrack
    <3>1. ids \in Nat /\ ids < MaxIds /\ sends = 0
      BY <1>2, BoundsTyped DEF PlayerCreates, OwnInv, Typed, TypeOK, LinkTypeOK
    <3>2. ids + 1 \in Id /\ ids + 1 # 0
      BY <3>1, BoundsTyped DEF Id
    <3>3. q[ids + 1] = <<>>
      BY <3>1, <3>2 DEF OwnInv, OnLineInv, Named
    <3>4. pl = NoTrack
      BY <3>1 DEF OwnInv, OnLineInv, Said
    <3> QED
      BY <2>1, <3>2, <3>3, <3>4
  <2>3. Named'
    BY <2>1, BoundsTyped DEF OwnInv, OnLineInv, Named, Typed, TypeOK, LinkTypeOK
  <2> QED
    BY <2>1, <2>2, <2>3 DEF OwnInv, OnLineInv, Said, Heads, Fresh, Follows, Says
<1>3. CASE \E t \in Track \cup {NoTrack} : PlayerSwitches(t)
  <2>1. PICK t \in Track \cup {NoTrack} : PlayerSwitches(t)
    BY <1>3
  <2>2. TrackFrame(t) \in Frame /\ TrackFrame(t).kind = "track" /\ TrackFrame(t).track = t
    BY <2>1, FramesTyped DEF OwnInv, TrackFrame
  <2> QED
    BY <2>1, <2>2, SendsKeepsLine DEF PlayerSwitches, line
<1>4. CASE PlayerPlays
  <2>1. PICK p \in Pos : Sends(PosFrame(p))
    BY <1>4 DEF PlayerPlays
  <2>2. /\ PosFrame(p) \in Frame
        /\ PosFrame(p).kind = "pos" /\ PosFrame(p).of = pl
    BY <1>4, <2>1, FramesTyped DEF OwnInv, PosFrame, PlayerPlays
  <2> QED
    BY <1>4, <2>1, <2>2, SendsKeepsLine DEF PlayerPlays, line
<1> QED
  BY <1>1, <1>2, <1>3, <1>4 DEF PlayerStep

-----------------------------------------------------------------------------
(* The receive thread. *)

\* Attached to the queue that bears the name, with what was on record before or
\* with nothing.
LEMMA AttachKeepsLine ==
    ASSUME OwnInv, named # 0, rx' = named,
           q' = [i \in Id |-> IF i = named THEN q[i] ELSE <<>>],
           UNCHANGED player, st' \in {st, NoState}
    PROVE  OnLineInv'
<1>1. \A i \in Id : q'[i] = IF i = named THEN q[i] ELSE <<>>
  OBVIOUS
<1>2. named \in Id /\ sends \in {0, named} /\ (sends = 0 => q[named] = <<>>)
  BY DEF OwnInv, OnLineInv, Named, Typed, TypeOK, LinkTypeOK
<1>3. st'.path \in {st.path, NoTrack} /\ (st'.path # NoTrack => st' = st)
  BY DEF NoState
<1>4. Follows(<<>>)
  BY DEF Follows
<1>5. Named' /\ Fresh'
  BY <1>1, <1>2, <1>3 DEF OwnInv, OnLineInv, Named, Fresh, player
<1>6. Said'
  BY <1>1, <1>2, <1>3 DEF OwnInv, OnLineInv, Said, player
<1>7. Heads'
  BY <1>1, <1>2, <1>3 DEF OwnInv, OnLineInv, Heads
<1>8. \A i \in Id : Follows(q[i])'
  BY <1>1, <1>4 DEF OwnInv, OnLineInv, Follows, Says
<1> QED
  BY <1>5, <1>6, <1>7, <1>8 DEF OnLineInv

\* Attached to a queue of its own making: no player sends, and every queue is
\* empty.
LEMMA CreateKeepsLine ==
    ASSUME OwnInv, named = 0, ids' = ids + 1, named' = ids', st' = NoState,
           q' = [i \in Id |-> IF i = named THEN q[i] ELSE <<>>], named' \in Id, UNCHANGED <<sends, pl>>
    PROVE  OnLineInv'
<1>1. \A i \in Id : q'[i] = <<>>
  OBVIOUS
<1>2. sends = 0 /\ ids \in Nat /\ ids' \in Nat
  BY BoundsTyped DEF OwnInv, OnLineInv, Named, Typed, TypeOK, LinkTypeOK
<1>3. Named'
  <2>1. named' \in Id => q'[named'] = <<>>
    BY <1>1
  <2>2. named' <= ids' /\ sends' = 0
    BY <1>2
  <2> QED
    BY <1>1, <2>1, <2>2 DEF Named
<1>4. Said' /\ Heads' /\ Fresh'
  BY <1>1, <1>2 DEF OwnInv, OnLineInv, Said, Heads, Fresh, NoState
<1>5. \A i \in Id : Follows(q[i])'
  BY <1>1 DEF Follows
<1> QED
  BY <1>3, <1>4, <1>5 DEF OnLineInv

LEMMA LineKeepsTypes ==
    ASSUME OwnInv, RxStep \/ HealthCheck, OnLine
    PROVE  Typed'
<1> USE DEF OwnInv, Typed, TypeOK, LinkTypeOK, OnLine, session, turn, marks, player
<1>1. CASE RxReads
  <2>1. Head(q[rx]) \in Frame
    BY <1>1, EmptySeq, HeadTailProperties DEF RxReads
  <2>2. st' \in [path : Track \cup {NoTrack}, pos : Pos, fresh : BOOLEAN, own : BOOLEAN]
    <3>1. CASE Head(q[rx]).kind = "pos"
      BY <1>1, <2>1, <3>1 DEF RxReads, Parsed, Frame
    <3>2. CASE Head(q[rx]).kind = "track"
      <4>1. NoState \in [path : Track \cup {NoTrack}, pos : Pos, fresh : BOOLEAN,
                         own : BOOLEAN]
        BY BoundsTyped DEF NoState
      <4>2. Head(q[rx]).track \in Track \cup {NoTrack}
        BY <2>1, <3>2 DEF Frame
      <4>3. st' = Parsed(Head(q[rx])) /\ "track" # "pos"
        BY <1>1 DEF RxReads
      <4>4. st' \in {st, NoState, [st EXCEPT !.path = Head(q[rx]).track, !.fresh = FALSE,
                                             !.own = FALSE]}
        BY <3>2, <4>3 DEF Parsed
      <4> QED
        BY <4>1, <4>2, <4>4
    <3> QED
      BY <2>1, <3>1, <3>2 DEF Frame
  <2>3. Tail(q[rx]) \in Seq(Frame) /\ Len(Tail(q[rx])) <= QLen
    BY <1>1, EmptySeq, HeadTailProperties, BoundsTyped DEF RxReads
  <2>4. q' \in [Id -> Seq(Frame)] /\ \A i \in Id : Len(q'[i]) <= QLen
    BY <1>1, <2>3 DEF RxReads
  <2> QED
    BY <1>1, <2>2, <2>4 DEF RxReads, line
<1>2. CASE RxClears
  BY <1>2 DEF RxClears
<1>3. CASE RxOpens /\ named = 0
  BY <1>3 DEF RxOpens
<1>4. CASE RxOpens /\ named # 0
  <2>1. q' = [i \in Id |-> IF i = named THEN q[i] ELSE <<>>]
    BY <1>4 DEF RxOpens
  <2>2. q' \in [Id -> Seq(Frame)] /\ \A i \in Id : Len(q'[i]) <= QLen
    BY <2>1, OthersEmptied
  <2> QED
    BY <1>4, <2>2 DEF RxOpens
<1>5. CASE HealthCheck
  BY <1>5 DEF HealthCheck
<1> QED
  BY <1>1, <1>2, <1>3, <1>4, <1>5 DEF RxStep

\* The frame at the head is of the track on record, or names it.
LEMMA ReadKeepsLine ==
    ASSUME OwnInv, RxReads
    PROVE  OnLineInv'
<1> DEFINE s == q[rx]
           f == s[1]
<1>0. rx \in Id /\ s \in Seq(Frame) /\ s # <<>> /\ q \in [Id -> Seq(Frame)]
  BY DEF OwnInv, Typed, TypeOK, LinkTypeOK, RxReads
<1>1. Head(s) = f /\ f \in Frame /\ Len(s) \in Nat \ {0} /\ Tail(s) \in Seq(Frame)
  BY <1>0, EmptySeq, HeadTailProperties
<1>2. /\ q'[rx] = Tail(s) /\ \A i \in Id : i # rx => q'[i] = q[i]
      /\ st' = Parsed(f) /\ UNCHANGED <<ids, named, sends, pl, rx>>
  BY <1>0, <1>1 DEF RxReads, player, line
<1>3. Follows(s)
  BY <1>0 DEF OwnInv, OnLineInv
<1>4. /\ Follows(Tail(s))
      /\ Tail(s) # <<>> => Tail(s)[1] = s[2] /\ Tail(s)[Len(Tail(s))] = s[Len(s)]
      /\ Tail(s) = <<>> => Len(s) = 1
      /\ Tail(s) # <<>> /\ s[2].kind = "pos" => Says(f) = s[2].of
  BY <1>0, <1>3, FollowsTail
<1>5. st'.path \in {Says(f), NoTrack}
  BY <1>0, <1>1, <1>2 DEF OwnInv, OnLineInv, Heads, Says, Parsed, NoState, Frame,
     Typed, TypeOK, LinkTypeOK
<1>6. Fresh'
  BY <1>0, <1>1, <1>2 DEF OwnInv, OnLineInv, Heads, Fresh, Parsed, NoState, Frame,
     Typed, TypeOK, LinkTypeOK
<1>7. Named'
  <2>1. \A i \in Id : q[i] = <<>> => q'[i] = <<>>
    BY <1>0, <1>2
  <2>2. named \in Id \cup {0}
    BY DEF OwnInv, Typed, TypeOK, LinkTypeOK
  <2> QED
    BY <1>2, <2>1, <2>2 DEF OwnInv, OnLineInv, Named
<1>8. Said'
  <2>1. CASE sends = rx
    <3>1. rx # 0
      BY <1>0
    <3>2. Says(s[Len(s)]) = pl
      BY <1>0, <2>1, <3>1 DEF OwnInv, OnLineInv, Said
    <3>3. Tail(s) = <<>> => Says(f) = pl
      BY <1>4, <3>2
    <3> QED
      BY <1>2, <1>4, <1>5, <2>1, <3>1, <3>2, <3>3 DEF Said
  <2>2. CASE sends # rx
    <3>1. sends # 0 => q'[sends] = q[sends]
      BY <1>2, <2>2 DEF OwnInv, Typed, TypeOK, LinkTypeOK
    <3> QED
      BY <1>2, <2>2, <3>1 DEF OwnInv, OnLineInv, Said
  <2> QED
    BY <2>1, <2>2
<1>9. Heads'
  <2> SUFFICES ASSUME NEW i \in Id, q'[i] # <<>>, q'[i][1].kind = "pos"
               PROVE  i = rx /\ st'.path \in {q'[i][1].of, NoTrack}
    BY <1>2 DEF Heads
  <2>1. CASE i = rx
    BY <1>2, <1>4, <1>5, <2>1
  <2>2. CASE i # rx
    BY <1>2, <2>2 DEF OwnInv, OnLineInv, Heads
  <2> QED
    BY <2>1, <2>2
<1>10. \A i \in Id : Follows(q[i])'
  <2> SUFFICES ASSUME NEW i \in Id PROVE Follows(q'[i])
    BY DEF Follows, Says
  <2>1. CASE i = rx
    BY <1>2, <1>4, <2>1
  <2>2. CASE i # rx
    BY <1>2, <2>2 DEF OwnInv, OnLineInv
  <2> QED
    BY <2>1, <2>2
<1> QED
  BY <1>6, <1>7, <1>8, <1>9, <1>10 DEF OnLineInv

LEMMA LineKeepsLine ==
    ASSUME OwnInv, RxStep \/ HealthCheck
    PROVE  OnLineInv'
<1>1. CASE RxReads
  BY <1>1, ReadKeepsLine
<1>2. CASE RxClears
  BY <1>2, QuietKeepsLine DEF RxClears, player, OwnInv
<1>3. CASE RxOpens /\ named = 0
  BY <1>3, QuietKeepsLine DEF RxOpens, player, OwnInv
<1>4. CASE RxOpens /\ named # 0
  BY <1>4, AttachKeepsLine DEF RxOpens
<1>5. CASE HealthCheck
  BY <1>5, QuietKeepsLine DEF HealthCheck, player, OwnInv
<1> QED
  BY <1>1, <1>2, <1>3, <1>4, <1>5 DEF RxStep

-----------------------------------------------------------------------------
(* The session. *)

LEMMA SessionTypes ==
    ASSUME OwnInv
    PROVE  /\ 0 \in Pos /\ st.pos \in Pos /\ st.path \in Track \cup {NoTrack}
           /\ st.path \in Book => bm[st.path] \in Pos
           /\ sess # NoBook => sess \in Book
BY BoundsTyped DEF OwnInv, Typed, TypeOK, LinkTypeOK

\* The variables that the line does not share.
OwnTypes ==
    /\ sess \in Book \cup {NoBook} /\ lastPos \in Pos \cup {-1}
    /\ {target, base} \subseteq Pos /\ bm \in [Book -> Pos]
    /\ {pending, confirmed, ckptOk, guarded, leaving, ticked} \subseteq BOOLEAN

LEMMA OwnTypesOfTyped ==
    ASSUME OwnInv
    PROVE  OwnTypes
BY DEF OwnInv, Typed, TypeOK, OwnTypes

\* A step that leaves the line alone.
LEMMA TypedApart ==
    ASSUME OwnInv, UNCHANGED linkVars, OwnTypes'
    PROVE  Typed'
BY DEF OwnInv, Typed, TypeOK, LinkTypeOK, OwnTypes, linkVars, player, line

LEMMA FlushTypes ==
    ASSUME OwnInv, Flush
    PROVE  bm' \in [Book -> Pos]
BY SessionTypes DEF Flush, Flushes, Saves, OwnInv, Typed, TypeOK

LEMMA NoSessionTypes ==
    ASSUME OwnInv, NoSession, base' = 0, bm' \in [Book -> Pos],
           {guarded', leaving', ticked'} \subseteq BOOLEAN
    PROVE  OwnTypes'
BY SessionTypes DEF NoSession, OwnTypes

LEMMA TickKeepsTypes ==
    ASSUME OwnInv, Tick
    PROVE  Typed'
<1>0. /\ UNCHANGED <<linkVars, guarded>>
      /\ {leaving', ticked'} \subseteq BOOLEAN /\ ticked' \in {ticked, reconn}
  BY DEF Tick, TicksOn, Ticks, TickAdopts, TickSeesOther, TickLeaves, TickConfirms,
     TickResumes, TickBegunAgain, TickOverflows, TickTracks, TickWaits, Tracking,
     OwnInv, Typed, TypeOK, LinkTypeOK
<1>1. OwnTypes /\ reconn \in BOOLEAN
  BY OwnTypesOfTyped DEF OwnInv, Typed, TypeOK, LinkTypeOK
<1> SUFFICES OwnTypes'
  BY <1>0, TypedApart
<1>2. CASE CancelsUnsaved
  BY <1>0, <1>1, <1>2, NoSessionTypes DEF CancelsUnsaved, OwnTypes
<1>3. CASE TickLeaves
  BY <1>0, <1>1, <1>3, NoSessionTypes, FlushTypes DEF TickLeaves, Cancels, OwnTypes
<1>4. CASE UNCHANGED <<session, marks>>
  BY <1>0, <1>1, <1>4 DEF OwnTypes, session, marks
<1>5. CASE TickAdopts
  BY <1>0, <1>1, <1>5, SessionTypes DEF TickAdopts, OwnTypes
<1>6. CASE TickConfirms
  BY <1>0, <1>1, <1>6 DEF TickConfirms, OwnTypes, marks
<1>7. CASE TickResumes
  BY <1>0, <1>1, <1>7 DEF TickResumes, OwnTypes, marks
<1>8. CASE TickTracks
  <2>1. sess \in Book
    BY <1>1, <1>8 DEF TickTracks, Tracking, OwnTypes
  <2>2. PICK above \in Above0(st.pos) :
          /\ ckptOk' = (ckptOk \/ (above /\ st.pos = target))
          /\ \/ ckptOk' /\ above /\ Saves(sess, st.pos)
             \/ UNCHANGED bm
    BY <1>8 DEF TickTracks, Tracks
  <2>3. bm' \in [Book -> Pos] /\ ckptOk' \in BOOLEAN
    BY <1>1, <2>1, <2>2, SessionTypes DEF Saves, OwnTypes
  <2>4. lastPos' \in Pos /\ {target', base'} \subseteq Pos
    BY <1>1, <1>8, SessionTypes DEF TickTracks, Tracks, OwnTypes
  <2> QED
    BY <1>0, <1>1, <1>8, <2>1, <2>3, <2>4 DEF TickTracks, Tracks, OwnTypes
<1> QED
  BY <1>2, <1>3, <1>4, <1>5, <1>6, <1>7, <1>8
     DEF Tick, TickBegunAgain, TickOverflows, TickSeesOther, TickWaits

LEMMA UserKeepsTypes ==
    ASSUME OwnInv, UserStep
    PROVE  Typed'
<1>0. UNCHANGED <<linkVars, turn>>
  BY DEF UserStep, Acts, UserSeeks, UserPlaysBook, UserPlaysMusic, UserTaps
<1>1. OwnTypes
  BY OwnTypesOfTyped
<1> SUFFICES OwnTypes'
  BY <1>0, TypedApart
<1>2. CASE \E p \in Pos : UserSeeks(p)
  BY <1>0, <1>1, <1>2 DEF UserSeeks, OwnTypes, Saves, session, turn, marks
<1>3. CASE \E b \in Book : UserPlaysBook(b)
  <2>1. PICK b \in Book : UserPlaysBook(b)
    BY <1>3
  <2>2. bm' \in [Book -> Pos] /\ bm[b] \in Pos
    BY <1>1, <2>1, FlushTypes DEF UserPlaysBook, OwnTypes
  <2>3. /\ sess' = b /\ target' = bm[b] /\ base' = bm[b]
        /\ confirmed' = FALSE /\ lastPos' = -1 /\ guarded' = guarded
    BY <2>1 DEF UserPlaysBook
  <2>4. pending' \in BOOLEAN /\ ckptOk' \in BOOLEAN
    <3>1. (bm[b] > 0) \in BOOLEAN
      BY <2>2, BoundsTyped
    <3>2. pending' \in {bm[b] > 0, TRUE} /\ ckptOk' = ~pending'
      BY <2>1, Zenon DEF UserPlaysBook
    <3> QED
      BY <3>1, <3>2, Zenon
  <2> QED
    BY <1>0, <1>1, <2>2, <2>3, <2>4 DEF OwnTypes, turn
<1>4. CASE UserPlaysMusic
  <2>1. guarded' \in BOOLEAN /\ UNCHANGED <<leaving, ticked>>
    BY <1>0, <1>1, <1>4 DEF UserPlaysMusic, OwnTypes, turn
  <2> QED
    BY <1>1, <1>4, <2>1, NoSessionTypes, FlushTypes
       DEF UserPlaysMusic, Cancels, OwnTypes
<1>5. CASE UserTaps
  BY <1>0, <1>1, <1>5 DEF UserTaps, OwnTypes, session, turn, marks
<1> QED
  BY <1>2, <1>3, <1>4, <1>5 DEF UserStep

LEMMA GuardKeepsTypes ==
    ASSUME OwnInv, GuardEnds
    PROVE  Typed'
BY TypedApart, OwnTypesOfTyped DEF GuardEnds, OwnTypes, session, turn, marks

LEMMA LoopKeepsTypes ==
    ASSUME OwnInv, LoopTop
    PROVE  Typed'
BY SessionTypes DEF LoopTop, CancelsUnsaved, NoSession, OwnInv, Typed, TypeOK,
   LinkTypeOK, player, session, marks

LEMMA RestartKeepsTypes ==
    ASSUME OwnInv, UiRestarts
    PROVE  Typed'
<1>1. q' \in [Id -> Seq(Frame)] /\ \A i \in Id : Len(q'[i]) <= QLen
  BY OthersEmptied DEF UiRestarts
<1>2. ids' \in Id /\ named' \in Id
  BY BoundsTyped DEF UiRestarts, OwnInv, Typed, TypeOK, LinkTypeOK
<1>3. OwnTypes'
  <2>1. OwnTypes
    BY OwnTypesOfTyped
  <2> QED
    BY <2>1, NoSessionTypes DEF UiRestarts, CancelsUnsaved, OwnTypes
<1>4. st' \in [path : Track \cup {NoTrack}, pos : Pos, fresh : BOOLEAN, own : BOOLEAN]
  BY SessionTypes DEF UiRestarts, NoState
<1> QED
  BY <1>1, <1>2, <1>3, <1>4
     DEF UiRestarts, OwnTypes, OwnInv, Typed, TypeOK, LinkTypeOK

-----------------------------------------------------------------------------
(* The theorems. *)

LEMMA OwnInit ==
    ASSUME Init
    PROVE  OwnInv
<1>1. Typed
  <2>1. q \in [Id -> Seq(Frame)] /\ (\A i \in Id : Len(q[i]) <= QLen)
    <3>1. <<>> \in Seq(Frame) /\ Len(<<>>) = 0 /\ QLen \in Nat
      BY BoundsTyped, EmptySeq
    <3> QED
      BY <3>1 DEF Init, LinkInit
  <2>2. /\ pl \in Track \cup {NoTrack}
        /\ st \in [path : Track \cup {NoTrack}, pos : Pos, fresh : BOOLEAN,
                   own : BOOLEAN]
    BY BoundsTyped DEF Init, LinkInit, NoState
  <2>3. /\ ids \in Id /\ {rx, seen} \subseteq Id /\ {named, sends} \subseteq Id \cup {0}
        /\ rxat \in {"read", "open"} /\ {reopen, reconn} \subseteq BOOLEAN
    <3>1. 1 \in Id
      BY BoundsTyped
    <3>2. /\ ids = 1 /\ named = 1 /\ sends = 1 /\ rx = 1 /\ seen = 1
          /\ rxat = "read" /\ reopen = FALSE /\ reconn = FALSE
      BY DEF Init, LinkInit
    <3> QED
      BY <3>1, <3>2
  <2>4. OwnTypes
    <3>1. 0 \in Pos
      BY BoundsTyped
    <3>2. /\ sess = NoBook /\ lastPos = -1 /\ target = 0 /\ base = 0 /\ bm \in [Book -> Pos]
          /\ pending = FALSE /\ confirmed = FALSE /\ ckptOk = FALSE
          /\ guarded = FALSE /\ leaving = FALSE /\ ticked = FALSE
      BY Zenon DEF Init
    <3> QED
      BY <3>1, <3>2 DEF OwnTypes
  <2> QED
    BY <2>1, <2>2, <2>3, <2>4 DEF Typed, TypeOK, LinkTypeOK, OwnTypes
<1>2. Named /\ Said /\ Heads /\ Fresh
  BY BoundsTyped DEF Init, LinkInit, Named, Said, Heads, Fresh, NoState
<1>3. \A i \in Id : Follows(q[i])
  BY DEF Init, LinkInit, Follows
<1> QED
  BY <1>1, <1>2, <1>3 DEF OwnInv, OnLineInv

LEMMA OwnStep ==
    ASSUME OwnInv, [Next]_vars
    PROVE  OwnInv'
<1>1. CASE PlayerStep /\ OnLine
  BY <1>1, PlayerKeepsTypes, PlayerKeepsLine DEF OwnInv
<1>2. CASE (RxStep \/ HealthCheck) /\ OnLine
  BY <1>2, LineKeepsTypes, LineKeepsLine DEF OwnInv
<1>3. CASE LoopTop
  BY <1>3, LoopKeepsTypes, QuietKeepsLine DEF OwnInv, LoopTop, player
<1>4. CASE Tick \/ UserStep \/ GuardEnds
  <2>1. UNCHANGED linkVars
    BY <1>4 DEF Tick, TicksOn, Ticks, TickAdopts, TickSeesOther, TickLeaves,
       TickConfirms, TickResumes, TickBegunAgain, TickOverflows, TickTracks, TickWaits,
       Tracking, UserStep, Acts, UserSeeks, UserPlaysBook, UserPlaysMusic, UserTaps,
       GuardEnds
  <2> QED
    BY <1>4, <2>1, TickKeepsTypes, UserKeepsTypes, GuardKeepsTypes, QuietKeepsLine
       DEF OwnInv, linkVars, player, line
<1>5. CASE UiRestarts
  <2>1. CASE named # 0
    BY <1>5, <2>1, RestartKeepsTypes, AttachKeepsLine DEF OwnInv, UiRestarts, player
  <2>2. CASE named = 0
    BY <1>5, <2>2, RestartKeepsTypes, CreateKeepsLine DEF OwnInv, UiRestarts, Typed, TypeOK, LinkTypeOK
  <2> QED
    BY <2>1, <2>2
<1>6. CASE UNCHANGED vars
  <2>1. OnLineInv'
    BY <1>6, QuietKeepsLine DEF OwnInv, vars, linkVars, player, line
  <2>2. Typed'
    BY <1>6, TypedApart, OwnTypesOfTyped DEF OwnTypes, vars, session, turn, marks
  <2> QED
    BY <2>1, <2>2 DEF OwnInv
<1> QED
  BY <1>1, <1>2, <1>3, <1>4, <1>5, <1>6 DEF Next

\* Every variable of the line and of the session stays in its type, in every
\* behaviour: in particular the receive thread never takes the absence of
\* the name for a queue, and no queue holds more than fits.
THEOREM BookTypes == Spec => []TypeOK
<1>1. OwnInv => TypeOK
  BY DEF OwnInv, Typed
<1> QED
  BY <1>1, OwnInit, OwnStep, PTL DEF Spec

\* A step that moves a bookmark is a seek, the flush on leaving a book, or the
\* checkpoint of a turn.
LEMMA Moves ==
    ASSUME Next
    PROVE  UNCHANGED bm \/ BySeek \/ (ByLeaving /\ Flush) \/ TickTracks
BY DEF Next, OnLine, LoopTop, Tick, UserStep, UiRestarts, GuardEnds, marks, CancelsUnsaved,
   Cancels, ByLeaving, BySeek, TickAdopts, TickSeesOther, TickLeaves, TickConfirms,
   TickResumes, TickBegunAgain, TickOverflows, TickWaits, UserPlaysBook, UserPlaysMusic,
   UserTaps

\* The flush and the checkpoint: both ask for the session's book on record and a
\* fresh position, which is one of that book.
LEMMA OwnBookmarks ==
    ASSUME OwnInv, Next
    PROVE  \A b \in Book : bm'[b] # bm[b] =>
              BySeek \/ (st.path = b /\ st.own /\ bm'[b] = st.pos)
<1> SUFFICES ASSUME NEW b \in Book, bm'[b] # bm[b], ~BySeek
             PROVE  st.path = b /\ st.own /\ bm'[b] = st.pos
  OBVIOUS
<1>0. bm \in [Book -> Pos] /\ (sess # NoBook => sess \in Book /\ sess # NoTrack)
  BY TracksApart DEF OwnInv, Typed, TypeOK
<1>1. ASSUME Saves(sess, st.pos), sess # NoBook, st.path = sess, st.fresh
      PROVE  st.path = b /\ st.own /\ bm'[b] = st.pos
  <2>1. b = sess /\ bm'[b] = st.pos
    BY <1>0, <1>1 DEF Saves
  <2> QED
    BY <1>0, <1>1, <2>1 DEF OwnInv, OnLineInv, Fresh
<1>2. CASE Flush
  BY <1>1, <1>2 DEF Flush, Flushes
<1>3. CASE TickTracks
  BY <1>1, <1>3 DEF TickTracks, Tracks, Tracking
<1> QED
  BY <1>2, <1>3, Moves

\* A bookmark that the user has not sought only ever becomes a position that the
\* player reported of that very book, however many players, queues, reattaches
\* and restarts there are, and however many frames wait.
THEOREM BookmarksAreOwn == Spec => BookmarkOwn
<1>1. OwnInv /\ [Next]_vars =>
        [\A b \in Book : bm'[b] # bm[b] =>
            BySeek \/ (st.path = b /\ st.own /\ bm'[b] = st.pos)]_vars
  BY OwnBookmarks
<1> QED
  BY <1>1, OwnInit, OwnStep, PTL DEF Spec, BookmarkOwn

-----------------------------------------------------------------------------
(* BookmarkKept.  While nothing may be saved, the listener's place is where   *)
(* the seek that is owed or on its way aims; afterwards the position of the   *)
(* last turn has reached it.                                                  *)
Reached == IF ckptOk THEN base = 0 \/ base <= lastPos ELSE base = target

KeptInv ==
    /\ OwnInv
    /\ ckptOk => target = 0
    /\ sess # NoBook => Reached

\* A turn that takes a position either moves the place there or finds it behind.
LEMMA TracksKeep ==
    ASSUME KeptInv, TickTracks
    PROVE  /\ ckptOk' => base' <= st.pos
           /\ (ckptOk' => target' = 0) /\ Reached'
<1>0. /\ st.pos \in Pos /\ {target, base} \subseteq Pos /\ lastPos \in Pos \cup {-1}
      /\ lastPos' = st.pos
  BY DEF KeptInv, OwnInv, Typed, TypeOK, LinkTypeOK, TickTracks, Tracks
<1>1. ckptOk' => ckptOk \/ st.pos = target
  BY DEF TickTracks, Tracks
<1>2. /\ base' = IF Reaches THEN st.pos ELSE base
      /\ target' = IF ckptOk' THEN 0 ELSE target
      /\ JumpedBack => guarded
  BY DEF TickTracks, Tracks
<1>3. Reached /\ (~ckptOk' => ~ckptOk)
  BY DEF KeptInv, TickTracks, Tracks, Tracking
<1>4. CASE ckptOk'
  <2>1. CASE Reaches
    BY <1>0, <1>2, <1>4, <2>1, BoundsTyped DEF Reached
  <2>2. CASE ~Reaches
    <3>1. base' = base /\ base <= st.pos
      BY <1>0, <1>1, <1>2, <1>3, <1>4, <2>2, BoundsTyped DEF Reaches, JumpedBack, Reached
    <3> QED
      BY <1>0, <1>2, <1>4, <3>1 DEF Reached
  <2> QED
    BY <2>1, <2>2
<1>5. CASE ~ckptOk'
  BY <1>2, <1>3, <1>5 DEF Reaches, Reached
<1> QED
  BY <1>4, <1>5

\* The flush is guarded by ckptOk alone: it saves a position short of the place
\* only just after a jump back.
LEMMA FlushKeeps ==
    ASSUME KeptInv, Flush, ~JumpedBack, NEW b \in Book, bm'[b] # bm[b]
    PROVE  b = sess /\ bm'[b] >= base
<1>0. /\ st.pos \in Pos /\ base \in Pos /\ lastPos \in Pos \cup {-1}
      /\ bm \in [Book -> Pos]
  BY DEF KeptInv, OwnInv, Typed, TypeOK, LinkTypeOK
<1>1. Flushes /\ Saves(sess, st.pos) /\ b = sess /\ bm'[b] = st.pos
  BY <1>0 DEF Flush, Saves
<1>2. Reached /\ ckptOk
  BY <1>1 DEF KeptInv, Flushes
<1> QED
  BY <1>0, <1>1, <1>2, BoundsTyped DEF Reached, JumpedBack

LEMMA KeptStep ==
    ASSUME KeptInv, [Next]_vars
    PROVE  KeptInv'
<1>0. OwnInv' /\ OwnInv
  BY OwnStep DEF KeptInv
<1>1. CASE UNCHANGED <<session, marks>>
  BY <1>0, <1>1 DEF KeptInv, session, marks, Reached
<1>2. CASE NoSession
  BY <1>0, <1>2 DEF KeptInv, NoSession
<1>3. CASE TickAdopts
  <2>1. bm[st.path] \in Pos /\ st.pos \in Pos /\ base' = bm[st.path]
    BY <1>0, <1>3, SessionTypes DEF TickAdopts
  <2>2. (ckptOk' => target' = 0) /\ Reached'
    BY <1>3, <2>1, BoundsTyped DEF TickAdopts, Reached
  <2> QED
    BY <1>0, <2>2 DEF KeptInv
<1>4. CASE TickConfirms
  BY <1>0, <1>4 DEF KeptInv, TickConfirms, marks, Reached
<1>5. CASE TickResumes
  BY <1>0, <1>5 DEF KeptInv, TickResumes, marks, Reached
<1>6. CASE TickTracks
  BY <1>0, <1>6, TracksKeep DEF KeptInv
<1>7. CASE BySeek
  <2>1. \/ UNCHANGED <<session, marks>>
        \/ target' = base' /\ ckptOk' = FALSE
    BY <1>7 DEF BySeek, UserSeeks
  <2> QED
    BY <1>0, <1>1, <2>1 DEF KeptInv, Reached
<1>8. CASE \E b \in Book : UserPlaysBook(b)
  <2>1. PICK b \in Book : UserPlaysBook(b)
    BY <1>8
  <2>2. target' = bm[b] /\ base' = bm[b] /\ bm[b] \in Nat
    BY <1>0, <2>1, BoundsTyped DEF UserPlaysBook, OwnInv, Typed, TypeOK
  <2>3. ckptOk' => ~(bm[b] > 0)
    BY <2>1, Zenon DEF UserPlaysBook
  <2> QED
    BY <1>0, <2>2, <2>3 DEF KeptInv, Reached
<1> QED
  BY <1>1, <1>2, <1>3, <1>4, <1>5, <1>6, <1>7, <1>8
     DEF Next, OnLine, LoopTop, Tick, TickSeesOther, TickLeaves, TickBegunAgain,
         TickOverflows, TickWaits, Cancels, CancelsUnsaved, UserStep, BySeek,
         UserPlaysMusic, UserTaps, GuardEnds, UiRestarts, vars

LEMMA KeptBookmarks ==
    ASSUME KeptInv, Next, NEW b \in Book, bm'[b] # bm[b]
    PROVE  \/ b = sess /\ bm'[b] >= base
           \/ b = sess' /\ bm'[b] >= base'
           \/ JumpedBack /\ ByLeaving
<1>0. bm \in [Book -> Pos] /\ st.pos \in Nat
  BY BoundsTyped DEF KeptInv, OwnInv, Typed, TypeOK, LinkTypeOK
<1>1. CASE BySeek
  <2>1. PICK p \in Pos : Saves(sess, p) /\ base' = p /\ sess' = sess
    BY <1>1 DEF BySeek, UserSeeks, marks
  <2>2. b = sess /\ bm'[b] = p
    BY <1>0, <2>1 DEF Saves
  <2> QED
    BY <2>1, <2>2, BoundsTyped
<1>2. CASE ByLeaving /\ Flush
  BY <1>2, FlushKeeps
<1>3. CASE TickTracks
  <2>1. ckptOk' /\ Saves(sess, st.pos) /\ sess' = sess
    BY <1>3 DEF TickTracks, Tracks
  <2>2. b = sess /\ bm'[b] = st.pos
    BY <1>0, <2>1 DEF Saves
  <2>3. base' <= st.pos /\ base' \in Nat
    BY <1>3, <2>1, TracksKeep, OwnStep, BoundsTyped DEF KeptInv, OwnInv, Typed, TypeOK
  <2> QED
    BY <1>0, <2>1, <2>2, <2>3
<1> QED
  BY <1>1, <1>2, <1>3, Moves

\* A bookmark that moves is nowhere behind where the listener wanted to be in
\* this session or has come to since, for any books, players, queues and frames
\* on their way: a jump back is taken in the moment after a seek or a tap only.
\* The one exception is leaving a book that has just jumped back.
THEOREM BookmarksAreKept == Spec => BookmarkKept
<1>1. Init => KeptInv
  <2>1. ASSUME Init PROVE KeptInv
    BY <2>1, OwnInit DEF KeptInv, Init
  <2> QED
    BY <2>1
<1>2. KeptInv /\ [Next]_vars =>
        [\A b \in Book : bm'[b] # bm[b] =>
            \/ b = sess /\ bm'[b] >= base
            \/ b = sess' /\ bm'[b] >= base'
            \/ JumpedBack /\ ByLeaving]_vars
  BY KeptBookmarks
<1> QED
  BY <1>1, <1>2, KeptStep, PTL DEF Spec, BookmarkKept

=============================================================================
