---------------------------- MODULE RenderProofs ----------------------------
(***************************************************************************)
(* What is proved of the render.  The timeline's properties, for episodes  *)
(* of any number of scenes of any length and for any crossfade.  The       *)
(* restarts of renders after edits: for any number of processes, edits and *)
(* runs the wait group of a superseder is exact, and Stop returns only     *)
(* when none of its restarts runs or can start.  When all edits are made   *)
(* in one process, they leave one run, of the content as it is now; with   *)
(* two processes that is not true in general.  The cache: for any          *)
(* manifests, entries and faults, a finished render's subtitles stay, and  *)
(* nothing is stored that no row refers to.                                *)
(***************************************************************************)
EXTENDS Timeline, RenderRestart, RenderCache, FiniteSetTheorems, WellFoundedInduction, TLAPS

(* The timeline. *)


N == Len(clips)

\* What the first loop has done when it gets to scene n: the scenes before it
\* follow one another from frame 0 and have frames.
PlacedUpTo(n) ==
    \A i \in Scenes : i < n =>
        /\ spans[i].frames = clips[i] /\ clips[i] >= 1
        /\ spans[i].start = IF i = 1 THEN 0 ELSE EndOf(spans[i - 1])

\* What two neighbours lend: both or none, at most what each can spare on one
\* side, and the incoming scene at most one frame more.
FairLoan(i) ==
    LET tail == spans[i].tail
        head == spans[i + 1].head
    IN  /\ tail <= Lendable(spans[i].frames) /\ head <= Lendable(spans[i + 1].frames)
        /\ head - tail \in 0..(crossfade % 2)
        /\ tail = 0 <=> head = 0

\* What the second loop has done when it gets to the pair n.
FadedUpTo(n) ==
    /\ spans[1].head = 0 /\ spans[N].tail = 0
    /\ \A i \in 1..(N - 1) :
          IF i < n THEN FairLoan(i) ELSE spans[i].tail = 0 /\ spans[i + 1].head = 0

TypeInv ==
    /\ clips \in Seq(Nat) /\ crossfade \in Nat
    /\ planning \in {"place", "fade", "cut", "planned", "refused"}
    /\ spans \in [Scenes -> Span] /\ total \in Nat /\ segments \in Seq(Segment)
    /\ at \in Nat

\* Segment e follows s without a gap, on the picture and on the scene's clock.
Joined(s, e) ==
    /\ e.start = EndOf(s)
    /\ IF s.kind = "transition"
       THEN /\ e.kind = "body" /\ e.scene = s.scene + 1
            /\ e.local - (s.nextLocal + s.frames) \in 0..(crossfade % 2)
       ELSE e.scene = s.scene => e.local = s.local + s.frames

WellCut(q) ==
    \A k \in 1..Len(q) :
        /\ q[k].frames >= 1
        /\ k = 1 => q[k].start = 0
        /\ k > 1 => Joined(q[k - 1], q[k])

\* The last segment when the third loop gets to scene n.
LastCut(n) == IF Fades(n - 1) THEN TransitionAfter(n - 1) ELSE BodyOf(n - 1)

PlaceInv ==
    planning = "place" =>
        /\ at \in Scenes /\ PlacedUpTo(at)
        /\ \A i \in Scenes : spans[i].head = 0 /\ spans[i].tail = 0
        /\ total = IF at = 1 THEN 0 ELSE EndOf(spans[at - 1])
        /\ segments = <<>>

FadeInv ==
    planning = "fade" =>
        /\ at \in 1..(N - 1) /\ PlacedUpTo(N + 1) /\ FadedUpTo(at)
        /\ total = EndOf(spans[N])
        /\ segments = <<>>

CutInv ==
    planning = "cut" =>
        /\ at \in Scenes /\ PlacedUpTo(N + 1) /\ FadedUpTo(N)
        /\ total = EndOf(spans[N])
        /\ IF at = 1 THEN segments = <<>>
           ELSE segments # <<>> /\ segments[Len(segments)] = LastCut(at)

PlannedInv ==
    planning = "planned" =>
        /\ N >= 1 /\ PlacedUpTo(N + 1) /\ FadedUpTo(N)
        /\ total = EndOf(spans[N])
        /\ segments # <<>> /\ segments[Len(segments)] = BodyOf(N)

Inv == TypeInv /\ PlaceInv /\ FadeInv /\ CutInv /\ PlannedInv /\ WellCut(segments)

\* A scene that lends on both sides keeps a frame.
LEMMA LoansLeaveABody ==
    ASSUME TypeInv, N >= 1, PlacedUpTo(N + 1), FadedUpTo(N), NEW i \in Scenes
    PROVE  /\ spans[i].head <= Lendable(spans[i].frames)
           /\ spans[i].tail <= Lendable(spans[i].frames)
           /\ spans[i].head + spans[i].tail < spans[i].frames
<1> DEFINE s == spans[i]
<1>0. N \in Nat /\ i \in 1..N /\ s \in Span
  BY DEF TypeInv, Scenes, N
<1>1. s.frames >= 1
  <2>1. i < N + 1
    BY <1>0
  <2> QED  BY <1>0, <2>1 DEF PlacedUpTo
<1>2. s.tail <= Lendable(s.frames)
  <2>1. CASE i = N
    BY <1>0, <1>1, <2>1 DEF FadedUpTo, Lendable, Span
  <2>2. CASE i < N
    BY <1>0, <2>2 DEF FadedUpTo, FairLoan
  <2> QED  BY <1>0, <2>1, <2>2
<1>3. s.head <= Lendable(s.frames)
  <2>1. CASE i = 1
    BY <1>0, <1>1, <2>1 DEF FadedUpTo, Lendable, Span
  <2>2. CASE i > 1
    <3>1. i - 1 \in 1..(N - 1) /\ i - 1 < N /\ (i - 1) + 1 = i
      BY <1>0, <2>2
    <3>2. FairLoan(i - 1)
      BY <3>1 DEF FadedUpTo
    <3> QED  BY <3>1, <3>2 DEF FairLoan
  <2> QED  BY <1>0, <2>1, <2>2
<1> QED  BY <1>0, <1>1, <1>2, <1>3 DEF Lendable, Span

LEMMA InvInit == TimelineInit => Inv
<1> SUFFICES ASSUME TimelineInit PROVE Inv
  OBVIOUS
<1>1. clips \in Seq(Nat) /\ crossfade \in Nat /\ N \in Nat
  BY TimelineAssumption DEF TimelineInit, N
<1>2. clips # <<>> => N >= 1
  BY <1>1 DEF N
<1>3. NoSpan \in Span
  BY DEF NoSpan, Span
<1>4. TypeInv
  BY <1>1, <1>3 DEF TimelineInit, TypeInv
<1>5. PlaceInv
  BY <1>1, <1>2 DEF TimelineInit, PlaceInv, PlacedUpTo, Scenes, N, NoSpan
<1> QED  BY <1>4, <1>5 DEF TimelineInit, Inv, FadeInv, CutInv, PlannedInv, WellCut

LEMMA PlaceKeeps == ASSUME Inv, PlaceScene PROVE Inv'
<1> USE DEF Inv
<1>0. N \in Nat /\ at \in 1..N /\ N' = N /\ Scenes' = Scenes /\ Scenes = 1..N
  BY DEF TypeInv, PlaceInv, PlaceScene, Scenes, N
<1>1. CASE clips[at] <= 0
  BY <1>1 DEF PlaceScene, TypeInv, PlaceInv, FadeInv, CutInv, PlannedInv, WellCut, Scenes
<1>2. CASE ~(clips[at] <= 0)
  <2>0. PICK n : n = at
    OBVIOUS
  <2> DEFINE new == [start |-> total, frames |-> clips[at], head |-> 0, tail |-> 0]
  <2>1. clips[at] \in Nat /\ clips[at] >= 1
    BY <1>0, <1>2 DEF TypeInv, N
  <2>2. /\ spans' = [spans EXCEPT ![at] = new] /\ new \in Span
        /\ total' = total + clips[at] /\ UNCHANGED <<clips, crossfade, segments>>
    BY <1>2, <2>1 DEF PlaceScene, NoSpan, Span, TypeInv
  <2>3. /\ spans' \in [Scenes -> Span] /\ spans'[at] = new
        /\ \A i \in Scenes : i # at => spans'[i] = spans[i]
    BY <1>0, <2>2 DEF TypeInv
  <2>4. PlacedUpTo(n + 1)'
    <3> SUFFICES ASSUME NEW i \in 1..N, i < at + 1
                 PROVE  /\ spans'[i].frames = clips[i] /\ clips[i] >= 1
                        /\ spans'[i].start = IF i = 1 THEN 0 ELSE spans'[i - 1].start + spans'[i - 1].frames
      BY <1>0, <2>0, <2>2 DEF PlacedUpTo, EndOf
    <3>1. CASE i = at
      BY <1>0, <2>1, <2>2, <2>3, <3>1 DEF PlaceInv, PlaceScene, EndOf
    <3>2. CASE i < at
      BY <1>0, <2>1, <2>2, <2>3, <3>2 DEF PlaceInv, PlaceScene, PlacedUpTo, EndOf
    <3> QED  BY <1>0, <3>1, <3>2
  <2>5. \A i \in Scenes : spans'[i].head = 0 /\ spans'[i].tail = 0
    BY <1>0, <2>2, <2>3 DEF PlaceInv, PlaceScene
  <2>6. total' = EndOf(spans'[n])
    BY <2>0, <2>2, <2>3 DEF EndOf
  <2>7. segments' = <<>> /\ total' \in Nat
    BY <2>1, <2>2 DEF PlaceInv, PlaceScene, TypeInv
  <2>8. CASE at < N
    <3>1. at' = at + 1 /\ planning' = "place"
      BY <1>2, <2>8, <1>0 DEF PlaceScene, Advance, N
    <3> QED  BY <1>0, <2>0, <2>2, <2>3, <2>4, <2>5, <2>6, <2>7, <2>8, <3>1
             DEF TypeInv, PlaceInv, FadeInv, CutInv, PlannedInv, WellCut, Scenes
  <2>9. CASE at = N
    <3>1. at' = 1 /\ planning' = IF N = 1 THEN "cut" ELSE "fade"
      BY <1>2, <2>9 DEF PlaceScene, Advance, N
    <3>2. FadedUpTo(1)' /\ (N = 1 => FadedUpTo(N)')
      BY <1>0, <2>5 DEF FadedUpTo
    <3>3. TypeInv' /\ PlaceInv' /\ PlannedInv' /\ WellCut(segments)'
      BY <1>0, <2>2, <2>3, <2>7, <3>1 DEF TypeInv, PlaceInv, PlannedInv, WellCut
    <3>4. FadeInv'
      BY <1>0, <2>0, <2>4, <2>6, <2>7, <2>9, <3>1, <3>2 DEF FadeInv
    <3>5. CutInv'
      BY <1>0, <2>0, <2>4, <2>6, <2>7, <2>9, <3>1, <3>2 DEF CutInv
    <3> QED  BY <3>3, <3>4, <3>5
  <2> QED  BY <1>0, <2>8, <2>9
<1> QED  BY <1>1, <1>2

\* What two neighbours lend is a fair loan.
LEMMA LentIsFair ==
    ASSUME NEW m \in Nat, NEW n \in Nat, m >= 1, n >= 1, crossfade \in Nat,
           NEW tail, NEW head, <<tail, head>> = Lent(Smaller(Lendable(m), Lendable(n)))
    PROVE  /\ tail \in Nat /\ head \in Nat
           /\ tail <= Lendable(m) /\ head <= Lendable(n)
           /\ head - tail \in 0..(crossfade % 2)
           /\ tail = 0 <=> head = 0
<1> DEFINE room == Smaller(Lendable(m), Lendable(n))
           half == crossfade \div 2
           rest == crossfade - half
           fits == half <= room /\ rest <= room
<1>1. room \in Nat /\ room <= Lendable(m) /\ room <= Lendable(n)
  BY DEF Smaller, Lendable
<1>2. half \in Nat /\ rest \in Nat /\ rest - half = crossfade % 2 /\ crossfade % 2 \in 0..1
  OBVIOUS
<1>3. <<tail, head>> = IF (IF fits THEN crossfade ELSE 2 * room) < 2 THEN <<0, 0>>
                       ELSE IF fits THEN <<half, rest>> ELSE <<room, room>>
  BY DEF Lent
<1> HIDE DEF room, half, rest
<1>4. CASE fits
  <2>1. rest + half = crossfade
    BY <1>2 DEF rest
  <2> QED  BY <1>1, <1>2, <1>3, <1>4, <2>1 DEF Lendable
<1>5. CASE ~fits
  BY <1>1, <1>2, <1>3, <1>5 DEF Lendable
<1> QED  BY <1>4, <1>5

\* What one turn of the second loop does to the spans.
LEMMA FadeEffect ==
    ASSUME Inv, FadePair, NEW n, n = at
    PROVE  /\ n \in 1..(N - 1) /\ PlacedUpTo(N + 1) /\ FadedUpTo(n) /\ total = EndOf(spans[N]) /\ segments = <<>>
           /\ spans' \in [Scenes -> Span]
           /\ \A i \in Scenes : /\ spans'[i].start = spans[i].start /\ spans'[i].frames = spans[i].frames
                                /\ i # n => spans'[i].tail = spans[i].tail
                                /\ i # n + 1 => spans'[i].head = spans[i].head
           /\ spans'[n].tail = Lent(Room(n))[1] /\ spans'[n + 1].head = Lent(Room(n))[2]
           /\ spans'[n].tail <= Lendable(spans[n].frames) /\ spans'[n + 1].head <= Lendable(spans[n + 1].frames)
           /\ spans'[n + 1].head - spans'[n].tail \in 0..(crossfade % 2)
           /\ spans'[n].tail = 0 <=> spans'[n + 1].head = 0
<1> USE DEF Inv
<1>0. N \in Nat /\ at \in 1..(N - 1) /\ N' = N /\ Scenes' = Scenes /\ Scenes = 1..N
  BY DEF TypeInv, FadeInv, FadePair, Scenes, N
<1>1. n = at
  OBVIOUS
<1> DEFINE lent == Lent(Room(n))
<1>2. PICK tail, head : tail = lent[1] /\ head = lent[2]
  OBVIOUS
<1>3. /\ spans[n] \in Span /\ spans[n + 1] \in Span
      /\ spans[n].frames >= 1 /\ spans[n + 1].frames >= 1
      /\ PlacedUpTo(N + 1) /\ FadedUpTo(n) /\ total = EndOf(spans[N]) /\ segments = <<>>
  <2>1. PlacedUpTo(N + 1) /\ FadedUpTo(n) /\ total = EndOf(spans[N]) /\ segments = <<>>
    BY <1>1 DEF FadeInv, FadePair
  <2>2. n \in Scenes /\ n + 1 \in Scenes /\ n < N + 1 /\ n + 1 < N + 1
    BY <1>0, <1>1
  <2> QED  BY <2>1, <2>2 DEF PlacedUpTo, TypeInv
<1>4. /\ tail \in Nat /\ head \in Nat
      /\ tail <= Lendable(spans[n].frames) /\ head <= Lendable(spans[n + 1].frames)
      /\ head - tail \in 0..(crossfade % 2)
      /\ tail = 0 <=> head = 0
  <2>1. lent = <<lent[1], lent[2]>>
    BY DEF Lent
  <2>2. <<tail, head>> = Lent(Smaller(Lendable(spans[n].frames), Lendable(spans[n + 1].frames)))
    BY <1>2, <2>1 DEF Room
  <2>3. crossfade \in Nat /\ spans[n].frames \in Nat /\ spans[n + 1].frames \in Nat
    BY <1>3 DEF TypeInv, Span
  <2> QED  BY <1>3, <2>2, <2>3, LentIsFair
<1>5. spans' = [spans EXCEPT ![n].tail = tail, ![n + 1].head = head]
  BY <1>1, <1>2 DEF FadePair
<1>6. /\ spans' \in [Scenes -> Span]
      /\ spans'[n] = [spans[n] EXCEPT !.tail = tail]
      /\ spans'[n + 1] = [spans[n + 1] EXCEPT !.head = head]
      /\ \A i \in Scenes : i \notin {n, n + 1} => spans'[i] = spans[i]
  <2> DEFINE A == [spans[n] EXCEPT !.tail = tail]
             B == [spans[n + 1] EXCEPT !.head = head]
  <2>1. n \in Scenes /\ n + 1 \in Scenes /\ n # n + 1
    BY <1>0, <1>1
  <2>2. A \in Span /\ B \in Span
    BY <1>3, <1>4 DEF Span
  <2>3. spans' = [spans EXCEPT ![n] = A, ![n + 1] = B]
    BY <1>5, <2>1
  <2> HIDE DEF A, B
  <2>4. /\ spans' \in [Scenes -> Span] /\ spans'[n] = A /\ spans'[n + 1] = B
        /\ \A i \in Scenes : i \notin {n, n + 1} => spans'[i] = spans[i]
    BY <2>1, <2>2, <2>3 DEF TypeInv
  <2> QED  BY <2>4 DEF A, B
<1>7. \A i \in Scenes : /\ spans'[i].start = spans[i].start /\ spans'[i].frames = spans[i].frames
                        /\ i # n => spans'[i].tail = spans[i].tail
                        /\ i # n + 1 => spans'[i].head = spans[i].head
  <2>1. TAKE i \in Scenes
  <2>2. CASE i \notin {n, n + 1}
    BY <1>6, <2>2
  <2>3. CASE i = n
    BY <1>0, <1>1, <1>3, <1>6, <2>3 DEF Span
  <2>4. CASE i = n + 1
    BY <1>0, <1>1, <1>3, <1>6, <2>4 DEF Span
  <2> QED  BY <2>2, <2>3, <2>4
<1>8. spans'[n].tail = tail /\ spans'[n + 1].head = head
  BY <1>3, <1>6 DEF Span
<1> QED  BY <1>0, <1>1, <1>2, <1>3, <1>4, <1>6, <1>7, <1>8

LEMMA FadeKeeps == ASSUME Inv, FadePair PROVE Inv'
<1> USE DEF Inv
<1>0. N \in Nat /\ at \in 1..(N - 1) /\ N' = N /\ Scenes' = Scenes /\ Scenes = 1..N
  BY DEF TypeInv, FadeInv, FadePair, Scenes, N
<1>1. PICK n : n = at
  OBVIOUS
<1>3. PlacedUpTo(N + 1) /\ FadedUpTo(n) /\ total = EndOf(spans[N]) /\ segments = <<>>
  BY <1>1, FadeEffect
<1>4. /\ spans'[n].tail <= Lendable(spans[n].frames) /\ spans'[n + 1].head <= Lendable(spans[n + 1].frames)
      /\ spans'[n + 1].head - spans'[n].tail \in 0..(crossfade % 2)
      /\ spans'[n].tail = 0 <=> spans'[n + 1].head = 0
  BY <1>1, FadeEffect
<1>6. spans' \in [Scenes -> Span]
  BY <1>1, FadeEffect
<1>7. \A i \in Scenes : /\ spans'[i].start = spans[i].start /\ spans'[i].frames = spans[i].frames
                        /\ i # n => spans'[i].tail = spans[i].tail
                        /\ i # n + 1 => spans'[i].head = spans[i].head
  BY <1>1, FadeEffect
<1>8. UNCHANGED <<clips, crossfade, total, segments>>
  BY DEF FadePair
<1>9. PlacedUpTo(N + 1)' /\ total' = EndOf(spans'[N])
  <2>1. \A i \in Scenes : EndOf(spans'[i]) = EndOf(spans[i])
    BY <1>7 DEF EndOf
  <2>2. \A i \in Scenes : i # 1 => i - 1 \in Scenes
    BY <1>0
  <2>3. N \in Scenes
    BY <1>0
  <2> QED  BY <1>0, <1>3, <1>7, <1>8, <2>1, <2>2, <2>3 DEF PlacedUpTo
<1>10. FadedUpTo(n + 1)'
  <2>1. spans'[1].head = 0 /\ spans'[N].tail = 0
    BY <1>0, <1>1, <1>3, <1>7 DEF FadedUpTo
  <2>2. ASSUME NEW i \in 1..(N - 1)
        PROVE  IF i < n + 1 THEN FairLoan(i)' ELSE spans'[i].tail = 0 /\ spans'[i + 1].head = 0
    <3>0. i \in Scenes /\ i + 1 \in Scenes /\ n \in Nat
      BY <1>0, <1>1
    <3>1. CASE i = n
      <4>2. spans'[n].frames = spans[n].frames /\ spans'[n + 1].frames = spans[n + 1].frames
        BY <1>7, <3>0, <3>1
      <4>3. FairLoan(n)'
        BY <1>4, <1>8, <4>2 DEF FairLoan
      <4> QED  BY <3>0, <3>1, <4>3
    <3>2. CASE i < n
      <4>1. FairLoan(i)
        BY <1>3, <3>0, <3>2 DEF FadedUpTo
      <4> QED  BY <1>7, <1>8, <3>0, <3>2, <4>1 DEF FairLoan
    <3>3. CASE i > n
      BY <1>3, <1>7, <3>0, <3>3 DEF FadedUpTo
    <3> QED  BY <3>0, <3>1, <3>2, <3>3
  <2> QED  BY <1>0, <2>1, <2>2 DEF FadedUpTo
<1>11. WellCut(segments)'
  BY <1>3, <1>8 DEF WellCut
<1>12. CASE at < N - 1
  <2>1. at' = n + 1 /\ planning' = "fade"
    BY <1>0, <1>1, <1>12 DEF FadePair, Advance, N
  <2>2. TypeInv' /\ PlaceInv' /\ CutInv' /\ PlannedInv'
    <3>1. n + 1 \in Nat
      BY <1>0, <1>1
    <3> QED  BY <1>0, <1>6, <1>8, <2>1, <3>1 DEF TypeInv, PlaceInv, CutInv, PlannedInv
  <2>3. FadeInv'
    BY <1>0, <1>1, <1>3, <1>8, <1>9, <1>10, <1>12, <2>1 DEF FadeInv
  <2> QED  BY <1>11, <2>2, <2>3
<1>13. CASE at = N - 1
  <2>1. at' = 1 /\ planning' = "cut" /\ n + 1 = N
    BY <1>0, <1>1, <1>13 DEF FadePair, Advance, N
  <2>2. TypeInv' /\ PlaceInv' /\ FadeInv' /\ PlannedInv'
    BY <1>0, <1>1, <1>6, <1>8, <2>1 DEF TypeInv, PlaceInv, FadeInv, PlannedInv, FadePair
  <2>3. CutInv'
    BY <1>0, <1>1, <1>3, <1>8, <1>9, <1>10, <2>1 DEF CutInv
  <2> QED  BY <1>11, <2>2, <2>3
<1> QED  BY <1>0, <1>12, <1>13

LEMMA AppendWellCut ==
    ASSUME NEW q \in Seq(Segment), NEW e \in Segment, WellCut(q), e.frames >= 1,
           q = <<>> => e.start = 0, q # <<>> => Joined(q[Len(q)], e)
    PROVE  /\ Append(q, e) \in Seq(Segment) /\ WellCut(Append(q, e))
           /\ Append(q, e) # <<>> /\ Append(q, e)[Len(Append(q, e))] = e
<1> DEFINE p == Append(q, e)
<1>1. /\ p \in Seq(Segment) /\ Len(q) \in Nat /\ Len(p) = Len(q) + 1 /\ p[Len(q) + 1] = e
      /\ \A k \in 1..Len(q) : p[k] = q[k]
  OBVIOUS
<1>2. q # <<>> <=> Len(q) >= 1
  OBVIOUS
<1> HIDE DEF p
<1>3. ASSUME NEW k \in 1..Len(p)
      PROVE  p[k].frames >= 1 /\ (k = 1 => p[k].start = 0) /\ (k > 1 => Joined(p[k - 1], p[k]))
  <2>1. CASE k = Len(p)
    <3>1. k > 1 => k - 1 = Len(q) /\ k - 1 \in 1..Len(q) /\ q # <<>>
      BY <1>1, <1>2, <2>1
    <3>2. k = 1 => q = <<>>
      BY <1>1, <1>2, <2>1
    <3> QED  BY <1>1, <2>1, <3>1, <3>2
  <2>2. CASE k < Len(p)
    <3>1. k \in 1..Len(q) /\ (k > 1 => k - 1 \in 1..Len(q))
      BY <1>1, <2>2
    <3> QED  BY <1>1, <3>1 DEF WellCut
  <2> QED  BY <1>1, <2>1, <2>2
<1>4. WellCut(p) /\ p # <<>>
  BY <1>1, <1>3 DEF WellCut
<1> QED  BY <1>1, <1>4 DEF p

LEMMA CutKeeps == ASSUME Inv, CutScene PROVE Inv'
<1> USE DEF Inv
<1>0. N \in Nat /\ at \in 1..N /\ N' = N /\ Scenes' = Scenes /\ Scenes = 1..N
  BY DEF TypeInv, CutInv, CutScene, Scenes, N
<1>1. PICK n : n = at
  OBVIOUS
<1> DEFINE s == spans[n]
           next == spans[n + 1]
           picture == Append(segments, BodyOf(n))
<1>2. /\ PlacedUpTo(N + 1) /\ FadedUpTo(N) /\ total = EndOf(spans[N])
      /\ IF n = 1 THEN segments = <<>>
         ELSE segments # <<>> /\ segments[Len(segments)] = LastCut(n)
  BY <1>1 DEF CutInv, CutScene
<1>3. s \in Span /\ s.head + s.tail < s.frames /\ s.tail <= s.frames
  <2>1. n \in Scenes /\ N >= 1 /\ TypeInv
    BY <1>0, <1>1
  <2>2. s \in Span
    BY <2>1 DEF TypeInv
  <2>3. s.head + s.tail < s.frames
    BY <1>2, <2>1, LoansLeaveABody
  <2> QED  BY <2>2, <2>3 DEF Span
<1>4. BodyOf(n) \in Segment /\ BodyOf(n).frames >= 1
  BY <1>0, <1>1, <1>3 DEF BodyOf, Segment, Span
<1>5. segments = <<>> => BodyOf(n).start = 0
  <2>1. n = 1 => s.start = 0 /\ s.head = 0
    BY <1>0, <1>1, <1>2 DEF PlacedUpTo, FadedUpTo
  <2> QED  BY <1>2, <2>1 DEF BodyOf
<1>6. segments # <<>> => Joined(segments[Len(segments)], BodyOf(n))
  <2>1. SUFFICES ASSUME n # 1 PROVE Joined(LastCut(n), BodyOf(n))
    BY <1>2
  <2> DEFINE m == n - 1
             r == spans[m]
  <2>2. m \in 1..(N - 1) /\ m < N /\ m + 1 = n /\ m \in Scenes /\ n < N + 1
    BY <1>0, <1>1, <2>1
  <2>3. FairLoan(m) /\ s.start = EndOf(r) /\ r \in Span
    BY <1>0, <1>1, <1>2, <2>1, <2>2 DEF FadedUpTo, PlacedUpTo, TypeInv
  <2>4. crossfade \in Nat /\ s.head - r.tail \in 0..(crossfade % 2) /\ (r.tail = 0 <=> s.head = 0)
    BY <2>2, <2>3 DEF FairLoan, TypeInv
  <2>5. CASE Fades(m)
    <3>1. LastCut(n) = TransitionAfter(m)
      BY <2>5 DEF LastCut
    <3>2. TransitionAfter(m) = [kind |-> "transition", scene |-> m, start |-> r.start + r.frames - r.tail,
                                frames |-> r.tail + s.head, local |-> r.frames - r.tail, nextLocal |-> -s.head]
      BY <2>2 DEF TransitionAfter
    <3> QED  BY <1>3, <2>2, <2>3, <2>4, <3>1, <3>2 DEF Joined, BodyOf, EndOf, Span
  <2>6. CASE ~Fades(m)
    <3>1. LastCut(n) = BodyOf(m)
      BY <2>6 DEF LastCut
    <3>2. r.tail = 0 /\ s.head = 0
      BY <2>2, <2>3, <2>4, <2>6 DEF Fades, N, Span
    <3> QED  BY <1>0, <1>1, <1>3, <2>2, <2>3, <3>1, <3>2 DEF Joined, BodyOf, EndOf, Span
  <2> QED  BY <2>5, <2>6
<1>7. /\ picture \in Seq(Segment) /\ WellCut(picture)
      /\ picture # <<>> /\ picture[Len(picture)] = BodyOf(n)
  BY <1>4, <1>5, <1>6, AppendWellCut DEF TypeInv
<1> DEFINE whole == IF Fades(n) THEN Append(picture, TransitionAfter(n)) ELSE picture
<1>8. /\ whole \in Seq(Segment) /\ WellCut(whole) /\ whole # <<>>
      /\ whole[Len(whole)] = IF Fades(n) THEN TransitionAfter(n) ELSE BodyOf(n)
  <2>1. CASE ~Fades(n)
    BY <1>7, <2>1
  <2>2. CASE Fades(n)
    <3>1. n + 1 \in Scenes /\ next \in Span /\ s.tail > 0
      BY <1>0, <1>1, <2>2 DEF Fades, N, TypeInv
    <3>2. TransitionAfter(n) \in Segment /\ TransitionAfter(n).frames >= 1
      <4>1. /\ s.start + s.frames - s.tail \in Nat /\ s.frames - s.tail \in Nat
            /\ s.tail + next.head \in Nat /\ s.tail + next.head >= 1
            /\ -next.head \in Int /\ n \in Nat
        <5>1. /\ s.start \in Nat /\ s.frames \in Nat /\ s.tail \in Nat /\ next.head \in Nat
              /\ n \in Nat
          BY <1>0, <1>1, <1>3, <3>1 DEF Span
        <5> HIDE DEF s, next
        <5> QED  BY <1>3, <3>1, <5>1
      <4> QED  BY <4>1 DEF TransitionAfter, Segment
    <3>3. Joined(BodyOf(n), TransitionAfter(n))
      BY <1>0, <1>1, <1>3, <3>1 DEF Joined, TransitionAfter, BodyOf, EndOf, Span
    <3> HIDE DEF picture
    <3> QED  BY <1>7, <2>2, <3>2, <3>3, AppendWellCut
  <2> QED  BY <2>1, <2>2
<1>9. segments' = whole /\ UNCHANGED <<clips, crossfade, spans, total>>
  BY <1>1 DEF CutScene
<1> HIDE DEF whole
<1>10. WellCut(segments)' /\ PlacedUpTo(N + 1)' /\ FadedUpTo(N)' /\ total' = EndOf(spans'[N])
  BY <1>0, <1>2, <1>8, <1>9 DEF WellCut, Joined, PlacedUpTo, FadedUpTo, FairLoan, Scenes, N
<1>11. CASE at < N
  <2>1. at' = n + 1 /\ planning' = "cut" /\ n + 1 \in 1..N /\ n + 1 # 1 /\ (n + 1) - 1 = n
    BY <1>0, <1>1, <1>11 DEF CutScene, Advance, N
  <2>2. segments'[Len(segments')] = LastCut(n + 1)'
    BY <1>8, <1>9, <2>1 DEF LastCut, Fades, TransitionAfter, BodyOf
  <2>3. TypeInv'
    BY <1>0, <1>8, <1>9, <2>1 DEF TypeInv
  <2>4. CutInv'
    BY <1>0, <1>8, <1>9, <1>10, <2>1, <2>2 DEF CutInv
  <2> QED  BY <1>10, <2>1, <2>3, <2>4 DEF PlaceInv, FadeInv, PlannedInv
<1>12. CASE at = N
  <2>1. at' = 1 /\ planning' = "planned" /\ n = N
    BY <1>0, <1>1, <1>12 DEF CutScene, Advance, N
  <2>2. segments'[Len(segments')] = BodyOf(N)'
    BY <1>0, <1>8, <1>9, <2>1 DEF Fades, BodyOf, N
  <2>3. TypeInv'
    BY <1>0, <1>8, <1>9, <2>1 DEF TypeInv
  <2>4. PlannedInv'
    BY <1>0, <1>8, <1>9, <1>10, <2>1, <2>2 DEF PlannedInv
  <2> QED  BY <1>10, <2>1, <2>3, <2>4 DEF PlaceInv, FadeInv, CutInv
<1> QED  BY <1>0, <1>11, <1>12

LEMMA ReplanKeeps == ASSUME Inv, NEW i \in Scenes, NEW n \in Lengths, Replan(i, n) PROVE Inv'
<1>1. clips' \in Seq(Nat) /\ Len(clips') = Len(clips) /\ Len(clips) \in Nat /\ Len(clips) >= 1
  BY TimelineAssumption DEF Replan, Inv, TypeInv, PlannedInv, Scenes, N
<1>2. NoSpan \in Span /\ NoSpan.head = 0 /\ NoSpan.tail = 0
  BY DEF NoSpan, Span
<1>3. /\ planning' = "place" /\ at' = 1 /\ total' = 0 /\ segments' = <<>>
      /\ spans' = [j \in 1..Len(clips') |-> NoSpan] /\ crossfade' = crossfade
  BY <1>1 DEF Replan, StartPlan
<1>4. TypeInv'
  BY <1>1, <1>2, <1>3 DEF TypeInv, Scenes, Inv
<1>5. PlaceInv'
  BY <1>1, <1>2, <1>3 DEF PlaceInv, PlacedUpTo, Scenes
<1> QED  BY <1>3, <1>4, <1>5 DEF Inv, FadeInv, CutInv, PlannedInv, WellCut

LEMMA InvStep == Inv /\ [TimelineNext]_timelineVars => Inv'
<1> SUFFICES ASSUME Inv, [TimelineNext]_timelineVars PROVE Inv'
  OBVIOUS
<1>1. CASE UNCHANGED timelineVars
  BY <1>1 DEF timelineVars, Inv, TypeInv, PlaceInv, FadeInv, CutInv, PlannedInv, WellCut, Joined,
              PlacedUpTo, FadedUpTo, FairLoan, LastCut, Fades, TransitionAfter, BodyOf, Scenes, N
<1> QED  BY <1>1, PlaceKeeps, FadeKeeps, CutKeeps, ReplanKeeps DEF TimelineNext

\* Inv is an invariant of the plan: the loops of PlanTimeline lay out, lend
\* and cut as described above.
THEOREM TimelineInv == TimelineSpec => []Inv
BY InvInit, InvStep, PTL DEF TimelineSpec

\* The segments of every episode tile its picture (plan.go PlanTimeline).
THEOREM PictureIsTiled == TimelineSpec => []SegmentsTile
<1>1. Inv => SegmentsTile
  <2> SUFFICES ASSUME Inv PROVE SegmentsTile
    OBVIOUS
  <2>1. ASSUME NEW k \in 1..Len(segments)
        PROVE  /\ segments[k].frames >= 1
               /\ segments[k].start = IF k = 1 THEN 0 ELSE EndOf(segments[k - 1])
    <3>1. k \in Nat /\ k >= 1
      OBVIOUS
    <3> QED  BY <3>1 DEF Inv, WellCut, Joined
  <2>2. ASSUME planning = "planned"
        PROVE  segments # <<>> /\ EndOf(segments[Len(segments)]) = total
    <3>1. /\ segments # <<>> /\ segments[Len(segments)] = BodyOf(N) /\ total = EndOf(spans[N])
          /\ spans[N].tail = 0 /\ N >= 1
      BY <2>2 DEF Inv, PlannedInv, FadedUpTo
    <3>2. N \in Scenes
      BY <3>1 DEF Inv, TypeInv, Scenes, N
    <3>3. spans[N] \in Span
      BY <3>2 DEF Inv, TypeInv
    <3> QED  BY <3>1, <3>3 DEF BodyOf, EndOf, Span
  <2> QED  BY <2>1, <2>2 DEF SegmentsTile
<1> QED  BY <1>1, TimelineInv, PTL

\* Every scene keeps a frame of its own (plan.go lendable).
THEOREM EveryBodyRemains == TimelineSpec => []BodyRemains
<1>1. Inv => BodyRemains
  <2> SUFFICES ASSUME Inv, planning \in {"cut", "planned"}, NEW i \in Scenes
               PROVE  spans[i].head + spans[i].tail < spans[i].frames
    BY DEF BodyRemains
  <2>1. TypeInv /\ N >= 1 /\ PlacedUpTo(N + 1) /\ FadedUpTo(N)
    BY DEF Inv, CutInv, PlannedInv, Scenes, N, TypeInv
  <2> QED  BY <2>1, LoansLeaveABody
<1> QED  BY <1>1, TimelineInv, PTL

\* No scene's motion runs back between a transition and a body (plan.go:112).
THEOREM MotionNeverRunsBack == TimelineSpec => []MotionRunsOn
<1>1. Inv => MotionRunsOn
  <2> SUFFICES ASSUME Inv, NEW k \in 1..(Len(segments) - 1) PROVE Joined(segments[k], segments[k + 1])
    BY DEF MotionRunsOn, Joined
  <2>1. Len(segments) \in Nat /\ k + 1 \in 1..Len(segments) /\ k + 1 > 1 /\ (k + 1) - 1 = k
    BY DEF Inv, TypeInv
  <2> QED  BY <2>1 DEF Inv, WellCut
<1> QED  BY <1>1, TimelineInv, PTL

(***************************************************************************)
(* An edit is local.  What a scene lends depends on its own length and on  *)
(* its neighbour's alone, so the keys of all other segments are those of   *)
(* the plan before the edit.                                               *)
(***************************************************************************)
TailOf(c, i) == IF i \in 1..(Len(c) - 1) THEN Lent(Smaller(Lendable(c[i]), Lendable(c[i + 1])))[1] ELSE 0
HeadOf(c, i) == IF i \in 2..Len(c) THEN Lent(Smaller(Lendable(c[i - 1]), Lendable(c[i])))[2] ELSE 0

BodyKey(c, i) ==
    [kind |-> "body", scenes |-> [j \in i..i |-> c[j]],
     local |-> <<HeadOf(c, i), 0>>, frames |-> c[i] - HeadOf(c, i) - TailOf(c, i)]
FadeKey(c, i) ==
    [kind |-> "transition", scenes |-> [j \in i..(i + 1) |-> c[j]],
     local |-> <<c[i] - TailOf(c, i), -HeadOf(c, i + 1)>>, frames |-> TailOf(c, i) + HeadOf(c, i + 1)]

LoansInv ==
    /\ planning = "fade" =>
          \A i \in 1..(N - 1) : i < at => spans[i].tail = TailOf(clips, i) /\ spans[i + 1].head = HeadOf(clips, i + 1)
    /\ planning \in {"cut", "planned"} =>
          \A i \in Scenes : spans[i].tail = TailOf(clips, i) /\ spans[i].head = HeadOf(clips, i)

\* The segments are the bodies and the transitions of the scenes before n.
CutUpTo(n) ==
    /\ \A k \in 1..Len(segments) : \E i \in Scenes :
          i < n /\ (segments[k] = BodyOf(i) \/ (Fades(i) /\ segments[k] = TransitionAfter(i)))
    /\ \A i \in Scenes : i < n =>
          /\ \E k \in 1..Len(segments) : segments[k] = BodyOf(i)
          /\ Fades(i) => \E k \in 1..Len(segments) : segments[k] = TransitionAfter(i)

SegmentsInv ==
    /\ planning = "cut" => CutUpTo(at)
    /\ planning = "planned" => CutUpTo(N + 1)

CachedInv ==
    /\ edited \in 0..N
    /\ edited # 0 => \A i \in Scenes :
          /\ i \notin (edited - 1)..(edited + 1) => BodyKey(clips, i) \in cached
          /\ i < N /\ i \notin {edited - 1, edited} /\ TailOf(clips, i) > 0 => FadeKey(clips, i) \in cached

LocalInv == LoansInv /\ SegmentsInv /\ CachedInv

\* The key of a planned segment follows from the lengths around it.
LEMMA KeysOfScene ==
    ASSUME Inv, LoansInv, planning \in {"cut", "planned"}, NEW i \in Scenes
    PROVE  /\ SegmentHash(BodyOf(i)) = BodyKey(clips, i)
           /\ i < N => SegmentHash(TransitionAfter(i)) = FadeKey(clips, i)
<1>1. N \in Nat /\ i \in 1..N /\ i < N + 1 /\ PlacedUpTo(N + 1)
  BY DEF Inv, TypeInv, CutInv, PlannedInv, Scenes, N
<1>2. spans[i].frames = clips[i] /\ spans[i].head = HeadOf(clips, i) /\ spans[i].tail = TailOf(clips, i)
  BY <1>1 DEF PlacedUpTo, LoansInv
<1>3. i < N => spans[i + 1].head = HeadOf(clips, i + 1)
  BY <1>1 DEF LoansInv, Scenes, N
<1> QED  BY <1>1, <1>2, <1>3 DEF SegmentHash, BodyOf, TransitionAfter, BodyKey, FadeKey

\* A transition is cut exactly where frames are lent.
LEMMA FadesIffLent ==
    ASSUME Inv, LoansInv, planning \in {"cut", "planned"}, NEW i \in Scenes
    PROVE  Fades(i) <=> i < N /\ TailOf(clips, i) > 0
BY DEF LoansInv, Fades, N

\* The keys in the cache stay good while the lengths and the crossfade do.
LEMMA CachedStays ==
    ASSUME CachedInv, UNCHANGED <<clips, crossfade, edited, cached>>
    PROVE  CachedInv'
<1>1. \A r : Lent(r)' = Lent(r)
  BY DEF Lent
<1>2. \A i : TailOf(clips, i)' = TailOf(clips, i) /\ HeadOf(clips, i)' = HeadOf(clips, i)
  BY <1>1 DEF TailOf, HeadOf
<1>3. \A i : BodyKey(clips, i)' = BodyKey(clips, i) /\ FadeKey(clips, i)' = FadeKey(clips, i)
  BY <1>2 DEF BodyKey, FadeKey
<1> QED  BY <1>2, <1>3 DEF CachedInv, N, Scenes

LEMMA LocalInit == TimelineInit => LocalInv
<1> SUFFICES ASSUME TimelineInit PROVE LocalInv
  OBVIOUS
<1>1. N \in Nat
  BY TimelineAssumption DEF TimelineInit, N
<1> QED  BY <1>1 DEF TimelineInit, LocalInv, LoansInv, SegmentsInv, CachedInv

LEMMA PlaceIsLocal == ASSUME Inv, LocalInv, PlaceScene PROVE LocalInv'
<1>0. /\ N \in Nat /\ at \in 1..N /\ N' = N /\ Scenes' = Scenes /\ Scenes = 1..N
      /\ UNCHANGED <<clips, crossfade, edited, cached, segments>> /\ segments = <<>>
  BY DEF Inv, TypeInv, PlaceInv, PlaceScene, Scenes, N
<1>1. CachedInv'
  BY <1>0, CachedStays DEF LocalInv
<1>2. planning' \in {"refused", "place"} \/ (at' = 1 /\ planning' = "fade" /\ N # 1) \/ (at' = 1 /\ planning' = "cut" /\ N = 1)
  BY DEF PlaceScene, Advance, N
<1>3. LoansInv'
  <2>1. CASE planning' \in {"refused", "place"}
    BY <2>1 DEF LoansInv
  <2>2. CASE at' = 1 /\ planning' = "fade"
    BY <1>0, <2>2 DEF LoansInv
  <2>3. CASE at' = 1 /\ planning' = "cut" /\ N = 1
    <3>1. spans'[1].head = 0 /\ spans'[1].tail = 0
      BY <1>0, <2>3, PlaceKeeps DEF Inv, CutInv, FadedUpTo
    <3>2. Len(clips') = 1
      BY <1>0, <2>3 DEF N
    <3> QED  BY <1>0, <2>3, <3>1, <3>2 DEF LoansInv, TailOf, HeadOf
  <2> QED  BY <1>2, <2>1, <2>2, <2>3
<1>4. SegmentsInv'
  BY <1>0, <1>2 DEF SegmentsInv, CutUpTo
<1> QED  BY <1>1, <1>3, <1>4 DEF LocalInv

LEMMA FadeIsLocal == ASSUME Inv, LocalInv, FadePair PROVE LocalInv'
<1>0. /\ N \in Nat /\ at \in 1..(N - 1) /\ N' = N /\ Scenes' = Scenes /\ Scenes = 1..N
      /\ UNCHANGED <<clips, crossfade, edited, cached, segments>> /\ planning = "fade"
  BY DEF Inv, TypeInv, FadeInv, FadePair, Scenes, N
<1>1. CachedInv'
  BY <1>0, CachedStays DEF LocalInv
<1>2. PICK n : n = at
  OBVIOUS
<1>3. n + 1 \in 2..N /\ n \in Scenes /\ n + 1 \in Scenes /\ n < N + 1 /\ n + 1 < N + 1 /\ (n + 1) - 1 = n
  BY <1>0, <1>2
<1>4. Room(n) = Smaller(Lendable(clips[n]), Lendable(clips[n + 1]))
  <2>1. PlacedUpTo(N + 1)
    BY <1>2, FadeEffect
  <2> QED  BY <1>3, <2>1 DEF PlacedUpTo, Room
<1>5. spans'[n].tail = TailOf(clips, n) /\ spans'[n + 1].head = HeadOf(clips, n + 1)
  <2>1. spans'[n].tail = Lent(Room(n))[1] /\ spans'[n + 1].head = Lent(Room(n))[2]
    BY <1>2, FadeEffect
  <2>2. n \in 1..(Len(clips) - 1) /\ n + 1 \in 2..Len(clips)
    BY <1>0, <1>2, <1>3 DEF N
  <2> QED  BY <1>3, <1>4, <2>1, <2>2 DEF TailOf, HeadOf
<1>6. \A i \in 1..(N - 1) : i < n + 1 => spans'[i].tail = TailOf(clips, i) /\ spans'[i + 1].head = HeadOf(clips, i + 1)
  <2>1. TAKE i \in 1..(N - 1)
  <2>2. HAVE i < n + 1
  <2>3. CASE i = n
    BY <1>5, <2>3
  <2>4. CASE i < n
    <3>1. i \in Scenes /\ i + 1 \in Scenes /\ i # n /\ i + 1 # n + 1
      BY <1>0, <1>2, <2>4
    <3>2. spans'[i].tail = spans[i].tail /\ spans'[i + 1].head = spans[i + 1].head
      BY <1>2, <3>1, FadeEffect
    <3>3. spans[i].tail = TailOf(clips, i) /\ spans[i + 1].head = HeadOf(clips, i + 1)
      BY <1>0, <1>2, <2>4 DEF LocalInv, LoansInv
    <3> QED  BY <3>2, <3>3
  <2> QED  BY <1>0, <1>2, <2>2, <2>3, <2>4
<1>8. CASE at < N - 1
  <2>1. at' = n + 1 /\ planning' = "fade"
    BY <1>0, <1>2, <1>8 DEF FadePair, Advance, N
  <2>2. LoansInv'
    BY <1>0, <1>6, <2>1 DEF LoansInv, TailOf, HeadOf, Lent
  <2> QED  BY <1>1, <2>1, <2>2 DEF LocalInv, SegmentsInv
<1>9. CASE at = N - 1
  <2>1. at' = 1 /\ planning' = "cut" /\ n + 1 = N
    BY <1>0, <1>2, <1>9 DEF FadePair, Advance, N
  <2>2. spans'[1].head = 0 /\ spans'[N].tail = 0 /\ segments = <<>>
    <3>1. FadedUpTo(N)'
      BY <2>1, FadeKeeps DEF Inv, CutInv
    <3> QED  BY <1>0, <1>2, <3>1, FadeEffect DEF FadedUpTo
  <2>3. \A i \in Scenes : spans'[i].tail = TailOf(clips, i) /\ spans'[i].head = HeadOf(clips, i)
    <3>1. TAKE i \in Scenes
    <3>2. spans'[i].tail = TailOf(clips, i)
      <4>1. CASE i = N
        BY <1>0, <2>2, <4>1 DEF TailOf, N
      <4>2. CASE i # N
        BY <1>0, <1>6, <2>1, <4>2
      <4> QED  BY <4>1, <4>2
    <3>3. spans'[i].head = HeadOf(clips, i)
      <4>1. CASE i = 1
        BY <2>2, <4>1 DEF HeadOf
      <4>2. CASE i # 1
        <5>1. i - 1 \in 1..(N - 1) /\ i - 1 < n + 1 /\ (i - 1) + 1 = i
          BY <1>0, <2>1, <4>2
        <5> QED  BY <1>6, <5>1
      <4> QED  BY <4>1, <4>2
    <3> QED  BY <3>2, <3>3
  <2>4. LoansInv'
    BY <1>0, <2>1, <2>3 DEF LoansInv, TailOf, HeadOf, Lent
  <2>5. SegmentsInv'
    BY <1>0, <2>1, <2>2 DEF SegmentsInv, CutUpTo
  <2> QED  BY <1>1, <2>4, <2>5 DEF LocalInv
<1> QED  BY <1>0, <1>8, <1>9

LEMMA CutIsLocal == ASSUME Inv, LocalInv, CutScene PROVE LocalInv'
<1>0. /\ N \in Nat /\ at \in 1..N /\ N' = N /\ Scenes' = Scenes /\ Scenes = 1..N
      /\ UNCHANGED <<clips, crossfade, spans, edited, cached>> /\ planning = "cut"
      /\ segments \in Seq(Segment)
  BY DEF Inv, TypeInv, CutInv, CutScene, Scenes, N
<1>1. CachedInv'
  BY <1>0, CachedStays DEF LocalInv
<1>2. PICK n : n = at
  OBVIOUS
<1>3. /\ \A i : BodyOf(i)' = BodyOf(i) /\ TransitionAfter(i)' = TransitionAfter(i) /\ (Fades(i)' <=> Fades(i))
      /\ n \in Scenes
  BY <1>0, <1>2 DEF BodyOf, TransitionAfter, Fades
<1> DEFINE old == Len(segments)
           new == Len(segments')
           body == BodyOf(n)
           fade == TransitionAfter(n)
<1>4. /\ old \in Nat /\ \A k \in 1..old : segments'[k] = segments[k]
      /\ new = IF Fades(n) THEN old + 2 ELSE old + 1
      /\ segments'[old + 1] = body /\ (Fades(n) => segments'[old + 2] = fade)
  <2>1. old \in Nat
    BY <1>0
  <2> HIDE DEF body, fade
  <2>2. segments' = IF Fades(n) THEN Append(Append(segments, body), fade) ELSE Append(segments, body)
    BY <1>2 DEF CutScene, body, fade
  <2> QED  BY <1>0, <2>1, <2>2
<1> HIDE DEF old, new, body, fade
<1>5. CutUpTo(n + 1)'
  <2>1. CutUpTo(n)
    BY <1>0, <1>2 DEF LocalInv, SegmentsInv
  <2>2. ASSUME NEW k \in 1..new
        PROVE  \E i \in Scenes : i < n + 1 /\ (segments'[k] = BodyOf(i) \/ (Fades(i) /\ segments'[k] = TransitionAfter(i)))
    <3>1. CASE k \in 1..old
      <4>1. PICK i \in Scenes : i < n /\ (segments[k] = BodyOf(i) \/ (Fades(i) /\ segments[k] = TransitionAfter(i)))
        BY <2>1, <3>1 DEF CutUpTo, old
      <4> QED  BY <1>0, <1>2, <1>4, <3>1, <4>1
    <3>2. CASE k = old + 1
      BY <1>0, <1>2, <1>3, <1>4, <3>2 DEF body
    <3>3. CASE k = old + 2 /\ Fades(n)
      BY <1>0, <1>2, <1>3, <1>4, <3>3 DEF fade
    <3> QED  BY <1>4, <3>1, <3>2, <3>3
  <2>3. ASSUME NEW i \in Scenes, i < n + 1
        PROVE  /\ \E k \in 1..new : segments'[k] = BodyOf(i)
               /\ Fades(i) => \E k \in 1..new : segments'[k] = TransitionAfter(i)
    <3>1. \A k \in 1..old : k \in 1..new
      BY <1>4
    <3>2. CASE i < n
      <4>1. /\ \E k \in 1..old : segments[k] = BodyOf(i)
            /\ Fades(i) => \E k \in 1..old : segments[k] = TransitionAfter(i)
        BY <2>1, <3>2 DEF CutUpTo, old
      <4> QED  BY <1>4, <3>1, <4>1
    <3>3. CASE i = n
      <4>1. old + 1 \in 1..new /\ (Fades(n) => old + 2 \in 1..new)
        BY <1>4
      <4> QED  BY <1>4, <3>3, <4>1 DEF body, fade
    <3> QED  BY <1>0, <1>2, <2>3, <3>2, <3>3
  <2>4. \A i \in Scenes : /\ BodyOf(i)' = BodyOf(i) /\ TransitionAfter(i)' = TransitionAfter(i)
                          /\ Fades(i)' <=> Fades(i)
    BY <1>3
  <2> QED  BY <1>0, <2>2, <2>3, <2>4 DEF CutUpTo, new
<1>6. LoansInv' \/ planning' \notin {"cut", "planned"}
  BY <1>0 DEF LocalInv, LoansInv, TailOf, HeadOf, Lent
<1>7. planning' \in {"cut", "planned"} /\ (planning' = "cut" => at' = n + 1) /\ (planning' = "planned" => n = N)
  BY <1>0, <1>2 DEF CutScene, Advance, N
<1>8. SegmentsInv'
  BY <1>0, <1>5, <1>7 DEF SegmentsInv
<1> QED  BY <1>1, <1>6, <1>7, <1>8 DEF LocalInv

LEMMA ReplanIsLocal ==
    ASSUME Inv, LocalInv, NEW e \in Scenes, NEW n \in Lengths, Replan(e, n)
    PROVE  LocalInv'
<1>0. /\ N \in Nat /\ e \in 1..N /\ Scenes = 1..N /\ planning = "planned" /\ clips \in Seq(Nat)
      /\ clips' = [clips EXCEPT ![e] = n] /\ edited' = e /\ planning' \in {"place", "refused"}
      /\ cached' = {SegmentHash(segments[k]) : k \in 1..Len(segments)} /\ crossfade' = crossfade
  BY DEF Replan, StartPlan, Inv, TypeInv, Scenes, N
<1>1. Len(clips') = Len(clips) /\ N' = N /\ Scenes' = Scenes /\ \A j \in 1..N : j # e => clips'[j] = clips[j]
  BY <1>0 DEF N, Scenes
<1>2. \A r : Lent(r)' = Lent(r)
  BY <1>0 DEF Lent
<1>3. ASSUME NEW i \in 1..N, i # e, i + 1 # e
      PROVE  TailOf(clips, i)' = TailOf(clips, i)
  <2>1. CASE i \in 1..(Len(clips) - 1)
    <3>1. clips'[i] = clips[i] /\ clips'[i + 1] = clips[i + 1]
      BY <1>0, <1>1, <1>3, <2>1 DEF N
    <3> QED  BY <1>1, <1>2, <3>1 DEF TailOf
  <2>2. CASE i \notin 1..(Len(clips) - 1)
    BY <1>1, <2>2 DEF TailOf
  <2> QED  BY <2>1, <2>2
<1>4. ASSUME NEW i \in 1..N, i # e, i - 1 # e
      PROVE  HeadOf(clips, i)' = HeadOf(clips, i)
  <2>1. CASE i \in 2..Len(clips)
    <3>1. clips'[i] = clips[i] /\ clips'[i - 1] = clips[i - 1]
      BY <1>0, <1>1, <1>4, <2>1 DEF N
    <3> QED  BY <1>1, <1>2, <3>1 DEF HeadOf
  <2>2. CASE i \notin 2..Len(clips)
    BY <1>1, <2>2 DEF HeadOf
  <2> QED  BY <2>1, <2>2
<1>5. \A i \in Scenes : /\ \E k \in 1..Len(segments) : segments[k] = BodyOf(i)
                        /\ Fades(i) => \E k \in 1..Len(segments) : segments[k] = TransitionAfter(i)
  BY <1>0 DEF LocalInv, SegmentsInv, CutUpTo
<1>6. ASSUME NEW i \in Scenes, i \notin (e - 1)..(e + 1)
      PROVE  BodyKey(clips, i)' \in cached'
  <2>1. i \in 1..N /\ i # e /\ i + 1 # e /\ i - 1 # e
    BY <1>0, <1>6
  <2>2. BodyKey(clips, i)' = BodyKey(clips, i)
    BY <1>1, <1>3, <1>4, <2>1 DEF BodyKey
  <2>3. SegmentHash(BodyOf(i)) = BodyKey(clips, i)
    BY <1>0, KeysOfScene DEF LocalInv
  <2> QED  BY <1>0, <1>5, <2>2, <2>3
<1>7. ASSUME NEW i \in Scenes, i < N, i \notin {e - 1, e}, TailOf(clips, i)' > 0
      PROVE  FadeKey(clips, i)' \in cached'
  <2>1. i \in 1..N /\ i # e /\ i + 1 # e /\ i + 1 \in 1..N /\ (i + 1) - 1 # e
    BY <1>0, <1>7
  <2>2. TailOf(clips, i)' = TailOf(clips, i) /\ HeadOf(clips, i + 1)' = HeadOf(clips, i + 1)
    BY <1>3, <1>4, <2>1
  <2>3. FadeKey(clips, i)' = FadeKey(clips, i)
    <3>1. [j \in i..(i + 1) |-> clips'[j]] = [j \in i..(i + 1) |-> clips[j]]
      BY <1>0, <1>1, <2>1
    <3> QED  BY <1>1, <2>1, <2>2, <3>1 DEF FadeKey
  <2>4. SegmentHash(TransitionAfter(i)) = FadeKey(clips, i) /\ Fades(i)
    BY <1>0, <1>7, <2>2, KeysOfScene, FadesIffLent DEF LocalInv
  <2> QED  BY <1>0, <1>5, <2>3, <2>4
<1>8. CachedInv'
  <2>1. edited' \in 0..N'
    BY <1>0, <1>1
  <2>2. ASSUME NEW i \in Scenes'
        PROVE  /\ i \notin (edited' - 1)..(edited' + 1) => BodyKey(clips, i)' \in cached'
               /\ i < N' /\ i \notin {edited' - 1, edited'} /\ TailOf(clips, i)' > 0 => FadeKey(clips, i)' \in cached'
    <3>1. i \in Scenes /\ edited' = e /\ N' = N
      BY <1>0, <1>1
    <3> QED  BY <1>6, <1>7, <3>1
  <2> QED  BY <2>1, <2>2 DEF CachedInv
<1> QED  BY <1>0, <1>8 DEF LocalInv, LoansInv, SegmentsInv

LEMMA LocalStep == Inv /\ LocalInv /\ [TimelineNext]_timelineVars => LocalInv'
<1> SUFFICES ASSUME Inv, LocalInv, [TimelineNext]_timelineVars PROVE LocalInv'
  OBVIOUS
<1>1. CASE UNCHANGED timelineVars
  <2>1. CachedInv'
    BY <1>1, CachedStays DEF LocalInv, timelineVars
  <2>2. LoansInv'
    BY <1>1 DEF timelineVars, LocalInv, LoansInv, TailOf, HeadOf, Lent, Scenes, N
  <2>3. SegmentsInv'
    BY <1>1 DEF timelineVars, LocalInv, SegmentsInv, CutUpTo, BodyOf, TransitionAfter, Fades, Scenes, N
  <2> QED  BY <2>1, <2>2, <2>3 DEF LocalInv
<1> QED  BY <1>1, PlaceIsLocal, FadeIsLocal, CutIsLocal, ReplanIsLocal DEF TimelineNext

\* After an edit of one scene's length, in an episode of any size, only the
\* segments around it are encoded again (plan.go PlanTimeline, manifest.go
\* SegmentHash).
THEOREM EditsAreLocal == TimelineSpec => []EditIsLocal
<1>1. Inv /\ LocalInv => EditIsLocal
  <2> SUFFICES ASSUME Inv, LocalInv, planning = "planned", edited # 0, NEW k \in 1..Len(segments)
               PROVE  \/ segments[k].scene \in (edited - 1)..(IF segments[k].kind = "body" THEN edited + 1 ELSE edited)
                      \/ SegmentHash(segments[k]) \in cached
    BY DEF EditIsLocal
  <2>0. N \in Nat /\ edited \in 1..N /\ Scenes = 1..N
    BY DEF Inv, TypeInv, LocalInv, CachedInv, Scenes, N
  <2>1. PICK i \in Scenes : segments[k] = BodyOf(i) \/ (Fades(i) /\ segments[k] = TransitionAfter(i))
    BY DEF LocalInv, SegmentsInv, CutUpTo
  <2>2. CASE segments[k] = BodyOf(i)
    <3>1. segments[k].scene = i /\ segments[k].kind = "body"
      BY <2>2 DEF BodyOf
    <3>2. SegmentHash(segments[k]) = BodyKey(clips, i)
      BY <2>2, KeysOfScene DEF LocalInv
    <3> QED  BY <3>1, <3>2 DEF LocalInv, CachedInv
  <2>3. CASE Fades(i) /\ segments[k] = TransitionAfter(i)
    <3>1. segments[k].scene = i /\ segments[k].kind = "transition"
      BY <2>3 DEF TransitionAfter
    <3>2. i < N /\ TailOf(clips, i) > 0
      BY <2>3, FadesIffLent DEF LocalInv
    <3>3. SegmentHash(segments[k]) = FadeKey(clips, i)
      BY <2>3, <3>2, KeysOfScene DEF LocalInv
    <3>4. i \notin {edited - 1, edited} => SegmentHash(segments[k]) \in cached
      BY <3>2, <3>3 DEF LocalInv, CachedInv
    <3> QED  BY <2>0, <3>1, <3>4
  <2> QED  BY <2>1, <2>2, <2>3
<1> QED  BY <1>1, InvInit, InvStep, LocalInit, LocalStep, PTL DEF TimelineSpec

\* A planned timeline is sound, for every episode and every crossfade, and
\* stays so when a scene is edited and it is planned again (PlanTimeline).
THEOREM PlansAreSound == TimelineSpec => []PlanSound
BY PictureIsTiled, EveryBodyRemains, MotionNeverRunsBack, EditsAreLocal, PTL DEF PlanSound

-----------------------------------------------------------------------------
(* The restarts after edits. *)


TaskPCs == {"idle", "active", "prepare", "insert", "link", "supersede", "recheck", "cancelOld", "cancelNew"}
TaskRecords == [pc : TaskPCs, began : 0..MaxEdits, old : 0..MaxRuns, new : 0..MaxRuns, content : 0..MaxEdits]
RunRecords == [status : {"none", "active", "done", "superseded", "canceled"},
               content : 0..MaxEdits, by : 0..MaxRuns, linked : BOOLEAN]
Callbacks == [edit : 1..MaxEdits, began : 0..MaxEdits]

\* The superseder of one process, over the values of its variables: the edit
\* e still to be handled, the pending one d, whether its timer is armed (a), the
\* callbacks f on their way, the wait group w, the stop s and whether no restart
\* is running (i).  Edits are numbered: what is still to be handled is later
\* than what is pending, and that is later than every callback on its way.
TimerOK(c, e, d, a, f, s) ==
    /\ e <= c /\ d <= c
    /\ a => d # 0 /\ s = "no"
    /\ e # 0 => d < e
    /\ IsFiniteSet(f)
    /\ \A b \in f : b.edit <= c /\ (a => b.edit < d) /\ (e # 0 => b.edit < e)
Balanced(a, f, w, i) == w = (IF a THEN 1 ELSE 0) + Cardinality(f) + (IF i THEN 0 ELSE 1)
StopOK(a, f, s, i) == s = "yes" => i /\ ~a /\ f = {}
OneSuperseder(c, e, d, a, f, w, s, i) == TimerOK(c, e, d, a, f, s) /\ Balanced(a, f, w, i) /\ StopOK(a, f, s, i)

SupersederAt(p) ==
    OneSuperseder(content, emitted[p], pending[p], armed[p], fired[p], wg[p], stopped[p], TaskAt(p, "idle"))

\* The types, with the records named.
DebounceTypes ==
    /\ emitted \in [EditProcs -> 0..MaxEdits] /\ pending \in [EditProcs -> 0..MaxEdits]
    /\ armed \in [EditProcs -> BOOLEAN] /\ fired \in [EditProcs -> SUBSET Callbacks]
    /\ wg \in [EditProcs -> Nat] /\ stopped \in [EditProcs -> {"no", "waiting", "yes"}]
    /\ dropped \in BOOLEAN
RunTypes ==
    /\ content \in 0..MaxEdits /\ ready \in BOOLEAN /\ runs \in 0..MaxRuns
    /\ renderRun \in [RunIds -> RunRecords] /\ task \in [Tasks -> TaskRecords]

SupersederInv == RunTypes /\ DebounceTypes /\ \A p \in EditProcs : SupersederAt(p)

USE RestartAssumption DEF RunIds

LEMMA TypesAre == RestartTypeOK <=> RunTypes /\ DebounceTypes
BY DEF RestartTypeOK, RunTypes, DebounceTypes, TaskRecords, TaskPCs, RunRecords, Callbacks

\* GetActiveRenderRun finds a row when there is one.
LEMMA NewestIs ==
    ASSUME NEW n \in Nat, NEW S \in SUBSET (1..n), S # {}
    PROVE  Newest(S) \in S
<1> DEFINE R == {ss \in Nat \X Nat : ss[1] < ss[2]}
           V == {n - r : r \in S}
<1>1. IsWellFoundedOn(R, Nat)
  BY NatLessThanWellFounded DEF OpToRel
<1>2. \A k, m \in Nat : k < m => <<k, m>> \in R
  OBVIOUS
<1>3. V \subseteq Nat /\ V # {}
  <2>1. PICK r \in S : TRUE
    OBVIOUS
  <2>2. n - r \in V
    OBVIOUS
  <2>3. \A q \in S : n - q \in Nat
    OBVIOUS
  <2> QED  BY <2>2, <2>3
<1> HIDE DEF R
<1>4. PICK m \in V : \A k \in V : <<k, m>> \notin R
  BY <1>1, <1>3, WFMin
<1>5. \A k \in V : ~(k < m)
  BY <1>2, <1>3, <1>4
<1>6. PICK r \in S : m = n - r
  OBVIOUS
<1>7. ASSUME NEW q \in S PROVE q <= r
  <2>1. n - q \in V
    OBVIOUS
  <2> QED  BY <1>5, <1>6, <2>1
<1> QED  BY <1>7 DEF Newest

LEMMA NewestActive == ASSUME RunTypes, ActiveRuns # {} PROVE Newest(ActiveRuns) \in ActiveRuns /\ ActiveRuns \subseteq RunIds
<1>1. ActiveRuns \in SUBSET (1..runs) /\ runs \in Nat /\ runs <= MaxRuns /\ MaxRuns \in Nat
  BY DEF ActiveRuns, RunTypes
<1>2. Newest(ActiveRuns) \in ActiveRuns
  BY <1>1, NewestIs
<1> QED  BY <1>1, <1>2

LEMMA NoTaskIs == NoTask \in TaskRecords /\ NoTask.pc = "idle" /\ NoTask.began = 0 /\ NoTask.content = 0
BY DEF NoTask, TaskRecords, TaskPCs

\* A step of a restart or a start goes on, or ends with wg.Done.
Goes(t, k) == k.pc # "idle" /\ UNCHANGED debounce
Ends(t, k) == k = NoTask /\ FinishTask(t)
StepOf(t, k) ==
    /\ task[t].pc # "idle"
    /\ task' = [task EXCEPT ![t] = k]
    /\ Goes(t, k) \/ Ends(t, k)
    /\ UNCHANGED <<content, ready>>

LEMMA EndsIs == ASSUME NEW t \in Tasks, FinishTask(t) PROVE Ends(t, NoTask) /\ task' = [task EXCEPT ![t] = NoTask]
BY DEF FinishTask, SetTask, Ends

LEMMA ReadActiveIs ==
    ASSUME RunTypes, NEW t \in Tasks, ReadActive(t)
    PROVE  \E k \in TaskRecords : StepOf(t, k) /\ RunTypes'
<1>1. CASE ActiveRuns = {}
  <2>1. FinishTask(t)
    BY <1>1 DEF ReadActive
  <2>2. StepOf(t, NoTask)
    BY <2>1, EndsIs DEF StepOf, ReadActive, TaskAt
  <2> QED  BY <2>2, NoTaskIs DEF RunTypes, ReadActive, StepOf
<1>2. CASE ActiveRuns # {}
  <2> DEFINE n == Newest(ActiveRuns)
             k == [task[t] EXCEPT !.pc = "prepare", !.old = n]
  <2>1. n \in 0..MaxRuns
    BY <1>2, NewestActive
  <2> HIDE DEF n
  <2>2. k \in TaskRecords /\ k.pc = "prepare"
    BY <2>1 DEF RunTypes, TaskRecords, TaskPCs
  <2>3. task' = [task EXCEPT ![t] = k] /\ UNCHANGED debounce
    BY <1>2 DEF ReadActive, SetTask, n
  <2> HIDE DEF k
  <2>4. StepOf(t, k)
    BY <2>2, <2>3 DEF StepOf, Goes, ReadActive, TaskAt
  <2> QED  BY <2>2, <2>4 DEF RunTypes, ReadActive, StepOf
<1> QED  BY <1>1, <1>2

LEMMA PrepareIs ==
    ASSUME RunTypes, NEW t \in Tasks, PrepareFreeze(t)
    PROVE  \E k \in TaskRecords : StepOf(t, k) /\ RunTypes'
<1>1. CASE ready
  <2> DEFINE k == [task[t] EXCEPT !.pc = "insert", !.content = content]
  <2>1. k \in TaskRecords /\ k.pc = "insert"
    BY DEF RunTypes, TaskRecords, TaskPCs
  <2>2. task' = [task EXCEPT ![t] = k] /\ UNCHANGED debounce
    BY <1>1 DEF PrepareFreeze, SetTask
  <2> HIDE DEF k
  <2>3. StepOf(t, k)
    BY <2>1, <2>2 DEF StepOf, Goes, PrepareFreeze, TaskAt
  <2> QED  BY <2>1, <2>3 DEF RunTypes, PrepareFreeze, StepOf
<1>2. CASE ~ready /\ t \in EditProcs
  <2> DEFINE k == [task[t] EXCEPT !.pc = "cancelOld"]
  <2>1. k \in TaskRecords /\ k.pc = "cancelOld"
    BY DEF RunTypes, TaskRecords, TaskPCs
  <2>2. task' = [task EXCEPT ![t] = k] /\ UNCHANGED debounce
    BY <1>2 DEF PrepareFreeze, SetTask, TaskTo
  <2> HIDE DEF k
  <2>3. StepOf(t, k)
    BY <2>1, <2>2 DEF StepOf, Goes, PrepareFreeze, TaskAt
  <2> QED  BY <2>1, <2>3 DEF RunTypes, PrepareFreeze, StepOf
<1>3. CASE ~ready /\ t \notin EditProcs
  <2>1. FinishTask(t)
    BY <1>3 DEF PrepareFreeze
  <2>2. StepOf(t, NoTask)
    BY <2>1, EndsIs DEF StepOf, PrepareFreeze, TaskAt
  <2> QED  BY <2>2, NoTaskIs DEF RunTypes, PrepareFreeze, StepOf
<1> QED  BY <1>1, <1>2, <1>3

LEMMA NewRunIs ==
    ASSUME NEW c \in 0..MaxEdits
    PROVE  LET v == [NoRenderRun EXCEPT !.status = "active", !.content = c]
           IN  v \in RunRecords /\ v.status = "active" /\ v.content = c /\ v.by = 0 /\ ~v.linked
<1> DEFINE w == NoRenderRun
           x == [w EXCEPT !.status = "active"]
           v == [x EXCEPT !.content = c]
<1>1. w \in RunRecords /\ w.by = 0 /\ ~w.linked
  BY DEF NoRenderRun, RunRecords
<1> HIDE DEF w
<1>2. x \in RunRecords /\ x.status = "active" /\ x.by = 0 /\ ~x.linked
  BY <1>1 DEF RunRecords
<1> HIDE DEF x
<1>3. v \in RunRecords /\ v.status = "active" /\ v.content = c /\ v.by = 0 /\ ~v.linked
  BY <1>2 DEF RunRecords
<1> QED  BY <1>3 DEF w, x

LEMMA EnqueueIs ==
    ASSUME RunTypes, NEW t \in Tasks, EnqueueRun(t)
    PROVE  \E k \in TaskRecords : StepOf(t, k) /\ RunTypes'
<1> DEFINE n == runs + 1
           c == task[t].content
           k == [task[t] EXCEPT !.pc = "link", !.new = n]
           v == [NoRenderRun EXCEPT !.status = "active", !.content = c]
<1>1. n \in 1..MaxRuns /\ n \in 0..MaxRuns /\ 0 \in 0..MaxRuns /\ c \in 0..MaxEdits /\ task[t] \in TaskRecords
  BY DEF EnqueueRun, RunTypes, TaskRecords
<1>2. task' = [task EXCEPT ![t] = k] /\ UNCHANGED debounce /\ renderRun' = [renderRun EXCEPT ![n] = v] /\ runs' = n
  BY DEF EnqueueRun, SetTask
<1> HIDE DEF n, c
<1>3. k \in TaskRecords /\ k.pc = "link"
  BY <1>1 DEF TaskRecords, TaskPCs
<1>4. v \in RunRecords
  BY <1>1, NewRunIs
<1> HIDE DEF k, v
<1>5. StepOf(t, k)
  BY <1>2, <1>3 DEF StepOf, Goes, EnqueueRun, TaskAt
<1>6. task' \in [Tasks -> TaskRecords]
  BY <1>2, <1>3 DEF RunTypes
<1>7. renderRun' \in [RunIds -> RunRecords]
  BY <1>1, <1>2, <1>4 DEF RunTypes
<1>8. runs' \in 0..MaxRuns /\ content' = content /\ ready' = ready
  BY <1>1, <1>2 DEF EnqueueRun
<1> QED  BY <1>3, <1>5, <1>6, <1>7, <1>8 DEF RunTypes

LEMMA RunFields ==
    ASSUME NEW f \in [RunIds -> RunRecords], NEW r, NEW s \in {"none", "active", "done", "superseded", "canceled"},
           NEW n \in 0..MaxRuns
    PROVE  /\ [f EXCEPT ![r].status = s] \in [RunIds -> RunRecords]
           /\ [f EXCEPT ![r].linked = TRUE] \in [RunIds -> RunRecords]
           /\ [f EXCEPT ![r].status = s, ![r].by = n] \in [RunIds -> RunRecords]
<1> DEFINE g == [f EXCEPT ![r].status = s]
<1>1. g \in [RunIds -> RunRecords] /\ [f EXCEPT ![r].linked = TRUE] \in [RunIds -> RunRecords]
  BY DEF RunRecords
<1> HIDE DEF g
<1>2. [g EXCEPT ![r].by = n] \in [RunIds -> RunRecords]
  BY <1>1 DEF RunRecords
<1> QED  BY <1>1, <1>2 DEF g

LEMMA PcOnly ==
    ASSUME NEW k \in TaskRecords, NEW pc \in TaskPCs
    PROVE  [k EXCEPT !.pc = pc] \in TaskRecords /\ [k EXCEPT !.pc = pc].pc = pc
BY DEF TaskRecords

LEMMA LinkIs ==
    ASSUME RunTypes, NEW t \in Tasks, SetManifestRun(t)
    PROVE  \E k \in TaskRecords : StepOf(t, k) /\ RunTypes'
<1>1. renderRun' \in [RunIds -> RunRecords]
  BY RunFields DEF SetManifestRun, RunTypes
<1>2. CASE t \in EditProcs
  <2> DEFINE k == [task[t] EXCEPT !.pc = "supersede"]
  <2>1. k \in TaskRecords /\ k.pc = "supersede"
    BY PcOnly DEF RunTypes, TaskPCs
  <2>2. task' = [task EXCEPT ![t] = k] /\ UNCHANGED debounce
    BY <1>2 DEF SetManifestRun, SetTask, TaskTo
  <2> HIDE DEF k
  <2>3. StepOf(t, k)
    BY <2>1, <2>2 DEF StepOf, Goes, SetManifestRun, TaskAt
  <2> QED  BY <1>1, <2>1, <2>3 DEF RunTypes, SetManifestRun, StepOf
<1>3. CASE t \notin EditProcs
  <2>1. FinishTask(t)
    BY <1>3 DEF SetManifestRun
  <2>2. StepOf(t, NoTask)
    BY <2>1, EndsIs DEF StepOf, SetManifestRun, TaskAt
  <2> QED  BY <1>1, <2>2, NoTaskIs DEF RunTypes, SetManifestRun, StepOf
<1> QED  BY <1>2, <1>3

LEMMA SupersedeIs ==
    ASSUME RunTypes, NEW t \in Tasks, SupersedeRun(t)
    PROVE  \E k \in TaskRecords : StepOf(t, k) /\ RunTypes'
<1>1. CASE renderRun[task[t].old].status = "active"
  <2>1. renderRun' \in [RunIds -> RunRecords]
    <3> DEFINE o == task[t].old
               n == task[t].new
    <3>1. n \in 0..MaxRuns /\ renderRun \in [RunIds -> RunRecords]
      BY DEF RunTypes, TaskRecords
    <3>2. renderRun' = [renderRun EXCEPT ![o].status = "superseded", ![o].by = n]
      BY <1>1 DEF SupersedeRun
    <3> HIDE DEF o, n
    <3> QED  BY <3>1, <3>2, RunFields
  <2>2. FinishTask(t)
    BY <1>1 DEF SupersedeRun
  <2>3. StepOf(t, NoTask)
    BY <2>2, EndsIs DEF StepOf, SupersedeRun, TaskAt
  <2> QED  BY <2>1, <2>3, NoTaskIs DEF RunTypes, SupersedeRun, StepOf
<1>2. CASE renderRun[task[t].old].status # "active"
  <2> DEFINE k == [task[t] EXCEPT !.pc = "recheck"]
  <2>1. k \in TaskRecords /\ k.pc = "recheck"
    BY PcOnly DEF RunTypes, TaskPCs
  <2>2. task' = [task EXCEPT ![t] = k] /\ UNCHANGED <<renderRun, debounce>>
    BY <1>2 DEF SupersedeRun, SetTask, TaskTo, AfterLost
  <2> HIDE DEF k
  <2>3. StepOf(t, k)
    BY <2>1, <2>2 DEF StepOf, Goes, SupersedeRun, TaskAt
  <2> QED  BY <2>1, <2>2, <2>3 DEF RunTypes, SupersedeRun, StepOf
<1> QED  BY <1>1, <1>2

LEMMA RecheckIs ==
    ASSUME RunTypes, NEW t \in Tasks, RecheckOld(t)
    PROVE  \E k \in TaskRecords : StepOf(t, k) /\ RunTypes'
<1>1. CASE Duplicates(t)
  <2> DEFINE k == [task[t] EXCEPT !.pc = "cancelNew"]
  <2>1. k \in TaskRecords /\ k.pc = "cancelNew"
    BY PcOnly DEF RunTypes, TaskPCs
  <2>2. task' = [task EXCEPT ![t] = k] /\ UNCHANGED debounce
    BY <1>1 DEF RecheckOld, SetTask, TaskTo
  <2> HIDE DEF k
  <2>3. StepOf(t, k)
    BY <2>1, <2>2 DEF StepOf, Goes, RecheckOld, TaskAt
  <2> QED  BY <2>1, <2>2, <2>3 DEF RunTypes, RecheckOld, StepOf
<1>2. CASE ~Duplicates(t)
  <2>1. FinishTask(t)
    BY <1>2 DEF RecheckOld
  <2>2. StepOf(t, NoTask)
    BY <2>1, EndsIs DEF StepOf, RecheckOld, TaskAt
  <2> QED  BY <2>2, NoTaskIs DEF RunTypes, RecheckOld, StepOf
<1> QED  BY <1>1, <1>2

LEMMA CancelIs ==
    ASSUME RunTypes, NEW t \in Tasks, CancelRun(t)
    PROVE  \E k \in TaskRecords : StepOf(t, k) /\ RunTypes'
<1> DEFINE r == IF TaskAt(t, "cancelOld") THEN task[t].old ELSE task[t].new
           s == IF renderRun[r].status = "active" THEN "canceled" ELSE renderRun[r].status
<1>1. renderRun' = [renderRun EXCEPT ![r].status = s]
  BY DEF CancelRun
<1>2. renderRun' \in [RunIds -> RunRecords]
  <2>1. CASE r \in RunIds
    <3>1. s \in {"none", "active", "done", "superseded", "canceled"}
      BY <2>1 DEF RunTypes, RunRecords
    <3> HIDE DEF s, r
    <3>2. 0 \in 0..MaxRuns
      OBVIOUS
    <3> QED  BY <1>1, <3>1, <3>2, RunFields DEF RunTypes
  <2>2. CASE r \notin RunIds
    BY <1>1, <2>2 DEF RunTypes
  <2> QED  BY <2>1, <2>2
<1>3. StepOf(t, NoTask)
  <2>1. FinishTask(t)
    BY DEF CancelRun
  <2> QED  BY <2>1, EndsIs DEF StepOf, CancelRun, TaskAt
<1> QED  BY <1>2, <1>3, NoTaskIs DEF RunTypes, CancelRun, StepOf

LEMMA TaskStepIs ==
    ASSUME RunTypes, NEW t \in Tasks, TaskStep(t)
    PROVE  \E k \in TaskRecords : StepOf(t, k) /\ RunTypes'
BY ReadActiveIs, PrepareIs, EnqueueIs, LinkIs, SupersedeIs, RecheckIs, CancelIs DEF TaskStep

-----------------------------------------------------------------------------
(* The wait group *)

LEMMA InvImplies == SupersederInv => RestartTypeOK /\ WaitGroupBalanced /\ StopWaits
BY TypesAre DEF SupersederInv, SupersederAt, OneSuperseder, Balanced, StopOK, WaitGroupBalanced, StopWaits

LEMMA SupersederStart == RestartInit => SupersederInv
<1> SUFFICES ASSUME RestartInit PROVE SupersederInv
  OBVIOUS
<1>1. RunTypes
  <2>1. NoRenderRun \in RunRecords
    BY DEF NoRenderRun, RunRecords
  <2> QED  BY <2>1, NoTaskIs DEF RestartInit, RunTypes
<1>2. DebounceTypes
  <2>1. 0 \in 0..MaxEdits /\ 0 \in Nat
    OBVIOUS
  <2>2. emitted \in [EditProcs -> 0..MaxEdits] /\ pending \in [EditProcs -> 0..MaxEdits] /\ wg \in [EditProcs -> Nat]
    BY <2>1 DEF RestartInit
  <2>3. armed \in [EditProcs -> BOOLEAN] /\ fired \in [EditProcs -> SUBSET Callbacks]
    BY DEF RestartInit
  <2>4. stopped \in [EditProcs -> {"no", "waiting", "yes"}] /\ dropped \in BOOLEAN
    BY DEF RestartInit
  <2> QED  BY <2>2, <2>3, <2>4 DEF DebounceTypes
<1>3. ASSUME NEW p \in EditProcs PROVE SupersederAt(p)
  <2>1. TaskAt(p, "idle")
    BY NoTaskIs DEF RestartInit, TaskAt, Tasks
  <2> QED  BY <2>1, FS_EmptySet DEF RestartInit, SupersederAt, OneSuperseder, TimerOK, Balanced, StopOK
<1> QED  BY <1>1, <1>2, <1>3 DEF SupersederInv

\* What a step of another actor does to a superseder.
LEMMA Elsewhere ==
    ASSUME RunTypes, DebounceTypes, NEW p \in EditProcs, SupersederAt(p), RunTypes', content <= content',
           emitted'[p] = emitted[p], pending'[p] = pending[p], armed'[p] = armed[p], fired'[p] = fired[p],
           wg'[p] = wg[p], stopped'[p] = stopped[p], TaskAt(p, "idle")' <=> TaskAt(p, "idle")
    PROVE  SupersederAt(p)'
<1> DEFINE c == content
           d == content'
<1>1. c \in Nat /\ d \in Nat /\ c <= d
  BY DEF RunTypes
<1>2. /\ emitted[p] \in Nat /\ pending[p] \in Nat /\ fired[p] \in SUBSET Callbacks
  BY DEF DebounceTypes
<1>3. OneSuperseder(d, emitted[p], pending[p], armed[p], fired[p], wg[p], stopped[p], TaskAt(p, "idle"))
  <2>1. TimerOK(d, emitted[p], pending[p], armed[p], fired[p], stopped[p])
    <3> HIDE DEF c, d
    <3> QED  BY <1>1, <1>2 DEF SupersederAt, OneSuperseder, TimerOK, Callbacks, c
  <2> QED  BY <2>1 DEF SupersederAt, OneSuperseder
<1> QED  BY <1>3 DEF SupersederAt, OneSuperseder, TimerOK, Balanced, StopOK

LEMMA TaskStepKeeps ==
    ASSUME SupersederInv, NEW t \in Tasks, TaskStep(t)
    PROVE  SupersederInv'
<1>1. PICK k \in TaskRecords : StepOf(t, k) /\ RunTypes'
  BY TaskStepIs DEF SupersederInv
<1>2. CASE Goes(t, k)
  <2>1. DebounceTypes'
    BY <1>2 DEF Goes, debounce, DebounceTypes, SupersederInv
  <2>2. ASSUME NEW p \in EditProcs PROVE SupersederAt(p)'
    <3>1. TaskAt(p, "idle")' <=> TaskAt(p, "idle")
      BY <1>1, <1>2 DEF StepOf, Goes, TaskAt, RunTypes, SupersederInv, Tasks
    <3> QED  BY <1>1, <1>2, <3>1, Elsewhere DEF SupersederInv, StepOf, Goes, debounce, RunTypes
  <2> QED  BY <1>1, <2>1, <2>2 DEF SupersederInv
<1>3. CASE Ends(t, k)
  <2>1. ~TaskAt(t, "idle") /\ TaskAt(t, "idle")' /\ \A u \in Tasks \ {t} : TaskAt(u, "idle")' <=> TaskAt(u, "idle")
    BY <1>1, <1>3, NoTaskIs DEF StepOf, Ends, TaskAt, RunTypes, SupersederInv
  <2>2. ASSUME t \in EditProcs PROVE wg[t] \in Nat \ {0} /\ wg' = [wg EXCEPT ![t] = wg[t] - 1] /\ SupersederAt(t)
    <3>1. SupersederAt(t) /\ Cardinality(fired[t]) \in Nat
      BY <2>2, FS_CardinalityType DEF SupersederInv, SupersederAt, OneSuperseder, TimerOK
    <3> QED  BY <1>3, <2>1, <2>2, <3>1 DEF Ends, FinishTask, SupersederAt, OneSuperseder, Balanced
  <2>3. DebounceTypes'
    BY <1>3, <2>2 DEF Ends, FinishTask, DebounceTypes, SupersederInv
  <2>4. ASSUME NEW p \in EditProcs PROVE SupersederAt(p)'
    <3>1. CASE p # t
      <4>1. wg'[p] = wg[p]
        BY <1>3, <3>1 DEF Ends, FinishTask, DebounceTypes, SupersederInv
      <4>2. p \in Tasks \ {t}
        BY <3>1 DEF Tasks
      <4> QED  BY <1>1, <1>3, <2>1, <4>1, <4>2, Elsewhere DEF SupersederInv, StepOf, Ends, FinishTask, RunTypes
    <3>2. CASE p = t
      <4>1. wg'[t] = wg[t] - 1
        BY <2>2, <3>2 DEF SupersederInv, DebounceTypes
      <4>2. Cardinality(fired[t]) \in Nat
        BY <2>2, <3>2, FS_CardinalityType DEF SupersederAt, OneSuperseder, TimerOK
      <4>3. Balanced(armed[t], fired[t], wg[t] - 1, TRUE) /\ StopOK(armed[t], fired[t], stopped[t], TRUE)
        BY <2>1, <2>2, <3>2, <4>2 DEF SupersederAt, OneSuperseder, Balanced, StopOK
      <4> QED
        BY <1>1, <1>3, <2>1, <2>2, <3>2, <4>1, <4>3
           DEF SupersederAt, OneSuperseder, Balanced, StopOK, TimerOK, StepOf, Ends, FinishTask
    <3> QED  BY <3>1, <3>2
  <2> QED  BY <1>1, <2>3, <2>4 DEF SupersederInv
<1> QED  BY <1>1, <1>2, <1>3 DEF StepOf

\* The steps of one superseder: only its own variables change.
LEMMA SupersederChanges ==
    ASSUME SupersederInv, NEW p \in EditProcs, RunTypes', DebounceTypes', SupersederAt(p)', content <= content',
           \A q \in EditProcs \ {p} :
              /\ emitted'[q] = emitted[q] /\ pending'[q] = pending[q] /\ armed'[q] = armed[q] /\ fired'[q] = fired[q]
              /\ wg'[q] = wg[q] /\ stopped'[q] = stopped[q] /\ task'[q] = task[q]
    PROVE  SupersederInv'
<1>1. ASSUME NEW q \in EditProcs \ {p} PROVE SupersederAt(q)'
  <2>1. TaskAt(q, "idle")' <=> TaskAt(q, "idle")
    BY <1>1 DEF TaskAt
  <2> QED  BY <1>1, <2>1, Elsewhere DEF SupersederInv
<1> QED  BY <1>1 DEF SupersederInv

LEMMA EditKeeps ==
    ASSUME SupersederInv, NEW p \in EditProcs, EditScene(p)
    PROVE  SupersederInv'
<1> DEFINE c == content + 1
<1>1. content \in Nat /\ c \in 1..MaxEdits /\ content' = c /\ emitted' = [emitted EXCEPT ![p] = c]
  BY DEF EditScene, SupersederInv, RunTypes
<1>2. RunTypes'
  BY <1>1 DEF EditScene, SupersederInv, RunTypes
<1>3. DebounceTypes'
  BY <1>1 DEF EditScene, SupersederInv, DebounceTypes
<1>4. SupersederAt(p)'
  <2>1. emitted'[p] = c /\ pending[p] \in Nat /\ fired[p] \in SUBSET Callbacks
    BY <1>1 DEF SupersederInv, DebounceTypes
  <2>2. TimerOK(c, c, pending[p], armed[p], fired[p], stopped[p])
    BY <1>1, <2>1 DEF SupersederInv, SupersederAt, OneSuperseder, TimerOK, Callbacks
  <2> QED  BY <1>1, <2>1, <2>2 DEF EditScene, SupersederInv, SupersederAt, OneSuperseder, TaskAt, TimerOK, Balanced, StopOK
<1> QED  BY <1>1, <1>2, <1>3, <1>4, SupersederChanges DEF EditScene, SupersederInv, DebounceTypes

LEMMA HandleKeeps ==
    ASSUME SupersederInv, NEW p \in EditProcs, HandleChanged(p)
    PROVE  SupersederInv'
<1> DEFINE e == emitted[p]
<1>1. RunTypes' /\ content <= content'
  BY DEF HandleChanged, SupersederInv, RunTypes
<1>2. /\ e \in 1..MaxEdits /\ e <= content /\ content \in Nat /\ emitted' = [emitted EXCEPT ![p] = 0] /\ emitted'[p] = 0
      /\ pending[p] \in Nat /\ wg[p] \in Nat /\ fired[p] \in SUBSET Callbacks /\ Cardinality(fired[p]) \in Nat
      /\ armed[p] \in BOOLEAN /\ SupersederAt(p)
  BY FS_CardinalityType DEF HandleChanged, SupersederInv, DebounceTypes, RunTypes, SupersederAt, OneSuperseder, TimerOK
<1>3. CASE stopped[p] # "no"
  <2>1. dropped' = TRUE /\ UNCHANGED <<pending, armed, wg, fired, stopped, task, content>>
    BY <1>3 DEF HandleChanged
  <2>2. DebounceTypes'
    BY <1>2, <2>1 DEF SupersederInv, DebounceTypes
  <2>3. TimerOK(content, 0, pending[p], armed[p], fired[p], stopped[p])
    BY <1>2 DEF SupersederAt, OneSuperseder, TimerOK, Callbacks
  <2>4. SupersederAt(p)'
    BY <1>2, <2>1, <2>3 DEF SupersederAt, OneSuperseder, TaskAt, TimerOK, Balanced, StopOK
  <2> QED  BY <1>1, <1>2, <2>1, <2>2, <2>4, SupersederChanges DEF SupersederInv, DebounceTypes
<1>4. CASE stopped[p] = "no"
  <2> DEFINE w == StoppedTimer(p) + 1
  <2>1. /\ pending' = [pending EXCEPT ![p] = e] /\ armed' = [armed EXCEPT ![p] = TRUE]
        /\ wg' = [wg EXCEPT ![p] = w] /\ UNCHANGED <<dropped, fired, stopped, task, content>>
    BY <1>4 DEF HandleChanged
  <2>2. w = 1 + Cardinality(fired[p]) + (IF TaskAt(p, "idle") THEN 0 ELSE 1) /\ w \in Nat
    BY <1>2 DEF SupersederAt, OneSuperseder, TimerOK, Balanced, StoppedTimer
  <2> HIDE DEF w
  <2>3. DebounceTypes'
    BY <1>2, <2>1, <2>2 DEF SupersederInv, DebounceTypes
  <2>4. pending'[p] = e /\ armed'[p] /\ armed'[p] = TRUE /\ wg'[p] = w
    BY <2>1 DEF SupersederInv, DebounceTypes
  <2>5. TimerOK(content, 0, e, TRUE, fired[p], stopped[p])
    BY <1>2, <1>4 DEF SupersederAt, OneSuperseder, TimerOK, Callbacks
  <2>6. Balanced(TRUE, fired[p], w, TaskAt(p, "idle")) /\ StopOK(TRUE, fired[p], stopped[p], TaskAt(p, "idle"))
    BY <1>4, <2>2 DEF Balanced, StopOK
  <2>7. SupersederAt(p)'
    BY <1>2, <2>1, <2>4, <2>5, <2>6 DEF SupersederAt, OneSuperseder, TaskAt, TimerOK, Balanced, StopOK
  <2> QED  BY <1>1, <1>2, <2>1, <2>3, <2>7, SupersederChanges DEF SupersederInv, DebounceTypes
<1> QED  BY <1>3, <1>4

LEMMA TimerKeeps ==
    ASSUME SupersederInv, NEW p \in EditProcs, TimerFires(p)
    PROVE  SupersederInv'
<1> DEFINE b == [edit |-> pending[p], began |-> content]
<1>1. RunTypes' /\ content <= content'
  BY DEF TimerFires, SupersederInv, RunTypes
<1>2. /\ emitted[p] \in Nat /\ pending[p] \in 1..MaxEdits /\ wg[p] \in Nat /\ fired[p] \in SUBSET Callbacks
      /\ Cardinality(fired[p]) \in Nat /\ armed[p] /\ content \in 0..MaxEdits /\ SupersederAt(p)
  <2>1. armed[p] /\ SupersederAt(p) /\ content \in 0..MaxEdits /\ wg[p] \in Nat /\ fired[p] \in SUBSET Callbacks
    BY DEF TimerFires, SupersederInv, DebounceTypes, RunTypes
  <2>2. emitted[p] \in 0..MaxEdits /\ pending[p] \in 0..MaxEdits
    BY DEF SupersederInv, DebounceTypes
  <2>3. pending[p] # 0 /\ IsFiniteSet(fired[p])
    BY <2>1 DEF SupersederAt, OneSuperseder, TimerOK
  <2> QED  BY <2>1, <2>2, <2>3, FS_CardinalityType
<1>3. b \in Callbacks /\ b.edit = pending[p]
  BY <1>2 DEF Callbacks
<1>4. b \notin fired[p]
  <2>1. \A x \in fired[p] : x.edit < pending[p]
    BY <1>2 DEF SupersederAt, OneSuperseder, TimerOK
  <2>2. pending[p] \in Nat /\ ~(pending[p] < pending[p])
    BY <1>2
  <2> QED  BY <1>3, <2>1, <2>2
<1> HIDE DEF b
<1>5. /\ armed' = [armed EXCEPT ![p] = FALSE] /\ fired' = [fired EXCEPT ![p] = fired[p] \cup {b}]
      /\ UNCHANGED <<content, emitted, pending, wg, stopped, task, dropped>>
  BY DEF TimerFires, b
<1>6. ~armed'[p] /\ armed'[p] = FALSE /\ fired'[p] = fired[p] \cup {b}
  BY <1>5 DEF SupersederInv, DebounceTypes
<1>7. IsFiniteSet(fired[p] \cup {b}) /\ Cardinality(fired[p] \cup {b}) = Cardinality(fired[p]) + 1
  BY <1>2, <1>4, FS_AddElement DEF SupersederAt, OneSuperseder, TimerOK
<1>8. TimerOK(content, emitted[p], pending[p], FALSE, fired[p] \cup {b}, stopped[p])
  BY <1>2, <1>3, <1>7 DEF SupersederAt, OneSuperseder, TimerOK, Callbacks
<1>9. /\ Balanced(FALSE, fired[p] \cup {b}, wg[p], TaskAt(p, "idle"))
      /\ StopOK(FALSE, fired[p] \cup {b}, stopped[p], TaskAt(p, "idle"))
  BY <1>2, <1>7 DEF SupersederAt, OneSuperseder, Balanced, StopOK, TimerOK
<1>10. SupersederAt(p)'
  BY <1>5, <1>6, <1>8, <1>9 DEF SupersederAt, OneSuperseder, TaskAt, TimerOK, Balanced, StopOK
<1>11. DebounceTypes'
  BY <1>2, <1>3, <1>5 DEF SupersederInv, DebounceTypes
<1> QED  BY <1>1, <1>5, <1>10, <1>11, SupersederChanges DEF SupersederInv, DebounceTypes

LEMMA CallbackKeeps ==
    ASSUME SupersederInv, NEW p \in EditProcs, NEW b, Callback(p, b)
    PROVE  SupersederInv'
<1> DEFINE f == fired[p] \ {b}
<1>1. /\ emitted[p] \in Nat /\ pending[p] \in Nat /\ wg[p] \in Nat /\ fired[p] \in SUBSET Callbacks
      /\ Cardinality(fired[p]) \in Nat /\ content \in 0..MaxEdits /\ SupersederAt(p) /\ b \in fired[p]
      /\ IsFiniteSet(fired[p]) /\ TaskAt(p, "idle") /\ p \in Tasks /\ b \in Callbacks
  BY FS_CardinalityType DEF Callback, SupersederInv, DebounceTypes, RunTypes, SupersederAt, OneSuperseder, TimerOK, Tasks
<1>2. IsFiniteSet(f) /\ Cardinality(f) = Cardinality(fired[p]) - 1 /\ Cardinality(f) \in Nat
  BY <1>1, FS_RemoveElement, FS_CardinalityType
<1>3. /\ fired' = [fired EXCEPT ![p] = f] /\ fired'[p] = f
      /\ UNCHANGED <<content, ready, emitted, armed, stopped, renderRun, runs, dropped>>
  BY DEF Callback, SupersederInv, DebounceTypes
<1>4. f \subseteq fired[p] /\ f \in SUBSET Callbacks
  BY <1>1
<1> HIDE DEF f
<1>5. CASE IsCurrent(p, b)
  <2> DEFINE k == [NoTask EXCEPT !.pc = "active", !.began = b.began]
  <2>1. pending' = [pending EXCEPT ![p] = 0] /\ task' = [task EXCEPT ![p] = k] /\ UNCHANGED wg
    BY <1>5 DEF Callback, SetTask
  <2>2. k \in TaskRecords /\ k.pc = "active"
    <3>1. b.began \in 0..MaxEdits
      BY <1>1 DEF Callbacks
    <3> DEFINE n == NoTask
               x == b.began
    <3>2. n \in TaskRecords /\ x \in 0..MaxEdits /\ k = [n EXCEPT !.pc = "active", !.began = x]
      BY <3>1, NoTaskIs
    <3> HIDE DEF n, x, k
    <3> QED  BY <3>2 DEF TaskRecords, TaskPCs
  <2> HIDE DEF k
  <2>3. RunTypes'
    BY <1>3, <2>1, <2>2 DEF SupersederInv, RunTypes
  <2>4. DebounceTypes'
    BY <1>3, <1>4, <2>1 DEF SupersederInv, DebounceTypes
  <2>5. pending'[p] = 0 /\ task'[p] = k /\ ~TaskAt(p, "idle")'
    BY <1>1, <2>1, <2>2 DEF SupersederInv, DebounceTypes, RunTypes, TaskAt
  <2>6. ~armed[p]
    BY <1>1, <1>5 DEF IsCurrent, SupersederAt, OneSuperseder, TimerOK
  <2>7. TimerOK(content, emitted[p], 0, armed[p], f, stopped[p])
    BY <1>1, <1>2, <1>4, <2>6 DEF SupersederAt, OneSuperseder, TimerOK, Callbacks
  <2>8. Balanced(armed[p], f, wg[p], FALSE) /\ StopOK(armed[p], f, stopped[p], FALSE)
    BY <1>1, <1>2, <2>6 DEF SupersederAt, OneSuperseder, Balanced, StopOK
  <2>9. SupersederAt(p)'
    BY <1>3, <2>1, <2>5, <2>7, <2>8 DEF SupersederAt, OneSuperseder, TimerOK, Balanced, StopOK
  <2>10. content <= content' /\ \A q \in EditProcs \ {p} : task'[q] = task[q] /\ pending'[q] = pending[q] /\ fired'[q] = fired[q]
                                                        /\ wg'[q] = wg[q]
    BY <1>1, <1>3, <2>1 DEF SupersederInv, DebounceTypes, RunTypes, Tasks
  <2> QED  BY <1>3, <2>3, <2>4, <2>9, <2>10, SupersederChanges DEF SupersederInv
<1>6. CASE ~IsCurrent(p, b)
  <2>1. wg' = [wg EXCEPT ![p] = wg[p] - 1] /\ UNCHANGED <<pending, task>>
    BY <1>6 DEF Callback
  <2>2. wg[p] - 1 \in Nat /\ wg'[p] = wg[p] - 1 /\ Balanced(armed[p], f, wg[p] - 1, TaskAt(p, "idle"))
    BY <1>1, <1>2, <2>1 DEF SupersederAt, OneSuperseder, Balanced, SupersederInv, DebounceTypes
  <2>3. RunTypes' /\ DebounceTypes'
    BY <1>3, <1>4, <2>1, <2>2 DEF SupersederInv, DebounceTypes, RunTypes
  <2>4. TimerOK(content, emitted[p], pending[p], armed[p], f, stopped[p]) /\ StopOK(armed[p], f, stopped[p], TaskAt(p, "idle"))
    BY <1>1, <1>2, <1>4 DEF SupersederAt, OneSuperseder, TimerOK, StopOK
  <2>5. SupersederAt(p)'
    BY <1>3, <2>1, <2>2, <2>4 DEF SupersederAt, OneSuperseder, TaskAt, TimerOK, Balanced, StopOK
  <2>10. content <= content' /\ \A q \in EditProcs \ {p} : task'[q] = task[q] /\ pending'[q] = pending[q] /\ fired'[q] = fired[q]
                                                        /\ wg'[q] = wg[q]
    BY <1>1, <1>3, <2>1 DEF SupersederInv, DebounceTypes, RunTypes, Tasks
  <2> QED  BY <1>3, <2>3, <2>5, <2>10, SupersederChanges DEF SupersederInv
<1> QED  BY <1>5, <1>6

LEMMA StopKeeps ==
    ASSUME SupersederInv, NEW p \in EditProcs, StopSuperseder(p)
    PROVE  SupersederInv'
<1> DEFINE w == StoppedTimer(p)
<1>1. RunTypes' /\ content <= content'
  BY DEF StopSuperseder, SupersederInv, RunTypes
<1>2. /\ emitted[p] \in Nat /\ pending[p] \in Nat /\ wg[p] \in Nat /\ fired[p] \in SUBSET Callbacks
      /\ Cardinality(fired[p]) \in Nat /\ content \in Nat /\ SupersederAt(p)
  BY FS_CardinalityType DEF SupersederInv, DebounceTypes, RunTypes, SupersederAt, OneSuperseder, TimerOK
<1>3. w \in Nat /\ Balanced(FALSE, fired[p], w, TaskAt(p, "idle"))
  BY <1>2 DEF SupersederAt, OneSuperseder, TimerOK, Balanced, StoppedTimer
<1>4. /\ stopped' = [stopped EXCEPT ![p] = "waiting"] /\ wg' = [wg EXCEPT ![p] = w] /\ pending' = [pending EXCEPT ![p] = 0]
      /\ armed' = [armed EXCEPT ![p] = FALSE] /\ UNCHANGED <<content, emitted, fired, task>> /\ dropped' \in BOOLEAN
  BY DEF StopSuperseder, SupersederInv, DebounceTypes
<1> HIDE DEF w
<1>5. DebounceTypes'
  BY <1>3, <1>4 DEF SupersederInv, DebounceTypes
<1>6. stopped'[p] = "waiting" /\ wg'[p] = w /\ pending'[p] = 0 /\ armed'[p] = FALSE
  BY <1>4 DEF SupersederInv, DebounceTypes
<1>7. TimerOK(content, emitted[p], 0, FALSE, fired[p], "waiting") /\ StopOK(FALSE, fired[p], "waiting", TaskAt(p, "idle"))
  BY <1>2 DEF SupersederAt, OneSuperseder, TimerOK, StopOK, Callbacks
<1>8. SupersederAt(p)'
  BY <1>3, <1>4, <1>6, <1>7 DEF SupersederAt, OneSuperseder, TaskAt, TimerOK, Balanced, StopOK
<1> QED  BY <1>1, <1>4, <1>5, <1>8, SupersederChanges DEF SupersederInv, DebounceTypes

LEMMA StopReturnKeeps ==
    ASSUME SupersederInv, NEW p \in EditProcs, StopReturns(p)
    PROVE  SupersederInv'
<1>1. RunTypes' /\ content <= content' /\ DebounceTypes'
  BY DEF StopReturns, SupersederInv, RunTypes, DebounceTypes
<1>2. IsFiniteSet(fired[p]) /\ Cardinality(fired[p]) \in Nat /\ SupersederAt(p) /\ wg[p] = 0 /\ stopped'[p] = "yes"
  BY FS_CardinalityType DEF StopReturns, Waited, SupersederInv, DebounceTypes, SupersederAt, OneSuperseder, TimerOK
<1>3. TaskAt(p, "idle") /\ ~armed[p] /\ Cardinality(fired[p]) = 0
  BY <1>2 DEF SupersederAt, OneSuperseder, Balanced
<1>4. fired[p] = {}
  BY <1>2, <1>3, FS_EmptySet
<1>5. TimerOK(content, emitted[p], pending[p], armed[p], fired[p], "yes")
  BY <1>2, <1>3 DEF SupersederAt, OneSuperseder, TimerOK
<1>6. SupersederAt(p)'
  BY <1>2, <1>3, <1>4, <1>5 DEF StopReturns, SupersederAt, OneSuperseder, TaskAt, TimerOK, Balanced, StopOK
<1> QED  BY <1>1, <1>6, SupersederChanges DEF StopReturns, SupersederInv, DebounceTypes

LEMMA StartKeeps ==
    ASSUME SupersederInv, StartRender
    PROVE  SupersederInv'
<1> DEFINE k == [NoTask EXCEPT !.pc = "prepare", !.began = content]
<1>1. task' = [task EXCEPT ![Starter] = k] /\ UNCHANGED <<content, ready, debounce, renderRun, runs>>
  BY DEF StartRender, SetTask
<1>2. k \in TaskRecords
  <2> DEFINE n == NoTask
  <2>1. n \in TaskRecords /\ content \in 0..MaxEdits
    BY NoTaskIs DEF SupersederInv, RunTypes
  <2> HIDE DEF n
  <2>2. [n EXCEPT !.pc = "prepare", !.began = content] \in TaskRecords
    BY <2>1 DEF TaskRecords, TaskPCs
  <2> QED  BY <2>2 DEF n
<1> HIDE DEF k
<1>3. RunTypes' /\ DebounceTypes'
  BY <1>1, <1>2 DEF SupersederInv, RunTypes, DebounceTypes, debounce
<1>4. ASSUME NEW q \in EditProcs PROVE SupersederAt(q)'
  <2>1. TaskAt(q, "idle")' <=> TaskAt(q, "idle")
    BY <1>1 DEF TaskAt, SupersederInv, RunTypes
  <2> QED  BY <1>1, <1>3, <2>1, Elsewhere DEF SupersederInv, debounce, RunTypes
<1> QED  BY <1>3, <1>4 DEF SupersederInv

LEMMA RunEndKeeps ==
    ASSUME SupersederInv, NEW r \in 1..runs, RunEnds(r)
    PROVE  SupersederInv'
<1>1. renderRun' \in [RunIds -> RunRecords]
  <2>1. 0 \in 0..MaxRuns
    OBVIOUS
  <2> QED  BY <2>1, RunFields DEF RunEnds, SetRun, SupersederInv, RunTypes
<1>2. RunTypes' /\ DebounceTypes'
  BY <1>1 DEF RunEnds, SupersederInv, RunTypes, DebounceTypes, debounce
<1>3. ASSUME NEW q \in EditProcs PROVE SupersederAt(q)'
  BY <1>2, Elsewhere DEF RunEnds, SupersederInv, debounce, RunTypes, TaskAt
<1> QED  BY <1>2, <1>3 DEF SupersederInv

LEMMA SupersederStep == SupersederInv /\ [RestartNext]_restartVars => SupersederInv'
<1> SUFFICES ASSUME SupersederInv, [RestartNext]_restartVars PROVE SupersederInv'
  OBVIOUS
<1>1. CASE UNCHANGED restartVars
  <2>1. RunTypes' /\ DebounceTypes'
    BY <1>1 DEF SupersederInv, restartVars, RunTypes, DebounceTypes
  <2>2. ASSUME NEW q \in EditProcs PROVE SupersederAt(q)'
    BY <1>1, <2>1, Elsewhere DEF SupersederInv, restartVars, RunTypes, TaskAt
  <2> QED  BY <2>1, <2>2 DEF SupersederInv
<1>2. ASSUME NEW p \in EditProcs, ProcStep(p) PROVE SupersederInv'
  BY <1>2, HandleKeeps, TimerKeeps, StopReturnKeeps, CallbackKeeps DEF ProcStep
<1> QED
  BY <1>1, <1>2, TaskStepKeeps, EditKeeps, StopKeeps, StartKeeps, RunEndKeeps DEF RestartNext

\* wg.Done never takes the counter below zero, which would panic, and Stop
\* returns only when no restart of its process runs or can start any more: for
\* any number of processes, edits and runs (supersede.go Handle, Stop).
THEOREM SupersederIsSafe == RestartSpec => [](RestartTypeOK /\ WaitGroupBalanced /\ StopWaits)
BY SupersederStart, SupersederStep, InvImplies, PTL DEF RestartSpec

-----------------------------------------------------------------------------
(***************************************************************************)
(* One process p, again over values: content c, ready y, the runs R up to  *)
(* n, the task s of StartRender and the task k of the process, and of its  *)
(* superseder the edit e to be handled, the pending edit d, whether its    *)
(* timer is armed (a) and whether a restart was dropped (x).               *)
(***************************************************************************)
LiveRuns(n, R) == {r \in 1..n : R[r].status = "active"}

\* A restart is still to come, or was dropped by a shutdown; and it is the one
\* of the last edit.
Due(e, d, x) == x \/ e # 0 \/ d # 0
LastIsDue(c, e, d, x) == x \/ e = c \/ d = c

\* While StartRender works there is no run but the one it makes.
StartAlone(n, R, s) ==
    /\ s.pc \in {"idle", "prepare", "insert", "link"}
    /\ s.pc \in {"prepare", "insert"} => LiveRuns(n, R) = {}
    /\ s.pc = "link" => LiveRuns(n, R) \subseteq {s.new} /\ ~R[s.new].linked

\* A restart works on the one run there was; only itself supersedes that.
RestartAlone(n, R, s, k) ==
    /\ k.pc # "cancelNew"
    /\ k.pc \notin {"idle", "active"} => s.pc = "idle" /\ k.old \in 1..n /\ R[k.old].status # "superseded"
    /\ k.pc \in {"prepare", "insert", "cancelOld"} => LiveRuns(n, R) \subseteq {k.old}
    /\ k.pc \in {"link", "supersede"} => LiveRuns(n, R) \subseteq {k.old, k.new} /\ k.old # k.new
    /\ k.pc = "recheck" => LiveRuns(n, R) \subseteq {k.new}

\* Only a run at its link has no manifest.
RunsOK(n, R, s, k) ==
    /\ \A r \in 1..n : R[r].by # 0 => R[r].status = "superseded"
    /\ \A r \in LiveRuns(n, R) : R[r].linked \/ (s.pc = "link" /\ s.new = r) \/ (k.pc = "link" /\ k.new = r)

\* What a task makes is of the content it read.
MakesOf(c, y, n, R, t) ==
    /\ t.content <= c
    /\ t.pc \in {"insert", "link", "supersede", "recheck"} /\ t.content = c => y
    /\ t.pc \in {"link", "supersede", "recheck"} => t.new \in 1..n /\ R[t.new].content = t.content

\* If the content has changed since, the restart for that is still to come; it
\* has not even fired while StartRender works.
StaleStart(c, s, e, d, a, x) ==
    /\ s.began <= c
    /\ s.pc # "idle" /\ s.began < c => x \/ e = c \/ (a /\ d = c)
    /\ s.pc \in {"insert", "link"} => s.began <= s.content
StaleRestart(c, k, e, d, x) ==
    k.pc \in {"insert", "link", "supersede", "recheck"} /\ k.content < c => LastIsDue(c, e, d, x)

\* Between tasks there is one active run, and it is of the present content
\* unless a restart is to come.
RestIsFresh(c, y, n, R, s, k, e, d, x) ==
    s.pc = "idle" /\ k.pc \in {"idle", "active"} =>
        /\ \A q, r \in LiveRuns(n, R) : q = r
        /\ k.pc = "idle" /\ ~Due(e, d, x) => \A r \in LiveRuns(n, R) : y /\ R[r].content = c

OneProcess(c, y, n, R, s, k, e, d, a, x) ==
    /\ StartAlone(n, R, s) /\ RestartAlone(n, R, s, k) /\ RunsOK(n, R, s, k)
    /\ MakesOf(c, y, n, R, s) /\ MakesOf(c, y, n, R, k)
    /\ StaleStart(c, s, e, d, a, x) /\ StaleRestart(c, k, e, d, x)
    /\ RestIsFresh(c, y, n, R, s, k, e, d, x)

OneProcessAt(p) ==
    OneProcess(content, ready, runs, renderRun, task[Starter], task[p], emitted[p], pending[p], armed[p], dropped)

\* A pending restart has its timer or its callback.
PendingLives(p) == pending[p] # 0 => armed[p] \/ \E b \in fired[p] : b.edit = pending[p]

RestartInv(p) == SupersederInv /\ OneProcessAt(p) /\ PendingLives(p)

ValueTypes(c, y, n, R, s, k, e, d) ==
    /\ c \in Nat /\ y \in BOOLEAN /\ n \in Nat /\ n <= MaxRuns /\ R \in [RunIds -> RunRecords]
    /\ s \in TaskRecords /\ k \in TaskRecords /\ e \in Nat /\ d \in Nat

LEMMA TypesOf ==
    ASSUME SupersederInv, NEW p \in EditProcs
    PROVE  /\ ValueTypes(content, ready, runs, renderRun, task[Starter], task[p], emitted[p], pending[p])
           /\ p # Starter /\ p \in Tasks /\ Starter \in Tasks
BY DEF SupersederInv, RunTypes, DebounceTypes, ValueTypes, Tasks

\* The restart of the last edit is one that is due.
LEMMA LastIsOne == ASSUME NEW c \in Nat, NEW b \in Nat, b < c, NEW e, NEW d, NEW x, LastIsDue(c, e, d, x) PROVE Due(e, d, x)
BY DEF LastIsDue, Due

\* Steps of the superseder that leave the tasks and the runs alone.
LEMMA DebounceOnly ==
    ASSUME NEW c, NEW y, NEW n, NEW R, NEW s, NEW k, NEW e, NEW d, NEW a, NEW x,
           NEW f, NEW g, NEW b, NEW z,
           ValueTypes(c, y, n, R, s, k, e, d), OneProcess(c, y, n, R, s, k, e, d, a, x),
           c # 0 /\ LastIsDue(c, e, d, x) => LastIsDue(c, f, g, z), Due(e, d, x) => Due(f, g, z),
           s.pc # "idle" /\ s.began < c /\ (x \/ e = c \/ (a /\ d = c)) => z \/ f = c \/ (b /\ g = c)
    PROVE  OneProcess(c, y, n, R, s, k, f, g, b, z)
<1>1. StaleStart(c, s, f, g, b, z)
  BY DEF OneProcess, StaleStart
<1>2. StaleRestart(c, k, f, g, z)
  <2>1. k.content \in Nat /\ c \in Nat
    BY DEF ValueTypes, TaskRecords
  <2>2. k.content < c => c # 0
    BY <2>1
  <2> QED  BY <2>2 DEF OneProcess, StaleRestart
<1>3. RestIsFresh(c, y, n, R, s, k, f, g, z)
  BY DEF OneProcess, RestIsFresh
<1> QED  BY <1>1, <1>2, <1>3 DEF OneProcess

LEMMA HandleFresh ==
    ASSUME NEW p \in EditProcs, RestartInv(p), HandleChanged(p), SupersederInv'
    PROVE  OneProcessAt(p)' /\ PendingLives(p)'
<1> DEFINE e == emitted[p]
           d == pending[p]
<1>1. /\ ValueTypes(content, ready, runs, renderRun, task[Starter], task[p], e, d) /\ e # 0 /\ emitted'[p] = 0
      /\ OneProcess(content, ready, runs, renderRun, task[Starter], task[p], e, d, armed[p], dropped)
      /\ UNCHANGED <<content, ready, runs, renderRun, task, fired>>
  BY TypesOf DEF RestartInv, OneProcessAt, HandleChanged, SupersederInv, DebounceTypes
<1>2. d < e /\ e <= content /\ content \in Nat /\ e \in Nat /\ d \in Nat
  BY <1>1 DEF RestartInv, SupersederInv, SupersederAt, OneSuperseder, TimerOK, ValueTypes
<1>3. CASE stopped[p] # "no"
  <2>1. dropped' = TRUE /\ pending' = pending /\ armed' = armed
    BY <1>3 DEF HandleChanged
  <2>2. OneProcess(content, ready, runs, renderRun, task[Starter], task[p], 0, d, armed[p], TRUE)
    BY <1>1, DebounceOnly DEF Due, LastIsDue
  <2> QED  BY <1>1, <2>1, <2>2 DEF OneProcessAt, PendingLives, RestartInv
<1>4. CASE stopped[p] = "no"
  <2>1. dropped' = dropped /\ pending'[p] = e /\ armed'[p] = TRUE
    BY <1>4 DEF HandleChanged, RestartInv, SupersederInv, DebounceTypes
  <2>2. d # content
    BY <1>2
  <2> HIDE DEF e, d
  <2>3. OneProcess(content, ready, runs, renderRun, task[Starter], task[p], 0, e, TRUE, dropped)
    BY <1>1, <2>2, DebounceOnly DEF Due, LastIsDue
  <2> QED  BY <1>1, <2>1, <2>3 DEF OneProcessAt, PendingLives
<1> QED  BY <1>3, <1>4

LEMMA TimerFresh ==
    ASSUME NEW p \in EditProcs, RestartInv(p), TimerFires(p), SupersederInv'
    PROVE  OneProcessAt(p)' /\ PendingLives(p)'
<1> DEFINE d == pending[p]
           b == [edit |-> pending[p], began |-> content]
<1>1. /\ ValueTypes(content, ready, runs, renderRun, task[Starter], task[p], emitted[p], d)
      /\ OneProcess(content, ready, runs, renderRun, task[Starter], task[p], emitted[p], d, armed[p], dropped)
      /\ UNCHANGED <<content, ready, runs, renderRun, task, emitted, pending, dropped>>
      /\ armed'[p] = FALSE /\ fired'[p] = fired[p] \cup {b}
  BY TypesOf DEF RestartInv, OneProcessAt, TimerFires, SupersederInv, DebounceTypes
<1>2. task[Starter].pc # "idle" => task[Starter].began >= d
  BY TypesOf DEF TimerFires, TaskAt, RestartInv
<1>3. task[Starter].pc # "idle" /\ task[Starter].began < content => d # content
  <2>1. task[Starter].began \in Nat /\ d \in Nat /\ content \in Nat
    BY <1>1 DEF ValueTypes, TaskRecords
  <2> QED  BY <1>2, <2>1
<1>4. b.edit = d
  OBVIOUS
<1> HIDE DEF d, b
<1>5. OneProcess(content, ready, runs, renderRun, task[Starter], task[p], emitted[p], d, FALSE, dropped)
  BY <1>1, <1>3, DebounceOnly DEF Due, LastIsDue
<1> QED  BY <1>1, <1>4, <1>5 DEF OneProcessAt, PendingLives, d

LEMMA StopFresh ==
    ASSUME NEW p \in EditProcs, RestartInv(p), StopSuperseder(p), SupersederInv'
    PROVE  OneProcessAt(p)' /\ PendingLives(p)'
<1> DEFINE d == pending[p]
           x == (dropped \/ pending[p] # 0)
<1>1. /\ ValueTypes(content, ready, runs, renderRun, task[Starter], task[p], emitted[p], d)
      /\ OneProcess(content, ready, runs, renderRun, task[Starter], task[p], emitted[p], d, armed[p], dropped)
      /\ UNCHANGED <<content, ready, runs, renderRun, task, emitted, fired>>
      /\ armed'[p] = FALSE /\ pending'[p] = 0 /\ dropped' = x
  BY TypesOf DEF RestartInv, OneProcessAt, StopSuperseder, SupersederInv, DebounceTypes
<1>2. x <=> dropped \/ d # 0
  OBVIOUS
<1>3. task[Starter].pc # "idle" /\ task[Starter].began < content => content # 0
  BY <1>1 DEF ValueTypes, TaskRecords
<1> HIDE DEF d, x
<1>4. OneProcess(content, ready, runs, renderRun, task[Starter], task[p], emitted[p], 0, FALSE, x)
  BY <1>1, <1>2, <1>3, DebounceOnly DEF Due, LastIsDue
<1> QED  BY <1>1, <1>4 DEF OneProcessAt, PendingLives

LEMMA CallbackFresh ==
    ASSUME NEW p \in EditProcs, RestartInv(p), NEW b, Callback(p, b), SupersederInv'
    PROVE  OneProcessAt(p)' /\ PendingLives(p)'
<1> DEFINE s == task[Starter]
           k == task[p]
           d == pending[p]
<1>1. /\ ValueTypes(content, ready, runs, renderRun, s, k, emitted[p], d) /\ p # Starter
      /\ OneProcess(content, ready, runs, renderRun, s, k, emitted[p], d, armed[p], dropped)
      /\ UNCHANGED <<content, ready, runs, renderRun, emitted, armed, dropped>>
      /\ fired'[p] = fired[p] \ {b} /\ b \in fired[p] /\ k.pc = "idle"
  BY TypesOf DEF RestartInv, OneProcessAt, Callback, SupersederInv, DebounceTypes, TaskAt
<1>2. CASE IsCurrent(p, b)
  <2> DEFINE l == [NoTask EXCEPT !.pc = "active", !.began = b.began]
  <2>1. pending'[p] = 0 /\ task'[p] = l /\ task'[Starter] = s
    BY <1>1, <1>2, TypesOf DEF Callback, SetTask, RestartInv, SupersederInv, DebounceTypes, RunTypes
  <2>2. l.pc = "active" /\ l.content = 0 /\ l.began = b.began
    BY DEF NoTask
  <2>3. ~armed[p]
    <3>1. armed[p] => b.edit < d
      BY <1>1 DEF RestartInv, SupersederInv, SupersederAt, OneSuperseder, TimerOK
    <3> QED  BY <1>1, <1>2, <3>1 DEF IsCurrent, ValueTypes
  <2> HIDE DEF l, s, k, d
  <2>4. /\ StartAlone(runs, renderRun, s) /\ RestartAlone(runs, renderRun, s, l) /\ RunsOK(runs, renderRun, s, l)
        /\ MakesOf(content, ready, runs, renderRun, s)
    BY <1>1, <2>2 DEF OneProcess, RestartAlone, RunsOK
  <2>5. MakesOf(content, ready, runs, renderRun, l) /\ StaleRestart(content, l, emitted[p], 0, dropped)
    BY <1>1, <2>2 DEF MakesOf, StaleRestart, ValueTypes
  <2>6. StaleStart(content, s, emitted[p], 0, armed[p], dropped)
    BY <1>1, <2>3 DEF OneProcess, StaleStart
  <2>7. RestIsFresh(content, ready, runs, renderRun, s, l, emitted[p], 0, dropped)
    BY <1>1, <2>2 DEF OneProcess, RestIsFresh
  <2>8. OneProcess(content, ready, runs, renderRun, s, l, emitted[p], 0, armed[p], dropped)
    BY <2>4, <2>5, <2>6, <2>7 DEF OneProcess
  <2> QED  BY <1>1, <2>1, <2>8 DEF OneProcessAt, PendingLives
<1>3. CASE ~IsCurrent(p, b)
  <2>1. pending' = pending /\ task' = task
    BY <1>3 DEF Callback
  <2> QED  BY <1>1, <1>3, <2>1 DEF OneProcessAt, PendingLives, IsCurrent, RestartInv
<1> QED  BY <1>2, <1>3

LEMMA EditFresh ==
    ASSUME NEW p \in EditProcs, RestartInv(p), EditScene(p), SupersederInv'
    PROVE  OneProcessAt(p)' /\ PendingLives(p)'
<1> DEFINE s == task[Starter]
           k == task[p]
           c == content + 1
           y == ready'
           a == armed[p]
           d == pending[p]
           R == renderRun
           n == runs
           x == dropped
<1>1. /\ ValueTypes(content, ready, n, R, s, k, emitted[p], d)
      /\ OneProcess(content, ready, n, R, s, k, emitted[p], d, a, x)
      /\ UNCHANGED <<runs, renderRun, task, pending, armed, fired, dropped>>
      /\ content' = c /\ emitted'[p] = c /\ content \in Nat /\ c \in Nat /\ content < c /\ c # 0
  BY TypesOf DEF RestartInv, OneProcessAt, EditScene, SupersederInv, DebounceTypes, RunTypes
<1>2. s.began \in Nat /\ s.content \in Nat /\ k.content \in Nat
  BY <1>1 DEF ValueTypes, TaskRecords
<1> HIDE DEF s, k, c, y, a, d, R, n, x
<1>3. MakesOf(c, y, n, R, s) /\ MakesOf(c, y, n, R, k)
  BY <1>1, <1>2 DEF OneProcess, MakesOf
<1>4. StaleStart(c, s, c, d, a, x) /\ StaleRestart(c, k, c, d, x) /\ RestIsFresh(c, y, n, R, s, k, c, d, x)
  BY <1>1, <1>2 DEF OneProcess, StaleStart, StaleRestart, RestIsFresh, LastIsDue, Due
<1>5. OneProcess(c, y, n, R, s, k, c, d, a, x)
  BY <1>1, <1>3, <1>4 DEF OneProcess
<1>6. PendingLives(p)'
  BY <1>1 DEF PendingLives, RestartInv
<1> QED  BY <1>1, <1>5, <1>6 DEF OneProcessAt, s, k, y, a, d, R, n, x

LEMMA StartFresh ==
    ASSUME NEW p \in EditProcs, EditProcs = {p}, RestartInv(p), StartRender, SupersederInv'
    PROVE  OneProcessAt(p)' /\ PendingLives(p)'
<1> DEFINE s == task[Starter]
           k == task[p]
           l == [NoTask EXCEPT !.pc = "prepare", !.began = content]
           c == content
           y == ready
           a == armed[p]
           e == emitted[p]
           d == pending[p]
           R == renderRun
           n == runs
           x == dropped
<1>1. /\ ValueTypes(c, y, n, R, s, k, e, d) /\ OneProcess(c, y, n, R, s, k, e, d, a, x)
      /\ UNCHANGED <<content, ready, runs, renderRun, emitted, pending, armed, fired, dropped>>
      /\ s.pc = "idle" /\ k.pc = "idle" /\ task'[p] = k /\ task'[Starter] = l /\ c \in Nat
  BY TypesOf DEF RestartInv, OneProcessAt, StartRender, SetTask, TaskAt, debounce, SupersederInv, RunTypes
<1>2. l.pc = "prepare" /\ l.began = c /\ l.content = 0
  BY DEF NoTask
<1>3. ActiveRuns = {}
  BY DEF StartRender
<1>4. LiveRuns(n, R) = {}
  <2>1. \A r \in LiveRuns(n, R) : R[r].linked
    BY <1>1 DEF OneProcess, RunsOK
  <2> QED  BY <1>3, <2>1 DEF LiveRuns, ActiveRuns
<1> HIDE DEF s, k, l, c, y, a, e, d, R, n, x
<1>5. StartAlone(n, R, l) /\ RestartAlone(n, R, l, k) /\ RunsOK(n, R, l, k)
  BY <1>1, <1>2, <1>4 DEF OneProcess, StartAlone, RestartAlone, RunsOK
<1>6. MakesOf(c, y, n, R, l) /\ StaleStart(c, l, e, d, a, x)
  BY <1>1, <1>2 DEF MakesOf, StaleStart
<1>7. RestIsFresh(c, y, n, R, l, k, e, d, x)
  BY <1>2 DEF RestIsFresh
<1>8. OneProcess(c, y, n, R, l, k, e, d, a, x)
  BY <1>1, <1>5, <1>6, <1>7 DEF OneProcess
<1> QED  BY <1>1, <1>8 DEF OneProcessAt, PendingLives, RestartInv, c, y, a, e, d, R, n, x

\* A run that ends by itself disturbs nobody.
LEMMA FewerLive ==
    ASSUME NEW c, NEW y, NEW n, NEW R, NEW s, NEW k, NEW e, NEW d, NEW a, NEW x,
           ValueTypes(c, y, n, R, s, k, e, d), OneProcess(c, y, n, R, s, k, e, d, a, x),
           NEW q \in 1..n, R[q].status = "active"
    PROVE  OneProcess(c, y, n, [R EXCEPT ![q].status = "done"], s, k, e, d, a, x)
<1> DEFINE Q == [R EXCEPT ![q].status = "done"]
<1>1. /\ \A r \in 1..n : Q[r].content = R[r].content /\ Q[r].by = R[r].by /\ (Q[r].linked <=> R[r].linked)
      /\ \A r \in 1..n : r # q => Q[r].status = R[r].status
      /\ Q[q].status = "done"
  BY DEF ValueTypes, RunRecords
<1>2. R[q].by = 0
  BY DEF OneProcess, RunsOK
<1> HIDE DEF Q
<1>3. LiveRuns(n, Q) \subseteq LiveRuns(n, R)
  BY <1>1 DEF LiveRuns
<1>4. StartAlone(n, Q, s)
  <2>1. s.pc = "link" => s.new \in 1..n
    BY DEF OneProcess, MakesOf
  <2> QED  BY <1>1, <1>3, <2>1 DEF OneProcess, StartAlone
<1>5. RestartAlone(n, Q, s, k)
  BY <1>1, <1>3 DEF OneProcess, RestartAlone
<1>6. RunsOK(n, Q, s, k)
  <2>1. LiveRuns(n, Q) \subseteq 1..n
    BY DEF LiveRuns
  <2> QED  BY <1>1, <1>2, <1>3, <2>1 DEF OneProcess, RunsOK
<1>7. MakesOf(c, y, n, Q, s) /\ MakesOf(c, y, n, Q, k)
  BY <1>1 DEF OneProcess, MakesOf
<1>8. RestIsFresh(c, y, n, Q, s, k, e, d, x)
  <2>1. LiveRuns(n, Q) \subseteq 1..n
    BY DEF LiveRuns
  <2> QED  BY <1>1, <1>3, <2>1 DEF OneProcess, RestIsFresh
<1>9. OneProcess(c, y, n, Q, s, k, e, d, a, x)
  BY <1>4, <1>5, <1>6, <1>7, <1>8 DEF OneProcess
<1> QED  BY <1>9 DEF Q

LEMMA EndFresh ==
    ASSUME NEW p \in EditProcs, RestartInv(p), NEW r \in 1..runs, RunEnds(r), SupersederInv'
    PROVE  OneProcessAt(p)' /\ PendingLives(p)'
<1>1. /\ renderRun' = [renderRun EXCEPT ![r].status = "done"] /\ renderRun[r].status = "active"
      /\ UNCHANGED <<content, ready, runs, task, emitted, pending, armed, fired, dropped>>
  BY DEF RunEnds, SetRun, debounce
<1>2. OneProcess(content, ready, runs, renderRun', task[Starter], task[p], emitted[p], pending[p], armed[p], dropped)
  BY <1>1, TypesOf, FewerLive DEF RestartInv, OneProcessAt
<1> QED  BY <1>1, <1>2 DEF OneProcessAt, PendingLives, RestartInv

\* The steps of a task, over values; debounce and content stay.
LEMMA FinishIs ==
    ASSUME NEW t \in Tasks, SupersederInv, FinishTask(t)
    PROVE  /\ task'[t] = NoTask /\ \A u \in Tasks \ {t} : task'[u] = task[u]
           /\ UNCHANGED <<emitted, pending, armed, fired, dropped>>
BY DEF FinishTask, SetTask, SupersederInv, RunTypes

LEMMA MovesIs ==
    ASSUME NEW t \in Tasks, SupersederInv, NEW k, SetTask(t, k)
    PROVE  task'[t] = k /\ \A u \in Tasks \ {t} : task'[u] = task[u]
BY DEF SetTask, SupersederInv, RunTypes

\* From values to the state after a step of the restart or of StartRender.
LEMMA AfterRestart ==
    ASSUME NEW p \in EditProcs, RestartInv(p), NEW l,
           task'[p] = l, \A u \in Tasks \ {p} : task'[u] = task[u],
           UNCHANGED <<content, ready, emitted, pending, armed, fired, dropped>>,
           OneProcess(content, ready, runs', renderRun', task[Starter], l, emitted[p], pending[p], armed[p], dropped)
    PROVE  OneProcessAt(p)' /\ PendingLives(p)'
<1>1. task'[Starter] = task[Starter]
  BY TypesOf DEF RestartInv
<1> QED  BY <1>1 DEF OneProcessAt, PendingLives, RestartInv

LEMMA AfterStart ==
    ASSUME NEW p \in EditProcs, RestartInv(p), NEW l,
           task'[Starter] = l, \A u \in Tasks \ {Starter} : task'[u] = task[u],
           UNCHANGED <<content, ready, emitted, pending, armed, fired, dropped>>,
           OneProcess(content, ready, runs', renderRun', l, task[p], emitted[p], pending[p], armed[p], dropped)
    PROVE  OneProcessAt(p)' /\ PendingLives(p)'
<1>1. task'[p] = task[p]
  BY TypesOf DEF RestartInv
<1> QED  BY <1>1 DEF OneProcessAt, PendingLives, RestartInv

\* GetActiveRenderRun sees every active run, unless StartRender is at its link.
LEMMA ReadFresh ==
    ASSUME NEW p \in EditProcs, RestartInv(p), ReadActive(p), SupersederInv'
    PROVE  OneProcessAt(p)' /\ PendingLives(p)'
<1> DEFINE s == task[Starter]
           k == task[p]
           c == content
           y == ready
           a == armed[p]
           e == emitted[p]
           d == pending[p]
           R == renderRun
           n == runs
           x == dropped
<1>1. /\ ValueTypes(c, y, n, R, s, k, e, d) /\ OneProcess(c, y, n, R, s, k, e, d, a, x) /\ k.pc = "active"
      /\ UNCHANGED <<content, ready, runs, renderRun>> /\ p \in Tasks /\ SupersederInv
  BY TypesOf DEF RestartInv, OneProcessAt, ReadActive, TaskAt
<1>2. /\ ActiveRuns \subseteq LiveRuns(n, R)
      /\ s.pc # "link" => LiveRuns(n, R) \subseteq ActiveRuns
      /\ s.pc # "idle" => ActiveRuns = {}
  <2>1. ActiveRuns = {r \in LiveRuns(n, R) : R[r].linked}
    BY DEF ActiveRuns, LiveRuns
  <2>2. s.pc # "link" => \A r \in LiveRuns(n, R) : R[r].linked
    BY <1>1 DEF OneProcess, RunsOK
  <2>3. s.pc # "idle" => \A r \in LiveRuns(n, R) : ~R[r].linked
    BY <1>1 DEF OneProcess, StartAlone
  <2> QED  BY <2>1, <2>2, <2>3
<1>3. CASE ActiveRuns = {}
  <2> DEFINE l == NoTask
  <2>1. l.pc = "idle" /\ l.content = 0
    BY NoTaskIs
  <2>2. FinishTask(p)
    BY <1>3 DEF ReadActive
  <2>3. s.pc = "idle" => LiveRuns(n, R) = {}
    BY <1>2, <1>3
  <2> HIDE DEF s, k, c, y, a, e, d, R, n, x, l
  <2>4. RestartAlone(n, R, s, l) /\ RunsOK(n, R, s, l)
    BY <1>1, <2>1 DEF OneProcess, RestartAlone, RunsOK
  <2>5. MakesOf(c, y, n, R, l) /\ StaleRestart(c, l, e, d, x) /\ RestIsFresh(c, y, n, R, s, l, e, d, x)
    BY <1>1, <2>1, <2>3 DEF MakesOf, StaleRestart, RestIsFresh, ValueTypes
  <2>6. OneProcess(c, y, n, R, s, l, e, d, a, x)
    BY <1>1, <2>4, <2>5 DEF OneProcess
  <2>7. task'[p] = l /\ (\A u \in Tasks \ {p} : task'[u] = task[u]) /\ UNCHANGED <<emitted, pending, armed, fired, dropped>>
    BY <1>1, <2>2, FinishIs DEF l
  <2> QED  BY <1>1, <2>6, <2>7, AfterRestart DEF s, k, c, y, a, e, d, R, n, x
<1>4. CASE ActiveRuns # {}
  <2> DEFINE m == Newest(ActiveRuns)
             l == [task[p] EXCEPT !.pc = "prepare", !.old = m]
  <2>1. m \in ActiveRuns /\ s.pc = "idle" /\ m \in LiveRuns(n, R)
    BY <1>1, <1>2, <1>4, NewestActive DEF SupersederInv
  <2>2. SetTask(p, l) /\ UNCHANGED debounce
    BY <1>4 DEF ReadActive
  <2> HIDE DEF m
  <2>3. l.pc = "prepare" /\ l.old = m /\ l.content = k.content
    BY <1>1 DEF ValueTypes, TaskRecords
  <2>4. task'[p] = l /\ \A u \in Tasks \ {p} : task'[u] = task[u]
    BY <1>1, <2>2, MovesIs
  <2> HIDE DEF s, k, c, y, a, e, d, R, n, x, l
  <2>5. m \in 1..n /\ R[m].status = "active" /\ LiveRuns(n, R) \subseteq {m}
    BY <1>1, <2>1 DEF LiveRuns, OneProcess, RestIsFresh
  <2>6. RestartAlone(n, R, s, l) /\ RunsOK(n, R, s, l)
    BY <1>1, <2>1, <2>3, <2>5 DEF OneProcess, RestartAlone, RunsOK
  <2>7. MakesOf(c, y, n, R, l) /\ StaleRestart(c, l, e, d, x) /\ RestIsFresh(c, y, n, R, s, l, e, d, x)
    BY <1>1, <2>3 DEF OneProcess, MakesOf, StaleRestart, RestIsFresh
  <2>8. OneProcess(c, y, n, R, s, l, e, d, a, x)
    BY <1>1, <2>6, <2>7 DEF OneProcess
  <2> QED  BY <1>1, <2>2, <2>4, <2>8, AfterRestart DEF s, k, c, y, a, e, d, R, n, x, debounce
<1> QED  BY <1>3, <1>4

LEMMA PrepareRestartFresh ==
    ASSUME NEW p \in EditProcs, RestartInv(p), PrepareFreeze(p), SupersederInv'
    PROVE  OneProcessAt(p)' /\ PendingLives(p)'
<1> DEFINE s == task[Starter]
           k == task[p]
           c == content
           y == ready
           a == armed[p]
           e == emitted[p]
           d == pending[p]
           R == renderRun
           n == runs
           x == dropped
           l == IF ready THEN [task[p] EXCEPT !.pc = "insert", !.content = content] ELSE [task[p] EXCEPT !.pc = "cancelOld"]
<1>1. /\ ValueTypes(c, y, n, R, s, k, e, d) /\ OneProcess(c, y, n, R, s, k, e, d, a, x) /\ k.pc = "prepare"
      /\ UNCHANGED <<content, ready, runs, renderRun>> /\ p \in Tasks /\ SupersederInv
  BY TypesOf DEF RestartInv, OneProcessAt, PrepareFreeze, TaskAt
<1>2. SetTask(p, l) /\ UNCHANGED debounce
  BY DEF PrepareFreeze, TaskTo
<1>3. task'[p] = l /\ \A u \in Tasks \ {p} : task'[u] = task[u]
  BY <1>1, <1>2, MovesIs
<1>4. l.pc = (IF y THEN "insert" ELSE "cancelOld") /\ l.old = k.old /\ l.content = (IF y THEN c ELSE k.content)
  BY <1>1 DEF ValueTypes, TaskRecords
<1> HIDE DEF s, k, c, y, a, e, d, R, n, x, l
<1>5. RestartAlone(n, R, s, l) /\ RunsOK(n, R, s, l)
  BY <1>1, <1>4 DEF OneProcess, RestartAlone, RunsOK
<1>6. MakesOf(c, y, n, R, l) /\ StaleRestart(c, l, e, d, x) /\ RestIsFresh(c, y, n, R, s, l, e, d, x)
  BY <1>1, <1>4 DEF OneProcess, MakesOf, StaleRestart, RestIsFresh, ValueTypes
<1>7. OneProcess(c, y, n, R, s, l, e, d, a, x)
  BY <1>1, <1>5, <1>6 DEF OneProcess
<1> QED  BY <1>1, <1>2, <1>3, <1>7, AfterRestart DEF s, k, c, y, a, e, d, R, n, x, debounce

LEMMA PrepareStartFresh ==
    ASSUME NEW p \in EditProcs, RestartInv(p), PrepareFreeze(Starter), SupersederInv'
    PROVE  OneProcessAt(p)' /\ PendingLives(p)'
<1> DEFINE s == task[Starter]
           k == task[p]
           c == content
           y == ready
           a == armed[p]
           e == emitted[p]
           d == pending[p]
           R == renderRun
           n == runs
           x == dropped
<1>1. /\ ValueTypes(c, y, n, R, s, k, e, d) /\ OneProcess(c, y, n, R, s, k, e, d, a, x) /\ s.pc = "prepare"
      /\ UNCHANGED <<content, ready, runs, renderRun>> /\ Starter \in Tasks /\ SupersederInv
  BY TypesOf DEF RestartInv, OneProcessAt, PrepareFreeze, TaskAt
<1>2. k.pc \in {"idle", "active"} /\ LiveRuns(n, R) = {}
  BY <1>1 DEF OneProcess, RestartAlone, StartAlone
<1>3. CASE ready
  <2> DEFINE l == [task[Starter] EXCEPT !.pc = "insert", !.content = content]
  <2>1. SetTask(Starter, l) /\ UNCHANGED debounce
    BY <1>3 DEF PrepareFreeze
  <2>2. task'[Starter] = l /\ \A u \in Tasks \ {Starter} : task'[u] = task[u]
    BY <1>1, <2>1, MovesIs
  <2>3. l.pc = "insert" /\ l.content = c /\ l.began = s.began
    BY <1>1 DEF ValueTypes, TaskRecords
  <2> HIDE DEF s, k, c, a, e, d, R, n, x, l
  <2>4. StartAlone(n, R, l) /\ RestartAlone(n, R, l, k) /\ RunsOK(n, R, l, k)
    BY <1>1, <1>2, <2>3 DEF OneProcess, StartAlone, RestartAlone, RunsOK
  <2>5. MakesOf(c, y, n, R, l) /\ StaleStart(c, l, e, d, a, x) /\ RestIsFresh(c, y, n, R, l, k, e, d, x)
    BY <1>1, <1>3, <2>3 DEF OneProcess, MakesOf, StaleStart, RestIsFresh, ValueTypes
  <2>6. OneProcess(c, y, n, R, l, k, e, d, a, x)
    BY <1>1, <2>4, <2>5 DEF OneProcess
  <2> QED  BY <1>1, <2>1, <2>2, <2>6, AfterStart DEF s, k, c, a, e, d, R, n, x, debounce
<1>4. CASE ~ready
  <2> DEFINE l == NoTask
  <2>1. l.pc = "idle" /\ l.content = 0 /\ l.began = 0
    BY NoTaskIs
  <2>2. FinishTask(Starter)
    BY <1>4 DEF PrepareFreeze
  <2>3. /\ task'[Starter] = l /\ (\A u \in Tasks \ {Starter} : task'[u] = task[u])
        /\ UNCHANGED <<emitted, pending, armed, fired, dropped>>
    BY <1>1, <2>2, FinishIs
  <2> HIDE DEF s, k, c, y, a, e, d, R, n, x, l
  <2>4. StartAlone(n, R, l) /\ RestartAlone(n, R, l, k) /\ RunsOK(n, R, l, k)
    BY <1>1, <1>2, <2>1 DEF OneProcess, StartAlone, RestartAlone, RunsOK
  <2>5. MakesOf(c, y, n, R, l) /\ StaleStart(c, l, e, d, a, x) /\ RestIsFresh(c, y, n, R, l, k, e, d, x)
    BY <1>1, <1>2, <2>1 DEF OneProcess, MakesOf, StaleStart, RestIsFresh, ValueTypes
  <2>6. OneProcess(c, y, n, R, l, k, e, d, a, x)
    BY <1>1, <2>4, <2>5 DEF OneProcess
  <2> QED  BY <1>1, <2>3, <2>6, AfterStart DEF s, k, c, y, a, e, d, R, n, x
<1> QED  BY <1>3, <1>4

LEMMA EnqueueRestartFresh ==
    ASSUME NEW p \in EditProcs, RestartInv(p), EnqueueRun(p), SupersederInv'
    PROVE  OneProcessAt(p)' /\ PendingLives(p)'
<1> DEFINE s == task[Starter]
           k == task[p]
           c == content
           y == ready
           a == armed[p]
           e == emitted[p]
           d == pending[p]
           R == renderRun
           n == runs
           x == dropped
           m == runs + 1
           v == [NoRenderRun EXCEPT !.status = "active", !.content = task[p].content]
           Q == [renderRun EXCEPT ![m] = v]
           l == [task[p] EXCEPT !.pc = "link", !.new = m]
<1>1. /\ ValueTypes(c, y, n, R, s, k, e, d) /\ OneProcess(c, y, n, R, s, k, e, d, a, x) /\ k.pc = "insert"
      /\ UNCHANGED <<content, ready>> /\ p \in Tasks /\ SupersederInv /\ m \in RunIds /\ m = n + 1
  BY TypesOf DEF RestartInv, OneProcessAt, EnqueueRun, TaskAt, ValueTypes
<1>2. SetTask(p, l) /\ UNCHANGED debounce /\ runs' = m /\ renderRun' = Q
  BY DEF EnqueueRun
<1>3. task'[p] = l /\ \A u \in Tasks \ {p} : task'[u] = task[u]
  BY <1>1, <1>2, MovesIs
<1>4. v.status = "active" /\ v.content = k.content /\ v.by = 0 /\ ~v.linked
  <2>1. k.content \in 0..MaxEdits
    BY <1>1 DEF ValueTypes, TaskRecords
  <2> QED  BY <2>1, NewRunIs
<1> HIDE DEF v
<1>5. Q[m] = v /\ \A r \in 1..n : r # m /\ Q[r] = R[r]
  BY <1>1 DEF ValueTypes
<1> HIDE DEF m
<1>6. l.pc = "link" /\ l.old = k.old /\ l.content = k.content /\ l.began = k.began /\ l.new = m
  BY <1>1 DEF ValueTypes, TaskRecords
<1> HIDE DEF s, k, c, y, a, e, d, R, n, x, l, Q
<1>7. n \in Nat /\ 1..m = (1..n) \cup {m} /\ m \in 1..m
  BY <1>1 DEF ValueTypes
<1>8. LiveRuns(m, Q) = LiveRuns(n, R) \cup {m} /\ LiveRuns(n, R) \subseteq 1..n
  BY <1>4, <1>5, <1>7 DEF LiveRuns
<1>9. StartAlone(m, Q, s) /\ RestartAlone(m, Q, s, l)
  BY <1>1, <1>4, <1>5, <1>6, <1>7, <1>8 DEF OneProcess, StartAlone, RestartAlone
<1>10. RunsOK(m, Q, s, l)
  BY <1>1, <1>4, <1>5, <1>6, <1>7, <1>8 DEF OneProcess, RunsOK, StartAlone, RestartAlone
<1>11. MakesOf(c, y, m, Q, s) /\ MakesOf(c, y, m, Q, l)
  BY <1>1, <1>4, <1>5, <1>6, <1>7 DEF OneProcess, MakesOf, StartAlone, RestartAlone
<1>12. StaleStart(c, s, e, d, a, x) /\ StaleRestart(c, l, e, d, x) /\ RestIsFresh(c, y, m, Q, s, l, e, d, x)
  BY <1>1, <1>6 DEF OneProcess, StaleStart, StaleRestart, RestIsFresh
<1>13. OneProcess(c, y, m, Q, s, l, e, d, a, x)
  BY <1>9, <1>10, <1>11, <1>12 DEF OneProcess
<1> QED  BY <1>1, <1>2, <1>3, <1>13, AfterRestart DEF s, k, c, y, a, e, d, x, debounce

LEMMA EnqueueStartFresh ==
    ASSUME NEW p \in EditProcs, RestartInv(p), EnqueueRun(Starter), SupersederInv'
    PROVE  OneProcessAt(p)' /\ PendingLives(p)'
<1> DEFINE s == task[Starter]
           k == task[p]
           c == content
           y == ready
           a == armed[p]
           e == emitted[p]
           d == pending[p]
           R == renderRun
           n == runs
           x == dropped
           m == runs + 1
           v == [NoRenderRun EXCEPT !.status = "active", !.content = task[Starter].content]
           Q == [renderRun EXCEPT ![m] = v]
           l == [task[Starter] EXCEPT !.pc = "link", !.new = m]
<1>1. /\ ValueTypes(c, y, n, R, s, k, e, d) /\ OneProcess(c, y, n, R, s, k, e, d, a, x) /\ s.pc = "insert"
      /\ UNCHANGED <<content, ready>> /\ Starter \in Tasks /\ SupersederInv /\ m \in RunIds /\ m = n + 1
  BY TypesOf DEF RestartInv, OneProcessAt, EnqueueRun, TaskAt, ValueTypes
<1>2. SetTask(Starter, l) /\ UNCHANGED debounce /\ runs' = m /\ renderRun' = Q
  BY DEF EnqueueRun
<1>3. task'[Starter] = l /\ \A u \in Tasks \ {Starter} : task'[u] = task[u]
  BY <1>1, <1>2, MovesIs
<1>4. v.status = "active" /\ v.content = s.content /\ v.by = 0 /\ ~v.linked
  <2>1. s.content \in 0..MaxEdits
    BY <1>1 DEF ValueTypes, TaskRecords
  <2> QED  BY <2>1, NewRunIs
<1> HIDE DEF v
<1>5. Q[m] = v /\ \A r \in 1..n : r # m /\ Q[r] = R[r]
  BY <1>1 DEF ValueTypes
<1> HIDE DEF m
<1>6. l.pc = "link" /\ l.old = s.old /\ l.content = s.content /\ l.began = s.began /\ l.new = m
  BY <1>1 DEF ValueTypes, TaskRecords
<1> HIDE DEF s, k, c, y, a, e, d, R, n, x, l, Q
<1>7. n \in Nat /\ 1..m = (1..n) \cup {m} /\ m \in 1..m
  BY <1>1 DEF ValueTypes
<1>8. LiveRuns(m, Q) = LiveRuns(n, R) \cup {m} /\ LiveRuns(n, R) \subseteq 1..n
  BY <1>4, <1>5, <1>7 DEF LiveRuns
<1>9. StartAlone(m, Q, l) /\ RestartAlone(m, Q, l, k)
  BY <1>1, <1>4, <1>5, <1>6, <1>7, <1>8 DEF OneProcess, StartAlone, RestartAlone
<1>10. RunsOK(m, Q, l, k)
  BY <1>1, <1>4, <1>5, <1>6, <1>7, <1>8 DEF OneProcess, RunsOK, StartAlone, RestartAlone
<1>11. MakesOf(c, y, m, Q, l) /\ MakesOf(c, y, m, Q, k)
  BY <1>1, <1>4, <1>5, <1>6, <1>7 DEF OneProcess, MakesOf, StartAlone, RestartAlone
<1>12. StaleStart(c, l, e, d, a, x) /\ StaleRestart(c, k, e, d, x) /\ RestIsFresh(c, y, m, Q, l, k, e, d, x)
  BY <1>1, <1>6 DEF OneProcess, StaleStart, StaleRestart, RestIsFresh
<1>13. OneProcess(c, y, m, Q, l, k, e, d, a, x)
  BY <1>9, <1>10, <1>11, <1>12 DEF OneProcess
<1> QED  BY <1>1, <1>2, <1>3, <1>13, AfterStart DEF s, k, c, y, a, e, d, x, debounce

LEMMA LinkRestartFresh ==
    ASSUME NEW p \in EditProcs, RestartInv(p), SetManifestRun(p), SupersederInv'
    PROVE  OneProcessAt(p)' /\ PendingLives(p)'
<1> DEFINE s == task[Starter]
           k == task[p]
           c == content
           y == ready
           a == armed[p]
           e == emitted[p]
           d == pending[p]
           R == renderRun
           n == runs
           x == dropped
           Q == [renderRun EXCEPT ![task[p].new].linked = TRUE]
           l == [task[p] EXCEPT !.pc = "supersede"]
<1>1. /\ ValueTypes(c, y, n, R, s, k, e, d) /\ OneProcess(c, y, n, R, s, k, e, d, a, x) /\ k.pc = "link"
      /\ UNCHANGED <<content, ready>> /\ p \in Tasks /\ SupersederInv
  BY TypesOf DEF RestartInv, OneProcessAt, SetManifestRun, TaskAt
<1>2. SetTask(p, l) /\ UNCHANGED debounce /\ runs' = n /\ renderRun' = Q
  BY DEF SetManifestRun, TaskTo
<1>3. /\ task'[p] = l /\ (\A u \in Tasks \ {p} : task'[u] = task[u])
      /\ UNCHANGED <<emitted, pending, armed, fired, dropped>>
  BY <1>1, <1>2, MovesIs DEF debounce
<1>4. l.pc = "supersede" /\ l.old = k.old /\ l.content = k.content /\ l.began = k.began /\ l.new = k.new
  BY <1>1 DEF ValueTypes, TaskRecords
<1>5. k.new \in 1..n /\ n \in Nat
  BY <1>1 DEF OneProcess, MakesOf, ValueTypes
<1>6. \A r \in 1..n : /\ Q[r].status = R[r].status /\ Q[r].by = R[r].by /\ Q[r].content = R[r].content
                      /\ Q[r].linked <=> R[r].linked \/ r = k.new
  BY <1>1, <1>5 DEF ValueTypes, RunRecords
<1> HIDE DEF s, k, c, y, a, e, d, R, n, x, l, Q
<1>7. LiveRuns(n, Q) = LiveRuns(n, R) /\ LiveRuns(n, R) \subseteq 1..n
  BY <1>6 DEF LiveRuns
<1>8. StartAlone(n, Q, s) /\ RestartAlone(n, Q, s, l)
  BY <1>1, <1>4, <1>5, <1>6, <1>7 DEF OneProcess, StartAlone, RestartAlone
<1>9. RunsOK(n, Q, s, l)
  BY <1>1, <1>4, <1>5, <1>6, <1>7 DEF OneProcess, RunsOK
<1>10. MakesOf(c, y, n, Q, s) /\ MakesOf(c, y, n, Q, l)
  BY <1>1, <1>4, <1>5, <1>6 DEF OneProcess, MakesOf, ValueTypes
<1>11. StaleStart(c, s, e, d, a, x) /\ StaleRestart(c, l, e, d, x) /\ RestIsFresh(c, y, n, Q, s, l, e, d, x)
  BY <1>1, <1>4 DEF OneProcess, StaleStart, StaleRestart, RestIsFresh
<1>20. OneProcess(c, y, n, Q, s, l, e, d, a, x)
  BY <1>8, <1>9, <1>10, <1>11 DEF OneProcess
<1> QED  BY <1>1, <1>2, <1>3, <1>20, AfterRestart DEF s, k, c, y, a, e, d, n, x

LEMMA LinkStartFresh ==
    ASSUME NEW p \in EditProcs, RestartInv(p), SetManifestRun(Starter), SupersederInv'
    PROVE  OneProcessAt(p)' /\ PendingLives(p)'
<1> DEFINE s == task[Starter]
           k == task[p]
           c == content
           y == ready
           a == armed[p]
           e == emitted[p]
           d == pending[p]
           R == renderRun
           n == runs
           x == dropped
           Q == [renderRun EXCEPT ![task[Starter].new].linked = TRUE]
           l == NoTask
<1>1. /\ ValueTypes(c, y, n, R, s, k, e, d) /\ OneProcess(c, y, n, R, s, k, e, d, a, x) /\ s.pc = "link"
      /\ UNCHANGED <<content, ready>> /\ Starter \in Tasks /\ SupersederInv
  BY TypesOf DEF RestartInv, OneProcessAt, SetManifestRun, TaskAt
<1>2. FinishTask(Starter) /\ runs' = n /\ renderRun' = Q
  BY DEF SetManifestRun
<1>3. /\ task'[Starter] = l /\ (\A u \in Tasks \ {Starter} : task'[u] = task[u])
      /\ UNCHANGED <<emitted, pending, armed, fired, dropped>>
  BY <1>1, <1>2, FinishIs
<1>4. l.pc = "idle" /\ l.content = 0 /\ l.began = 0
  BY NoTaskIs
<1>5. s.new \in 1..n /\ n \in Nat
  BY <1>1 DEF OneProcess, MakesOf, ValueTypes
<1>6. \A r \in 1..n : /\ Q[r].status = R[r].status /\ Q[r].by = R[r].by /\ Q[r].content = R[r].content
                      /\ Q[r].linked <=> R[r].linked \/ r = s.new
  BY <1>1, <1>5 DEF ValueTypes, RunRecords
<1> HIDE DEF s, k, c, y, a, e, d, R, n, x, l, Q
<1>7. LiveRuns(n, Q) = LiveRuns(n, R) /\ LiveRuns(n, R) \subseteq 1..n
  BY <1>6 DEF LiveRuns
<1>8. StartAlone(n, Q, l) /\ RestartAlone(n, Q, l, k)
  BY <1>1, <1>4, <1>5, <1>6, <1>7 DEF OneProcess, StartAlone, RestartAlone
<1>9. RunsOK(n, Q, l, k)
  BY <1>1, <1>4, <1>5, <1>6, <1>7 DEF OneProcess, RunsOK
<1>10. MakesOf(c, y, n, Q, l) /\ MakesOf(c, y, n, Q, k)
  BY <1>1, <1>4, <1>5, <1>6 DEF OneProcess, MakesOf, ValueTypes
<1>11. StaleStart(c, l, e, d, a, x) /\ StaleRestart(c, k, e, d, x)
  BY <1>1, <1>4 DEF OneProcess, StaleStart, StaleRestart, ValueTypes
<1>12. ASSUME ~Due(e, d, x) PROVE y /\ s.content = c
  <2>1. s.began \in Nat /\ s.content \in Nat /\ c \in Nat
    BY <1>1 DEF ValueTypes, TaskRecords
  <2>2. s.began <= s.content /\ s.content <= c /\ (s.began < c => LastIsDue(c, e, d, x))
    BY <1>1 DEF OneProcess, StaleStart, MakesOf, LastIsDue
  <2>3. ~(s.began < c)
    BY <1>12, <2>1, <2>2, LastIsOne
  <2> QED  BY <1>1, <2>1, <2>2, <2>3 DEF OneProcess, MakesOf
<1>13. RestIsFresh(c, y, n, Q, l, k, e, d, x)
  BY <1>1, <1>5, <1>6, <1>7, <1>12 DEF OneProcess, RestIsFresh, MakesOf, StartAlone
<1>20. OneProcess(c, y, n, Q, l, k, e, d, a, x)
  BY <1>8, <1>9, <1>10, <1>11, <1>13 DEF OneProcess
<1> QED  BY <1>1, <1>2, <1>3, <1>20, AfterStart DEF s, k, c, y, a, e, d, n, x

\* A restart ends and leaves no active run but its own.
LEMMA RestartEnds ==
    ASSUME NEW c, NEW y, NEW n, NEW R, NEW s, NEW k, NEW e, NEW d, NEW a, NEW x, NEW Q,
           ValueTypes(c, y, n, R, s, k, e, d), OneProcess(c, y, n, R, s, k, e, d, a, x),
           s.pc = "idle", k.pc # "link",
           \A r \in 1..n : /\ Q[r].by = 0 \/ Q[r].status = "superseded"
                           /\ Q[r].content = R[r].content /\ (Q[r].linked <=> R[r].linked),
           LiveRuns(n, Q) \subseteq LiveRuns(n, R),
           \/ LiveRuns(n, Q) = {}
           \/ k.pc \in {"supersede", "recheck"} /\ LiveRuns(n, Q) \subseteq {k.new}
    PROVE  OneProcess(c, y, n, Q, s, NoTask, e, d, a, x)
<1> DEFINE l == NoTask
<1>1. l.pc = "idle" /\ l.content = 0
  BY NoTaskIs
<1>2. LiveRuns(n, Q) \subseteq 1..n
  BY DEF LiveRuns
<1> HIDE DEF l
<1>3. StartAlone(n, Q, s) /\ RestartAlone(n, Q, s, l)
  BY <1>1 DEF StartAlone, RestartAlone
<1>4. RunsOK(n, Q, s, l)
  BY <1>2 DEF OneProcess, RunsOK
<1>5. MakesOf(c, y, n, Q, s) /\ MakesOf(c, y, n, Q, l) /\ StaleRestart(c, l, e, d, x)
  BY <1>1 DEF OneProcess, MakesOf, StaleRestart, ValueTypes
<1>6. RestIsFresh(c, y, n, Q, s, l, e, d, x)
  <2>1. CASE LiveRuns(n, Q) = {}
    BY <2>1 DEF RestIsFresh
  <2>2. CASE k.pc \in {"supersede", "recheck"} /\ LiveRuns(n, Q) \subseteq {k.new}
    <3>1. k.content \in Nat /\ c \in Nat /\ k.content <= c
      BY DEF ValueTypes, TaskRecords, OneProcess, MakesOf
    <3>2. ~Due(e, d, x) => ~(k.content < c)
      BY <2>2, <3>1, LastIsOne DEF OneProcess, StaleRestart
    <3>3. ~Due(e, d, x) => k.content = c
      BY <3>1, <3>2
    <3> QED  BY <1>2, <2>2, <3>3 DEF OneProcess, MakesOf, RestIsFresh
  <2> QED  BY <2>1, <2>2
<1>7. OneProcess(c, y, n, Q, s, l, e, d, a, x)
  BY <1>3, <1>4, <1>5, <1>6 DEF OneProcess
<1> QED  BY <1>7 DEF l

LEMMA SupersedeFresh ==
    ASSUME NEW p \in EditProcs, RestartInv(p), SupersedeRun(p), SupersederInv'
    PROVE  OneProcessAt(p)' /\ PendingLives(p)'
<1> DEFINE s == task[Starter]
           k == task[p]
           c == content
           y == ready
           a == armed[p]
           e == emitted[p]
           d == pending[p]
           R == renderRun
           n == runs
           x == dropped
<1>1. /\ ValueTypes(c, y, n, R, s, k, e, d) /\ OneProcess(c, y, n, R, s, k, e, d, a, x) /\ k.pc = "supersede"
      /\ UNCHANGED <<content, ready, runs>> /\ p \in Tasks /\ SupersederInv
  BY TypesOf DEF RestartInv, OneProcessAt, SupersedeRun, TaskAt
<1>2. /\ s.pc = "idle" /\ k.old \in 1..n /\ k.new \in 1..n /\ k.old # k.new
      /\ LiveRuns(n, R) \subseteq {k.old, k.new} /\ n \in Nat
  BY <1>1 DEF OneProcess, RestartAlone, MakesOf, ValueTypes
<1>3. CASE renderRun[task[p].old].status = "active"
  <2> DEFINE P == [renderRun EXCEPT ![task[p].old].status = "superseded"]
             Q == [P EXCEPT ![task[p].old].by = task[p].new]
  <2>1. renderRun' = Q /\ FinishTask(p)
    BY <1>3 DEF SupersedeRun
  <2>2. /\ P \in [RunIds -> RunRecords] /\ k.old \in RunIds /\ k.new \in 0..MaxRuns
        /\ P[k.old].status = "superseded" /\ P[k.old].content = R[k.old].content /\ (P[k.old].linked <=> R[k.old].linked)
        /\ \A r \in 1..n : r # k.old => P[r] = R[r]
    <3> DEFINE q == task[p].old
    <3>1. R \in [RunIds -> RunRecords] /\ q \in RunIds /\ k.new \in 0..MaxRuns /\ 1..n \subseteq RunIds /\ q = k.old
      BY <1>1, <1>2 DEF ValueTypes, TaskRecords
    <3> HIDE DEF q
    <3>2. P = [R EXCEPT ![q].status = "superseded"]
      BY DEF q
    <3> HIDE DEF P, R, k, n
    <3> QED  BY <3>1, <3>2 DEF RunRecords
  <2> HIDE DEF P
  <2>3. /\ Q[k.old].status = "superseded" /\ Q[k.old].content = R[k.old].content /\ (Q[k.old].linked <=> R[k.old].linked)
        /\ \A r \in 1..n : r # k.old => Q[r] = R[r]
    BY <1>1, <1>2, <2>2 DEF ValueTypes, RunRecords
  <2>4. /\ task'[p] = NoTask /\ (\A u \in Tasks \ {p} : task'[u] = task[u])
        /\ UNCHANGED <<emitted, pending, armed, fired, dropped>>
    BY <1>1, <2>1, FinishIs
  <2> HIDE DEF s, k, c, y, a, e, d, R, n, x, Q
  <2>5. LiveRuns(n, Q) \subseteq LiveRuns(n, R) /\ k.old \notin LiveRuns(n, Q)
    BY <1>2, <2>3 DEF LiveRuns
  <2>6. \A r \in 1..n : /\ Q[r].by = 0 \/ Q[r].status = "superseded"
                        /\ Q[r].content = R[r].content /\ (Q[r].linked <=> R[r].linked)
    BY <1>1, <2>3 DEF OneProcess, RunsOK
  <2>7. OneProcess(c, y, n, Q, s, NoTask, e, d, a, x)
    BY <1>1, <1>2, <2>5, <2>6, RestartEnds
  <2> QED  BY <1>1, <2>1, <2>4, <2>7, AfterRestart DEF s, k, c, y, a, e, d, n, x
<1>4. CASE renderRun[task[p].old].status # "active"
  <2> DEFINE l == [task[p] EXCEPT !.pc = "recheck"]
  <2>1. SetTask(p, l) /\ UNCHANGED <<renderRun, debounce>>
    BY <1>4 DEF SupersedeRun, TaskTo, AfterLost
  <2>2. task'[p] = l /\ \A u \in Tasks \ {p} : task'[u] = task[u]
    BY <1>1, <2>1, MovesIs
  <2>3. l.pc = "recheck" /\ l.old = k.old /\ l.content = k.content /\ l.new = k.new
    BY <1>1 DEF ValueTypes, TaskRecords
  <2>4. R[k.old].status # "active"
    BY <1>4
  <2> HIDE DEF s, k, c, y, a, e, d, R, n, x, l
  <2>5. LiveRuns(n, R) \subseteq {k.new}
    BY <1>2, <2>4 DEF LiveRuns
  <2>6. RestartAlone(n, R, s, l) /\ RunsOK(n, R, s, l) /\ MakesOf(c, y, n, R, l)
    BY <1>1, <1>2, <2>3, <2>5 DEF OneProcess, RestartAlone, RunsOK, MakesOf
  <2>7. StaleRestart(c, l, e, d, x) /\ RestIsFresh(c, y, n, R, s, l, e, d, x)
    BY <1>1, <2>3 DEF OneProcess, StaleRestart, RestIsFresh
  <2>8. OneProcess(c, y, n, R, s, l, e, d, a, x)
    BY <1>1, <2>6, <2>7 DEF OneProcess
  <2> QED  BY <1>1, <2>1, <2>2, <2>8, AfterRestart DEF s, k, c, y, a, e, d, R, n, x, debounce
<1> QED  BY <1>3, <1>4

\* With one process nobody else can have superseded the old run.
LEMMA RecheckFresh ==
    ASSUME NEW p \in EditProcs, RestartInv(p), RecheckOld(p), SupersederInv'
    PROVE  OneProcessAt(p)' /\ PendingLives(p)'
<1> DEFINE s == task[Starter]
           k == task[p]
           c == content
           y == ready
           a == armed[p]
           e == emitted[p]
           d == pending[p]
           R == renderRun
           n == runs
           x == dropped
<1>1. /\ ValueTypes(c, y, n, R, s, k, e, d) /\ OneProcess(c, y, n, R, s, k, e, d, a, x) /\ k.pc = "recheck"
      /\ UNCHANGED <<content, ready, runs, renderRun>> /\ p \in Tasks /\ SupersederInv
  BY TypesOf DEF RestartInv, OneProcessAt, RecheckOld, TaskAt
<1>2. s.pc = "idle" /\ k.old \in 1..n /\ R[k.old].by = 0 /\ LiveRuns(n, R) \subseteq {k.new}
  BY <1>1 DEF OneProcess, RestartAlone, RunsOK
<1>3. ~Duplicates(p)
  BY <1>2 DEF Duplicates
<1>4. FinishTask(p)
  BY <1>3 DEF RecheckOld
<1>5. /\ task'[p] = NoTask /\ (\A u \in Tasks \ {p} : task'[u] = task[u])
      /\ UNCHANGED <<emitted, pending, armed, fired, dropped>>
  BY <1>1, <1>4, FinishIs
<1> HIDE DEF s, k, c, y, a, e, d, R, n, x
<1>6. \A r \in 1..n : R[r].by = 0 \/ R[r].status = "superseded"
  BY <1>1 DEF OneProcess, RunsOK
<1>7. OneProcess(c, y, n, R, s, NoTask, e, d, a, x)
  BY <1>1, <1>2, <1>6, RestartEnds
<1> QED  BY <1>1, <1>5, <1>7, AfterRestart DEF s, k, c, y, a, e, d, R, n, x

LEMMA CancelFresh ==
    ASSUME NEW p \in EditProcs, RestartInv(p), CancelRun(p), SupersederInv'
    PROVE  OneProcessAt(p)' /\ PendingLives(p)'
<1> DEFINE s == task[Starter]
           k == task[p]
           c == content
           y == ready
           a == armed[p]
           e == emitted[p]
           d == pending[p]
           R == renderRun
           n == runs
           x == dropped
           q == task[p].old
           t == IF renderRun[q].status = "active" THEN "canceled" ELSE renderRun[q].status
           Q == [renderRun EXCEPT ![q].status = t]
<1>1. /\ ValueTypes(c, y, n, R, s, k, e, d) /\ OneProcess(c, y, n, R, s, k, e, d, a, x)
      /\ k.pc \in {"cancelOld", "cancelNew"} /\ UNCHANGED <<content, ready, runs>> /\ p \in Tasks /\ SupersederInv
  BY TypesOf DEF RestartInv, OneProcessAt, CancelRun
<1>2. /\ k.pc = "cancelOld" /\ s.pc = "idle" /\ q \in 1..n /\ R[q].by = 0
      /\ LiveRuns(n, R) \subseteq {q} /\ n \in Nat
  BY <1>1 DEF OneProcess, RestartAlone, RunsOK, ValueTypes
<1>3. renderRun' = Q /\ FinishTask(p)
  BY <1>2 DEF CancelRun, TaskAt
<1>4. /\ task'[p] = NoTask /\ (\A u \in Tasks \ {p} : task'[u] = task[u])
      /\ UNCHANGED <<emitted, pending, armed, fired, dropped>>
  BY <1>1, <1>3, FinishIs
<1>5. t # "active" /\ q \in RunIds
  BY <1>1, <1>2 DEF ValueTypes
<1> HIDE DEF t
<1>6. \A r \in 1..n : /\ Q[r].by = R[r].by /\ Q[r].content = R[r].content /\ (Q[r].linked <=> R[r].linked)
                      /\ r = q \/ Q[r].status = R[r].status
                      /\ Q[q].status # "active"
  BY <1>1, <1>2, <1>5 DEF ValueTypes, RunRecords
<1> HIDE DEF s, k, c, y, a, e, d, R, n, x, q, Q
<1>7. LiveRuns(n, Q) = {}
  BY <1>2, <1>6 DEF LiveRuns
<1>8. \A r \in 1..n : Q[r].by = 0 \/ Q[r].status = "superseded"
  BY <1>1, <1>2, <1>6 DEF OneProcess, RunsOK
<1>9. OneProcess(c, y, n, Q, s, NoTask, e, d, a, x)
  BY <1>1, <1>2, <1>6, <1>7, <1>8, RestartEnds
<1> QED  BY <1>1, <1>3, <1>4, <1>9, AfterRestart DEF s, k, c, y, a, e, d, n, x

LEMMA RestartInvStart ==
    ASSUME NEW p \in EditProcs, RestartInit
    PROVE  RestartInv(p)
<1>1. SupersederInv
  BY SupersederStart
<1>2. LiveRuns(runs, renderRun) = {} /\ 1..runs = {}
  BY DEF RestartInit, LiveRuns
<1>3. task[p] = NoTask /\ task[Starter] = NoTask
  BY <1>1, TypesOf DEF RestartInit
<1>4. OneProcessAt(p)
  <2> DEFINE l == NoTask
  <2>1. l.pc = "idle" /\ l.content = 0 /\ l.began = 0
    BY NoTaskIs
  <2> HIDE DEF l
  <2>2. OneProcess(content, ready, runs, renderRun, l, l, emitted[p], pending[p], armed[p], dropped)
    BY <1>2, <2>1 DEF RestartInit, OneProcess, StartAlone, RestartAlone, RunsOK, MakesOf, StaleStart, StaleRestart, RestIsFresh
  <2> QED  BY <1>3, <2>2 DEF OneProcessAt, l
<1> QED  BY <1>1, <1>4 DEF RestartInv, RestartInit, PendingLives

LEMMA RestartInvStep ==
    ASSUME NEW p \in EditProcs, EditProcs = {p}, RestartInv(p), [RestartNext]_restartVars
    PROVE  RestartInv(p)'
<1>1. SupersederInv'
  BY SupersederStep DEF RestartInv
<1>2. CASE UNCHANGED restartVars
  BY <1>1, <1>2 DEF RestartInv, restartVars, OneProcessAt, PendingLives
<1>3. ASSUME TaskStep(p) PROVE OneProcessAt(p)' /\ PendingLives(p)'
  BY <1>1, <1>3, ReadFresh, PrepareRestartFresh, EnqueueRestartFresh, LinkRestartFresh, SupersedeFresh,
     RecheckFresh, CancelFresh DEF TaskStep
<1>4. ASSUME TaskStep(Starter) PROVE OneProcessAt(p)' /\ PendingLives(p)'
  <2>1. task[Starter].pc \in {"idle", "prepare", "insert", "link"}
    BY DEF RestartInv, OneProcessAt, OneProcess, StartAlone
  <2>2. PrepareFreeze(Starter) \/ EnqueueRun(Starter) \/ SetManifestRun(Starter)
    BY <1>4, <2>1 DEF TaskStep, ReadActive, SupersedeRun, RecheckOld, CancelRun, TaskAt
  <2> QED  BY <1>1, <2>2, PrepareStartFresh, EnqueueStartFresh, LinkStartFresh
<1>5. ASSUME NEW q \in EditProcs, ProcStep(q) \/ EditScene(q) \/ StopSuperseder(q)
      PROVE  OneProcessAt(p)' /\ PendingLives(p)'
  <2>1. q = p
    BY <1>5
  <2>2. StopReturns(p) => OneProcessAt(p)' /\ PendingLives(p)'
    BY DEF StopReturns, RestartInv, OneProcessAt, PendingLives
  <2> QED
    BY <1>1, <1>5, <2>1, <2>2, HandleFresh, TimerFresh, CallbackFresh, EditFresh, StopFresh DEF ProcStep
<1> QED
  BY <1>1, <1>2, <1>3, <1>4, <1>5, StartFresh, EndFresh DEF RestartNext, RestartInv, Tasks

LEMMA RestIsOneFreshRun ==
    ASSUME NEW p \in EditProcs, EditProcs = {p}, RestartInv(p)
    PROVE  RestartSafe
<1> DEFINE active == {r \in 1..runs : renderRun[r].status = "active"}
<1>1. ASSUME AtRest, ~dropped
      PROVE  Cardinality(active) <= 1 /\ \A r \in active : renderRun[r].content = content /\ ready
  <2>1. task[Starter].pc = "idle" /\ task[p].pc = "idle" /\ emitted[p] = 0 /\ pending[p] = 0
    BY <1>1 DEF AtRest, TaskAt, Tasks, RestartInv, PendingLives
  <2>2. /\ \A q, r \in active : q = r
        /\ \A r \in active : ready /\ renderRun[r].content = content
    BY <1>1, <2>1 DEF RestartInv, OneProcessAt, OneProcess, RestIsFresh, LiveRuns, Due
  <2>3. Cardinality(active) <= 1
    <3> HIDE DEF active
    <3>1. CASE active = {}
      <4>1. Cardinality(active) = 0
        BY <3>1, FS_EmptySet
      <4> QED  BY <4>1
    <3>2. CASE active # {}
      <4>1. PICK r \in active : TRUE
        BY <3>2
      <4>2. active = {r}
        BY <2>2, <4>1
      <4>3. Cardinality(active) = 1
        BY <4>2, FS_Singleton
      <4> QED  BY <4>3
    <3> QED  BY <3>1, <3>2
  <2> QED  BY <2>2, <2>3
<1>2. OneFreshRun
  BY <1>1 DEF OneFreshRun
<1> QED  BY <1>2, InvImplies DEF RestartInv, RestartSafe

\* When one process makes all the edits, its restarts leave one run, of the
\* content as it is now, whatever StartRender and the end of runs do between
\* their steps (supersede.go Restart).
THEOREM OneProcessIsSafe == ASSUME NEW p, EditProcs = {p} PROVE RestartSpec => []RestartSafe
<1>1. RestartInit => RestartInv(p)
  BY RestartInvStart
<1>2. RestartInv(p) /\ [RestartNext]_restartVars => RestartInv(p)'
  BY RestartInvStep
<1>3. RestartInv(p) => RestartSafe
  BY RestIsOneFreshRun
<1> QED  BY <1>1, <1>2, <1>3, PTL DEF RestartSpec

-----------------------------------------------------------------------------
(* The cache. *)
HIDE RestartAssumption DEF RunIds


CacheJobPCs == {"new", "prepared", "idle", "backoff", "stat", "touch", "drop", "unlink",
                "encode", "create", "lost", "relook", "upsert", "fetch", "done", "failed"}
CacheJobs == [pc : CacheJobPCs, hash : Hashes, v : Versions \cup {NoVersion}, again : BOOLEAN,
              todo : SUBSET Hashes, left : SUBSET Hashes, srt : Versions \cup {NoVersion}, tries : 0..MaxTries]
CacheRows == [hash : Hashes, v : Versions]
Cleaners == [pc : {"idle", "listed", "objects"}, rows : SUBSET CacheRows]
FaultCounts == [{"crash", "cleanup", "lost"} -> 0..MaxCacheFaults]

\* What a job's place implies of its own record.
CacheJobOK(j) ==
    /\ j.pc \in {"stat", "touch", "drop", "unlink", "create", "lost", "upsert", "fetch"} => j.v \in Versions
    /\ j.pc \notin {"new", "prepared", "done"} => Srt \in j.left \/ j.srt # NoVersion
    /\ j.pc # "failed" => j.tries < MaxTries

\* A version just stored is known to the job that stored it alone, until its
\* cache row is there; the assets row may record it already.
StoredAlone(m) ==
    job[m].pc \in {"create", "lost", "upsert"} =>
        /\ \A n \in Manifests : (n # m => job[n].v # job[m].v) /\ job[n].srt # job[m].v /\ render[n] # job[m].v
        /\ \A r \in cleaner.rows : r.v # job[m].v
        /\ \A h \in Hashes : asset[h] = job[m].v => job[m].pc = "upsert" /\ h = job[m].hash
        /\ job[m].pc = "upsert" => asset[job[m].hash] = job[m].v /\ ~entry[job[m].hash]

\* What a job is about to unlink is no longer recorded.
UnlinksOld(m) == job[m].pc = "unlink" => asset[job[m].hash] # job[m].v

\* The subtitles compose fetched are stored as long as they are recorded.
FetchedIsStored(m) == job[m].srt # NoVersion /\ asset[Srt] = job[m].srt => job[m].srt \in object[Srt]

\* No job is replacing the entry, nor about to drop another one than it.
UntouchedBy(m, h) ==
    job[m].hash = h =>
        /\ job[m].pc \notin {"unlink", "encode", "create", "lost", "upsert"}
        /\ job[m].pc \in {"stat", "drop"} => job[m].v = asset[h]
Untouched(h) == \A m \in Manifests : UntouchedBy(m, h)

\* Entries expire and are listed only while no one replaces them.
ExpiredUntouched == \A h \in Hashes : entry[h] /\ expired[h] => Untouched(h)
ListedUntouched ==
    cleaner.pc = "listed" =>
        \A r \in cleaner.rows : asset[r.hash] = r.v => entry[r.hash] /\ Untouched(r.hash)
\* Objects are removed from keys without a row, for which none is being made.
RemovedIsUnrecorded ==
    cleaner.pc = "objects" =>
        \A r \in cleaner.rows :
            /\ asset[r.hash] = NoVersion
            /\ \A m \in Manifests : job[m].pc = "create" => job[m].hash # r.hash

\* Without a crash a stored version is recorded, or someone is about to record
\* or remove it.
HeldBy(m, h, v) == job[m].pc \in {"create", "lost", "unlink"} /\ job[m].hash = h /\ job[m].v = v
HeldByCleaner(h) == cleaner.pc = "objects" /\ \E r \in cleaner.rows : r.hash = h
StoredIsKnown ==
    cacheFaults["crash"] = 0 =>
        \A h \in Hashes : \A v \in object[h] :
            v = asset[h] \/ (\E m \in Manifests : HeldBy(m, h, v)) \/ HeldByCleaner(h)

CacheTypes ==
    /\ object \in [Hashes -> SUBSET Versions]
    /\ asset \in [Hashes -> Versions \cup {NoVersion}]
    /\ entry \in [Hashes -> BOOLEAN] /\ expired \in [Hashes -> BOOLEAN]
    /\ latest \in Manifests \cup {NoManifest}
    /\ render \in [Manifests -> Versions \cup {NoVersion}]
    /\ job \in [Manifests -> CacheJobs]
    /\ cleaner \in Cleaners
    /\ cacheFaults \in FaultCounts
    /\ \A h \in Hashes : entry[h] => asset[h] # NoVersion

CacheInv ==
    /\ CacheTypes
    /\ \A m \in Manifests : CacheJobOK(job[m]) /\ StoredAlone(m) /\ UnlinksOld(m) /\ FetchedIsStored(m)
    /\ RenderKeepsSubtitles
    /\ ExpiredUntouched /\ ListedUntouched /\ RemovedIsUnrecorded /\ StoredIsKnown

USE CacheAssumption

\* The records a job's steps make of it.
LEMMA FailedIsJob ==
    ASSUME NEW m \in Manifests, job \in [Manifests -> CacheJobs], CacheJobOK(job[m]), job[m].pc # "failed", FailJob(m)
    PROVE  \E k \in CacheJobs :
               /\ job' = [job EXCEPT ![m] = k] /\ CacheJobOK(k)
               /\ k.pc \in {"failed", "backoff"} /\ k.hash = job[m].hash /\ k.v = NoVersion /\ k.srt = NoVersion
<1>1. job[m] \in CacheJobs /\ job[m].tries < MaxTries
  BY DEF CacheJobOK
<1> DEFINE p == IF job[m].tries + 1 >= MaxTries THEN "failed" ELSE "backoff"
           t == job[m].tries + 1
           k == [job[m] EXCEPT !.pc = p, !.tries = t, !.v = NoVersion, !.again = FALSE,
                               !.left = Needs[m], !.srt = NoVersion]
<1>2. p \in {"failed", "backoff"} /\ t \in 0..MaxTries /\ (p # "failed" => t < MaxTries)
  BY <1>1 DEF CacheJobs
<1>3. job' = [job EXCEPT ![m] = k]
  BY DEF FailJob, SetJob
<1> HIDE DEF p, t
<1>4. /\ k \in CacheJobs /\ k.pc = p /\ k.tries = t /\ k.v = NoVersion /\ k.srt = NoVersion
      /\ k.left = Needs[m] /\ k.hash = job[m].hash
  BY <1>1, <1>2 DEF CacheJobs, CacheJobPCs
<1> HIDE DEF k
<1>5. CacheJobOK(k)
  BY <1>2, <1>4 DEF CacheJobOK
<1> QED  BY <1>2, <1>3, <1>4, <1>5

\* A job moves and leaves what is stored and recorded alone.
LEMMA OneJobMoves ==
    ASSUME CacheInv, NEW m \in Manifests, NEW k \in CacheJobs, CacheJobOK(k), job' = [job EXCEPT ![m] = k],
           job[m].pc # "done", k.pc \notin {"create", "lost", "upsert", "unlink", "done"},
           k.v \in {NoVersion, job[m].v} \/ \E h \in Hashes : entry[h] /\ k.v = asset[h],
           \/ k.srt \in {NoVersion, job[m].srt}
           \/ job[m].pc = "fetch" /\ k.srt = job[m].v /\ k.srt \in object[Srt],
           k.pc = "encode" => ~entry[k.hash],
           k.pc \in {"stat", "drop"} =>
               \/ k.v = asset[k.hash]
               \/ job[m].pc \in {"stat", "drop"} /\ k.v = job[m].v /\ k.hash = job[m].hash,
           UNCHANGED <<object, asset, entry, render, cleaner>>,
           expired' \in [Hashes -> BOOLEAN], \A h \in Hashes : expired'[h] => expired[h],
           latest' \in Manifests \cup {NoManifest}, cacheFaults' \in FaultCounts,
           cacheFaults'["crash"] = 0 => cacheFaults["crash"] = 0 /\ job[m].pc \notin {"create", "lost", "unlink"}
    PROVE  CacheInv'
<1>1. /\ CacheTypes /\ RenderKeepsSubtitles
      /\ ExpiredUntouched /\ ListedUntouched /\ RemovedIsUnrecorded /\ StoredIsKnown
      /\ \A n \in Manifests : CacheJobOK(job[n]) /\ StoredAlone(n) /\ UnlinksOld(n) /\ FetchedIsStored(n)
  BY DEF CacheInv
<1>2. job \in [Manifests -> CacheJobs] /\ job' \in [Manifests -> CacheJobs]
  BY <1>1 DEF CacheTypes
<1>3. job'[m] = k /\ \A n \in Manifests : n # m => job'[n] = job[n]
  BY <1>2
<1>4. CacheTypes'
  BY <1>1, <1>2 DEF CacheTypes
<1>5. \A n \in Manifests : CacheJobOK(job[n])'
  BY <1>1, <1>3
<1>6. \A n \in Manifests : StoredAlone(n)'
  <2> SUFFICES ASSUME NEW n \in Manifests PROVE StoredAlone(n)'
    OBVIOUS
  <2>1. CASE n = m
    BY <1>3, <2>1 DEF StoredAlone
  <2>2. CASE n # m
    <3> SUFFICES ASSUME job[n].pc \in {"create", "lost", "upsert"} PROVE StoredAlone(n)'
      BY <1>3, <2>2 DEF StoredAlone
    <3>1. StoredAlone(n) /\ CacheJobOK(job[n])
      BY <1>1
    <3>2. job[n].v # NoVersion
      BY <3>1 DEF CacheJobOK
    <3>3. k.v # job[n].v /\ k.srt # job[n].v
      BY <2>2, <3>1, <3>2 DEF StoredAlone
    <3>4. \A i \in Manifests : (i # n => job'[i].v # job[n].v) /\ job'[i].srt # job[n].v /\ render[i] # job[n].v
      BY <1>3, <3>1, <3>3 DEF StoredAlone
    <3> QED  BY <1>3, <2>2, <3>1, <3>4 DEF StoredAlone
  <2> QED  BY <2>1, <2>2
<1>7. \A n \in Manifests : UnlinksOld(n)'
  BY <1>1, <1>3 DEF UnlinksOld
<1>8. \A n \in Manifests : FetchedIsStored(n)'
  BY <1>1, <1>3 DEF FetchedIsStored
<1>9. RenderKeepsSubtitles'
  BY <1>1, <1>3 DEF RenderKeepsSubtitles, Rendered
<1>10. \A h \in Hashes : entry[h] /\ Untouched(h) => Untouched(h)'
  BY <1>1, <1>3 DEF Untouched, UntouchedBy
<1>11. ExpiredUntouched'
  BY <1>1, <1>10 DEF ExpiredUntouched
<1>12. ListedUntouched'
  BY <1>1, <1>10 DEF ListedUntouched, CacheTypes, Cleaners, CacheRows
<1>13. RemovedIsUnrecorded'
  BY <1>1, <1>3 DEF RemovedIsUnrecorded
<1>14. StoredIsKnown'
  <2> SUFFICES ASSUME cacheFaults'["crash"] = 0, NEW h \in Hashes, NEW v \in object[h],
                      v # asset[h], ~HeldByCleaner(h)
               PROVE  \E n \in Manifests : HeldBy(n, h, v)'
    BY DEF StoredIsKnown, HeldByCleaner
  <2>1. PICK n \in Manifests : HeldBy(n, h, v)
    BY <1>1 DEF StoredIsKnown
  <2>2. n # m
    BY <2>1 DEF HeldBy
  <2> QED  BY <1>3, <2>1, <2>2 DEF HeldBy
<1> QED  BY <1>4, <1>5, <1>6, <1>7, <1>8, <1>9, <1>11, <1>12, <1>13, <1>14 DEF CacheInv

\* The steps that leave what is stored and recorded alone.
LEMMA PrepareManifestKeepsInv ==
    ASSUME CacheInv, NEW m \in Manifests, PrepareManifest(m)
    PROVE  CacheInv'
<1>1. /\ job[m] \in CacheJobs /\ CacheJobOK(job[m]) /\ job[m].pc = "new" /\ CacheTypes
      /\ UNCHANGED <<object, asset, entry, expired, latest, render, cleaner, cacheFaults>>
  BY DEF PrepareManifest, CacheInv, CacheTypes, JobAt
<1> DEFINE t == {h \in Needs[m] : ~entry[h]}
           k == [job[m] EXCEPT !.pc = "prepared", !.todo = t]
<1>2. job' = [job EXCEPT ![m] = k] /\ t \in SUBSET Hashes
  BY DEF PrepareManifest, SetJob
<1> HIDE DEF t
<1>3. k \in CacheJobs /\ k.pc = "prepared" /\ k.v = job[m].v /\ k.srt = job[m].srt /\ k.tries = job[m].tries
  BY <1>1, <1>2 DEF CacheJobs, CacheJobPCs
<1> HIDE DEF k
<1>4. CacheJobOK(k)
  BY <1>1, <1>3 DEF CacheJobOK
<1> QED  BY <1>1, <1>2, <1>3, <1>4, OneJobMoves DEF CacheTypes

LEMMA InsertManifestKeepsInv ==
    ASSUME CacheInv, NEW m \in Manifests, InsertManifest(m)
    PROVE  CacheInv'
<1>1. /\ job[m] \in CacheJobs /\ CacheJobOK(job[m]) /\ job[m].pc = "prepared" /\ CacheTypes /\ latest' = m
      /\ UNCHANGED <<object, asset, entry, expired, render, cleaner, cacheFaults>>
  BY DEF InsertManifest, CacheInv, CacheTypes, JobAt
<1> DEFINE k == [job[m] EXCEPT !.pc = "idle", !.left = Needs[m]]
<1>2. job' = [job EXCEPT ![m] = k]
  BY DEF InsertManifest, SetJob
<1>3. /\ k \in CacheJobs /\ k.pc = "idle" /\ k.v = job[m].v /\ k.srt = job[m].srt /\ k.tries = job[m].tries
      /\ k.left = Needs[m]
  BY <1>1, <1>2 DEF CacheJobs, CacheJobPCs
<1> HIDE DEF k
<1>4. CacheJobOK(k)
  BY <1>1, <1>3 DEF CacheJobOK
<1> QED  BY <1>1, <1>2, <1>3, <1>4, OneJobMoves DEF CacheTypes

LEMMA RetryJobKeepsInv ==
    ASSUME CacheInv, NEW m \in Manifests, RetryJob(m)
    PROVE  CacheInv'
<1>1. /\ job[m] \in CacheJobs /\ CacheJobOK(job[m]) /\ job[m].pc = "backoff" /\ CacheTypes
      /\ UNCHANGED <<object, asset, entry, expired, latest, render, cleaner, cacheFaults>>
  BY DEF RetryJob, CacheInv, CacheTypes, JobAt
<1> DEFINE k == [job[m] EXCEPT !.pc = "idle"]
<1>2. job' = [job EXCEPT ![m] = k]
  BY DEF RetryJob, SetJob
<1>3. /\ k \in CacheJobs /\ k.pc = "idle" /\ k.v = job[m].v /\ k.srt = job[m].srt /\ k.tries = job[m].tries
      /\ k.left = job[m].left
  BY <1>1, <1>2 DEF CacheJobs, CacheJobPCs
<1> HIDE DEF k
<1>4. CacheJobOK(k)
  BY <1>1, <1>3 DEF CacheJobOK
<1> QED  BY <1>1, <1>2, <1>3, <1>4, OneJobMoves DEF CacheTypes

LEMMA FailJobKeepsInv ==
    ASSUME CacheInv, NEW m \in Manifests, FailJob(m),
           job[m].pc \notin {"done", "failed", "create", "lost", "unlink"},
           UNCHANGED <<object, asset, entry, expired, latest, render, cleaner, cacheFaults>>
    PROVE  CacheInv'
<1>1. job \in [Manifests -> CacheJobs] /\ CacheJobOK(job[m]) /\ CacheTypes
  BY DEF CacheInv, CacheTypes
<1>2. PICK k \in CacheJobs :
               /\ job' = [job EXCEPT ![m] = k] /\ CacheJobOK(k)
               /\ k.pc \in {"failed", "backoff"} /\ k.hash = job[m].hash /\ k.v = NoVersion /\ k.srt = NoVersion
  BY <1>1, FailedIsJob
<1> QED  BY <1>1, <1>2, OneJobMoves DEF CacheTypes

LEMMA LookupKeepsInv ==
    ASSUME CacheInv, NEW m \in Manifests, NEW h \in Hashes, Lookup(m, h)
    PROVE  CacheInv'
<1>1. /\ job[m] \in CacheJobs /\ CacheJobOK(job[m]) /\ job[m].pc \in {"idle", "relook"} /\ CacheTypes
      /\ UNCHANGED <<object, asset, entry, expired, latest, render, cleaner, cacheFaults>>
  BY DEF Lookup, CacheInv, CacheTypes, JobAt
<1>2. CASE entry[h]
  <2> DEFINE b == JobAt(m, "relook")
             k == [job[m] EXCEPT !.pc = "stat", !.hash = h, !.v = asset[h], !.again = b]
  <2>1. job' = [job EXCEPT ![m] = k] /\ b \in BOOLEAN
    BY <1>2 DEF Lookup, SetJob, JobAt
  <2>2. asset[h] \in Versions
    BY <1>1, <1>2 DEF CacheTypes
  <2> HIDE DEF b
  <2>3. /\ k \in CacheJobs /\ k.pc = "stat" /\ k.v = asset[h] /\ k.srt = job[m].srt /\ k.tries = job[m].tries
        /\ k.left = job[m].left /\ k.hash = h
    BY <1>1, <2>1, <2>2 DEF CacheJobs, CacheJobPCs
  <2> HIDE DEF k
  <2>4. CacheJobOK(k)
    BY <1>1, <2>2, <2>3 DEF CacheJobOK
  <2> QED  BY <1>1, <1>2, <2>1, <2>3, <2>4, OneJobMoves DEF CacheTypes
<1>3. CASE ~entry[h] /\ JobAt(m, "relook")
  BY <1>1, <1>3, FailJobKeepsInv DEF Lookup
<1>4. CASE ~entry[h] /\ ~JobAt(m, "relook")
  <2> DEFINE k == [job[m] EXCEPT !.pc = "encode", !.hash = h]
  <2>1. job' = [job EXCEPT ![m] = k]
    BY <1>4 DEF Lookup, SetJob
  <2>2. /\ k \in CacheJobs /\ k.pc = "encode" /\ k.v = job[m].v /\ k.srt = job[m].srt /\ k.tries = job[m].tries
        /\ k.left = job[m].left /\ k.hash = h
    BY <1>1 DEF CacheJobs, CacheJobPCs
  <2> HIDE DEF k
  <2>3. CacheJobOK(k)
    BY <1>1, <2>2 DEF CacheJobOK
  <2> QED  BY <1>1, <1>4, <2>1, <2>2, <2>3, OneJobMoves DEF CacheTypes
<1> QED  BY <1>2, <1>3, <1>4

LEMMA StatEntryKeepsInv ==
    ASSUME CacheInv, NEW m \in Manifests, StatEntry(m)
    PROVE  CacheInv'
<1>1. /\ job[m] \in CacheJobs /\ CacheJobOK(job[m]) /\ job[m].pc = "stat" /\ CacheTypes
      /\ UNCHANGED <<object, asset, entry, expired, latest, render, cleaner, cacheFaults>>
  BY DEF StatEntry, CacheInv, CacheTypes, JobAt
<1> DEFINE p == IF job[m].v \in object[job[m].hash] THEN "touch" ELSE "drop"
           k == [job[m] EXCEPT !.pc = p]
<1>2. job' = [job EXCEPT ![m] = k] /\ p \in {"touch", "drop"}
  BY DEF StatEntry, SetJob
<1> HIDE DEF p
<1>3. /\ k \in CacheJobs /\ k.pc = p /\ k.v = job[m].v /\ k.srt = job[m].srt /\ k.tries = job[m].tries
      /\ k.left = job[m].left /\ k.hash = job[m].hash
  BY <1>1, <1>2 DEF CacheJobs, CacheJobPCs
<1> HIDE DEF k
<1>4. CacheJobOK(k)
  BY <1>1, <1>2, <1>3 DEF CacheJobOK
<1> QED  BY <1>1, <1>2, <1>3, <1>4, OneJobMoves DEF CacheTypes

\* The record of a job that has its entry.
LEMMA HaveIsJob ==
    ASSUME NEW m \in Manifests, job[m] \in CacheJobs, CacheJobOK(job[m]), job[m].pc \in {"touch", "upsert"}
    PROVE  /\ Have(m) \in CacheJobs /\ CacheJobOK(Have(m))
           /\ Have(m).pc \in {"fetch", "idle"} /\ Have(m).v \in {NoVersion, job[m].v}
           /\ Have(m).srt = job[m].srt /\ Have(m).hash = job[m].hash
<1>1. CASE Composing(m)
  <2> DEFINE k == [job[m] EXCEPT !.pc = "fetch"]
  <2>1. k \in CacheJobs /\ k.pc = "fetch" /\ k.v = job[m].v /\ k.srt = job[m].srt /\ k.tries = job[m].tries
        /\ k.left = job[m].left /\ k.hash = job[m].hash
    BY DEF CacheJobs, CacheJobPCs
  <2>2. Have(m) = k
    BY <1>1 DEF Have
  <2> HIDE DEF k
  <2> QED  BY <2>1, <2>2 DEF CacheJobOK
<1>2. CASE ~Composing(m)
  <2> DEFINE t == job[m].todo \ {job[m].hash}
             k == [job[m] EXCEPT !.pc = "idle", !.todo = t, !.tries = 0, !.v = NoVersion, !.again = FALSE]
  <2>1. t \in SUBSET Hashes /\ Have(m) = k /\ 0 \in 0..MaxTries /\ 0 < MaxTries
    BY <1>2 DEF Have, CacheJobs
  <2> HIDE DEF t
  <2>2. k \in CacheJobs /\ k.pc = "idle" /\ k.v = NoVersion /\ k.srt = job[m].srt /\ k.tries = 0
        /\ k.left = job[m].left /\ k.hash = job[m].hash
    BY <2>1 DEF CacheJobs, CacheJobPCs
  <2> HIDE DEF k
  <2> QED  BY <2>1, <2>2 DEF CacheJobOK
<1> QED  BY <1>1, <1>2

LEMMA TouchEntryKeepsInv ==
    ASSUME CacheInv, NEW m \in Manifests, TouchEntry(m)
    PROVE  CacheInv'
<1>1. /\ job[m] \in CacheJobs /\ CacheJobOK(job[m]) /\ job[m].pc = "touch" /\ CacheTypes
      /\ UNCHANGED <<object, asset, entry, latest, render, cleaner, cacheFaults>>
      /\ job' = [job EXCEPT ![m] = Have(m)]
  BY DEF TouchEntry, CacheInv, CacheTypes, JobAt, SetJob
<1>2. expired' \in [Hashes -> BOOLEAN] /\ \A h \in Hashes : expired'[h] => expired[h]
  BY <1>1 DEF TouchEntry, CacheTypes
<1> QED  BY <1>1, <1>2, HaveIsJob, OneJobMoves DEF CacheTypes

LEMMA FetchCachedKeepsInv ==
    ASSUME CacheInv, NEW m \in Manifests, FetchCached(m)
    PROVE  CacheInv'
<1>1. /\ job[m] \in CacheJobs /\ CacheJobOK(job[m]) /\ job[m].pc = "fetch" /\ CacheTypes
      /\ UNCHANGED <<object, asset, entry, expired, latest, render, cleaner, cacheFaults>>
  BY DEF FetchCached, CacheInv, CacheTypes, JobAt
<1>2. CASE job[m].v \in object[job[m].hash]
  <2> DEFINE l == job[m].left \ {job[m].hash}
             s == IF job[m].hash = Srt THEN job[m].v ELSE job[m].srt
             k == [job[m] EXCEPT !.pc = "idle", !.v = NoVersion, !.again = FALSE, !.left = l, !.srt = s]
  <2>1. job' = [job EXCEPT ![m] = k]
    BY <1>2 DEF FetchCached, SetJob
  <2>2. /\ l \in SUBSET Hashes /\ s \in Versions \cup {NoVersion} /\ (Srt \in l \/ s # NoVersion)
        /\ s = job[m].srt \/ (s = job[m].v /\ s \in object[Srt])
    BY <1>1, <1>2 DEF CacheJobOK, CacheJobs
  <2> HIDE DEF l, s
  <2>3. /\ k \in CacheJobs /\ k.pc = "idle" /\ k.v = NoVersion /\ k.srt = s /\ k.tries = job[m].tries
        /\ k.left = l /\ k.hash = job[m].hash
    BY <1>1, <2>2 DEF CacheJobs, CacheJobPCs
  <2> HIDE DEF k
  <2>4. CacheJobOK(k)
    BY <1>1, <2>2, <2>3 DEF CacheJobOK
  <2> QED  BY <1>1, <2>1, <2>2, <2>3, <2>4, OneJobMoves DEF CacheTypes
<1>3. CASE job[m].v \notin object[job[m].hash]
  BY <1>1, <1>3, FailJobKeepsInv DEF FetchCached
<1> QED  BY <1>2, <1>3

\* One more fault of a kind.
LEMMA FaultIsCounted ==
    ASSUME NEW f \in {"crash", "cleanup", "lost"}, cacheFaults \in FaultCounts, CacheFault(f)
    PROVE  /\ cacheFaults' \in FaultCounts
           /\ f = "crash" => cacheFaults'["crash"] # 0
           /\ f # "crash" => cacheFaults'["crash"] = cacheFaults["crash"]
<1>1. /\ cacheFaults["crash"] \in Nat /\ cacheFaults["cleanup"] \in Nat /\ cacheFaults["lost"] \in Nat
      /\ cacheFaults["crash"] + cacheFaults["cleanup"] + cacheFaults["lost"] < MaxCacheFaults
      /\ cacheFaults' = [cacheFaults EXCEPT ![f] = cacheFaults[f] + 1]
  BY DEF CacheFault, FaultCounts
<1>2. cacheFaults[f] + 1 \in 0..MaxCacheFaults /\ cacheFaults[f] + 1 # 0
  BY <1>1
<1> QED  BY <1>1, <1>2 DEF FaultCounts

LEMMA WorkerDiesKeepsInv ==
    ASSUME CacheInv, NEW m \in Manifests, WorkerDies(m)
    PROVE  CacheInv'
<1>1. /\ job[m] \in CacheJobs /\ CacheJobOK(job[m]) /\ job[m].pc \in WorkPCs /\ CacheTypes
      /\ UNCHANGED <<object, asset, entry, expired, latest, render, cleaner>>
      /\ cacheFaults' \in FaultCounts /\ cacheFaults'["crash"] # 0
  BY FaultIsCounted DEF WorkerDies, CacheInv, CacheTypes
<1> DEFINE k == [job[m] EXCEPT !.pc = "idle", !.v = NoVersion, !.again = FALSE, !.left = Needs[m], !.srt = NoVersion]
<1>2. job' = [job EXCEPT ![m] = k]
  BY DEF WorkerDies, SetJob
<1>3. /\ k \in CacheJobs /\ k.pc = "idle" /\ k.v = NoVersion /\ k.srt = NoVersion /\ k.tries = job[m].tries
      /\ k.left = Needs[m]
  BY <1>1 DEF CacheJobs, CacheJobPCs
<1> HIDE DEF k
<1>4. CacheJobOK(k)
  BY <1>1, <1>3 DEF CacheJobOK, WorkPCs
<1> QED  BY <1>1, <1>2, <1>3, <1>4, OneJobMoves DEF CacheTypes, WorkPCs

\* A job removes a version that is not recorded from the key.
LEMMA OneVersionRemoved ==
    ASSUME CacheInv, NEW m \in Manifests, NEW k \in CacheJobs, CacheJobOK(k), job' = [job EXCEPT ![m] = k],
           job[m].pc \in {"unlink", "lost"}, k.pc \in {"encode", "relook", "failed", "backoff"},
           k.hash = job[m].hash, k.v = NoVersion, k.srt \in {NoVersion, job[m].srt},
           object' = [object EXCEPT ![job[m].hash] = object[job[m].hash] \ {job[m].v}],
           UNCHANGED <<asset, entry, expired, latest, render, cleaner, cacheFaults>>
    PROVE  CacheInv'
<1>1. /\ CacheTypes /\ RenderKeepsSubtitles
      /\ ExpiredUntouched /\ ListedUntouched /\ RemovedIsUnrecorded /\ StoredIsKnown
      /\ \A n \in Manifests : CacheJobOK(job[n]) /\ StoredAlone(n) /\ UnlinksOld(n) /\ FetchedIsStored(n)
  BY DEF CacheInv
<1>2. job \in [Manifests -> CacheJobs] /\ job' \in [Manifests -> CacheJobs] /\ job[m].hash \in Hashes
  BY <1>1 DEF CacheTypes, CacheJobs
<1>3. job'[m] = k /\ \A n \in Manifests : n # m => job'[n] = job[n]
  BY <1>2
<1>4. CacheTypes'
  BY <1>1, <1>2 DEF CacheTypes
<1>5. asset[job[m].hash] # job[m].v
  BY <1>1, <1>2 DEF UnlinksOld, StoredAlone
<1>6. \A h \in Hashes : object'[h] \subseteq object[h] /\ (asset[h] \in object[h] => asset[h] \in object'[h])
  BY <1>1, <1>2, <1>5 DEF CacheTypes
<1>7. \A n \in Manifests : CacheJobOK(job[n])'
  BY <1>1, <1>3
<1>8. \A n \in Manifests : StoredAlone(n)'
  <2> SUFFICES ASSUME NEW n \in Manifests, n # m, job[n].pc \in {"create", "lost", "upsert"} PROVE StoredAlone(n)'
    BY <1>3 DEF StoredAlone
  <2>1. StoredAlone(n) /\ job[n].v # NoVersion
    BY <1>1 DEF CacheJobOK
  <2>2. \A i \in Manifests : (i # n => job'[i].v # job[n].v) /\ job'[i].srt # job[n].v /\ render[i] # job[n].v
    BY <1>3, <2>1 DEF StoredAlone
  <2> QED  BY <1>3, <2>1, <2>2 DEF StoredAlone
<1>9. \A n \in Manifests : UnlinksOld(n)' /\ FetchedIsStored(n)'
  BY <1>1, <1>3, <1>6 DEF UnlinksOld, FetchedIsStored
<1>10. RenderKeepsSubtitles'
  BY <1>1, <1>3, <1>6 DEF RenderKeepsSubtitles, Rendered
<1>11. \A h \in Hashes : Untouched(h) => Untouched(h)'
  BY <1>3 DEF Untouched, UntouchedBy
<1>12. ExpiredUntouched' /\ ListedUntouched'
  BY <1>1, <1>11 DEF ExpiredUntouched, ListedUntouched, CacheTypes, Cleaners, CacheRows
<1>13. RemovedIsUnrecorded'
  BY <1>1, <1>3 DEF RemovedIsUnrecorded
<1>14. StoredIsKnown'
  <2> SUFFICES ASSUME cacheFaults["crash"] = 0, NEW h \in Hashes, NEW v \in object'[h],
                      v # asset[h], ~HeldByCleaner(h)
               PROVE  \E n \in Manifests : HeldBy(n, h, v)'
    BY DEF StoredIsKnown, HeldByCleaner
  <2>1. PICK n \in Manifests : HeldBy(n, h, v)
    BY <1>1, <1>6 DEF StoredIsKnown
  <2>2. n # m
    BY <1>1, <2>1 DEF HeldBy, CacheTypes
  <2> QED  BY <1>3, <2>1, <2>2 DEF HeldBy
<1> QED  BY <1>4, <1>7, <1>8, <1>9, <1>10, <1>12, <1>13, <1>14 DEF CacheInv

LEMMA UnlinkVersionKeepsInv ==
    ASSUME CacheInv, NEW m \in Manifests, UnlinkVersion(m)
    PROVE  CacheInv'
<1>1. /\ job \in [Manifests -> CacheJobs] /\ job[m] \in CacheJobs /\ CacheJobOK(job[m]) /\ job[m].pc = "unlink"
      /\ object' = [object EXCEPT ![job[m].hash] = object[job[m].hash] \ {job[m].v}]
      /\ UNCHANGED <<asset, entry, expired, latest, render, cleaner, cacheFaults>>
  BY DEF UnlinkVersion, CacheInv, CacheTypes, JobAt
<1>2. CASE job[m].again
  <2>1. PICK k \in CacheJobs :
               /\ job' = [job EXCEPT ![m] = k] /\ CacheJobOK(k)
               /\ k.pc \in {"failed", "backoff"} /\ k.hash = job[m].hash /\ k.v = NoVersion /\ k.srt = NoVersion
    BY <1>1, <1>2, FailedIsJob DEF UnlinkVersion
  <2> QED  BY <1>1, <2>1, OneVersionRemoved
<1>3. CASE ~job[m].again
  <2> DEFINE k == [job[m] EXCEPT !.pc = "encode", !.v = NoVersion]
  <2>1. job' = [job EXCEPT ![m] = k]
    BY <1>3 DEF UnlinkVersion, SetJob
  <2>2. /\ k \in CacheJobs /\ k.pc = "encode" /\ k.v = NoVersion /\ k.srt = job[m].srt /\ k.tries = job[m].tries
        /\ k.left = job[m].left /\ k.hash = job[m].hash
    BY <1>1 DEF CacheJobs, CacheJobPCs
  <2> HIDE DEF k
  <2>3. CacheJobOK(k)
    BY <1>1, <2>2 DEF CacheJobOK
  <2> QED  BY <1>1, <2>1, <2>2, <2>3, OneVersionRemoved
<1> QED  BY <1>2, <1>3

LEMMA YieldToWinnerKeepsInv ==
    ASSUME CacheInv, NEW m \in Manifests, YieldToWinner(m)
    PROVE  CacheInv'
<1>1. /\ job[m] \in CacheJobs /\ CacheJobOK(job[m]) /\ job[m].pc = "lost"
      /\ object' = [object EXCEPT ![job[m].hash] = object[job[m].hash] \ {job[m].v}]
      /\ UNCHANGED <<asset, entry, expired, latest, render, cleaner, cacheFaults>>
  BY DEF YieldToWinner, WithoutLoser, CacheInv, CacheTypes, JobAt
<1> DEFINE k == [job[m] EXCEPT !.pc = "relook", !.v = NoVersion]
<1>2. job' = [job EXCEPT ![m] = k]
  BY DEF YieldToWinner, SetJob
<1>3. /\ k \in CacheJobs /\ k.pc = "relook" /\ k.v = NoVersion /\ k.srt = job[m].srt /\ k.tries = job[m].tries
      /\ k.left = job[m].left /\ k.hash = job[m].hash
  BY <1>1 DEF CacheJobs, CacheJobPCs
<1> HIDE DEF k
<1>4. CacheJobOK(k)
  BY <1>1, <1>3 DEF CacheJobOK
<1> QED  BY <1>1, <1>2, <1>3, <1>4, OneVersionRemoved

LEMMA DropAssetKeepsInv ==
    ASSUME CacheInv, NEW m \in Manifests, DropAsset(m)
    PROVE  CacheInv'
<1>1. /\ CacheTypes /\ RenderKeepsSubtitles
      /\ ExpiredUntouched /\ ListedUntouched /\ RemovedIsUnrecorded /\ StoredIsKnown
      /\ \A n \in Manifests : CacheJobOK(job[n]) /\ StoredAlone(n) /\ UnlinksOld(n) /\ FetchedIsStored(n)
  BY DEF CacheInv
<1>2. /\ job \in [Manifests -> CacheJobs] /\ job[m] \in CacheJobs /\ job[m].pc = "drop"
      /\ job[m].hash \in Hashes /\ job[m].v \in Versions
      /\ UNCHANGED <<object, latest, render, cleaner, cacheFaults>>
  BY <1>1 DEF CacheTypes, CacheJobs, DropAsset, JobAt, CacheJobOK
<1>3. CASE Referenced(job[m].v)
  BY <1>2, <1>3, FailJobKeepsInv DEF DropAsset
<1>4. CASE ~Referenced(job[m].v)
  <2> DEFINE h == job[m].hash
             k == [job[m] EXCEPT !.pc = "unlink"]
  <2>1. /\ job' = [job EXCEPT ![m] = k]
        /\ asset' = [asset EXCEPT ![h] = IF DropsRow(m) THEN NoVersion ELSE asset[h]]
        /\ entry' = [entry EXCEPT ![h] = entry[h] /\ ~DropsRow(m)]
        /\ expired' = [expired EXCEPT ![h] = expired[h] /\ ~DropsRow(m)]
    BY <1>4 DEF DropAsset, SetJob
  <2>2. /\ k \in CacheJobs /\ k.pc = "unlink" /\ k.v = job[m].v /\ k.srt = job[m].srt /\ k.tries = job[m].tries
        /\ k.left = job[m].left /\ k.hash = h
    BY <1>2 DEF CacheJobs, CacheJobPCs
  <2> HIDE DEF k
  <2>3. job' \in [Manifests -> CacheJobs] /\ job'[m] = k /\ \A n \in Manifests : n # m => job'[n] = job[n]
    BY <1>2, <2>1, <2>2
  <2>4. /\ asset' \in [Hashes -> Versions \cup {NoVersion}]
        /\ entry' \in [Hashes -> BOOLEAN] /\ expired' \in [Hashes -> BOOLEAN]
    BY <1>1, <1>2, <2>1 DEF CacheTypes, DropsRow
  <2>5. \A g \in Hashes :
            IF g = h /\ asset[h] = job[m].v THEN asset'[g] = NoVersion /\ ~entry'[g] /\ ~expired'[g]
            ELSE asset'[g] = asset[g] /\ (entry'[g] <=> entry[g]) /\ (expired'[g] <=> expired[g])
    BY <1>1, <1>2, <2>1 DEF CacheTypes, DropsRow
  <2> HIDE DEF h
  <2>6. CacheTypes'
    BY <1>1, <1>2, <2>3, <2>4, <2>5 DEF CacheTypes
  <2>7. \A n \in Manifests : CacheJobOK(job[n])'
    BY <1>1, <1>2, <2>2, <2>3 DEF CacheJobOK
  <2>8. \A n \in Manifests : StoredAlone(n)'
    <3> SUFFICES ASSUME NEW n \in Manifests, n # m, job[n].pc \in {"create", "lost", "upsert"} PROVE StoredAlone(n)'
      BY <2>2, <2>3 DEF StoredAlone
    <3>1. StoredAlone(n) /\ job[n].v # NoVersion /\ job[n].hash \in Hashes
      BY <1>1, <1>2 DEF CacheJobOK, CacheJobs
    <3>2. \A i \in Manifests : (i # n => job'[i].v # job[n].v) /\ job'[i].srt # job[n].v /\ render[i] # job[n].v
      BY <2>2, <2>3, <3>1 DEF StoredAlone
    <3>3. \A g \in Hashes : asset'[g] = job[n].v => job[n].pc = "upsert" /\ g = job[n].hash
      BY <2>5, <3>1 DEF StoredAlone
    <3>4. job[n].pc = "upsert" => asset'[job[n].hash] = job[n].v /\ ~entry'[job[n].hash]
      BY <2>5, <3>1 DEF StoredAlone
    <3> QED  BY <1>2, <2>3, <3>1, <3>2, <3>3, <3>4 DEF StoredAlone
  <2>9. \A n \in Manifests : UnlinksOld(n)'
    <3> SUFFICES ASSUME NEW n \in Manifests, job'[n].pc = "unlink" PROVE asset'[job'[n].hash] # job'[n].v
      BY DEF UnlinksOld
    <3>1. CASE n = m
      BY <1>2, <2>2, <2>3, <2>5, <3>1 DEF h
    <3>2. CASE n # m
      <4>1. job'[n] = job[n] /\ job[n].v \in Versions /\ job[n].hash \in Hashes /\ asset[job[n].hash] # job[n].v
        BY <1>1, <1>2, <2>3, <3>2 DEF UnlinksOld, CacheJobOK, CacheJobs
      <4> QED  BY <2>5, <4>1
    <3> QED  BY <3>1, <3>2
  <2>10. \A n \in Manifests : FetchedIsStored(n)'
    BY <1>1, <1>2, <2>2, <2>3, <2>5 DEF FetchedIsStored
  <2>11. RenderKeepsSubtitles'
    BY <1>1, <1>2, <1>4, <2>2, <2>3, <2>5 DEF RenderKeepsSubtitles, Rendered, Referenced
  <2>12. \A g \in Hashes : asset'[g] # NoVersion /\ Untouched(g) => Untouched(g)'
    BY <1>2, <2>2, <2>3, <2>5 DEF Untouched, UntouchedBy, h
  <2>13. ExpiredUntouched'
    <3>1. \A g \in Hashes : entry'[g] /\ expired'[g] => entry[g] /\ expired[g] /\ asset'[g] # NoVersion
      BY <1>1, <2>5 DEF CacheTypes
    <3> QED  BY <1>1, <2>12, <3>1 DEF ExpiredUntouched
  <2>14. ListedUntouched'
    <3>1. \A r \in cleaner.rows : r.hash \in Hashes /\ r.v \in Versions
      BY <1>1 DEF CacheTypes, Cleaners, CacheRows
    <3>2. \A r \in cleaner.rows : asset'[r.hash] = r.v =>
              asset[r.hash] = r.v /\ asset'[r.hash] # NoVersion /\ (entry'[r.hash] <=> entry[r.hash])
      BY <2>5, <3>1
    <3> QED  BY <1>1, <1>2, <2>12, <3>1, <3>2 DEF ListedUntouched
  <2>15. RemovedIsUnrecorded'
    <3>1. \A r \in cleaner.rows : r.hash \in Hashes
      BY <1>1 DEF CacheTypes, Cleaners, CacheRows
    <3> QED  BY <1>1, <1>2, <2>2, <2>3, <2>5, <3>1 DEF RemovedIsUnrecorded
  <2>16. StoredIsKnown'
    <3> SUFFICES ASSUME cacheFaults["crash"] = 0, NEW g \in Hashes, NEW v \in object[g],
                        v # asset'[g], ~HeldByCleaner(g)
                 PROVE  \E n \in Manifests : HeldBy(n, g, v)'
      BY <1>2 DEF StoredIsKnown, HeldByCleaner
    <3>1. CASE v = asset[g]
      BY <2>2, <2>3, <2>5, <3>1 DEF HeldBy
    <3>2. CASE v # asset[g]
      <4>1. PICK n \in Manifests : HeldBy(n, g, v)
        BY <1>1, <3>2 DEF StoredIsKnown
      <4> QED  BY <1>2, <2>3, <4>1 DEF HeldBy
    <3> QED  BY <3>1, <3>2
  <2> QED  BY <2>6, <2>7, <2>8, <2>9, <2>10, <2>11, <2>13, <2>14, <2>15, <2>16 DEF CacheInv
<1> QED  BY <1>3, <1>4

LEMMA EncodeAndPutKeepsInv ==
    ASSUME CacheInv, NEW m \in Manifests, EncodeAndPut(m)
    PROVE  CacheInv'
<1>1. /\ CacheTypes /\ RenderKeepsSubtitles
      /\ ExpiredUntouched /\ ListedUntouched /\ RemovedIsUnrecorded /\ StoredIsKnown
      /\ \A n \in Manifests : CacheJobOK(job[n]) /\ StoredAlone(n) /\ UnlinksOld(n) /\ FetchedIsStored(n)
  BY DEF CacheInv
<1> DEFINE h == job[m].hash
           f == FreshVersion
           k == [job[m] EXCEPT !.pc = "create", !.v = f]
<1>2. /\ job \in [Manifests -> CacheJobs] /\ job[m] \in CacheJobs /\ job[m].pc = "encode" /\ h \in Hashes
      /\ UNCHANGED <<asset, entry, expired, latest, render, cleaner, cacheFaults>>
      /\ cleaner.pc = "objects" => \A r \in cleaner.rows : r.hash # h
  BY <1>1 DEF CacheTypes, CacheJobs, EncodeAndPut, JobAt
<1>3. f \in Versions /\ IsFresh(f)
  BY DEF EncodeAndPut, FreshVersion
<1>4. job' = [job EXCEPT ![m] = k] /\ object' = [object EXCEPT ![h] = object[h] \cup {f}]
  BY DEF EncodeAndPut, SetJob
<1> HIDE DEF f
<1>5. /\ k \in CacheJobs /\ k.pc = "create" /\ k.v = f /\ k.srt = job[m].srt /\ k.tries = job[m].tries
      /\ k.left = job[m].left /\ k.hash = h
  BY <1>2, <1>3 DEF CacheJobs, CacheJobPCs
<1> HIDE DEF k
<1>6. job' \in [Manifests -> CacheJobs] /\ job'[m] = k /\ \A n \in Manifests : n # m => job'[n] = job[n]
  BY <1>2, <1>4, <1>5
<1>7. /\ object' \in [Hashes -> SUBSET Versions]
      /\ \A g \in Hashes : object[g] \subseteq object'[g] /\ \A v \in object'[g] : v \in object[g] \/ (g = h /\ v = f)
  BY <1>1, <1>2, <1>3, <1>4 DEF CacheTypes
<1> HIDE DEF h
<1>8. CacheTypes'
  BY <1>1, <1>2, <1>6, <1>7 DEF CacheTypes
<1>9. \A n \in Manifests : CacheJobOK(job[n])'
  BY <1>1, <1>2, <1>3, <1>5, <1>6 DEF CacheJobOK
<1>10. \A n \in Manifests : StoredAlone(n)'
  <2> SUFFICES ASSUME NEW n \in Manifests PROVE StoredAlone(n)'
    OBVIOUS
  <2>1. CASE n = m
    BY <1>2, <1>3, <1>5, <1>6, <2>1 DEF StoredAlone, IsFresh
  <2>2. CASE n # m
    <3> SUFFICES ASSUME job[n].pc \in {"create", "lost", "upsert"} PROVE StoredAlone(n)'
      BY <1>6, <2>2 DEF StoredAlone
    <3>1. StoredAlone(n) /\ job[n].v # f
      BY <1>1, <1>3 DEF IsFresh
    <3>2. \A i \in Manifests : (i # n => job'[i].v # job[n].v) /\ job'[i].srt # job[n].v /\ render[i] # job[n].v
      BY <1>5, <1>6, <3>1 DEF StoredAlone
    <3> QED  BY <1>2, <1>6, <2>2, <3>1, <3>2 DEF StoredAlone
  <2> QED  BY <2>1, <2>2
<1>11. \A n \in Manifests : UnlinksOld(n)' /\ FetchedIsStored(n)'
  BY <1>1, <1>2, <1>5, <1>6, <1>7 DEF UnlinksOld, FetchedIsStored
<1>12. RenderKeepsSubtitles'
  BY <1>1, <1>2, <1>5, <1>6, <1>7 DEF RenderKeepsSubtitles, Rendered
<1>13. \A g \in Hashes : Untouched(g) => Untouched(g)'
  BY <1>2, <1>5, <1>6 DEF Untouched, UntouchedBy, h
<1>14. ExpiredUntouched' /\ ListedUntouched'
  BY <1>1, <1>2, <1>13 DEF ExpiredUntouched, ListedUntouched, CacheTypes, Cleaners, CacheRows
<1>15. RemovedIsUnrecorded'
  BY <1>1, <1>2, <1>5, <1>6 DEF RemovedIsUnrecorded
<1>16. StoredIsKnown'
  <2> SUFFICES ASSUME cacheFaults["crash"] = 0, NEW g \in Hashes, NEW v \in object'[g],
                      v # asset[g], ~HeldByCleaner(g)
               PROVE  \E n \in Manifests : HeldBy(n, g, v)'
    BY <1>2 DEF StoredIsKnown, HeldByCleaner
  <2>1. CASE v \in object[g]
    <3>1. PICK n \in Manifests : HeldBy(n, g, v)
      BY <1>1, <2>1 DEF StoredIsKnown
    <3> QED  BY <1>2, <1>6, <3>1 DEF HeldBy
  <2>2. CASE v \notin object[g]
    BY <1>5, <1>6, <1>7, <2>2 DEF HeldBy
  <2> QED  BY <2>1, <2>2
<1> QED  BY <1>8, <1>9, <1>10, <1>11, <1>12, <1>14, <1>15, <1>16 DEF CacheInv

LEMMA CreateAssetKeepsInv ==
    ASSUME CacheInv, NEW m \in Manifests, CreateAsset(m)
    PROVE  CacheInv'
<1>1. /\ CacheTypes /\ RenderKeepsSubtitles
      /\ ExpiredUntouched /\ ListedUntouched /\ RemovedIsUnrecorded /\ StoredIsKnown
      /\ \A n \in Manifests : CacheJobOK(job[n]) /\ StoredAlone(n) /\ UnlinksOld(n) /\ FetchedIsStored(n)
  BY DEF CacheInv
<1> DEFINE h == job[m].hash
           v == job[m].v
           p == IF asset[h] = NoVersion THEN "upsert" ELSE "lost"
           k == [job[m] EXCEPT !.pc = p]
<1>2. /\ job \in [Manifests -> CacheJobs] /\ job[m] \in CacheJobs /\ job[m].pc = "create" /\ h \in Hashes /\ v \in Versions
      /\ UNCHANGED <<object, entry, expired, latest, render, cleaner, cacheFaults>>
  BY <1>1 DEF CacheTypes, CacheJobs, CacheJobOK, CreateAsset, JobAt
<1>3. /\ job' = [job EXCEPT ![m] = k]
      /\ asset' = IF asset[h] = NoVersion THEN [asset EXCEPT ![h] = v] ELSE asset
  BY DEF CreateAsset, SetJob
<1>4. p \in {"upsert", "lost"} /\ (p = "upsert" <=> asset[h] = NoVersion)
  OBVIOUS
<1> HIDE DEF p
<1>5. /\ k \in CacheJobs /\ k.pc = p /\ k.v = v /\ k.srt = job[m].srt /\ k.tries = job[m].tries
      /\ k.left = job[m].left /\ k.hash = h
  BY <1>2, <1>4 DEF CacheJobs, CacheJobPCs
<1> HIDE DEF k
<1>6. job' \in [Manifests -> CacheJobs] /\ job'[m] = k /\ \A n \in Manifests : n # m => job'[n] = job[n]
  BY <1>2, <1>3, <1>5
<1>7. /\ asset' \in [Hashes -> Versions \cup {NoVersion}]
      /\ \A g \in Hashes : asset'[g] = IF g = h /\ p = "upsert" THEN v ELSE asset[g]
  BY <1>1, <1>2, <1>3, <1>4 DEF CacheTypes
<1>8. /\ \A g \in Hashes : asset[g] # v
      /\ \A n \in Manifests : (n # m => job[n].v # v) /\ job[n].srt # v /\ render[n] # v
      /\ \A r \in cleaner.rows : r.v # v
      /\ p = "upsert" => asset[h] = NoVersion /\ ~entry[h]
  BY <1>1, <1>2, <1>4 DEF StoredAlone, CacheTypes
<1>9. CacheTypes'
  BY <1>1, <1>2, <1>6, <1>7 DEF CacheTypes
<1>10. \A n \in Manifests : CacheJobOK(job[n])'
  BY <1>1, <1>2, <1>4, <1>5, <1>6 DEF CacheJobOK
<1> HIDE DEF h, v
<1>11. \A n \in Manifests : StoredAlone(n)'
  <2> SUFFICES ASSUME NEW n \in Manifests PROVE StoredAlone(n)'
    OBVIOUS
  <2>1. CASE n = m
    BY <1>2, <1>4, <1>5, <1>6, <1>7, <1>8, <2>1 DEF StoredAlone
  <2>2. CASE n # m
    <3> SUFFICES ASSUME job[n].pc \in {"create", "lost", "upsert"} PROVE StoredAlone(n)'
      BY <1>6, <2>2 DEF StoredAlone
    <3>1. StoredAlone(n) /\ job[n].v # NoVersion /\ job[n].v # v /\ job[n].hash \in Hashes
      BY <1>1, <1>2, <1>8, <2>2 DEF CacheJobOK, CacheJobs
    <3>2. \A i \in Manifests : (i # n => job'[i].v # job[n].v) /\ job'[i].srt # job[n].v /\ render[i] # job[n].v
      BY <1>5, <1>6, <3>1 DEF StoredAlone
    <3>3. \A g \in Hashes : asset'[g] = job[n].v => job[n].pc = "upsert" /\ g = job[n].hash
      BY <1>7, <3>1 DEF StoredAlone
    <3>4. job[n].pc = "upsert" => asset'[job[n].hash] = job[n].v /\ ~entry[job[n].hash]
      BY <1>7, <1>8, <3>1 DEF StoredAlone
    <3> QED  BY <1>2, <1>6, <2>2, <3>1, <3>2, <3>3, <3>4 DEF StoredAlone
  <2> QED  BY <2>1, <2>2
<1>12. \A n \in Manifests : UnlinksOld(n)'
  <2> SUFFICES ASSUME NEW n \in Manifests, job'[n].pc = "unlink" PROVE asset'[job'[n].hash] # job'[n].v
    BY DEF UnlinksOld
  <2>1. n # m /\ job'[n] = job[n] /\ job[n].hash \in Hashes
    BY <1>2, <1>4, <1>5, <1>6 DEF CacheJobs
  <2> QED  BY <1>1, <1>7, <1>8, <2>1 DEF UnlinksOld
<1>13. \A n \in Manifests : FetchedIsStored(n)'
  BY <1>1, <1>2, <1>5, <1>6, <1>7, <1>8 DEF FetchedIsStored
<1>14. RenderKeepsSubtitles'
  <2>1. NoVersion \notin object[Srt]
    BY <1>1 DEF CacheTypes
  <2> QED  BY <1>1, <1>2, <1>4, <1>5, <1>6, <1>7, <1>8, <2>1 DEF RenderKeepsSubtitles, Rendered
<1>15. \A g \in Hashes : Untouched(g) => Untouched(g)' /\ g # h
  BY <1>2, <1>5, <1>6, <1>7 DEF Untouched, UntouchedBy, h
<1>16. ExpiredUntouched'
  BY <1>1, <1>2, <1>15 DEF ExpiredUntouched
<1>17. ListedUntouched'
  <2>1. \A r \in cleaner.rows : r.hash \in Hashes /\ (asset'[r.hash] = r.v => asset[r.hash] = r.v)
    BY <1>1, <1>7, <1>8 DEF CacheTypes, Cleaners, CacheRows
  <2> QED  BY <1>1, <1>2, <1>15, <2>1 DEF ListedUntouched
<1>18. RemovedIsUnrecorded'
  <2>1. \A r \in cleaner.rows : r.hash \in Hashes
    BY <1>1 DEF CacheTypes, Cleaners, CacheRows
  <2> QED  BY <1>1, <1>2, <1>4, <1>5, <1>6, <1>7, <2>1 DEF RemovedIsUnrecorded, h
<1>19. StoredIsKnown'
  <2> SUFFICES ASSUME cacheFaults["crash"] = 0, NEW g \in Hashes, NEW w \in object[g],
                      w # asset'[g], ~HeldByCleaner(g)
               PROVE  \E n \in Manifests : HeldBy(n, g, w)'
    BY <1>2 DEF StoredIsKnown, HeldByCleaner
  <2>1. w # asset[g]
    BY <1>1, <1>7, <1>8 DEF CacheTypes
  <2>2. PICK n \in Manifests : HeldBy(n, g, w)
    BY <1>1, <2>1 DEF StoredIsKnown
  <2> QED  BY <1>2, <1>4, <1>5, <1>6, <1>7, <2>2 DEF HeldBy, h, v
<1> QED  BY <1>9, <1>10, <1>11, <1>12, <1>13, <1>14, <1>16, <1>17, <1>18, <1>19 DEF CacheInv

LEMMA UpsertSegmentKeepsInv ==
    ASSUME CacheInv, NEW m \in Manifests, UpsertSegment(m)
    PROVE  CacheInv'
<1>1. /\ CacheTypes /\ RenderKeepsSubtitles
      /\ ExpiredUntouched /\ ListedUntouched /\ RemovedIsUnrecorded /\ StoredIsKnown
      /\ \A n \in Manifests : CacheJobOK(job[n]) /\ StoredAlone(n) /\ UnlinksOld(n) /\ FetchedIsStored(n)
  BY DEF CacheInv
<1> DEFINE h == job[m].hash
           k == Have(m)
<1>2. /\ job \in [Manifests -> CacheJobs] /\ job[m] \in CacheJobs /\ job[m].pc = "upsert" /\ h \in Hashes
      /\ UNCHANGED <<object, asset, latest, render, cleaner, cacheFaults>>
      /\ job' = [job EXCEPT ![m] = k]
  BY <1>1 DEF CacheTypes, CacheJobs, UpsertSegment, JobAt, SetJob
<1>3. /\ k \in CacheJobs /\ CacheJobOK(k) /\ k.pc \in {"fetch", "idle"} /\ k.v \in {NoVersion, job[m].v}
      /\ k.srt = job[m].srt /\ k.hash = h
  BY <1>1, <1>2, HaveIsJob
<1> HIDE DEF k
<1>4. job' \in [Manifests -> CacheJobs] /\ job'[m] = k /\ \A n \in Manifests : n # m => job'[n] = job[n]
  BY <1>2, <1>3
<1>5. /\ entry' \in [Hashes -> BOOLEAN] /\ expired' \in [Hashes -> BOOLEAN]
      /\ entry'[h] /\ ~expired'[h]
      /\ \A g \in Hashes : g # h => (entry'[g] <=> entry[g]) /\ (expired'[g] <=> expired[g])
  BY <1>1, <1>2 DEF CacheTypes, UpsertSegment
<1>6. /\ asset[h] = job[m].v /\ asset[h] # NoVersion
      /\ \A n \in Manifests : n # m => job[n].v # asset[h]
      /\ \A r \in cleaner.rows : r.v # asset[h]
  BY <1>1, <1>2 DEF StoredAlone, CacheJobOK
<1>7. CacheTypes'
  BY <1>1, <1>2, <1>4, <1>5, <1>6 DEF CacheTypes
<1>8. \A n \in Manifests : CacheJobOK(job[n])'
  BY <1>1, <1>3, <1>4
<1> HIDE DEF h
<1>9. \A n \in Manifests : StoredAlone(n)'
  <2> SUFFICES ASSUME NEW n \in Manifests, n # m, job[n].pc \in {"create", "lost", "upsert"} PROVE StoredAlone(n)'
    BY <1>3, <1>4 DEF StoredAlone
  <2>1. StoredAlone(n) /\ job[n].v # NoVersion /\ job[n].hash \in Hashes
    BY <1>1, <1>2 DEF CacheJobOK, CacheJobs
  <2>2. \A i \in Manifests : (i # n => job'[i].v # job[n].v) /\ job'[i].srt # job[n].v /\ render[i] # job[n].v
    BY <1>3, <1>4, <2>1 DEF StoredAlone
  <2>3. job[n].pc = "upsert" => asset[job[n].hash] = job[n].v /\ ~entry'[job[n].hash]
    BY <1>5, <1>6, <2>1 DEF StoredAlone
  <2> QED  BY <1>2, <1>4, <2>1, <2>2, <2>3 DEF StoredAlone
<1>10. \A n \in Manifests : UnlinksOld(n)' /\ FetchedIsStored(n)'
  BY <1>1, <1>2, <1>3, <1>4 DEF UnlinksOld, FetchedIsStored
<1>11. RenderKeepsSubtitles'
  BY <1>1, <1>2, <1>3, <1>4 DEF RenderKeepsSubtitles, Rendered
<1>12. \A g \in Hashes : Untouched(g) => Untouched(g)'
  BY <1>2, <1>3, <1>4 DEF Untouched, UntouchedBy
<1>13. ExpiredUntouched'
  BY <1>1, <1>5, <1>12 DEF ExpiredUntouched
<1>14. ListedUntouched'
  <2>1. \A r \in cleaner.rows : r.hash \in Hashes /\ (asset[r.hash] = r.v => r.hash # h)
    BY <1>1, <1>6 DEF CacheTypes, Cleaners, CacheRows
  <2> QED  BY <1>1, <1>2, <1>5, <1>12, <2>1 DEF ListedUntouched
<1>15. RemovedIsUnrecorded'
  BY <1>1, <1>2, <1>3, <1>4 DEF RemovedIsUnrecorded
<1>16. StoredIsKnown'
  <2> SUFFICES ASSUME cacheFaults["crash"] = 0, NEW g \in Hashes, NEW w \in object[g],
                      w # asset[g], ~HeldByCleaner(g)
               PROVE  \E n \in Manifests : HeldBy(n, g, w)'
    BY <1>2 DEF StoredIsKnown, HeldByCleaner
  <2>1. PICK n \in Manifests : HeldBy(n, g, w)
    BY <1>1 DEF StoredIsKnown
  <2> QED  BY <1>2, <1>4, <2>1 DEF HeldBy
<1> QED  BY <1>7, <1>8, <1>9, <1>10, <1>11, <1>13, <1>14, <1>15, <1>16 DEF CacheInv

LEMMA InsertRenderKeepsInv ==
    ASSUME CacheInv, NEW m \in Manifests, InsertRender(m)
    PROVE  CacheInv'
<1>1. /\ CacheTypes /\ RenderKeepsSubtitles
      /\ ExpiredUntouched /\ ListedUntouched /\ RemovedIsUnrecorded /\ StoredIsKnown
      /\ \A n \in Manifests : CacheJobOK(job[n]) /\ StoredAlone(n) /\ UnlinksOld(n) /\ FetchedIsStored(n)
  BY DEF CacheInv
<1>2. /\ job \in [Manifests -> CacheJobs] /\ job[m] \in CacheJobs /\ job[m].pc = "idle" /\ job[m].left = {}
      /\ UNCHANGED <<object, asset, entry, expired, latest, cleaner, cacheFaults>>
  BY <1>1 DEF CacheTypes, InsertRender, JobAt
<1>3. CASE asset[Srt] # job[m].srt
  BY <1>2, <1>3, FailJobKeepsInv DEF InsertRender
<1>4. CASE asset[Srt] = job[m].srt
  <2> DEFINE k == [NoJobYet EXCEPT !.pc = "done"]
  <2>1. job' = [job EXCEPT ![m] = k] /\ render' = [render EXCEPT ![m] = job[m].srt]
    BY <1>4 DEF InsertRender, SetJob
  <2>2. NoJobYet \in CacheJobs /\ NoJobYet.v = NoVersion /\ NoJobYet.srt = NoVersion /\ NoJobYet.tries = 0
    <3>1. 0 \in 0..MaxTries
      OBVIOUS
    <3> QED  BY <3>1 DEF NoJobYet, CacheJobs, CacheJobPCs
  <2>3. k \in CacheJobs /\ k.pc = "done" /\ k.v = NoVersion /\ k.srt = NoVersion /\ k.tries = 0
    BY <2>2 DEF CacheJobs, CacheJobPCs
  <2> HIDE DEF k
  <2>4. job' \in [Manifests -> CacheJobs] /\ job'[m] = k /\ \A n \in Manifests : n # m => job'[n] = job[n]
    BY <1>2, <2>1, <2>3
  <2>5. /\ render' \in [Manifests -> Versions \cup {NoVersion}]
        /\ render'[m] = job[m].srt /\ \A n \in Manifests : n # m => render'[n] = render[n]
    BY <1>1, <1>2, <2>1 DEF CacheTypes, CacheJobs
  <2>6. CacheTypes'
    BY <1>1, <1>2, <2>4, <2>5 DEF CacheTypes
  <2>7. \A n \in Manifests : CacheJobOK(job[n])'
    BY <1>1, <2>3, <2>4 DEF CacheJobOK
  <2>8. \A n \in Manifests : StoredAlone(n)'
    <3> SUFFICES ASSUME NEW n \in Manifests, n # m, job[n].pc \in {"create", "lost", "upsert"} PROVE StoredAlone(n)'
      BY <2>3, <2>4 DEF StoredAlone
    <3>1. StoredAlone(n) /\ job[n].v # NoVersion
      BY <1>1 DEF CacheJobOK
    <3>2. \A i \in Manifests : (i # n => job'[i].v # job[n].v) /\ job'[i].srt # job[n].v /\ render'[i] # job[n].v
      BY <2>3, <2>4, <2>5, <3>1 DEF StoredAlone
    <3> QED  BY <1>2, <2>4, <3>1, <3>2 DEF StoredAlone
  <2>9. \A n \in Manifests : UnlinksOld(n)' /\ FetchedIsStored(n)'
    BY <1>1, <1>2, <2>3, <2>4 DEF UnlinksOld, FetchedIsStored
  <2>10. RenderKeepsSubtitles'
    <3>1. job[m].srt # NoVersion
      BY <1>1, <1>2 DEF CacheJobOK
    <3>2. job[m].srt \in object[Srt]
      BY <1>1, <1>4, <3>1 DEF FetchedIsStored
    <3> QED  BY <1>1, <1>2, <1>4, <2>4, <2>5, <3>2 DEF RenderKeepsSubtitles, Rendered
  <2>11. \A h \in Hashes : Untouched(h) => Untouched(h)'
    BY <1>2, <2>3, <2>4 DEF Untouched, UntouchedBy
  <2>12. ExpiredUntouched' /\ ListedUntouched'
    BY <1>1, <1>2, <2>11 DEF ExpiredUntouched, ListedUntouched, CacheTypes, Cleaners, CacheRows
  <2>13. RemovedIsUnrecorded'
    BY <1>1, <1>2, <2>3, <2>4 DEF RemovedIsUnrecorded
  <2>14. StoredIsKnown'
    <3> SUFFICES ASSUME cacheFaults["crash"] = 0, NEW h \in Hashes, NEW v \in object[h],
                        v # asset[h], ~HeldByCleaner(h)
                 PROVE  \E n \in Manifests : HeldBy(n, h, v)'
      BY <1>2 DEF StoredIsKnown, HeldByCleaner
    <3>1. PICK n \in Manifests : HeldBy(n, h, v)
      BY <1>1 DEF StoredIsKnown
    <3> QED  BY <1>2, <2>4, <3>1 DEF HeldBy
  <2> QED  BY <2>6, <2>7, <2>8, <2>9, <2>10, <2>12, <2>13, <2>14 DEF CacheInv
<1> QED  BY <1>3, <1>4

LEMMA ListExpiredKeepsInv ==
    ASSUME CacheInv, ListExpired
    PROVE  CacheInv'
<1>1. /\ CacheTypes /\ RenderKeepsSubtitles
      /\ ExpiredUntouched /\ ListedUntouched /\ RemovedIsUnrecorded /\ StoredIsKnown
      /\ \A n \in Manifests : CacheJobOK(job[n]) /\ StoredAlone(n) /\ UnlinksOld(n) /\ FetchedIsStored(n)
  BY DEF CacheInv
<1> DEFINE H == {h \in Hashes : entry[h] /\ expired[h] /\ ~Pinned(h) /\ ~Referenced(asset[h])}
           R == {[hash |-> h, v |-> asset[h]] : h \in H}
<1>2. /\ cleaner.pc = "idle" /\ CacheFault("cleanup") /\ cleaner' = [pc |-> "listed", rows |-> R]
      /\ UNCHANGED <<object, asset, entry, expired, latest, render, job>>
  BY DEF ListExpired
<1>3. \A r \in R : /\ r \in CacheRows /\ r.hash \in Hashes /\ r.v = asset[r.hash]
                    /\ entry[r.hash] /\ expired[r.hash]
  BY <1>1 DEF CacheTypes, CacheRows
<1> HIDE DEF R, H
<1>4. cleaner' \in Cleaners /\ cleaner'.pc = "listed" /\ cleaner'.rows = R
  BY <1>2, <1>3 DEF Cleaners
<1>5. cacheFaults' \in FaultCounts /\ cacheFaults'["crash"] = cacheFaults["crash"]
  BY <1>1, <1>2, FaultIsCounted DEF CacheTypes
<1>6. CacheTypes'
  BY <1>1, <1>2, <1>4, <1>5 DEF CacheTypes
<1>7. \A n \in Manifests : StoredAlone(n)'
  <2> SUFFICES ASSUME NEW n \in Manifests, job[n].pc \in {"create", "lost", "upsert"} PROVE StoredAlone(n)'
    BY <1>2 DEF StoredAlone
  <2>1. StoredAlone(n)
    BY <1>1
  <2>2. \A r \in R : r.v # job[n].v
    BY <1>3, <2>1 DEF StoredAlone
  <2> QED  BY <1>2, <1>4, <2>1, <2>2 DEF StoredAlone
<1>8. \A n \in Manifests : CacheJobOK(job[n])' /\ UnlinksOld(n)' /\ FetchedIsStored(n)'
  BY <1>1, <1>2 DEF UnlinksOld, FetchedIsStored
<1>9. RenderKeepsSubtitles'
  BY <1>1, <1>2 DEF RenderKeepsSubtitles, Rendered
<1>10. \A h \in Hashes : Untouched(h) => Untouched(h)'
  BY <1>2 DEF Untouched, UntouchedBy
<1>11. ExpiredUntouched'
  BY <1>1, <1>2, <1>10 DEF ExpiredUntouched
<1>12. ListedUntouched'
  <2>1. \A r \in R : entry[r.hash] /\ Untouched(r.hash)'
    BY <1>1, <1>3, <1>10 DEF ExpiredUntouched
  <2> QED  BY <1>2, <1>4, <2>1 DEF ListedUntouched
<1>13. RemovedIsUnrecorded'
  BY <1>4 DEF RemovedIsUnrecorded
<1>14. StoredIsKnown'
  BY <1>1, <1>2, <1>5 DEF StoredIsKnown, HeldBy, HeldByCleaner
<1> QED  BY <1>6, <1>7, <1>8, <1>9, <1>11, <1>12, <1>13, <1>14 DEF CacheInv

LEMMA DeleteRowsKeepsInv ==
    ASSUME CacheInv, DeleteRows
    PROVE  CacheInv'
<1>1. /\ CacheTypes /\ RenderKeepsSubtitles
      /\ ExpiredUntouched /\ ListedUntouched /\ RemovedIsUnrecorded /\ StoredIsKnown
      /\ \A n \in Manifests : CacheJobOK(job[n]) /\ StoredAlone(n) /\ UnlinksOld(n) /\ FetchedIsStored(n)
  BY DEF CacheInv
<1> DEFINE G == {r \in cleaner.rows : DeletesRow(r)}
           K(h) == ~\E r \in G : r.hash = h
<1>2. /\ cleaner.pc = "listed"
      /\ cleaner' = IF G = {} THEN CleanerIdle ELSE [pc |-> "objects", rows |-> G]
      /\ UNCHANGED <<object, latest, render, job, cacheFaults>>
  BY DEF DeleteRows
<1>3. /\ asset' \in [Hashes -> Versions \cup {NoVersion}]
      /\ entry' \in [Hashes -> BOOLEAN] /\ expired' \in [Hashes -> BOOLEAN]
      /\ \A h \in Hashes :
             IF \E r \in G : r.hash = h THEN asset'[h] = NoVersion /\ ~entry'[h] /\ ~expired'[h]
             ELSE asset'[h] = asset[h] /\ (entry'[h] <=> entry[h]) /\ (expired'[h] <=> expired[h])
  <2>1. /\ asset' = [h \in Hashes |-> IF K(h) THEN asset[h] ELSE NoVersion]
        /\ entry' = [h \in Hashes |-> entry[h] /\ K(h)]
        /\ expired' = [h \in Hashes |-> expired[h] /\ K(h)]
    BY Zenon DEF DeleteRows, Cascaded
  <2> HIDE DEF G
  <2> QED  BY <1>1, <2>1 DEF CacheTypes
<1>4. G \subseteq cleaner.rows /\ G \subseteq CacheRows /\ \A r \in G : r.hash \in Hashes /\ r.v \in Versions
  BY <1>1 DEF CacheTypes, Cleaners, CacheRows
<1>5. \A r \in G : asset[r.hash] = r.v /\ ~Referenced(asset[r.hash])
  BY DEF DeletesRow
<1> HIDE DEF G
<1>6. /\ cleaner' \in Cleaners /\ cleaner'.rows = G /\ cleaner'.pc \in {"idle", "objects"}
      /\ cleaner'.pc = "idle" => G = {}
  BY <1>2, <1>4 DEF Cleaners, CleanerIdle
<1>7. CacheTypes'
  BY <1>1, <1>2, <1>3, <1>6 DEF CacheTypes
<1>8. \A n \in Manifests : CacheJobOK(job[n])'
  BY <1>1, <1>2
<1>9. \A n \in Manifests : StoredAlone(n)'
  <2> SUFFICES ASSUME NEW n \in Manifests, job[n].pc \in {"create", "lost", "upsert"} PROVE StoredAlone(n)'
    BY <1>2 DEF StoredAlone
  <2>1. StoredAlone(n) /\ job[n].v # NoVersion /\ job[n].hash \in Hashes
    BY <1>1 DEF CacheJobOK, CacheTypes, CacheJobs
  <2>2. \A h \in Hashes : asset'[h] = job[n].v => asset[h] = job[n].v
    BY <1>3, <2>1
  <2>3. job[n].pc = "upsert" => asset'[job[n].hash] = job[n].v /\ ~entry'[job[n].hash]
    BY <1>3, <1>4, <1>5, <2>1 DEF StoredAlone
  <2> QED  BY <1>2, <1>4, <1>6, <2>1, <2>2, <2>3 DEF StoredAlone
<1>10. \A n \in Manifests : UnlinksOld(n)'
  <2> SUFFICES ASSUME NEW n \in Manifests, job[n].pc = "unlink" PROVE asset'[job[n].hash] # job[n].v
    BY <1>2 DEF UnlinksOld
  <2>1. job[n].v \in Versions /\ job[n].hash \in Hashes
    BY <1>1 DEF CacheJobOK, CacheTypes, CacheJobs
  <2> QED  BY <1>1, <1>3, <2>1 DEF UnlinksOld
<1>11. \A n \in Manifests : FetchedIsStored(n)'
  BY <1>1, <1>2, <1>3 DEF FetchedIsStored
<1>12. RenderKeepsSubtitles'
  BY <1>1, <1>2, <1>3, <1>5 DEF RenderKeepsSubtitles, Rendered, Referenced
<1>13. ExpiredUntouched'
  <2>1. \A h \in Hashes : entry'[h] /\ expired'[h] => entry[h] /\ expired[h] /\ asset'[h] = asset[h]
    BY <1>3
  <2> QED  BY <1>1, <1>2, <2>1 DEF ExpiredUntouched, Untouched, UntouchedBy
<1>14. ListedUntouched'
  BY <1>6 DEF ListedUntouched
<1>15. RemovedIsUnrecorded'
  <2>1. \A r \in G : asset'[r.hash] = NoVersion /\ Untouched(r.hash)
    BY <1>1, <1>2, <1>3, <1>4, <1>5 DEF ListedUntouched
  <2>2. \A r \in G : \A m \in Manifests : job[m].pc = "create" => job[m].hash # r.hash
    BY <2>1 DEF Untouched, UntouchedBy
  <2> QED  BY <1>2, <1>6, <2>1, <2>2 DEF RemovedIsUnrecorded
<1>16. StoredIsKnown'
  <2> SUFFICES ASSUME cacheFaults["crash"] = 0, NEW h \in Hashes, NEW v \in object[h],
                      v # asset'[h], ~HeldByCleaner(h)'
               PROVE  \E n \in Manifests : HeldBy(n, h, v)'
    BY <1>2 DEF StoredIsKnown
  <2>1. ~\E r \in G : r.hash = h
    BY <1>6 DEF HeldByCleaner
  <2>2. v # asset[h] /\ ~HeldByCleaner(h)
    BY <1>2, <1>3, <2>1 DEF HeldByCleaner
  <2>3. PICK n \in Manifests : HeldBy(n, h, v)
    BY <1>1, <2>2 DEF StoredIsKnown
  <2> QED  BY <1>2, <2>3 DEF HeldBy
<1> QED  BY <1>7, <1>8, <1>9, <1>10, <1>11, <1>12, <1>13, <1>14, <1>15, <1>16 DEF CacheInv

LEMMA RemoveObjectsKeepsInv ==
    ASSUME CacheInv, NEW r \in cleaner.rows, RemoveObjects(r)
    PROVE  CacheInv'
<1>1. /\ CacheTypes /\ RenderKeepsSubtitles
      /\ ExpiredUntouched /\ ListedUntouched /\ RemovedIsUnrecorded /\ StoredIsKnown
      /\ \A n \in Manifests : CacheJobOK(job[n]) /\ StoredAlone(n) /\ UnlinksOld(n) /\ FetchedIsStored(n)
  BY DEF CacheInv
<1>2. /\ cleaner.pc = "objects" /\ cleaner \in Cleaners /\ r \in CacheRows /\ r.hash \in Hashes
      /\ object' = [object EXCEPT ![r.hash] = {}]
      /\ cleaner' = IF cleaner.rows = {r} THEN CleanerIdle ELSE [cleaner EXCEPT !.rows = cleaner.rows \ {r}]
      /\ UNCHANGED <<asset, entry, expired, latest, render, job, cacheFaults>>
  BY <1>1 DEF CacheTypes, RemoveObjects, Cleaners, CacheRows
<1>3. /\ object' \in [Hashes -> SUBSET Versions] /\ object'[r.hash] = {}
      /\ \A h \in Hashes : h # r.hash => object'[h] = object[h]
  BY <1>1, <1>2 DEF CacheTypes
<1>4. /\ cleaner' \in Cleaners /\ cleaner'.rows = cleaner.rows \ {r} /\ cleaner'.pc \in {"idle", "objects"}
      /\ cleaner'.pc = "idle" => cleaner.rows = {r}
  <2>1. CASE cleaner.rows = {r}
    BY <1>2, <2>1 DEF Cleaners, CleanerIdle
  <2>2. CASE cleaner.rows # {r}
    BY <1>2, <2>2 DEF Cleaners
  <2> QED  BY <2>1, <2>2
<1>5. asset[r.hash] = NoVersion
  BY <1>1, <1>2 DEF RemovedIsUnrecorded
<1>6. CacheTypes'
  BY <1>1, <1>2, <1>3, <1>4 DEF CacheTypes
<1>7. \A n \in Manifests : CacheJobOK(job[n])' /\ StoredAlone(n)' /\ UnlinksOld(n)'
  BY <1>1, <1>2, <1>4 DEF StoredAlone, UnlinksOld
<1>8. \A n \in Manifests : FetchedIsStored(n)'
  BY <1>1, <1>2, <1>3, <1>5 DEF FetchedIsStored
<1>9. RenderKeepsSubtitles'
  <2>1. NoVersion \notin object[Srt]
    BY <1>1 DEF CacheTypes
  <2> QED  BY <1>1, <1>2, <1>3, <1>5, <2>1 DEF RenderKeepsSubtitles, Rendered
<1>10. ExpiredUntouched'
  BY <1>1, <1>2 DEF ExpiredUntouched, Untouched, UntouchedBy
<1>11. ListedUntouched' /\ RemovedIsUnrecorded'
  BY <1>1, <1>2, <1>4 DEF ListedUntouched, RemovedIsUnrecorded
<1>12. StoredIsKnown'
  <2> SUFFICES ASSUME cacheFaults["crash"] = 0, NEW h \in Hashes, NEW v \in object'[h], v # asset[h]
               PROVE  (\E n \in Manifests : HeldBy(n, h, v)') \/ HeldByCleaner(h)'
    BY <1>2 DEF StoredIsKnown
  <2>1. h # r.hash /\ v \in object[h]
    BY <1>3
  <2>2. CASE HeldByCleaner(h)
    <3>1. PICK q \in cleaner.rows : q.hash = h
      BY <2>2 DEF HeldByCleaner
    <3>2. q \in cleaner'.rows /\ cleaner'.pc = "objects"
      BY <1>4, <2>1, <3>1
    <3> QED  BY <3>1, <3>2 DEF HeldByCleaner
  <2>3. CASE ~HeldByCleaner(h)
    <3>1. PICK n \in Manifests : HeldBy(n, h, v)
      BY <1>1, <2>1, <2>3 DEF StoredIsKnown
    <3> QED  BY <1>2, <3>1 DEF HeldBy
  <2> QED  BY <2>2, <2>3
<1> QED  BY <1>6, <1>7, <1>8, <1>9, <1>10, <1>11, <1>12 DEF CacheInv

LEMMA AgeKeepsInv ==
    ASSUME CacheInv, NEW h \in Hashes, Age(h)
    PROVE  CacheInv'
<1>1. /\ CacheTypes /\ RenderKeepsSubtitles
      /\ ExpiredUntouched /\ ListedUntouched /\ RemovedIsUnrecorded /\ StoredIsKnown
      /\ \A n \in Manifests : CacheJobOK(job[n]) /\ StoredAlone(n) /\ UnlinksOld(n) /\ FetchedIsStored(n)
  BY DEF CacheInv
<1>2. /\ Unused /\ expired' = [expired EXCEPT ![h] = TRUE]
      /\ UNCHANGED <<object, asset, entry, latest, render, job, cleaner, cacheFaults>>
  BY DEF Age
<1>3. \A g \in Hashes : Untouched(g)'
  BY <1>2 DEF Unused, Untouched, UntouchedBy
<1>4. CacheTypes' /\ ExpiredUntouched'
  BY <1>1, <1>2, <1>3 DEF CacheTypes, ExpiredUntouched
<1>5. \A n \in Manifests : CacheJobOK(job[n])' /\ StoredAlone(n)' /\ UnlinksOld(n)' /\ FetchedIsStored(n)'
  BY <1>1, <1>2 DEF StoredAlone, UnlinksOld, FetchedIsStored
<1>6. RenderKeepsSubtitles' /\ RemovedIsUnrecorded'
  BY <1>1, <1>2 DEF RenderKeepsSubtitles, Rendered, RemovedIsUnrecorded
<1>7. ListedUntouched'
  BY <1>1, <1>2 DEF ListedUntouched, Untouched, UntouchedBy
<1>8. StoredIsKnown'
  BY <1>1, <1>2 DEF StoredIsKnown, HeldBy, HeldByCleaner
<1> QED  BY <1>4, <1>5, <1>6, <1>7, <1>8 DEF CacheInv

LEMMA LoseObjectKeepsInv ==
    ASSUME CacheInv, NEW h \in Hashes, LoseObject(h)
    PROVE  CacheInv'
<1>1. /\ CacheTypes /\ RenderKeepsSubtitles
      /\ ExpiredUntouched /\ ListedUntouched /\ RemovedIsUnrecorded /\ StoredIsKnown
      /\ \A n \in Manifests : CacheJobOK(job[n]) /\ StoredAlone(n) /\ UnlinksOld(n) /\ FetchedIsStored(n)
  BY DEF CacheInv
<1>2. /\ Unused /\ ~Referenced(asset[h]) /\ CacheFault("lost") /\ object' = [object EXCEPT ![h] = {}]
      /\ UNCHANGED <<asset, entry, expired, latest, render, job, cleaner>>
  BY DEF LoseObject
<1>3. /\ object' \in [Hashes -> SUBSET Versions] /\ object'[h] = {}
      /\ \A g \in Hashes : g # h => object'[g] = object[g]
  BY <1>1, <1>2 DEF CacheTypes
<1>4. cacheFaults' \in FaultCounts /\ cacheFaults'["crash"] = cacheFaults["crash"]
  BY <1>1, <1>2, FaultIsCounted DEF CacheTypes
<1>5. CacheTypes'
  BY <1>1, <1>2, <1>3, <1>4 DEF CacheTypes
<1>6. \A n \in Manifests : CacheJobOK(job[n])' /\ StoredAlone(n)' /\ UnlinksOld(n)'
  BY <1>1, <1>2 DEF StoredAlone, UnlinksOld
<1>7. \A n \in Manifests : FetchedIsStored(n)'
  BY <1>2 DEF FetchedIsStored, Unused
<1>8. RenderKeepsSubtitles'
  BY <1>1, <1>2, <1>3 DEF RenderKeepsSubtitles, Rendered, Referenced
<1>9. ExpiredUntouched' /\ ListedUntouched' /\ RemovedIsUnrecorded'
  BY <1>1, <1>2 DEF ExpiredUntouched, ListedUntouched, RemovedIsUnrecorded, Untouched, UntouchedBy
<1>10. StoredIsKnown'
  <2> SUFFICES ASSUME cacheFaults["crash"] = 0, NEW g \in Hashes, NEW v \in object'[g], v # asset[g], ~HeldByCleaner(g)
               PROVE  \E n \in Manifests : HeldBy(n, g, v)'
    BY <1>2, <1>4 DEF StoredIsKnown, HeldByCleaner
  <2>1. PICK n \in Manifests : HeldBy(n, g, v)
    BY <1>1, <1>3 DEF StoredIsKnown
  <2> QED  BY <1>2, <2>1 DEF HeldBy
<1> QED  BY <1>5, <1>6, <1>7, <1>8, <1>9, <1>10 DEF CacheInv

LEMMA CacheInvInit == CacheInit => CacheInv
<1> SUFFICES ASSUME CacheInit PROVE CacheInv
  OBVIOUS
<1> DEFINE old == CHOOSE f \in [Hashes -> Versions] : OneToOne(f)
<1>1. old \in [Hashes -> Versions]
  OBVIOUS
<1>2. /\ object = [h \in Hashes |-> IF entry[h] THEN {old[h]} ELSE {}]
      /\ asset = [h \in Hashes |-> IF entry[h] THEN old[h] ELSE NoVersion]
      /\ entry \in [Hashes -> BOOLEAN] /\ expired = [h \in Hashes |-> FALSE]
      /\ latest = NoManifest /\ render = [m \in Manifests |-> NoVersion]
      /\ job = [m \in Manifests |-> NoJobYet] /\ cleaner = CleanerIdle
      /\ cacheFaults = [crash |-> 0, cleanup |-> 0, lost |-> 0]
  BY DEF CacheInit
<1> HIDE DEF old
<1>3. 0 \in 0..MaxTries /\ 0 < MaxTries /\ 0 \in 0..MaxCacheFaults
  OBVIOUS
<1>4. /\ NoJobYet \in CacheJobs /\ NoJobYet.pc = "new" /\ NoJobYet.srt = NoVersion /\ NoJobYet.tries = 0
  BY <1>3 DEF NoJobYet, CacheJobs, CacheJobPCs
<1>5. \A m \in Manifests : job[m] = NoJobYet
  BY <1>2
<1>6. cleaner \in Cleaners /\ cleaner.pc = "idle" /\ cleaner.rows = {}
  BY <1>2 DEF CleanerIdle, Cleaners
<1>7. cacheFaults \in FaultCounts
  BY <1>2, <1>3 DEF FaultCounts
<1>8. CacheTypes
  BY <1>1, <1>2, <1>4, <1>6, <1>7 DEF CacheTypes
<1>9. \A m \in Manifests : CacheJobOK(job[m]) /\ StoredAlone(m) /\ UnlinksOld(m) /\ FetchedIsStored(m)
  BY <1>3, <1>4, <1>5 DEF CacheJobOK, StoredAlone, UnlinksOld, FetchedIsStored
<1>10. RenderKeepsSubtitles
  BY <1>4, <1>5 DEF RenderKeepsSubtitles, Rendered
<1>11. ExpiredUntouched /\ ListedUntouched /\ RemovedIsUnrecorded
  BY <1>2, <1>6 DEF ExpiredUntouched, ListedUntouched, RemovedIsUnrecorded
<1>12. StoredIsKnown
  BY <1>1, <1>2 DEF StoredIsKnown
<1> QED  BY <1>8, <1>9, <1>10, <1>11, <1>12 DEF CacheInv

LEMMA CacheInvKept == CacheInv /\ [CacheNext]_cacheVars => CacheInv'
<1> SUFFICES ASSUME CacheInv, [CacheNext]_cacheVars PROVE CacheInv'
  OBVIOUS
<1>1. ASSUME NEW m \in Manifests, PrepareManifest(m) \/ JobStep(m) \/ WorkerDies(m) PROVE CacheInv'
  <2>1. CASE PrepareManifest(m) \/ WorkerDies(m)
    BY <2>1, PrepareManifestKeepsInv, WorkerDiesKeepsInv
  <2>2. CASE InsertManifest(m) \/ RetryJob(m) \/ \E h \in Hashes : Lookup(m, h)
    BY <2>2, InsertManifestKeepsInv, RetryJobKeepsInv, LookupKeepsInv
  <2>3. CASE StatEntry(m) \/ TouchEntry(m) \/ DropAsset(m) \/ UnlinkVersion(m)
    BY <2>3, StatEntryKeepsInv, TouchEntryKeepsInv, DropAssetKeepsInv, UnlinkVersionKeepsInv
  <2>4. CASE EncodeAndPut(m) \/ CreateAsset(m) \/ YieldToWinner(m) \/ UpsertSegment(m)
    BY <2>4, EncodeAndPutKeepsInv, CreateAssetKeepsInv, YieldToWinnerKeepsInv, UpsertSegmentKeepsInv
  <2>5. CASE FetchCached(m) \/ InsertRender(m)
    BY <2>5, FetchCachedKeepsInv, InsertRenderKeepsInv
  <2> QED  BY <1>1, <2>1, <2>2, <2>3, <2>4, <2>5 DEF JobStep
<1>2. CASE ListExpired \/ CleanerStep
  BY <1>2, ListExpiredKeepsInv, DeleteRowsKeepsInv, RemoveObjectsKeepsInv DEF CleanerStep
<1>3. ASSUME NEW h \in Hashes, Age(h) \/ LoseObject(h) PROVE CacheInv'
  BY <1>3, AgeKeepsInv, LoseObjectKeepsInv
<1>4. CASE UNCHANGED cacheVars
  <2>1. UNCHANGED <<object, asset, entry, expired, latest, render, job, cleaner, cacheFaults>>
    BY <1>4 DEF cacheVars
  <2> QED
    BY <2>1 DEF CacheInv, CacheTypes, StoredAlone, UnlinksOld, FetchedIsStored, RenderKeepsSubtitles, Rendered,
                ExpiredUntouched, ListedUntouched, RemovedIsUnrecorded, StoredIsKnown, HeldBy, HeldByCleaner,
                Untouched, UntouchedBy
<1> QED  BY <1>1, <1>2, <1>3, <1>4 DEF CacheNext

LEMMA CacheInvImplies == CacheInv => CacheSafe
<1> SUFFICES ASSUME CacheInv PROVE CacheSafe
  OBVIOUS
<1>1. CacheTypeOK
  BY DEF CacheInv, CacheTypes, CacheTypeOK, CacheJobs, CacheJobPCs, Cleaners, CacheRows, FaultCounts
<1>2. NoLeakedVersion
  <2> SUFFICES ASSUME cacheFaults["crash"] = 0, CacheQuiet, NEW h \in Hashes, NEW v \in object[h] PROVE v = asset[h]
    BY DEF NoLeakedVersion
  <2>1. ~HeldByCleaner(h) /\ \A m \in Manifests : ~HeldBy(m, h, v)
    BY DEF CacheQuiet, CleanerIdle, HeldByCleaner, HeldBy
  <2> QED  BY <2>1 DEF CacheInv, StoredIsKnown
<1> QED  BY <1>1, <1>2 DEF CacheInv, CacheSafe

\* However renders, cleanups, crashes and lost objects interleave, for any
\* manifests, entries and budgets: the subtitles a finished render refers to
\* stay recorded and stored, and without a crash no stored version is left
\* that no row refers to (cache.go, compose.go, cleanup.go).
THEOREM CacheIsSafe == CacheSpec => []CacheSafe
<1>1. CacheInit => CacheInv
  BY CacheInvInit
<1>2. CacheInv /\ [CacheNext]_cacheVars => CacheInv'
  BY CacheInvKept
<1>3. CacheInv => CacheSafe
  BY CacheInvImplies
<1> QED  BY <1>1, <1>2, <1>3, PTL DEF CacheSpec
=============================================================================
