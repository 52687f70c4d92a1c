------------------------------ MODULE Timeline ------------------------------
(***************************************************************************)
(* The frame layout of an episode: PlanTimeline lays the scenes end to     *)
(* end, lends frames of neighbours to the crossfade between them and cuts  *)
(* the picture into segments that are encoded and cached one by one        *)
(* (src/api/internal/render/plan.go, manifest.go SegmentHash).             *)
(*                                                                         *)
(* One action per turn of each of its three loops.  After a plan a scene   *)
(* may get another voice take, so another length, and the episode is       *)
(* planned again.  Scenes count from 1.  The frames per second only scale  *)
(* the input: lengths and the crossfade are given in frames, never below   *)
(* zero (FramesForMs).                                                     *)
(***************************************************************************)
EXTENDS Integers, Sequences

CONSTANTS
    SceneLists,   \* the frame counts of the episodes to plan, per scene
    Lengths,      \* what a new take may make of a scene
    Crossfades,   \* crossfade lengths in frames
    MaxReplans

ASSUME TimelineAssumption ==
    /\ SceneLists \subseteq Seq(Nat) /\ Lengths \subseteq Nat
    /\ Crossfades \subseteq Nat /\ MaxReplans \in Nat

VARIABLES
    clips,      \* the frames of each scene
    crossfade,
    planning,   \* the loop PlanTimeline is in, "planned" or "refused"
    at,         \* its index
    spans,      \* Timeline.Scenes
    total,      \* Timeline.TotalFrames
    segments,   \* Timeline.Segments
    edited,     \* the scene whose length the last edit changed, 0 for none
    cached,     \* the cache keys of the plan before that edit
    replans

timelineVars == <<clips, crossfade, planning, at, spans, total, segments, edited, cached, replans>>

Scenes == 1..Len(clips)
NoSpan == [start |-> 0, frames |-> 0, head |-> 0, tail |-> 0]
Smaller(m, n) == IF m <= n THEN m ELSE n

\* An empty episode is refused before the first loop.
StartPlan(c) ==
    /\ planning' = IF c = <<>> THEN "refused" ELSE "place"
    /\ at' = 1
    /\ spans' = [i \in 1..Len(c) |-> NoSpan]
    /\ total' = 0
    /\ segments' = <<>>

TimelineInit ==
    /\ clips \in SceneLists /\ crossfade \in Crossfades
    /\ planning = IF clips = <<>> THEN "refused" ELSE "place"
    /\ at = 1
    /\ spans = [i \in Scenes |-> NoSpan]
    /\ total = 0
    /\ segments = <<>>
    /\ edited = 0 /\ cached = {} /\ replans = 0

\* The loop goes on to the next scene, or the next loop begins.
Advance(last, next) ==
    IF at = last THEN planning' = next /\ at' = 1 ELSE at' = at + 1 /\ UNCHANGED planning

\* First loop: a scene's frames follow those of the scenes before it.
PlaceScene ==
    /\ planning = "place"
    /\ IF clips[at] <= 0
       THEN planning' = "refused" /\ UNCHANGED <<at, spans, total>>
       ELSE /\ spans' = [spans EXCEPT ![at] = [NoSpan EXCEPT !.start = total, !.frames = clips[at]]]
            /\ total' = total + clips[at]
            /\ Advance(Len(clips), IF Len(clips) = 1 THEN "cut" ELSE "fade")
    /\ UNCHANGED <<clips, crossfade, segments, edited, cached, replans>>

Lendable(n) == (n - 1) \div 2

Room(i) == Smaller(Lendable(spans[i].frames), Lendable(spans[i + 1].frames))

\* The frames two neighbours lend, <<tail, head>>: less than asked for when
\* one is short, and none when a single frame is left to fade over.
Lent(room) ==
    LET tail == crossfade \div 2
        head == crossfade - tail
        fits == tail <= room /\ head <= room
    IN  IF (IF fits THEN crossfade ELSE 2 * room) < 2 THEN <<0, 0>>
        ELSE IF fits THEN <<tail, head>> ELSE <<room, room>>

\* Second loop: the crossfade between scene at and the next.
FadePair ==
    /\ planning = "fade"
    /\ LET lent == Lent(Room(at))
       IN  spans' = [spans EXCEPT ![at].tail = lent[1], ![at + 1].head = lent[2]]
    /\ Advance(Len(clips) - 1, "cut")
    /\ UNCHANGED <<clips, crossfade, total, segments, edited, cached, replans>>

BodyOf(i) ==
    LET s == spans[i]
    IN  [kind |-> "body", scene |-> i, start |-> s.start + s.head,
         frames |-> s.frames - s.head - s.tail, local |-> s.head, nextLocal |-> 0]

\* Mutant: the transition has the frames of the crossfade asked for.
FullFade(i) ==
    LET s == spans[i]
    IN  [kind |-> "transition", scene |-> i, start |-> s.start + s.frames - s.tail,
         frames |-> crossfade, local |-> s.frames - s.tail, nextLocal |-> -spans[i + 1].head]

TransitionAfter(i) ==
    LET s == spans[i]
    IN  [kind |-> "transition", scene |-> i, start |-> s.start + s.frames - s.tail,
         frames |-> s.tail + spans[i + 1].head, local |-> s.frames - s.tail, nextLocal |-> -spans[i + 1].head]

Fades(i) == i < Len(clips) /\ spans[i].tail > 0

\* Third loop: the segments of scene at.
CutScene ==
    /\ planning = "cut"
    /\ LET picture == Append(segments, BodyOf(at))
       IN  segments' = IF Fades(at) THEN Append(picture, TransitionAfter(at)) ELSE picture
    /\ Advance(Len(clips), "planned")
    /\ UNCHANGED <<clips, crossfade, spans, total, edited, cached, replans>>

\* The cache key: the scenes shown, with their motion over their own frames,
\* and the window of their clocks.
SegmentHash(s) ==
    [kind |-> s.kind,
     scenes |-> [i \in s.scene..(IF s.kind = "body" THEN s.scene ELSE s.scene + 1) |-> clips[i]],
     local |-> <<s.local, s.nextLocal>>, frames |-> s.frames]

\* Scene i gets a take of n frames and the episode is planned again.
Replan(i, n) ==
    /\ planning = "planned" /\ replans < MaxReplans
    /\ n # clips[i]
    /\ clips' = [clips EXCEPT ![i] = n]
    /\ edited' = i
    /\ cached' = {SegmentHash(segments[k]) : k \in 1..Len(segments)}
    /\ replans' = replans + 1
    /\ StartPlan(clips')
    /\ UNCHANGED crossfade

TimelineNext ==
    \/ PlaceScene \/ FadePair \/ CutScene
    \/ \E i \in Scenes, n \in Lengths : Replan(i, n)

TimelineSpec == TimelineInit /\ [][TimelineNext]_timelineVars

-----------------------------------------------------------------------------
Span == [start : Nat, frames : Nat, head : Nat, tail : Nat]
Segment == [kind : {"body", "transition"}, scene : Nat, start : Nat, frames : Nat, local : Nat, nextLocal : Int]
EndOf(s) == s.start + s.frames

\* The segments decided so far tile the picture: the first starts at frame 0,
\* every other one where the one before it ends, none is empty, and together
\* they end with the last scene, so compose can join them without a gap
\* (plan.go:71-117).
SegmentsTile ==
    /\ \A k \in 1..Len(segments) :
          /\ segments[k].frames >= 1
          /\ segments[k].start = IF k = 1 THEN 0 ELSE EndOf(segments[k - 1])
    /\ planning = "planned" => segments # <<>> /\ EndOf(segments[Len(segments)]) = total

\* Every scene keeps a frame of its own between the frames it lends to both
\* sides, however short it is and whatever crossfade is asked for (plan.go:91).
BodyRemains ==
    planning \in {"cut", "planned"} =>
        \A i \in Scenes : spans[i].head + spans[i].tail < spans[i].frames

\* A scene's motion runs on from the transition into its body: it never runs
\* back, and the frame the body starts with was not shown before.  An odd
\* crossfade makes it skip one frame, because the incoming clock starts at
\* -head while tail frames are left before the scene starts (plan.go:112).
MotionRunsOn ==
    \A k \in 1..(Len(segments) - 1) :
        LET s == segments[k]
            next == segments[k + 1]
            skipped == next.local - (s.nextLocal + s.frames)
        IN  IF s.kind = "transition"
            THEN next.kind = "body" /\ next.scene = s.scene + 1 /\ skipped \in 0..(crossfade % 2)
            ELSE next.scene = s.scene => next.local = s.local + s.frames

\* An edit of a scene's length leaves the cached segments of the others in
\* use: only the bodies of the scene and its neighbours and the transitions
\* around it are encoded again, though all later scenes moved (manifest.go:147).
EditIsLocal ==
    planning = "planned" /\ edited # 0 =>
        \A k \in 1..Len(segments) :
            LET s == segments[k]
            IN  \/ s.scene \in (edited - 1)..(IF s.kind = "body" THEN edited + 1 ELSE edited)
                \/ SegmentHash(s) \in cached

\* A timeline is sound when its segments join, every scene keeps a body, its
\* motion runs on and an edit is local (PlanTimeline, SegmentHash).
PlanSound == SegmentsTile /\ BodyRemains /\ MotionRunsOn /\ EditIsLocal
=============================================================================
