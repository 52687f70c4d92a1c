---------------------------- MODULE StoryProofs ----------------------------
(***************************************************************************)
(* A take shown as done was made from what the scene says now, a scene is  *)
(* as long as its voice, and a split that nobody confirmed deletes no      *)
(* work: for any texts, kinds of takes and splits and any number of        *)
(* requests and failures.                                                  *)
(*                                                                         *)
(* The argument rests on the numbers of takes: those of one scene and kind *)
(* are numbered from 1 without a gap, since takes only go with their scene *)
(* and scenes are never numbered again.  So the number of a new take is    *)
(* its own, and selecting by number selects one take.                      *)
(***************************************************************************)
EXTENDS Storyboard, FiniteSetTheorems, TLAPS

SceneRows == [id : Nat, text : Narrations, prompt : Nat, edited : BOOLEAN, duration : Nat]
StepStates == {"queued", "running", "failed", "upstream_failed", "done"}

\* A take and a step, whatever their inputs and numbers.
IsTake(t) ==
    /\ t = [id |-> t.id, scene |-> t.scene, kind |-> t.kind, selected |-> t.selected, from |-> t.from, made |-> t.made]
    /\ t.id \in Nat \ {0} /\ t.kind \in TakeKinds /\ t.selected \in BOOLEAN /\ t.from = t.made
IsStep(s) ==
    /\ s = [id |-> s.id, scene |-> s.scene, kind |-> s.kind, needs |-> s.needs, status |-> s.status]
    /\ s.kind \in TakeKinds /\ s.status \in StepStates

Alike(t, u) == t.scene = u.scene /\ t.kind = u.kind
TakesLike(t) == {u \in takes : Alike(u, t)}

BoardOK ==
    /\ board \in Seq(SceneRows) /\ nextScene \in Nat \ {0} /\ inputsRev \in Nat
    /\ \A i \in DOMAIN board : 1 <= board[i].id /\ board[i].id < nextScene

\* The numbers of a scene's takes of one kind are at most as many as they are.
TakesOK ==
    /\ IsFiniteSet(takes)
    /\ \A t \in takes : IsTake(t) /\ t.scene \in SceneIds /\ t.id <= Cardinality(TakesLike(t))
    /\ \A t, u \in takes : Alike(t, u) /\ t.id = u.id => t = u
    /\ \A t, u \in takes : Alike(t, u) /\ t.selected /\ u.selected => t = u

StepsOK ==
    /\ \A s \in genSteps : IsStep(s)
    /\ gpuJob.pc \in {"idle", "run", "inserted"}
    /\ gpuJob.pc # "idle" => \E s \in genSteps : s.status = "running"

SplitOK ==
    /\ splitting \in [pc : {"idle", "run", "counted"}, drafts : SplitDrafts \cup {<<>>}, discard : BOOLEAN,
                      counted : SUBSET Nat]
    /\ splitting.pc # "idle" => splitting.drafts \in SplitDrafts

\* Take t is the selected voice of scene sc.
VoiceOf(t, sc) == t.scene = sc /\ t.kind = "voice" /\ t.selected
Durations ==
    \A i \in DOMAIN board :
        /\ \A t \in takes : VoiceOf(t, board[i].id) => board[i].duration = t.id
        /\ (\A t \in takes : ~VoiceOf(t, board[i].id)) => board[i].duration = Estimated

StoryInv == BoardOK /\ TakesOK /\ StepsOK /\ SplitOK /\ Durations

USE StoryboardAssumption DEF NoTake, Estimated, StepStates

-----------------------------------------------------------------------------
(* Steps *)

LEMMA RunningStepIs ==
    ASSUME StepsOK, gpuJob.pc # "idle"
    PROVE  RunningStep \in genSteps /\ IsStep(RunningStep)
BY DEF StepsOK, RunningStep

\* A step as the list of its fields.
StepRecord(a, sc, k, n, x) == [id |-> a, scene |-> sc, kind |-> k, needs |-> n, status |-> x]

LEMMA StepFields ==
    ASSUME NEW a, NEW sc, NEW k \in TakeKinds, NEW n, NEW x \in StepStates
    PROVE  IsStep(StepRecord(a, sc, k, n, x)) /\ StepRecord(a, sc, k, n, x).status = x
BY DEF IsStep, StepRecord

LEMMA StepExcept ==
    ASSUME NEW a, NEW sc, NEW k, NEW n, NEW x, NEW s, s = StepRecord(a, sc, k, n, x), NEW y
    PROVE  [s EXCEPT !.status = y] = StepRecord(a, sc, k, n, y)
BY DEF StepRecord

LEMMA StatusSet ==
    ASSUME NEW s, IsStep(s), NEW x \in StepStates
    PROVE  /\ IsStep([s EXCEPT !.status = x]) /\ [s EXCEPT !.status = x].status = x
           /\ IsStep([s EXCEPT !.needs = 0])
           /\ IsStep([s EXCEPT !.status = x, !.needs = 0])
<1> DEFINE a == s.id
           sc == s.scene
           k == s.kind
           n == s.needs
           y == s.status
<1>1. s = StepRecord(a, sc, k, n, y) /\ k \in TakeKinds /\ y \in StepStates
  BY DEF IsStep, StepRecord
<1> HIDE DEF a, sc, k, n, y
<1>2. [s EXCEPT !.status = x] = StepRecord(a, sc, k, n, x)
  BY <1>1, StepExcept
<1>3. [s EXCEPT !.needs = 0] = StepRecord(a, sc, k, 0, y)
  BY <1>1 DEF StepRecord
<1> DEFINE r == [s EXCEPT !.status = x]
<1>4. [r EXCEPT !.needs = 0] = StepRecord(a, sc, k, 0, x)
  <2>1. r = StepRecord(a, sc, k, n, x)
    BY <1>2
  <2> HIDE DEF r
  <2> QED BY <2>1 DEF StepRecord
<1>5. [s EXCEPT !.status = x, !.needs = 0] = StepRecord(a, sc, k, 0, x)
  BY <1>4
<1> QED BY <1>1, <1>2, <1>3, <1>5, StepFields

LEMMA NewStepIs == ASSUME NEW sc, NEW k \in TakeKinds, NEW n PROVE IsStep(NewStep(sc, k, n))
BY DEF NewStep, IsStep

LEMMA StepsTyped ==
    ASSUME StepsOK, NEW step \in genSteps, NEW x \in StepStates
    PROVE  /\ \A s \in WithStatusOf(step, x) : IsStep(s)
           /\ \E s \in WithStatusOf(step, x) : s.status = x
           /\ \A s \in Failed(step) : IsStep(s)
           /\ \A s \in Done(step) : IsStep(s)
<1>1. \A s \in genSteps : /\ IsStep(s) /\ IsStep([s EXCEPT !.status = x]) /\ [s EXCEPT !.status = x].status = x
                          /\ IsStep([s EXCEPT !.status = "failed"]) /\ IsStep([s EXCEPT !.needs = 0])
                          /\ IsStep([s EXCEPT !.status = "upstream_failed", !.needs = 0])
  <2> SUFFICES ASSUME NEW s \in genSteps
               PROVE  /\ IsStep(s) /\ IsStep([s EXCEPT !.status = x]) /\ [s EXCEPT !.status = x].status = x
                      /\ IsStep([s EXCEPT !.status = "failed"]) /\ IsStep([s EXCEPT !.needs = 0])
                      /\ IsStep([s EXCEPT !.status = "upstream_failed", !.needs = 0])
    OBVIOUS
  <2>1. IsStep(s)
    BY DEF StepsOK
  <2> QED BY <2>1, StatusSet
<1>2. [step EXCEPT !.status = x] \in WithStatusOf(step, x)
  BY DEF WithStatusOf
<1>3. \A s \in WithStatusOf(step, x) : IsStep(s)
  BY <1>1 DEF WithStatusOf
<1>4. \A s \in Failed(step) : IsStep(s)
  BY <1>1 DEF Failed
<1>5. \A s \in Done(step) : IsStep(s)
  BY <1>1 DEF Done
<1> QED BY <1>1, <1>2, <1>3, <1>4, <1>5

LEMMA PlanTyped == \A s \in PlanMissing : IsStep(s)
<1> SUFFICES ASSUME NEW i \in DOMAIN board, NEW s \in MissingSteps(board[i]) PROVE IsStep(s)
  BY DEF PlanMissing
<1>1. \E k \in TakeKinds : \E n : s = NewStep(board[i].id, k, n)
  BY DEF MissingSteps
<1> QED BY <1>1, NewStepIs

-----------------------------------------------------------------------------
(* What stays when takes or scenes do *)

LEMMA BoardStays == ASSUME BoardOK, UNCHANGED <<board, nextScene, inputsRev>> PROVE BoardOK'
BY DEF BoardOK

LEMMA TakesStay ==
    ASSUME TakesOK, UNCHANGED takes, SceneIds \subseteq SceneIds'
    PROVE  TakesOK'
BY DEF TakesOK, TakesLike

LEMMA StepsStay == ASSUME StepsOK, UNCHANGED <<genSteps, gpuJob>> PROVE StepsOK'
BY DEF StepsOK

LEMMA SplitStays == ASSUME SplitOK, UNCHANGED splitting PROVE SplitOK'
BY DEF SplitOK

LEMMA DurationStays == ASSUME Durations, UNCHANGED <<board, takes>> PROVE Durations'
BY DEF Durations, VoiceOf

LEMMA SceneIdsStay == ASSUME UNCHANGED board PROVE SceneIds' = SceneIds
BY DEF SceneIds

LEMMA RowsAre ==
    ASSUME BoardOK
    PROVE  \A k \in DOMAIN board : board[k] \in SceneRows /\ board[k].id \in Nat /\ k \in Nat \ {0}
<1>1. \A k \in DOMAIN board : board[k] \in SceneRows /\ k \in Nat \ {0}
  BY DEF BoardOK
<1> QED BY <1>1 DEF SceneRows

\* A step that changes the generating steps only.
LEMMA OnlySteps ==
    ASSUME StoryInv, UNCHANGED <<board, takes, splitting, inputsRev, nextScene>>, StepsOK'
    PROVE  StoryInv'
BY BoardStays, TakesStay, SplitStays, DurationStays, SceneIdsStay DEF StoryInv

-----------------------------------------------------------------------------
(* Selecting a take *)

Mark(t, take) == IF Alike(t, take) THEN [t EXCEPT !.selected = (t.id = take.id)] ELSE t

LEMMA MarkIs ==
    ASSUME NEW take, NEW t, IsTake(t)
    PROVE  /\ IsTake(Mark(t, take)) /\ Mark(t, take).id = t.id
           /\ Mark(t, take).scene = t.scene /\ Mark(t, take).kind = t.kind
           /\ Alike(t, take) => (Mark(t, take).selected <=> t.id = take.id)
           /\ ~Alike(t, take) => Mark(t, take) = t
<1> DEFINE b == (t.id = take.id)
<1>1. b \in BOOLEAN
  OBVIOUS
<1> HIDE DEF b
<1>2. [t EXCEPT !.selected = b] =
        [id |-> t.id, scene |-> t.scene, kind |-> t.kind, selected |-> b, from |-> t.from, made |-> t.made]
  BY DEF IsTake
<1>3. CASE Alike(t, take)
  <2>1. Mark(t, take) =
          [id |-> t.id, scene |-> t.scene, kind |-> t.kind, selected |-> b, from |-> t.from, made |-> t.made]
    BY <1>2, <1>3 DEF Mark, b
  <2>2. t.id \in Nat \ {0} /\ t.kind \in TakeKinds /\ t.from = t.made
    BY DEF IsTake
  <2>3. IsTake(Mark(t, take))
    BY <1>1, <2>1, <2>2 DEF IsTake
  <2>4. Mark(t, take).selected = b
    BY <2>1
  <2>5. Mark(t, take).selected <=> t.id = take.id
    BY <2>4 DEF b
  <2> QED BY <1>3, <2>1, <2>3, <2>5
<1>4. CASE ~Alike(t, take)
  BY <1>4 DEF Mark
<1> QED BY <1>3, <1>4

LEMMA MarkedTakes == ASSUME NEW take, takes' = WithSelected(take) PROVE takes' = {Mark(t, take) : t \in takes}
BY DEF WithSelected, Mark, Alike

\* The takes like a marked one are the marked ones like it, and as many.
LEMMA MarkedAreAsMany ==
    ASSUME TakesOK, NEW take, takes' = WithSelected(take), NEW t \in takes
    PROVE  Cardinality(TakesLike(Mark(t, take))') = Cardinality(TakesLike(t))
<1> DEFINE A == TakesLike(t)
           B == TakesLike(Mark(t, take))'
           f == [u \in A |-> Mark(u, take)]
<1>1. \A u \in takes : /\ Mark(u, take).id = u.id /\ Mark(u, take).scene = u.scene /\ Mark(u, take).kind = u.kind
                       /\ IsTake(u)
  BY MarkIs DEF TakesOK
<1>2. B = {Mark(u, take) : u \in A}
  BY <1>1, MarkedTakes DEF TakesLike, Alike
<1>3. \A u, v \in A : Mark(u, take) = Mark(v, take) => u = v
  BY <1>1 DEF TakesLike, Alike, TakesOK
<1>4. A \subseteq takes
  BY DEF TakesLike
<1>5. IsFiniteSet(A)
  BY <1>4, FS_Subset DEF TakesOK
<1> HIDE DEF A, B
<1>6. f \in Bijection(A, B)
  BY <1>2, <1>3 DEF Bijection, Injection, Surjection, IsInjective
<1>7. Cardinality(A) = Cardinality(B)
  BY <1>5, <1>6, FS_Bijection DEF ExistsBijection
<1> QED BY <1>7 DEF A, B

LEMMA SelectKeepsTakes ==
    ASSUME TakesOK, NEW take \in takes, takes' = WithSelected(take), SceneIds' = SceneIds
    PROVE  TakesOK'
<1>1. \A t \in takes : /\ IsTake(t) /\ IsTake(Mark(t, take)) /\ Mark(t, take).id = t.id
                       /\ Mark(t, take).scene = t.scene /\ Mark(t, take).kind = t.kind
                       /\ Alike(t, take) => (Mark(t, take).selected <=> t.id = take.id)
                       /\ ~Alike(t, take) => Mark(t, take) = t
  BY MarkIs DEF TakesOK
<1>2. takes' = {Mark(t, take) : t \in takes}
  BY MarkedTakes
<1>3. IsFiniteSet(takes')
  <2> DEFINE f == [t \in takes |-> Mark(t, take)]
  <2>1. f \in Surjection(takes, takes')
    BY <1>2 DEF Surjection
  <2> QED BY <2>1, FS_Surjection DEF TakesOK
<1>4. ASSUME NEW m \in takes' PROVE IsTake(m) /\ m.scene \in SceneIds' /\ m.id <= Cardinality(TakesLike(m)')
  <2>1. PICK t \in takes : m = Mark(t, take)
    BY <1>2
  <2>2. IsTake(t) /\ t.scene \in SceneIds /\ t.id <= Cardinality(TakesLike(t))
    BY DEF TakesOK
  <2>3. Cardinality(TakesLike(m)') = Cardinality(TakesLike(t))
    BY <2>1, MarkedAreAsMany
  <2> QED BY <1>1, <2>1, <2>2, <2>3
<1>5. ASSUME NEW m \in takes', NEW n \in takes', Alike(m, n)
      PROVE  (m.id = n.id => m = n) /\ (m.selected /\ n.selected => m = n)
  <2>1. PICK t \in takes : m = Mark(t, take)
    BY <1>2
  <2>2. PICK u \in takes : n = Mark(u, take)
    BY <1>2
  <2>3. Alike(t, u) /\ m.id = t.id /\ n.id = u.id
    BY <1>1, <1>5, <2>1, <2>2 DEF Alike
  <2>4. t.id = u.id => t = u
    BY <2>3 DEF TakesOK
  <2>5. ASSUME m.selected, n.selected PROVE t = u
    <3>1. CASE Alike(t, take)
      BY <1>1, <2>1, <2>2, <2>3, <2>4, <2>5, <3>1 DEF Alike
    <3>2. CASE ~Alike(t, take)
      <4>1. ~Alike(u, take)
        BY <2>3, <3>2 DEF Alike
      <4>2. t.selected /\ u.selected
        BY <1>1, <2>1, <2>2, <2>5, <3>2, <4>1
      <4> QED BY <2>3, <4>2 DEF TakesOK
    <3> QED BY <3>1, <3>2
  <2> QED BY <2>1, <2>2, <2>3, <2>4, <2>5
<1> QED BY <1>3, <1>4, <1>5 DEF TakesOK

LEMMA SelectKeepsBoard ==
    ASSUME StoryInv, NEW take \in takes, SelectInto(take)
    PROVE  /\ Durations' /\ SceneIds' = SceneIds /\ board' \in Seq(SceneRows)
           /\ DOMAIN board' = DOMAIN board /\ \A i \in DOMAIN board : board'[i].id = board[i].id
<1>1. /\ takes' = {Mark(t, take) : t \in takes} /\ DOMAIN board' = DOMAIN board
      /\ \A i \in DOMAIN board : board[i] \in SceneRows
      /\ DOMAIN board = 1..Len(board) /\ Len(board) \in Nat
  BY MarkedTakes DEF SelectInto, StoryInv, BoardOK
<1>2. /\ IsTake(take)
      /\ \A t \in takes : /\ Mark(t, take).id = t.id
                          /\ Mark(t, take).scene = t.scene /\ Mark(t, take).kind = t.kind
                          /\ Alike(t, take) => (Mark(t, take).selected <=> t.id = take.id)
                          /\ ~Alike(t, take) => Mark(t, take) = t
  BY MarkIs DEF TakesOK, StoryInv
<1>3. ASSUME NEW i \in DOMAIN board
      PROVE  /\ board'[i] \in SceneRows /\ board'[i].id = board[i].id
             /\ \A m \in takes' : VoiceOf(m, board[i].id) => board'[i].duration = m.id
             /\ (\A m \in takes' : ~VoiceOf(m, board[i].id)) => board'[i].duration = Estimated
  <2>1. CASE board[i].id = take.scene /\ take.kind = "voice"
    <3>1. board'[i] = [board[i] EXCEPT !.duration = take.id]
      BY <2>1 DEF SelectInto
    <3>2. /\ board'[i] \in SceneRows /\ board'[i].id = board[i].id /\ board'[i].duration = take.id
      BY <1>1, <1>2, <3>1 DEF SceneRows, IsTake
    <3>3. Mark(take, take) \in takes' /\ VoiceOf(Mark(take, take), board[i].id)
      BY <1>1, <1>2, <2>1 DEF VoiceOf, Alike
    <3>4. ASSUME NEW m \in takes', VoiceOf(m, board[i].id) PROVE m.id = take.id
      <4>1. PICK t \in takes : m = Mark(t, take)
        BY <1>1
      <4>2. Alike(t, take)
        BY <1>2, <2>1, <3>4, <4>1 DEF VoiceOf, Alike
      <4> QED BY <1>2, <3>4, <4>1, <4>2 DEF VoiceOf
    <3> QED BY <3>2, <3>3, <3>4
  <2>2. CASE ~(board[i].id = take.scene /\ take.kind = "voice")
    <3>1. board'[i] = board[i]
      BY <2>2 DEF SelectInto
    <3>2. \A t \in takes : t.scene = board[i].id /\ t.kind = "voice" => Mark(t, take) = t
      BY <1>2, <2>2 DEF Alike
    <3>3. \A m \in takes' : VoiceOf(m, board[i].id) => m \in takes
      BY <1>1, <1>2, <3>2 DEF VoiceOf
    <3>4. \A t \in takes : VoiceOf(t, board[i].id) => t \in takes'
      BY <1>1, <3>2 DEF VoiceOf
    <3> QED BY <1>1, <3>1, <3>3, <3>4 DEF StoryInv, Durations
  <2> QED BY <2>1, <2>2
<1>4. Durations'
  BY <1>1, <1>3 DEF Durations
<1>5. SceneIds' = SceneIds
  BY <1>1, <1>3 DEF SceneIds
<1>6. board' \in [1..Len(board) -> SceneRows]
  BY <1>1, <1>3 DEF SelectInto
<1> QED BY <1>1, <1>3, <1>4, <1>5, <1>6

LEMMA SelectKeepsInv ==
    ASSUME StoryInv, NEW take \in takes, SelectInto(take), UNCHANGED <<inputsRev, nextScene, splitting>>, StepsOK'
    PROVE  StoryInv'
<1>1. /\ Durations' /\ SceneIds' = SceneIds /\ board' \in Seq(SceneRows)
      /\ DOMAIN board' = DOMAIN board /\ \A i \in DOMAIN board : board'[i].id = board[i].id
  BY SelectKeepsBoard
<1>2. TakesOK'
  BY <1>1, SelectKeepsTakes DEF SelectInto, StoryInv
<1>3. BoardOK'
  BY <1>1 DEF BoardOK, StoryInv
<1> QED BY <1>1, <1>2, <1>3, SplitStays DEF StoryInv

-----------------------------------------------------------------------------
(* Recording a take *)

LEMMA InsertKeepsInv ==
    ASSUME StoryInv, InsertTake
    PROVE  StoryInv'
<1> DEFINE step == RunningStep
           like == {t \in takes : t.scene = step.scene /\ t.kind = step.kind}
           id == Cardinality(like) + 1
           new == [id |-> id, scene |-> step.scene, kind |-> step.kind, selected |-> FALSE,
                   from |-> gpuJob.from, made |-> gpuJob.from]
<1>1. gpuJob.pc = "run" /\ step \in genSteps /\ IsStep(step)
  BY RunningStepIs DEF InsertTake, StoryInv
<1>2. CASE step.scene \notin SceneIds
  <2>1. gpuJob' = IdleGpu /\ genSteps' = WithStatusOf(step, "queued")
        /\ UNCHANGED <<board, takes, splitting, inputsRev, nextScene>>
    BY <1>2 DEF InsertTake
  <2>2. \A s \in genSteps' : IsStep(s)
    BY <1>1, <2>1, StepsTyped DEF StoryInv
  <2>3. StepsOK'
    BY <2>1, <2>2 DEF StepsOK, IdleGpu
  <2> QED BY <2>1, <2>3, OnlySteps
<1>3. CASE step.scene \in SceneIds
  <2>1. /\ takes' = takes \cup {new} /\ gpuJob' = [pc |-> "inserted", from |-> <<id>>]
        /\ UNCHANGED <<board, splitting, inputsRev, nextScene, genSteps>>
    BY <1>3 DEF InsertTake, RecordedInputs
  <2>2. IsFiniteSet(like) /\ like \subseteq takes
    BY FS_Subset DEF StoryInv, TakesOK
  <2>3. Cardinality(like) \in Nat
    BY <2>2, FS_CardinalityType
  <2>4. IsTake(new) /\ new.scene = step.scene /\ new.kind = step.kind /\ new.id = id /\ ~new.selected
    BY <1>1, <2>3 DEF IsTake, IsStep
  <2>5. \A t \in like : t.id <= Cardinality(like)
    <3> SUFFICES ASSUME NEW t \in like PROVE t.id <= Cardinality(like)
      OBVIOUS
    <3>1. TakesLike(t) = like
      BY DEF TakesLike, Alike
    <3> QED BY <2>2, <3>1 DEF StoryInv, TakesOK
  <2>6. \A t \in like : t.id \in Nat /\ t.id # id
    BY <2>2, <2>3, <2>5 DEF StoryInv, TakesOK, IsTake
  <2>7. new \notin like
    BY <2>4, <2>6
  <2>8. IsFiniteSet(like \cup {new}) /\ Cardinality(like \cup {new}) = Cardinality(like) + 1
    BY <2>2, <2>7, FS_AddElement
  <2>9. IsFiniteSet(takes')
    BY <2>1, FS_AddElement DEF StoryInv, TakesOK
  <2>10. \A t \in takes : t \in like <=> Alike(t, new)
    BY <2>4 DEF Alike
  <2> DEFINE n == Cardinality(like)
  <2> HIDE DEF new, like, id
  <2>11. ASSUME NEW t \in takes' PROVE IsTake(t) /\ t.scene \in SceneIds' /\ t.id <= Cardinality(TakesLike(t)')
    <3>1. SceneIds' = SceneIds
      BY <2>1, SceneIdsStay
    <3>2. CASE Alike(t, new)
      <4>1. TakesLike(t)' = like \cup {new}
        BY <2>1, <2>2, <2>10, <3>2 DEF TakesLike, Alike
      <4>2. t \in like \/ t = new
        BY <2>1, <2>10, <3>2
      <4>3. t.id <= n + 1
        BY <2>3, <2>4, <2>5, <2>6, <4>2 DEF id
      <4>4. IsTake(t) /\ t.scene \in SceneIds
        BY <1>3, <2>2, <2>4, <4>2 DEF StoryInv, TakesOK
      <4> QED BY <2>8, <3>1, <4>1, <4>3, <4>4
    <3>3. CASE ~Alike(t, new)
      <4>1. t \in takes
        BY <2>1, <3>3 DEF Alike
      <4>2. TakesLike(t)' = TakesLike(t)
        BY <2>1, <3>3 DEF TakesLike, Alike
      <4> QED BY <3>1, <4>1, <4>2 DEF StoryInv, TakesOK
    <3> QED BY <3>2, <3>3
  <2>12. ASSUME NEW t \in takes', NEW u \in takes', Alike(t, u)
         PROVE  (t.id = u.id => t = u) /\ (t.selected /\ u.selected => t = u)
    <3>1. CASE t \in takes /\ u \in takes
      BY <2>12, <3>1 DEF StoryInv, TakesOK
    <3>2. CASE t = new /\ u \in takes
      <4>1. u \in like
        BY <2>10, <2>12, <3>2 DEF Alike
      <4> QED BY <2>4, <2>6, <3>2, <4>1
    <3>3. CASE t \in takes /\ u = new
      <4>1. t \in like
        BY <2>10, <2>12, <3>3 DEF Alike
      <4> QED BY <2>4, <2>6, <3>3, <4>1
    <3> QED BY <2>1, <3>1, <3>2, <3>3
  <2>13. TakesOK'
    BY <2>9, <2>11, <2>12 DEF TakesOK
  <2>14. Durations'
    BY <2>1, <2>4 DEF Durations, VoiceOf, StoryInv
  <2>15. StepsOK'
    BY <1>1, <2>1 DEF StepsOK, StoryInv
  <2> QED BY <2>1, <2>13, <2>14, <2>15, BoardStays, SplitStays DEF StoryInv
<1> QED BY <1>2, <1>3

-----------------------------------------------------------------------------
(* The other actions *)

LEMMA StartKeepsInv ==
    ASSUME StoryInv, NEW step \in genSteps, StartStep(step)
    PROVE  StoryInv'
<1>1. UNCHANGED <<board, takes, splitting, inputsRev, nextScene>> /\ gpuJob.pc = "idle"
  BY DEF StartStep
<1>2. CASE gpuJob' = gpuJob
  <2>1. genSteps' = Failed(step) \/ genSteps' = Done(step) \/ genSteps' = WithStatusOf(step, "running")
    BY DEF StartStep
  <2>2. \A s \in genSteps' : IsStep(s)
    BY <2>1, StepsTyped DEF StoryInv
  <2>3. StepsOK'
    BY <1>1, <1>2, <2>2 DEF StepsOK
  <2> QED BY <1>1, <2>3, OnlySteps
<1>3. CASE gpuJob' # gpuJob
  <2>1. gpuJob'.pc = "run" /\ genSteps' = WithStatusOf(step, "running")
    BY <1>3 DEF StartStep
  <2>2. (\A s \in genSteps' : IsStep(s)) /\ \E s \in genSteps' : s.status = "running"
    BY <2>1, StepsTyped DEF StoryInv
  <2>3. StepsOK'
    BY <2>1, <2>2 DEF StepsOK
  <2> QED BY <1>1, <2>3, OnlySteps
<1> QED BY <1>2, <1>3

LEMMA FinishKeepsInv ==
    ASSUME StoryInv, FinishStep
    PROVE  StoryInv'
<1> DEFINE step == RunningStep
           mine == {t \in takes : t.scene = step.scene /\ t.kind = step.kind /\ t.id = gpuJob.from[1]}
<1>1. gpuJob.pc = "inserted" /\ step \in genSteps /\ IsStep(step)
  BY RunningStepIs DEF FinishStep, StoryInv
<1>2. gpuJob' = IdleGpu /\ UNCHANGED <<splitting, inputsRev, nextScene>>
  BY DEF FinishStep
<1>3. CASE mine = {}
  <2>1. genSteps' = WithStatusOf(step, "queued") /\ UNCHANGED <<board, takes>>
    BY <1>3 DEF FinishStep
  <2>2. \A s \in genSteps' : IsStep(s)
    BY <1>1, <2>1, StepsTyped DEF StoryInv
  <2>3. StepsOK'
    BY <1>2, <2>2 DEF StepsOK, IdleGpu
  <2> QED BY <1>2, <2>1, <2>3, OnlySteps
<1>4. CASE mine # {}
  <2>1. PICK t \in takes : SelectInto(t)
    BY <1>4 DEF FinishStep
  <2>2. genSteps' \subseteq Done(step) \cup {NewStep(step.scene, "align", 0)}
    BY <1>4 DEF FinishStep
  <2>3. \A s \in genSteps' : IsStep(s)
    BY <1>1, <2>2, StepsTyped, NewStepIs DEF StoryInv
  <2>4. StepsOK'
    BY <1>2, <2>3 DEF StepsOK, IdleGpu
  <2> QED BY <1>2, <2>1, <2>4, SelectKeepsInv
<1> QED BY <1>3, <1>4

LEMMA FailKeepsInv ==
    ASSUME StoryInv, StepFails
    PROVE  StoryInv'
<1>1. gpuJob.pc # "idle" /\ RunningStep \in genSteps
  BY RunningStepIs DEF StepFails, StoryInv
<1>2. gpuJob' = IdleGpu /\ UNCHANGED <<board, takes, splitting, inputsRev, nextScene>>
  BY DEF StepFails
<1>3. \A s \in genSteps' : IsStep(s)
  BY <1>1, StepsTyped DEF StepFails, StoryInv
<1>4. StepsOK'
  BY <1>2, <1>3 DEF StepsOK, IdleGpu
<1> QED BY <1>2, <1>4, OnlySteps

LEMMA RequestsKeepInv ==
    ASSUME StoryInv, GenerateMissing \/ \E i \in DOMAIN board, k \in TakeKinds : Regenerate(board[i], k)
    PROVE  StoryInv'
<1>1. UNCHANGED <<board, takes, splitting, inputsRev, nextScene, gpuJob>>
  BY DEF GenerateMissing, Regenerate
<1>2. genSteps \subseteq genSteps' /\ \A s \in genSteps' \ genSteps : IsStep(s)
  <2>1. CASE GenerateMissing
    BY <2>1, PlanTyped DEF GenerateMissing
  <2>2. ASSUME NEW i \in DOMAIN board, NEW k \in TakeKinds, Regenerate(board[i], k)
        PROVE  genSteps \subseteq genSteps' /\ \A s \in genSteps' \ genSteps : IsStep(s)
    BY <2>2, NewStepIs DEF Regenerate
  <2> QED BY <2>1, <2>2
<1>3. StepsOK'
  BY <1>1, <1>2 DEF StepsOK, StoryInv
<1> QED BY <1>1, <1>3, OnlySteps

LEMMA UpdateKeepsInv ==
    ASSUME StoryInv, NEW i \in DOMAIN board, UpdateScene(i)
    PROVE  StoryInv'
<1>1. board \in Seq(SceneRows) /\ board[i] \in SceneRows
  BY DEF StoryInv, BoardOK
<1>2. \E r \in SceneRows : board' = [board EXCEPT ![i] = r] /\ r.id = board[i].id /\ r.duration = board[i].duration
  <2>1. PICK row \in {[board[i] EXCEPT !.text = x] : x \in Narrations \ {board[i].text}}
                       \cup {[board[i] EXCEPT !.prompt = @ + 1]} :
            board' = [board EXCEPT ![i] = [row EXCEPT !.edited = TRUE, !.duration = EditedDuration(row)]]
    BY DEF UpdateScene
  <2>2. row \in SceneRows /\ row.id = board[i].id /\ row.duration = board[i].duration
    <3> DEFINE old == board[i]
    <3>1. (\E x \in Narrations : row = [old EXCEPT !.text = x]) \/ row = [old EXCEPT !.prompt = @ + 1]
      OBVIOUS
    <3>2. old \in SceneRows
      BY <1>1
    <3> HIDE DEF old
    <3>3. row \in SceneRows /\ row.id = old.id /\ row.duration = old.duration
      <4>1. ASSUME NEW x \in Narrations, row = [old EXCEPT !.text = x]
            PROVE  row \in SceneRows /\ row.id = old.id /\ row.duration = old.duration
        BY <3>2, <4>1 DEF SceneRows
      <4>2. ASSUME row = [old EXCEPT !.prompt = @ + 1]
            PROVE  row \in SceneRows /\ row.id = old.id /\ row.duration = old.duration
        BY <3>2, <4>2 DEF SceneRows
      <4> QED BY <3>1, <4>1, <4>2
    <3> QED BY <3>3 DEF old
  <2> DEFINE r == [row EXCEPT !.edited = TRUE, !.duration = row.duration]
  <2>3. r \in SceneRows /\ r.id = row.id /\ r.duration = row.duration
    BY <2>2 DEF SceneRows
  <2> QED BY <2>1, <2>2, <2>3 DEF EditedDuration
<1>3. PICK r \in SceneRows : board' = [board EXCEPT ![i] = r] /\ r.id = board[i].id /\ r.duration = board[i].duration
  BY <1>2
<1>4. /\ board' \in Seq(SceneRows) /\ DOMAIN board' = DOMAIN board
      /\ \A j \in DOMAIN board : board'[j].id = board[j].id /\ board'[j].duration = board[j].duration
  BY <1>1, <1>3
<1>5. SceneIds' = SceneIds
  BY <1>4 DEF SceneIds
<1>6. UNCHANGED <<takes, genSteps, gpuJob, splitting, inputsRev, nextScene>>
  BY DEF UpdateScene
<1>7. BoardOK'
  BY <1>4, <1>6 DEF BoardOK, StoryInv
<1>8. Durations'
  BY <1>4, <1>6 DEF Durations, VoiceOf, StoryInv
<1> QED BY <1>5, <1>6, <1>7, <1>8, TakesStay, StepsStay, SplitStays DEF StoryInv

LEMMA SplitBegins ==
    ASSUME StoryInv, StartSplit \/ CountTakes
    PROVE  StoryInv'
<1>1. UNCHANGED <<board, takes, genSteps, gpuJob, inputsRev, nextScene>>
  BY DEF StartSplit, CountTakes
<1>2. CASE StartSplit
  <2>1. PICK d \in SplitDrafts, discard \in BOOLEAN : splitting' = [NoSplit EXCEPT !.pc = "run", !.drafts = d, !.discard = discard]
    BY <1>2 DEF StartSplit
  <2>2. SplitOK'
    BY <2>1 DEF SplitOK, NoSplit
  <2> QED BY <1>1, <2>2, BoardStays, TakesStay, StepsStay, DurationStays, SceneIdsStay DEF StoryInv
<1>3. CASE CountTakes
  <2>1. ScenesWithTakes \subseteq Nat
    BY RowsAre DEF ScenesWithTakes, StoryInv, TakesOK, SceneIds
  <2>2. SplitOK'
    BY <1>3, <2>1 DEF CountTakes, SplitOK, StoryInv
  <2> QED BY <1>1, <2>2, BoardStays, TakesStay, StepsStay, DurationStays, SceneIdsStay DEF StoryInv
<1> QED BY <1>2, <1>3

-----------------------------------------------------------------------------
(* Splitting *)

\* A draft keeps a scene of the board, or makes a new one.
LEMMA PlanIs ==
    ASSUME NEW d \in SplitDrafts
    PROVE  /\ PlanResplit(d) \in [1..Len(d) -> DOMAIN board \cup {0}] /\ Len(PlanResplit(d)) = Len(d)
           /\ Len(d) \in Nat /\ d \in [1..Len(d) -> Narrations]
<1>1. d \in Seq(Narrations) /\ Len(d) \in Nat /\ DOMAIN d = 1..Len(d)
  OBVIOUS
<1>2. PlanResplit(d) \in [DOMAIN d -> DOMAIN board \cup {0}]
  <2> SUFFICES ASSUME NEW i \in DOMAIN d PROVE PlanResplit(d)[i] \in DOMAIN board \cup {0}
    BY DEF PlanResplit
  <2> DEFINE rank(s, n) == Cardinality({j \in 1..n : s[j] = d[i]})
             texts == [k \in DOMAIN board |-> board[k].text]
             same == {k \in DOMAIN board : texts[k] = d[i] /\ rank(texts, k) = rank(d, i)}
  <2>1. PlanResplit(d)[i] = IF same = {} THEN 0 ELSE CHOOSE k \in same : TRUE
    BY DEF PlanResplit
  <2>2. same \subseteq DOMAIN board
    OBVIOUS
  <2> HIDE DEF same
  <2> QED BY <2>1, <2>2
<1> QED BY <1>1, <1>2

\* What a split does that is not refused: rows[i] is the old row or a new one.
LEMMA SplitBoard ==
    ASSUME StoryInv, ApplySplit, board' # board \/ takes' # takes \/ nextScene' # nextScene
    PROVE  /\ board' \in Seq(SceneRows) /\ nextScene' \in Nat /\ nextScene' >= nextScene
           /\ \A i \in DOMAIN board' : \/ \E k \in DOMAIN board : board'[i] = board[k]
                                       \/ /\ board'[i].id >= nextScene /\ board'[i].id < nextScene'
                                          /\ board'[i].duration = Estimated
           /\ takes' = {t \in takes : t.scene \in SceneIds'}
<1> DEFINE d == splitting.drafts
           plan == PlanResplit(d)
           new(i) == [id |-> nextScene + i - 1, text |-> d[i], prompt |-> 0, edited |-> FALSE, duration |-> Estimated]
<1>1. /\ board' = [i \in DOMAIN plan |-> IF plan[i] = 0 THEN new(i) ELSE board[plan[i]]]
      /\ takes' = {t \in takes : \E i \in DOMAIN board' : board'[i].id = t.scene}
      /\ nextScene' = IF \A i \in DOMAIN plan : plan[i] # 0 THEN nextScene ELSE nextScene + Len(plan)
  BY DEF ApplySplit
<1>2. d \in SplitDrafts
  BY DEF ApplySplit, StoryInv, SplitOK
<1>3. /\ plan \in [1..Len(d) -> DOMAIN board \cup {0}] /\ Len(plan) = Len(d) /\ Len(d) \in Nat
      /\ d \in [1..Len(d) -> Narrations]
  BY <1>2, PlanIs
<1>4. /\ nextScene \in Nat \ {0} /\ \A k \in DOMAIN board : k # 0 /\ board[k] \in SceneRows
  BY DEF StoryInv, BoardOK
<1> HIDE DEF d, plan
<1>5. nextScene' \in Nat /\ nextScene' >= nextScene
  BY <1>1, <1>3, <1>4
<1>6. ASSUME NEW i \in 1..Len(d)
      PROVE  /\ board'[i] \in SceneRows
             /\ \/ \E k \in DOMAIN board : board'[i] = board[k]
                \/ board'[i].id >= nextScene /\ board'[i].id < nextScene' /\ board'[i].duration = Estimated
  <2>1. CASE plan[i] = 0
    <3>1. board'[i] = new(i)
      BY <1>1, <1>3, <2>1
    <3>2. nextScene' = nextScene + Len(d)
      BY <1>1, <1>3, <2>1
    <3>3. new(i) \in SceneRows
      BY <1>3, <1>4 DEF SceneRows
    <3>4. new(i).id >= nextScene /\ new(i).id < nextScene + Len(d) /\ new(i).duration = Estimated
      BY <1>3, <1>4
    <3> QED BY <3>1, <3>2, <3>3, <3>4
  <2>2. CASE plan[i] # 0
    BY <1>1, <1>3, <1>4, <2>2
  <2> QED BY <2>1, <2>2
<1>7. DOMAIN board' = 1..Len(d)
  BY <1>1, <1>3
<1>8. board' \in [1..Len(d) -> SceneRows]
  <2>1. board' = [i \in 1..Len(d) |-> board'[i]]
    BY <1>1, <1>3
  <2> QED BY <1>6, <2>1
<1>9. board' \in Seq(SceneRows)
  BY <1>3, <1>8
<1>10. takes' = {t \in takes : t.scene \in SceneIds'}
  BY <1>1 DEF SceneIds
<1> QED BY <1>5, <1>6, <1>7, <1>9, <1>10

LEMMA SplitKeepsInv ==
    ASSUME StoryInv, ApplySplit
    PROVE  StoryInv'
<1>1. splitting' = NoSplit /\ UNCHANGED <<genSteps, gpuJob, inputsRev>>
  BY DEF ApplySplit
<1>2. SplitOK' /\ StepsOK'
  BY <1>1, StepsStay DEF SplitOK, NoSplit, StoryInv
<1>3. CASE UNCHANGED <<board, takes, nextScene>>
  BY <1>1, <1>2, <1>3, BoardStays, TakesStay, DurationStays, SceneIdsStay DEF StoryInv
<1>4. CASE ~UNCHANGED <<board, takes, nextScene>>
  <2>1. /\ board' \in Seq(SceneRows) /\ nextScene' \in Nat /\ nextScene' >= nextScene
        /\ takes' = {t \in takes : t.scene \in SceneIds'}
    BY <1>4, SplitBoard
  <2>2. \A i \in DOMAIN board' : \/ \E k \in DOMAIN board : board'[i] = board[k]
                                \/ /\ board'[i].id >= nextScene /\ board'[i].id < nextScene'
                                   /\ board'[i].duration = Estimated
    BY <1>4, SplitBoard
  <2>3. /\ nextScene \in Nat \ {0} /\ board \in Seq(SceneRows)
        /\ \A k \in DOMAIN board : 1 <= board[k].id /\ board[k].id < nextScene /\ board[k].id \in Nat
    BY RowsAre DEF StoryInv, BoardOK
  <2>4. \A i \in DOMAIN board' : board'[i].id \in Nat
    <3>1. \A i \in DOMAIN board' : board'[i] \in SceneRows
      BY <2>1
    <3> QED BY <3>1 DEF SceneRows
  <2>5. BoardOK'
    <3>1. \A i \in DOMAIN board' : 1 <= board'[i].id /\ board'[i].id < nextScene'
      BY <2>1, <2>2, <2>3, <2>4
    <3> QED BY <1>1, <2>1, <2>3, <3>1 DEF BoardOK, StoryInv
  <2>6. TakesOK'
    <3>1. takes' \subseteq takes
      BY <2>1
    <3>2. IsFiniteSet(takes')
      BY <3>1, FS_Subset DEF StoryInv, TakesOK
    <3>3. ASSUME NEW t \in takes' PROVE TakesLike(t)' = TakesLike(t)
      BY <2>1, <3>3 DEF TakesLike, Alike
    <3>4. \A t \in takes' : IsTake(t) /\ t.scene \in SceneIds' /\ t.id <= Cardinality(TakesLike(t)')
      BY <2>1, <3>1, <3>3 DEF StoryInv, TakesOK
    <3> QED BY <3>1, <3>2, <3>4 DEF StoryInv, TakesOK
  <2>7. Durations'
    <3> SUFFICES ASSUME NEW i \in DOMAIN board'
                 PROVE  /\ \A t \in takes' : VoiceOf(t, board'[i].id) => board'[i].duration = t.id
                        /\ (\A t \in takes' : ~VoiceOf(t, board'[i].id)) => board'[i].duration = Estimated
      BY DEF Durations
    <3>1. CASE \E k \in DOMAIN board : board'[i] = board[k]
      <4>1. PICK k \in DOMAIN board : board'[i] = board[k]
        BY <3>1
      <4>2. \A t \in takes : VoiceOf(t, board[k].id) => t \in takes'
        BY <2>1, <4>1 DEF VoiceOf, SceneIds
      <4> QED BY <2>1, <4>1, <4>2 DEF StoryInv, Durations
    <3>2. CASE board'[i].id >= nextScene /\ board'[i].duration = Estimated
      <4>1. \A t \in takes : t.scene < nextScene /\ t.scene \in Nat
        BY <2>3 DEF StoryInv, TakesOK, SceneIds
      <4>2. \A t \in takes' : ~VoiceOf(t, board'[i].id)
        BY <2>1, <2>3, <2>4, <3>2, <4>1 DEF VoiceOf
      <4> QED BY <3>2, <4>2
    <3> QED BY <2>2, <3>1, <3>2
  <2> QED BY <1>2, <2>5, <2>6, <2>7 DEF StoryInv
<1> QED BY <1>3, <1>4

-----------------------------------------------------------------------------
(* The theorems *)

LEMMA StoryInitInv == StoryInit => StoryInv
<1> SUFFICES ASSUME StoryInit PROVE StoryInv
  OBVIOUS
<1>1. BoardOK
  BY DEF StoryInit, BoardOK
<1>2. TakesOK
  BY FS_EmptySet DEF StoryInit, TakesOK
<1>3. StepsOK /\ SplitOK /\ Durations
  BY DEF StoryInit, StepsOK, SplitOK, Durations, IdleGpu, NoSplit
<1> QED BY <1>1, <1>2, <1>3 DEF StoryInv

LEMMA StoryStep ==
    ASSUME StoryInv, [StoryNext]_storyVars
    PROVE  StoryInv'
<1>1. CASE UNCHANGED storyVars
  BY <1>1, OnlySteps, StepsStay DEF storyVars, StoryInv
<1>2. CASE UpdateInputs
  <2>1. inputsRev' \in Nat /\ UNCHANGED <<board, takes, genSteps, gpuJob, splitting, nextScene>>
    BY <1>2 DEF UpdateInputs, StoryInv, BoardOK
  <2>2. BoardOK'
    BY <2>1 DEF BoardOK, StoryInv
  <2> QED BY <2>1, <2>2, TakesStay, StepsStay, SplitStays, DurationStays, SceneIdsStay DEF StoryInv
<1>3. ASSUME NEW t \in takes, SelectTake(t) PROVE StoryInv'
  BY <1>3, SelectKeepsInv, StepsStay DEF SelectTake, StoryInv
<1>4. ASSUME NEW s \in genSteps, StartStep(s) PROVE StoryInv'
  BY <1>4, StartKeepsInv
<1>5. ASSUME NEW i \in DOMAIN board, UpdateScene(i) PROVE StoryInv'
  BY <1>5, UpdateKeepsInv
<1> QED
  BY <1>1, <1>2, <1>3, <1>4, <1>5, InsertKeepsInv, FinishKeepsInv, FailKeepsInv, RequestsKeepInv, SplitBegins,
     SplitKeepsInv DEF StoryNext, GpuWorks, SplitGoesOn

\* At most one take is selected; it gives the number shown.
LEMMA SelectedIs ==
    ASSUME TakesOK, NEW sc, NEW k
    PROVE  /\ \A t, u \in Selected(sc, k) : t = u
           /\ IsFiniteSet(Selected(sc, k)) /\ Cardinality(Selected(sc, k)) <= 1
<1>1. \A t, u \in Selected(sc, k) : t = u
  BY DEF TakesOK, Selected, Alike
<1>2. CASE Selected(sc, k) = {}
  BY <1>2, FS_EmptySet
<1>3. CASE Selected(sc, k) # {}
  <2>1. PICK t : Selected(sc, k) = {t}
    BY <1>1, <1>3
  <2>2. IsFiniteSet({t}) /\ Cardinality({t}) = 1
    BY FS_Singleton
  <2> QED BY <1>1, <2>1, <2>2
<1> QED BY <1>1, <1>2, <1>3

LEMMA InvIsSafe == StoryInv => StorySafe
<1> SUFFICES ASSUME StoryInv PROVE StorySafe
  OBVIOUS
<1>1. \A i \in DOMAIN board : board[i] \in SceneRows /\ board[i].id \in Nat /\ board[i].id < nextScene /\ 1 <= board[i].id
  BY RowsAre DEF StoryInv, BoardOK
<1>2. StoryTypeOK
  <2>1. \A i \in DOMAIN board : /\ board[i].id \in 1..nextScene /\ board[i].text \in Narrations
                              /\ board[i].prompt \in Nat /\ board[i].edited \in BOOLEAN
    <3>1. nextScene \in Nat
      BY DEF StoryInv, BoardOK
    <3>2. \A i \in DOMAIN board : board[i].text \in Narrations /\ board[i].prompt \in Nat /\ board[i].edited \in BOOLEAN
      BY <1>1 DEF SceneRows
    <3> QED BY <1>1, <3>1, <3>2
  <2>2. \A t \in takes : t.scene \in SceneIds /\ t.kind \in TakeKinds /\ Cardinality(Selected(t.scene, t.kind)) <= 1
    BY SelectedIs DEF StoryInv, TakesOK, IsTake
  <2>3. \A s \in genSteps : s.status \in {"queued", "running", "failed", "upstream_failed", "done"}
    BY DEF StoryInv, StepsOK, IsStep
  <2>4. splitting.pc \in {"idle", "run", "counted"} /\ splitting.discard \in BOOLEAN
    BY DEF StoryInv, SplitOK
  <2> QED BY <2>1, <2>2, <2>3, <2>4 DEF StoryTypeOK, StoryInv, StepsOK, BoardOK
<1>3. DoneIsCurrent
  <2> SUFFICES ASSUME NEW i \in DOMAIN board, NEW k \in TakeKinds, PipFor(k, board[i]) = "done",
                      NEW t \in Selected(board[i].id, k)
               PROVE  t.made = ComponentsFor(k, board[i])
    BY DEF DoneIsCurrent
  <2>1. \E u \in Selected(board[i].id, k) : u.from = ComponentsFor(k, board[i])
    BY DEF PipFor
  <2>2. t.from = ComponentsFor(k, board[i])
    BY <2>1, SelectedIs DEF StoryInv
  <2> QED BY <2>2 DEF Selected, StoryInv, TakesOK, IsTake
<1>4. DurationIsVoice
  <2> SUFFICES ASSUME NEW i \in DOMAIN board PROVE board[i].duration = SelectedId(board[i].id, "voice")
    BY DEF DurationIsVoice
  <2>1. CASE Selected(board[i].id, "voice") = {}
    BY <2>1 DEF SelectedId, Selected, StoryInv, Durations, VoiceOf
  <2>2. CASE Selected(board[i].id, "voice") # {}
    <3>1. PICK t \in Selected(board[i].id, "voice") : SelectedId(board[i].id, "voice") = t.id
      BY <2>2 DEF SelectedId
    <3> QED BY <3>1 DEF Selected, StoryInv, Durations, VoiceOf
  <2> QED BY <2>1, <2>2
<1> QED BY <1>2, <1>3, <1>4 DEF StorySafe

\* Whatever is edited, selected, split or regenerated while takes are made, a
\* take shown as done was made from what the scene says now, and a scene is as
\* long as its selected voice (PipFor, RecordTake, selectTake, ApplySplit).
THEOREM StoryIsSafe == StorySpec => []StorySafe
<1>1. StoryInit => StoryInv
  BY StoryInitInv
<1>2. StoryInv /\ [StoryNext]_storyVars => StoryInv'
  BY StoryStep
<1>3. StoryInv => StorySafe
  BY InvIsSafe
<1> QED BY <1>1, <1>2, <1>3, PTL DEF StorySpec

-----------------------------------------------------------------------------
(* An unconfirmed split keeps work *)

\* Under the locks of a split no take is added or deleted.
CountOK == splitting.pc = "counted" => splitting.counted = ScenesWithTakes

LEMMA CountStays ==
    ASSUME StoryInv, CountOK, ~TakeRaces, [StoryNext]_storyVars
    PROVE  CountOK'
<1>1. CASE splitting.pc = "counted"
  <2>1. SplitLocks
    BY <1>1 DEF SplitLocks
  <2>2. CASE ApplySplit
    BY <2>2 DEF ApplySplit, NoSplit, CountOK
  <2>3. CASE ~ApplySplit
    <3>1. UNCHANGED <<takes, splitting>>
      BY <1>1, <2>1, <2>3 DEF StoryNext, storyVars, GpuWorks, SplitGoesOn, StartSplit, CountTakes, UpdateInputs,
         GenerateMissing, StartStep, InsertTake, FinishStep, StepFails, UpdateScene, Regenerate, SelectTake
    <3> QED BY <3>1 DEF CountOK, ScenesWithTakes
  <2> QED BY <2>2, <2>3
<1>2. CASE splitting.pc # "counted"
  <2>1. CASE CountTakes
    <3>1. splitting'.counted = ScenesWithTakes /\ UNCHANGED takes
      BY <2>1 DEF CountTakes, StoryInv, SplitOK
    <3> QED BY <3>1 DEF CountOK, ScenesWithTakes
  <2>2. CASE StartSplit
    BY <2>2 DEF StartSplit, NoSplit, CountOK
  <2>3. CASE ~CountTakes /\ ~StartSplit
    <3>1. UNCHANGED splitting
      BY <1>2, <2>3 DEF StoryNext, storyVars, GpuWorks, SplitGoesOn, ApplySplit, UpdateInputs,
         GenerateMissing, StartStep, InsertTake, FinishStep, StepFails, UpdateScene, Regenerate, SelectTake
    <3> QED BY <1>2, <3>1 DEF CountOK
  <2> QED BY <2>1, <2>2, <2>3
<1> QED BY <1>1, <1>2

LEMMA SplitKeepsWork ==
    ASSUME StoryInv, CountOK, ApplySplit, ~splitting.discard
    PROVE  /\ takes \subseteq takes'
           /\ \A i \in DOMAIN board : board[i].edited => \E j \in DOMAIN board' : board'[j] = board[i]
<1> DEFINE plan == PlanResplit(splitting.drafts)
           new(i) == [id |-> nextScene + i - 1, text |-> splitting.drafts[i], prompt |-> 0, edited |-> FALSE,
                      duration |-> Estimated]
<1>1. CASE LosesWork(plan, splitting.counted)
  BY <1>1 DEF ApplySplit
<1>2. CASE ~LosesWork(plan, splitting.counted)
  <2>1. /\ board' = [i \in DOMAIN plan |-> IF plan[i] = 0 THEN new(i) ELSE board[plan[i]]]
        /\ takes' = {t \in takes : \E i \in DOMAIN board' : board'[i].id = t.scene}
    BY <1>2 DEF ApplySplit
  <2>2. splitting.counted = ScenesWithTakes
    BY DEF ApplySplit, CountOK
  <2> HIDE DEF plan
  <2>3. ASSUME NEW k \in DOMAIN board, k \notin DroppedBy(plan)
        PROVE  \E j \in DOMAIN board' : board'[j] = board[k]
    <3>1. PICK j \in DOMAIN plan : plan[j] = k
      BY <2>3 DEF DroppedBy
    <3>2. k # 0
      BY RowsAre DEF StoryInv
    <3>3. j \in DOMAIN board' /\ board'[j] = board[k]
      BY <2>1, <3>1, <3>2
    <3> QED BY <3>3
  <2>4. \A k \in DroppedBy(plan) : ~board[k].edited /\ board[k].id \notin ScenesWithTakes
    BY <1>2, <2>2 DEF LosesWork
  <2>5. \A i \in DOMAIN board : board[i].edited => \E j \in DOMAIN board' : board'[j] = board[i]
    BY <2>3, <2>4
  <2>6. ASSUME NEW t \in takes PROVE t \in takes'
    <3>1. PICK k \in DOMAIN board : board[k].id = t.scene
      BY DEF StoryInv, TakesOK, SceneIds
    <3>2. k \notin DroppedBy(plan)
      BY <2>4, <3>1 DEF ScenesWithTakes
    <3>3. PICK j \in DOMAIN board' : board'[j] = board[k]
      BY <2>3, <3>2
    <3> QED BY <2>1, <3>1, <3>3
  <2> QED BY <2>5, <2>6
<1> QED BY <1>1, <1>2

\* A split nobody confirmed deletes neither a take nor an edited scene, if no
\* take is inserted while ListScenesForResplit runs (resplit_guard.go).
THEOREM WorkIsKept == TakeRaces = FALSE => (StorySpec => ResplitKeepsWork)
<1> SUFFICES ASSUME TakeRaces = FALSE PROVE StorySpec => ResplitKeepsWork
  OBVIOUS
<1> DEFINE Kept == splitting.pc = "counted" /\ splitting'.pc = "idle" /\ ~splitting.discard =>
                      /\ takes \subseteq takes'
                      /\ \A i \in DOMAIN board : board[i].edited => \E j \in DOMAIN board' : board'[j] = board[i]
<1>1. StoryInit => StoryInv /\ CountOK
  BY StoryInitInv DEF StoryInit, CountOK, NoSplit
<1>2. StoryInv /\ CountOK /\ [StoryNext]_storyVars => StoryInv' /\ CountOK'
  BY StoryStep, CountStays
<1>3. StoryInv /\ CountOK /\ [StoryNext]_storyVars => [Kept]_storyVars
  <2> SUFFICES ASSUME StoryInv, CountOK, StoryNext, splitting.pc = "counted", splitting'.pc = "idle", ~splitting.discard
               PROVE  /\ takes \subseteq takes'
                      /\ \A i \in DOMAIN board : board[i].edited => \E j \in DOMAIN board' : board'[j] = board[i]
    OBVIOUS
  <2>1. ApplySplit
    BY DEF StoryNext, GpuWorks, SplitGoesOn, StartSplit, CountTakes, UpdateInputs,
       GenerateMissing, StartStep, InsertTake, FinishStep, StepFails, UpdateScene, Regenerate, SelectTake
  <2> QED BY <2>1, SplitKeepsWork
<1> QED BY <1>1, <1>2, <1>3, PTL DEF StorySpec, ResplitKeepsWork
=============================================================================
