------------------------------ MODULE Storyboard ------------------------------
(***************************************************************************)
(* The storyboard of an episode (src/api/internal/scenes): its scenes, the *)
(* takes generated for them, the steps that generate, and splitting the    *)
(* text into scenes again while all of that goes on.  A step is taken from *)
(* the queue by the one GPU worker (GpuSlot) and retried or failed by the  *)
(* pipeline (PipelineEngine); here it only runs, and may fail.             *)
(*                                                                         *)
(* Takes and steps are numbered per scene and kind.                        *)
(* Narrations stand for their hash.  A take remembers the inputs it says   *)
(* it was made from and, for the properties, the ones it was made from.    *)
(***************************************************************************)
EXTENDS Naturals, Sequences, FiniteSets

CONSTANTS
    Narrations,      \* texts of a scene
    TakeKinds,       \* "voice", "align" and, where it matters, "image"
    SplitDrafts,     \* what a split of the episode's text may yield
    MaxRequests,     \* scenes split off, edits, regenerations, selections and failures together
    TakeRaces        \* a take may be inserted while ListScenesForResplit runs

ASSUME StoryboardAssumption ==
    /\ SplitDrafts \subseteq Seq(Narrations) \ {<<>>}
    /\ {"voice", "align"} \subseteq TakeKinds /\ TakeKinds \subseteq {"image", "voice", "align"}
    /\ MaxRequests \in Nat
    /\ TakeRaces \in BOOLEAN

NoTake == 0
Estimated == 0

VARIABLES
    board,      \* the scenes, in order
    takes,      \* scene_takes
    genSteps,   \* the scenes' pipeline steps
    gpuJob,     \* the step the GPU worker is at
    splitting,  \* the split that is going on
    inputsRev,  \* the styles and voices of the series
    nextScene,  \* the id of the next scene
    requestsLeft      \* the requests left

storyVars == <<board, takes, genSteps, gpuJob, splitting, inputsRev, nextScene, requestsLeft>>

IdleGpu == [pc |-> "idle", from |-> <<>>]
NoSplit == [pc |-> "idle", drafts |-> <<>>, discard |-> FALSE, counted |-> {}]

SceneIds == {board[i].id : i \in DOMAIN board}
RowOf(id) == board[CHOOSE i \in DOMAIN board : board[i].id = id]
Selected(scene, kind) == {t \in takes : t.scene = scene /\ t.kind = kind /\ t.selected}
SelectedId(scene, kind) ==
    IF Selected(scene, kind) = {} THEN NoTake ELSE (CHOOSE t \in Selected(scene, kind) : TRUE).id
\* A split holds the locks of the scenes from its listing on; when takes
\* race with the listing, only from its end on.
SplitLocks == splitting.pc = "counted" /\ ~TakeRaces
SpendRequests(n) == requestsLeft >= n /\ requestsLeft' = requestsLeft - n
SpendRequest == SpendRequests(1)

StoryInit ==
    /\ board = <<>> /\ takes = {} /\ genSteps = {} /\ gpuJob = IdleGpu /\ splitting = NoSplit
    /\ inputsRev = 0 /\ nextScene = 1 /\ requestsLeft = MaxRequests

(***************************************************************************)
(* Inputs and pips.                                                        *)
(***************************************************************************)

\* ComponentsFor: what a take of this kind depends on.
ComponentsFor(kind, row) ==
    CASE kind = "image" -> <<row.prompt, inputsRev>>
      [] kind = "voice" -> <<row.text, inputsRev>>
      [] kind = "align" -> <<row.text, SelectedId(row.id, "voice")>>

SceneSteps(scene, kind) == {s \in genSteps : s.scene = scene /\ s.kind = kind}
LatestStep(scene, kind) == CHOOSE s \in SceneSteps(scene, kind) : \A r \in SceneSteps(scene, kind) : r.id <= s.id

\* PipFor: a live step wins, then a failed one, then the selected take.
PipFor(kind, row) ==
    LET step == IF SceneSteps(row.id, kind) = {} THEN "none" ELSE LatestStep(row.id, kind).status
    IN  IF step \in {"queued", "running", "failed"} THEN step
        ELSE IF Selected(row.id, kind) = {} THEN "none"
        ELSE IF \E t \in Selected(row.id, kind) : t.from = ComponentsFor(kind, row) THEN "done"
        ELSE "stale"

\* Mutant: a stale take is good enough.
OnlyMissing(state) == state \in {"none", "failed"}

NeedsGeneration(state) == state \in {"none", "stale", "failed"}

(***************************************************************************)
(* Edits.                                                                  *)
(***************************************************************************)

\* UpdateSceneEdit: a measured duration stays.
EditedDuration(row) == row.duration

\* UpdateScene, of the version the editor saw: another one is refused.
UpdateScene(i) ==
    /\ SpendRequest /\ ~SplitLocks
    /\ \E row \in {[board[i] EXCEPT !.text = x] : x \in Narrations \ {board[i].text}}
                    \cup {[board[i] EXCEPT !.prompt = @ + 1]} :
          board' = [board EXCEPT ![i] = [row EXCEPT !.edited = TRUE, !.duration = EditedDuration(row)]]
    /\ UNCHANGED <<takes, genSteps, gpuJob, splitting, inputsRev, nextScene>>

\* A style, a voice or a character of the series changes.
UpdateInputs ==
    /\ board # <<>> /\ SpendRequest
    /\ inputsRev' = inputsRev + 1
    /\ UNCHANGED <<board, takes, genSteps, gpuJob, splitting, nextScene>>

\* UnselectTakes and MarkTakeSelected.
WithSelected(take) ==
    {IF t.scene = take.scene /\ t.kind = take.kind THEN [t EXCEPT !.selected = (t.id = take.id)] ELSE t : t \in takes}

\* selectTake: a voice take also sets the measured duration.
SelectInto(take) ==
    /\ takes' = WithSelected(take)
    /\ board' = [i \in DOMAIN board |->
                    IF board[i].id = take.scene /\ take.kind = "voice" THEN [board[i] EXCEPT !.duration = take.id]
                    ELSE board[i]]

SelectTake(take) ==
    /\ SpendRequest /\ ~take.selected /\ ~SplitLocks
    /\ SelectInto(take)
    /\ UNCHANGED <<genSteps, gpuJob, splitting, inputsRev, nextScene>>

(***************************************************************************)
(* Splitting again.                                                        *)
(***************************************************************************)

\* PlanResplit: the scene a draft keeps, the duplicates of a text in order;
\* 0 is a new scene.
PlanResplit(drafts) ==
    [i \in DOMAIN drafts |->
        LET rank(s, n) == Cardinality({j \in 1..n : s[j] = drafts[i]})
            texts == [k \in DOMAIN board |-> board[k].text]
            same == {k \in DOMAIN board : texts[k] = drafts[i] /\ rank(texts, k) = rank(drafts, i)}
        IN  IF same = {} THEN 0 ELSE CHOOSE k \in same : TRUE]

DroppedBy(plan) == {k \in DOMAIN board : \A i \in DOMAIN plan : plan[i] # k}

\* Mutant: takes do not count.
LosesEdits(plan, counted) == \E k \in DroppedBy(plan) : board[k].edited

\* RiskOf and LosesWork, with the takes that were counted.
LosesWork(plan, counted) == \E k \in DroppedBy(plan) : board[k].edited \/ board[k].id \in counted

ScenesWithTakes == {t.scene : t \in takes}

\* A split is asked for: by paragraphs, or by the LLM, which without the
\* confirmation refuses up front when any scene holds work.
StartSplit ==
    /\ splitting.pc = "idle"
    /\ \E d \in SplitDrafts, discard, llm \in BOOLEAN :
          /\ SpendRequests(Len(d))
          /\ llm /\ ~discard => ~LosesWork([i \in DOMAIN d |-> 0], ScenesWithTakes)
          /\ splitting' = [NoSplit EXCEPT !.pc = "run", !.drafts = d, !.discard = discard]
    /\ UNCHANGED <<board, takes, genSteps, gpuJob, inputsRev, nextScene>>

\* ListScenesForResplit counts the takes in its statement's snapshot and
\* then locks the scenes as they are by then.
CountTakes ==
    /\ splitting.pc = "run"
    /\ splitting' = [splitting EXCEPT !.pc = "counted", !.counted = ScenesWithTakes]
    /\ UNCHANGED <<board, takes, genSteps, gpuJob, inputsRev, nextScene, requestsLeft>>

\* The rest of ApplySplit's transaction, under the locks.
ApplySplit ==
    LET plan == PlanResplit(splitting.drafts)
        new(i) == [id |-> nextScene + i - 1, text |-> splitting.drafts[i], prompt |-> 0, edited |-> FALSE,
                   duration |-> Estimated]
    IN  /\ splitting.pc = "counted"
        /\ splitting' = NoSplit
        /\ IF LosesWork(plan, splitting.counted) /\ ~splitting.discard
           THEN UNCHANGED <<board, takes, nextScene>>
           ELSE /\ board' = [i \in DOMAIN plan |-> IF plan[i] = 0 THEN new(i) ELSE board[plan[i]]]
                /\ takes' = {t \in takes : \E i \in DOMAIN board' : board'[i].id = t.scene}
                /\ nextScene' = IF \A i \in DOMAIN plan : plan[i] # 0 THEN nextScene ELSE nextScene + Len(plan)
        /\ UNCHANGED <<genSteps, gpuJob, inputsRev, requestsLeft>>

(***************************************************************************)
(* Generating.                                                             *)
(***************************************************************************)

\* The id of the next step of a scene and kind.
NextStepId(scene, kind) == IF SceneSteps(scene, kind) = {} THEN 1 ELSE LatestStep(scene, kind).id + 1
NewStep(scene, kind, needs) ==
    [id |-> NextStepId(scene, kind), scene |-> scene, kind |-> kind, needs |-> needs, status |-> "queued"]
NeedOf(step) == IF step.kind = "voice" THEN step.id ELSE 0
WaitsFor(s, step) == s.scene = step.scene /\ s.needs # 0 /\ s.needs = NeedOf(step)

\* Regenerate: one step; an alignment needs a voice take.
Regenerate(row, kind) ==
    /\ SpendRequest
    /\ kind = "align" => SelectedId(row.id, "voice") # NoTake
    /\ genSteps' = genSteps \cup {NewStep(row.id, kind, 0)}
    /\ UNCHANGED <<board, takes, gpuJob, splitting, inputsRev, nextScene>>

\* PlanMissing for one scene; an alignment waits for the voice queued with it.
MissingSteps(row) ==
    LET voice == NeedsGeneration(PipFor("voice", row))
        align == /\ PipFor("align", row) \notin {"queued", "running"}
                 /\ voice \/ (SelectedId(row.id, "voice") # NoTake /\ NeedsGeneration(PipFor("align", row)))
    IN  (IF "image" \in TakeKinds /\ NeedsGeneration(PipFor("image", row)) THEN {NewStep(row.id, "image", 0)} ELSE {})
          \cup (IF voice THEN {NewStep(row.id, "voice", 0)} ELSE {})
          \cup (IF align THEN {NewStep(row.id, "align", IF voice THEN NextStepId(row.id, "voice") ELSE 0)} ELSE {})

PlanMissing == UNION {MissingSteps(board[i]) : i \in DOMAIN board}

GenerateMissing ==
    /\ PlanMissing # {}
    /\ genSteps' = genSteps \cup PlanMissing
    /\ UNCHANGED <<board, takes, gpuJob, splitting, inputsRev, nextScene, requestsLeft>>

RunningStep == CHOOSE s \in genSteps : s.status = "running"
WithStatusOf(step, status) == (genSteps \ {step}) \cup {[step EXCEPT !.status = status]}
\* Finished steps before this one are no longer the latest of their kind.
Hidden(step) == {s \in SceneSteps(step.scene, step.kind) : s.id < step.id /\ s.status \notin {"queued", "running"}}
\* A failed step takes the ones that wait for it with it.
Failed(step) ==
    {IF s = step THEN [s EXCEPT !.status = "failed"]
     ELSE IF WaitsFor(s, step) THEN [s EXCEPT !.status = "upstream_failed", !.needs = 0] ELSE s :
        s \in genSteps \ Hidden(step)}
\* A done step lets them go; it leaves the pip to the take.
Done(step) ==
    {IF WaitsFor(s, step) THEN [s EXCEPT !.needs = 0] ELSE s : s \in genSteps \ (Hidden(step) \cup {step})}

\* The handler loads the scene and its inputs; without the scene, or the
\* voice take to align, the step fails.
StartStep(step) ==
    /\ gpuJob.pc = "idle" /\ step.status = "queued" /\ step.needs = 0
    /\ IF step.scene \in SceneIds /\ (step.kind = "align" => SelectedId(step.scene, "voice") # NoTake)
       THEN /\ gpuJob' = [pc |-> "run", from |-> ComponentsFor(step.kind, RowOf(step.scene))]
            /\ genSteps' = WithStatusOf(step, "running")
       ELSE genSteps' = (IF step.scene \in SceneIds THEN Failed(step) ELSE Done(step)) /\ UNCHANGED gpuJob
    /\ UNCHANGED <<board, takes, splitting, inputsRev, nextScene, requestsLeft>>

\* Mutant: the hash is taken when the take is stored.
HashedAtEnd(step) == ComponentsFor(step.kind, RowOf(step.scene))

\* A take is stored with the inputs the handler loaded.
RecordedInputs(step) == gpuJob.from

\* RecordTake's InsertTake, blocked by a split's locks; a scene that is gone
\* is an error, and the step starts over.
InsertTake ==
    LET step == RunningStep
        id == Cardinality({t \in takes : t.scene = step.scene /\ t.kind = step.kind}) + 1
    IN  /\ gpuJob.pc = "run" /\ ~SplitLocks
        /\ IF step.scene \in SceneIds
           THEN /\ takes' = takes \cup {[id |-> id, scene |-> step.scene, kind |-> step.kind, selected |-> FALSE,
                                         from |-> RecordedInputs(step), made |-> gpuJob.from]}
                /\ gpuJob' = [pc |-> "inserted", from |-> <<id>>]
                /\ UNCHANGED genSteps
           ELSE gpuJob' = IdleGpu /\ genSteps' = WithStatusOf(step, "queued") /\ UNCHANGED takes
        /\ UNCHANGED <<board, splitting, inputsRev, nextScene, requestsLeft>>

\* enqueueAlignIfAlone: no step waits for this voice.
AlignsNext(step) == step.kind = "voice" /\ ~\E s \in genSteps : WaitsFor(s, step)

\* RecordTake's selectTake and the end of the step.
FinishStep ==
    LET step == RunningStep
        mine == {t \in takes : t.scene = step.scene /\ t.kind = step.kind /\ t.id = gpuJob.from[1]}
    IN  /\ gpuJob.pc = "inserted" /\ ~SplitLocks
        /\ gpuJob' = IdleGpu
        /\ IF mine = {}
           THEN genSteps' = WithStatusOf(step, "queued") /\ UNCHANGED <<board, takes>>
           ELSE /\ \A t \in mine : SelectInto(t)
                /\ genSteps' = Done(step) \cup (IF AlignsNext(step) THEN {NewStep(step.scene, "align", 0)} ELSE {})
        /\ UNCHANGED <<splitting, inputsRev, nextScene, requestsLeft>>

\* The engine fails, or the worker dies: the step is retried or fails.
StepFails ==
    /\ gpuJob.pc # "idle" /\ SpendRequest
    /\ gpuJob' = IdleGpu
    /\ genSteps' \in {WithStatusOf(RunningStep, "queued"), Failed(RunningStep)}
    /\ UNCHANGED <<board, takes, splitting, inputsRev, nextScene>>

(***************************************************************************)
(* The specification.                                                      *)
(***************************************************************************)

GpuWorks == (\E s \in genSteps : StartStep(s)) \/ InsertTake \/ FinishStep
SplitGoesOn == CountTakes \/ ApplySplit

StoryNext ==
    \/ StartSplit \/ SplitGoesOn \/ UpdateInputs \/ GenerateMissing \/ GpuWorks \/ StepFails
    \/ \E i \in DOMAIN board : UpdateScene(i) \/ \E k \in TakeKinds : Regenerate(board[i], k)
    \/ \E t \in takes : SelectTake(t)

\* The worker and a split go on, and someone presses "Generate missing"
\* while something is.
StoryFairness ==
    WF_storyVars(GpuWorks) /\ WF_storyVars(SplitGoesOn) /\ WF_storyVars(GenerateMissing)

StorySpec == StoryInit /\ [][StoryNext]_storyVars
StoryFairSpec == StorySpec /\ StoryFairness

(***************************************************************************)
(* Properties.                                                             *)
(***************************************************************************)

\* Types; a take belongs to a scene, and one per scene and kind is selected.
StoryTypeOK ==
    /\ \A i \in DOMAIN board : /\ board[i].id \in 1..nextScene /\ board[i].text \in Narrations
                               /\ board[i].prompt \in Nat /\ board[i].edited \in BOOLEAN
    /\ \A t \in takes : /\ t.scene \in SceneIds /\ t.kind \in TakeKinds
                        /\ Cardinality(Selected(t.scene, t.kind)) <= 1
    /\ \A s \in genSteps : s.status \in {"queued", "running", "failed", "upstream_failed", "done"}
    /\ gpuJob.pc \in {"idle", "run", "inserted"}
    /\ splitting.pc \in {"idle", "run", "counted"} /\ splitting.discard \in BOOLEAN
    /\ inputsRev \in Nat /\ nextScene \in Nat

\* A take shown as done was really made from the scene's present text,
\* prompt, settings and voice take, whatever was edited, selected, split or
\* regenerated while it was generated.
DoneIsCurrent ==
    \A i \in DOMAIN board, k \in TakeKinds :
        PipFor(k, board[i]) = "done" => \A t \in Selected(board[i].id, k) : t.made = ComponentsFor(k, board[i])

\* The length of a scene that has a voice is the length of that voice.
DurationIsVoice == \A i \in DOMAIN board : board[i].duration = SelectedId(board[i].id, "voice")

\* A split that was not confirmed deletes no take and no edited scene,
\* although steps finish and people edit between its question and its write.
ResplitKeepsWork ==
    [][splitting.pc = "counted" /\ splitting'.pc = "idle" /\ ~splitting.discard =>
          /\ takes \subseteq takes'
          /\ \A i \in DOMAIN board : board[i].edited => \E j \in DOMAIN board' : board'[j] = board[i]]_storyVars

\* Once nobody edits any more the storyboard becomes complete: regenerating
\* the voice does not leave its alignment behind, and no step undoes another.
StoryboardCompletes == <>[](\A i \in DOMAIN board, k \in TakeKinds : PipFor(k, board[i]) = "done")

\* The board never shows a take of something else as done, nor the length of
\* another voice than the selected one (PipFor, selectTake).
StorySafe == StoryTypeOK /\ DoneIsCurrent /\ DurationIsVoice
=============================================================================
