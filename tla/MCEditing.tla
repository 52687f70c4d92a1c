----------------------------- MODULE MCEditing -----------------------------
(***************************************************************************)
(* The writer, the storyboard, the timeline of a render and a whole run of *)
(* the engine for TLC.  They share no state here: a behaviour picks one of *)
(* them and takes only its steps, so that one run checks all without       *)
(* multiplying their states.                                               *)
(***************************************************************************)
EXTENDS MCPipeline, DraftSync, ParagraphOps, Storyboard, Timeline

CONSTANTS w1, w2, dp, na, nb

VARIABLE focus  \* the component of this behaviour

FourIds == <<"a", "b", "c", "d">>
ThreeIds == <<"a", "b", "c">>
Drafts == {<<na>>, <<nb>>, <<na, na>>}

\* Scenes that lend no frame (1, 2), one (3) and two (5), in every order; a
\* scene without frames and an empty episode.
Episodes == {<<>>, <<5>>, <<3, 0, 5>>} \cup {<<i, j, k, l>> : i, j, k, l \in {1, 3, 5}}
NoEpisode ==
    /\ clips = <<>> /\ crossfade = 0 /\ planning = "refused" /\ at = 1 /\ spans = <<>>
    /\ total = 0 /\ segments = <<>> /\ edited = 0 /\ cached = {} /\ replans = 0

\* The paragraph operations start from every input; elsewhere from none.
OpsIdle == lastSaved = <<>> /\ storedDraft = <<>> /\ editor = <<>> /\ request = NoRequest

EditingInit ==
    /\ focus \in {"draft", "paragraphs", "storyboard", "timeline", "run"}
    /\ DraftInit /\ StoryInit /\ Init
    /\ IF focus = "paragraphs" THEN OpsInit ELSE OpsIdle
    /\ IF focus = "timeline" THEN TimelineInit ELSE NoEpisode

EditingNext ==
    /\ \/ focus = "draft" /\ DraftNext /\ UNCHANGED <<opsVars, storyVars, timelineVars, vars>>
       \/ focus = "paragraphs" /\ OpsNext /\ UNCHANGED <<draftVars, storyVars, timelineVars, vars>>
       \/ focus = "storyboard" /\ StoryNext /\ UNCHANGED <<draftVars, opsVars, timelineVars, vars>>
       \/ focus = "timeline" /\ TimelineNext /\ UNCHANGED <<draftVars, opsVars, storyVars, vars>>
       \/ focus = "run" /\ Next /\ UNCHANGED <<draftVars, opsVars, storyVars, timelineVars>>
    /\ UNCHANGED focus

\* No fair action is enabled in the initial state of a component that the
\* behaviour leaves alone.
EditingSpec ==
    /\ EditingInit /\ [][EditingNext]_<<draftVars, opsVars, storyVars, timelineVars, vars, focus>>
    /\ DraftFairness /\ OpsFairness /\ StoryFairness /\ Fairness
=============================================================================
