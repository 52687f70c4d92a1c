------------------------------ MODULE DraftSync ------------------------------
(***************************************************************************)
(* Editing one draft: the browser's autosave queue and conflict dialog     *)
(* (src/web/src/features/writer/draft-autosave-queue.ts, use-draft.ts),    *)
(* the version-fenced writes of the server (src/api/internal/story/        *)
(* handlers_drafts.go, draft_write.go, db/queries/drafts.sql), accepting   *)
(* an AI result, and the import's automatic translation (ai_actions.go).   *)
(*                                                                         *)
(* A draft maps paragraphs to the edit that wrote them.  Every edit is a   *)
(* new number, so that its fate can be followed.  The order of paragraphs  *)
(* is the business of ParagraphOps.                                        *)
(***************************************************************************)
EXTENDS Naturals, FiniteSets

CONSTANTS
    Writers,        \* browser tabs
    Paras,          \* paragraphs the writers type in
    AiPara,         \* the paragraph an accepted AI result inserts
    AiReplaces,     \* the paragraphs it replaces
    MaxTyped,       \* edits
    Proposer,       \* the tab that asked for the AI result
    Leavers,        \* the tabs that may be left, once
    RevisionsKept,  \* TrimDraftRevisions
    TypeDuring,     \* the requests during which a writer may type
    LosesCalls,     \* the tabs whose requests or answers may be lost
    MaxDraftFaults  \* requests or answers lost

ASSUME DraftAssumption ==
    /\ AiPara \notin Paras /\ AiReplaces \subseteq Paras
    /\ Proposer \in Writers /\ Leavers \subseteq Writers /\ LosesCalls \subseteq Writers
    /\ RevisionsKept \in Nat \ {0} /\ MaxTyped \in Nat /\ MaxDraftFaults \in Nat
    /\ TypeDuring \subseteq {"merge", "apply"}

AllParas == Paras \cup {AiPara}
NoPara == 0
AiText == MaxTyped + 1
Texts == [AllParas -> 0..AiText]
EmptyText == [p \in AllParas |-> NoPara]
Statuses == {"saved", "unsaved", "saving", "retrying", "conflict"}

VARIABLES
    draft,       \* the episode_drafts row: version 0 when there is none
    revisions,   \* episode_draft_revisions: version to paragraphs
    claimed,     \* the AI step has its draft_step_applications row
    tab,         \* a writer's autosave queue and what the page shows
    patch,       \* its PATCH
    accept,      \* its request to apply the AI result
    translator,  \* the import's translation step
    typed,       \* edits so far
    stored,      \* edits that were in some version
    givenUp,     \* edits their writer overwrote, or dropped knowingly
    applications,\* how often the AI result was written
    draftFaults

draftVars == <<draft, revisions, claimed, tab, patch, accept, translator, typed, stored,
               givenUp, applications, draftFaults>>
server == <<draft, revisions, claimed, stored, applications>>

ClosedTab == [open |-> FALSE, base |-> EmptyText, version |-> 0, local |-> EmptyText,
              status |-> "saved", shown |-> "saved", debounce |-> FALSE, retry |-> FALSE, left |-> FALSE]
NoPatch == [pc |-> "none", merge |-> FALSE, expected |-> 0, ops |-> {}, seen |-> 0, answer |-> EmptyText]
NoAccept == [pc |-> "none", seen |-> 0, answer |-> EmptyText]

TextOf(t) == {t[p] : p \in AllParas} \cap 1..MaxTyped
\* diffParagraphs: what has to be written for the paragraphs that differ.
Diff(from, to) == {[para |-> p, text |-> to[p]] : p \in {p \in AllParas : from[p] # to[p]}}
Dirty(c) == tab[c].base # tab[c].local
OpFor(ops, p) == CHOOSE o \in ops : o.para = p
ApplyTo(ops, t) == [p \in AllParas |-> IF \E o \in ops : o.para = p THEN OpFor(ops, p).text ELSE t[p]]
\* ApplyParagraphOps refuses to delete a paragraph that is not there.
Applicable(ops, t) == \A o \in ops : o.text = NoPara => t[o.para] # NoPara

SetTab(c, r) == tab' = [tab EXCEPT ![c] = r]
LoseCall(c) == c \in LosesCalls /\ draftFaults > 0 /\ draftFaults' = draftFaults - 1

DraftInit ==
    /\ draft = [version |-> 0, text |-> EmptyText]
    /\ revisions = {}
    /\ claimed = FALSE
    /\ tab = [c \in Writers |-> ClosedTab]
    /\ patch = [c \in Writers |-> NoPatch]
    /\ accept = NoAccept
    /\ translator = [pc |-> "new", seen |-> 0]
    /\ typed = 0 /\ stored = {} /\ givenUp = {} /\ applications = 0
    /\ draftFaults = MaxDraftFaults

(***************************************************************************)
(* The server.                                                             *)
(***************************************************************************)

\* CreateDraft, CreateDraftIfAbsent: an existing draft is left as it is.
CreateDraft ==
    /\ draft.version = 0
    /\ draft' = [draft EXCEPT !.version = 1]
    /\ UNCHANGED <<revisions, claimed, tab, patch, accept, translator, typed, stored, givenUp, applications, draftFaults>>

\* Mutant: the update does not compare the version.
Unfenced(seen) == TRUE

\* UpdateDraftParagraphs' WHERE version = expected.
Fenced(seen) == draft.version = seen

\* TrimDraftRevisions.
Trimmed(rows) == {r \in rows : Cardinality({q \in rows : q.version > r.version}) < RevisionsKept}

\* commitDraftWrite's transaction, once its fence has passed.
CommitDraft(text) ==
    /\ draft' = [version |-> draft.version + 1, text |-> text]
    /\ revisions' = Trimmed(revisions \cup {[version |-> draft.version + 1, text |-> text]})
    /\ stored' = stored \cup TextOf(text)

\* PatchDraft: the row is read and its version compared.
ReadForPatch(c) ==
    /\ patch[c].pc = "sent"
    /\ patch' = [patch EXCEPT ![c] =
          IF draft.version = patch[c].expected /\ Applicable(patch[c].ops, draft.text)
          THEN [@ EXCEPT !.pc = "read", !.seen = draft.version, !.answer = ApplyTo(patch[c].ops, draft.text)]
          ELSE [NoPatch EXCEPT !.pc = "refused"]]
    /\ UNCHANGED <<server, tab, accept, translator, typed, givenUp, draftFaults>>

CommitPatch(c) ==
    /\ patch[c].pc = "read"
    /\ IF Fenced(patch[c].seen)
       THEN /\ CommitDraft(patch[c].answer)
            /\ patch' = [patch EXCEPT ![c] = [@ EXCEPT !.pc = "done", !.seen = draft.version + 1, !.ops = {},
                                                       !.expected = 0]]
       ELSE /\ patch' = [patch EXCEPT ![c] = [NoPatch EXCEPT !.pc = "refused"]]
            /\ UNCHANGED <<draft, revisions, stored>>
    /\ UNCHANGED <<claimed, tab, accept, translator, typed, givenUp, applications, draftFaults>>

\* ApplyDraftStep works on the draft as it is, not on the version the writer
\* saw; the paragraphs it replaces must be there.
ReadForStep ==
    LET there == \A p \in AiReplaces : draft.text[p] # NoPara
    IN  /\ accept.pc = "sent"
        /\ accept' =
              IF draft.version = 0 \/ ~there THEN [NoAccept EXCEPT !.pc = "refused"]
              ELSE [pc |-> "read", seen |-> draft.version,
                    answer |-> [p \in AllParas |-> IF p \in AiReplaces THEN NoPara
                                                   ELSE IF p = AiPara THEN AiText ELSE draft.text[p]]]
        /\ UNCHANGED <<server, tab, patch, translator, typed, givenUp, draftFaults>>

\* ClaimDraftStepApplication inserted its row.
ClaimsStep == ~claimed

\* The claim and the write, in one transaction.
CommitStep ==
    /\ accept.pc = "read"
    /\ IF ClaimsStep /\ Fenced(accept.seen)
       THEN /\ CommitDraft(accept.answer)
            /\ claimed' = TRUE /\ applications' = applications + 1
            /\ accept' = [accept EXCEPT !.pc = "done", !.seen = draft.version + 1]
       ELSE /\ accept' = [NoAccept EXCEPT !.pc = "refused"]
            /\ UNCHANGED <<draft, revisions, stored, claimed, applications>>
    /\ UNCHANGED <<tab, patch, translator, typed, givenUp, draftFaults>>

\* writeAutoTranslation: the target draft is created if absent and left
\* alone if it has content; the write is fenced and has no revision.
ReadForTranslation ==
    /\ translator.pc = "new"
    /\ draft' = IF draft.version = 0 THEN [draft EXCEPT !.version = 1] ELSE draft
    /\ translator' = IF draft.text = EmptyText THEN [pc |-> "write", seen |-> draft'.version]
                     ELSE [pc |-> "done", seen |-> 0]
    /\ UNCHANGED <<revisions, claimed, tab, patch, accept, typed, stored, givenUp, applications, draftFaults>>

WriteTranslation ==
    /\ translator.pc = "write"
    /\ translator' = [pc |-> "done", seen |-> 0]
    /\ draft' = IF Fenced(translator.seen)
                THEN [version |-> draft.version + 1, text |-> [EmptyText EXCEPT ![AiPara] = AiText]]
                ELSE draft
    /\ UNCHANGED <<revisions, claimed, tab, patch, accept, typed, stored, givenUp, applications, draftFaults>>

(***************************************************************************)
(* The autosave queue.                                                     *)
(***************************************************************************)

\* setStatus tells the page only of a change.
WithStatus(r, s) == IF r.status = s THEN r ELSE [r EXCEPT !.status = s, !.shown = s]

\* reset: what is shown is the latest version.
Reset(r, text, version) ==
    WithStatus([r EXCEPT !.debounce = FALSE, !.base = text, !.local = text, !.version = version], "saved")

SendPatch(c, expected, ops, merge) ==
    patch' = [patch EXCEPT ![c] = [NoPatch EXCEPT !.pc = "sent", !.merge = merge, !.expected = expected, !.ops = ops]]

\* A tab that was left is forgotten with its last PATCH.
Kept(r) == IF r.open THEN r ELSE [ClosedTab EXCEPT !.left = TRUE]

InFlight(c) == patch[c].pc # "none"
Accepting(c) == c = Proposer /\ accept.pc \notin {"none", "over"}

\* flush on queue state r, when no PATCH is in flight: send the difference,
\* or nothing to send.
FlushFrom(c, r) ==
    LET q == [r EXCEPT !.debounce = FALSE, !.retry = FALSE] IN
    IF r.base = r.local
    THEN SetTab(c, Kept(WithStatus(q, "saved"))) /\ patch' = [patch EXCEPT ![c] = NoPatch]
    ELSE SetTab(c, WithStatus(q, "saving")) /\ SendPatch(c, r.version, Diff(r.base, r.local), FALSE)

\* The draft has loaded: the queue starts from it.
OpenTab(c) ==
    /\ ~tab[c].open /\ ~tab[c].left /\ draft.version > 0
    /\ SetTab(c, [ClosedTab EXCEPT !.open = TRUE, !.base = draft.text, !.local = draft.text, !.version = draft.version])
    /\ UNCHANGED <<server, patch, accept, translator, typed, givenUp, draftFaults>>

\* The editor's onUpdate, unless the conflict dialog covers it.
Type(c, p) ==
    /\ tab[c].open /\ tab[c].shown # "conflict" /\ typed < MaxTyped
    /\ InFlight(c) /\ patch[c].merge => "merge" \in TypeDuring
    /\ Accepting(c) /\ accept.pc # "settle" => "apply" \in TypeDuring
    /\ typed' = typed + 1
    /\ \E text \in {typed + 1} \cup (IF tab[c].local[p] = NoPara THEN {} ELSE {NoPara}) :
          /\ SetTab(c, WithStatus([tab[c] EXCEPT !.local[p] = text, !.debounce = TRUE],
                                  IF InFlight(c) THEN "saving" ELSE "unsaved"))
          /\ givenUp' = givenUp \cup (IF tab[c].local[p] = tab[c].base[p] THEN {} ELSE {tab[c].local[p]})
                               \cup ({typed + 1} \ {text})
    /\ UNCHANGED <<server, patch, accept, translator, draftFaults>>

\* The debounce or the retry timer fires; when flush returns at once, a
\* retry that is still due stays.
TimerFlush(c) ==
    /\ tab[c].open /\ (tab[c].debounce \/ tab[c].retry)
    /\ IF InFlight(c) \/ tab[c].status = "conflict"
       THEN /\ SetTab(c, IF tab[c].debounce THEN [tab[c] EXCEPT !.debounce = FALSE] ELSE [tab[c] EXCEPT !.retry = FALSE])
            /\ UNCHANGED patch
       ELSE FlushFrom(c, tab[c])
    /\ UNCHANGED <<server, accept, translator, typed, givenUp, draftFaults>>

\* Mutant: edits typed during a save wait for the next edit.
NoFollowUp(c, r) ==
    IF r.open THEN SetTab(c, WithStatus(r, "saved")) /\ patch' = [patch EXCEPT ![c] = NoPatch] ELSE FlushFrom(c, r)

\* What was typed meanwhile goes out next.
FollowUp(c, r) == FlushFrom(c, r)

\* Mutant: the editor is set to the answer, as after a merge.
SavedOverwrites(c) == [tab[c] EXCEPT !.base = patch[c].answer, !.local = patch[c].answer, !.version = patch[c].seen]

\* The answer is the new base of what the editor holds.
Rebased(c) == [tab[c] EXCEPT !.base = patch[c].answer, !.version = patch[c].seen]

\* A save landed.
PatchSaved(c) ==
    /\ patch[c].pc = "done" /\ ~patch[c].merge
    /\ FollowUp(c, Rebased(c))
    /\ UNCHANGED <<server, accept, translator, typed, givenUp, draftFaults>>

\* A merge landed: the editor starts over from it.
MergeSaved(c) ==
    /\ patch[c].pc = "done" /\ patch[c].merge
    /\ SetTab(c, WithStatus([tab[c] EXCEPT !.base = patch[c].answer, !.local = patch[c].answer,
                                           !.version = patch[c].seen], "saved"))
    /\ patch' = [patch EXCEPT ![c] = NoPatch]
    /\ UNCHANGED <<server, accept, translator, typed, givenUp, draftFaults>>

\* A 409: nothing more is saved until the writer decides.
PatchRefused(c) ==
    /\ patch[c].pc = "refused"
    /\ SetTab(c, Kept(WithStatus(tab[c], "conflict")))
    /\ patch' = [patch EXCEPT ![c] = NoPatch]
    /\ givenUp' = IF tab[c].open THEN givenUp ELSE givenUp \cup TextOf(tab[c].local)
    /\ UNCHANGED <<server, accept, translator, typed, draftFaults>>

\* Another failure, before or after the server acted: a save is retried
\* while the page is open, a merge ends in a conflict again.
PatchLost(c) ==
    /\ patch[c].pc \in {"sent", "done"} /\ LoseCall(c)
    /\ SetTab(c, Kept(IF patch[c].merge THEN WithStatus(tab[c], "conflict")
                      ELSE [WithStatus(tab[c], "retrying") EXCEPT !.retry = TRUE]))
    /\ patch' = [patch EXCEPT ![c] = NoPatch]
    /\ givenUp' = IF tab[c].open THEN givenUp ELSE givenUp \cup TextOf(tab[c].local)
    /\ UNCHANGED <<server, accept, translator, typed>>

\* Leaving the page or the language: flush, then stop.
LeaveTab(c) ==
    LET r == [tab[c] EXCEPT !.open = FALSE, !.left = TRUE, !.debounce = FALSE, !.retry = FALSE]
    IN  /\ c \in Leavers /\ tab[c].open /\ tab[c].shown # "conflict" /\ ~Accepting(c)
        /\ ~(InFlight(c) /\ patch[c].merge)
        /\ IF InFlight(c) THEN SetTab(c, r) /\ UNCHANGED patch ELSE FlushFrom(c, r)
        /\ UNCHANGED <<server, accept, translator, typed, givenUp, draftFaults>>

(***************************************************************************)
(* Conflicts.                                                              *)
(***************************************************************************)

\* A background refetch brings a newer version: the page shows a conflict,
\* the queue does not know of it.
Refetch(c) ==
    /\ tab[c].open /\ draft.version > tab[c].version /\ tab[c].shown # "conflict"
    /\ ~Accepting(c)
    /\ SetTab(c, [tab[c] EXCEPT !.shown = "conflict"])
    /\ UNCHANGED <<server, patch, accept, translator, typed, givenUp, draftFaults>>

\* reloadLatest drops the local edits.
ReloadLatest(c) ==
    /\ tab[c].open /\ tab[c].shown = "conflict" /\ ~InFlight(c)
    /\ SetTab(c, Reset(tab[c], draft.text, draft.version))
    /\ givenUp' = givenUp \cup TextOf(tab[c].local)
    /\ UNCHANGED <<server, patch, accept, translator, typed, draftFaults>>

\* keepMine: mergeOnto sends the local changes against the latest version.
KeepMine(c) ==
    /\ tab[c].open /\ tab[c].shown = "conflict" /\ ~InFlight(c)
    /\ IF Dirty(c)
       THEN /\ SetTab(c, WithStatus([tab[c] EXCEPT !.debounce = FALSE], "saving"))
            /\ SendPatch(c, draft.version, Diff(tab[c].base, tab[c].local), TRUE)
       ELSE SetTab(c, Reset(tab[c], draft.text, draft.version)) /\ UNCHANGED patch
    /\ UNCHANGED <<server, accept, translator, typed, givenUp, draftFaults>>

(***************************************************************************)
(* Accepting the AI result.                                                *)
(***************************************************************************)

\* applyStep, for a proposal that was not applied yet as far as the page
\* knows, settles the queue first.
Accept ==
    /\ tab[Proposer].open /\ tab[Proposer].shown # "conflict" /\ accept.pc = "none"
    /\ accept' = [NoAccept EXCEPT !.pc = "settle"]
    /\ UNCHANGED <<server, tab, patch, translator, typed, givenUp, draftFaults>>

\* settle: gives up on a failing queue, sends what is pending, and lets the
\* request go when there is nothing.
Settle ==
    /\ accept.pc = "settle"
    /\ IF tab[Proposer].status \in {"conflict", "retrying"}
       THEN accept' = NoAccept /\ UNCHANGED <<tab, patch>>
       ELSE /\ ~InFlight(Proposer)
            /\ FlushFrom(Proposer, tab[Proposer])
            /\ accept' = IF Dirty(Proposer) THEN accept ELSE [accept EXCEPT !.pc = "sent"]
    /\ UNCHANGED <<server, translator, typed, givenUp, draftFaults>>

\* The answer resets the editor to the returned draft.
Accepted ==
    /\ accept.pc = "done"
    /\ SetTab(Proposer, Reset(tab[Proposer], accept.answer, accept.seen))
    /\ accept' = [NoAccept EXCEPT !.pc = "over"]
    /\ UNCHANGED <<server, patch, translator, typed, givenUp, draftFaults>>

\* An error, or no answer: the page shows it, the writer may accept again.
AcceptFails ==
    /\ \/ accept.pc = "refused" /\ UNCHANGED draftFaults
       \/ accept.pc \in {"sent", "done"} /\ LoseCall(Proposer)
    /\ accept' = NoAccept
    /\ UNCHANGED <<server, tab, patch, translator, typed, givenUp>>

(***************************************************************************)
(* The specification.                                                      *)
(***************************************************************************)

PatchStep(c) == ReadForPatch(c) \/ CommitPatch(c) \/ PatchSaved(c) \/ MergeSaved(c) \/ PatchRefused(c)
AcceptStep == Settle \/ ReadForStep \/ CommitStep \/ Accepted \/ AcceptFails

DraftNext ==
    \/ CreateDraft \/ ReadForTranslation \/ WriteTranslation \/ Accept \/ AcceptStep
    \/ \E c \in Writers :
          \/ PatchStep(c) \/ TimerFlush(c) \/ OpenTab(c) \/ LeaveTab(c) \/ PatchLost(c) \/ Refetch(c)
          \/ ReloadLatest(c) \/ KeepMine(c)
          \/ \E p \in Paras : Type(c, p)

\* Requests are answered or fail, timers fire, and a writer faced with the
\* conflict dialog reloads in the end.
DraftFairness ==
    /\ WF_draftVars(AcceptStep)
    /\ \A c \in Writers :
        WF_draftVars(PatchStep(c)) /\ WF_draftVars(TimerFlush(c)) /\ WF_draftVars(ReloadLatest(c))

DraftSpec == DraftInit /\ [][DraftNext]_draftVars
DraftFairSpec == DraftSpec /\ DraftFairness

(***************************************************************************)
(* Properties.                                                             *)
(***************************************************************************)

\* Types; and no queue is ahead of the server.
DraftTypeOK ==
    /\ draft \in [version : Nat, text : Texts]
    /\ revisions \subseteq [version : Nat, text : Texts]
    /\ claimed \in BOOLEAN
    /\ tab \in [Writers -> [open : BOOLEAN, base : Texts, version : Nat, local : Texts, status : Statuses,
                            shown : Statuses, debounce : BOOLEAN, retry : BOOLEAN, left : BOOLEAN]]
    /\ patch \in [Writers -> [pc : {"none", "sent", "read", "refused", "done"}, merge : BOOLEAN, expected : Nat,
                              ops : SUBSET [para : AllParas, text : 0..AiText], seen : Nat, answer : Texts]]
    /\ accept \in [pc : {"none", "settle", "sent", "read", "refused", "done", "over"}, seen : Nat, answer : Texts]
    /\ translator \in [pc : {"new", "write", "done"}, seen : Nat]
    /\ typed \in 0..MaxTyped /\ stored \subseteq 1..MaxTyped /\ givenUp \subseteq 0..AiText
    /\ applications \in Nat /\ draftFaults \in 0..MaxDraftFaults
    /\ \A c \in Writers : tab[c].version <= draft.version

\* A save replaces a paragraph only when its writer had seen what it
\* replaces, and a translation only fills an empty draft: whoever else wrote
\* in between, no stored edit is overwritten unseen.
NoLostUpdate ==
    [][/\ \A c \in Writers : patch[c].pc = "read" /\ patch[c]'.pc = "done" /\ ~patch[c].merge =>
             \A p \in AllParas : draft'.text[p] # draft.text[p] => tab[c].base[p] = draft.text[p]
       /\ translator.pc = "write" /\ translator'.pc = "done" /\ draft' # draft => draft.text = EmptyText]_draftVars

\* What a writer typed is in some stored version, still in the editor, or
\* was given up by the writer: failed and repeated saves, conflicts, merges
\* and accepted results lose nothing else.
NoSilentLoss ==
    \A n \in 1..typed :
        \/ n \in stored \cup givenUp
        \/ \E c \in Writers : (tab[c].open \/ InFlight(c)) /\ n \in TextOf(tab[c].local)

\* An AI result is written once, however often and from whichever tab it is accepted.
StepAppliedOnce == applications <= 1

\* The newest revision is the draft, unless a translation was written over
\* an empty one; and no more revisions are kept than the limit.
HistoryIsRecent ==
    /\ Cardinality(revisions) <= RevisionsKept
    /\ revisions # {} =>
          \E r \in revisions : /\ r.version \in {draft.version, draft.version - 1}
                               /\ r.version = draft.version => r.text = draft.text

\* Edits do not stay in the editor: they are saved, or the writer is told of
\* a conflict, or has left.
EditsReachServer ==
    []<>(\A c \in Writers : ~tab[c].open \/ ~Dirty(c) \/ tab[c].shown = "conflict")

\* Nothing typed is lost, an AI result is written once, and the history ends
\* with the draft (draft-autosave-queue.ts, commitDraftWrite).
DraftSafe == DraftTypeOK /\ NoSilentLoss /\ StepAppliedOnce /\ HistoryIsRecent
=============================================================================
