---------------------------- MODULE ParagraphOps ----------------------------
(***************************************************************************)
(* The paragraph operations of an autosave: the editor turns what changed  *)
(* into operations (src/web/src/features/writer/paragraph-diff.ts), the    *)
(* server applies them to the draft (src/api/internal/story/draft_ops.go). *)
(* A behaviour takes one pair of stored draft and editor, or one conflict  *)
(* between a stored draft and an editor that share a base, and saves until *)
(* the editor has nothing left to send.                                    *)
(***************************************************************************)
EXTENDS Naturals, Sequences, FiniteSets, SequencesExt

CONSTANTS
    SaveIds,     \* paragraphs of the saves, in the order they have in the base
    MergeIds,    \* paragraphs of the conflicts, likewise
    EditedId,    \* the paragraph whose text changes
    TaintedId    \* the paragraph that came from an unreviewed model

ASSUME ParagraphAssumption ==
    /\ IsInjective(SaveIds) /\ IsPrefix(MergeIds, SaveIds)
    /\ "" \notin ToSet(SaveIds)
    /\ EditedId \in ToSet(MergeIds) /\ TaintedId \in ToSet(MergeIds)

\* Text 0 is the base's; the two sides write texts of their own.
ParagraphTexts == 0..2

VARIABLES
    lastSaved,    \* the paragraphs the editor last saved or loaded
    storedDraft,  \* the paragraphs of the stored draft
    editor,       \* the paragraphs the editor shows
    request       \* the PATCH: its operations, and the result so far

opsVars == <<lastSaved, storedDraft, editor, request>>
NoRequest == [pc |-> "idle", merge |-> FALSE, ops |-> <<>>, result |-> <<>>]

IdsOf(ps) == {ps[i].id : i \in DOMAIN ps}
ById(ps, id) == ps[CHOOSE i \in DOMAIN ps : ps[i].id = id]
Orders(ids) == UNION {SetToSeqs(s) : s \in SUBSET ToSet(ids)}
\* The paragraphs of an order, with a text for the edited one.
ParagraphsOf(order, text) ==
    [i \in DOMAIN order |-> [id |-> order[i], text |-> IF order[i] = EditedId THEN text ELSE 0,
                             tainted |-> order[i] = TaintedId]]

(***************************************************************************)
(* diffParagraphs.                                                         *)
(***************************************************************************)

\* The nearest paragraph before position i that is in `kept`, "" if none.
PrevIn(ps, i, kept) ==
    LET before == {j \in 1..(i - 1) : ps[j].id \in kept}
    IN  IF before = {} THEN "" ELSE ps[CHOOSE j \in before : \A k \in before : k <= j].id

Deletes(saved, current) ==
    LET gone == SelectSeq(saved, LAMBDA p : p.id \notin IdsOf(current))
    IN  [i \in DOMAIN gone |-> [op |-> "delete", id |-> gone[i].id]]

Upserts(saved, current) ==
    LET changed == SelectSeq(current, LAMBDA p : p.id \in IdsOf(saved) => ById(saved, p.id).text # p.text)
    IN  [i \in DOMAIN changed |-> [op |-> "upsert", id |-> changed[i].id, text |-> changed[i].text]]

\* Mutant: only new paragraphs are placed.
OnlyNewMoves(saved, current, i) == current[i].id \notin IdsOf(saved)

\* A paragraph is placed when it is new, or follows another kept paragraph
\* than it did.
NeedsMove(saved, current, i) ==
    LET kept == IdsOf(saved) \cap IdsOf(current)
        was == CHOOSE j \in DOMAIN saved : saved[j].id = current[i].id
    IN  current[i].id \in kept => PrevIn(current, i, kept) # PrevIn(saved, was, kept)

MoveOps(saved, current) ==
    LET at == SelectSeq([i \in DOMAIN current |-> i], LAMBDA i : NeedsMove(saved, current, i))
    IN  [k \in DOMAIN at |-> [op |-> "move", id |-> current[at[k]].id,
                              after |-> PrevIn(current, at[k], IdsOf(current))]]

DiffParagraphs(saved, current) == Deletes(saved, current) \o Upserts(saved, current) \o MoveOps(saved, current)

(***************************************************************************)
(* ApplyParagraphOps.                                                      *)
(***************************************************************************)

Applied(ps) == [ok |-> TRUE, ps |-> ps]
Refused == [ok |-> FALSE, ps |-> <<>>]
WithoutId(ps, id) == SelectSeq(ps, LAMBDA p : p.id # id)

InsertAfter(ps, p, after) ==
    IF after = "" THEN Applied(<<p>> \o ps)
    ELSE IF after \notin IdsOf(ps) THEN Refused
    ELSE LET i == CHOOSE i \in DOMAIN ps : ps[i].id = after IN Applied(InsertAt(ps, i + 1, p))

\* An edit never clears the taint.
Edited(p, text) == [p EXCEPT !.text = text]

\* A new paragraph is tainted when the draft, as it is then, has one that is.
ApplyUpsert(ps, op) ==
    IF op.id \in IdsOf(ps)
    THEN Applied([i \in DOMAIN ps |-> IF ps[i].id = op.id THEN Edited(ps[i], op.text) ELSE ps[i]])
    ELSE Applied(Append(ps, [id |-> op.id, text |-> op.text, tainted |-> \E i \in DOMAIN ps : ps[i].tainted]))

ApplyDelete(ps, op) == IF op.id \in IdsOf(ps) THEN Applied(WithoutId(ps, op.id)) ELSE Refused

ApplyMove(ps, op) ==
    IF op.id \in IdsOf(ps) THEN InsertAfter(WithoutId(ps, op.id), ById(ps, op.id), op.after) ELSE Refused

ApplyOp(ps, op) ==
    CASE op.op = "upsert" -> ApplyUpsert(ps, op)
      [] op.op = "delete" -> ApplyDelete(ps, op)
      [] op.op = "move" -> ApplyMove(ps, op)

(***************************************************************************)
(* Saving.                                                                 *)
(***************************************************************************)

\* What the editor sees of paragraphs: ids, texts and order.
Seen(ps) == [i \in DOMAIN ps |-> [id |-> ps[i].id, text |-> ps[i].text]]
UniqueIds(ps) == Cardinality(IdsOf(ps)) = Len(ps)
OpsConflict == Seen(lastSaved) # Seen(storedDraft)

\* Paragraph ids mean nothing but themselves: the base may name them in
\* order.
OpsInit ==
    /\ \/ \E s \in Prefixes(SaveIds), e \in Orders(SaveIds), t \in {0, 1} :
             /\ lastSaved = ParagraphsOf(s, 0) /\ storedDraft = lastSaved
             /\ editor = ParagraphsOf(e, t)
       \/ \E s \in Prefixes(MergeIds), l, e \in Orders(MergeIds), t \in {0, 1}, u \in {0, 2} :
             /\ lastSaved = ParagraphsOf(s, 0)
             /\ storedDraft = ParagraphsOf(l, u)
             /\ editor = ParagraphsOf(e, t)
    /\ request = NoRequest

\* Mutant: the difference is taken from what is stored now.
AgainstLatest == DiffParagraphs(storedDraft, editor)

\* What the editor changed since its base.
Outgoing == DiffParagraphs(lastSaved, editor)

\* A PATCH leaves with the difference, if there is one: a save, whose base
\* is what is stored, or mergeOnto's, whose base is not.
SendOps ==
    /\ request.pc = "idle"
    /\ \E ops \in {Outgoing} :
          /\ ops # <<>>
          /\ request' = [pc |-> "apply", merge |-> OpsConflict, ops |-> ops, result |-> storedDraft]
    /\ UNCHANGED <<lastSaved, storedDraft, editor>>

\* ApplyParagraphOps' loop, on a copy of the draft.
ApplyNextOp ==
    /\ request.pc = "apply" /\ request.ops # <<>>
    /\ \E r \in {ApplyOp(request.result, Head(request.ops))} :
          request' = IF r.ok THEN [request EXCEPT !.ops = Tail(request.ops), !.result = r.ps]
                     ELSE [NoRequest EXCEPT !.pc = "refused"]
    /\ UNCHANGED <<lastSaved, storedDraft, editor>>

\* The result is stored and answered: the new base, and after a merge what
\* the editor shows.
StoreOps ==
    /\ request.pc = "apply" /\ request.ops = <<>>
    /\ IF UniqueIds(request.result)
       THEN /\ storedDraft' = request.result /\ lastSaved' = request.result
            /\ editor' = IF request.merge THEN request.result ELSE editor
            /\ request' = NoRequest
       ELSE /\ request' = [NoRequest EXCEPT !.pc = "refused"]
            /\ UNCHANGED <<lastSaved, storedDraft, editor>>

OpsNext == SendOps \/ ApplyNextOp \/ StoreOps
\* The queue flushes again as long as it is dirty.
OpsFairness == WF_opsVars(OpsNext)

OpsFairSpec == OpsInit /\ [][OpsNext]_opsVars /\ OpsFairness

(***************************************************************************)
(* Properties.                                                             *)
(***************************************************************************)

\* Types, and every draft has unique paragraph ids.
OpsTypeOK ==
    /\ \A ps \in {lastSaved, storedDraft, editor} :
          /\ UniqueIds(ps)
          /\ \A i \in DOMAIN ps : ps[i] \in [id : ToSet(SaveIds), text : ParagraphTexts, tainted : BOOLEAN]
    /\ request.pc \in {"idle", "apply", "refused"} /\ request.merge \in BOOLEAN

\* However the paragraphs were cut, moved and retyped, the queue stops
\* sending, with the draft stored in the editor's order, or a merge was
\* refused: no save leaves a difference that a further save cannot see or
\* keeps undoing.
SavesSettle ==
    <>[](\/ request.pc = "refused"
         \/ request.pc = "idle" /\ (OpsConflict \/ Seen(storedDraft) = Seen(editor)))

\* One save already stores every paragraph and every text the editor shows,
\* and is never refused; only the order may need another one.
OneSaveStoresTexts ==
    request.pc = "apply" /\ ~request.merge =>
        /\ request'.pc # "refused"
        /\ request'.pc = "idle" =>
              /\ IdsOf(storedDraft') = IdsOf(editor)
              /\ \A id \in IdsOf(editor) : ById(storedDraft', id).text = ById(editor, id).text

\* A merge keeps both sides: what the editor wrote or inserted is stored as
\* it wrote it, what it deleted is gone, and a paragraph it left alone is as
\* the other side stored it, kept or deleted.
MergeKeepsBoth ==
    request.merge /\ request'.pc = "idle" =>
         \A id \in ToSet(MergeIds) :
            LET wrote == id \in IdsOf(editor) /\ (id \notin IdsOf(lastSaved)
                                                  \/ ById(lastSaved, id).text # ById(editor, id).text)
                deleted == id \in IdsOf(lastSaved) \ IdsOf(editor)
            IN  /\ wrote => id \in IdsOf(storedDraft') /\ ById(storedDraft', id).text = ById(editor, id).text
                /\ deleted => id \notin IdsOf(storedDraft')
                /\ ~wrote /\ ~deleted =>
                      /\ id \in IdsOf(storedDraft') <=> id \in IdsOf(storedDraft)
                      /\ id \in IdsOf(storedDraft) =>
                            ById(storedDraft', id).text = ById(storedDraft, id).text

\* Text from an unreviewed model keeps its taint through every edit, move
\* and merge, and while such a paragraph remains, every new one has it too.
TaintSticks ==
    LET both == IdsOf(storedDraft) \cap IdsOf(storedDraft')
        tainted == {id \in both : ById(storedDraft, id).tainted}
    IN  /\ \A id \in tainted : ById(storedDraft', id).tainted
        /\ tainted # {} => \A id \in IdsOf(storedDraft') \ both : ById(storedDraft', id).tainted

\* A save stores what the editor shows, a merge keeps both sides, and the
\* taint stays (diffParagraphs, ApplyParagraphOps).
OpsSafe == [][OpsTypeOK' /\ OneSaveStoresTexts /\ MergeKeepsBoth /\ TaintSticks]_opsVars
=============================================================================
