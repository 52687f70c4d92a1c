---------------------------- MODULE DraftProofs ----------------------------
(***************************************************************************)
(* No save overwrites a draft unseen and nothing typed is lost silently,   *)
(* for any number of tabs, paragraphs, edits and lost calls.               *)
(*                                                                         *)
(* The argument for the first: a version number stands for one text, so a  *)
(* tab, an answer or a translation that has the present number also has    *)
(* the present text.  For the second every number typed is followed from   *)
(* the tab that shows it to the draft that stored it or the answer that    *)
(* gave it up; and the history drops its oldest revision, never the last.  *)
(***************************************************************************)
EXTENDS DraftSync, FiniteSetTheorems, WellFoundedInduction, TLAPS

TabRecords ==
    [open : BOOLEAN, base : Texts, version : Nat, local : Texts, status : Statuses,
     shown : Statuses, debounce : BOOLEAN, retry : BOOLEAN, left : BOOLEAN]
PatchRecords ==
    [pc : {"none", "sent", "read", "refused", "done"}, merge : BOOLEAN, expected : Nat,
     ops : SUBSET [para : AllParas, text : 0..AiText], seen : Nat, answer : Texts]
AcceptRecords ==
    [pc : {"none", "settle", "sent", "read", "refused", "done", "over"}, seen : Nat, answer : Texts]

RecordsOK ==
    /\ draft \in [version : Nat, text : Texts]
    /\ tab \in [Writers -> TabRecords]
    /\ patch \in [Writers -> PatchRecords]
    /\ accept \in AcceptRecords
    /\ translator \in [pc : {"new", "write", "done"}, seen : Nat]
    /\ typed \in 0..MaxTyped

\* Version v is not ahead of the draft, and text t is the draft's if it is
\* the present version.
Matches(v, t) == v <= draft.version /\ (v = draft.version => t = draft.text)

TabsMatch == \A c \in Writers : Matches(tab[c].version, tab[c].base)
PatchesMatch ==
    \A c \in Writers :
        /\ patch[c].pc = "done" => Matches(patch[c].seen, patch[c].answer)
        /\ patch[c].pc = "read" => patch[c].seen = patch[c].expected
        /\ patch[c].pc \in {"sent", "read"} /\ ~patch[c].merge => patch[c].expected <= tab[c].version

\* The request to apply the AI result is with the server.
Waiting == accept.pc \in {"sent", "read", "done"}

\* settle left nothing to save, and nothing is typed until the answer.
Settled == Waiting => patch[Proposer].pc = "none" /\ tab[Proposer].base = tab[Proposer].local

VersionInv ==
    /\ RecordsOK /\ Settled
    /\ draft.version = 0 => draft.text = EmptyText
    /\ TabsMatch /\ PatchesMatch
    /\ accept.pc = "done" => Matches(accept.seen, accept.answer)
    /\ translator.pc = "write" => Matches(translator.seen, EmptyText)

LEMMA ConstantRecords ==
    /\ EmptyText \in Texts /\ AiText \in Nat /\ 0 \in 0..AiText
    /\ ClosedTab \in TabRecords /\ NoPatch \in PatchRecords /\ NoAccept \in AcceptRecords
<1>1. EmptyText \in Texts /\ AiText \in Nat /\ 0 \in 0..AiText
  BY DraftAssumption DEF EmptyText, Texts, AiText, NoPara
<1> QED  BY <1>1 DEF ClosedTab, TabRecords, NoPatch, PatchRecords, NoAccept, AcceptRecords, Statuses

LEMMA StatusOnly ==
    ASSUME NEW r \in TabRecords, NEW s \in Statuses
    PROVE  /\ WithStatus(r, s) \in TabRecords
           /\ WithStatus(r, s).base = r.base /\ WithStatus(r, s).version = r.version
           /\ WithStatus(r, s).local = r.local /\ WithStatus(r, s).open = r.open
BY DEF WithStatus, TabRecords

LEMMA ResetTo ==
    ASSUME NEW r \in TabRecords, NEW t \in Texts, NEW v \in Nat
    PROVE  /\ Reset(r, t, v) \in TabRecords /\ Reset(r, t, v).base = t /\ Reset(r, t, v).version = v
           /\ Reset(r, t, v).local = t
<1> DEFINE q == [r EXCEPT !.debounce = FALSE, !.base = t, !.local = t, !.version = v]
<1>1. q \in TabRecords /\ q.base = t /\ q.version = v /\ q.local = t
  BY DEF TabRecords
<1> HIDE DEF q
<1>2. WithStatus(q, "saved") \in TabRecords /\ WithStatus(q, "saved").base = q.base
      /\ WithStatus(q, "saved").version = q.version /\ WithStatus(q, "saved").local = q.local
  BY <1>1, StatusOnly DEF Statuses
<1> QED  BY <1>1, <1>2 DEF Reset, q

LEMMA KeptTab ==
    ASSUME NEW r \in TabRecords
    PROVE  /\ Kept(r) \in TabRecords
           /\ \/ Kept(r).base = r.base /\ Kept(r).version = r.version
              \/ Kept(r).base = EmptyText /\ Kept(r).version = 0
           /\ r.base = r.local => Kept(r).base = Kept(r).local
BY ConstantRecords DEF Kept, ClosedTab, TabRecords

LEMMA DiffOps == ASSUME NEW s \in Texts, NEW t \in Texts
                 PROVE  Diff(s, t) \in SUBSET [para : AllParas, text : 0..AiText]
BY DEF Diff, Texts

LEMMA AppliedText ==
    ASSUME NEW ops \in SUBSET [para : AllParas, text : 0..AiText], NEW t \in Texts
    PROVE  ApplyTo(ops, t) \in Texts
<1>1. ASSUME NEW p \in AllParas, \E o \in ops : o.para = p PROVE OpFor(ops, p).text \in 0..AiText
  <2>1. OpFor(ops, p) \in ops
    BY <1>1 DEF OpFor
  <2> QED  BY <2>1
<1> QED  BY <1>1 DEF ApplyTo, Texts

\* flush leaves the base of the queue and its version, and sends that version.
LEMMA FlushSends ==
    ASSUME RecordsOK, NEW c \in Writers, NEW r \in TabRecords, FlushFrom(c, r)
    PROVE  \E q \in TabRecords, u \in PatchRecords :
              /\ tab' = [tab EXCEPT ![c] = q] /\ patch' = [patch EXCEPT ![c] = u]
              /\ \/ q.base = r.base /\ q.version = r.version
                 \/ q.base = EmptyText /\ q.version = 0 /\ u.pc = "none"
              /\ u.pc = "none" \/ (u.pc = "sent" /\ u.expected = r.version)
              /\ r.base = r.local => u.pc = "none" /\ q.base = q.local
<1> DEFINE s == [r EXCEPT !.debounce = FALSE, !.retry = FALSE]
<1>1. s \in TabRecords /\ s.base = r.base /\ s.version = r.version /\ s.local = r.local
  BY DEF TabRecords
<1> HIDE DEF s
<1>2. CASE r.base = r.local
  <2>1. /\ WithStatus(s, "saved") \in TabRecords
        /\ WithStatus(s, "saved").base = r.base /\ WithStatus(s, "saved").version = r.version
        /\ WithStatus(s, "saved").local = r.local
    BY <1>1, StatusOnly DEF Statuses
  <2>2. tab' = [tab EXCEPT ![c] = Kept(WithStatus(s, "saved"))] /\ patch' = [patch EXCEPT ![c] = NoPatch]
    BY <1>2 DEF FlushFrom, SetTab, s
  <2>3. NoPatch \in PatchRecords /\ NoPatch.pc = "none"
    BY ConstantRecords DEF NoPatch
  <2>4. /\ Kept(WithStatus(s, "saved")) \in TabRecords
        /\ \/ Kept(WithStatus(s, "saved")).base = r.base /\ Kept(WithStatus(s, "saved")).version = r.version
           \/ Kept(WithStatus(s, "saved")).base = EmptyText /\ Kept(WithStatus(s, "saved")).version = 0
        /\ Kept(WithStatus(s, "saved")).base = Kept(WithStatus(s, "saved")).local
    BY <1>2, <2>1, KeptTab
  <2> HIDE DEF NoPatch
  <2> QED  BY <2>2, <2>3, <2>4
<1>3. CASE r.base # r.local
  <2> DEFINE u == [NoPatch EXCEPT !.pc = "sent", !.merge = FALSE, !.expected = r.version, !.ops = Diff(r.base, r.local)]
  <2>1. /\ WithStatus(s, "saving") \in TabRecords
        /\ WithStatus(s, "saving").base = r.base /\ WithStatus(s, "saving").version = r.version
    BY <1>1, StatusOnly DEF Statuses
  <2>2. tab' = [tab EXCEPT ![c] = WithStatus(s, "saving")] /\ patch' = [patch EXCEPT ![c] = u]
    BY <1>3 DEF FlushFrom, SetTab, SendPatch, s
  <2>3. r.base \in Texts /\ r.local \in Texts /\ r.version \in Nat
    BY DEF TabRecords
  <2>4. Diff(r.base, r.local) \in SUBSET [para : AllParas, text : 0..AiText]
    BY <2>3, DiffOps
  <2>5. u \in PatchRecords /\ u.pc = "sent" /\ u.expected = r.version
    BY <2>3, <2>4, ConstantRecords DEF NoPatch, PatchRecords
  <2> HIDE DEF u
  <2> QED  BY <1>3, <2>1, <2>2, <2>5
<1> QED  BY <1>2, <1>3

\* A step of one tab and its PATCH that leaves the server alone.
LEMMA TabStep ==
    ASSUME VersionInv, NEW c \in Writers, NEW q \in TabRecords, NEW u \in PatchRecords,
           tab' = [tab EXCEPT ![c] = q], patch' = [patch EXCEPT ![c] = u],
           UNCHANGED <<draft, translator>>, typed' \in 0..MaxTyped,
           accept' \in AcceptRecords, accept'.pc = "done" => accept' = accept,
           Matches(q.version, q.base),
           u.pc = "done" => Matches(u.seen, u.answer),
           u.pc = "read" => u.seen = u.expected,
           u.pc \in {"sent", "read"} /\ ~u.merge => u.expected <= q.version,
           Waiting' => \/ c # Proposer /\ Waiting
                       \/ c = Proposer /\ u.pc = "none" /\ q.base = q.local
    PROVE  VersionInv'
<1>1. RecordsOK'
  BY DEF VersionInv, RecordsOK
<1>2. TabsMatch' /\ PatchesMatch'
  BY DEF VersionInv, RecordsOK, TabsMatch, PatchesMatch, Matches
<1>3. Settled'
  BY DraftAssumption DEF VersionInv, RecordsOK, Settled
<1> QED  BY <1>1, <1>2, <1>3 DEF VersionInv, Matches

\* A flush keeps the invariant when the queue's base matches its version.
LEMMA FlushStep ==
    ASSUME VersionInv, NEW c \in Writers, NEW r \in TabRecords, FlushFrom(c, r),
           UNCHANGED <<draft, translator, typed>>,
           accept' \in AcceptRecords, accept'.pc = "done" => accept' = accept,
           Matches(r.version, r.base),
           Waiting' => \/ c # Proposer /\ Waiting
                       \/ c = Proposer /\ r.base = r.local
    PROVE  VersionInv'
<1>1. PICK q \in TabRecords, u \in PatchRecords :
              /\ tab' = [tab EXCEPT ![c] = q] /\ patch' = [patch EXCEPT ![c] = u]
              /\ \/ q.base = r.base /\ q.version = r.version
                 \/ q.base = EmptyText /\ q.version = 0 /\ u.pc = "none"
              /\ u.pc = "none" \/ (u.pc = "sent" /\ u.expected = r.version)
              /\ r.base = r.local => u.pc = "none" /\ q.base = q.local
  BY FlushSends DEF VersionInv
<1>2. Matches(q.version, q.base)
  BY <1>1 DEF VersionInv, Matches, RecordsOK
<1>3. typed' \in 0..MaxTyped /\ r.version \in Nat
  BY DEF VersionInv, RecordsOK, TabRecords
<1>4. u.pc \in {"sent", "read"} /\ ~u.merge => u.expected <= q.version
  BY <1>1, <1>3
<1>5. u.pc # "done" /\ u.pc # "read" /\ UNCHANGED <<draft, translator>>
  BY <1>1
<1> QED  BY <1>1, <1>2, <1>3, <1>4, <1>5, TabStep

\* The server writes a new version: what matched is now behind it.
LEMMA NewVersion ==
    ASSUME VersionInv, NEW t \in Texts, draft' = [version |-> draft.version + 1, text |-> t], UNCHANGED tab,
           RecordsOK',
           \A c \in Writers : patch'[c] = patch[c]
                              \/ (patch[c].pc = "read" /\ patch'[c].pc = "done" /\ Matches(patch[c].seen, patch[c].answer)'),
           Waiting' => Waiting,
           accept' = accept \/ (accept'.pc = "done" /\ Matches(accept.seen, accept.answer)'),
           translator' = translator \/ (translator'.pc = "write" => Matches(translator.seen, EmptyText)')
    PROVE  VersionInv'
<1>1. draft.version \in Nat /\ draft'.version = draft.version + 1 /\ draft'.text = t
  BY DEF VersionInv, RecordsOK
<1>2. \A v \in Nat : \A s : Matches(v, s) => v <= draft'.version /\ v # draft'.version
  BY <1>1 DEF Matches
<1>3. TabsMatch'
  BY <1>1, <1>2 DEF VersionInv, RecordsOK, TabRecords, TabsMatch, Matches
<1>4. PatchesMatch'
  <2> SUFFICES ASSUME NEW c \in Writers
               PROVE  /\ patch'[c].pc = "done" => Matches(patch[c].seen, patch[c].answer)'
                      /\ patch'[c].pc = "read" => patch'[c].seen = patch'[c].expected
                      /\ patch'[c].pc \in {"sent", "read"} /\ ~patch'[c].merge => patch'[c].expected <= tab'[c].version
    BY DEF PatchesMatch
  <2>1. CASE patch'[c] = patch[c]
    <3>1. patch[c].seen \in Nat
      BY DEF VersionInv, RecordsOK, PatchRecords
    <3>2. patch'[c].pc = "done" => Matches(patch[c].seen, patch[c].answer)'
      BY <1>1, <1>2, <2>1, <3>1 DEF VersionInv, PatchesMatch, Matches
    <3> QED  BY <2>1, <3>2 DEF VersionInv, PatchesMatch
  <2>2. CASE patch'[c].pc = "done" /\ Matches(patch[c].seen, patch[c].answer)'
    BY <2>2
  <2> QED  BY <2>1, <2>2
<1>5. accept'.pc = "done" => Matches(accept.seen, accept.answer)'
  <2>1. CASE accept' = accept
    BY <1>1, <1>2, <2>1 DEF VersionInv, RecordsOK, AcceptRecords, Matches
  <2> QED  BY <2>1
<1>6. translator'.pc = "write" => Matches(translator.seen, EmptyText)'
  BY <1>1, <1>2 DEF VersionInv, RecordsOK, Matches
<1>7. Settled'
  BY DraftAssumption DEF VersionInv, Settled
<1> QED  BY <1>1, <1>3, <1>4, <1>5, <1>6, <1>7 DEF VersionInv

\* A step of the accept request, or of a PATCH, that leaves the tabs and the
\* server alone.
LEMMA CallStep ==
    ASSUME VersionInv, NEW c \in Writers, NEW u \in PatchRecords, patch' = [patch EXCEPT ![c] = u],
           UNCHANGED <<draft, tab, translator, typed>>,
           accept' \in AcceptRecords, accept'.pc = "done" => accept' = accept,
           u.pc = "done" => u = patch[c],
           u.pc = "read" => u.seen = u.expected,
           u.pc \in {"sent", "read"} => patch[c].pc \in {"sent", "read"} /\ u.merge = patch[c].merge
                                        /\ u.expected = patch[c].expected,
           Waiting' => Waiting /\ (c = Proposer => u.pc = "none")
    PROVE  VersionInv'
<1>1. tab[c] \in TabRecords /\ tab' = [tab EXCEPT ![c] = tab[c]] /\ typed' \in 0..MaxTyped
  BY DEF VersionInv, RecordsOK
<1>2. Matches(tab[c].version, tab[c].base)
  BY DEF VersionInv, TabsMatch
<1>3. u.pc = "done" => Matches(u.seen, u.answer)
  BY DEF VersionInv, PatchesMatch
<1>4. u.pc \in {"sent", "read"} /\ ~u.merge => u.expected <= tab[c].version
  BY DEF VersionInv, PatchesMatch
<1>5. Waiting' => \/ c # Proposer /\ Waiting
                  \/ c = Proposer /\ u.pc = "none" /\ tab[c].base = tab[c].local
  BY DEF VersionInv, Settled
<1> QED  BY <1>1, <1>2, <1>3, <1>4, <1>5, TabStep

LEMMA VersionInit == DraftInit => VersionInv
<1> SUFFICES ASSUME DraftInit PROVE VersionInv
  OBVIOUS
<1>1. RecordsOK
  BY ConstantRecords, DraftAssumption DEF DraftInit, RecordsOK
<1>2. /\ draft.version = 0 /\ draft.text = EmptyText /\ translator.pc = "new" /\ accept.pc = "none"
      /\ \A c \in Writers : tab[c].version = 0 /\ tab[c].base = EmptyText /\ patch[c].pc = "none"
  BY DEF DraftInit, ClosedTab, NoPatch, NoAccept
<1> QED  BY <1>1, <1>2 DEF VersionInv, Settled, Waiting, TabsMatch, PatchesMatch, Matches

\* The steps of the server.
LEMMA ServerKeeps ==
    ASSUME VersionInv,
           \/ CreateDraft \/ ReadForTranslation \/ WriteTranslation \/ ReadForStep \/ CommitStep
           \/ \E c \in Writers : ReadForPatch(c) \/ CommitPatch(c)
    PROVE  VersionInv'
<1>0. /\ draft \in [version : Nat, text : Texts] /\ draft.version \in Nat /\ draft.text \in Texts
      /\ draft = [version |-> draft.version, text |-> draft.text]
      /\ Proposer \in Writers
  BY DraftAssumption DEF VersionInv, RecordsOK
<1>1. CASE CreateDraft
  <2>1. draft' = [version |-> draft.version + 1, text |-> draft.text]
    BY <1>0, <1>1 DEF CreateDraft
  <2>2. RecordsOK' /\ UNCHANGED <<tab, patch, accept, translator>>
    BY <1>0, <1>1, <2>1 DEF CreateDraft, VersionInv, RecordsOK
  <2> QED  BY <1>0, <2>1, <2>2, NewVersion DEF Waiting
<1>2. CASE ReadForTranslation
  <2>1. UNCHANGED <<tab, patch, accept, typed>>
    BY <1>2 DEF ReadForTranslation
  <2>2. CASE draft.version = 0
    <3>1. draft' = [version |-> draft.version + 1, text |-> draft.text] /\ draft.text = EmptyText
      BY <1>0, <1>2, <2>2 DEF ReadForTranslation, VersionInv
    <3>2. translator' = [pc |-> "write", seen |-> draft'.version]
      BY <1>2, <3>1 DEF ReadForTranslation
    <3>3. RecordsOK'
      BY <1>0, <2>1, <3>1, <3>2 DEF VersionInv, RecordsOK
    <3>4. Matches(translator.seen, EmptyText)'
      BY <1>0, <3>1, <3>2 DEF Matches
    <3> QED  BY <1>0, <2>1, <3>1, <3>2, <3>3, <3>4, NewVersion DEF Waiting
  <2>3. CASE draft.version # 0
    <3>1. UNCHANGED draft
      BY <1>2, <2>3 DEF ReadForTranslation
    <3>2. /\ translator' \in [pc : {"new", "write", "done"}, seen : Nat]
          /\ translator'.pc = "write" => translator'.seen = draft.version /\ draft.text = EmptyText
      BY <1>0, <1>2, <3>1 DEF ReadForTranslation
    <3> QED  BY <1>0, <2>1, <3>1, <3>2
             DEF VersionInv, RecordsOK, Settled, Waiting, TabsMatch, PatchesMatch, Matches
  <2> QED  BY <2>2, <2>3
<1>3. CASE WriteTranslation
  <2>1. UNCHANGED <<tab, patch, accept, typed>> /\ translator' = [pc |-> "done", seen |-> 0]
    BY <1>3 DEF WriteTranslation
  <2>2. CASE Fenced(translator.seen)
    <3> DEFINE t == [EmptyText EXCEPT ![AiPara] = AiText]
    <3>1. draft' = [version |-> draft.version + 1, text |-> t]
      BY <1>3, <2>2 DEF WriteTranslation
    <3>2. t \in Texts
      <4>1. AiText \in 0..AiText /\ EmptyText \in [AllParas -> 0..AiText]
        BY ConstantRecords DEF Texts
      <4> QED  BY <4>1 DEF Texts
    <3> HIDE DEF t
    <3>3. RecordsOK'
      BY <1>0, <2>1, <3>1, <3>2 DEF VersionInv, RecordsOK
    <3> QED  BY <1>0, <2>1, <3>1, <3>2, <3>3, NewVersion DEF Waiting
  <2>3. CASE ~Fenced(translator.seen)
    <3>1. UNCHANGED draft
      BY <1>3, <2>3 DEF WriteTranslation
    <3> QED  BY <1>0, <2>1, <3>1
             DEF VersionInv, RecordsOK, Settled, Waiting, TabsMatch, PatchesMatch, Matches
  <2> QED  BY <2>2, <2>3
<1>4. CASE ReadForStep
  <2>1. UNCHANGED <<draft, tab, patch, translator, typed>> /\ Waiting
    BY <1>4 DEF ReadForStep, server, Waiting
  <2>2. accept' \in AcceptRecords /\ accept'.pc \in {"read", "refused"}
    <3> DEFINE t == [p \in AllParas |-> IF p \in AiReplaces THEN NoPara
                                        ELSE IF p = AiPara THEN AiText ELSE draft.text[p]]
    <3>1. t \in Texts
      BY <1>0, ConstantRecords DEF Texts, NoPara
    <3>2. accept' = [NoAccept EXCEPT !.pc = "refused"]
          \/ accept' = [pc |-> "read", seen |-> draft.version, answer |-> t]
      BY <1>4 DEF ReadForStep
    <3> HIDE DEF t
    <3> QED  BY <1>0, <3>1, <3>2, ConstantRecords DEF NoAccept, AcceptRecords
  <2>3. patch[Proposer] \in PatchRecords /\ patch' = [patch EXCEPT ![Proposer] = patch[Proposer]]
    BY <1>0, <2>1 DEF VersionInv, RecordsOK
  <2>4. patch[Proposer].pc = "none"
    BY <2>1 DEF VersionInv, Settled
  <2> QED  BY <1>0, <2>1, <2>2, <2>3, <2>4, CallStep
<1>5. CASE CommitStep
  <2>1. UNCHANGED <<tab, patch, translator, typed>> /\ Waiting /\ accept \in AcceptRecords
    BY <1>5 DEF CommitStep, Waiting, VersionInv, RecordsOK
  <2>2. CASE ClaimsStep /\ Fenced(accept.seen)
    <3>1. /\ draft' = [version |-> draft.version + 1, text |-> accept.answer]
          /\ accept' = [accept EXCEPT !.pc = "done", !.seen = draft.version + 1]
      BY <1>5, <2>2 DEF CommitStep, CommitDraft
    <3>2. accept.answer \in Texts
      BY <2>1 DEF AcceptRecords
    <3>3. /\ accept' \in AcceptRecords /\ accept'.pc = "done"
          /\ accept'.seen = draft'.version /\ accept'.answer = draft'.text
      <4>1. draft'.version = draft.version + 1 /\ draft'.text = accept.answer /\ draft.version + 1 \in Nat
        BY <1>0, <3>1
      <4>2. /\ accept' \in AcceptRecords /\ accept'.pc = "done"
            /\ accept'.seen = draft.version + 1 /\ accept'.answer = accept.answer
        BY <2>1, <3>1, <4>1 DEF AcceptRecords
      <4> QED  BY <4>1, <4>2
    <3>4. RecordsOK'
      BY <1>0, <2>1, <3>1, <3>2, <3>3 DEF VersionInv, RecordsOK
    <3>5. Matches(accept.seen, accept.answer)'
      BY <1>0, <3>1, <3>3 DEF Matches
    <3> QED  BY <1>0, <2>1, <3>1, <3>2, <3>3, <3>4, <3>5, NewVersion DEF Waiting
  <2>3. CASE ~(ClaimsStep /\ Fenced(accept.seen))
    <3>1. UNCHANGED draft /\ accept' = [NoAccept EXCEPT !.pc = "refused"]
      BY <1>5, <2>3 DEF CommitStep
    <3>2. accept' \in AcceptRecords /\ accept'.pc = "refused"
      BY <3>1, ConstantRecords DEF NoAccept, AcceptRecords
    <3>3. patch[Proposer] \in PatchRecords /\ patch' = [patch EXCEPT ![Proposer] = patch[Proposer]]
      BY <1>0, <2>1 DEF VersionInv, RecordsOK
    <3>4. patch[Proposer].pc = "none" /\ ~Waiting'
      BY <2>1, <3>2 DEF VersionInv, Settled, Waiting
    <3> QED  BY <1>0, <2>1, <3>1, <3>2, <3>3, <3>4, CallStep
  <2> QED  BY <2>2, <2>3
<1>6. ASSUME NEW c \in Writers, ReadForPatch(c) PROVE VersionInv'
  <2>1. UNCHANGED <<draft, tab, accept, translator, typed>> /\ patch[c].pc = "sent" /\ patch[c] \in PatchRecords
        /\ accept \in AcceptRecords
    BY <1>6 DEF ReadForPatch, server, VersionInv, RecordsOK
  <2>2. ~(Waiting /\ c = Proposer)
    BY <2>1 DEF VersionInv, Settled
  <2>3. CASE draft.version = patch[c].expected /\ Applicable(patch[c].ops, draft.text)
    <3> DEFINE u == [patch[c] EXCEPT !.pc = "read", !.seen = draft.version,
                                     !.answer = ApplyTo(patch[c].ops, draft.text)]
    <3>1. patch' = [patch EXCEPT ![c] = u]
      BY <1>6, <2>3 DEF ReadForPatch
    <3>2. ApplyTo(patch[c].ops, draft.text) \in Texts
      BY <1>0, <2>1, AppliedText DEF PatchRecords
    <3>3. u \in PatchRecords /\ u.pc = "read" /\ u.seen = u.expected
          /\ u.merge = patch[c].merge /\ u.expected = patch[c].expected
      BY <1>0, <2>1, <2>3, <3>2 DEF PatchRecords
    <3> HIDE DEF u
    <3> QED  BY <2>1, <2>2, <3>1, <3>3, CallStep DEF Waiting
  <2>4. CASE ~(draft.version = patch[c].expected /\ Applicable(patch[c].ops, draft.text))
    <3> DEFINE u == [NoPatch EXCEPT !.pc = "refused"]
    <3>1. patch' = [patch EXCEPT ![c] = u]
      BY <1>6, <2>4 DEF ReadForPatch
    <3>2. u \in PatchRecords /\ u.pc = "refused"
      BY ConstantRecords DEF NoPatch, PatchRecords
    <3> HIDE DEF u
    <3> QED  BY <2>1, <2>2, <3>1, <3>2, CallStep DEF Waiting
  <2> QED  BY <2>3, <2>4
<1>7. ASSUME NEW c \in Writers, CommitPatch(c) PROVE VersionInv'
  <2>1. UNCHANGED <<tab, accept, translator, typed>> /\ patch[c].pc = "read" /\ patch[c] \in PatchRecords
        /\ accept \in AcceptRecords
    BY <1>7 DEF CommitPatch, VersionInv, RecordsOK
  <2>2. ~(Waiting /\ c = Proposer)
    BY <2>1 DEF VersionInv, Settled
  <2>3. CASE Fenced(patch[c].seen)
    <3> DEFINE u == [patch[c] EXCEPT !.pc = "done", !.seen = draft.version + 1, !.ops = {}, !.expected = 0]
    <3>1. draft' = [version |-> draft.version + 1, text |-> patch[c].answer] /\ patch' = [patch EXCEPT ![c] = u]
      BY <1>7, <2>3 DEF CommitPatch, CommitDraft
    <3>2. patch[c].answer \in Texts
      BY <2>1 DEF PatchRecords
    <3>3. u \in PatchRecords /\ u.pc = "done" /\ u.seen = draft'.version /\ u.answer = draft'.text
      <4>1. draft'.version = draft.version + 1 /\ draft'.text = patch[c].answer /\ draft.version + 1 \in Nat
        BY <1>0, <3>1
      <4>2. u \in PatchRecords /\ u.pc = "done" /\ u.seen = draft.version + 1 /\ u.answer = patch[c].answer
        BY <2>1, <4>1 DEF PatchRecords
      <4> QED  BY <4>1, <4>2
    <3> HIDE DEF u
    <3>4. RecordsOK' /\ patch'[c] = u /\ \A d \in Writers : d # c => patch'[d] = patch[d]
      BY <1>0, <2>1, <3>1, <3>2, <3>3 DEF VersionInv, RecordsOK
    <3>5. Matches(patch[c].seen, patch[c].answer)'
      BY <1>0, <3>1, <3>3, <3>4 DEF Matches
    <3>6. \A d \in Writers : patch'[d] = patch[d]
                 \/ (patch[d].pc = "read" /\ patch'[d].pc = "done" /\ Matches(patch[d].seen, patch[d].answer)')
      BY <2>1, <3>3, <3>4, <3>5
    <3> QED  BY <2>1, <3>1, <3>2, <3>4, <3>6, NewVersion DEF Waiting
  <2>4. CASE ~Fenced(patch[c].seen)
    <3> DEFINE u == [NoPatch EXCEPT !.pc = "refused"]
    <3>1. patch' = [patch EXCEPT ![c] = u] /\ UNCHANGED draft
      BY <1>7, <2>4 DEF CommitPatch
    <3>2. u \in PatchRecords /\ u.pc = "refused"
      BY ConstantRecords DEF NoPatch, PatchRecords
    <3> HIDE DEF u
    <3> QED  BY <2>1, <2>2, <3>1, <3>2, CallStep DEF Waiting
  <2> QED  BY <2>3, <2>4
<1> QED  BY <1>1, <1>2, <1>3, <1>4, <1>5, <1>6, <1>7

\* What a step of tab c that leaves the server and the accept request alone has.
LEMMA TabFacts ==
    ASSUME VersionInv, NEW c \in Writers
    PROVE  /\ tab[c] \in TabRecords /\ patch[c] \in PatchRecords /\ accept \in AcceptRecords
           /\ typed \in 0..MaxTyped
           /\ draft.version \in Nat /\ draft.text \in Texts
           /\ Matches(tab[c].version, tab[c].base) /\ Matches(draft.version, draft.text)
           /\ patch[c].pc = "done" => Matches(patch[c].seen, patch[c].answer)
           /\ patch[c].pc = "read" => patch[c].seen = patch[c].expected
           /\ patch[c].pc \in {"sent", "read"} /\ ~patch[c].merge => patch[c].expected <= tab[c].version
           /\ Waiting /\ c = Proposer => patch[c].pc = "none" /\ tab[c].base = tab[c].local
BY DEF VersionInv, RecordsOK, TabsMatch, PatchesMatch, Settled, Matches

\* The steps of a tab when its PATCH has ended, or failed.
LEMMA AnswerKeeps ==
    ASSUME VersionInv, NEW c \in Writers,
           PatchSaved(c) \/ MergeSaved(c) \/ PatchRefused(c) \/ PatchLost(c)
    PROVE  VersionInv'
<1>0. /\ patch[c].pc # "none" /\ UNCHANGED <<draft, accept, translator, typed>>
      /\ ~(Waiting /\ c = Proposer)
  BY TabFacts DEF PatchSaved, MergeSaved, PatchRefused, PatchLost, server
<1>1. CASE PatchSaved(c)
  <2> DEFINE r == [tab[c] EXCEPT !.base = patch[c].answer, !.version = patch[c].seen]
  <2>1. FlushFrom(c, r) /\ patch[c].pc = "done"
    BY <1>1 DEF PatchSaved, FollowUp, Rebased
  <2>2. r \in TabRecords /\ r.base = patch[c].answer /\ r.version = patch[c].seen
    BY TabFacts DEF TabRecords, PatchRecords
  <2> HIDE DEF r
  <2>3. Matches(r.version, r.base) /\ accept \in AcceptRecords
    BY <2>1, <2>2, TabFacts
  <2> QED  BY <1>0, <2>1, <2>2, <2>3, FlushStep DEF Waiting
<1>2. CASE MergeSaved(c)
  <2> DEFINE r == [tab[c] EXCEPT !.base = patch[c].answer, !.local = patch[c].answer, !.version = patch[c].seen]
  <2>1. tab' = [tab EXCEPT ![c] = WithStatus(r, "saved")] /\ patch' = [patch EXCEPT ![c] = NoPatch]
        /\ patch[c].pc = "done"
    BY <1>2 DEF MergeSaved, SetTab
  <2>2. r \in TabRecords /\ r.base = patch[c].answer /\ r.version = patch[c].seen
    BY TabFacts DEF TabRecords, PatchRecords
  <2> HIDE DEF r
  <2>3. /\ WithStatus(r, "saved") \in TabRecords
        /\ Matches(WithStatus(r, "saved").version, WithStatus(r, "saved").base)
    BY <2>1, <2>2, TabFacts, StatusOnly DEF Statuses
  <2>4. NoPatch \in PatchRecords /\ NoPatch.pc = "none" /\ accept \in AcceptRecords /\ typed' \in 0..MaxTyped
    BY <1>0, ConstantRecords, TabFacts DEF NoPatch
  <2> HIDE DEF NoPatch
  <2> QED  BY <1>0, <2>1, <2>3, <2>4, TabStep DEF Waiting
<1>3. CASE PatchRefused(c) \/ PatchLost(c)
  <2>1. PICK q \in TabRecords :
           /\ tab' = [tab EXCEPT ![c] = Kept(q)] /\ patch' = [patch EXCEPT ![c] = NoPatch]
           /\ q.base = tab[c].base /\ q.version = tab[c].version
    <3>1. /\ WithStatus(tab[c], "conflict") \in TabRecords
          /\ WithStatus(tab[c], "conflict").base = tab[c].base
          /\ WithStatus(tab[c], "conflict").version = tab[c].version
      BY TabFacts, StatusOnly DEF Statuses
    <3>2. /\ WithStatus(tab[c], "retrying") \in TabRecords
          /\ WithStatus(tab[c], "retrying").base = tab[c].base
          /\ WithStatus(tab[c], "retrying").version = tab[c].version
      BY TabFacts, StatusOnly DEF Statuses
    <3> DEFINE q == [WithStatus(tab[c], "retrying") EXCEPT !.retry = TRUE]
    <3>3. q \in TabRecords /\ q.base = tab[c].base /\ q.version = tab[c].version
      BY <3>2 DEF TabRecords
    <3>4. /\ patch' = [patch EXCEPT ![c] = NoPatch]
          /\ tab' = [tab EXCEPT ![c] = Kept(WithStatus(tab[c], "conflict"))] \/ tab' = [tab EXCEPT ![c] = Kept(q)]
      BY <1>3 DEF PatchRefused, PatchLost, SetTab
    <3> HIDE DEF q
    <3> QED  BY <3>1, <3>3, <3>4
  <2>2. Kept(q) \in TabRecords /\ Matches(Kept(q).version, Kept(q).base)
    <3>1. Matches(tab[c].version, tab[c].base) /\ Matches(0, EmptyText)
      BY TabFacts DEF VersionInv, Matches
    <3> QED  BY <2>1, <3>1, KeptTab
  <2>3. NoPatch \in PatchRecords /\ NoPatch.pc = "none" /\ accept \in AcceptRecords /\ typed' \in 0..MaxTyped
    BY <1>0, ConstantRecords, TabFacts DEF NoPatch
  <2> HIDE DEF NoPatch
  <2> QED  BY <1>0, <2>1, <2>2, <2>3, TabStep DEF Waiting
<1> QED  BY <1>1, <1>2, <1>3

\* The steps of a tab by its writer, its timers and the conflict dialog.
LEMMA WriterKeeps ==
    ASSUME VersionInv, "apply" \notin TypeDuring, NEW c \in Writers,
           \/ TimerFlush(c) \/ OpenTab(c) \/ LeaveTab(c) \/ Refetch(c) \/ ReloadLatest(c) \/ KeepMine(c)
           \/ \E p \in Paras : Type(c, p)
    PROVE  VersionInv'
<1>0. UNCHANGED <<draft, accept, translator>> /\ typed' \in 0..MaxTyped
  <2>1. /\ UNCHANGED <<draft, accept, translator>>
        /\ UNCHANGED typed \/ (typed' = typed + 1 /\ typed < MaxTyped)
    BY DEF TimerFlush, OpenTab, LeaveTab, Refetch, ReloadLatest, KeepMine, Type, server
  <2>2. typed \in 0..MaxTyped /\ MaxTyped \in Nat
    BY TabFacts, DraftAssumption
  <2> QED  BY <2>1, <2>2
<1>1. ASSUME NEW q \in TabRecords, tab' = [tab EXCEPT ![c] = q], UNCHANGED patch, Matches(q.version, q.base),
             \/ q.version = tab[c].version
             \/ patch[c].pc = "none",
             Waiting /\ c = Proposer => q.base = q.local
      PROVE  VersionInv'
  <2>1. patch' = [patch EXCEPT ![c] = patch[c]]
    BY <1>1 DEF VersionInv, RecordsOK
  <2>2. patch[c].pc \in {"sent", "read"} /\ ~patch[c].merge => patch[c].expected <= q.version
    BY <1>1, TabFacts
  <2> QED  BY <1>0, <1>1, <2>1, <2>2, TabFacts, TabStep DEF Waiting
<1>2. CASE TimerFlush(c)
  <2>1. CASE InFlight(c) \/ tab[c].status = "conflict"
    <3>1. PICK q \in TabRecords : /\ tab' = [tab EXCEPT ![c] = q] /\ q.base = tab[c].base
                                  /\ q.version = tab[c].version /\ q.local = tab[c].local
      <4> DEFINE a == [tab[c] EXCEPT !.debounce = FALSE]
      <4> DEFINE b == [tab[c] EXCEPT !.retry = FALSE]
      <4>1. /\ a \in TabRecords /\ a.base = tab[c].base /\ a.version = tab[c].version /\ a.local = tab[c].local
            /\ b \in TabRecords /\ b.base = tab[c].base /\ b.version = tab[c].version /\ b.local = tab[c].local
        BY TabFacts DEF TabRecords
      <4>2. tab' = [tab EXCEPT ![c] = a] \/ tab' = [tab EXCEPT ![c] = b]
        BY <1>2, <2>1 DEF TimerFlush, SetTab
      <4> HIDE DEF a, b
      <4> QED  BY <4>1, <4>2
    <3>2. UNCHANGED patch
      BY <1>2, <2>1 DEF TimerFlush
    <3>3. Matches(q.version, q.base)
      BY <3>1, TabFacts
    <3> QED  BY <1>1, <3>1, <3>2, <3>3, TabFacts
  <2>2. CASE ~(InFlight(c) \/ tab[c].status = "conflict")
    <3>1. FlushFrom(c, tab[c]) /\ UNCHANGED <<draft, translator, typed>>
      BY <1>2, <2>2 DEF TimerFlush, server
    <3> QED  BY <1>0, <3>1, TabFacts, FlushStep DEF Waiting
  <2> QED  BY <2>1, <2>2
<1>3. CASE OpenTab(c)
  <2> DEFINE q == [ClosedTab EXCEPT !.open = TRUE, !.base = draft.text, !.local = draft.text, !.version = draft.version]
  <2>1. tab' = [tab EXCEPT ![c] = q] /\ UNCHANGED patch
    BY <1>3 DEF OpenTab, SetTab
  <2>2. q \in TabRecords /\ q.base = draft.text /\ q.local = draft.text /\ q.version = draft.version
    BY TabFacts, ConstantRecords DEF ClosedTab, TabRecords
  <2> HIDE DEF q
  <2>3. Matches(q.version, q.base)
    BY <2>2, TabFacts
  <2>4. patch[c].pc \in {"sent", "read"} /\ ~patch[c].merge => patch[c].expected <= q.version
    BY <2>2, TabFacts DEF Matches, TabRecords, PatchRecords
  <2>5. patch' = [patch EXCEPT ![c] = patch[c]]
    BY <2>1 DEF VersionInv, RecordsOK
  <2> QED  BY <1>0, <2>1, <2>2, <2>3, <2>4, <2>5, TabFacts, TabStep DEF Waiting
<1>4. CASE LeaveTab(c)
  <2> DEFINE r == [tab[c] EXCEPT !.open = FALSE, !.left = TRUE, !.debounce = FALSE, !.retry = FALSE]
  <2>1. r \in TabRecords /\ r.base = tab[c].base /\ r.version = tab[c].version /\ r.local = tab[c].local
    BY TabFacts DEF TabRecords
  <2>2. /\ ~(Waiting /\ c = Proposer) /\ UNCHANGED typed
        /\ (tab' = [tab EXCEPT ![c] = r] /\ UNCHANGED patch) \/ FlushFrom(c, r)
    BY <1>4 DEF LeaveTab, SetTab, Accepting, Waiting, server
  <2> HIDE DEF r
  <2>3. Matches(r.version, r.base) /\ accept' \in AcceptRecords
    BY <1>0, <2>1, TabFacts
  <2>4. CASE FlushFrom(c, r)
    BY <1>0, <2>1, <2>2, <2>3, <2>4, FlushStep DEF Waiting
  <2>5. CASE tab' = [tab EXCEPT ![c] = r] /\ UNCHANGED patch
    BY <1>1, <2>1, <2>2, <2>3, <2>5
  <2> QED  BY <2>2, <2>4, <2>5
<1>5. CASE Refetch(c)
  <2> DEFINE q == [tab[c] EXCEPT !.shown = "conflict"]
  <2>1. q \in TabRecords /\ q.base = tab[c].base /\ q.version = tab[c].version /\ q.local = tab[c].local
    BY TabFacts DEF TabRecords, Statuses
  <2>2. tab' = [tab EXCEPT ![c] = q] /\ UNCHANGED patch
    BY <1>5 DEF Refetch, SetTab
  <2> HIDE DEF q
  <2> QED  BY <1>1, <2>1, <2>2, TabFacts
<1>6. ASSUME tab' = [tab EXCEPT ![c] = Reset(tab[c], draft.text, draft.version)], UNCHANGED patch, ~InFlight(c)
      PROVE  VersionInv'
  <2>1. /\ Reset(tab[c], draft.text, draft.version) \in TabRecords
        /\ Reset(tab[c], draft.text, draft.version).base = draft.text
        /\ Reset(tab[c], draft.text, draft.version).local = draft.text
        /\ Reset(tab[c], draft.text, draft.version).version = draft.version
    BY TabFacts, ResetTo
  <2>2. patch[c].pc = "none" /\ Matches(draft.version, draft.text)
    BY <1>6, TabFacts DEF InFlight
  <2> QED  BY <1>1, <1>6, <2>1, <2>2
<1>7. CASE ReloadLatest(c)
  BY <1>6, <1>7 DEF ReloadLatest, SetTab
<1>8. CASE KeepMine(c)
  <2>1. CASE ~Dirty(c)
    BY <1>6, <1>8, <2>1 DEF KeepMine, SetTab
  <2>2. CASE Dirty(c)
    <3> DEFINE r == [tab[c] EXCEPT !.debounce = FALSE]
    <3> DEFINE ops == Diff(tab[c].base, tab[c].local)
    <3> DEFINE u == [NoPatch EXCEPT !.pc = "sent", !.merge = TRUE, !.expected = draft.version, !.ops = ops]
    <3>1. tab' = [tab EXCEPT ![c] = WithStatus(r, "saving")] /\ patch' = [patch EXCEPT ![c] = u]
      BY <1>8, <2>2 DEF KeepMine, SetTab, SendPatch
    <3>2. r \in TabRecords /\ r.base = tab[c].base /\ r.version = tab[c].version
      BY TabFacts DEF TabRecords
    <3>3. /\ WithStatus(r, "saving") \in TabRecords
          /\ Matches(WithStatus(r, "saving").version, WithStatus(r, "saving").base)
      <4> HIDE DEF r
      <4> QED  BY <3>2, TabFacts, StatusOnly DEF Statuses
    <3>4. ops \in SUBSET [para : AllParas, text : 0..AiText]
      <4>1. tab[c].base \in Texts /\ tab[c].local \in Texts
        BY TabFacts DEF TabRecords
      <4> QED  BY <4>1, DiffOps
    <3> HIDE DEF r, ops
    <3>5. u \in PatchRecords /\ u.pc = "sent" /\ u.merge
      BY <3>4, TabFacts, ConstantRecords DEF NoPatch, PatchRecords
    <3>6. ~(Waiting /\ c = Proposer) /\ accept' \in AcceptRecords
      BY <1>0, <2>2, TabFacts DEF Dirty
    <3> HIDE DEF u
    <3> QED  BY <1>0, <3>1, <3>3, <3>5, <3>6, TabStep DEF Waiting
  <2> QED  BY <2>1, <2>2
<1>9. ASSUME NEW p \in Paras, Type(c, p) PROVE VersionInv'
  <2>1. PICK text \in 0..AiText, s \in Statuses :
           tab' = [tab EXCEPT ![c] = WithStatus([tab[c] EXCEPT !.local[p] = text, !.debounce = TRUE], s)]
    <3>1. PICK text \in {typed + 1} \cup (IF tab[c].local[p] = NoPara THEN {} ELSE {NoPara}) :
             tab' = [tab EXCEPT ![c] = WithStatus([tab[c] EXCEPT !.local[p] = text, !.debounce = TRUE],
                                                  IF InFlight(c) THEN "saving" ELSE "unsaved")]
      BY <1>9 DEF Type, SetTab
    <3>2. typed < MaxTyped /\ typed \in 0..MaxTyped
      BY <1>9, TabFacts DEF Type
    <3>3. text \in 0..AiText
      BY <3>1, <3>2, DraftAssumption DEF AiText, NoPara
    <3>4. (IF InFlight(c) THEN "saving" ELSE "unsaved") \in Statuses
      BY DEF Statuses
    <3> QED  BY <3>1, <3>3, <3>4
  <2> DEFINE r == [tab[c] EXCEPT !.local[p] = text, !.debounce = TRUE]
  <2>2. r \in TabRecords /\ r.base = tab[c].base /\ r.version = tab[c].version
    <3>1. [tab[c].local EXCEPT ![p] = text] \in Texts
      BY TabFacts DEF TabRecords, Texts
    <3> QED  BY <3>1, TabFacts DEF TabRecords
  <2>3. tab' = [tab EXCEPT ![c] = WithStatus(r, s)]
    BY <2>1
  <2> HIDE DEF r
  <2>4. /\ WithStatus(r, s) \in TabRecords /\ WithStatus(r, s).version = tab[c].version
        /\ Matches(WithStatus(r, s).version, WithStatus(r, s).base)
    BY <2>2, TabFacts, StatusOnly
  <2>5. ~(Waiting /\ c = Proposer) /\ UNCHANGED patch
    BY <1>9 DEF Type, Accepting, Waiting
  <2> QED  BY <1>1, <2>3, <2>4, <2>5
<1> QED  BY <1>2, <1>3, <1>4, <1>5, <1>7, <1>8, <1>9

\* The steps of the page that accepts the AI result.
LEMMA AcceptKeeps ==
    ASSUME VersionInv, Accept \/ Settle \/ Accepted \/ AcceptFails
    PROVE  VersionInv'
<1>0. Proposer \in Writers /\ UNCHANGED <<draft, translator, typed>>
  BY DraftAssumption DEF Accept, Settle, Accepted, AcceptFails, server
<1>1. ASSUME UNCHANGED <<tab, patch>>, accept' \in AcceptRecords, ~Waiting' PROVE VersionInv'
  <2>1. patch' = [patch EXCEPT ![Proposer] = patch[Proposer]] /\ accept'.pc # "done"
    BY <1>0, <1>1 DEF VersionInv, RecordsOK, Waiting
  <2> QED  BY <1>0, <1>1, <2>1, TabFacts, CallStep
<1>2. CASE Accept
  <2>1. accept' \in AcceptRecords /\ ~Waiting' /\ UNCHANGED <<tab, patch>>
    BY <1>2, ConstantRecords DEF Accept, NoAccept, AcceptRecords, Waiting
  <2> QED  BY <1>1, <2>1
<1>3. CASE AcceptFails
  <2>1. accept' \in AcceptRecords /\ ~Waiting' /\ UNCHANGED <<tab, patch>>
    BY <1>3, ConstantRecords DEF AcceptFails, NoAccept, Waiting
  <2> QED  BY <1>1, <2>1
<1>4. CASE Settle
  <2>1. CASE tab[Proposer].status \in {"conflict", "retrying"}
    <3>1. accept' \in AcceptRecords /\ ~Waiting' /\ UNCHANGED <<tab, patch>>
      BY <1>4, <2>1, ConstantRecords DEF Settle, NoAccept, Waiting
    <3> QED  BY <1>1, <3>1
  <2>2. CASE tab[Proposer].status \notin {"conflict", "retrying"}
    <3>1. /\ FlushFrom(Proposer, tab[Proposer]) /\ accept.pc = "settle"
          /\ accept' = IF Dirty(Proposer) THEN accept ELSE [accept EXCEPT !.pc = "sent"]
      BY <1>4, <2>2 DEF Settle
    <3>2. accept' \in AcceptRecords /\ accept'.pc \in {"settle", "sent"}
      BY <1>0, <3>1, TabFacts DEF AcceptRecords
    <3>3. Waiting' => tab[Proposer].base = tab[Proposer].local
      BY <3>1 DEF Waiting, Dirty
    <3> QED  BY <1>0, <3>1, <3>2, <3>3, TabFacts, FlushStep
  <2> QED  BY <2>1, <2>2
<1>5. CASE Accepted
  <2> DEFINE q == Reset(tab[Proposer], accept.answer, accept.seen)
  <2>1. /\ tab' = [tab EXCEPT ![Proposer] = q] /\ UNCHANGED patch /\ accept.pc = "done"
        /\ accept' = [NoAccept EXCEPT !.pc = "over"]
    BY <1>5 DEF Accepted, SetTab
  <2>2. accept.answer \in Texts /\ accept.seen \in Nat /\ Matches(accept.seen, accept.answer) /\ Waiting
    BY <1>0, <2>1, TabFacts DEF AcceptRecords, VersionInv, Waiting
  <2>3. q \in TabRecords /\ Matches(q.version, q.base)
    BY <1>0, <2>2, TabFacts, ResetTo
  <2>4. accept' \in AcceptRecords /\ accept'.pc = "over" /\ ~Waiting'
    BY <2>1, ConstantRecords DEF NoAccept, AcceptRecords, Waiting
  <2>5. patch' = [patch EXCEPT ![Proposer] = patch[Proposer]] /\ patch[Proposer].pc = "none"
    BY <1>0, <2>1, <2>2, TabFacts DEF VersionInv, RecordsOK
  <2> HIDE DEF q
  <2> QED  BY <1>0, <2>1, <2>3, <2>4, <2>5, TabFacts, TabStep
<1> QED  BY <1>2, <1>3, <1>4, <1>5

LEMMA VersionStep ==
    ASSUME "apply" \notin TypeDuring
    PROVE  VersionInv /\ [DraftNext]_draftVars => VersionInv'
<1> SUFFICES ASSUME VersionInv, [DraftNext]_draftVars PROVE VersionInv'
  OBVIOUS
<1>1. CASE UNCHANGED draftVars
  BY <1>1 DEF draftVars, VersionInv, RecordsOK, Settled, Waiting, TabsMatch, PatchesMatch, Matches
<1>2. CASE Accept \/ AcceptStep
  BY <1>2, AcceptKeeps, ServerKeeps DEF AcceptStep
<1>3. CASE CreateDraft \/ ReadForTranslation \/ WriteTranslation
  BY <1>3, ServerKeeps
<1>4. ASSUME NEW c \in Writers, PatchStep(c) \/ PatchLost(c) PROVE VersionInv'
  BY <1>4, ServerKeeps, AnswerKeeps DEF PatchStep
<1>5. ASSUME NEW c \in Writers,
             \/ TimerFlush(c) \/ OpenTab(c) \/ LeaveTab(c) \/ Refetch(c) \/ ReloadLatest(c) \/ KeepMine(c)
             \/ \E p \in Paras : Type(c, p)
      PROVE  VersionInv'
  BY <1>5, WriterKeeps
<1> QED  BY <1>1, <1>2, <1>3, <1>4, <1>5 DEF DraftNext

\* Whoever else writes, a save changes only what its writer had seen, and the
\* translation only fills an empty draft (UpdateDraftParagraphs' fence), as
\* long as nothing is typed while an AI result is being applied.
THEOREM UpdatesAreSeen ==
    ASSUME "apply" \notin TypeDuring
    PROVE  DraftSpec => NoLostUpdate
<1> DEFINE Seen ==
       /\ \A c \in Writers : patch[c].pc = "read" /\ patch[c]'.pc = "done" /\ ~patch[c].merge =>
             \A p \in AllParas : draft'.text[p] # draft.text[p] => tab[c].base[p] = draft.text[p]
       /\ translator.pc = "write" /\ translator'.pc = "done" /\ draft' # draft => draft.text = EmptyText
<1>1. VersionInv /\ [DraftNext]_draftVars => [Seen]_draftVars
  <2> SUFFICES ASSUME VersionInv, DraftNext PROVE Seen
    OBVIOUS
  <2>1. ASSUME NEW c \in Writers, patch[c].pc = "read", patch[c]'.pc = "done", ~patch[c].merge,
               draft'.text # draft.text
        PROVE  tab[c].base = draft.text
    <3>1. CommitPatch(c) /\ Fenced(patch[c].seen)
      <4>0. patch \in [Writers -> PatchRecords] /\ patch[c] # patch'[c]
        BY <2>1 DEF VersionInv, RecordsOK
      <4>1. PICK d \in Writers : ReadForPatch(d) \/ CommitPatch(d)
        <5>1. \A d \in Writers : PatchSaved(d) \/ MergeSaved(d) \/ PatchRefused(d) \/ PatchLost(d) \/ TimerFlush(d)
                 \/ OpenTab(d) \/ LeaveTab(d) \/ Refetch(d) \/ ReloadLatest(d) \/ KeepMine(d)
                 \/ (\E p \in Paras : Type(d, p)) => UNCHANGED draft
          BY DEF PatchSaved, MergeSaved, PatchRefused, PatchLost, TimerFlush, OpenTab, LeaveTab, Refetch,
                 ReloadLatest, KeepMine, Type, server
        <5>2. Accept \/ AcceptStep \/ CreateDraft \/ ReadForTranslation \/ WriteTranslation
                 => UNCHANGED draft \/ UNCHANGED patch
          BY DEF Accept, AcceptStep, Settle, ReadForStep, CommitStep, Accepted, AcceptFails, CreateDraft,
                 ReadForTranslation, WriteTranslation, server
        <5> QED  BY <2>1, <4>0, <5>1, <5>2 DEF DraftNext, PatchStep
      <4>2. ~ReadForPatch(d)
        BY <2>1 DEF ReadForPatch, server
      <4>3. d = c
        BY <2>1, <4>0, <4>1, <4>2 DEF CommitPatch
      <4> QED  BY <2>1, <4>1, <4>2, <4>3 DEF CommitPatch
    <3>2. patch[c].seen <= tab[c].version /\ patch[c].seen = draft.version
      BY <2>1, <3>1 DEF VersionInv, PatchesMatch, Fenced
    <3>3. tab[c].version = draft.version
      BY <3>2, TabFacts DEF Matches, TabRecords
    <3> QED  BY <3>3, TabFacts DEF Matches
  <2>2. ASSUME translator.pc = "write", translator'.pc = "done", draft' # draft PROVE draft.text = EmptyText
    <3>1. WriteTranslation
      <4>1. \A c \in Writers :
               PatchStep(c) \/ TimerFlush(c) \/ OpenTab(c) \/ LeaveTab(c) \/ PatchLost(c) \/ Refetch(c)
               \/ ReloadLatest(c) \/ KeepMine(c) \/ (\E p \in Paras : Type(c, p)) => UNCHANGED translator
        BY DEF PatchStep, ReadForPatch, CommitPatch, PatchSaved, MergeSaved, PatchRefused, PatchLost, TimerFlush,
               OpenTab, LeaveTab, Refetch, ReloadLatest, KeepMine, Type
      <4>2. Accept \/ AcceptStep \/ CreateDraft => UNCHANGED translator
        BY DEF Accept, AcceptStep, Settle, ReadForStep, CommitStep, Accepted, AcceptFails, CreateDraft
      <4>3. ~ReadForTranslation
        BY <2>2 DEF ReadForTranslation
      <4> QED  BY <2>2, <4>1, <4>2, <4>3 DEF DraftNext
    <3>2. translator.seen = draft.version
      BY <2>2, <3>1 DEF WriteTranslation, Fenced
    <3> QED  BY <2>2, <3>2 DEF VersionInv, Matches
  <2> QED  BY <2>1, <2>2
<1>2. DraftSpec => []VersionInv
  BY VersionInit, VersionStep, PTL DEF DraftSpec
<1> QED  BY <1>1, <1>2, PTL DEF DraftSpec, NoLostUpdate

-----------------------------------------------------------------------------
(* Nothing typed is lost, one result is written once, the history is recent. *)

\* What a queue or an answer was based on has been stored.
TextsStored ==
    /\ TextOf(draft.text) \subseteq stored
    /\ \A c \in Writers : /\ TextOf(tab[c].base) \subseteq stored
                          /\ patch[c].pc = "done" => TextOf(patch[c].answer) \subseteq stored
    /\ accept.pc = "done" => TextOf(accept.answer) \subseteq stored

\* A merge sends, and then holds, every paragraph the editor has changed.
Holds(r, u) ==
    u.merge =>
      /\ u.pc = "sent" => u.ops = Diff(r.base, r.local)
      /\ u.pc \in {"read", "done"} => \A p \in AllParas : r.base[p] # r.local[p] => u.answer[p] = r.local[p]
MergesHold == \A c \in Writers : Holds(tab[c], patch[c])

\* A tab with a request was opened; it may have been left since.
Begun(r) == r.open \/ r.left
RequestsBegun ==
    /\ \A c \in Writers : InFlight(c) => Begun(tab[c])
    /\ accept.pc # "none" => Begun(tab[Proposer])

\* The only unit of work of a claim is its one application.
CountersOK ==
    /\ claimed \in BOOLEAN /\ applications = (IF claimed THEN 1 ELSE 0)
    /\ stored \subseteq 1..MaxTyped /\ givenUp \subseteq 0..AiText /\ draftFaults \in 0..MaxDraftFaults

\* Revisions have versions of their own, none newer than the draft; only the
\* one translation makes a version without a revision.
HistoryOK ==
    /\ revisions \subseteq [version : Nat, text : Texts] /\ IsFiniteSet(revisions)
    /\ Cardinality(revisions) <= RevisionsKept
    /\ \A r \in revisions : 1 <= r.version /\ r.version <= draft.version
    /\ \A q, r \in revisions : q.version = r.version => q = r
    /\ revisions # {} =>
          \E r \in revisions : \/ r.version = draft.version /\ r.text = draft.text
                               \/ translator.pc = "done" /\ r.version = draft.version - 1

LossInv == VersionInv /\ TextsStored /\ MergesHold /\ RequestsBegun /\ CountersOK /\ NoSilentLoss
FullDraftInv == LossInv /\ HistoryOK

LEMMA EmptyHasNoText == TextOf(EmptyText) = {}
BY DEF TextOf, EmptyText, NoPara

\* A step of one tab and its PATCH, the server left alone.
LEMMA TabLoses ==
    ASSUME LossInv, VersionInv', NEW c \in Writers, NEW q \in TabRecords, NEW u \in PatchRecords,
           tab' = [tab EXCEPT ![c] = q], patch' = [patch EXCEPT ![c] = u], UNCHANGED server,
           givenUp \subseteq givenUp', givenUp' \subseteq 0..AiText, draftFaults' \in 0..MaxDraftFaults,
           accept'.pc = "done" => accept' = accept,
           accept'.pc # "none" => accept.pc # "none" \/ (c = Proposer /\ q.open),
           TextOf(q.base) \subseteq stored,
           u.pc = "done" => u = patch[c], Holds(q, u), u.pc # "none" => Begun(q), Begun(tab[c]) => Begun(q),
           \A n \in 1..typed' : n \in 1..typed \/ n \in givenUp' \/ (q.open /\ n \in TextOf(q.local)),
           (tab[c].open \/ patch[c].pc # "none") =>
             \A n \in TextOf(tab[c].local) : \/ n \in stored \cup givenUp'
                                             \/ (q.open \/ u.pc # "none") /\ n \in TextOf(q.local)
    PROVE  LossInv'
<1>1. /\ tab \in [Writers -> TabRecords] /\ patch \in [Writers -> PatchRecords] /\ Proposer \in Writers
      /\ tab'[c] = q /\ patch'[c] = u /\ \A d \in Writers \ {c} : tab'[d] = tab[d] /\ patch'[d] = patch[d]
      /\ UNCHANGED <<draft, claimed, stored, applications>>
  BY DraftAssumption DEF LossInv, VersionInv, RecordsOK, server
<1>2. TextsStored'
  <2>1. TextOf(draft'.text) \subseteq stored'
    BY <1>1 DEF LossInv, TextsStored
  <2>2. ASSUME NEW d \in Writers
        PROVE  TextOf(tab'[d].base) \subseteq stored' /\ (patch'[d].pc = "done" => TextOf(patch'[d].answer) \subseteq stored')
    <3>1. CASE d = c
      BY <1>1, <3>1 DEF LossInv, TextsStored
    <3>2. CASE d # c
      BY <1>1, <3>2 DEF LossInv, TextsStored
    <3> QED  BY <3>1, <3>2
  <2>3. accept'.pc = "done" => TextOf(accept'.answer) \subseteq stored'
    BY <1>1 DEF LossInv, TextsStored
  <2> QED  BY <2>1, <2>2, <2>3 DEF TextsStored
<1>3. MergesHold'
  <2> SUFFICES ASSUME NEW d \in Writers PROVE Holds(tab'[d], patch'[d])
    BY DEF MergesHold, Holds
  <2> QED  BY <1>1 DEF LossInv, MergesHold
<1>4. RequestsBegun'
  BY <1>1 DEF LossInv, RequestsBegun, InFlight, Begun
<1>5. CountersOK'
  BY <1>1 DEF LossInv, CountersOK
<1>6. NoSilentLoss'
  <2> SUFFICES ASSUME NEW n \in 1..typed', n \notin stored' \cup givenUp'
               PROVE  \E d \in Writers : (tab'[d].open \/ patch'[d].pc # "none") /\ n \in TextOf(tab'[d].local)
    BY DEF NoSilentLoss, InFlight, TextOf
  <2>1. CASE n \notin 1..typed
    BY <1>1, <2>1
  <2>2. CASE n \in 1..typed
    <3>1. PICK d \in Writers : (tab[d].open \/ patch[d].pc # "none") /\ n \in TextOf(tab[d].local)
      BY <1>1, <2>2 DEF LossInv, NoSilentLoss, InFlight
    <3>2. CASE d = c
      BY <1>1, <3>1, <3>2
    <3>3. CASE d # c
      BY <1>1, <3>1, <3>3
    <3> QED  BY <3>2, <3>3
  <2> QED  BY <2>1, <2>2
<1> QED  BY <1>2, <1>3, <1>4, <1>5, <1>6 DEF LossInv

\* A step of the server: more is stored, the tabs stay as they are.
LEMMA ServerLoses ==
    ASSUME LossInv, VersionInv', UNCHANGED <<tab, typed, givenUp>>, CountersOK',
           stored \subseteq stored', TextOf(draft'.text) \subseteq stored',
           \A c \in Writers : \/ patch'[c] = patch[c]
                              \/ /\ InFlight(c) /\ patch'[c].pc # "none" /\ Holds(tab[c], patch'[c])
                                 /\ patch'[c].pc = "done" => TextOf(patch'[c].answer) \subseteq stored',
           \/ accept' = accept
           \/ accept.pc # "none" /\ (accept'.pc = "done" => TextOf(accept'.answer) \subseteq stored')
    PROVE  LossInv'
<1>1. TextsStored'
  BY DEF LossInv, TextsStored, TextOf
<1>2. MergesHold'
  <2> SUFFICES ASSUME NEW d \in Writers PROVE Holds(tab[d], patch'[d])
    BY DEF MergesHold, Holds
  <2> QED  BY DEF LossInv, MergesHold
<1>3. RequestsBegun'
  BY DEF LossInv, RequestsBegun, InFlight, Begun
<1>4. NoSilentLoss'
  <2>1. \A d \in Writers : patch[d].pc # "none" => patch'[d].pc # "none"
    BY DEF InFlight
  <2> SUFFICES ASSUME NEW n \in 1..typed, n \notin stored' \cup givenUp
               PROVE  \E d \in Writers : (tab[d].open \/ patch'[d].pc # "none") /\ n \in TextOf(tab[d].local)
    BY DEF NoSilentLoss, InFlight, TextOf
  <2>2. PICK d \in Writers : (tab[d].open \/ patch[d].pc # "none") /\ n \in TextOf(tab[d].local)
    BY DEF LossInv, NoSilentLoss, InFlight
  <2> QED  BY <2>1, <2>2
<1> QED  BY <1>1, <1>2, <1>3, <1>4 DEF LossInv

\* A status changes neither the texts nor whether the tab is open.
SameTab(q, r) == q.base = r.base /\ q.local = r.local /\ q.open = r.open /\ q.left = r.left
Forgotten(q) == q.base = EmptyText /\ ~q.open /\ q.left

LEMMA StatusIs ==
    ASSUME NEW r \in TabRecords, NEW s \in Statuses
    PROVE  WithStatus(r, s) \in TabRecords /\ SameTab(WithStatus(r, s), r)
BY DEF WithStatus, TabRecords, SameTab

LEMMA KeptIs ==
    ASSUME NEW r \in TabRecords
    PROVE  /\ Kept(r) \in TabRecords
           /\ IF r.open THEN Kept(r) = r ELSE Forgotten(Kept(r))
BY ConstantRecords DEF Kept, ClosedTab, TabRecords, Forgotten

LEMMA NoPatchIs == NoPatch \in PatchRecords /\ NoPatch.pc = "none" /\ ~NoPatch.merge
BY ConstantRecords DEF NoPatch

\* flush sends what is to be saved, or there is nothing to be saved.
LEMMA FlushHolds ==
    ASSUME RecordsOK, NEW c \in Writers, NEW r \in TabRecords, FlushFrom(c, r)
    PROVE  \E q \in TabRecords, u \in PatchRecords :
              /\ tab' = [tab EXCEPT ![c] = q] /\ patch' = [patch EXCEPT ![c] = u]
              /\ ~u.merge /\ u.pc \in {"none", "sent"}
              /\ \/ SameTab(q, r) /\ (r.open \/ u.pc = "sent")
                 \/ r.base = r.local /\ Forgotten(q) /\ u.pc = "none"
<1> DEFINE s == [r EXCEPT !.debounce = FALSE, !.retry = FALSE]
<1>1. s \in TabRecords /\ SameTab(s, r)
  BY DEF TabRecords, SameTab
<1>2. CASE r.base = r.local
  <2> DEFINE a == WithStatus(s, "saved")
  <2>1. tab' = [tab EXCEPT ![c] = Kept(a)] /\ patch' = [patch EXCEPT ![c] = NoPatch]
    BY <1>2 DEF FlushFrom, SetTab
  <2> HIDE DEF s
  <2>2. a \in TabRecords /\ SameTab(a, s)
    BY <1>1, StatusIs DEF Statuses
  <2> HIDE DEF a, NoPatch
  <2>3. Kept(a) \in TabRecords /\ (IF a.open THEN Kept(a) = a ELSE Forgotten(Kept(a)))
    BY <2>2, KeptIs
  <2> QED  BY <1>1, <1>2, <2>1, <2>2, <2>3, NoPatchIs DEF SameTab
<1>3. CASE r.base # r.local
  <2> DEFINE ops == Diff(r.base, r.local)
             u == [NoPatch EXCEPT !.pc = "sent", !.merge = FALSE, !.expected = r.version, !.ops = ops]
             a == WithStatus(s, "saving")
  <2>1. tab' = [tab EXCEPT ![c] = a] /\ patch' = [patch EXCEPT ![c] = u]
    BY <1>3 DEF FlushFrom, SetTab, SendPatch
  <2>2. r.base \in Texts /\ r.local \in Texts /\ r.version \in Nat
    BY DEF TabRecords
  <2>3. ops \in SUBSET [para : AllParas, text : 0..AiText]
    BY <2>2, DiffOps
  <2> HIDE DEF ops, s
  <2>4. u \in PatchRecords /\ u.pc = "sent" /\ ~u.merge
    BY <2>2, <2>3, ConstantRecords DEF NoPatch, PatchRecords
  <2>5. a \in TabRecords /\ SameTab(a, s)
    BY <1>1, StatusIs DEF Statuses
  <2> HIDE DEF u, a
  <2> QED  BY <1>1, <2>1, <2>4, <2>5 DEF SameTab
<1> QED  BY <1>2, <1>3

\* What the invariant says of one tab.
LEMMA LossFacts ==
    ASSUME LossInv, NEW c \in Writers
    PROVE  /\ VersionInv /\ RecordsOK /\ tab[c] \in TabRecords /\ patch[c] \in PatchRecords /\ accept \in AcceptRecords
           /\ draft.text \in Texts /\ draft.version \in Nat /\ typed \in 0..MaxTyped
           /\ TextOf(draft.text) \subseteq stored /\ TextOf(tab[c].base) \subseteq stored
           /\ patch[c].pc = "done" => TextOf(patch[c].answer) \subseteq stored
           /\ Holds(tab[c], patch[c]) /\ (InFlight(c) => Begun(tab[c]))
           /\ accept.pc # "none" => Begun(tab[Proposer])
           /\ givenUp \subseteq 0..AiText /\ draftFaults \in 0..MaxDraftFaults /\ stored \subseteq 1..MaxTyped
BY DEF LossInv, VersionInv, RecordsOK, TextsStored, MergesHold, RequestsBegun, CountersOK

\* A flush loses nothing: a queue is forgotten only when it is stored.
LEMMA FlushLoses ==
    ASSUME LossInv, VersionInv', NEW c \in Writers, NEW r \in TabRecords, FlushFrom(c, r),
           UNCHANGED <<server, typed, givenUp, draftFaults>>,
           accept'.pc = "done" => accept' = accept, accept'.pc # "none" => accept.pc # "none",
           TextOf(r.base) \subseteq stored, r.local = tab[c].local, Begun(r)
    PROVE  LossInv'
<1>1. PICK q \in TabRecords, u \in PatchRecords :
              /\ tab' = [tab EXCEPT ![c] = q] /\ patch' = [patch EXCEPT ![c] = u]
              /\ ~u.merge /\ u.pc \in {"none", "sent"}
              /\ \/ SameTab(q, r) /\ (r.open \/ u.pc = "sent")
                 \/ r.base = r.local /\ Forgotten(q) /\ u.pc = "none"
  BY FlushHolds, LossFacts
<1>2. TextOf(q.base) \subseteq stored /\ Begun(q) /\ Holds(q, u) /\ u.pc # "done"
  BY <1>1, EmptyHasNoText DEF SameTab, Forgotten, Begun, Holds
<1>3. \A n \in TextOf(tab[c].local) : \/ n \in stored \cup givenUp'
                                      \/ (q.open \/ u.pc # "none") /\ n \in TextOf(q.local)
  <2>1. CASE SameTab(q, r) /\ (r.open \/ u.pc = "sent")
    <3>1. q.open \/ u.pc # "none"
      BY <1>1, <2>1 DEF SameTab
    <3>2. TextOf(q.local) = TextOf(tab[c].local)
      BY <2>1 DEF SameTab
    <3> QED  BY <3>1, <3>2
  <2>2. CASE r.base = r.local
    <3>1. TextOf(tab[c].local) \subseteq stored
      BY <2>2
    <3> QED  BY <3>1
  <2> QED  BY <1>1, <2>1, <2>2
<1>4. givenUp \subseteq givenUp' /\ givenUp' \subseteq 0..AiText /\ draftFaults' \in 0..MaxDraftFaults
      /\ \A n \in 1..typed' : n \in 1..typed
  BY LossFacts
<1> QED  BY <1>1, <1>2, <1>3, <1>4, TabLoses

\* The end of a PATCH.
LEMMA AnswerLoses ==
    ASSUME LossInv, VersionInv', NEW c \in Writers,
           PatchSaved(c) \/ MergeSaved(c) \/ PatchRefused(c) \/ PatchLost(c)
    PROVE  LossInv'
<1>0. /\ patch[c].pc # "none" /\ Begun(tab[c]) /\ tab[c] \in TabRecords /\ patch[c] \in PatchRecords
      /\ UNCHANGED <<server, accept, typed>> /\ TextOf(tab[c].base) \subseteq stored
      /\ MaxDraftFaults \in Nat /\ draftFaults \in 0..MaxDraftFaults /\ givenUp \subseteq 0..AiText
  BY LossFacts, DraftAssumption DEF PatchSaved, MergeSaved, PatchRefused, PatchLost, InFlight
<1>1. CASE PatchSaved(c)
  <2> DEFINE r == [tab[c] EXCEPT !.base = patch[c].answer, !.version = patch[c].seen]
  <2>1. FlushFrom(c, r) /\ patch[c].pc = "done" /\ UNCHANGED <<server, typed, givenUp, draftFaults>>
    BY <1>1 DEF PatchSaved, FollowUp, Rebased
  <2>2. /\ r \in TabRecords /\ r.base = patch[c].answer /\ r.local = tab[c].local
        /\ r.open = tab[c].open /\ r.left = tab[c].left
    BY <1>0 DEF TabRecords, PatchRecords
  <2> HIDE DEF r
  <2>3. TextOf(r.base) \subseteq stored /\ Begun(r)
    BY <1>0, <2>1, <2>2, LossFacts DEF Begun
  <2> QED  BY <1>0, <2>1, <2>2, <2>3, FlushLoses
<1>2. CASE MergeSaved(c)
  <2> DEFINE ans == patch[c].answer
             r == [tab[c] EXCEPT !.base = ans, !.local = ans, !.version = patch[c].seen]
             q == WithStatus(r, "saved")
  <2>1. /\ tab' = [tab EXCEPT ![c] = q] /\ patch' = [patch EXCEPT ![c] = NoPatch]
        /\ patch[c].pc = "done" /\ patch[c].merge /\ UNCHANGED <<givenUp, draftFaults>>
    BY <1>2 DEF MergeSaved, SetTab
  <2>2. r \in TabRecords /\ r.base = ans /\ r.local = ans /\ r.open = tab[c].open /\ r.left = tab[c].left
    BY <1>0 DEF TabRecords, PatchRecords
  <2> HIDE DEF r
  <2>3. q \in TabRecords /\ SameTab(q, r)
    BY <2>2, StatusIs DEF Statuses
  <2> HIDE DEF q
  <2>4. TextOf(ans) \subseteq stored /\ \A p \in AllParas : tab[c].base[p] # tab[c].local[p] => ans[p] = tab[c].local[p]
    BY <2>1, LossFacts DEF Holds
  <2>5. TextOf(tab[c].local) \subseteq stored
    BY <1>0, <2>4 DEF TextOf
  <2>6. TextOf(q.base) \subseteq stored /\ (Begun(tab[c]) => Begun(q))
    BY <2>2, <2>3, <2>4 DEF SameTab, Begun
  <2>7. Holds(q, NoPatch) /\ \A n \in 1..typed' : n \in 1..typed
    BY <1>0, NoPatchIs DEF Holds
  <2> HIDE DEF ans, NoPatch
  <2>8. givenUp \subseteq givenUp' /\ givenUp' \subseteq 0..AiText /\ draftFaults' \in 0..MaxDraftFaults
    BY <1>0, <2>1
  <2> QED  BY <1>0, <2>1, <2>3, <2>5, <2>6, <2>7, <2>8, NoPatchIs, TabLoses
<1>3. CASE PatchRefused(c) \/ PatchLost(c)
  <2>1. PICK q \in TabRecords :
           /\ tab' = [tab EXCEPT ![c] = Kept(q)] /\ patch' = [patch EXCEPT ![c] = NoPatch] /\ SameTab(q, tab[c])
    <3> DEFINE a == WithStatus(tab[c], "conflict")
               b == WithStatus(tab[c], "retrying")
               d == [b EXCEPT !.retry = TRUE]
    <3>1. a \in TabRecords /\ SameTab(a, tab[c]) /\ b \in TabRecords /\ SameTab(b, tab[c])
      BY <1>0, StatusIs DEF Statuses
    <3>2. /\ patch' = [patch EXCEPT ![c] = NoPatch]
          /\ tab' = [tab EXCEPT ![c] = Kept(a)] \/ tab' = [tab EXCEPT ![c] = Kept(d)]
      BY <1>3 DEF PatchRefused, PatchLost, SetTab
    <3> HIDE DEF a, b
    <3>3. d \in TabRecords /\ SameTab(d, tab[c])
      BY <3>1 DEF TabRecords, SameTab
    <3> HIDE DEF d
    <3> QED  BY <3>1, <3>2, <3>3
  <2> DEFINE k == Kept(q)
  <2>2. k \in TabRecords /\ (IF q.open THEN k = q ELSE Forgotten(k))
    BY KeptIs
  <2>3. /\ givenUp' = IF tab[c].open THEN givenUp ELSE givenUp \cup TextOf(tab[c].local)
        /\ UNCHANGED draftFaults \/ (draftFaults > 0 /\ draftFaults' = draftFaults - 1)
    BY <1>3 DEF PatchRefused, PatchLost, LoseCall
  <2>4. tab' = [tab EXCEPT ![c] = k]
    BY <2>1
  <2> HIDE DEF k, NoPatch
  <2>5. draftFaults' \in 0..MaxDraftFaults
    BY <1>0, <2>3
  <2>6. TextOf(tab[c].local) \subseteq 0..AiText
    BY DraftAssumption DEF TextOf, AiText
  <2>7. givenUp \subseteq givenUp' /\ givenUp' \subseteq 0..AiText
    BY <1>0, <2>3, <2>6
  <2>8. TextOf(k.base) \subseteq stored /\ Begun(k)
    BY <1>0, <2>1, <2>2, EmptyHasNoText DEF SameTab, Forgotten, Begun
  <2>9. CASE tab[c].open
    <3>1. k.open /\ TextOf(k.local) = TextOf(tab[c].local)
      BY <2>1, <2>2, <2>9 DEF SameTab
    <3>2. Holds(k, NoPatch) /\ \A n \in 1..typed' : n \in 1..typed
      BY <1>0, NoPatchIs DEF Holds
    <3> QED  BY <1>0, <2>1, <2>2, <2>4, <2>5, <2>7, <2>8, <3>1, <3>2, NoPatchIs, TabLoses
  <2>10. CASE ~tab[c].open
    <3>1. TextOf(tab[c].local) \subseteq givenUp'
      BY <2>3, <2>10
    <3>2. Holds(k, NoPatch) /\ \A n \in 1..typed' : n \in 1..typed
      BY <1>0, NoPatchIs DEF Holds
    <3> QED  BY <1>0, <2>1, <2>2, <2>4, <2>5, <2>7, <2>8, <3>1, <3>2, NoPatchIs, TabLoses
  <2> QED  BY <2>9, <2>10
<1> QED  BY <1>1, <1>2, <1>3

\* A writer's step that leaves the PATCH alone.
LEMMA WriterStep ==
    ASSUME LossInv, VersionInv', NEW c \in Writers, NEW q \in TabRecords,
           tab' = [tab EXCEPT ![c] = q], UNCHANGED <<server, patch, accept, typed, draftFaults>>,
           givenUp \subseteq givenUp', givenUp' \subseteq 0..AiText,
           TextOf(q.base) \subseteq stored, Holds(q, patch[c]), Begun(q),
           \/ (q.open \/ patch[c].pc # "none") /\ TextOf(q.local) = TextOf(tab[c].local)
           \/ TextOf(tab[c].local) \subseteq stored \cup givenUp'
           \/ ~tab[c].open /\ patch[c].pc = "none"
    PROVE  LossInv'
<1>1. patch' = [patch EXCEPT ![c] = patch[c]] /\ patch[c] \in PatchRecords /\ draftFaults' \in 0..MaxDraftFaults
      /\ \A n \in 1..typed' : n \in 1..typed
  BY LossFacts DEF RecordsOK
<1> QED  BY <1>1, TabLoses

LEMMA WriterLoses ==
    ASSUME LossInv, VersionInv', NEW c \in Writers,
           TimerFlush(c) \/ OpenTab(c) \/ LeaveTab(c) \/ Refetch(c) \/ ReloadLatest(c) \/ KeepMine(c)
    PROVE  LossInv'
<1>0. /\ UNCHANGED <<server, accept, typed, draftFaults>> /\ tab[c] \in TabRecords /\ patch[c] \in PatchRecords
      /\ TextOf(tab[c].base) \subseteq stored /\ TextOf(draft.text) \subseteq stored /\ Holds(tab[c], patch[c])
      /\ draft.text \in Texts /\ draft.version \in Nat /\ givenUp \subseteq 0..AiText
      /\ (InFlight(c) => Begun(tab[c]))
  BY LossFacts DEF TimerFlush, OpenTab, LeaveTab, Refetch, ReloadLatest, KeepMine
<1>1. ASSUME NEW q \in TabRecords, tab' = [tab EXCEPT ![c] = q], UNCHANGED <<patch, givenUp>>,
             q.base = tab[c].base, q.local = tab[c].local, Begun(q), q.open \/ patch[c].pc # "none"
      PROVE  LossInv'
  <2>1. Holds(q, patch[c]) /\ TextOf(q.base) \subseteq stored /\ TextOf(q.local) = TextOf(tab[c].local)
    BY <1>0, <1>1 DEF Holds
  <2> QED  BY <1>0, <1>1, <2>1, WriterStep
<1>2. CASE TimerFlush(c)
  <2>1. tab[c].open /\ UNCHANGED givenUp
    BY <1>2 DEF TimerFlush
  <2>2. CASE InFlight(c) \/ tab[c].status = "conflict"
    <3> DEFINE a == [tab[c] EXCEPT !.debounce = FALSE]
               b == [tab[c] EXCEPT !.retry = FALSE]
    <3>1. /\ a \in TabRecords /\ a.base = tab[c].base /\ a.local = tab[c].local /\ a.open = tab[c].open
          /\ b \in TabRecords /\ b.base = tab[c].base /\ b.local = tab[c].local /\ b.open = tab[c].open
      BY <1>0 DEF TabRecords
    <3>2. (tab' = [tab EXCEPT ![c] = a] \/ tab' = [tab EXCEPT ![c] = b]) /\ UNCHANGED patch
      BY <1>2, <2>2 DEF TimerFlush, SetTab
    <3> HIDE DEF a, b
    <3>3. a.open /\ b.open /\ Begun(a) /\ Begun(b)
      BY <2>1, <3>1 DEF Begun
    <3> QED  BY <1>1, <2>1, <3>1, <3>2, <3>3
  <2>3. CASE ~(InFlight(c) \/ tab[c].status = "conflict")
    <3>1. FlushFrom(c, tab[c]) /\ Begun(tab[c])
      BY <1>2, <2>1, <2>3 DEF TimerFlush, Begun
    <3> QED  BY <1>0, <2>1, <3>1, FlushLoses
  <2> QED  BY <2>2, <2>3
<1>3. CASE OpenTab(c)
  <2> DEFINE q == [ClosedTab EXCEPT !.open = TRUE, !.base = draft.text, !.local = draft.text, !.version = draft.version]
  <2>1. /\ tab' = [tab EXCEPT ![c] = q] /\ UNCHANGED <<patch, givenUp>> /\ ~tab[c].open /\ ~tab[c].left
    BY <1>3 DEF OpenTab, SetTab
  <2>2. q \in TabRecords /\ q.base = draft.text /\ q.open
    BY <1>0, ConstantRecords DEF ClosedTab, TabRecords
  <2> HIDE DEF q
  <2>3. patch[c].pc = "none"
    BY <1>0, <2>1 DEF InFlight, Begun
  <2>4. Holds(q, patch[c]) /\ Begun(q) /\ TextOf(q.base) \subseteq stored
    BY <1>0, <2>2, <2>3 DEF Holds, Begun
  <2> QED  BY <1>0, <2>1, <2>2, <2>3, <2>4, WriterStep
<1>4. CASE LeaveTab(c)
  <2> DEFINE r == [tab[c] EXCEPT !.open = FALSE, !.left = TRUE, !.debounce = FALSE, !.retry = FALSE]
  <2>1. r \in TabRecords /\ r.base = tab[c].base /\ r.local = tab[c].local /\ r.left
    BY <1>0 DEF TabRecords
  <2>2. /\ UNCHANGED givenUp
        /\ (tab' = [tab EXCEPT ![c] = r] /\ UNCHANGED patch /\ patch[c].pc # "none") \/ FlushFrom(c, r)
    BY <1>4 DEF LeaveTab, SetTab, InFlight
  <2> HIDE DEF r
  <2>3. Begun(r) /\ TextOf(r.base) \subseteq stored
    BY <1>0, <2>1 DEF Begun
  <2>4. CASE FlushFrom(c, r)
    BY <1>0, <2>1, <2>2, <2>3, <2>4, FlushLoses
  <2>5. CASE tab' = [tab EXCEPT ![c] = r] /\ UNCHANGED patch /\ patch[c].pc # "none"
    BY <1>1, <2>1, <2>2, <2>3, <2>5
  <2> QED  BY <2>2, <2>4, <2>5
<1>5. CASE Refetch(c)
  <2> DEFINE q == [tab[c] EXCEPT !.shown = "conflict"]
  <2>1. q \in TabRecords /\ q.base = tab[c].base /\ q.local = tab[c].local /\ q.open = tab[c].open
    BY <1>0 DEF TabRecords, Statuses
  <2>2. tab' = [tab EXCEPT ![c] = q] /\ UNCHANGED <<patch, givenUp>> /\ tab[c].open
    BY <1>5 DEF Refetch, SetTab
  <2> HIDE DEF q
  <2>3. q.open /\ Begun(q)
    BY <2>1, <2>2 DEF Begun
  <2> QED  BY <1>1, <2>1, <2>2, <2>3
<1>6. ASSUME tab' = [tab EXCEPT ![c] = Reset(tab[c], draft.text, draft.version)], UNCHANGED patch, ~InFlight(c),
             givenUp \subseteq givenUp', givenUp' \subseteq 0..AiText, tab[c].open,
             TextOf(tab[c].local) \subseteq stored \cup givenUp'
      PROVE  LossInv'
  <2> DEFINE r == [tab[c] EXCEPT !.debounce = FALSE, !.base = draft.text, !.local = draft.text, !.version = draft.version]
             q == WithStatus(r, "saved")
  <2>1. r \in TabRecords /\ r.base = draft.text /\ r.open = tab[c].open
    BY <1>0 DEF TabRecords
  <2>2. tab' = [tab EXCEPT ![c] = q]
    BY <1>6 DEF Reset
  <2> HIDE DEF r
  <2>3. q \in TabRecords /\ SameTab(q, r)
    BY <2>1, StatusIs DEF Statuses
  <2> HIDE DEF q
  <2>4. TextOf(q.base) \subseteq stored /\ Begun(q) /\ Holds(q, patch[c])
    BY <1>0, <1>6, <2>1, <2>3 DEF SameTab, Begun, Holds, InFlight
  <2> QED  BY <1>0, <1>6, <2>2, <2>3, <2>4, WriterStep
<1>7. CASE ReloadLatest(c)
  <2>1. TextOf(tab[c].local) \subseteq 0..AiText
    BY DraftAssumption DEF TextOf, AiText
  <2>2. /\ tab[c].open /\ ~InFlight(c) /\ UNCHANGED patch /\ givenUp' = givenUp \cup TextOf(tab[c].local)
        /\ tab' = [tab EXCEPT ![c] = Reset(tab[c], draft.text, draft.version)]
    BY <1>7 DEF ReloadLatest, SetTab
  <2>3. givenUp \subseteq givenUp' /\ givenUp' \subseteq 0..AiText /\ TextOf(tab[c].local) \subseteq stored \cup givenUp'
    BY <1>0, <2>1, <2>2
  <2> QED  BY <1>6, <2>2, <2>3
<1>8. CASE KeepMine(c)
  <2>1. tab[c].open /\ ~InFlight(c) /\ UNCHANGED givenUp
    BY <1>8 DEF KeepMine
  <2>2. CASE ~Dirty(c)
    <3>1. tab' = [tab EXCEPT ![c] = Reset(tab[c], draft.text, draft.version)] /\ UNCHANGED patch
      BY <1>8, <2>2 DEF KeepMine, SetTab
    <3>2. TextOf(tab[c].local) \subseteq stored \cup givenUp' /\ givenUp \subseteq givenUp' /\ givenUp' \subseteq 0..AiText
      BY <1>0, <2>1, <2>2 DEF Dirty
    <3> QED  BY <1>6, <2>1, <3>1, <3>2
  <2>3. CASE Dirty(c)
    <3> DEFINE r == [tab[c] EXCEPT !.debounce = FALSE]
               q == WithStatus(r, "saving")
               ops == Diff(tab[c].base, tab[c].local)
               u == [NoPatch EXCEPT !.pc = "sent", !.merge = TRUE, !.expected = draft.version, !.ops = ops]
    <3>1. tab' = [tab EXCEPT ![c] = q] /\ patch' = [patch EXCEPT ![c] = u]
      BY <1>8, <2>3 DEF KeepMine, SetTab, SendPatch
    <3>2. r \in TabRecords /\ SameTab(r, tab[c])
      BY <1>0 DEF TabRecords, SameTab
    <3> HIDE DEF r
    <3>3. q \in TabRecords /\ SameTab(q, r)
      BY <3>2, StatusIs DEF Statuses
    <3>4. ops \in SUBSET [para : AllParas, text : 0..AiText]
      <4>1. tab[c].base \in Texts /\ tab[c].local \in Texts
        BY <1>0 DEF TabRecords
      <4> QED  BY <4>1, DiffOps
    <3> HIDE DEF q
    <3>5. q.base = tab[c].base /\ q.local = tab[c].local /\ q.open /\ ops = Diff(q.base, q.local)
      BY <2>1, <3>2, <3>3 DEF SameTab
    <3> HIDE DEF ops
    <3>6. u \in PatchRecords /\ u.pc = "sent" /\ u.ops = ops
      BY <1>0, <3>4, ConstantRecords DEF NoPatch, PatchRecords
    <3> HIDE DEF u
    <3>7. Holds(q, u) /\ Begun(q) /\ TextOf(q.base) \subseteq stored /\ TextOf(q.local) = TextOf(tab[c].local) /\ u.pc # "done"
      BY <1>0, <3>5, <3>6 DEF Holds, Begun
    <3>8. givenUp \subseteq givenUp' /\ givenUp' \subseteq 0..AiText /\ draftFaults' \in 0..MaxDraftFaults
          /\ \A n \in 1..typed' : n \in 1..typed
      BY <1>0, <2>1, LossFacts
    <3> QED  BY <1>0, <3>1, <3>3, <3>5, <3>6, <3>7, <3>8, TabLoses
  <2> QED  BY <2>2, <2>3
<1> QED  BY <1>2, <1>3, <1>4, <1>5, <1>7, <1>8

\* Typing over a text gives it up, unless the queue started from it.
LEMMA TypeLoses ==
    ASSUME LossInv, VersionInv', "merge" \notin TypeDuring, NEW c \in Writers, NEW p \in Paras, Type(c, p)
    PROVE  LossInv'
<1>0. /\ tab[c].open /\ ~(InFlight(c) /\ patch[c].merge) /\ typed < MaxTyped /\ typed' = typed + 1
      /\ UNCHANGED <<server, patch, accept, draftFaults>>
      /\ tab[c] \in TabRecords /\ patch[c] \in PatchRecords /\ typed \in 0..MaxTyped /\ MaxTyped \in Nat
      /\ givenUp \subseteq 0..AiText /\ TextOf(tab[c].base) \subseteq stored /\ draftFaults \in 0..MaxDraftFaults
      /\ p \in AllParas
  BY LossFacts, DraftAssumption DEF Type, AllParas
<1> DEFINE old == tab[c].local
           base == tab[c].base
<1>1. PICK text \in {typed + 1} \cup (IF old[p] = NoPara THEN {} ELSE {NoPara}) :
         /\ tab' = [tab EXCEPT ![c] = WithStatus([tab[c] EXCEPT !.local[p] = text, !.debounce = TRUE],
                                                 IF InFlight(c) THEN "saving" ELSE "unsaved")]
         /\ givenUp' = givenUp \cup (IF old[p] = base[p] THEN {} ELSE {old[p]}) \cup ({typed + 1} \ {text})
  BY DEF Type, SetTab
<1> DEFINE s == IF InFlight(c) THEN "saving" ELSE "unsaved"
           new == [old EXCEPT ![p] = text]
           r == [tab[c] EXCEPT !.local[p] = text, !.debounce = TRUE]
           q == WithStatus(r, s)
<1>2. text \in 0..AiText /\ old \in Texts /\ base \in Texts /\ typed + 1 \in 0..AiText /\ typed + 1 \in 1..MaxTyped
      /\ s \in Statuses
  BY <1>0, <1>1 DEF AiText, NoPara, TabRecords, Statuses
<1>3. new \in Texts /\ new[p] = text /\ \A o \in AllParas \ {p} : new[o] = old[o]
  BY <1>0, <1>2 DEF Texts
<1>4. r \in TabRecords /\ r.local = new /\ r.base = base /\ r.open = tab[c].open
  BY <1>0, <1>3 DEF TabRecords
<1>5. tab' = [tab EXCEPT ![c] = q]
  BY <1>1
<1> HIDE DEF r, s
<1>6. q \in TabRecords /\ SameTab(q, r)
  BY <1>2, <1>4, StatusIs
<1> HIDE DEF q, new
<1>7. q.base = base /\ q.local = new /\ q.open
  BY <1>0, <1>4, <1>6 DEF SameTab
<1>8. Holds(q, patch[c]) /\ Begun(q) /\ TextOf(q.base) \subseteq stored
  BY <1>0, <1>7 DEF Holds, Begun, InFlight
<1>9. \A n \in TextOf(old) : n \in stored \cup givenUp' \/ n \in TextOf(q.local)
  <2> SUFFICES ASSUME NEW o \in AllParas, old[o] \in 1..MaxTyped
               PROVE  old[o] \in stored \cup givenUp' \/ old[o] \in TextOf(q.local)
    BY DEF TextOf
  <2>1. CASE o # p
    BY <1>3, <1>7, <2>1 DEF TextOf
  <2>2. CASE o = p /\ old[p] = base[p]
    <3>1. old[o] \in TextOf(base)
      BY <2>2 DEF TextOf
    <3> QED  BY <1>0, <3>1
  <2>3. CASE o = p /\ old[p] # base[p]
    BY <1>1, <2>3
  <2> QED  BY <2>1, <2>2, <2>3
<1>10. \A n \in 1..typed' : n \in 1..typed \/ n \in givenUp' \/ (q.open /\ n \in TextOf(q.local))
  <2>1. typed + 1 \in givenUp' \/ typed + 1 \in TextOf(q.local)
    <3>1. CASE text = typed + 1
      BY <1>0, <1>2, <1>3, <1>7, <3>1 DEF TextOf
    <3>2. CASE text # typed + 1
      BY <1>1, <3>2
    <3> QED  BY <3>1, <3>2
  <2>2. \A n \in 1..typed' : n \in 1..typed \/ n = typed + 1
    BY <1>0
  <2> QED  BY <1>7, <2>1, <2>2
<1>11. givenUp \subseteq givenUp' /\ givenUp' \subseteq 0..AiText
  <2>1. old[p] \in 0..AiText
    BY <1>0, <1>2 DEF Texts
  <2> QED  BY <1>0, <1>1, <1>2, <2>1
<1>12. patch' = [patch EXCEPT ![c] = patch[c]]
  BY <1>0, LossFacts DEF RecordsOK
<1> QED  BY <1>0, <1>5, <1>6, <1>7, <1>8, <1>9, <1>10, <1>11, <1>12, TabLoses

\* Accepting the AI result: the editor is reset only when it holds nothing
\* that is not saved.
LEMMA AcceptLoses ==
    ASSUME LossInv, VersionInv', Accept \/ Settle \/ Accepted \/ AcceptFails
    PROVE  LossInv'
<1>0. /\ Proposer \in Writers /\ UNCHANGED <<server, typed, givenUp>>
      /\ tab[Proposer] \in TabRecords /\ patch[Proposer] \in PatchRecords
      /\ MaxDraftFaults \in Nat /\ draftFaults \in 0..MaxDraftFaults /\ givenUp \subseteq 0..AiText
      /\ TextOf(tab[Proposer].base) \subseteq stored
      /\ patch = [patch EXCEPT ![Proposer] = patch[Proposer]] /\ tab = [tab EXCEPT ![Proposer] = tab[Proposer]]
      /\ \A n \in 1..typed' : n \in 1..typed
  BY LossFacts, DraftAssumption DEF Accept, Settle, Accepted, AcceptFails, RecordsOK
<1>1. ASSUME UNCHANGED <<tab, patch>>, draftFaults' \in 0..MaxDraftFaults, accept'.pc # "done",
             accept'.pc # "none" => tab[Proposer].open
      PROVE  LossInv'
  <2>1. Holds(tab[Proposer], patch[Proposer]) /\ (patch[Proposer].pc # "none" => Begun(tab[Proposer]))
    BY <1>0, LossFacts DEF InFlight
  <2>2. tab' = [tab EXCEPT ![Proposer] = tab[Proposer]] /\ patch' = [patch EXCEPT ![Proposer] = patch[Proposer]]
    BY <1>0, <1>1
  <2> QED  BY <1>0, <1>1, <2>1, <2>2, TabLoses
<1>2. CASE Accept
  <2>1. accept'.pc = "settle" /\ tab[Proposer].open /\ UNCHANGED <<tab, patch, draftFaults>>
    BY <1>2 DEF Accept, NoAccept
  <2> QED  BY <1>0, <1>1, <2>1
<1>3. CASE AcceptFails
  <2>1. /\ accept'.pc = "none" /\ UNCHANGED <<tab, patch>>
        /\ UNCHANGED draftFaults \/ (draftFaults > 0 /\ draftFaults' = draftFaults - 1)
    BY <1>3 DEF AcceptFails, NoAccept, LoseCall
  <2>2. draftFaults' \in 0..MaxDraftFaults
    BY <1>0, <2>1
  <2> QED  BY <1>1, <2>1, <2>2
<1>4. CASE Settle
  <2>0. accept.pc = "settle" /\ UNCHANGED draftFaults
    BY <1>4 DEF Settle
  <2>1. CASE tab[Proposer].status \in {"conflict", "retrying"}
    <3>1. accept'.pc = "none" /\ UNCHANGED <<tab, patch>>
      BY <1>4, <2>1 DEF Settle, NoAccept
    <3> QED  BY <1>0, <1>1, <2>0, <3>1
  <2>2. CASE tab[Proposer].status \notin {"conflict", "retrying"}
    <3>1. /\ FlushFrom(Proposer, tab[Proposer])
          /\ accept' = IF Dirty(Proposer) THEN accept ELSE [accept EXCEPT !.pc = "sent"]
      BY <1>4, <2>2 DEF Settle
    <3>2. accept'.pc # "done" /\ Begun(tab[Proposer])
      BY <1>0, <2>0, <3>1, LossFacts DEF AcceptRecords
    <3> QED  BY <1>0, <2>0, <3>1, <3>2, FlushLoses
  <2> QED  BY <2>1, <2>2
<1>5. CASE Accepted
  <2> DEFINE ans == accept.answer
             r == [tab[Proposer] EXCEPT !.debounce = FALSE, !.base = ans, !.local = ans, !.version = accept.seen]
             q == WithStatus(r, "saved")
  <2>1. /\ tab' = [tab EXCEPT ![Proposer] = q] /\ UNCHANGED <<patch, draftFaults>> /\ accept.pc = "done"
        /\ accept' = [NoAccept EXCEPT !.pc = "over"]
    BY <1>5 DEF Accepted, SetTab, Reset
  <2>2. /\ ans \in Texts /\ accept.seen \in Nat /\ TextOf(ans) \subseteq stored
        /\ patch[Proposer].pc = "none" /\ tab[Proposer].base = tab[Proposer].local /\ Begun(tab[Proposer])
    BY <1>0, <2>1, LossFacts DEF AcceptRecords, LossInv, TextsStored, VersionInv, Settled, Waiting
  <2> HIDE DEF ans
  <2>3. r \in TabRecords /\ r.base = ans /\ r.open = tab[Proposer].open /\ r.left = tab[Proposer].left
    BY <1>0, <2>2 DEF TabRecords
  <2> HIDE DEF r
  <2>4. q \in TabRecords /\ SameTab(q, r)
    BY <2>3, StatusIs DEF Statuses
  <2> HIDE DEF q
  <2>5. TextOf(q.base) \subseteq stored /\ Begun(q) /\ Holds(q, patch[Proposer])
    BY <2>2, <2>3, <2>4 DEF SameTab, Begun, Holds
  <2>6. accept'.pc = "over" /\ TextOf(tab[Proposer].local) \subseteq stored
        /\ patch' = [patch EXCEPT ![Proposer] = patch[Proposer]]
    BY <1>0, <2>1, <2>2 DEF NoAccept
  <2> QED  BY <1>0, <2>1, <2>2, <2>4, <2>5, <2>6, TabLoses
<1> QED  BY <1>2, <1>3, <1>4, <1>5

\* Applying a difference writes every paragraph that differs.
LEMMA DiffIsApplied ==
    ASSUME NEW s, NEW t, NEW x, NEW p \in AllParas, s[p] # t[p]
    PROVE  ApplyTo(Diff(s, t), x)[p] = t[p]
<1>1. \E o \in Diff(s, t) : o.para = p
  <2> DEFINE o == [para |-> p, text |-> t[p]]
  <2>1. o \in Diff(s, t)
    BY DEF Diff
  <2>2. o.para = p
    OBVIOUS
  <2> QED  BY <2>1, <2>2
<1>2. ASSUME NEW o \in Diff(s, t), o.para = p PROVE o.text = t[p]
  <2>1. PICK d \in AllParas : o = [para |-> d, text |-> t[d]]
    BY <1>2 DEF Diff
  <2> QED  BY <1>2, <2>1
<1>3. OpFor(Diff(s, t), p) \in Diff(s, t) /\ OpFor(Diff(s, t), p).para = p
  BY <1>1 DEF OpFor
<1> QED  BY <1>1, <1>2, <1>3 DEF ApplyTo

\* The steps of the server.
LEMMA ServerStepLoses ==
    ASSUME LossInv, VersionInv',
           \/ CreateDraft \/ ReadForTranslation \/ WriteTranslation \/ ReadForStep \/ CommitStep
           \/ \E c \in Writers : ReadForPatch(c) \/ CommitPatch(c)
    PROVE  LossInv'
<1>0. /\ UNCHANGED <<tab, typed, givenUp, draftFaults>> /\ CountersOK
      /\ TextOf(draft.text) \subseteq stored /\ MaxTyped \in Nat
      /\ \A t : TextOf(t) \subseteq 1..MaxTyped
      /\ patch \in [Writers -> PatchRecords] /\ draft.text \in Texts
  BY DraftAssumption DEF CreateDraft, ReadForTranslation, WriteTranslation, ReadForStep, CommitStep, ReadForPatch,
       CommitPatch, TextOf, LossInv, TextsStored, VersionInv, RecordsOK
<1>1. CASE CreateDraft \/ ReadForTranslation \/ WriteTranslation
  <2>1. TextOf([EmptyText EXCEPT ![AiPara] = AiText]) = {}
    BY <1>0 DEF TextOf, EmptyText, NoPara, AiText
  <2>2. /\ UNCHANGED <<patch, accept, claimed, stored, applications>>
        /\ draft'.text = draft.text \/ draft'.text = [EmptyText EXCEPT ![AiPara] = AiText]
    BY <1>1 DEF CreateDraft, ReadForTranslation, WriteTranslation, LossInv, VersionInv, RecordsOK
  <2>3. TextOf(draft'.text) \subseteq stored' /\ CountersOK'
    BY <1>0, <2>1, <2>2 DEF CountersOK
  <2> QED  BY <1>0, <2>2, <2>3, ServerLoses
<1>2. CASE ReadForStep
  <2>1. UNCHANGED <<draft, stored, claimed, applications, patch>> /\ accept.pc = "sent"
    BY <1>2 DEF ReadForStep, server
  <2>2. accept'.pc # "done"
    BY <1>2 DEF ReadForStep, NoAccept
  <2>3. CountersOK'
    BY <1>0, <2>1 DEF CountersOK
  <2> QED  BY <1>0, <2>1, <2>2, <2>3, ServerLoses
<1>3. CASE CommitStep
  <2>1. accept.pc = "read" /\ accept \in AcceptRecords /\ UNCHANGED patch
    BY <1>3 DEF CommitStep, LossInv, VersionInv, RecordsOK
  <2>2. CASE ClaimsStep /\ Fenced(accept.seen)
    <3>1. /\ draft' = [version |-> draft.version + 1, text |-> accept.answer]
          /\ stored' = stored \cup TextOf(accept.answer) /\ ~claimed /\ claimed' = TRUE
          /\ applications' = applications + 1
          /\ accept' = [accept EXCEPT !.pc = "done", !.seen = draft.version + 1]
      BY <1>3, <2>2 DEF CommitStep, CommitDraft, ClaimsStep
    <3>2. accept'.answer = accept.answer /\ draft'.text = accept.answer
      BY <2>1, <3>1 DEF AcceptRecords
    <3>3. applications' = 1 /\ stored' \subseteq 1..MaxTyped
      BY <1>0, <3>1 DEF CountersOK
    <3>4. CountersOK'
      BY <1>0, <3>1, <3>3 DEF CountersOK
    <3>5. stored \subseteq stored' /\ TextOf(accept.answer) \subseteq stored'
      BY <3>1
    <3>6. TextOf(draft'.text) \subseteq stored' /\ TextOf(accept'.answer) \subseteq stored' /\ accept.pc # "none"
      BY <2>1, <3>2, <3>5
    <3> QED  BY <1>0, <2>1, <3>4, <3>5, <3>6, ServerLoses
  <2>3. CASE ~(ClaimsStep /\ Fenced(accept.seen))
    <3>1. UNCHANGED <<draft, stored, claimed, applications>> /\ accept'.pc = "refused"
      BY <1>3, <2>3 DEF CommitStep, NoAccept
    <3>2. CountersOK'
      BY <1>0, <3>1 DEF CountersOK
    <3> QED  BY <1>0, <2>1, <3>1, <3>2, ServerLoses
  <2> QED  BY <2>2, <2>3
<1>4. ASSUME NEW c \in Writers, NEW u, patch' = [patch EXCEPT ![c] = u], InFlight(c), u.pc # "none", UNCHANGED accept,
             Holds(tab[c], u), stored \subseteq stored', TextOf(draft'.text) \subseteq stored', CountersOK',
             u.pc = "done" => TextOf(u.answer) \subseteq stored'
      PROVE  LossInv'
  <2>1. \A d \in Writers : \/ patch'[d] = patch[d]
                           \/ /\ InFlight(d) /\ patch'[d].pc # "none" /\ Holds(tab[d], patch'[d])
                              /\ patch'[d].pc = "done" => TextOf(patch'[d].answer) \subseteq stored'
    BY <1>0, <1>4
  <2> QED  BY <1>0, <1>4, <2>1, ServerLoses
<1> DEFINE no == [NoPatch EXCEPT !.pc = "refused"]
<1>5. no.pc = "refused" /\ \A r : Holds(r, no)
  BY DEF NoPatch, Holds
<1>6. ASSUME NEW c \in Writers, ReadForPatch(c) PROVE LossInv'
  <2>1. patch[c].pc = "sent" /\ UNCHANGED <<draft, stored, claimed, applications, accept>> /\ patch[c] \in PatchRecords
    BY <1>0, <1>6 DEF ReadForPatch, server
  <2>2. CountersOK' /\ InFlight(c)
    BY <1>0, <2>1 DEF CountersOK, InFlight
  <2>3. CASE draft.version = patch[c].expected /\ Applicable(patch[c].ops, draft.text)
    <3> DEFINE ans == ApplyTo(patch[c].ops, draft.text)
               u == [patch[c] EXCEPT !.pc = "read", !.seen = draft.version, !.answer = ans]
    <3>1. patch' = [patch EXCEPT ![c] = u]
      BY <1>6, <2>3 DEF ReadForPatch
    <3>2. u.pc = "read" /\ u.merge = patch[c].merge /\ u.answer = ans
      BY <2>1 DEF PatchRecords
    <3>3. patch[c].merge => \A p \in AllParas : tab[c].base[p] # tab[c].local[p] => ans[p] = tab[c].local[p]
      <4>1. patch[c].merge => patch[c].ops = Diff(tab[c].base, tab[c].local)
        BY <2>1, LossFacts DEF Holds
      <4> QED  BY <4>1, DiffIsApplied
    <3> HIDE DEF u, ans
    <3>4. Holds(tab[c], u)
      BY <3>2, <3>3 DEF Holds
    <3> QED  BY <1>0, <1>4, <2>1, <2>2, <3>1, <3>2, <3>4
  <2>4. CASE ~(draft.version = patch[c].expected /\ Applicable(patch[c].ops, draft.text))
    <3>1. patch' = [patch EXCEPT ![c] = no]
      BY <1>6, <2>4 DEF ReadForPatch
    <3> HIDE DEF no
    <3> QED  BY <1>0, <1>4, <1>5, <2>1, <2>2, <3>1
  <2> QED  BY <2>3, <2>4
<1>7. ASSUME NEW c \in Writers, CommitPatch(c) PROVE LossInv'
  <2>1. patch[c].pc = "read" /\ UNCHANGED <<claimed, applications, accept>> /\ patch[c] \in PatchRecords /\ InFlight(c)
    BY <1>0, <1>7 DEF CommitPatch, InFlight
  <2>2. CASE Fenced(patch[c].seen)
    <3> DEFINE ans == patch[c].answer
               u == [patch[c] EXCEPT !.pc = "done", !.seen = draft.version + 1, !.ops = {}, !.expected = 0]
    <3>1. /\ patch' = [patch EXCEPT ![c] = u] /\ draft' = [version |-> draft.version + 1, text |-> ans]
          /\ stored' = stored \cup TextOf(ans)
      BY <1>7, <2>2 DEF CommitPatch, CommitDraft
    <3>2. u.pc = "done" /\ u.merge = patch[c].merge /\ u.answer = ans
      BY <2>1 DEF PatchRecords
    <3>3. Holds(tab[c], patch[c])
      BY LossFacts
    <3> HIDE DEF u
    <3>4. Holds(tab[c], u)
      BY <2>1, <3>2, <3>3 DEF Holds
    <3>5. CountersOK'
      BY <1>0, <2>1, <3>1 DEF CountersOK
    <3>6. draft'.text = ans /\ stored \subseteq stored' /\ TextOf(ans) \subseteq stored'
      BY <3>1
    <3> HIDE DEF ans
    <3>7. TextOf(draft'.text) \subseteq stored' /\ TextOf(u.answer) \subseteq stored'
      BY <3>2, <3>6
    <3> QED  BY <1>4, <2>1, <3>1, <3>2, <3>4, <3>5, <3>6, <3>7
  <2>3. CASE ~Fenced(patch[c].seen)
    <3>1. patch' = [patch EXCEPT ![c] = no] /\ UNCHANGED <<draft, stored>>
      BY <1>7, <2>3 DEF CommitPatch
    <3>2. CountersOK'
      BY <1>0, <2>1, <3>1 DEF CountersOK
    <3> HIDE DEF no
    <3> QED  BY <1>0, <1>4, <1>5, <2>1, <3>1, <3>2
  <2> QED  BY <2>2, <2>3
<1> QED  BY <1>1, <1>2, <1>3, <1>6, <1>7

LEMMA LossInit == DraftInit => LossInv
<1> SUFFICES ASSUME DraftInit PROVE LossInv
  OBVIOUS
<1>1. /\ draft.text = EmptyText /\ accept.pc = "none"
      /\ \A c \in Writers : tab[c].base = EmptyText /\ patch[c].pc = "none" /\ ~patch[c].merge
  BY DEF DraftInit, ClosedTab, NoPatch, NoAccept
<1>2. CountersOK
  <2>1. claimed = FALSE /\ applications = 0 /\ stored = {} /\ givenUp = {} /\ draftFaults = MaxDraftFaults
    BY DEF DraftInit
  <2>2. draftFaults \in 0..MaxDraftFaults
    BY <2>1, DraftAssumption
  <2> QED  BY <2>1, <2>2 DEF CountersOK
<1>3. TextsStored
  BY <1>1, EmptyHasNoText DEF TextsStored
<1>4. MergesHold /\ RequestsBegun
  BY <1>1 DEF MergesHold, Holds, RequestsBegun, InFlight
<1>5. NoSilentLoss
  BY DEF DraftInit, NoSilentLoss
<1> QED  BY <1>2, <1>3, <1>4, <1>5, VersionInit DEF LossInv

\* Every step loses nothing, when nothing is typed while a merge is sent or
\* an AI result is applied.
LEMMA LossStep ==
    ASSUME TypeDuring = {}
    PROVE  LossInv /\ [DraftNext]_draftVars => LossInv'
<1> SUFFICES ASSUME LossInv, [DraftNext]_draftVars PROVE LossInv'
  OBVIOUS
<1>0. VersionInv' /\ "merge" \notin TypeDuring
  BY VersionStep DEF LossInv
<1>1. CASE UNCHANGED draftVars
  <2>1. UNCHANGED <<draft, stored, tab, patch, accept, claimed, applications, givenUp, draftFaults, typed>>
    BY <1>1 DEF draftVars
  <2>2. CountersOK'
    BY <2>1 DEF LossInv, CountersOK
  <2>3. TextOf(draft'.text) \subseteq stored'
    BY <2>1 DEF LossInv, TextsStored
  <2> QED  BY <1>0, <2>1, <2>2, <2>3, ServerLoses
<1>2. CASE Accept \/ AcceptStep
  BY <1>0, <1>2, AcceptLoses, ServerStepLoses DEF AcceptStep
<1>3. CASE CreateDraft \/ ReadForTranslation \/ WriteTranslation
  BY <1>0, <1>3, ServerStepLoses
<1>4. ASSUME NEW c \in Writers, PatchStep(c) \/ PatchLost(c) PROVE LossInv'
  BY <1>0, <1>4, ServerStepLoses, AnswerLoses DEF PatchStep
<1>5. ASSUME NEW c \in Writers,
             TimerFlush(c) \/ OpenTab(c) \/ LeaveTab(c) \/ Refetch(c) \/ ReloadLatest(c) \/ KeepMine(c)
      PROVE  LossInv'
  BY <1>0, <1>5, WriterLoses
<1>6. ASSUME NEW c \in Writers, NEW p \in Paras, Type(c, p) PROVE LossInv'
  BY <1>0, <1>6, TypeLoses
<1> QED  BY <1>1, <1>2, <1>3, <1>4, <1>5, <1>6 DEF DraftNext

(* The history. *)

LEMMA LeastExists ==
    ASSUME NEW V \in SUBSET Nat, V # {}
    PROVE  \E n \in V : \A k \in V : n <= k
<1> DEFINE R == {ss \in Nat \X Nat : ss[1] < ss[2]}
<1>1. IsWellFoundedOn(R, Nat)
  BY NatLessThanWellFounded DEF OpToRel
<1>2. \A k, n \in Nat : k < n => <<k, n>> \in R
  OBVIOUS
<1> HIDE DEF R
<1>3. PICK n \in V : \A k \in V : <<k, n>> \notin R
  BY <1>1, WFMin
<1>4. \A k \in V : ~(k < n)
  BY <1>2, <1>3
<1> QED  BY <1>4

Revisions == [version : Nat, text : Texts]
OwnVersions(rows) == \A q, r \in rows : q.version = r.version => q = r

\* TrimDraftRevisions leaves no more rows than are kept: the oldest one left
\* has fewer newer ones than that.
LEMMA TrimKeepsFew ==
    ASSUME NEW rows \in SUBSET Revisions, IsFiniteSet(rows), OwnVersions(rows)
    PROVE  IsFiniteSet(Trimmed(rows)) /\ Cardinality(Trimmed(rows)) <= RevisionsKept
<1> DEFINE T == Trimmed(rows)
<1>1. T \subseteq rows /\ \A r \in T : Cardinality({q \in rows : q.version > r.version}) < RevisionsKept
  BY DEF Trimmed
<1> HIDE DEF T
<1>2. IsFiniteSet(T) /\ Cardinality(T) \in Nat /\ RevisionsKept \in Nat
  BY <1>1, FS_Subset, FS_CardinalityType, DraftAssumption
<1>3. CASE T = {}
  BY <1>2, <1>3, FS_EmptySet DEF T
<1>4. CASE T # {}
  <2> DEFINE V == {r.version : r \in T}
  <2>1. V \in SUBSET Nat /\ V # {}
    BY <1>1, <1>4 DEF Revisions
  <2>2. PICK n \in V : \A k \in V : n <= k
    BY <2>1, LeastExists
  <2>3. PICK r \in T : r.version = n
    BY <2>2
  <2> DEFINE G == {q \in rows : q.version > r.version}
  <2>4. T \ {r} \subseteq G
    <3> SUFFICES ASSUME NEW q \in T, q # r PROVE q.version > r.version /\ q \in rows
      OBVIOUS
    <3>1. q.version \in Nat /\ r.version \in Nat /\ r.version <= q.version
      BY <1>1, <2>2, <2>3 DEF Revisions
    <3>2. q.version # r.version
      BY <1>1 DEF OwnVersions
    <3> QED  BY <1>1, <3>1, <3>2
  <2>5. Cardinality(G) < RevisionsKept
    BY <1>1
  <2>6. IsFiniteSet(G)
    BY FS_Subset
  <2> HIDE DEF G
  <2>7. Cardinality(T \ {r}) = Cardinality(T) - 1
    BY <1>2, FS_RemoveElement
  <2>8. Cardinality(T \ {r}) <= Cardinality(G) /\ Cardinality(G) \in Nat
    BY <2>4, <2>6, FS_Subset, FS_CardinalityType
  <2> QED  BY <1>2, <2>5, <2>7, <2>8 DEF T
<1> QED  BY <1>3, <1>4

\* A write with a revision.
LEMMA CommitHistory ==
    ASSUME VersionInv, HistoryOK, NEW t \in Texts, CommitDraft(t), UNCHANGED translator
    PROVE  HistoryOK'
<1> DEFINE v == draft.version + 1
           new == [version |-> v, text |-> t]
           rows == revisions \cup {new}
<1>1. draft' = new /\ revisions' = Trimmed(rows) /\ draft.version \in Nat /\ v \in Nat
  BY DEF CommitDraft, VersionInv, RecordsOK
<1>2. /\ revisions \subseteq Revisions /\ IsFiniteSet(revisions) /\ OwnVersions(revisions)
      /\ \A r \in revisions : 1 <= r.version /\ r.version <= draft.version
  BY DEF HistoryOK, Revisions, OwnVersions
<1>3. new \in Revisions /\ new.version = v /\ new.text = t
  BY <1>1 DEF Revisions
<1>4. \A r \in revisions : r.version \in Nat /\ r.version # v /\ r.version <= v /\ 1 <= r.version
  BY <1>1, <1>2 DEF Revisions
<1>5. 1 <= v /\ v <= v
  BY <1>1
<1>6. draft'.version = v /\ draft'.text = t
  BY <1>1
<1> HIDE DEF new, v
<1>7. /\ rows \in SUBSET Revisions /\ IsFiniteSet(rows) /\ OwnVersions(rows)
      /\ \A r \in rows : r.version \in Nat /\ 1 <= r.version /\ r.version <= v
  <2>1. IsFiniteSet(rows)
    BY <1>2, FS_AddElement
  <2>2. OwnVersions(rows)
    BY <1>2, <1>3, <1>4 DEF OwnVersions
  <2> QED  BY <1>1, <1>2, <1>3, <1>4, <1>5, <2>1, <2>2
<1>8. new \in Trimmed(rows)
  <2>1. {q \in rows : q.version > new.version} = {}
    BY <1>1, <1>3, <1>7
  <2>2. Cardinality({q \in rows : q.version > new.version}) < RevisionsKept
    BY <2>1, FS_EmptySet, DraftAssumption
  <2> QED  BY <2>2 DEF Trimmed
<1>9. Trimmed(rows) \subseteq rows
  BY DEF Trimmed
<1>10. IsFiniteSet(Trimmed(rows)) /\ Cardinality(Trimmed(rows)) <= RevisionsKept
  BY <1>7, TrimKeepsFew
<1> HIDE DEF rows
<1>11. \E r \in revisions' : r.version = draft'.version /\ r.text = draft'.text
  BY <1>1, <1>3, <1>6, <1>8
<1>12. /\ revisions' \subseteq Revisions /\ OwnVersions(revisions')
       /\ \A r \in revisions' : 1 <= r.version /\ r.version <= draft'.version
  BY <1>1, <1>6, <1>7, <1>9 DEF OwnVersions
<1> QED  BY <1>1, <1>10, <1>11, <1>12 DEF HistoryOK, Revisions, OwnVersions

LEMMA HistoryStep ==
    ASSUME VersionInv, HistoryOK, [DraftNext]_draftVars PROVE HistoryOK'
<1>0. /\ draft \in [version : Nat, text : Texts] /\ draft.version \in Nat
      /\ patch \in [Writers -> PatchRecords] /\ accept \in AcceptRecords
  BY DEF VersionInv, RecordsOK
<1>1. ASSUME UNCHANGED <<draft, revisions>>, translator' = translator \/ translator.pc # "done" PROVE HistoryOK'
  BY <1>0, <1>1 DEF HistoryOK
<1>2. CASE UNCHANGED draftVars
  BY <1>1, <1>2 DEF draftVars
<1>3. ASSUME draft.version = 0, draft' = [draft EXCEPT !.version = 1], UNCHANGED revisions PROVE HistoryOK'
  <2>1. revisions = {}
    BY <1>3 DEF HistoryOK
  <2> QED  BY <1>3, <2>1 DEF HistoryOK
<1>4. CASE CreateDraft
  BY <1>3, <1>4 DEF CreateDraft
<1>5. CASE ReadForTranslation
  <2>1. CASE draft.version = 0
    BY <1>3, <1>5, <2>1 DEF ReadForTranslation
  <2>2. CASE draft.version # 0
    BY <1>1, <1>5, <2>2 DEF ReadForTranslation
  <2> QED  BY <2>1, <2>2
<1>6. CASE WriteTranslation
  <2>1. UNCHANGED revisions /\ translator.pc = "write" /\ translator'.pc = "done"
    BY <1>6 DEF WriteTranslation
  <2>2. CASE Fenced(translator.seen)
    <3>1. draft'.version = draft.version + 1
      BY <1>6, <2>2 DEF WriteTranslation
    <3>2. \A r \in revisions : r.version \in Nat /\ 1 <= r.version /\ r.version <= draft.version
      BY DEF HistoryOK
    <3>3. \A r \in revisions : 1 <= r.version /\ r.version <= draft'.version
      BY <1>0, <3>1, <3>2
    <3>4. revisions # {} => \E r \in revisions : r.version = draft'.version - 1
      <4>1. revisions # {} => \E r \in revisions : r.version = draft.version
        BY <2>1 DEF HistoryOK
      <4> QED  BY <1>0, <3>1, <4>1
    <3> QED  BY <2>1, <3>3, <3>4 DEF HistoryOK
  <2>3. CASE ~Fenced(translator.seen)
    BY <1>1, <1>6, <2>1, <2>3 DEF WriteTranslation
  <2> QED  BY <2>2, <2>3
<1>7. CASE CommitStep
  <2>1. accept.answer \in Texts /\ UNCHANGED translator
    BY <1>0, <1>7 DEF AcceptRecords, CommitStep
  <2> QED  BY <1>1, <1>7, <2>1, CommitHistory DEF CommitStep
<1>8. ASSUME NEW c \in Writers, CommitPatch(c) PROVE HistoryOK'
  <2>1. patch[c].answer \in Texts /\ UNCHANGED translator
    BY <1>0, <1>8 DEF PatchRecords, CommitPatch
  <2> QED  BY <1>1, <1>8, <2>1, CommitHistory DEF CommitPatch
<1>9. CASE Accept \/ Settle \/ ReadForStep \/ Accepted \/ AcceptFails
  <2>1. UNCHANGED <<draft, revisions, translator>>
    BY <1>9 DEF Accept, Settle, ReadForStep, Accepted, AcceptFails, server
  <2> QED  BY <1>1, <2>1
<1>10. ASSUME NEW c \in Writers,
              \/ ReadForPatch(c) \/ PatchSaved(c) \/ MergeSaved(c) \/ PatchRefused(c) \/ PatchLost(c)
              \/ TimerFlush(c) \/ OpenTab(c) \/ LeaveTab(c) \/ Refetch(c) \/ ReloadLatest(c) \/ KeepMine(c)
              \/ \E p \in Paras : Type(c, p)
       PROVE  HistoryOK'
  <2>1. UNCHANGED <<draft, revisions, translator>>
    BY <1>10 DEF ReadForPatch, PatchSaved, MergeSaved, PatchRefused, PatchLost, TimerFlush, OpenTab, LeaveTab,
         Refetch, ReloadLatest, KeepMine, Type, server
  <2> QED  BY <1>1, <2>1
<1> QED  BY <1>2, <1>4, <1>5, <1>6, <1>7, <1>8, <1>9, <1>10 DEF DraftNext, PatchStep, AcceptStep

\* As long as nothing is typed while a merge is sent or an AI result applied,
\* nothing a writer typed is lost, an AI result is written once and the
\* history ends with the draft (draft-autosave-queue.ts, commitDraftWrite),
\* for any number of tabs, paragraphs, edits and lost calls.
THEOREM DraftIsSafe == TypeDuring = {} => (DraftSpec => []DraftSafe)
<1> SUFFICES ASSUME TypeDuring = {} PROVE DraftSpec => []DraftSafe
  OBVIOUS
<1>1. DraftInit => FullDraftInv
  <2>1. DraftInit => HistoryOK
    BY FS_EmptySet, DraftAssumption DEF DraftInit, HistoryOK
  <2> QED  BY <2>1, LossInit DEF FullDraftInv
<1>2. FullDraftInv /\ [DraftNext]_draftVars => FullDraftInv'
  BY LossStep, HistoryStep DEF FullDraftInv, LossInv
<1>3. FullDraftInv => DraftSafe
  <2> SUFFICES ASSUME FullDraftInv PROVE DraftSafe
    OBVIOUS
  <2>1. \A c \in Writers : tab[c].version <= draft.version
    BY DEF FullDraftInv, LossInv, VersionInv, TabsMatch, Matches
  <2>2. applications \in Nat /\ applications <= 1
    BY DEF FullDraftInv, LossInv, CountersOK
  <2>3. DraftTypeOK
    BY <2>1, <2>2 DEF DraftTypeOK, FullDraftInv, LossInv, VersionInv, RecordsOK, TabRecords, PatchRecords, AcceptRecords,
         CountersOK, HistoryOK
  <2>4. HistoryIsRecent
    BY DEF FullDraftInv, HistoryOK, HistoryIsRecent
  <2> QED  BY <2>2, <2>3, <2>4 DEF DraftSafe, StepAppliedOnce, FullDraftInv, LossInv
<1> QED  BY <1>1, <1>2, <1>3, PTL DEF DraftSpec
=============================================================================
