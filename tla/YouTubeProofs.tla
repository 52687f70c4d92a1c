---------------------------- MODULE YouTubeProofs ----------------------------
(***************************************************************************)
(* What is proved of the YouTube side of the program: the resumable upload *)
(* of a render and, after it, the analytics of a channel.                  *)
(***************************************************************************)
EXTENDS VideoUpload, ChannelSync, FiniteSetTheorems, TLAPS

(***************************************************************************)
(* A publication makes at most one video, of the approved render, and the  *)
(* calls of a day stay within the day's quota: for any number of uploads,  *)
(* any sizes and costs, and any number of faults.                          *)
(*                                                                         *)
(* The invariant of one upload is stated over the values of its variables: *)
(* its changed blocks c, whether its session is kept (k), its session s,   *)
(* its videos w and its attempt a.                                         *)
(***************************************************************************)

UploadPCs == {"idle", "reserve", "open", "persist", "query", "rehash", "chunk", "send",
              "dedupe", "snoozed", "done", "failed"}
Attempts == [pc : UploadPCs, off : 0..VideoBlocks, hashed : 0..VideoBlocks, ok : BOOLEAN,
             bad : SUBSET AllBlocks, today : BOOLEAN]
SessionRecords == [state : {"none", "open", "gone", "done"}, held : 0..VideoBlocks, ok : BOOLEAN]
VideoRecords == [n : Nat, ok : BOOLEAN]

\* Without a stored session there is no video; a stored one was opened; and an
\* attempt is at the offset Google reported.
SessionOK(k, s, w, a) ==
    /\ a.pc \in {"reserve", "open", "persist"} => ~k
    /\ a.pc \in {"query", "rehash", "chunk", "send", "dedupe"} => k
    /\ a.pc = "persist" => s.state # "none" /\ s.held = 0 /\ s.ok
    /\ k => s.state # "none"
    /\ a.pc \in {"rehash", "chunk", "send"} => a.off = s.held
    /\ w.n > 0 => k /\ s.state # "open"
    /\ w.n <= 1

\* A block that is wrong at Google and that the digest of the attempt has
\* noticed, or has still to pass.
Noticed(b, s, a) ==
    /\ b <= s.held
    /\ a.pc = "rehash" => ~a.ok \/ a.hashed < b
    /\ a.pc \in {"chunk", "send"} => ~a.ok

\* Google holds a wrong block only with such a witness; a chunk with a wrong
\* block has spoilt the digest, and the last chunk goes out under a good one.
DigestOK(c, s, w, a) ==
    /\ a.pc = "send" =>
          /\ a.bad \subseteq c
          /\ a.ok => a.bad = {}
          /\ a.off + ChunkBlocks >= VideoBlocks => a.ok
    /\ s.ok \/ \E b \in c : Noticed(b, s, a)
    /\ w.ok

OneUploadOK(c, k, s, w, a) == SessionOK(k, s, w, a) /\ DigestOK(c, s, w, a)

\* The types, with the records named.
RecordsOK ==
    /\ changed \in [Uploads -> SUBSET AllBlocks]
    /\ kept \in [Uploads -> BOOLEAN]
    /\ session \in [Uploads -> SessionRecords]
    /\ videos \in [Uploads -> VideoRecords]
    /\ uploader \in [Uploads -> Attempts]

UploadsOK ==
    /\ RecordsOK
    /\ \A u \in Uploads : OneUploadOK(changed[u], kept[u], session[u], videos[u], uploader[u])

\* The uploads whose reservation of today is not spent yet.
OpenToday == {u \in Uploads : uploader[u].pc = "open" /\ uploader[u].today}

\* Every unit spent, or still to be spent under a reservation of today, is in
\* today's bucket.
LedgerOK ==
    /\ units \in Nat /\ spent \in Nat /\ uploadFaults \in 0..MaxUploadFaults
    /\ IsFiniteSet(OpenToday)
    /\ spent + Cardinality(OpenToday) * InsertCost <= units
    /\ units <= DailyLimit

USE UploadAssumption DEF AllBlocks

-----------------------------------------------------------------------------
(* Records *)

LEMMA NotUploadingIs ==
    /\ NotUploading \in Attempts
    /\ NotUploading.pc = "idle" /\ NotUploading.off = 0 /\ NotUploading.hashed = 0
    /\ NotUploading.ok = TRUE /\ NotUploading.today = TRUE
BY DEF NotUploading, Attempts, UploadPCs

\* An attempt that ends, or begins again, at l.
LEMMA EndsAt ==
    ASSUME NEW l \in UploadPCs
    PROVE  LET a == [NotUploading EXCEPT !.pc = l]
           IN  a \in Attempts /\ a.pc = l /\ a.off = 0 /\ a.today = TRUE
BY NotUploadingIs DEF Attempts

LEMMA ResumesAt ==
    ASSUME NEW u, NEW k \in 0..VideoBlocks
    PROVE  /\ Resume(u, k) \in Attempts /\ Resume(u, k).pc = "rehash" /\ Resume(u, k).off = k
           /\ Resume(u, k).hashed = 0
BY NotUploadingIs DEF Resume, Attempts, UploadPCs

LEMMA SessionRecordsAre ==
    /\ NoSession \in SessionRecords /\ NoSession.state = "none"
    /\ NewSession \in SessionRecords /\ NewSession.state = "open" /\ NewSession.held = 0 /\ NewSession.ok = TRUE
<1>1. NoSession \in SessionRecords /\ NoSession.state = "none" /\ NoSession.held = 0 /\ NoSession.ok = TRUE
  BY DEF NoSession, SessionRecords
<1> QED  BY <1>1 DEF NewSession, SessionRecords

\* A step of one upload keeps the others as they are.
LEMMA OneUpload ==
    ASSUME UploadsOK, NEW u \in Uploads, RecordsOK',
           \A v \in Uploads \ {u} :
              /\ changed'[v] = changed[v] /\ kept'[v] = kept[v] /\ session'[v] = session[v]
              /\ videos'[v] = videos[v] /\ uploader'[v] = uploader[v],
           OneUploadOK(changed'[u], kept'[u], session'[u], videos'[u], uploader'[u])
    PROVE  UploadsOK'
<1>1. ASSUME NEW v \in Uploads
      PROVE  OneUploadOK(changed'[v], kept'[v], session'[v], videos'[v], uploader'[v])
  <2>1. CASE v = u
    BY <2>1
  <2>2. CASE v # u
    BY <2>2 DEF UploadsOK
  <2> QED  BY <2>1, <2>2
<1> QED  BY <1>1 DEF UploadsOK

\* The same for a step that leaves the upload's other variables alone.
LEMMA OnlyAttempt ==
    ASSUME UploadsOK, NEW u \in Uploads, NEW a \in Attempts,
           uploader' = [uploader EXCEPT ![u] = a], UNCHANGED <<changed, kept, session, videos>>,
           OneUploadOK(changed[u], kept[u], session[u], videos[u], a)
    PROVE  UploadsOK'
<1>1. RecordsOK'
  BY DEF UploadsOK, RecordsOK
<1>2. ASSUME NEW v \in Uploads
      PROVE  OneUploadOK(changed'[v], kept'[v], session'[v], videos'[v], uploader'[v])
  <2>1. CASE v = u
    BY <2>1 DEF UploadsOK, RecordsOK
  <2>2. CASE v # u
    BY <2>2 DEF UploadsOK, RecordsOK
  <2> QED  BY <2>1, <2>2
<1> QED  BY <1>1, <1>2 DEF UploadsOK

\* An attempt that is not between opening a session and the end needs nothing
\* but a session it may have.
LEMMA Elsewhere ==
    ASSUME NEW c \in SUBSET AllBlocks, NEW k \in BOOLEAN, NEW s \in SessionRecords,
           NEW w \in VideoRecords, NEW a \in Attempts, NEW b \in Attempts, OneUploadOK(c, k, s, w, a),
           \/ b.pc \in {"idle", "snoozed", "done", "failed"}
           \/ b.pc \in {"reserve", "open"} /\ ~k
           \/ b.pc \in {"query", "dedupe"} /\ k
    PROVE  OneUploadOK(c, k, s, w, b)
BY DEF OneUploadOK, SessionOK, DigestOK, Noticed, SessionRecords, VideoRecords, Attempts

-----------------------------------------------------------------------------
(* The steps of an upload *)

LEMMA UploadsInit == UploadInit => UploadsOK
<1> SUFFICES ASSUME UploadInit PROVE UploadsOK
  OBVIOUS
<1>1. [n |-> 0, ok |-> TRUE] \in VideoRecords
  BY DEF VideoRecords
<1>2. RecordsOK
  BY <1>1, NotUploadingIs, SessionRecordsAre DEF UploadInit, RecordsOK
<1>3. ASSUME NEW u \in Uploads
      PROVE  OneUploadOK(changed[u], kept[u], session[u], videos[u], uploader[u])
  BY NotUploadingIs, SessionRecordsAre DEF UploadInit, OneUploadOK, SessionOK, DigestOK, NoSession
<1> QED  BY <1>2, <1>3 DEF UploadsOK

\* An attempt ends, or goes where it needs no more than the session it has.
LEMMA AttemptMoves ==
    ASSUME UploadsOK, NEW u \in Uploads, NEW l \in UploadPCs, EndAttempt(u, l),
           UNCHANGED <<changed, kept, session, videos>>,
           \/ l \in {"idle", "snoozed", "done", "failed"}
           \/ l \in {"reserve", "open"} /\ ~kept[u]
           \/ l \in {"query", "dedupe"} /\ kept[u]
    PROVE  UploadsOK'
<1> DEFINE a == [NotUploading EXCEPT !.pc = l]
<1>1. a \in Attempts /\ a.pc = l
  BY EndsAt
<1>2. uploader' = [uploader EXCEPT ![u] = a]
  BY DEF EndAttempt, SetUploader
<1> HIDE DEF a
<1>3. OneUploadOK(changed[u], kept[u], session[u], videos[u], a)
  BY <1>1, Elsewhere DEF UploadsOK, RecordsOK
<1> QED  BY <1>1, <1>2, <1>3, OnlyAttempt

LEMMA SessionIsOpened ==
    ASSUME UploadsOK, NEW u \in Uploads, OpenSession(u)
    PROVE  UploadsOK'
<1>1. CASE session' = [session EXCEPT ![u] = NewSession] /\ EndAttempt(u, "persist")
  <2>1. uploader' = [uploader EXCEPT ![u] = [NotUploading EXCEPT !.pc = "persist"]]
    BY <1>1 DEF EndAttempt, SetUploader
  <2>2. PICK a \in Attempts : a.pc = "persist" /\ uploader' = [uploader EXCEPT ![u] = a]
    BY <2>1, EndsAt DEF UploadPCs
  <2>3. RecordsOK'
    BY <1>1, <2>2, SessionRecordsAre DEF OpenSession, UploadsOK, RecordsOK
  <2>4. uploader'[u] = a /\ session'[u] = NewSession
    BY <1>1, <2>2 DEF UploadsOK, RecordsOK
  <2>5. uploader[u].pc = "open"
    BY DEF OpenSession, UploadAt
  <2>6. OneUploadOK(changed[u], kept[u], NewSession, videos[u], a)
    BY <2>2, <2>5, SessionRecordsAre DEF UploadsOK, RecordsOK, OneUploadOK, SessionOK, DigestOK, VideoRecords
  <2> QED  BY <1>1, <2>2, <2>3, <2>4, <2>6, OneUpload DEF OpenSession, UploadsOK, RecordsOK
<1>2. CASE EndAttempt(u, "snoozed") /\ UNCHANGED session
  BY <1>2, AttemptMoves DEF OpenSession, UploadPCs
<1> QED  BY <1>1, <1>2 DEF OpenSession

LEMMA SessionIsPersisted ==
    ASSUME UploadsOK, NEW u \in Uploads, PersistSession(u)
    PROVE  UploadsOK'
<1>1. uploader' = [uploader EXCEPT ![u] = [NotUploading EXCEPT !.pc = "chunk"]] /\ uploader[u].pc = "persist"
  BY DEF PersistSession, EndAttempt, SetUploader, UploadAt
<1>2. PICK a \in Attempts : a.pc = "chunk" /\ a.off = 0 /\ uploader' = [uploader EXCEPT ![u] = a]
  BY <1>1, EndsAt DEF UploadPCs
<1>3. RecordsOK' /\ kept'[u] = TRUE /\ uploader'[u] = a
  BY <1>2 DEF PersistSession, UploadsOK, RecordsOK
<1>4. OneUploadOK(changed[u], TRUE, session[u], videos[u], a)
  BY <1>1, <1>2 DEF UploadsOK, RecordsOK, OneUploadOK, SessionOK, DigestOK, Noticed, VideoRecords, SessionRecords
<1> QED  BY <1>2, <1>3, <1>4, OneUpload DEF PersistSession, UploadsOK, RecordsOK

LEMMA StatusIsQueried ==
    ASSUME UploadsOK, NEW u \in Uploads, QueryStatus(u)
    PROVE  UploadsOK'
<1>1. uploader[u].pc = "query" /\ kept[u]
  BY DEF QueryStatus, UploadAt, UploadsOK, OneUploadOK, SessionOK
<1>2. session[u].state \in {"open", "gone", "done"} /\ session[u].held \in 0..VideoBlocks
  BY <1>1 DEF UploadsOK, RecordsOK, OneUploadOK, SessionOK, SessionRecords
<1>3. CASE session[u].state = "done"
  BY <1>3, AttemptMoves DEF QueryStatus, UploadPCs
<1>4. CASE session[u].state = "gone"
  BY <1>1, <1>4, AttemptMoves DEF QueryStatus, UploadPCs
<1>5. CASE session[u].state = "open"
  <2>1. uploader' = [uploader EXCEPT ![u] = Resume(u, session[u].held)]
    BY <1>5 DEF QueryStatus, SetUploader
  <2>2. PICK a \in Attempts : /\ a.pc = "rehash" /\ a.off = session[u].held /\ a.hashed = 0
                              /\ uploader' = [uploader EXCEPT ![u] = a]
    <3>1. \A k \in 0..VideoBlocks : /\ Resume(u, k) \in Attempts /\ Resume(u, k).pc = "rehash"
                                    /\ Resume(u, k).off = k /\ Resume(u, k).hashed = 0
      BY ResumesAt
    <3> QED  BY <1>2, <2>1, <3>1
  <2>3. OneUploadOK(changed[u], kept[u], session[u], videos[u], a)
    BY <1>1, <2>2 DEF UploadsOK, RecordsOK, OneUploadOK, SessionOK, DigestOK, Noticed, SessionRecords
  <2> QED  BY <2>2, <2>3, OnlyAttempt DEF QueryStatus
<1> QED  BY <1>2, <1>3, <1>4, <1>5

LEMMA BlockIsRehashed ==
    ASSUME UploadsOK, NEW u \in Uploads, RehashBlock(u)
    PROVE  UploadsOK'
<1> DEFINE a == uploader[u]
<1>1. a \in Attempts /\ a.pc = "rehash" /\ OneUploadOK(changed[u], kept[u], session[u], videos[u], a)
  BY DEF RehashBlock, UploadAt, UploadsOK, RecordsOK
<1>2. a.off = session[u].held /\ changed[u] \subseteq 1..VideoBlocks /\ session[u].held \in 0..VideoBlocks
  BY <1>1 DEF OneUploadOK, SessionOK, UploadsOK, RecordsOK, SessionRecords
<1>3. CASE a.hashed < a.off
  <2> DEFINE good == a.ok /\ a.hashed + 1 \notin changed[u]
             r == [a EXCEPT !.hashed = a.hashed + 1, !.ok = good]
  <2>1. uploader' = [uploader EXCEPT ![u] = r]
    BY <1>3 DEF RehashBlock, SetUploader
  <2> HIDE DEF a
  <2>2. /\ r \in Attempts /\ r.pc = "rehash" /\ r.off = a.off /\ r.hashed = a.hashed + 1
        /\ r.ok = good
    <3>1. good \in BOOLEAN /\ a.hashed + 1 \in 0..VideoBlocks
      BY <1>1, <1>3 DEF Attempts
    <3> HIDE DEF good
    <3> QED  BY <1>1, <3>1 DEF Attempts
  <2> HIDE DEF r
  <2>3. SessionOK(kept[u], session[u], videos[u], r)
    BY <1>1, <2>2 DEF OneUploadOK, SessionOK
  <2>4. ASSUME NEW b \in changed[u], Noticed(b, session[u], a) PROVE Noticed(b, session[u], r)
    BY <1>1, <1>2, <2>2, <2>4 DEF Noticed, Attempts
  <2>5. DigestOK(changed[u], session[u], videos[u], r)
    BY <1>1, <2>2, <2>4 DEF OneUploadOK, DigestOK
  <2> QED  BY <2>1, <2>2, <2>3, <2>5, OnlyAttempt DEF RehashBlock, OneUploadOK
<1>4. CASE ~(a.hashed < a.off)
  <2> DEFINE r == [a EXCEPT !.pc = "chunk"]
  <2>1. uploader' = [uploader EXCEPT ![u] = r]
    BY <1>4 DEF RehashBlock, SetUploader
  <2> HIDE DEF a
  <2>2. r \in Attempts /\ r.pc = "chunk" /\ r.off = a.off /\ r.ok = a.ok
    BY <1>1 DEF Attempts, UploadPCs
  <2> HIDE DEF r
  <2>3. SessionOK(kept[u], session[u], videos[u], r)
    BY <1>1, <2>2 DEF OneUploadOK, SessionOK
  <2>4. ASSUME NEW b \in changed[u], Noticed(b, session[u], a) PROVE Noticed(b, session[u], r)
    BY <1>1, <1>2, <1>4, <2>2, <2>4 DEF Noticed, Attempts
  <2>5. DigestOK(changed[u], session[u], videos[u], r)
    BY <1>1, <2>2, <2>4 DEF OneUploadOK, DigestOK
  <2> QED  BY <2>1, <2>2, <2>3, <2>5, OnlyAttempt DEF RehashBlock, OneUploadOK
<1> QED  BY <1>3, <1>4

\* Where a chunk ends.
LEMMA ChunkEnds ==
    ASSUME UploadsOK, NEW u \in Uploads
    PROVE  /\ ChunkEnd(u) \in 0..VideoBlocks
           /\ ChunkEnd(u) < VideoBlocks <=> uploader[u].off + ChunkBlocks < VideoBlocks
BY DEF UploadsOK, RecordsOK, Attempts, ChunkEnd

\* An expired or cancelled session keeps what it holds.
LEMMA SessionEnds ==
    ASSUME UploadsOK, NEW u \in Uploads, NEW a \in Attempts,
           session' = [session EXCEPT ![u].state = "gone"], session[u].state # "none",
           uploader' = [uploader EXCEPT ![u] = a], a = uploader[u] \/ a.pc = "failed",
           UNCHANGED <<changed, kept, videos>>
    PROVE  UploadsOK'
<1> DEFINE s == [session[u] EXCEPT !.state = "gone"]
<1>1. s \in SessionRecords /\ s.state = "gone" /\ s.held = session[u].held /\ s.ok = session[u].ok
  BY DEF UploadsOK, RecordsOK, SessionRecords
<1>2. session' = [session EXCEPT ![u] = s]
  BY DEF UploadsOK, RecordsOK
<1> HIDE DEF s
<1>3. RecordsOK' /\ session'[u] = s /\ uploader'[u] = a
  BY <1>1, <1>2 DEF UploadsOK, RecordsOK
<1>4. OneUploadOK(changed[u], kept[u], session[u], videos[u], a)
  BY Elsewhere DEF UploadsOK, RecordsOK
<1>5. OneUploadOK(changed[u], kept[u], s, videos[u], a)
  BY <1>1, <1>4 DEF OneUploadOK, SessionOK, DigestOK, Noticed
<1> QED  BY <1>2, <1>3, <1>5, OneUpload DEF UploadsOK, RecordsOK

LEMMA ChunkIsRead ==
    ASSUME UploadsOK, NEW u \in Uploads, ReadChunk(u)
    PROVE  UploadsOK'
<1> DEFINE a == uploader[u]
           bad == changed[u] \cap (a.off + 1 .. ChunkEnd(u))
           ok == a.ok /\ bad = {}
<1>1. a \in Attempts /\ a.pc = "chunk" /\ OneUploadOK(changed[u], kept[u], session[u], videos[u], a)
  BY DEF ReadChunk, UploadAt, UploadsOK, RecordsOK
<1>2. CASE a.off >= VideoBlocks
  BY <1>2, AttemptMoves DEF ReadChunk, UploadPCs
<1>3. CASE ~(a.off >= VideoBlocks) /\ MaySend(u, ok)
  <2> DEFINE r == [a EXCEPT !.pc = "send", !.ok = ok, !.hashed = ChunkEnd(u), !.bad = bad]
  <2>1. uploader' = [uploader EXCEPT ![u] = r] /\ UNCHANGED <<changed, kept, session, videos>>
    BY <1>3 DEF ReadChunk, SetUploader
  <2>2. ok \in BOOLEAN /\ bad \in SUBSET AllBlocks /\ ChunkEnd(u) \in 0..VideoBlocks /\ bad \subseteq changed[u]
        /\ (ok => bad = {} /\ a.ok) /\ (a.off + ChunkBlocks >= VideoBlocks => ok)
    BY <1>1, <1>3, ChunkEnds DEF UploadsOK, RecordsOK, MaySend, Attempts
  <2> HIDE DEF a, ok, bad
  <2>3. r \in Attempts /\ r.pc = "send" /\ r.off = a.off /\ r.ok = ok /\ r.bad = bad
    BY <1>1, <2>2 DEF Attempts, UploadPCs
  <2> HIDE DEF r
  <2>4. SessionOK(kept[u], session[u], videos[u], r)
    BY <1>1, <2>3 DEF OneUploadOK, SessionOK
  <2>5. ASSUME NEW b \in changed[u], Noticed(b, session[u], a) PROVE Noticed(b, session[u], r)
    BY <1>1, <2>2, <2>3, <2>5 DEF Noticed
  <2>6. DigestOK(changed[u], session[u], videos[u], r)
    BY <1>1, <2>2, <2>3, <2>5 DEF OneUploadOK, DigestOK
  <2> QED  BY <2>1, <2>3, <2>4, <2>6, OnlyAttempt DEF OneUploadOK
<1>4. CASE ~(a.off >= VideoBlocks) /\ ~MaySend(u, ok)
  <2>1. EndAttempt(u, "failed") /\ UNCHANGED <<changed, kept, videos>>
    BY <1>4 DEF ReadChunk
  <2>2. CASE UNCHANGED session
    BY <2>1, <2>2, AttemptMoves DEF UploadPCs
  <2>3. CASE session' = [session EXCEPT ![u].state = IF @ = "open" THEN "gone" ELSE @]
    <3>1. CASE session[u].state = "open"
      <4>1. PICK f \in Attempts : f.pc = "failed" /\ uploader' = [uploader EXCEPT ![u] = f]
        BY <2>1, EndsAt DEF EndAttempt, SetUploader, UploadPCs
      <4>2. session' = [session EXCEPT ![u].state = "gone"]
        BY <2>3, <3>1 DEF UploadsOK, RecordsOK, SessionRecords
      <4> QED  BY <2>1, <3>1, <4>1, <4>2, SessionEnds
    <3>2. CASE session[u].state # "open"
      <4>1. UNCHANGED session
        BY <2>3, <3>2 DEF UploadsOK, RecordsOK, SessionRecords
      <4> QED  BY <2>1, <4>1, AttemptMoves DEF UploadPCs
    <3> QED  BY <3>1, <3>2
  <2> QED  BY <1>4, <2>2, <2>3 DEF ReadChunk
<1> QED  BY <1>2, <1>3, <1>4

\* Google keeps a chunk: if a block of it is wrong, the digest knows; the last
\* one completes the approved video, and the first.
LEMMA ChunkIsKept ==
    ASSUME UploadsOK, NEW u \in Uploads, NEW k \in AllBlocks, NEW b \in Attempts,
           SendChunk(u, k), uploader' = [uploader EXCEPT ![u] = b],
           \/ b.pc = "chunk" /\ b.off = k /\ b.ok = uploader[u].ok
           \/ b.pc = "rehash" /\ b.off = k /\ b.hashed = 0
           \/ b.pc \in {"idle", "done"}
    PROVE  UploadsOK'
<1> DEFINE a == uploader[u]
           good == session[u].ok /\ a.bad \cap (session[u].held + 1 .. k) = {}
           full == k = VideoBlocks
           s == [state |-> IF full THEN "done" ELSE "open", held |-> k, ok |-> good]
           w == IF full THEN [n |-> videos[u].n + 1, ok |-> videos[u].ok /\ good] ELSE videos[u]
<1>1. /\ a \in Attempts /\ a.pc = "send" /\ OneUploadOK(changed[u], kept[u], session[u], videos[u], a)
      /\ session[u].state = "open" /\ k > session[u].held /\ k <= ChunkEnd(u)
  BY DEF SendChunk, UploadAt, UploadsOK, RecordsOK, SessionRecords, Attempts, ChunkEnd
<1>2. /\ session' = [session EXCEPT ![u] = s]
      /\ videos' = IF full THEN [videos EXCEPT ![u] = [n |-> @.n + 1, ok |-> @.ok /\ good]] ELSE videos
      /\ UNCHANGED <<changed, kept>>
  BY DEF SendChunk, Keep
<1>3. videos' = [videos EXCEPT ![u] = w]
  BY <1>2 DEF UploadsOK, RecordsOK
<1>4. /\ session[u] \in SessionRecords /\ videos[u] \in VideoRecords /\ changed[u] \subseteq 1..VideoBlocks
      /\ kept[u] /\ videos[u].n = 0 /\ videos[u].ok
  BY <1>1 DEF UploadsOK, RecordsOK, OneUploadOK, SessionOK, DigestOK, VideoRecords
<1>5. good \in BOOLEAN
  BY <1>4 DEF SessionRecords
<1>6. full => a.ok
  BY <1>1, ChunkEnds DEF OneUploadOK, DigestOK, Attempts
<1>7. ~good => \E x \in changed[u] : x <= k /\ ~a.ok
  <2>1. CASE ~session[u].ok
    BY <1>1, <1>4, <2>1 DEF OneUploadOK, DigestOK, Noticed, SessionRecords
  <2>2. CASE a.bad \cap (session[u].held + 1 .. k) # {}
    BY <1>1, <1>4, <2>2 DEF OneUploadOK, DigestOK, SessionRecords
  <2> QED  BY <2>1, <2>2
<1>8. full => good
  BY <1>6, <1>7
<1> HIDE DEF good, a
<1>9. s \in SessionRecords /\ s.held = k /\ s.ok = good /\ s.state # "none" /\ (~full => s.state = "open")
      /\ (full => s.state = "done")
  BY <1>5 DEF SessionRecords
<1>10. w \in VideoRecords /\ w.ok /\ w.n <= 1 /\ (w.n > 0 => full)
  BY <1>4, <1>5, <1>8 DEF VideoRecords
<1> HIDE DEF s, w, full
<1>11. RecordsOK' /\ session'[u] = s /\ videos'[u] = w /\ uploader'[u] = b
  BY <1>2, <1>3, <1>9, <1>10 DEF UploadsOK, RecordsOK
<1>12. SessionOK(kept[u], s, w, b)
  BY <1>4, <1>9, <1>10 DEF SessionOK
<1>13. DigestOK(changed[u], s, w, b)
  <2>1. good \/ \E x \in changed[u] : Noticed(x, s, b)
    BY <1>4, <1>7, <1>9 DEF Noticed, a
  <2> QED  BY <1>9, <1>10, <2>1 DEF DigestOK
<1> QED  BY <1>2, <1>3, <1>11, <1>12, <1>13, OneUpload DEF OneUploadOK, UploadsOK, RecordsOK

LEMMA ChunkIsSent ==
    ASSUME UploadsOK, NEW u \in Uploads, NEW k \in AllBlocks, SendChunk(u, k)
    PROVE  UploadsOK'
<1>1. CASE SetUploader(u, [uploader[u] EXCEPT !.pc = "chunk", !.off = k, !.bad = {}])
  <2> DEFINE b == [uploader[u] EXCEPT !.pc = "chunk", !.off = k, !.bad = {}]
  <2>1. b \in Attempts /\ b.pc = "chunk" /\ b.off = k /\ b.ok = uploader[u].ok
    <3> DEFINE a == uploader[u]
    <3>1. a \in Attempts /\ {} \in SUBSET AllBlocks /\ k \in 0..VideoBlocks
      BY DEF UploadsOK, RecordsOK
    <3> HIDE DEF a
    <3>2. LET c == [a EXCEPT !.pc = "chunk", !.off = k, !.bad = {}]
          IN  c \in Attempts /\ c.pc = "chunk" /\ c.off = k /\ c.ok = a.ok
      BY <3>1 DEF Attempts, UploadPCs
    <3> QED  BY <3>2 DEF a
  <2>2. PICK c \in Attempts : /\ c.pc = "chunk" /\ c.off = k /\ c.ok = uploader[u].ok
                              /\ uploader' = [uploader EXCEPT ![u] = c]
    BY <1>1, <2>1 DEF SetUploader
  <2> QED  BY <2>2, ChunkIsKept
<1>2. CASE SetUploader(u, Resume(u, k))
  <2>1. PICK b \in Attempts : b.pc = "rehash" /\ b.off = k /\ b.hashed = 0 /\ uploader' = [uploader EXCEPT ![u] = b]
    <3>1. k \in 0..VideoBlocks
      OBVIOUS
    <3>2. /\ Resume(u, k) \in Attempts /\ Resume(u, k).pc = "rehash" /\ Resume(u, k).off = k
          /\ Resume(u, k).hashed = 0
      BY <3>1, ResumesAt
    <3> QED  BY <1>2, <3>2 DEF SetUploader
  <2> QED  BY <2>1, ChunkIsKept
<1>3. CASE EndAttempt(u, "done") \/ EndAttempt(u, "idle")
  <2>1. PICK b \in Attempts : b.pc \in {"idle", "done"} /\ uploader' = [uploader EXCEPT ![u] = b]
    BY <1>3, EndsAt DEF EndAttempt, SetUploader, UploadPCs
  <2> QED  BY <2>1, ChunkIsKept
<1> QED  BY <1>1, <1>2, <1>3 DEF SendChunk

LEMMA TagIsLookedUp ==
    ASSUME UploadsOK, NEW u \in Uploads, DedupeByTag(u)
    PROVE  UploadsOK'
<1>1. CASE EndAttempt(u, "snoozed") /\ UNCHANGED kept
  BY <1>1, AttemptMoves DEF DedupeByTag, UploadPCs
<1>2. CASE /\ kept' = [kept EXCEPT ![u] = FoundByTag(u)]
           /\ EndAttempt(u, IF FoundByTag(u) THEN "done" ELSE "idle")
  <2>1. PICK b \in Attempts : b.pc \in {"idle", "done"} /\ uploader' = [uploader EXCEPT ![u] = b]
    BY <1>2, EndsAt DEF EndAttempt, SetUploader, UploadPCs
  <2>2. RecordsOK' /\ kept'[u] = FoundByTag(u) /\ uploader'[u] = b /\ FoundByTag(u) \in BOOLEAN
    BY <1>2, <2>1 DEF DedupeByTag, UploadsOK, RecordsOK, FoundByTag
  <2>3. kept[u]
    BY DEF DedupeByTag, UploadAt, UploadsOK, OneUploadOK, SessionOK
  <2>4. OneUploadOK(changed[u], FoundByTag(u), session[u], videos[u], b)
    BY <2>1, <2>3 DEF UploadsOK, RecordsOK, OneUploadOK, SessionOK, DigestOK, Noticed, FoundByTag, VideoRecords
  <2> QED  BY <1>2, <2>1, <2>2, <2>4, OneUpload DEF DedupeByTag, UploadsOK, RecordsOK
<1> QED  BY <1>1, <1>2 DEF DedupeByTag

LEMMA ObjectIsReplaced ==
    ASSUME UploadsOK, NEW u \in Uploads, NEW S \in SUBSET AllBlocks, ReplaceObject(u, S)
    PROVE  UploadsOK'
<1>1. RecordsOK' /\ changed'[u] = S
  BY DEF ReplaceObject, UploadsOK, RecordsOK
<1>2. OneUploadOK(S, kept[u], session[u], videos[u], uploader[u])
  BY DEF ReplaceObject, UploadsOK, RecordsOK, OneUploadOK, DigestOK
<1> QED  BY <1>1, <1>2, OneUpload DEF ReplaceObject, UploadsOK, RecordsOK

LEMMA MidnightKeepsUploads ==
    ASSUME UploadsOK, Midnight
    PROVE  UploadsOK'
<1> DEFINE r(u) == [uploader[u] EXCEPT !.pc = AfterReset(@), !.today = (uploader[u].pc # "open")]
<1>1. ASSUME NEW u \in Uploads
      PROVE  /\ r(u) \in Attempts /\ r(u).off = uploader[u].off /\ r(u).hashed = uploader[u].hashed
             /\ r(u).ok = uploader[u].ok /\ r(u).bad = uploader[u].bad
             /\ r(u).pc = uploader[u].pc \/ (uploader[u].pc = "snoozed" /\ r(u).pc = "idle")
  <2> DEFINE before == (uploader[u].pc # "open")
             l == AfterReset(uploader[u].pc)
  <2>1. /\ before \in BOOLEAN /\ l \in UploadPCs /\ uploader[u] \in Attempts
        /\ l = uploader[u].pc \/ (uploader[u].pc = "snoozed" /\ l = "idle")
    BY DEF UploadsOK, RecordsOK, Attempts, AfterReset, UploadPCs
  <2>2. r(u) = [uploader[u] EXCEPT !.pc = l, !.today = before]
    BY <2>1 DEF Attempts
  <2> HIDE DEF r, before, l
  <2> QED  BY <2>1, <2>2 DEF Attempts
<1>2. uploader' = [u \in Uploads |-> r(u)]
  BY DEF Midnight
<1> HIDE DEF r
<1>3. RecordsOK'
  <2>1. uploader' \in [Uploads -> Attempts]
    BY <1>1, <1>2
  <2> QED  BY <2>1 DEF Midnight, UploadsOK, RecordsOK
<1>4. ASSUME NEW u \in Uploads PROVE OneUploadOK(changed[u], kept[u], session[u], videos[u], r(u))
  <2>1. OneUploadOK(changed[u], kept[u], session[u], videos[u], uploader[u])
    BY DEF UploadsOK
  <2>2. CASE r(u).pc = uploader[u].pc
    <3>1. SessionOK(kept[u], session[u], videos[u], r(u))
      BY <1>1, <2>1, <2>2 DEF OneUploadOK, SessionOK
    <3>2. \A b : Noticed(b, session[u], uploader[u]) => Noticed(b, session[u], r(u))
      BY <1>1, <2>2 DEF Noticed
    <3>3. DigestOK(changed[u], session[u], videos[u], r(u))
      BY <1>1, <2>1, <2>2, <3>2 DEF OneUploadOK, DigestOK
    <3> QED  BY <3>1, <3>3 DEF OneUploadOK
  <2>3. CASE uploader[u].pc = "snoozed" /\ r(u).pc = "idle"
    <3>1. SessionOK(kept[u], session[u], videos[u], r(u))
      BY <2>1, <2>3 DEF OneUploadOK, SessionOK
    <3>2. \A b : Noticed(b, session[u], uploader[u]) => Noticed(b, session[u], r(u))
      BY <2>3 DEF Noticed
    <3>3. DigestOK(changed[u], session[u], videos[u], r(u))
      BY <2>1, <2>3, <3>2 DEF OneUploadOK, DigestOK
    <3> QED  BY <3>1, <3>3 DEF OneUploadOK
  <2> QED  BY <1>1, <2>2, <2>3
<1> QED  BY <1>2, <1>3, <1>4 DEF Midnight, UploadsOK

LEMMA UploadsStep == UploadsOK /\ [UploadNext]_uploadVars => UploadsOK'
<1> SUFFICES ASSUME UploadsOK, [UploadNext]_uploadVars PROVE UploadsOK'
  OBVIOUS
<1>1. ASSUME NEW u \in Uploads, UploadStep(u) PROVE UploadsOK'
  <2>1. CASE BeginUpload(u)
    BY <2>1, AttemptMoves DEF BeginUpload, UploadPCs, UploadsOK, RecordsOK
  <2>2. CASE ReserveInsert(u)
    <3>1. ~kept[u]
      BY <2>2 DEF ReserveInsert, UploadAt, UploadsOK, OneUploadOK, SessionOK
    <3> QED  BY <2>2, <3>1, AttemptMoves DEF ReserveInsert, UploadPCs
  <2>3. CASE SendToGone(u)
    <3>1. kept[u]
      BY <2>3 DEF SendToGone, UploadAt, UploadsOK, OneUploadOK, SessionOK
    <3> QED  BY <2>3, <3>1, AttemptMoves DEF SendToGone, UploadPCs
  <2> QED  BY <1>1, <2>1, <2>2, <2>3, SessionIsOpened, SessionIsPersisted, StatusIsQueried,
              BlockIsRehashed, ChunkIsRead, ChunkIsSent, TagIsLookedUp DEF UploadStep
<1>2. ASSUME NEW u \in Uploads, CallFails(u) \/ UploadCrash(u) PROVE UploadsOK'
  BY <1>2, AttemptMoves DEF CallFails, UploadCrash, UploadPCs
<1>3. ASSUME NEW u \in Uploads, SessionExpires(u) PROVE UploadsOK'
  <2>1. /\ session' = [session EXCEPT ![u].state = "gone"] /\ session[u].state # "none"
        /\ uploader[u] \in Attempts /\ uploader' = [uploader EXCEPT ![u] = uploader[u]]
        /\ UNCHANGED <<changed, kept, videos>>
    BY <1>3 DEF SessionExpires, UploadsOK, RecordsOK
  <2>2. PICK a \in Attempts : a = uploader[u]
    BY <2>1
  <2>3. uploader' = [uploader EXCEPT ![u] = a]
    BY <2>1, <2>2
  <2> QED  BY <2>1, <2>2, <2>3, SessionEnds
<1>4. CASE UNCHANGED uploadVars
  BY <1>4 DEF uploadVars, UploadsOK, RecordsOK
<1> QED  BY <1>1, <1>2, <1>3, <1>4, ObjectIsReplaced, MidnightKeepsUploads DEF UploadNext

-----------------------------------------------------------------------------
(* The ledger *)

\* A step that opens no session and spends no more than it adds.
LEMMA NoNewReservation ==
    ASSUME LedgerOK, OpenToday' \subseteq OpenToday, NEW n \in Nat,
           units' \in Nat, units + n <= units', units' <= DailyLimit, spent' = spent + n,
           uploadFaults' \in 0..MaxUploadFaults
    PROVE  LedgerOK'
<1>1. /\ IsFiniteSet(OpenToday') /\ Cardinality(OpenToday') <= Cardinality(OpenToday)
      /\ Cardinality(OpenToday) \in Nat /\ Cardinality(OpenToday') \in Nat
  BY FS_Subset, FS_CardinalityType DEF LedgerOK
<1>2. ASSUME NEW c \in Nat, NEW d \in Nat, c <= d PROVE c * InsertCost <= d * InsertCost
  BY <1>2
<1>3. Cardinality(OpenToday') * InsertCost <= Cardinality(OpenToday) * InsertCost
      /\ Cardinality(OpenToday) * InsertCost \in Nat /\ Cardinality(OpenToday') * InsertCost \in Nat
  BY <1>1, <1>2
<1> QED  BY <1>1, <1>3 DEF LedgerOK

LEMMA LedgerInit == UploadInit => LedgerOK
<1> SUFFICES ASSUME UploadInit PROVE LedgerOK
  OBVIOUS
<1>1. OpenToday = {}
  BY NotUploadingIs DEF UploadInit, OpenToday
<1> QED  BY <1>1, FS_EmptySet DEF UploadInit, LedgerOK

\* Where an attempt goes that does not hold a reservation afterwards.
LEMMA NotOpen ==
    ASSUME UploadsOK, NEW u \in Uploads, NEW b, uploader' = [uploader EXCEPT ![u] = b], b.pc # "open"
    PROVE  OpenToday' = OpenToday \ {u}
BY DEF OpenToday, UploadsOK, RecordsOK

LEMMA EndNotOpen ==
    ASSUME UploadsOK, NEW u \in Uploads, NEW l \in UploadPCs, EndAttempt(u, l), l # "open"
    PROVE  OpenToday' = OpenToday \ {u}
<1>1. [NotUploading EXCEPT !.pc = l].pc = l
  BY EndsAt
<1> QED  BY <1>1, NotOpen DEF EndAttempt, SetUploader

LEMMA FaultsCounted ==
    ASSUME LedgerOK, NEW f, SpendUpload(f)
    PROVE  uploadFaults' \in 0..MaxUploadFaults
BY DEF LedgerOK, SpendUpload

LEMMA InsertIsReserved ==
    ASSUME UploadsOK, LedgerOK, NEW u \in Uploads, ReserveInsert(u)
    PROVE  LedgerOK'
<1>1. CASE Fits(InsertCost)
  <2>1. units' = units + InsertCost /\ EndAttempt(u, "open") /\ uploader[u].pc = "reserve"
        /\ UNCHANGED <<spent, uploadFaults>>
    BY <1>1 DEF ReserveInsert, UploadAt
  <2>2. LET b == [NotUploading EXCEPT !.pc = "open"] IN b.pc = "open" /\ b.today = TRUE
    BY EndsAt DEF UploadPCs
  <2>3. OpenToday' = OpenToday \cup {u} /\ u \notin OpenToday
    BY <2>1, <2>2 DEF EndAttempt, SetUploader, OpenToday, UploadsOK, RecordsOK
  <2>4. /\ IsFiniteSet(OpenToday') /\ Cardinality(OpenToday') = Cardinality(OpenToday) + 1
        /\ Cardinality(OpenToday) \in Nat
    BY <2>3, FS_AddElement, FS_CardinalityType DEF LedgerOK
  <2>5. ASSUME NEW c \in Nat PROVE c * InsertCost \in Nat /\ (c + 1) * InsertCost = c * InsertCost + InsertCost
    OBVIOUS
  <2>6. /\ Cardinality(OpenToday) * InsertCost \in Nat
        /\ Cardinality(OpenToday') * InsertCost = Cardinality(OpenToday) * InsertCost + InsertCost
    BY <2>4, <2>5
  <2> QED  BY <1>1, <2>1, <2>4, <2>6 DEF LedgerOK, Fits
<1>2. CASE ~Fits(InsertCost)
  <2>1. OpenToday' \subseteq OpenToday
    BY <1>2, EndNotOpen DEF ReserveInsert, UploadPCs
  <2> QED  BY <1>2, <2>1, NoNewReservation DEF ReserveInsert, LedgerOK
<1> QED  BY <1>1, <1>2

LEMMA ReservationIsSpent ==
    ASSUME UploadsOK, LedgerOK, NEW u \in Uploads, OpenSession(u)
    PROVE  LedgerOK'
<1>1. OpenToday' = OpenToday \ {u}
  BY EndNotOpen DEF OpenSession, UploadPCs
<1>2. /\ units' \in Nat /\ units <= units' /\ units' <= DailyLimit
      /\ uploadFaults' \in 0..MaxUploadFaults
  <2>1. CASE UNCHANGED <<units, uploadFaults>>
    BY <2>1 DEF LedgerOK
  <2>2. CASE SpendUpload("quota") /\ MarkExhausted
    BY <2>2, FaultsCounted DEF LedgerOK, MarkExhausted
  <2> QED  BY <2>1, <2>2 DEF OpenSession
<1>3. CASE ~uploader[u].today
  BY <1>1, <1>2, <1>3, NoNewReservation DEF OpenSession, LedgerOK
<1>4. CASE uploader[u].today
  <2>1. u \in OpenToday /\ spent' = spent + InsertCost
    BY <1>4 DEF OpenSession, UploadAt, OpenToday
  <2>2. /\ IsFiniteSet(OpenToday') /\ Cardinality(OpenToday') = Cardinality(OpenToday) - 1
        /\ Cardinality(OpenToday) \in Nat /\ Cardinality(OpenToday') \in Nat
    BY <1>1, <2>1, FS_RemoveElement, FS_CardinalityType DEF LedgerOK
  <2>3. ASSUME NEW c \in Nat PROVE c * InsertCost \in Nat /\ (c + 1) * InsertCost = c * InsertCost + InsertCost
    OBVIOUS
  <2>4. /\ Cardinality(OpenToday') * InsertCost \in Nat /\ Cardinality(OpenToday') + 1 = Cardinality(OpenToday)
        /\ (Cardinality(OpenToday') + 1) * InsertCost = Cardinality(OpenToday') * InsertCost + InsertCost
    BY <2>2, <2>3
  <2> QED  BY <1>2, <2>1, <2>2, <2>4 DEF LedgerOK
<1> QED  BY <1>3, <1>4

LEMMA LedgerStep == UploadsOK /\ LedgerOK /\ [UploadNext]_uploadVars => LedgerOK'
<1> SUFFICES ASSUME UploadsOK, LedgerOK, [UploadNext]_uploadVars PROVE LedgerOK'
  OBVIOUS
<1>1. ASSUME OpenToday' \subseteq OpenToday, UNCHANGED quotaVars, uploadFaults' \in 0..MaxUploadFaults
      PROVE  LedgerOK'
  BY <1>1, NoNewReservation DEF quotaVars, LedgerOK
<1>2. uploadFaults \in 0..MaxUploadFaults
  BY DEF LedgerOK
<1>3. ASSUME NEW u \in Uploads, UploadStep(u) PROVE LedgerOK'
  <2>1. CASE BeginUpload(u) \/ PersistSession(u) \/ SendToGone(u)
    BY <1>1, <1>2, <2>1, EndNotOpen DEF BeginUpload, PersistSession, SendToGone, UploadPCs
  <2>2. CASE QueryStatus(u)
    <3>1. session[u].state \in {"open", "gone", "done"} /\ session[u].held \in 0..VideoBlocks
      BY <2>2 DEF QueryStatus, UploadAt, UploadsOK, RecordsOK, OneUploadOK, SessionOK, SessionRecords
    <3>2. Resume(u, session[u].held).pc # "open"
      BY <3>1, ResumesAt
    <3>4. CASE session[u].state = "open"
      <4>1. uploader' = [uploader EXCEPT ![u] = Resume(u, session[u].held)]
        BY <2>2, <3>4 DEF QueryStatus, SetUploader
      <4> QED  BY <1>1, <1>2, <2>2, <3>2, <4>1 DEF QueryStatus, OpenToday, UploadsOK, RecordsOK
    <3>5. CASE session[u].state \in {"gone", "done"}
      <4>1. EndAttempt(u, "done") \/ EndAttempt(u, "dedupe")
        BY <2>2, <3>5 DEF QueryStatus
      <4> QED  BY <1>1, <1>2, <2>2, <4>1, EndNotOpen DEF QueryStatus, UploadPCs
    <3> QED  BY <3>1, <3>4, <3>5
  <2>3. CASE RehashBlock(u) \/ ReadChunk(u) \/ \E k \in AllBlocks : SendChunk(u, k)
    <3>1. uploader'[u].pc # "open" /\ \A v \in Uploads \ {u} : uploader'[v] = uploader[v]
      <4>1. PICK b : uploader' = [uploader EXCEPT ![u] = b] /\ b.pc # "open"
        <5> DEFINE a == uploader[u]
        <5>1. a \in Attempts
          BY DEF UploadsOK, RecordsOK
        <5>2. CASE RehashBlock(u)
          <6>1. \/ uploader' = [uploader EXCEPT ![u] = [a EXCEPT !.hashed = @ + 1,
                                                    !.ok = @ /\ a.hashed + 1 \notin changed[u]]]
                \/ uploader' = [uploader EXCEPT ![u] = [a EXCEPT !.pc = "chunk"]]
            BY <5>2 DEF RehashBlock, SetUploader
          <6>2. a.pc = "rehash"
            BY <5>2 DEF RehashBlock, UploadAt
          <6> HIDE DEF a
          <6>3. /\ [a EXCEPT !.hashed = @ + 1, !.ok = @ /\ a.hashed + 1 \notin changed[u]].pc # "open"
                /\ [a EXCEPT !.pc = "chunk"].pc # "open"
            BY <5>1, <6>2 DEF Attempts
          <6> QED  BY <6>1, <6>3
        <5>3. CASE ReadChunk(u)
          <6> DEFINE bad == changed[u] \cap (a.off + 1 .. ChunkEnd(u))
                     ok == a.ok /\ bad = {}
          <6>1. \/ uploader' = [uploader EXCEPT ![u] = [a EXCEPT !.pc = "send", !.ok = ok,
                                                                 !.hashed = ChunkEnd(u), !.bad = bad]]
                \/ EndAttempt(u, "idle") \/ EndAttempt(u, "failed")
            BY <5>3 DEF ReadChunk, SetUploader
          <6> HIDE DEF a, bad, ok
          <6>2. [a EXCEPT !.pc = "send", !.ok = ok, !.hashed = ChunkEnd(u), !.bad = bad].pc # "open"
            BY <5>1 DEF Attempts
          <6>3. [NotUploading EXCEPT !.pc = "idle"].pc # "open" /\ [NotUploading EXCEPT !.pc = "failed"].pc # "open"
            BY EndsAt DEF UploadPCs
          <6> QED  BY <6>1, <6>2, <6>3 DEF EndAttempt, SetUploader
        <5>4. ASSUME NEW k \in AllBlocks, SendChunk(u, k)
              PROVE  \E b : uploader' = [uploader EXCEPT ![u] = b] /\ b.pc # "open"
          <6>1. \/ uploader' = [uploader EXCEPT ![u] = [a EXCEPT !.pc = "chunk", !.off = k, !.bad = {}]]
                \/ uploader' = [uploader EXCEPT ![u] = Resume(u, k)]
                \/ EndAttempt(u, "done") \/ EndAttempt(u, "idle")
            BY <5>4 DEF SendChunk, SetUploader
          <6> HIDE DEF a
          <6>2. [a EXCEPT !.pc = "chunk", !.off = k, !.bad = {}].pc # "open"
            BY <5>1 DEF Attempts
          <6>3. k \in 0..VideoBlocks
            OBVIOUS
          <6>4. Resume(u, k).pc # "open"
            BY <6>3, ResumesAt
          <6>5. [NotUploading EXCEPT !.pc = "idle"].pc # "open" /\ [NotUploading EXCEPT !.pc = "done"].pc # "open"
            BY EndsAt DEF UploadPCs
          <6> QED  BY <6>1, <6>2, <6>4, <6>5 DEF EndAttempt, SetUploader
        <5> QED  BY <2>3, <5>2, <5>3, <5>4
      <4> QED  BY <4>1 DEF UploadsOK, RecordsOK
    <3>2. OpenToday' \subseteq OpenToday
      BY <3>1 DEF OpenToday
    <3>3. uploadFaults' \in 0..MaxUploadFaults /\ UNCHANGED quotaVars
      BY <1>2, <2>3, FaultsCounted DEF RehashBlock, ReadChunk, SendChunk
    <3> QED  BY <1>1, <3>2, <3>3
  <2>4. CASE DedupeByTag(u)
    <3>1. OpenToday' \subseteq OpenToday
      BY <2>4, EndNotOpen DEF DedupeByTag, UploadPCs
    <3>2. CASE Fits(2 * ReadCost)
      BY <2>4, <3>1, <3>2, NoNewReservation DEF DedupeByTag, LedgerOK, Fits
    <3>3. CASE ~Fits(2 * ReadCost)
      BY <1>1, <1>2, <2>4, <3>1, <3>3 DEF DedupeByTag
    <3> QED  BY <3>2, <3>3
  <2> QED  BY <1>3, <2>1, <2>2, <2>3, <2>4, InsertIsReserved, ReservationIsSpent DEF UploadStep
<1>4. ASSUME NEW u \in Uploads, CallFails(u) \/ UploadCrash(u) PROVE LedgerOK'
  BY <1>1, <1>4, EndNotOpen, FaultsCounted DEF CallFails, UploadCrash, UploadPCs
<1>5. ASSUME NEW u \in Uploads, SessionExpires(u) \/ \E S \in SUBSET AllBlocks : ReplaceObject(u, S) PROVE LedgerOK'
  BY <1>1, <1>5, FaultsCounted DEF SessionExpires, ReplaceObject, OpenToday
<1>6. CASE Midnight
  <2>1. ASSUME NEW u \in Uploads PROVE u \notin OpenToday'
    BY <1>6 DEF Midnight, OpenToday, AfterReset, UploadsOK, RecordsOK, Attempts
  <2>2. OpenToday' = {}
    BY <2>1 DEF OpenToday
  <2>3. IsFiniteSet(OpenToday') /\ Cardinality(OpenToday') * InsertCost = 0
    BY <2>2, FS_EmptySet
  <2>4. units' = 0 /\ spent' = 0 /\ uploadFaults' = uploadFaults
    BY <1>6 DEF Midnight
  <2>5. spent' + Cardinality(OpenToday') * InsertCost <= units' /\ units' <= DailyLimit
    BY <2>3, <2>4
  <2> QED  BY <1>2, <2>3, <2>4, <2>5 DEF LedgerOK
<1>7. CASE UNCHANGED uploadVars
  BY <1>1, <1>2, <1>7 DEF uploadVars, quotaVars, OpenToday
<1> QED  BY <1>3, <1>4, <1>5, <1>6, <1>7 DEF UploadNext

-----------------------------------------------------------------------------
(* The theorem *)

LEMMA InvIsSafe == UploadsOK /\ LedgerOK => UploadSafe
<1> SUFFICES ASSUME UploadsOK, LedgerOK PROVE UploadSafe
  OBVIOUS
<1>1. UploadTypeOK
  BY DEF UploadsOK, LedgerOK, RecordsOK, UploadTypeOK, SessionRecords, VideoRecords, Attempts, UploadPCs
<1>2. VideoIsApproved /\ OneVideo
  BY DEF UploadsOK, OneUploadOK, DigestOK, SessionOK, VideoIsApproved, OneVideo
<1>3. PoolRespected
  <2>1. Cardinality(OpenToday) \in Nat
    BY FS_CardinalityType DEF LedgerOK
  <2>2. Cardinality(OpenToday) * InsertCost \in Nat
    BY <2>1
  <2> QED  BY <2>2 DEF LedgerOK, PoolRespected
<1> QED  BY <1>1, <1>2, <1>3 DEF UploadSafe

\* A publication makes at most one video, of the approved render, and the day's
\* calls fit in the day's pool: whatever answer, session or process is lost and
\* whenever the object is replaced (upload.go, quota.go).
THEOREM UploadsAreSafe == UploadSpec => []UploadSafe
<1>1. UploadInit => UploadsOK /\ LedgerOK
  BY UploadsInit, LedgerInit
<1>2. (UploadsOK /\ LedgerOK) /\ [UploadNext]_uploadVars => (UploadsOK /\ LedgerOK)'
  BY UploadsStep, LedgerStep
<1> QED  BY <1>1, <1>2, InvIsSafe, PTL DEF UploadSpec

-----------------------------------------------------------------------------

(***************************************************************************)
(* The analytics of a channel have no hole and no stale figure, its reach  *)
(* reports are read in order, and only the owner reconnects it: for any    *)
(* videos, windows and numbers of days, attempts and faults.               *)
(*                                                                         *)
(* The inductive invariant has one part for the types, and one each for    *)
(* the job, the figures, the reports and the owner's request.              *)
(***************************************************************************)

HIDE UploadAssumption DEF AllBlocks

SyncRecords ==
    [pc : {"none", "start", "open", "daily", "videos", "reports", "ingest", "advance", "finish", "fail", "record"},
     cursor : Days \cup {NoDay}, end : Days \cup {NoDay}, grant : Grants \cup {NoGrant},
     todo : SUBSET TrackedVideos, known : SUBSET TrackedVideos, reports : SUBSET Days,
     error : {"none", "auth", "quota", "error"}]
JobRecords == [state : {"none", "queued", "running"}, attempt : 0..MaxSyncAttempts]
RowRecords == [status : {"idle", "running", "stale", "failed"}, through : Days \cup {NoDay}]
ReachRecords == [ingested : SUBSET Days, cursor : Days, rows : Days]

GrantTypes ==
    /\ channel \in {"connected", "reconnect_needed", "disconnected"}
    /\ sealed \in Grants \cup {NoGrant} /\ alive \subseteq Grants
    /\ owner \in [pc : {"none", "read", "store", "seal", "abandon", "delete", "mark"}, grant : Grants]
WorldTypes == lastDay \in Days /\ tracked \subseteq TrackedVideos /\ untracked \subseteq TrackedVideos
FigureTypes == channelRead \in [Days -> Figures] /\ videoRead \in [TrackedVideos -> [Days -> Figures]]

\* A connect that has stored its channel is not undone before its token is.
OwnerOK == GrantTypes /\ (owner.pc = "seal" => channel # "disconnected")

\* An attempt is that of the running job; a queued job has attempts left.
JobOK ==
    /\ syncJob \in JobRecords /\ syncRow \in RowRecords /\ sync \in SyncRecords
    /\ sync.pc # "none" => syncJob.state = "running"
    /\ syncJob.state = "queued" => syncJob.attempt < MaxSyncAttempts
    /\ syncJob.state = "running" => syncJob.attempt > 0

\* Final from the first day on, as far as day e can tell.
ReadTo(read, first, e) == \A d \in Days : first <= d /\ d + LookBackDays <= e => read[d] = "final"
\* A figure is final only when it was old enough.
OldEnough(read) == \A d \in Days : read[d] = "final" => d + LookBackDays <= lastDay

Opened == {"daily", "videos", "reports", "ingest", "advance", "finish"}
AfterDaily == Opened \ {"daily"}

\* What the stored figures are good for, before and during a sync: up to the
\* cursor they are final; past the channel's query, its figures are final up
\* to the end of the sync, and so are those of each video it is done with.
FiguresOK ==
    /\ WorldTypes /\ FigureTypes
    /\ OldEnough(channelRead) /\ \A v \in TrackedVideos : OldEnough(videoRead[v])
    /\ \A v \in TrackedVideos : HasHistory(v) => v \in tracked \cup untracked
    /\ syncRow.through <= lastDay
    /\ ReadTo(channelRead, BackfillFrom(syncRow.through), syncRow.through)
    /\ \A v \in tracked : HasHistory(v) => ReadTo(videoRead[v], VideoFrom(v, lastDay), syncRow.through)

SyncOK ==
    /\ sync.pc # "none" => sync.cursor = syncRow.through
    /\ sync.pc \in Opened => sync.end \in Days /\ syncRow.through <= sync.end /\ sync.end <= lastDay
    /\ sync.pc \in AfterDaily =>
          /\ ReadTo(channelRead, BackfillFrom(sync.end), sync.end)
          /\ \A v \in tracked \ sync.todo : HasHistory(v) => ReadTo(videoRead[v], VideoFrom(v, lastDay), sync.end)
    /\ sync.pc \in AfterDaily \ {"videos"} => sync.todo = {}
    /\ sync.pc = "videos" => sync.todo \subseteq tracked \cup untracked /\ \A v \in sync.known : HasHistory(v)

\* The reports up to the cursor are ingested, and at most the one after it; the
\* reports of a sync follow the cursor without a gap.
ReachOK ==
    /\ reach \in ReachRecords
    /\ \A r \in Days : FirstDay < r /\ r <= reach.cursor => r \in reach.ingested
    /\ \A r \in reach.ingested : r <= reach.cursor + 1 /\ r <= reach.rows
    /\ sync.pc \in {"ingest", "advance"} =>
          /\ sync.reports # {}
          /\ \A r \in sync.reports : reach.cursor < r /\ \A d \in Days : reach.cursor < d /\ d <= r => d \in sync.reports
    /\ sync.pc = "advance" => reach.cursor + 1 \in reach.ingested

ChannelInv == OwnerOK /\ JobOK /\ FiguresOK /\ SyncOK /\ ReachOK /\ syncFaults \in 0..MaxSyncFaults

-----------------------------------------------------------------------------
(* The windows and what a query stores *)

LEMMA DaysAre ==
    /\ Days \subseteq Nat \ {0} /\ LastDay \in Nat /\ LookBackDays \in Nat /\ ChannelBackfillDays \in Nat \ {0}
    /\ FirstDay \in Days /\ NoDay = 0 /\ \A d \in Days : d <= LastDay
BY ChannelAssumption DEF Days, NoDay

\* A later sync asks for no earlier day.
LEMMA FromGrows ==
    ASSUME NEW e \in Days \cup {NoDay}, NEW f \in Days \cup {NoDay}, e <= f
    PROVE  /\ BackfillFrom(e) \in Int /\ BackfillFrom(e) <= BackfillFrom(f)
           /\ \A v \in TrackedVideos : VideoFrom(v, e) \in Int /\ VideoFrom(v, e) <= VideoFrom(v, f)
<1>1. BackfillFrom(e) \in Int /\ BackfillFrom(f) \in Int /\ BackfillFrom(e) <= BackfillFrom(f)
  BY DaysAre DEF BackfillFrom
<1>2. \A v \in TrackedVideos : PublishedOn[v] \in Int
  <2>1. \A v \in TrackedVideos : PublishedOn[v] \in Days \/ PublishedOn[v] = NoDay
    BY ChannelAssumption
  <2> QED  BY <2>1, ChannelAssumption DEF Days, NoDay
<1> QED  BY <1>1, <1>2 DEF VideoFrom

\* A query never takes a final figure back, and what it stores of a day that
\* is old enough is final.
LEMMA UpsertedIs ==
    ASSUME lastDay \in Days, NEW read \in [Days -> Figures], OldEnough(read), NEW w, NEW lag \in 0..LookBackDays
    PROVE  LET r == Upserted(read, w, lag)
           IN  /\ r \in [Days -> Figures] /\ OldEnough(r)
               /\ \A d \in Days : read[d] = "final" => r[d] = "final"
               /\ \A d \in Days : read[d] # "none" => r[d] # "none"
               /\ \A d \in Days : d \in w /\ d + LookBackDays <= lastDay => r[d] = "final"
<1> DEFINE r == Upserted(read, w, lag)
<1>1. r \in [Days -> Figures]
  BY DEF Upserted, Figures
<1>2. ASSUME NEW d \in Days
      PROVE  /\ r[d] = "final" => d + LookBackDays <= lastDay
             /\ read[d] = "final" => r[d] = "final"
             /\ read[d] # "none" => r[d] # "none"
             /\ d \in w /\ d + LookBackDays <= lastDay => r[d] = "final"
  <2>1. r[d] = IF d \in w /\ d + lag <= lastDay
               THEN IF d + LookBackDays <= lastDay THEN "final" ELSE "early"
               ELSE read[d]
    BY DEF Upserted
  <2>2. read[d] = "final" => d + LookBackDays <= lastDay
    BY DEF OldEnough
  <2>3. d + LookBackDays <= lastDay => d + lag <= lastDay
    BY DaysAre
  <2> HIDE DEF r
  <2> QED  BY <2>1, <2>2, <2>3
<1> QED  BY <1>1, <1>2 DEF OldEnough

\* A sync whose window is what SyncWindow says leaves no hole: the days before
\* the window were final up to the cursor.
LEMMA WindowFills ==
    ASSUME NEW c \in Days \cup {NoDay}, NEW e \in Days, NEW from \in Int, NEW first \in Int, from <= first,
           NEW read, NEW w, w = SyncWindow(c, from, e),
           c # NoDay => ReadTo(read, first, c),
           NEW r, \A d \in Days : read[d] = "final" => r[d] = "final",
           \A d \in Days : d \in w /\ d + LookBackDays <= e => r[d] = "final"
    PROVE  ReadTo(r, first, e)
<1> SUFFICES ASSUME NEW d \in Days, first <= d, d + LookBackDays <= e PROVE r[d] = "final"
  BY DEF ReadTo
<1>1. from <= d /\ d <= e
  BY DaysAre
<1>2. CASE d \in w
  BY <1>2
<1>3. CASE d \notin w
  <2>1. c # NoDay /\ ~(c - LookBackDays <= d)
    BY <1>1, <1>3 DEF SyncWindow
  <2>2. d + LookBackDays <= c
    BY <2>1, DaysAre
  <2> QED  BY <2>1, <2>2 DEF ReadTo
<1> QED  BY <1>2, <1>3

-----------------------------------------------------------------------------
(* Frames *)

LEMMA FaultPaid ==
    ASSUME syncFaults \in 0..MaxSyncFaults, NEW f, SpendSync(f)
    PROVE  syncFaults' \in 0..MaxSyncFaults
BY ChannelAssumption DEF SpendSync, SyncCost

LEMMA NoSyncIs ==
    /\ NoSync \in SyncRecords /\ NoSync.pc = "none" /\ NoSync.cursor = NoDay /\ NoSync.end = NoDay
    /\ NoSync.todo = {} /\ NoSync.known = {} /\ NoSync.reports = {} /\ NoSync.error = "none"
BY DEF NoSync, SyncRecords

\* The owner's requests leave the analytics alone,
LEMMA AnalyticsKept ==
    ASSUME ChannelInv, UNCHANGED <<worldVars, figureVars, reach, jobVars>>
    PROVE  JobOK' /\ FiguresOK' /\ SyncOK' /\ ReachOK'
<1> USE DEF ChannelInv, worldVars, figureVars, jobVars
<1>1. JobOK'
  BY DEF JobOK
<1>2. FiguresOK'
  BY DEF FiguresOK, WorldTypes, FigureTypes, OldEnough, HasHistory, ReadTo
<1>3. SyncOK'
  BY DEF SyncOK, HasHistory, ReadTo
<1>4. ReachOK'
  BY DEF ReachOK
<1> QED  BY <1>1, <1>2, <1>3, <1>4

\* and a sync the requests.
LEMMA OwnerKept == ASSUME ChannelInv, UNCHANGED grantVars PROVE OwnerOK'
BY DEF ChannelInv, OwnerOK, GrantTypes, grantVars

LEMMA FiguresKept ==
    ASSUME ChannelInv, UNCHANGED <<worldVars, figureVars>>, syncRow'.through = syncRow.through
    PROVE  FiguresOK'
BY DEF ChannelInv, worldVars, figureVars, FiguresOK, WorldTypes, FigureTypes, OldEnough, HasHistory, ReadTo

\* An attempt that is over asks nothing of the figures and the reports.
LEMMA SyncIsOver ==
    ASSUME ChannelInv, sync' = NoSync, UNCHANGED reach
    PROVE  SyncOK' /\ ReachOK' /\ sync' \in SyncRecords /\ sync'.pc = "none"
BY NoSyncIs DEF ChannelInv, SyncOK, ReachOK, Opened, AfterDaily

LEMMA JobIs ==
    /\ NoJobNow \in JobRecords /\ NoJobNow.state = "none"
    /\ QueuedJob \in JobRecords /\ QueuedJob.state = "queued" /\ QueuedJob.attempt = 0
BY ChannelAssumption DEF NoJobNow, QueuedJob, JobRecords

\* What River makes of an attempt that ended.
LEMMA RetriedIs ==
    ASSUME JobOK
    PROVE  Retried \in JobRecords /\ (Retried.state = "queued" => Retried.attempt < MaxSyncAttempts) /\ Retried.state # "running"
<1>1. CASE syncJob.attempt < MaxSyncAttempts
  <2>1. Retried = [syncJob EXCEPT !.state = "queued"]
    BY <1>1 DEF Retried
  <2> QED  BY <1>1, <2>1 DEF JobOK, JobRecords
<1>2. CASE ~(syncJob.attempt < MaxSyncAttempts)
  BY <1>2, JobIs DEF Retried
<1> QED  BY <1>1, <1>2

LEMMA OutcomeIs ==
    ASSUME JobOK, syncJob.state = "running", NEW error
    PROVE  LET j == OutcomeOf(error)
           IN  j \in JobRecords /\ (j.state = "queued" => j.attempt < MaxSyncAttempts) /\ j.state # "running"
<1>1. CASE error = "quota"
  <2> DEFINE n == syncJob.attempt - 1
             j == [syncJob EXCEPT !.state = "queued", !.attempt = n]
  <2>1. n \in 0..MaxSyncAttempts /\ n < MaxSyncAttempts /\ syncJob \in JobRecords
    BY ChannelAssumption DEF JobOK, JobRecords
  <2>2. OutcomeOf(error) = j
    BY <1>1 DEF OutcomeOf
  <2> HIDE DEF n
  <2> QED  BY <2>1, <2>2 DEF JobRecords
<1>2. CASE error = "auth"
  BY <1>2, JobIs DEF OutcomeOf
<1>3. CASE error \notin {"quota", "auth"}
  BY <1>3, RetriedIs DEF OutcomeOf
<1> QED  BY <1>1, <1>2, <1>3

LEMMA ExpiredIs ==
    ASSUME syncRow \in RowRecords PROVE Expired \in RowRecords /\ Expired.through = syncRow.through
<1> DEFINE s == IF syncRow.status = "running" THEN "stale" ELSE syncRow.status
<1>1. Expired = [syncRow EXCEPT !.status = s] /\ s \in {"idle", "running", "stale", "failed"}
  BY DEF Expired, RowRecords
<1> HIDE DEF s
<1> QED  BY <1>1 DEF RowRecords

LEMMA DayNumbers ==
    ASSUME ChannelInv
    PROVE  /\ syncRow.through \in Days \cup {NoDay} /\ sync.cursor \in Days \cup {NoDay}
           /\ sync.end \in Days \cup {NoDay} /\ lastDay \in Days
           /\ syncRow.through \in Nat /\ sync.cursor \in Nat /\ sync.end \in Nat /\ lastDay \in Nat
<1>1. /\ syncRow.through \in Days \cup {NoDay} /\ sync.cursor \in Days \cup {NoDay}
      /\ sync.end \in Days \cup {NoDay} /\ lastDay \in Days
  BY DEF ChannelInv, JobOK, FiguresOK, WorldTypes, RowRecords, SyncRecords
<1>2. Days \cup {NoDay} \subseteq Nat
  BY ChannelAssumption DEF Days, NoDay
<1> QED  BY <1>1, <1>2

-----------------------------------------------------------------------------
(* The owner's requests *)

LEMMA OwnerActs ==
    ASSUME ChannelInv, ConnectExchange \/ DisconnectRevoke \/ OwnerStep \/ OwnerCrash \/ GrantLost
    PROVE  ChannelInv'
<1> DEFINE Acted == OwnerOK' /\ UNCHANGED <<worldVars, figureVars, reach, jobVars>> /\ syncFaults' \in 0..MaxSyncFaults
<1> USE DEF GoOwner, Revoke
<1>1. OwnerOK /\ GrantTypes /\ syncFaults \in 0..MaxSyncFaults /\ owner.grant \in Grants /\ NoGrant \notin Grants
      /\ Grants = 1..MaxGrants /\ MaxGrants \in Nat \ {0}
  BY ChannelAssumption DEF ChannelInv, OwnerOK, GrantTypes, Grants, NoGrant
<1>2. ASSUME ConnectExchange PROVE Acted
  <2> DEFINE g == owner.grant + 1
  <2>1. g \in Grants
    BY <1>1, <1>2 DEF ConnectExchange
  <2>2. owner' = [pc |-> "read", grant |-> g] /\ alive' = alive \cup {g}
    BY <1>2 DEF ConnectExchange
  <2>3. UNCHANGED <<channel, sealed, worldVars, figureVars, reach, jobVars>> /\ SpendSync("connect")
    BY <1>2 DEF ConnectExchange
  <2> HIDE DEF g
  <2> QED  BY <1>1, <2>1, <2>2, <2>3, FaultPaid DEF OwnerOK, GrantTypes
<1>3. ASSUME ConnectRead PROVE Acted
  BY <1>1, <1>3, FaultPaid DEF ConnectRead, OwnerOK, GrantTypes
<1>4. ASSUME ConnectStore PROVE Acted
  BY <1>1, <1>4, FaultPaid DEF ConnectStore, OwnerOK, GrantTypes
<1>5. ASSUME ConnectSeal PROVE Acted
  BY <1>1, <1>5, FaultPaid DEF ConnectSeal, OwnerOK, GrantTypes
<1>6. ASSUME ConnectAbandon PROVE Acted
  BY <1>1, <1>6 DEF ConnectAbandon, OwnerOK, GrantTypes
<1>7. ASSUME DisconnectRevoke PROVE Acted
  BY <1>1, <1>7, FaultPaid DEF DisconnectRevoke, OwnerOK, GrantTypes
<1>8. ASSUME DisconnectDelete PROVE Acted
  BY <1>1, <1>8 DEF DisconnectDelete, OwnerOK, GrantTypes
<1>9. ASSUME DisconnectMark PROVE Acted
  BY <1>1, <1>9 DEF DisconnectMark, OwnerOK, GrantTypes
<1>10. ASSUME OwnerCrash PROVE Acted
  BY <1>1, <1>10, FaultPaid DEF OwnerCrash, OwnerOK, GrantTypes
<1>11. ASSUME GrantLost PROVE Acted
  BY <1>1, <1>11, FaultPaid DEF GrantLost, OwnerOK, GrantTypes
<1>12. Acted
  BY <1>2, <1>3, <1>4, <1>5, <1>6, <1>7, <1>8, <1>9, <1>10, <1>11 DEF OwnerStep
<1> QED  BY <1>12, AnalyticsKept DEF ChannelInv

-----------------------------------------------------------------------------
(* Videos, days and the job *)

\* Insert keeps a job that waits or runs.
LEMMA JobInserted ==
    ASSUME JobOK, InsertSync, UNCHANGED <<syncRow, sync>>
    PROVE  JobOK'
<1>1. CASE syncJob.state = "none"
  BY <1>1, JobIs, ChannelAssumption DEF InsertSync, JobOK
<1>2. CASE syncJob.state # "none"
  BY <1>2 DEF InsertSync, JobOK
<1> QED  BY <1>1, <1>2

LEMMA SyncIsInserted == ASSUME ChannelInv, SyncAll PROVE ChannelInv'
<1>1. JobOK' /\ UNCHANGED <<grantVars, worldVars, figureVars, reach, syncRow, sync, syncFaults>>
  BY JobInserted DEF SyncAll, ChannelInv
<1>2. SyncOK' /\ ReachOK'
  BY <1>1 DEF ChannelInv, SyncOK, ReachOK, HasHistory, ReadTo, worldVars, figureVars
<1> QED  BY <1>1, <1>2, OwnerKept, FiguresKept DEF ChannelInv

\* A video that was never tracked has no history, so it cannot have a hole.
LEMMA VideoIsTracked == ASSUME ChannelInv, NEW v \in TrackedVideos, Track(v) PROVE ChannelInv'
<1>1. JobOK' /\ UNCHANGED <<grantVars, lastDay, untracked, figureVars, reach, syncRow, sync, syncFaults>>
  BY JobInserted DEF Track, ChannelInv
<1>2. tracked' = tracked \cup {v} /\ ~HasHistory(v)
  BY DEF Track, ChannelInv, FiguresOK
<1>3. \A u \in TrackedVideos : HasHistory(u)' <=> HasHistory(u)
  BY <1>1 DEF HasHistory, figureVars
<1>4. FiguresOK'
  BY <1>1, <1>2, <1>3 DEF ChannelInv, FiguresOK, WorldTypes, FigureTypes, OldEnough, ReadTo, figureVars
<1>5. SyncOK' /\ ReachOK'
  <2>1. \A u \in tracked' \ sync.todo : HasHistory(u) => u \in tracked \ sync.todo
    BY <1>2
  <2>2. tracked' \subseteq TrackedVideos /\ sync.known \subseteq TrackedVideos
    BY <1>2 DEF ChannelInv, FiguresOK, WorldTypes, JobOK, SyncRecords
  <2> QED  BY <1>1, <1>2, <1>3, <2>1, <2>2 DEF ChannelInv, SyncOK, ReachOK, ReadTo, figureVars
<1> QED  BY <1>1, <1>4, <1>5, OwnerKept DEF ChannelInv

LEMMA VideoIsUntracked == ASSUME ChannelInv, NEW v \in TrackedVideos, Untrack(v) PROVE ChannelInv'
<1>1. /\ UNCHANGED <<grantVars, lastDay, figureVars, reach, jobVars>> /\ SpendSync("untrack")
      /\ tracked' = tracked \ {v} /\ untracked' = untracked \cup {v} /\ v \in tracked
  BY DEF Untrack
<1>2. \A u \in TrackedVideos : HasHistory(u)' <=> HasHistory(u)
  BY <1>1 DEF HasHistory, figureVars
<1>3. FiguresOK'
  BY <1>1, <1>2 DEF ChannelInv, FiguresOK, WorldTypes, FigureTypes, OldEnough, ReadTo, figureVars, jobVars
<1>4. SyncOK' /\ ReachOK' /\ JobOK'
  <2>1. tracked \subseteq TrackedVideos /\ sync.known \subseteq TrackedVideos
    BY DEF ChannelInv, FiguresOK, WorldTypes, JobOK, SyncRecords
  <2> QED  BY <1>1, <1>2, <2>1 DEF ChannelInv, SyncOK, ReachOK, JobOK, ReadTo, figureVars, jobVars
<1> QED  BY <1>1, <1>3, <1>4, OwnerKept, FaultPaid DEF ChannelInv

\* A new day asks for no earlier day than the one before.
LEMMA DayEnds == ASSUME ChannelInv, NewDay PROVE ChannelInv'
<1>1. /\ UNCHANGED <<grantVars, tracked, untracked, figureVars, reach, jobVars, syncFaults>>
      /\ lastDay' = lastDay + 1 /\ lastDay < LastDay /\ lastDay \in Days
  BY DEF NewDay, ChannelInv, FiguresOK, WorldTypes
<1>2. lastDay' \in Days /\ lastDay <= lastDay' /\ lastDay \in Nat /\ lastDay' \in Nat
  BY <1>1, DaysAre DEF Days
<1>3. \A u \in TrackedVideos : HasHistory(u)' <=> HasHistory(u)
  BY <1>1 DEF HasHistory, figureVars
<1>4. \A u \in TrackedVideos : VideoFrom(u, lastDay) \in Int /\ VideoFrom(u, lastDay') \in Int
                              /\ VideoFrom(u, lastDay) <= VideoFrom(u, lastDay')
  BY <1>1, <1>2, FromGrows DEF NoDay
<1>5. ASSUME NEW read, NEW e, NEW u \in TrackedVideos, ReadTo(read, VideoFrom(u, lastDay), e)
      PROVE  ReadTo(read, VideoFrom(u, lastDay'), e)
  BY <1>4, <1>5, DaysAre DEF ReadTo
<1>6. ASSUME NEW read, OldEnough(read) PROVE \A d \in Days : read[d] = "final" => d + LookBackDays <= lastDay'
  BY <1>2, <1>6, DaysAre DEF OldEnough
<1>7. syncRow \in RowRecords /\ sync \in SyncRecords /\ tracked \subseteq TrackedVideos
  BY DEF ChannelInv, JobOK, FiguresOK, WorldTypes
<1>8. FiguresOK'
  <2>1. syncRow'.through <= lastDay'
    BY <1>1, <1>2, DayNumbers DEF ChannelInv, FiguresOK, jobVars
  <2>2. \A u \in tracked : HasHistory(u) => ReadTo(videoRead[u], VideoFrom(u, lastDay'), syncRow.through)
    BY <1>5, <1>7 DEF ChannelInv, FiguresOK
  <2>3. OldEnough(channelRead)' /\ \A u \in TrackedVideos : OldEnough(videoRead[u])'
    BY <1>1, <1>6 DEF ChannelInv, FiguresOK, OldEnough, figureVars
  <2>4. ReadTo(channelRead, BackfillFrom(syncRow.through), syncRow.through)'
    BY <1>1 DEF ChannelInv, FiguresOK, ReadTo, figureVars, jobVars
  <2>5. \A u \in tracked' : HasHistory(u)' => ReadTo(videoRead[u], VideoFrom(u, lastDay), syncRow.through)'
    BY <1>1, <1>3, <1>7, <2>2 DEF ReadTo, figureVars, jobVars
  <2>6. WorldTypes' /\ FigureTypes' /\ \A u \in TrackedVideos : HasHistory(u)' => u \in tracked' \cup untracked'
    BY <1>1, <1>2, <1>3 DEF ChannelInv, FiguresOK, WorldTypes, FigureTypes, figureVars
  <2> QED  BY <2>1, <2>3, <2>4, <2>5, <2>6 DEF FiguresOK
<1>9. SyncOK'
  <2>1. sync.pc \in AfterDaily =>
           \A u \in tracked \ sync.todo : HasHistory(u) => ReadTo(videoRead[u], VideoFrom(u, lastDay'), sync.end)
    BY <1>5, <1>7 DEF ChannelInv, SyncOK
  <2>2. sync.pc \in AfterDaily =>
           /\ ReadTo(channelRead, BackfillFrom(sync.end), sync.end)'
           /\ \A u \in tracked' \ sync'.todo : HasHistory(u)' => ReadTo(videoRead[u], VideoFrom(u, lastDay), sync.end)'
    BY <1>1, <1>3, <1>7, <2>1 DEF ChannelInv, SyncOK, ReadTo, figureVars, jobVars
  <2>3. sync.pc \in Opened => sync.end \in Days /\ syncRow.through <= sync.end /\ sync.end <= lastDay'
    BY <1>2, DayNumbers DEF ChannelInv, SyncOK
  <2>4. sync.pc = "videos" => \A u \in sync.known : HasHistory(u)'
    BY <1>3, <1>7 DEF ChannelInv, SyncOK, SyncRecords
  <2> QED  BY <1>1, <2>2, <2>3, <2>4 DEF ChannelInv, SyncOK, jobVars
<1>10. ReachOK' /\ JobOK'
  BY <1>1 DEF ChannelInv, ReachOK, JobOK, jobVars
<1> QED  BY <1>1, <1>8, <1>9, <1>10, OwnerKept DEF ChannelInv

-----------------------------------------------------------------------------
(* The sync *)

\* A step of an attempt that stores no figure.
LEMMA SyncGoesOn ==
    ASSUME ChannelInv, sync.pc # "none", sync' \in SyncRecords,
           UNCHANGED <<worldVars, figureVars, syncJob>>, syncRow' \in RowRecords, syncRow'.through = syncRow.through
    PROVE  JobOK' /\ FiguresOK'
<1>1. JobOK'
  BY DEF ChannelInv, JobOK
<1> QED  BY <1>1, FiguresKept

\* The error path keeps only the cursor.
LEMMA SyncIsRaised ==
    ASSUME ChannelInv, sync.pc # "none", NEW e \in {"auth", "quota", "error"}, RaiseSync(e),
           UNCHANGED <<grantVars, worldVars, figureVars, reach, syncRow, syncJob>>, syncFaults' \in 0..MaxSyncFaults
    PROVE  ChannelInv'
<1>1. sync \in SyncRecords /\ syncRow' \in RowRecords /\ sync.cursor = syncRow.through
  BY DEF ChannelInv, JobOK, SyncOK
<1>2. sync' \in SyncRecords /\ sync'.pc = "fail" /\ sync'.cursor = sync.cursor
  BY <1>1 DEF RaiseSync, SyncRecords
<1>3. SyncOK' /\ ReachOK'
  BY <1>1, <1>2 DEF ChannelInv, SyncOK, ReachOK, Opened, AfterDaily
<1> QED  BY <1>1, <1>2, <1>3, SyncGoesOn, OwnerKept DEF ChannelInv

LEMMA SyncBegins == ASSUME ChannelInv, SyncBegin PROVE ChannelInv'
<1>1. /\ syncJob.state = "queued" /\ sync.pc = "none" /\ JobOK /\ syncJob \in JobRecords /\ syncRow \in RowRecords
      /\ syncJob.attempt < MaxSyncAttempts /\ syncFaults \in 0..MaxSyncFaults
      /\ UNCHANGED <<grantVars, worldVars, figureVars, reach, syncRow>>
  BY DEF SyncBegin, ChannelInv, JobOK
<1>2. FiguresOK' /\ OwnerOK'
  BY <1>1, FiguresKept, OwnerKept
<1>3. CASE EndSync(NoJobNow) /\ UNCHANGED syncFaults
  <2>1. JobOK'
    BY <1>1, <1>3, JobIs, NoSyncIs DEF EndSync, JobOK
  <2> QED  BY <1>1, <1>2, <1>3, <2>1, SyncIsOver DEF EndSync, ChannelInv
<1>4. CASE /\ syncJob' = [state |-> "running", attempt |-> syncJob.attempt + 1]
           /\ sync' = [NoSync EXCEPT !.pc = "start", !.cursor = syncRow.through] /\ UNCHANGED syncFaults
  <2> DEFINE c == syncRow.through
             n == syncJob.attempt + 1
  <2>1. c \in Days \cup {NoDay} /\ n \in 0..MaxSyncAttempts /\ n > 0
    BY <1>1, ChannelAssumption DEF RowRecords, JobRecords
  <2>2. sync' = [NoSync EXCEPT !.pc = "start", !.cursor = c] /\ syncJob' = [state |-> "running", attempt |-> n]
    BY <1>4
  <2> HIDE DEF c, n
  <2>3. sync' \in SyncRecords /\ sync'.pc = "start" /\ sync'.cursor = c
    BY <2>1, <2>2, NoSyncIs DEF SyncRecords
  <2>4. syncJob' \in JobRecords /\ syncJob'.state = "running" /\ syncJob'.attempt = n
    BY <2>1, <2>2 DEF JobRecords
  <2>5. JobOK'
    BY <1>1, <2>1, <2>3, <2>4 DEF JobOK
  <2>6. SyncOK' /\ ReachOK'
    BY <1>1, <2>3 DEF ChannelInv, SyncOK, ReachOK, Opened, AfterDaily, c
  <2> QED  BY <1>1, <1>2, <1>4, <2>5, <2>6 DEF ChannelInv
<1>5. CASE /\ SpendSync("error") /\ UNCHANGED sync
           /\ syncJob' = IF syncJob.attempt + 1 < MaxSyncAttempts THEN [syncJob EXCEPT !.attempt = @ + 1] ELSE NoJobNow
  <2>1. JobOK'
    <3>1. CASE syncJob.attempt + 1 < MaxSyncAttempts
      <4> DEFINE n == syncJob.attempt + 1
      <4>1. n \in 0..MaxSyncAttempts /\ n < MaxSyncAttempts /\ syncJob' = [syncJob EXCEPT !.attempt = n]
        BY <1>1, <1>5, <3>1, ChannelAssumption DEF JobRecords
      <4> HIDE DEF n
      <4>2. syncJob' \in JobRecords /\ syncJob'.state = "queued" /\ syncJob'.attempt = n
        BY <1>1, <4>1 DEF JobRecords
      <4> QED  BY <1>1, <1>5, <4>1, <4>2 DEF JobOK
    <3>2. CASE ~(syncJob.attempt + 1 < MaxSyncAttempts)
      BY <1>1, <1>5, <3>2, JobIs DEF JobOK
    <3> QED  BY <3>1, <3>2
  <2>2. SyncOK' /\ ReachOK'
    BY <1>1, <1>5 DEF ChannelInv, SyncOK, ReachOK, Opened, AfterDaily
  <2> QED  BY <1>1, <1>2, <1>5, <2>1, <2>2, FaultPaid DEF ChannelInv
<1> QED  BY <1>3, <1>4, <1>5 DEF SyncBegin

LEMMA SyncStarts == ASSUME ChannelInv, SyncStart PROVE ChannelInv'
<1>1. /\ sync.pc = "start" /\ sync.pc # "none" /\ JobOK /\ sync \in SyncRecords /\ syncRow \in RowRecords
      /\ UNCHANGED <<grantVars, worldVars, figureVars, reach, syncFaults>>
  BY DEF SyncStart, SyncAt, ChannelInv, JobOK
<1>2. CASE MayStart
  <2>1. /\ syncRow' = [syncRow EXCEPT !.status = "running"] /\ sync' = [sync EXCEPT !.pc = "open"] /\ UNCHANGED syncJob
    BY <1>2 DEF SyncStart, GoSync
  <2>2. syncRow' \in RowRecords /\ syncRow'.through = syncRow.through
    BY <1>1, <2>1 DEF RowRecords
  <2>3. sync' \in SyncRecords /\ sync'.pc = "open" /\ sync'.cursor = sync.cursor
    BY <1>1, <2>1 DEF SyncRecords
  <2>4. SyncOK' /\ ReachOK'
    BY <1>1, <2>2, <2>3 DEF ChannelInv, SyncOK, ReachOK, Opened, AfterDaily
  <2> QED  BY <1>1, <2>1, <2>2, <2>3, <2>4, SyncGoesOn, OwnerKept DEF ChannelInv
<1>3. CASE ~MayStart
  <2>1. sync' = NoSync /\ syncJob' = NoJobNow /\ UNCHANGED syncRow
    BY <1>3 DEF SyncStart, EndSync
  <2>2. JobOK'
    BY <1>1, <2>1, JobIs, NoSyncIs DEF JobOK
  <2> QED  BY <1>1, <2>1, <2>2, SyncIsOver, OwnerKept, FiguresKept DEF ChannelInv
<1> QED  BY <1>2, <1>3

\* The end of the sync is the last complete day, not before the cursor.
LEMMA SyncOpens == ASSUME ChannelInv, SyncOpen PROVE ChannelInv'
<1>1. /\ sync.pc = "open" /\ sync.pc # "none" /\ JobOK /\ sync \in SyncRecords /\ syncRow \in RowRecords
      /\ syncFaults \in 0..MaxSyncFaults /\ lastDay \in Days /\ sealed \in Grants \cup {NoGrant}
      /\ UNCHANGED <<grantVars, worldVars, figureVars, reach, syncRow, syncJob, syncFaults>>
  BY DEF SyncOpen, SyncAt, ChannelInv, JobOK, FiguresOK, WorldTypes, OwnerOK, GrantTypes
<1>2. CASE sealed = NoGrant
  BY <1>1, <1>2, SyncIsRaised DEF SyncOpen
<1>3. CASE sealed # NoGrant
  <2>1. sync' = [sync EXCEPT !.pc = "daily", !.grant = sealed, !.end = lastDay]
    BY <1>3 DEF SyncOpen, LastCompleteDay
  <2>2. sync' \in SyncRecords /\ sync'.pc = "daily" /\ sync'.cursor = sync.cursor /\ sync'.end = lastDay
    BY <1>1, <2>1 DEF SyncRecords
  <2>3. SyncOK' /\ ReachOK'
    <3>1. lastDay' = lastDay /\ lastDay <= lastDay
      BY <1>1, DayNumbers DEF worldVars
    <3> QED  BY <1>1, <2>2, <3>1 DEF ChannelInv, SyncOK, ReachOK, Opened, AfterDaily, FiguresOK
  <2> QED  BY <1>1, <2>2, <2>3, SyncGoesOn, OwnerKept DEF ChannelInv
<1> QED  BY <1>2, <1>3

LEMMA CallIsRefused == ASSUME ChannelInv, GrantRefused PROVE ChannelInv'
BY SyncIsRaised DEF GrantRefused, ApiCalls, ChannelInv

\* Past the videos the figures are not touched again.
LEMMA SyncGoesFurther ==
    ASSUME ChannelInv, sync.pc \in AfterDaily, sync.todo = {}, sync' \in SyncRecords,
           sync'.pc \in AfterDaily \ {"videos"}, sync'.todo = {}, sync'.end = sync.end, sync'.cursor = sync.cursor,
           UNCHANGED <<grantVars, worldVars, figureVars, syncRow, syncJob>>, ReachOK', syncFaults' \in 0..MaxSyncFaults
    PROVE  ChannelInv'
<1>1. sync.pc \in Opened /\ sync.pc # "none" /\ sync'.pc \in Opened /\ sync'.pc # "videos" /\ syncRow \in RowRecords
  BY DEF AfterDaily, Opened, ChannelInv, JobOK
<1>2. SyncOK'
  BY <1>1 DEF ChannelInv, SyncOK, worldVars, figureVars, HasHistory, ReadTo
<1> QED  BY <1>1, <1>2, SyncGoesOn, OwnerKept DEF ChannelInv

LEMMA SyncPasses ==
    ASSUME ChannelInv, NEW p \in {"reports", "finish"}, sync.pc \in AfterDaily, sync.todo = {},
           sync' = [sync EXCEPT !.pc = p, !.known = {}] \/ sync' = [sync EXCEPT !.pc = p],
           UNCHANGED <<grantVars, worldVars, figureVars, reach, syncRow, syncJob>>, syncFaults' \in 0..MaxSyncFaults
    PROVE  ChannelInv'
<1> DEFINE none == {}
<1>1. sync \in SyncRecords /\ none \in SUBSET TrackedVideos
      /\ (sync' = [sync EXCEPT !.pc = p, !.known = none] \/ sync' = [sync EXCEPT !.pc = p])
  BY DEF ChannelInv, JobOK
<1> HIDE DEF none
<1>2. sync' \in SyncRecords /\ sync'.pc = p /\ sync'.todo = sync.todo /\ sync'.end = sync.end /\ sync'.cursor = sync.cursor
  BY <1>1 DEF SyncRecords
<1>3. ReachOK' /\ sync'.pc \in AfterDaily \ {"videos"}
  BY <1>2 DEF ChannelInv, ReachOK, AfterDaily, Opened
<1> QED  BY <1>2, <1>3, SyncGoesFurther

LEMMA AtStatsIs == ASSUME ChannelInv, AtStats PROVE sync.pc = "videos" /\ sync.todo = {} /\ sync.pc \in AfterDaily
BY DEF AtStats, SyncAt, AfterDaily, Opened

LEMMA StatsAreRead == ASSUME ChannelInv, SyncStats PROVE ChannelInv'
<1>1. sync' = [sync EXCEPT !.pc = "reports", !.known = {}] /\ AtStats
      /\ UNCHANGED <<grantVars, worldVars, figureVars, reach, syncRow, syncJob, syncFaults>>
      /\ syncFaults \in 0..MaxSyncFaults
  BY DEF SyncStats, ChannelInv
<1> QED  BY <1>1, AtStatsIs, SyncPasses

LEMMA QueryIsLost == ASSUME ChannelInv, QueryFails PROVE ChannelInv'
<1>1. PICK error \in {"quota", "error"} :
        /\ SpendSync(error)
        /\ CASE AtStats -> sync' = [sync EXCEPT !.pc = "reports", !.known = {}]
             [] sync.pc \in {"daily", "videos"} /\ ~AtStats -> RaiseSync(error)
             [] OTHER -> GoSync("finish")
  BY DEF QueryFails
<1>2. sync.pc \in ApiCalls /\ sync.pc # "none" /\ UNCHANGED <<grantVars, worldVars, figureVars, reach, syncRow, syncJob>>
      /\ syncFaults' \in 0..MaxSyncFaults
  BY <1>1, FaultPaid DEF QueryFails, ApiCalls, ChannelInv
<1>3. CASE AtStats
  BY <1>1, <1>2, <1>3, AtStatsIs, SyncPasses DEF AtStats, SyncAt
<1>4. CASE ~AtStats /\ sync.pc \in {"daily", "videos"}
  BY <1>1, <1>2, <1>4, SyncIsRaised
<1>5. CASE ~AtStats /\ sync.pc \notin {"daily", "videos"}
  <2>1. sync' = [sync EXCEPT !.pc = "finish"]
    BY <1>1, <1>5 DEF GoSync
  <2>2. sync.pc \in AfterDaily /\ sync.todo = {}
    BY <1>2, <1>5 DEF ApiCalls, AfterDaily, Opened, ChannelInv, SyncOK
  <2> QED  BY <1>2, <2>1, <2>2, SyncPasses
<1> QED  BY <1>3, <1>4, <1>5

\* The reports made since the cursor, without a gap.
LEMMA ReportsAreListed == ASSUME ChannelInv, SyncReports PROVE ChannelInv'
<1> DEFINE new == {r \in Days : reach.cursor < r /\ r <= lastDay}
           p == IF new = {} THEN "finish" ELSE "ingest"
<1>1. /\ sync.pc = "reports" /\ sync' = [sync EXCEPT !.reports = new, !.pc = p] /\ sync \in SyncRecords /\ sync.todo = {}
      /\ UNCHANGED <<grantVars, worldVars, figureVars, reach, syncRow, syncJob, syncFaults>>
      /\ new \in SUBSET Days /\ p \in {"finish", "ingest"} /\ sync.pc \in AfterDaily
      /\ syncFaults \in 0..MaxSyncFaults /\ lastDay \in Days /\ reach.cursor \in Days
  BY DEF SyncReports, SyncAt, ChannelInv, JobOK, SyncOK, AfterDaily, Opened, FiguresOK, WorldTypes, ReachOK, ReachRecords
<1>2. \A r \in new : reach.cursor < r /\ \A d \in Days : reach.cursor < d /\ d <= r => d \in new
  BY <1>1, DaysAre
<1>3. p = "ingest" => new # {}
  OBVIOUS
<1> HIDE DEF new, p
<1>4. sync' \in SyncRecords /\ sync'.pc = p /\ sync'.reports = new /\ sync'.todo = sync.todo /\ sync'.end = sync.end
      /\ sync'.cursor = sync.cursor
  BY <1>1 DEF SyncRecords
<1>5. ReachOK'
  BY <1>1, <1>2, <1>3, <1>4 DEF ChannelInv, ReachOK
<1>6. sync'.pc \in AfterDaily \ {"videos"} /\ sync'.todo = {}
  BY <1>1, <1>4 DEF AfterDaily, Opened
<1> QED  BY <1>1, <1>4, <1>5, <1>6, SyncGoesFurther

\* The oldest report is the one after the cursor.
LEMMA OldestIs ==
    ASSUME ChannelInv, sync.pc \in {"ingest", "advance"}
    PROVE  Oldest(sync.reports) = reach.cursor + 1 /\ reach.cursor + 1 \in sync.reports /\ reach.cursor + 1 \in Days
<1>1. /\ sync.reports # {} /\ sync.reports \subseteq Days /\ reach.cursor \in Days
      /\ \A r \in sync.reports : reach.cursor < r /\ \A d \in Days : reach.cursor < d /\ d <= r => d \in sync.reports
  BY DEF ChannelInv, ReachOK, ReachRecords, JobOK, SyncRecords
<1>2. PICK r \in sync.reports : reach.cursor < r /\ r \in Days
  BY <1>1
<1>3. reach.cursor + 1 \in Days /\ reach.cursor < reach.cursor + 1 /\ reach.cursor + 1 <= r
  BY <1>1, <1>2, ChannelAssumption DEF Days
<1>4. reach.cursor + 1 \in sync.reports
  BY <1>1, <1>2, <1>3
<1>n. reach.cursor \in Nat /\ \A q \in sync.reports : q \in Nat /\ reach.cursor < q
  BY <1>1, DaysAre
<1>5. \A q \in sync.reports : reach.cursor + 1 <= q
  BY <1>n
<1>6. ASSUME NEW x \in sync.reports, \A q \in sync.reports : x <= q PROVE x = reach.cursor + 1
  <2>1. x <= reach.cursor + 1 /\ reach.cursor + 1 <= x /\ x \in Nat
    BY <1>4, <1>5, <1>6, <1>n
  <2> QED  BY <1>n, <2>1
<1>7. Oldest(sync.reports) \in sync.reports /\ \A q \in sync.reports : Oldest(sync.reports) <= q
  BY <1>4, <1>5 DEF Oldest, Min
<1> QED  BY <1>3, <1>4, <1>6, <1>7

\* Claim and rows go together, so the rows are those of the newest report.
LEMMA ReportIsIngested == ASSUME ChannelInv, IngestReport PROVE ChannelInv'
<1> DEFINE r == reach.cursor + 1
<1>1. /\ sync.pc = "ingest" /\ sync \in SyncRecords /\ reach \in ReachRecords /\ r \in Days /\ sync.pc \in AfterDaily
      /\ sync.todo = {} /\ syncFaults \in 0..MaxSyncFaults /\ sync' = [sync EXCEPT !.pc = "advance"]
      /\ UNCHANGED <<grantVars, worldVars, figureVars, syncRow, syncJob, syncFaults>>
      /\ reach' = IF r \in reach.ingested THEN reach ELSE [reach EXCEPT !.ingested = @ \cup {r}, !.rows = r]
  BY OldestIs DEF IngestReport, SyncAt, GoSync, ChannelInv, JobOK, ReachOK, SyncOK, AfterDaily, Opened
<1>2. sync' \in SyncRecords /\ sync'.pc = "advance" /\ sync'.reports = sync.reports /\ sync'.todo = sync.todo
      /\ sync'.end = sync.end /\ sync'.cursor = sync.cursor
  BY <1>1 DEF SyncRecords
<1>3. /\ reach' \in ReachRecords /\ reach'.cursor = reach.cursor /\ r \in reach'.ingested
      /\ reach.ingested \subseteq reach'.ingested
      /\ \A q \in reach'.ingested : q <= reach.cursor + 1 /\ q <= reach'.rows
  <2>1. CASE r \in reach.ingested
    BY <1>1, <2>1 DEF ChannelInv, ReachOK
  <2>2. CASE r \notin reach.ingested
    <3> DEFINE s == reach.ingested \cup {r}
    <3>1. reach' = [reach EXCEPT !.ingested = s, !.rows = r] /\ s \in SUBSET Days
      BY <1>1, <2>2 DEF ReachRecords
    <3>2. reach' \in ReachRecords /\ reach'.cursor = reach.cursor /\ reach'.ingested = s /\ reach'.rows = r
      <4> HIDE DEF s, r
      <4> QED  BY <1>1, <3>1 DEF ReachRecords
    <3>3. \A q \in reach.ingested : q <= r
      BY DEF ChannelInv, ReachOK
    <3>4. r <= r
      BY <1>1, DaysAre
    <3> QED  BY <3>2, <3>3, <3>4
  <2> QED  BY <2>1, <2>2
<1>4. ReachOK'
  BY <1>1, <1>2, <1>3 DEF ChannelInv, ReachOK
<1>5. sync'.pc \in AfterDaily \ {"videos"} /\ sync'.todo = {}
  BY <1>1, <1>2 DEF AfterDaily, Opened
<1> QED  BY <1>1, <1>2, <1>4, <1>5, SyncGoesFurther

LEMMA CursorIsAdvanced == ASSUME ChannelInv, AdvanceCursor PROVE ChannelInv'
<1> DEFINE r == reach.cursor + 1
           rest == sync.reports \ {r}
           p == IF rest = {} THEN "finish" ELSE "ingest"
<1>1. /\ sync.pc = "advance" /\ sync \in SyncRecords /\ reach \in ReachRecords /\ r \in Days /\ sync.pc \in AfterDaily
      /\ sync.todo = {} /\ syncFaults \in 0..MaxSyncFaults /\ r \in sync.reports
      /\ UNCHANGED <<grantVars, worldVars, figureVars, syncRow, syncJob, syncFaults>>
      /\ reach' = [reach EXCEPT !.cursor = Max({reach.cursor, r})]
      /\ sync' = [sync EXCEPT !.reports = rest, !.pc = p] /\ rest \in SUBSET Days /\ p \in {"finish", "ingest"}
  BY OldestIs DEF AdvanceCursor, SyncAt, ChannelInv, JobOK, ReachOK, SyncOK, AfterDaily, Opened, SyncRecords
<1>2. Max({reach.cursor, r}) = r
  <2>1. reach.cursor \in Nat
    BY <1>1, DaysAre DEF ReachRecords
  <2>2. \A x \in {reach.cursor, r} : (\A y \in {reach.cursor, r} : x >= y) => x = r
    BY <2>1
  <2>3. r \in {reach.cursor, r} /\ \A y \in {reach.cursor, r} : r >= y
    BY <2>1
  <2> QED  BY <2>2, <2>3 DEF Max
<1>3. reach' = [reach EXCEPT !.cursor = r]
  BY <1>1, <1>2
<1>4. reach' \in ReachRecords /\ reach'.cursor = r /\ reach'.ingested = reach.ingested /\ reach'.rows = reach.rows
  <2> HIDE DEF r
  <2> QED  BY <1>1, <1>3 DEF ReachRecords
<1>5. sync' \in SyncRecords /\ sync'.pc = p /\ sync'.reports = rest /\ sync'.todo = sync.todo
      /\ sync'.end = sync.end /\ sync'.cursor = sync.cursor
  <2> HIDE DEF rest, p
  <2> QED  BY <1>1 DEF SyncRecords
<1>6. /\ \A q \in Days : FirstDay < q /\ q <= r => q \in reach.ingested
      /\ \A q \in reach.ingested : q <= r + 1 /\ q <= reach.rows
  <2>1. reach.cursor \in Nat /\ r \in reach.ingested /\ reach.ingested \subseteq Days
    BY <1>1, DaysAre DEF ReachRecords, ChannelInv, ReachOK
  <2>2. \A q \in Days : q \in Nat
    BY DaysAre
  <2>3. \A q \in Days : FirstDay < q /\ q <= r => q = r \/ q <= reach.cursor
    BY <2>1, <2>2
  <2>4. \A q \in reach.ingested : q <= r + 1
    BY <2>1, <2>2 DEF ChannelInv, ReachOK
  <2> QED  BY <2>1, <2>3, <2>4 DEF ChannelInv, ReachOK
<1>7. \A q \in rest : r < q /\ \A d \in Days : r < d /\ d <= q => d \in rest
  <2>1. reach.cursor \in Nat /\ sync.reports \subseteq Days /\ \A q \in Days : q \in Nat
    BY <1>1, DaysAre DEF ReachRecords, SyncRecords
  <2>2. \A q \in sync.reports : reach.cursor < q /\ \A d \in Days : reach.cursor < d /\ d <= q => d \in sync.reports
    BY <1>1 DEF ChannelInv, ReachOK
  <2>3. \A q \in rest : r < q
    BY <2>1, <2>2
  <2>4. ASSUME NEW q \in rest, NEW d \in Days, r < d, d <= q PROVE d \in rest
    <3>1. reach.cursor < d /\ d # r
      BY <2>1, <2>4
    <3> QED  BY <2>2, <2>4, <3>1
  <2> QED  BY <2>3, <2>4
<1>8. ReachOK'
  <2>1. p # "advance" /\ (p = "ingest" => rest # {})
    OBVIOUS
  <2> HIDE DEF r, rest, p
  <2> QED  BY <1>4, <1>5, <1>6, <1>7, <2>1 DEF ReachOK
<1>9. sync'.pc \in AfterDaily \ {"videos"} /\ sync'.todo = {}
  BY <1>1, <1>5 DEF AfterDaily, Opened
<1> QED  BY <1>1, <1>5, <1>8, <1>9, SyncGoesFurther

\* The cursor moves to the end of the sync, up to which everything was read.
LEMMA SyncFinishes == ASSUME ChannelInv, SyncFinish PROVE ChannelInv'
<1>1. /\ sync.pc = "finish" /\ sync.pc # "none" /\ sync.pc \in AfterDaily /\ sync.pc \in Opened /\ sync.todo = {}
      /\ sync.end \in Days /\ sync.end <= lastDay /\ syncFaults \in 0..MaxSyncFaults
      /\ UNCHANGED <<grantVars, worldVars, figureVars, reach>>
  BY DEF SyncFinish, SyncAt, ChannelInv, SyncOK, AfterDaily, Opened
<1>2. CASE syncRow' = [status |-> "idle", through |-> sync.end] /\ EndSync(NoJobNow) /\ UNCHANGED syncFaults
  <2>1. syncRow' \in RowRecords /\ syncRow'.through = sync.end /\ sync' = NoSync /\ syncJob' = NoJobNow
    BY <1>1, <1>2 DEF RowRecords, EndSync
  <2>2. JobOK'
    BY <2>1, JobIs, NoSyncIs DEF JobOK
  <2>3. FiguresOK'
    BY <1>1, <2>1 DEF ChannelInv, FiguresOK, SyncOK, WorldTypes, FigureTypes, OldEnough, HasHistory, ReadTo,
                       worldVars, figureVars
  <2> QED  BY <1>1, <1>2, <2>1, <2>2, <2>3, SyncIsOver, OwnerKept DEF ChannelInv
<1>3. CASE SpendSync("error") /\ RaiseSync("error") /\ UNCHANGED <<syncRow, syncJob>>
  BY <1>1, <1>3, FaultPaid, SyncIsRaised
<1> QED  BY <1>2, <1>3 DEF SyncFinish

\* The flag of a sync leaves a disconnected channel alone.
LEMMA SyncIsFlagged == ASSUME ChannelInv, SyncFail PROVE ChannelInv'
<1>1. /\ sync.pc = "fail" /\ sync.pc # "none" /\ sync \in SyncRecords /\ syncRow' \in RowRecords
      /\ sync' = [sync EXCEPT !.pc = "record"] /\ channel' = IF sync.error = "auth" THEN Flagged ELSE channel
      /\ UNCHANGED <<sealed, alive, owner, worldVars, figureVars, reach, syncRow, syncJob, syncFaults>>
  BY DEF SyncFail, SyncAt, GoSync, ChannelInv, JobOK
<1>2. sync' \in SyncRecords /\ sync'.pc = "record" /\ sync'.cursor = sync.cursor
  BY <1>1 DEF SyncRecords
<1>3. OwnerOK'
  BY <1>1 DEF ChannelInv, OwnerOK, GrantTypes, Flagged
<1>4. SyncOK' /\ ReachOK'
  BY <1>1, <1>2 DEF ChannelInv, SyncOK, ReachOK, Opened, AfterDaily
<1> QED  BY <1>1, <1>2, <1>3, <1>4, SyncGoesOn DEF ChannelInv

\* The ends of an attempt without a cursor.
LEMMA SyncEnds ==
    ASSUME ChannelInv, sync' = NoSync, UNCHANGED <<grantVars, worldVars, figureVars, reach>>,
           syncJob' \in JobRecords, syncJob'.state = "queued" => syncJob'.attempt < MaxSyncAttempts,
           syncJob'.state = "running" => syncJob'.attempt > 0,
           syncRow' \in RowRecords, syncRow'.through = syncRow.through, syncFaults' \in 0..MaxSyncFaults
    PROVE  ChannelInv'
<1>1. JobOK'
  BY NoSyncIs DEF JobOK
<1> QED  BY <1>1, SyncIsOver, OwnerKept, FiguresKept DEF ChannelInv

LEMMA AttemptIsOver == ASSUME ChannelInv, SyncRecord \/ SyncTimeout \/ SyncCrash PROVE ChannelInv'
<1>1. /\ sync.pc # "none" /\ syncJob.state = "running" /\ JobOK /\ syncRow \in RowRecords /\ syncFaults \in 0..MaxSyncFaults
      /\ UNCHANGED <<grantVars, worldVars, figureVars, reach>> /\ sync' = NoSync
      /\ syncJob \in JobRecords /\ syncJob.attempt > 0
  BY DEF SyncRecord, SyncTimeout, SyncCrash, SyncAt, EndSync, ChannelInv, JobOK
<1>2. CASE SyncRecord
  <2>1. syncRow' = [syncRow EXCEPT !.status = "failed"] /\ syncJob' = OutcomeOf(sync.error) /\ UNCHANGED syncFaults
    BY <1>2 DEF SyncRecord, EndSync
  <2>2. syncRow' \in RowRecords /\ syncRow'.through = syncRow.through
    BY <1>1, <2>1 DEF RowRecords
  <2>3. syncJob' \in JobRecords /\ (syncJob'.state = "queued" => syncJob'.attempt < MaxSyncAttempts) /\ syncJob'.state # "running"
    BY <1>1, <2>1, OutcomeIs
  <2> QED  BY <1>1, <2>1, <2>2, <2>3, SyncEnds
<1>3. CASE SyncTimeout
  <2>1. syncJob' = Retried /\ UNCHANGED syncRow /\ SpendSync("timeout")
    BY <1>3 DEF SyncTimeout, EndSync
  <2> QED  BY <1>1, <2>1, RetriedIs, FaultPaid, SyncEnds
<1>4. CASE SyncCrash
  <2>1. UNCHANGED <<syncJob, syncRow>> /\ SpendSync("crash")
    BY <1>4 DEF SyncCrash
  <2> QED  BY <1>1, <2>1, FaultPaid, SyncEnds
<1> QED  BY <1>2, <1>3, <1>4

LEMMA RowExpires == ASSUME ChannelInv, SyncGoesStale \/ RescueSync PROVE ChannelInv'
<1>1. /\ syncRow' = Expired /\ syncRow \in RowRecords /\ JobOK /\ syncFaults \in 0..MaxSyncFaults
      /\ UNCHANGED <<grantVars, worldVars, figureVars, reach, sync, syncFaults>>
  BY DEF SyncGoesStale, RescueSync, ChannelInv, JobOK
<1>2. syncRow' \in RowRecords /\ syncRow'.through = syncRow.through
  BY <1>1, ExpiredIs
<1>3. JobOK'
  <2>1. CASE SyncGoesStale
    BY <1>1, <1>2, <2>1 DEF SyncGoesStale, JobOK
  <2>2. CASE RescueSync
    BY <1>1, <1>2, <2>2, RetriedIs DEF RescueSync, SyncAt, JobOK
  <2> QED  BY <2>1, <2>2
<1>4. SyncOK' /\ ReachOK'
  BY <1>1, <1>2 DEF ChannelInv, SyncOK, ReachOK, HasHistory, ReadTo, worldVars, figureVars
<1> QED  BY <1>1, <1>2, <1>3, <1>4, OwnerKept, FiguresKept DEF ChannelInv

\* The channel's query: up to the end of the sync the figures are final, those
\* before the window because the cursor has passed them.
LEMMA ChannelIsRead == ASSUME ChannelInv, SyncDaily PROVE ChannelInv'
<1> DEFINE c == sync.cursor
           e == sync.end
           known == {v \in TrackedVideos : HasHistory(v)}
           todo == {v \in tracked : VideoWindow(v, known, c, e) # {}}
           w == ChannelWindow(c, e)
<1>1. PICK lag \in 0..LookBackDays : channelRead' = Upserted(channelRead, w, lag)
  BY DEF SyncDaily
<1>2. /\ sync.pc = "daily" /\ sync.pc # "none" /\ sync \in SyncRecords /\ syncRow \in RowRecords
      /\ sync' = [sync EXCEPT !.pc = "videos", !.known = known, !.todo = todo]
      /\ UNCHANGED <<grantVars, worldVars, videoRead, reach, syncRow, syncJob, syncFaults>>
      /\ c = syncRow.through /\ e \in Days /\ c <= e /\ e <= lastDay
      /\ WorldTypes /\ FigureTypes /\ OldEnough(channelRead)
      /\ ReadTo(channelRead, BackfillFrom(c), c)
      /\ \A v \in tracked : HasHistory(v) => ReadTo(videoRead[v], VideoFrom(v, lastDay), c)
  BY DEF SyncDaily, SyncAt, ChannelInv, JobOK, SyncOK, FiguresOK, Opened
<1>3. /\ channelRead' \in [Days -> Figures] /\ OldEnough(channelRead)'
      /\ \A d \in Days : channelRead[d] = "final" => channelRead'[d] = "final"
      /\ \A d \in Days : d \in w /\ d + LookBackDays <= lastDay => channelRead'[d] = "final"
  <2>1. lastDay \in Days /\ channelRead \in [Days -> Figures] /\ OldEnough(channelRead) /\ lastDay' = lastDay
    BY <1>2 DEF WorldTypes, FigureTypes, worldVars
  <2> HIDE DEF w
  <2>2. /\ channelRead' \in [Days -> Figures] /\ OldEnough(Upserted(channelRead, w, lag))
        /\ \A d \in Days : channelRead[d] = "final" => channelRead'[d] = "final"
        /\ \A d \in Days : d \in w /\ d + LookBackDays <= lastDay => channelRead'[d] = "final"
    BY <1>1, <2>1, UpsertedIs
  <2> QED  BY <1>1, <2>1, <2>2 DEF OldEnough
<1>4. /\ c \in Days \cup {NoDay} /\ c \in Nat /\ e \in Nat /\ lastDay \in Nat /\ lastDay \in Days
      /\ BackfillFrom(c) \in Int /\ BackfillFrom(e) \in Int /\ BackfillFrom(c) <= BackfillFrom(e)
  BY <1>2, DayNumbers, FromGrows
<1>5. ReadTo(channelRead', BackfillFrom(c), c)
  BY <1>2, <1>3 DEF ReadTo
<1>6. ReadTo(channelRead', BackfillFrom(e), e)
  <2>1. ReadTo(channelRead, BackfillFrom(e), c)
    BY <1>2, <1>4, DaysAre DEF ReadTo
  <2>2. \A d \in Days : d + LookBackDays <= e => d + LookBackDays <= lastDay
    BY <1>2, <1>4, DaysAre
  <2>3. \A d \in Days : d \in w /\ d + LookBackDays <= e => channelRead'[d] = "final"
    BY <1>3, <2>2
  <2>4. w = SyncWindow(c, BackfillFrom(e), e) /\ BackfillFrom(e) <= BackfillFrom(e)
    BY <1>4 DEF ChannelWindow
  <2> HIDE DEF w, c, e
  <2> QED  BY <1>2, <1>3, <1>4, <2>1, <2>3, <2>4, WindowFills
<1>7. ASSUME NEW v \in tracked \ todo, HasHistory(v) PROVE ReadTo(videoRead[v], VideoFrom(v, lastDay), e)
  <2>1. v \in TrackedVideos /\ v \in tracked /\ v \in known
    BY <1>2, <1>7 DEF WorldTypes
  <2>2. /\ VideoFrom(v, e) \in Int /\ VideoFrom(v, lastDay) \in Int /\ VideoFrom(v, e) <= VideoFrom(v, lastDay)
    BY <1>2, <1>4, <2>1, FromGrows
  <2>3. SyncWindow(c, VideoFrom(v, e), e) = {}
    BY <1>7, <2>1 DEF VideoWindow, VideoCursor
  <2>4. ReadTo(videoRead[v], VideoFrom(v, lastDay), c)
    BY <1>2, <1>7
  <2> DEFINE read == videoRead[v]
             none == {}
  <2>5. none = SyncWindow(c, VideoFrom(v, e), e) /\ \A d \in Days : d \notin none
    BY <2>3
  <2> HIDE DEF c, e, read, none
  <2>6. ReadTo(read, VideoFrom(v, lastDay), c)
    BY <2>4 DEF read
  <2>7. ReadTo(read, VideoFrom(v, lastDay), e)
    BY <1>2, <1>4, <2>2, <2>5, <2>6, WindowFills
  <2> QED  BY <2>7 DEF read
<1>8. todo \in SUBSET TrackedVideos /\ todo \subseteq tracked /\ known \in SUBSET TrackedVideos
      /\ \A v \in known : HasHistory(v)
  BY <1>2 DEF WorldTypes
<1> HIDE DEF todo, known
<1>9. sync' \in SyncRecords /\ sync'.pc = "videos" /\ sync'.cursor = c /\ sync'.end = e /\ sync'.todo = todo
      /\ sync'.known = known
  BY <1>2, <1>8 DEF SyncRecords
<1>10. \A v \in TrackedVideos : HasHistory(v)' <=> HasHistory(v)
  BY <1>2 DEF HasHistory
<1>11. FiguresOK'
  BY <1>2, <1>3, <1>5, <1>10 DEF ChannelInv, FiguresOK, WorldTypes, FigureTypes, OldEnough, ReadTo, worldVars
<1>12. SyncOK'
  <2>1. \A v \in tracked' \ sync'.todo : HasHistory(v)' => ReadTo(videoRead[v], VideoFrom(v, lastDay), sync.end)'
    BY <1>2, <1>7, <1>9, <1>10 DEF WorldTypes, worldVars, ReadTo
  <2>2. ReadTo(channelRead, BackfillFrom(sync.end), sync.end)'
    BY <1>6, <1>9
  <2>3. sync'.todo \subseteq tracked' /\ \A v \in sync'.known : HasHistory(v)'
    BY <1>2, <1>8, <1>9, <1>10 DEF worldVars
  <2> QED  BY <1>2, <1>9, <2>1, <2>2, <2>3 DEF SyncOK, Opened, AfterDaily, worldVars
<1>13. JobOK' /\ ReachOK'
  BY <1>2, <1>9 DEF ChannelInv, JobOK, ReachOK
<1> QED  BY <1>2, <1>11, <1>12, <1>13, OwnerKept DEF ChannelInv

\* One video's query: a video with a history goes on at the cursor, one without
\* is read from its first day.
LEMMA VideoIsRead == ASSUME ChannelInv, NEW v \in TrackedVideos, SyncVideo(v) PROVE ChannelInv'
<1> DEFINE c == sync.cursor
           e == sync.end
           old == videoRead[v]
           w == VideoWindow(v, sync.known, c, e)
           rest == sync.todo \ {v}
<1>1. PICK lag \in 0..LookBackDays : videoRead' = [videoRead EXCEPT ![v] = Upserted(old, w, lag)]
  BY DEF SyncVideo
<1>2. /\ sync.pc = "videos" /\ sync.pc # "none" /\ sync \in SyncRecords /\ syncRow \in RowRecords
      /\ sync' = [sync EXCEPT !.todo = rest] /\ v \in sync.todo
      /\ UNCHANGED <<grantVars, worldVars, channelRead, reach, syncRow, syncJob, syncFaults>>
      /\ c = syncRow.through /\ e \in Days /\ c <= e /\ e <= lastDay
      /\ WorldTypes /\ FigureTypes /\ OldEnough(old)
      /\ sync.todo \subseteq tracked \cup untracked /\ \A u \in sync.known : HasHistory(u)
      /\ \A u \in tracked : HasHistory(u) => ReadTo(videoRead[u], VideoFrom(u, lastDay), c)
      /\ \A u \in tracked \ sync.todo : HasHistory(u) => ReadTo(videoRead[u], VideoFrom(u, lastDay), e)
      /\ ReadTo(channelRead, BackfillFrom(e), e)
  BY DEF SyncVideo, SyncAt, ChannelInv, JobOK, SyncOK, FiguresOK, Opened, AfterDaily
<1> DEFINE new == videoRead'[v]
<1>3. /\ videoRead' \in [TrackedVideos -> [Days -> Figures]] /\ \A u \in TrackedVideos \ {v} : videoRead'[u] = videoRead[u]
      /\ \A d \in Days : new[d] = "final" => d + LookBackDays <= lastDay
      /\ \A d \in Days : old[d] = "final" => new[d] = "final"
      /\ \A d \in Days : old[d] # "none" => new[d] # "none"
      /\ \A d \in Days : d \in w /\ d + LookBackDays <= lastDay => new[d] = "final"
  <2>1. lastDay \in Days /\ videoRead \in [TrackedVideos -> [Days -> Figures]] /\ old \in [Days -> Figures] /\ OldEnough(old)
    BY <1>2 DEF WorldTypes, FigureTypes
  <2> DEFINE x == Upserted(old, w, lag)
  <2> HIDE DEF w, old
  <2>2. /\ x \in [Days -> Figures] /\ OldEnough(x)
        /\ \A d \in Days : old[d] = "final" => x[d] = "final"
        /\ \A d \in Days : old[d] # "none" => x[d] # "none"
        /\ \A d \in Days : d \in w /\ d + LookBackDays <= lastDay => x[d] = "final"
    BY <2>1, UpsertedIs
  <2> HIDE DEF x
  <2>3. videoRead' = [videoRead EXCEPT ![v] = x]
    BY <1>1 DEF x
  <2>4. new = x /\ videoRead' \in [TrackedVideos -> [Days -> Figures]] /\ \A u \in TrackedVideos \ {v} : videoRead'[u] = videoRead[u]
    BY <2>1, <2>2, <2>3
  <2> HIDE DEF new
  <2> QED  BY <2>2, <2>4 DEF OldEnough
<1>4. /\ c \in Days \cup {NoDay} /\ c \in Nat /\ e \in Nat /\ lastDay \in Nat /\ lastDay \in Days
      /\ VideoFrom(v, e) \in Int /\ VideoFrom(v, lastDay) \in Int /\ VideoFrom(v, e) <= VideoFrom(v, lastDay)
  BY <1>2, DayNumbers, FromGrows
<1>5. ASSUME v \in tracked PROVE ReadTo(new, VideoFrom(v, lastDay), e)
  <2> DEFINE k == VideoCursor(v, sync.known, c)
  <2>1. k \in Days \cup {NoDay} /\ (k # NoDay => ReadTo(old, VideoFrom(v, lastDay), k))
    BY <1>2, <1>4, <1>5 DEF VideoCursor
  <2>2. w = SyncWindow(k, VideoFrom(v, e), e)
    BY DEF VideoWindow
  <2>3. \A d \in Days : d + LookBackDays <= e => d + LookBackDays <= lastDay
    BY <1>2, <1>4, DaysAre
  <2>4. \A d \in Days : d \in w /\ d + LookBackDays <= e => new[d] = "final"
    BY <1>3, <2>3
  <2>5. e \in Days /\ \A d \in Days : old[d] = "final" => new[d] = "final"
    BY <1>2, <1>3
  <2> DEFINE from == VideoFrom(v, e)
             first == VideoFrom(v, lastDay)
  <2>6. from \in Int /\ first \in Int /\ from <= first /\ w = SyncWindow(k, from, e) /\ (k # NoDay => ReadTo(old, first, k))
    BY <1>4, <2>1, <2>2
  <2>7. k \in Days \cup {NoDay} /\ e \in Days
    BY <2>1, <2>5
  <2> HIDE DEF k, w, e, c, old, new, from, first
  <2>8. ReadTo(new, first, e)
    BY <2>4, <2>5, <2>6, <2>7, WindowFills
  <2> QED  BY <2>8 DEF first, new, e
<1>6. ASSUME v \in tracked PROVE ReadTo(new, VideoFrom(v, lastDay), c)
  <2>1. \A d \in Days : d + LookBackDays <= c => d + LookBackDays <= e
    BY <1>2, <1>4, DaysAre
  <2> QED  BY <1>5, <1>6, <2>1 DEF ReadTo
<1>7. /\ \A u \in TrackedVideos \ {v} : HasHistory(u)' <=> HasHistory(u)
      /\ HasHistory(v) => HasHistory(v)'
  BY <1>3 DEF HasHistory
<1>8. sync' \in SyncRecords /\ sync'.pc = "videos" /\ sync'.cursor = c /\ sync'.end = e /\ sync'.todo = rest
      /\ sync'.known = sync.known
  <2>1. rest \in SUBSET TrackedVideos
    BY <1>2 DEF SyncRecords
  <2> HIDE DEF rest
  <2> QED  BY <1>2, <2>1 DEF SyncRecords
<1>9. lastDay' = lastDay /\ tracked' = tracked /\ untracked' = untracked /\ tracked \subseteq TrackedVideos
  BY <1>2 DEF worldVars, WorldTypes
<1>10. FiguresOK'
  <2>1. WorldTypes' /\ FigureTypes'
    BY <1>2, <1>3, <1>9 DEF WorldTypes, FigureTypes
  <2>2. OldEnough(channelRead)' /\ \A u \in TrackedVideos : OldEnough(videoRead[u])'
    BY <1>2, <1>3, <1>9 DEF ChannelInv, FiguresOK, OldEnough
  <2>3. \A u \in TrackedVideos : HasHistory(u)' => u \in tracked' \cup untracked'
    BY <1>2, <1>7, <1>9 DEF ChannelInv, FiguresOK
  <2>4. syncRow'.through <= lastDay' /\ ReadTo(channelRead, BackfillFrom(syncRow.through), syncRow.through)'
    BY <1>2, <1>9 DEF ChannelInv, FiguresOK, ReadTo
  <2>5. ASSUME NEW u \in tracked', HasHistory(u)' PROVE ReadTo(videoRead'[u], VideoFrom(u, lastDay), c)
    <3>1. CASE u = v
      BY <1>6, <1>9, <2>5, <3>1
    <3>2. CASE u # v
      BY <1>2, <1>3, <1>7, <1>9, <2>5, <3>2
    <3> QED  BY <3>1, <3>2
  <2>6. \A u \in tracked' : HasHistory(u)' => ReadTo(videoRead[u], VideoFrom(u, lastDay), syncRow.through)'
    BY <1>2, <1>9, <2>5 DEF ReadTo
  <2> QED  BY <2>1, <2>2, <2>3, <2>4, <2>6 DEF FiguresOK
<1>11. SyncOK'
  <2>1. ASSUME NEW u \in tracked' \ sync'.todo, HasHistory(u)' PROVE ReadTo(videoRead'[u], VideoFrom(u, lastDay), e)
    <3>1. CASE u = v
      BY <1>5, <1>9, <2>1, <3>1
    <3>2. CASE u # v
      BY <1>2, <1>3, <1>7, <1>8, <1>9, <2>1, <3>2
    <3> QED  BY <3>1, <3>2
  <2>2. \A u \in tracked' \ sync'.todo : HasHistory(u)' => ReadTo(videoRead[u], VideoFrom(u, lastDay), sync.end)'
    BY <1>8, <1>9, <2>1 DEF ReadTo
  <2>3. ReadTo(channelRead, BackfillFrom(sync.end), sync.end)'
    BY <1>2, <1>8 DEF ReadTo
  <2>4. sync.known \subseteq TrackedVideos
    BY <1>2 DEF SyncRecords
  <2>5. sync'.todo \subseteq tracked' \cup untracked' /\ \A u \in sync'.known : HasHistory(u)'
    BY <1>2, <1>7, <1>8, <1>9, <2>4
  <2> QED  BY <1>2, <1>8, <1>9, <2>2, <2>3, <2>5 DEF SyncOK, Opened, AfterDaily
<1>12. JobOK' /\ ReachOK'
  BY <1>2, <1>8 DEF ChannelInv, JobOK, ReachOK
<1> QED  BY <1>2, <1>10, <1>11, <1>12, OwnerKept DEF ChannelInv

-----------------------------------------------------------------------------
(* The theorems *)

LEMMA ChannelInitially == ChannelInit => ChannelInv
<1> SUFFICES ASSUME ChannelInit PROVE ChannelInv
  OBVIOUS
<1> USE ChannelAssumption, DaysAre
<1>1. OwnerOK
  <2>1. 1 \in Grants
    BY DEF Grants
  <2>2. owner = [pc |-> "none", grant |-> 1]
    BY DEF ChannelInit, NoRequest
  <2> QED  BY <2>1, <2>2 DEF ChannelInit, OwnerOK, GrantTypes
<1>2. JobOK
  BY NoSyncIs DEF ChannelInit, JobOK, JobRecords, RowRecords
<1>3. FiguresOK
  <2>1. WorldTypes /\ FigureTypes
    BY DEF ChannelInit, WorldTypes, FigureTypes, Figures
  <2>2. syncRow.through = 0 /\ lastDay \in Nat
    BY DEF ChannelInit
  <2> QED  BY <2>1, <2>2 DEF ChannelInit, FiguresOK, OldEnough, HasHistory, ReadTo
<1>4. SyncOK
  BY NoSyncIs DEF ChannelInit, SyncOK, Opened, AfterDaily
<1>5. ReachOK
  <2>1. reach = [ingested |-> {}, cursor |-> FirstDay, rows |-> FirstDay]
    BY DEF ChannelInit
  <2>2. reach \in ReachRecords /\ reach.ingested = {} /\ reach.cursor = FirstDay
    BY <2>1 DEF ReachRecords
  <2>3. sync.pc = "none" /\ \A r \in Days : ~(FirstDay < r /\ r <= FirstDay)
    BY NoSyncIs DEF ChannelInit
  <2> QED  BY <2>2, <2>3 DEF ReachOK
<1> QED  BY <1>1, <1>2, <1>3, <1>4, <1>5 DEF ChannelInv, ChannelInit

LEMMA ChannelInvKept == ChannelInv /\ [ChannelNext]_channelVars => ChannelInv'
<1> SUFFICES ASSUME ChannelInv, [ChannelNext]_channelVars PROVE ChannelInv'
  OBVIOUS
<1>1. ASSUME SyncStep PROVE ChannelInv'
  BY <1>1, SyncBegins, SyncStarts, SyncOpens, CallIsRefused, QueryIsLost, ChannelIsRead, VideoIsRead, StatsAreRead,
     ReportsAreListed, ReportIsIngested, CursorIsAdvanced, SyncFinishes, SyncIsFlagged, AttemptIsOver DEF SyncStep
<1>2. ASSUME SyncAll \/ SyncTimeout \/ SyncCrash \/ SyncGoesStale \/ RescueSync PROVE ChannelInv'
  BY <1>2, SyncIsInserted, AttemptIsOver, RowExpires
<1>3. ASSUME ConnectExchange \/ DisconnectRevoke \/ OwnerStep \/ OwnerCrash \/ GrantLost PROVE ChannelInv'
  BY <1>3, OwnerActs
<1>4. ASSUME NEW v \in TrackedVideos, Track(v) \/ Untrack(v) PROVE ChannelInv'
  BY <1>4, VideoIsTracked, VideoIsUntracked
<1>5. ASSUME NewDay PROVE ChannelInv'
  BY <1>5, DayEnds
<1>6. ASSUME UNCHANGED channelVars PROVE ChannelInv'
  <2>1. UNCHANGED <<worldVars, figureVars, reach, jobVars>> /\ UNCHANGED grantVars /\ UNCHANGED syncFaults
    BY <1>6 DEF channelVars
  <2> QED  BY <2>1, AnalyticsKept, OwnerKept DEF ChannelInv
<1> QED  BY <1>1, <1>2, <1>3, <1>4, <1>5, <1>6 DEF ChannelNext

LEMMA ChannelInvIsSafe == ChannelInv => ChannelSafe
<1> SUFFICES ASSUME ChannelInv PROVE ChannelSafe
  OBVIOUS
<1>1. ChannelTypeOK
  BY DEF ChannelInv, OwnerOK, GrantTypes, JobOK, JobRecords, RowRecords, SyncRecords, FiguresOK, WorldTypes, FigureTypes,
         ReachOK, ReachRecords, ChannelTypeOK, ApiCalls
<1>2. FiguresFinal
  BY DEF ChannelInv, FiguresOK, FiguresFinal, FinalFrom, ReadTo
<1>3. ReportsInOrder
  <2>1. ASSUME NEW r \in FirstDay + 1..reach.cursor PROVE r \in reach.ingested
    <3>1. reach.cursor \in Days
      BY DEF ChannelInv, ReachOK, ReachRecords
    <3>2. r \in Days /\ FirstDay < r /\ r <= reach.cursor
      BY <3>1, ChannelAssumption DEF Days
    <3> QED  BY <3>2 DEF ChannelInv, ReachOK
  <2> QED  BY <2>1 DEF ChannelInv, ReachOK, ReportsInOrder
<1> QED  BY <1>1, <1>2, <1>3 DEF ChannelSafe

\* However syncs fail, come late or are cut short, the stored figures have no
\* hole and no value YouTube has revised since, and the reach rows are those of
\* the newest report (window.go, sync_metrics.go, reach.go).
THEOREM ChannelIsSafe == ChannelSpec => []ChannelSafe
<1>1. ChannelInit => ChannelInv
  BY ChannelInitially
<1>2. ChannelInv /\ [ChannelNext]_channelVars => ChannelInv'
  BY ChannelInvKept
<1>3. ChannelInv => ChannelSafe
  BY ChannelInvIsSafe
<1> QED  BY <1>1, <1>2, <1>3, PTL DEF ChannelSpec

\* A disconnected channel stays so until the owner connects it again, whatever
\* sync or connect was under way (sync.go fail, FlagChannelReconnectNeeded).
THEOREM DisconnectedStays == ChannelSpec => DisconnectSticks
<1>1. ChannelInit => ChannelInv
  BY ChannelInitially
<1>2. ChannelInv /\ [ChannelNext]_channelVars => ChannelInv'
  BY ChannelInvKept
<1>3. ChannelInv /\ [ChannelNext]_channelVars =>
         [channel = "disconnected" /\ channel' # channel => owner.pc = "store"]_channelVars
  <2> SUFFICES ASSUME ChannelInv, ChannelNext, channel = "disconnected", channel' # channel PROVE owner.pc = "store"
    OBVIOUS
  <2>1. owner.pc # "seal"
    BY DEF ChannelInv, OwnerOK
  <2>2. ~SyncStep
    BY DEF SyncStep, SyncBegin, SyncStart, SyncOpen, GrantRefused, QueryFails, SyncDaily, SyncVideo, SyncStats, SyncReports,
           IngestReport, AdvanceCursor, SyncFinish, SyncFail, Flagged, SyncRecord, grantVars
  <2>3. ~(SyncAll \/ SyncTimeout \/ SyncCrash \/ SyncGoesStale \/ RescueSync \/ NewDay)
    BY DEF SyncAll, SyncTimeout, SyncCrash, SyncGoesStale, RescueSync, NewDay, grantVars
  <2>4. ~(ConnectExchange \/ DisconnectRevoke \/ OwnerCrash \/ GrantLost)
    BY DEF ConnectExchange, DisconnectRevoke, OwnerCrash, GrantLost
  <2>5. ~\E v \in TrackedVideos : Track(v) \/ Untrack(v)
    BY DEF Track, Untrack, grantVars
  <2>6. OwnerStep
    BY <2>2, <2>3, <2>4, <2>5 DEF ChannelNext
  <2> QED  BY <2>1, <2>6 DEF OwnerStep, ConnectRead, ConnectStore, ConnectSeal, ConnectAbandon, DisconnectDelete, DisconnectMark
<1> QED  BY <1>1, <1>2, <1>3, PTL DEF ChannelSpec, DisconnectSticks
=============================================================================
