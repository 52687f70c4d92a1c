----------------------------- MODULE VideoUpload -----------------------------
(***************************************************************************)
(* The resumable upload of an approved render to YouTube, and the daily    *)
(* quota pool every call draws from (src/api/internal/youtube/upload.go,   *)
(* quota.go, client.go, db/queries/quota.sql).                             *)
(*                                                                         *)
(* Each upload streams the blocks of one stored object.  Of a block only   *)
(* whether it is the approved one matters.  The object may be replaced     *)
(* once, by one that differs in some blocks; it is never replaced back.    *)
(* What calls Upload is not in the repository: as upload.go asks, it keeps *)
(* the session PersistSession stored, tries again after an error that is   *)
(* not permanent, and looks for the video by its tag when the session is   *)
(* gone.  An upload has one attempt at a time.                             *)
(***************************************************************************)
EXTENDS Naturals

CONSTANTS
    Uploads,
    VideoBlocks,     \* the size of the object
    ChunkBlocks,     \* blocks of a chunk
    InsertCost, ReadCost, DailyLimit,
    UploadFaultKinds,
    MaxUploadFaults

ASSUME UploadAssumption ==
    /\ VideoBlocks \in Nat \ {0} /\ ChunkBlocks \in Nat \ {0}
    /\ InsertCost \in Nat /\ ReadCost \in Nat /\ DailyLimit \in Nat
    /\ UploadFaultKinds \subseteq {"lost", "crash", "expire", "change", "refuse", "quota"}
    /\ MaxUploadFaults \in Nat

VARIABLES
    changed,      \* the blocks of the object that are not the approved ones
    kept,         \* the caller has a session URI
    session,      \* that session at Google: the blocks it holds
    videos,       \* the videos Google made of the upload
    uploader,     \* the attempt
    units,        \* the ledger's units of today
    spent,        \* what Google was asked for today under reservations of today
    uploadFaults

uploadVars == <<changed, kept, session, videos, uploader, units, spent, uploadFaults>>
quotaVars == <<units, spent>>

AllBlocks == 1..VideoBlocks
NoSession == [state |-> "none", held |-> 0, ok |-> TRUE]
NewSession == [NoSession EXCEPT !.state = "open"]
NotUploading == [pc |-> "idle", off |-> 0, hashed |-> 0, ok |-> TRUE, bad |-> {}, today |-> TRUE]

UploadAt(u, pc) == uploader[u].pc = pc
SetUploader(u, r) == uploader' = [uploader EXCEPT ![u] = r]
EndAttempt(u, pc) == SetUploader(u, [NotUploading EXCEPT !.pc = pc])
SpendUpload(f) == f \in UploadFaultKinds /\ uploadFaults > 0 /\ uploadFaults' = uploadFaults - 1

ChunkEnd(u) ==
    IF uploader[u].off + ChunkBlocks < VideoBlocks THEN uploader[u].off + ChunkBlocks ELSE VideoBlocks

UploadInit ==
    /\ changed = [u \in Uploads |-> {}]
    /\ kept = [u \in Uploads |-> FALSE]
    /\ session = [u \in Uploads |-> NoSession]
    /\ videos = [u \in Uploads |-> [n |-> 0, ok |-> TRUE]]
    /\ uploader = [u \in Uploads |-> NotUploading]
    /\ units = 0 /\ spent = 0
    /\ uploadFaults = MaxUploadFaults

(***************************************************************************)
(* The quota ledger.                                                       *)
(***************************************************************************)

\* ReserveQuotaUnits: one statement, for an empty bucket and a full one.
Fits(cost) == units + cost <= DailyLimit

\* MarkQuotaExhausted raises the bucket to the limit.
MarkExhausted == units' = IF units < DailyLimit THEN DailyLimit ELSE units

\* Mutant: a snoozed upload stays snoozed.
StaysSnoozed(pc) == pc

AfterReset(pc) == IF pc = "snoozed" THEN "idle" ELSE pc

\* Pacific midnight: a new bucket, and snoozed uploads go on.  A reservation
\* made before is charged to the day that ended.
Midnight ==
    /\ units' = 0 /\ spent' = 0
    /\ uploader' = [u \in Uploads |-> [uploader[u] EXCEPT !.pc = AfterReset(@),
                                                          !.today = (uploader[u].pc # "open")]]
    /\ UNCHANGED <<changed, kept, session, videos, uploadFaults>>

(***************************************************************************)
(* One attempt.                                                            *)
(***************************************************************************)

\* Upload with the stored session, or without one.
BeginUpload(u) ==
    /\ UploadAt(u, "idle")
    /\ EndAttempt(u, IF kept[u] THEN "query" ELSE "reserve")
    /\ UNCHANGED <<changed, kept, session, videos, quotaVars, uploadFaults>>

ReserveInsert(u) ==
    /\ UploadAt(u, "reserve")
    /\ IF Fits(InsertCost)
       THEN units' = units + InsertCost /\ EndAttempt(u, "open")
       ELSE EndAttempt(u, "snoozed") /\ UNCHANGED units
    /\ UNCHANGED <<changed, kept, session, videos, spent, uploadFaults>>

\* videos.insert opens a session, or Google says that the pool is spent.
OpenSession(u) ==
    /\ UploadAt(u, "open")
    /\ spent' = IF uploader[u].today THEN spent + InsertCost ELSE spent
    /\ \/ /\ session' = [session EXCEPT ![u] = NewSession]
          /\ EndAttempt(u, "persist")
          /\ UNCHANGED <<units, uploadFaults>>
       \/ /\ SpendUpload("quota")
          /\ MarkExhausted
          /\ EndAttempt(u, "snoozed")
          /\ UNCHANGED session
    /\ UNCHANGED <<changed, kept, videos>>

\* Stored before the first byte is sent.
PersistSession(u) ==
    /\ UploadAt(u, "persist")
    /\ kept' = [kept EXCEPT ![u] = TRUE]
    /\ EndAttempt(u, "chunk")
    /\ UNCHANGED <<changed, session, videos, quotaVars, uploadFaults>>

\* Mutant: a resumed upload takes the bytes Google holds as they are.
TrustsHeld(u, next) == [NotUploading EXCEPT !.pc = "chunk", !.off = next, !.hashed = next]

\* rehash: the digest is computed again from the first byte.
Resume(u, next) == [NotUploading EXCEPT !.pc = "rehash", !.off = next]

\* The status query of a stored session.
QueryStatus(u) ==
    /\ UploadAt(u, "query")
    /\ CASE session[u].state = "done" -> EndAttempt(u, "done")
         [] session[u].state = "gone" -> EndAttempt(u, "dedupe")
         [] session[u].state = "open" -> SetUploader(u, Resume(u, session[u].held))
    /\ UNCHANGED <<changed, kept, session, videos, quotaVars, uploadFaults>>

RehashBlock(u) ==
    /\ UploadAt(u, "rehash")
    /\ IF uploader[u].hashed < uploader[u].off
       THEN SetUploader(u, [uploader[u] EXCEPT !.hashed = @ + 1,
                               !.ok = @ /\ uploader[u].hashed + 1 \notin changed[u]])
       ELSE SetUploader(u, [uploader[u] EXCEPT !.pc = "chunk"])
    /\ UNCHANGED <<changed, kept, session, videos, quotaVars, uploadFaults>>

\* The final chunk is sent only when the digest of everything matches.
MaySend(u, ok) == ChunkEnd(u) < VideoBlocks \/ ok

\* ReadRange of the next chunk.  A wrong digest cancels the session, as far
\* as Google hears of it.
ReadChunk(u) ==
    LET bad == changed[u] \cap (uploader[u].off + 1 .. ChunkEnd(u))
        ok == uploader[u].ok /\ bad = {}
    IN  /\ UploadAt(u, "chunk")
        /\ IF uploader[u].off >= VideoBlocks THEN EndAttempt(u, "idle") /\ UNCHANGED session
           ELSE IF MaySend(u, ok)
           THEN /\ SetUploader(u, [uploader[u] EXCEPT !.pc = "send", !.ok = ok,
                                       !.hashed = ChunkEnd(u), !.bad = bad])
                /\ UNCHANGED session
           ELSE /\ EndAttempt(u, "failed")
                /\ \/ UNCHANGED session
                   \/ session' = [session EXCEPT ![u].state = IF @ = "open" THEN "gone" ELSE @]
        /\ UNCHANGED <<changed, kept, videos, quotaVars, uploadFaults>>

\* Google keeps the chunk up to block k; with the last one the video exists.
Keep(u, k) ==
    LET ok == session[u].ok /\ uploader[u].bad \cap (session[u].held + 1 .. k) = {}
        full == k = VideoBlocks
    IN  /\ session' = [session EXCEPT ![u] = [state |-> IF full THEN "done" ELSE "open", held |-> k, ok |-> ok]]
        /\ videos' = IF full THEN [videos EXCEPT ![u] = [n |-> @.n + 1, ok |-> @.ok /\ ok]] ELSE videos

\* sendRange of a chunk: some of it is kept.  The answer names the video, or
\* how far Google is, or does not arrive within the chunk's deadline.
SendChunk(u, k) ==
    /\ UploadAt(u, "send") /\ session[u].state = "open"
    /\ k \in session[u].held + 1 .. ChunkEnd(u)
    /\ Keep(u, k)
    /\ \/ /\ IF k = ChunkEnd(u) THEN SetUploader(u, [uploader[u] EXCEPT !.pc = "chunk", !.off = k, !.bad = {}])
             ELSE SetUploader(u, Resume(u, k))
          /\ UNCHANGED uploadFaults
       \/ /\ k = VideoBlocks
          /\ EndAttempt(u, "done")
          /\ UNCHANGED uploadFaults
       \/ /\ SpendUpload("lost")
          /\ EndAttempt(u, "idle")
    /\ UNCHANGED <<changed, kept, quotaVars>>

\* 404 or 410: the session is gone.
SendToGone(u) ==
    /\ UploadAt(u, "send") /\ session[u].state = "gone"
    /\ EndAttempt(u, "dedupe")
    /\ UNCHANGED <<changed, kept, session, videos, quotaVars, uploadFaults>>

\* No answer, or one that is neither of the above: the caller tries again,
\* or gives up when the error is permanent.  An answer to videos.insert that
\* is lost leaves a session nobody knows.
CallFails(u) ==
    /\ uploader[u].pc \in {"open", "persist", "query", "rehash", "chunk", "send", "dedupe"}
    /\ \/ SpendUpload("lost") /\ EndAttempt(u, "idle")
       \/ SpendUpload("refuse") /\ EndAttempt(u, "failed")
    /\ UNCHANGED <<changed, kept, session, videos, quotaVars>>

UploadCrash(u) ==
    /\ uploader[u].pc \notin {"idle", "snoozed", "done", "failed"} /\ SpendUpload("crash")
    /\ EndAttempt(u, "idle")
    /\ UNCHANGED <<changed, kept, session, videos, quotaVars>>

\* Mutant: a session that is gone is replaced without a look for its video.
NeverFound(u) == FALSE

\* The newest uploads include the upload's video.
FoundByTag(u) == videos[u].n > 0

\* FindUploadByTag: two reads, then the video is adopted or the session
\* forgotten.
DedupeByTag(u) ==
    /\ UploadAt(u, "dedupe")
    /\ IF Fits(2 * ReadCost)
       THEN /\ units' = units + 2 * ReadCost /\ spent' = spent + 2 * ReadCost
            /\ kept' = [kept EXCEPT ![u] = FoundByTag(u)]
            /\ EndAttempt(u, IF FoundByTag(u) THEN "done" ELSE "idle")
       ELSE /\ EndAttempt(u, "snoozed")
            /\ UNCHANGED <<kept, quotaVars>>
    /\ UNCHANGED <<changed, session, videos, uploadFaults>>

(***************************************************************************)
(* What happens outside.                                                   *)
(***************************************************************************)

\* The stored object is replaced; blocks S differ.
ReplaceObject(u, S) ==
    /\ changed[u] = {} /\ S # {} /\ SpendUpload("change")
    /\ changed' = [changed EXCEPT ![u] = S]
    /\ UNCHANGED <<kept, session, videos, uploader, quotaVars>>

\* A session ends by itself, finished or not.
SessionExpires(u) ==
    /\ session[u].state \in {"open", "done"} /\ SpendUpload("expire")
    /\ session' = [session EXCEPT ![u].state = "gone"]
    /\ UNCHANGED <<changed, kept, videos, uploader, quotaVars>>

UploadStep(u) ==
    \/ BeginUpload(u) \/ ReserveInsert(u) \/ OpenSession(u) \/ PersistSession(u)
    \/ QueryStatus(u) \/ RehashBlock(u) \/ ReadChunk(u)
    \/ \E k \in AllBlocks : SendChunk(u, k)
    \/ SendToGone(u) \/ DedupeByTag(u)

UploadNext ==
    \/ \E u \in Uploads :
          \/ UploadStep(u) \/ CallFails(u) \/ UploadCrash(u) \/ SessionExpires(u)
          \/ \E S \in SUBSET AllBlocks : ReplaceObject(u, S)
    \/ Midnight

UploadFairness == (\A u \in Uploads : WF_uploadVars(UploadStep(u))) /\ WF_uploadVars(Midnight)

UploadSpec == UploadInit /\ [][UploadNext]_uploadVars
UploadFairSpec == UploadSpec /\ UploadFairness

(***************************************************************************)
(* Properties.                                                             *)
(***************************************************************************)

UploadTypeOK ==
    /\ changed \in [Uploads -> SUBSET AllBlocks]
    /\ kept \in [Uploads -> BOOLEAN]
    /\ session \in [Uploads -> [state : {"none", "open", "gone", "done"}, held : 0..VideoBlocks, ok : BOOLEAN]]
    /\ videos \in [Uploads -> [n : Nat, ok : BOOLEAN]]
    /\ uploader \in [Uploads -> [pc : {"idle", "reserve", "open", "persist", "query", "rehash", "chunk", "send",
                                       "dedupe", "snoozed", "done", "failed"},
                                 off : 0..VideoBlocks, hashed : 0..VideoBlocks, ok : BOOLEAN,
                                 bad : SUBSET AllBlocks, today : BOOLEAN]]
    /\ units \in Nat /\ spent \in Nat /\ uploadFaults \in 0..MaxUploadFaults

\* The video that Google makes is the approved render, however often the
\* upload was resumed and whenever the object was replaced.
VideoIsApproved == \A u \in Uploads : videos[u].ok

\* One publication makes one video, whatever answer, process or session was
\* lost after Google had all the bytes.
OneVideo == \A u \in Uploads : videos[u].n <= 1

\* What the calls of a day were allowed to cost fits in the day's pool, with
\* uploads reserving concurrently and again after failures.
PoolRespected == spent <= DailyLimit /\ units <= DailyLimit

\* Every upload ends with its video or with a permanent error.
UploadEnds == <>[](\A u \in Uploads : uploader[u].pc \in {"done", "failed"})

\* A publication makes one video, of the approved render, within the pool of
\* its day (upload.go, quota.go).
UploadSafe == UploadTypeOK /\ VideoIsApproved /\ OneVideo /\ PoolRespected
=============================================================================
