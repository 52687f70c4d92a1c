----------------------------- MODULE RenderCache -----------------------------
(***************************************************************************)
(* The cache of encoded render objects: freezing a manifest, the steps     *)
(* that encode what is not cached, compose, and the cleanup that deletes   *)
(* unused entries (src/api/internal/render/{freeze,cache,segments,         *)
(* compose}.go, library/cleanup.go and their queries).                     *)
(*                                                                         *)
(* An entry is keyed by its input hash.  It is three things written one    *)
(* after another: an object version under the key of the hash, the assets  *)
(* row of that key (storage_key is unique) and the render_segments row,    *)
(* which goes with its asset.  Only one episode language is modelled, so   *)
(* the manifest frozen last is the latest.  A manifest's steps run one at  *)
(* a time; the steps of two manifests interleave, since a superseded run   *)
(* may still be finishing.                                                 *)
(***************************************************************************)
EXTENDS Naturals, FiniteSets

CONSTANTS
    Hashes,        \* cacheable entries
    Srt,           \* the subtitles' entry, which a render refers to
    Manifests,
    Needs,         \* the entries of a manifest, the subtitles among them
    NoManifest,
    Versions,      \* object version ids, the bound of what is stored; one no one refers to is used again
    NoVersion,
    MaxTries,      \* MaxTransientAttempts
    CrashPoints,   \* where a worker may die
    MaxCacheFaults \* crashes, cleanups and lost objects of a behaviour

\* Where a step is at work.
WorkPCs == {"stat", "touch", "drop", "unlink", "encode", "create", "lost", "relook", "upsert", "fetch"}
OneToOne(f) == \A g, h \in Hashes : f[g] = f[h] => g = h

ASSUME CacheAssumption ==
    /\ Srt \in Hashes
    /\ Needs \in [Manifests -> SUBSET Hashes] /\ \A m \in Manifests : Srt \in Needs[m]
    /\ NoManifest \notin Manifests /\ NoVersion \notin Versions
    /\ \E f \in [Hashes -> Versions] : OneToOne(f)
    /\ CrashPoints \subseteq WorkPCs
    /\ MaxTries \in Nat \ {0} /\ MaxCacheFaults \in Nat

VARIABLES
    object,     \* the versions stored under the hash's key
    asset,      \* the version the assets row of the key records
    entry,      \* the hash has a render_segments row
    expired,    \* unused for segment_ttl_days
    latest,     \* the manifest frozen last
    render,     \* the renders row: the srt asset it refers to
    job,        \* the manifest's steps
    cleaner,
    cacheFaults \* how often each fault has happened

cacheVars == <<object, asset, entry, expired, latest, render, job, cleaner, cacheFaults>>

NoJobYet == [pc |-> "new", hash |-> Srt, v |-> NoVersion, again |-> FALSE,
             todo |-> {}, left |-> {}, srt |-> NoVersion, tries |-> 0]
CleanerIdle == [pc |-> "idle", rows |-> {}]

SetJob(m, r) == job' = [job EXCEPT ![m] = r]
CacheFault(f) ==
    /\ cacheFaults.crash + cacheFaults.cleanup + cacheFaults.lost < MaxCacheFaults
    /\ cacheFaults' = [cacheFaults EXCEPT ![f] = @ + 1]
JobAt(m, pc) == job[m].pc = pc
Composing(m) == job[m].todo = {}

\* A version nobody knows of: the store never hands out a known one.
IsFresh(v) ==
    /\ \A h \in Hashes : v \notin object[h] /\ asset[h] # v
    /\ \A m \in Manifests : job[m].v # v /\ job[m].srt # v /\ render[m] # v
    /\ \A r \in cleaner.rows : r.v # v
FreshVersion == CHOOSE v \in Versions : IsFresh(v)

Rendered(m) == job[m].pc = "done"
\* A manifest pins its entries while it is the latest or has a render.
Pinned(h) == \E m \in Manifests : h \in Needs[m] /\ (m = latest \/ Rendered(m))
Referenced(v) == \E m \in Manifests : Rendered(m) /\ render[m] = v

\* Entries of earlier manifests may be there, under any version.
CacheInit ==
    /\ entry \in [Hashes -> BOOLEAN]
    /\ LET old == CHOOSE f \in [Hashes -> Versions] : OneToOne(f)
       IN  /\ object = [h \in Hashes |-> IF entry[h] THEN {old[h]} ELSE {}]
           /\ asset = [h \in Hashes |-> IF entry[h] THEN old[h] ELSE NoVersion]
    /\ expired = [h \in Hashes |-> FALSE]
    /\ latest = NoManifest
    /\ render = [m \in Manifests |-> NoVersion]
    /\ job = [m \in Manifests |-> NoJobYet]
    /\ cleaner = CleanerIdle
    /\ cacheFaults = [crash |-> 0, cleanup |-> 0, lost |-> 0]

(***************************************************************************)
(* Freezing.                                                               *)
(***************************************************************************)

\* prepare: what is cached now gets no step.
PrepareManifest(m) ==
    /\ JobAt(m, "new")
    /\ SetJob(m, [job[m] EXCEPT !.pc = "prepared", !.todo = {h \in Needs[m] : ~entry[h]}])
    /\ UNCHANGED <<object, asset, entry, expired, latest, render, cleaner, cacheFaults>>

\* insertManifest with its pins, then the run is enqueued.
InsertManifest(m) ==
    /\ JobAt(m, "prepared")
    /\ latest' = m
    /\ SetJob(m, [job[m] EXCEPT !.pc = "idle", !.left = Needs[m]])
    /\ UNCHANGED <<object, asset, entry, expired, render, cleaner, cacheFaults>>

(***************************************************************************)
(* ensureSegment, ensureAudio and ensureSubtitles: lookup, encode, store.  *)
(***************************************************************************)

\* The step returns an error; compose starts over when it is tried again.
FailJob(m) ==
    SetJob(m, [job[m] EXCEPT !.pc = IF job[m].tries + 1 >= MaxTries THEN "failed" ELSE "backoff",
                             !.tries = @ + 1, !.v = NoVersion, !.again = FALSE,
                             !.left = Needs[m], !.srt = NoVersion])

\* River's next attempt, seconds later: no one is still between the two
\* inserts of a store it ran into.
RetryJob(m) ==
    /\ JobAt(m, "backoff")
    /\ \A n \in Manifests : ~(JobAt(n, "upsert") /\ job[n].hash = job[m].hash)
    /\ SetJob(m, [job[m] EXCEPT !.pc = "idle"])
    /\ UNCHANGED <<object, asset, entry, expired, latest, render, cleaner, cacheFaults>>

\* lookup reads the row; without one the entry is encoded, unless the entry
\* was just found to be someone else's.
Lookup(m, h) ==
    /\ \/ JobAt(m, "idle") /\ (IF Composing(m) THEN h \in job[m].left ELSE h \in job[m].todo)
       \/ JobAt(m, "relook") /\ h = job[m].hash
    /\ IF entry[h]
       THEN SetJob(m, [job[m] EXCEPT !.pc = "stat", !.hash = h, !.v = asset[h], !.again = JobAt(m, "relook")])
       ELSE IF JobAt(m, "relook") THEN FailJob(m)
       ELSE SetJob(m, [job[m] EXCEPT !.pc = "encode", !.hash = h])
    /\ UNCHANGED <<object, asset, entry, expired, latest, render, cleaner, cacheFaults>>

\* Mutant: an entry that fails its check fails the step, instead of making room
\* for a new encode.
StatOrFail(m) ==
    /\ JobAt(m, "stat")
    /\ IF job[m].v \in object[job[m].hash] THEN SetJob(m, [job[m] EXCEPT !.pc = "touch"]) ELSE FailJob(m)
    /\ UNCHANGED <<object, asset, entry, expired, latest, render, cleaner, cacheFaults>>

\* ObjectSHA256 of the recorded version against the recorded checksum.
StatEntry(m) ==
    /\ JobAt(m, "stat")
    /\ SetJob(m, [job[m] EXCEPT !.pc = IF job[m].v \in object[job[m].hash] THEN "touch" ELSE "drop"])
    /\ UNCHANGED <<object, asset, entry, expired, latest, render, cleaner, cacheFaults>>

\* The entry is there: a segment step is done, compose fetches it.
Have(m) ==
    IF Composing(m) THEN [job[m] EXCEPT !.pc = "fetch"]
    ELSE [job[m] EXCEPT !.pc = "idle", !.todo = @ \ {job[m].hash}, !.tries = 0,
                        !.v = NoVersion, !.again = FALSE]

TouchEntry(m) ==
    /\ JobAt(m, "touch")
    /\ expired' = [expired EXCEPT ![job[m].hash] = FALSE]
    /\ SetJob(m, Have(m))
    /\ UNCHANGED <<object, asset, entry, latest, render, cleaner, cacheFaults>>

\* DeleteAssetRow finds the row by the asset's id.
DropsRow(m) == asset[job[m].hash] = job[m].v

\* DeleteAssetRow takes the cache row with it; a render's reference forbids it.
DropAsset(m) ==
    LET h == job[m].hash IN
    /\ JobAt(m, "drop")
    /\ IF Referenced(job[m].v)
       THEN FailJob(m) /\ UNCHANGED <<asset, entry, expired>>
       ELSE /\ SetJob(m, [job[m] EXCEPT !.pc = "unlink"])
            /\ asset' = [asset EXCEPT ![h] = IF DropsRow(m) THEN NoVersion ELSE @]
            /\ entry' = [entry EXCEPT ![h] = @ /\ ~DropsRow(m)]
            /\ expired' = [expired EXCEPT ![h] = @ /\ ~DropsRow(m)]
    /\ UNCHANGED <<object, latest, render, cleaner, cacheFaults>>

\* RemoveVersion of what failed its check.
UnlinkVersion(m) ==
    /\ JobAt(m, "unlink")
    /\ object' = [object EXCEPT ![job[m].hash] = @ \ {job[m].v}]
    /\ IF job[m].again THEN FailJob(m)
       ELSE SetJob(m, [job[m] EXCEPT !.pc = "encode", !.v = NoVersion])
    /\ UNCHANGED <<asset, entry, expired, latest, render, cleaner, cacheFaults>>

\* ffmpeg, then PutFileChecksummed: a new version under the key.  An encode
\* outlasts the object deletions of a cleanup that removed the row before.
EncodeAndPut(m) ==
    LET h == job[m].hash IN
    /\ JobAt(m, "encode") /\ \E v \in Versions : IsFresh(v)
    /\ ~(cleaner.pc = "objects" /\ \E r \in cleaner.rows : r.hash = h)
    /\ object' = [object EXCEPT ![h] = @ \cup {FreshVersion}]
    /\ SetJob(m, [job[m] EXCEPT !.pc = "create", !.v = FreshVersion])
    /\ UNCHANGED <<asset, entry, expired, latest, render, cleaner, cacheFaults>>

\* CreateDerivedAsset; the unique index lets the first one win.
CreateAsset(m) ==
    LET h == job[m].hash IN
    /\ JobAt(m, "create")
    /\ IF asset[h] = NoVersion
       THEN /\ asset' = [asset EXCEPT ![h] = job[m].v]
            /\ SetJob(m, [job[m] EXCEPT !.pc = "upsert"])
       ELSE /\ SetJob(m, [job[m] EXCEPT !.pc = "lost"])
            /\ UNCHANGED asset
    /\ UNCHANGED <<object, entry, expired, latest, render, cleaner, cacheFaults>>

\* The loser removes the version it stored, then looks the entry up.
WithoutLoser(m) == [object EXCEPT ![job[m].hash] = @ \ {job[m].v}]

YieldToWinner(m) ==
    /\ JobAt(m, "lost")
    /\ object' = WithoutLoser(m)
    /\ SetJob(m, [job[m] EXCEPT !.pc = "relook", !.v = NoVersion])
    /\ UNCHANGED <<asset, entry, expired, latest, render, cleaner, cacheFaults>>

UpsertSegment(m) ==
    /\ JobAt(m, "upsert")
    /\ entry' = [entry EXCEPT ![job[m].hash] = TRUE]
    /\ expired' = [expired EXCEPT ![job[m].hash] = FALSE]
    /\ SetJob(m, Have(m))
    /\ UNCHANGED <<object, asset, latest, render, cleaner, cacheFaults>>

(***************************************************************************)
(* Compose.                                                                *)
(***************************************************************************)

\* fetchCached of the version the lookup returned.
FetchCached(m) ==
    /\ JobAt(m, "fetch")
    /\ IF job[m].v \in object[job[m].hash]
       THEN SetJob(m, [job[m] EXCEPT !.pc = "idle", !.v = NoVersion, !.again = FALSE,
                          !.left = @ \ {job[m].hash},
                          !.srt = IF job[m].hash = Srt THEN job[m].v ELSE @])
       ELSE FailJob(m)
    /\ UNCHANGED <<object, asset, entry, expired, latest, render, cleaner, cacheFaults>>

\* InsertRender, whose srt_asset_id must still exist.
InsertRender(m) ==
    /\ JobAt(m, "idle") /\ Composing(m) /\ job[m].left = {}
    /\ IF asset[Srt] = job[m].srt
       THEN /\ render' = [render EXCEPT ![m] = job[m].srt]
            /\ SetJob(m, [NoJobYet EXCEPT !.pc = "done"])
       ELSE FailJob(m) /\ UNCHANGED render
    /\ UNCHANGED <<object, asset, entry, expired, latest, cleaner, cacheFaults>>

\* The worker dies; the reconciler gives the step another attempt.
WorkerDies(m) ==
    /\ job[m].pc \in CrashPoints /\ CacheFault("crash")
    /\ SetJob(m, [job[m] EXCEPT !.pc = "idle", !.v = NoVersion, !.again = FALSE,
                                !.left = Needs[m], !.srt = NoVersion])
    /\ UNCHANGED <<object, asset, entry, expired, latest, render, cleaner>>

(***************************************************************************)
(* Cleanup, and what happens to the cache from outside.                    *)
(***************************************************************************)

\* Mutant: whether a render refers to the asset is not checked again.
DeletesListed(r) == asset[r.hash] = r.v

\* DeleteLibraryAssets: the listed asset, unless a render refers to it now.
DeletesRow(r) == asset[r.hash] = r.v /\ ~Referenced(r.v)

\* ListExpiredSegments.
ListExpired ==
    LET rows == {[hash |-> h, v |-> asset[h]] :
                    h \in {h \in Hashes : entry[h] /\ expired[h] /\ ~Pinned(h) /\ ~Referenced(asset[h])}}
    IN  /\ cleaner.pc = "idle" /\ rows # {} /\ CacheFault("cleanup")
        /\ cleaner' = [pc |-> "listed", rows |-> rows]
        /\ UNCHANGED <<object, asset, entry, expired, latest, render, job>>

\* render_segments.asset_id: ON DELETE CASCADE.
Cascaded(gone) == [h \in Hashes |-> entry[h] /\ ~\E r \in gone : r.hash = h]

DeleteRows ==
    LET gone == {r \in cleaner.rows : DeletesRow(r)}
        kept == [h \in Hashes |-> ~\E r \in gone : r.hash = h]
    IN  /\ cleaner.pc = "listed"
        /\ asset' = [h \in Hashes |-> IF kept[h] THEN asset[h] ELSE NoVersion]
        /\ entry' = Cascaded(gone)
        /\ expired' = [h \in Hashes |-> expired[h] /\ kept[h]]
        /\ cleaner' = IF gone = {} THEN CleanerIdle ELSE [pc |-> "objects", rows |-> gone]
        /\ UNCHANGED <<object, latest, render, job, cacheFaults>>

\* RemoveAllVersions of one deleted row's key.
RemoveObjects(r) ==
    /\ cleaner.pc = "objects" /\ r \in cleaner.rows
    /\ object' = [object EXCEPT ![r.hash] = {}]
    /\ cleaner' = IF cleaner.rows = {r} THEN CleanerIdle ELSE [cleaner EXCEPT !.rows = @ \ {r}]
    /\ UNCHANGED <<asset, entry, expired, latest, render, job, cacheFaults>>

\* Nobody is working with the cache: days pass only then.
Unused ==
    /\ cleaner = CleanerIdle
    /\ \A m \in Manifests : job[m].pc \in {"new", "prepared", "idle", "backoff", "done", "failed"} /\ job[m].srt = NoVersion

Age(h) ==
    /\ entry[h] /\ ~expired[h] /\ Unused
    /\ expired' = [expired EXCEPT ![h] = TRUE]
    /\ UNCHANGED <<object, asset, entry, latest, render, job, cleaner, cacheFaults>>

\* An entry's object rots or vanishes before a render refers to it.
LoseObject(h) ==
    /\ entry[h] /\ object[h] # {} /\ Unused /\ ~Referenced(asset[h]) /\ CacheFault("lost")
    /\ object' = [object EXCEPT ![h] = {}]
    /\ UNCHANGED <<asset, entry, expired, latest, render, job, cleaner>>

JobStep(m) ==
    \/ InsertManifest(m) \/ RetryJob(m)
    \/ \E h \in Hashes : Lookup(m, h)
    \/ StatEntry(m) \/ TouchEntry(m) \/ DropAsset(m) \/ UnlinkVersion(m)
    \/ EncodeAndPut(m) \/ CreateAsset(m) \/ YieldToWinner(m) \/ UpsertSegment(m)
    \/ FetchCached(m) \/ InsertRender(m)

CleanerStep == DeleteRows \/ \E r \in cleaner.rows : RemoveObjects(r)

CacheNext ==
    \/ \E m \in Manifests : PrepareManifest(m) \/ JobStep(m) \/ WorkerDies(m)
    \/ ListExpired \/ CleanerStep
    \/ \E h \in Hashes : Age(h) \/ LoseObject(h)

CacheFairness == (\A m \in Manifests : WF_cacheVars(JobStep(m))) /\ WF_cacheVars(CleanerStep)

CacheSpec == CacheInit /\ [][CacheNext]_cacheVars
CacheFairSpec == CacheSpec /\ CacheFairness

(***************************************************************************)
(* Properties.                                                             *)
(***************************************************************************)

\* Types; a cache row has the asset it refers to.
CacheTypeOK ==
    /\ object \in [Hashes -> SUBSET Versions]
    /\ asset \in [Hashes -> Versions \cup {NoVersion}]
    /\ entry \in [Hashes -> BOOLEAN] /\ expired \in [Hashes -> BOOLEAN]
    /\ latest \in Manifests \cup {NoManifest}
    /\ render \in [Manifests -> Versions \cup {NoVersion}]
    /\ job \in [Manifests -> [pc : {"new", "prepared", "idle", "backoff", "stat", "touch", "drop", "unlink",
                                    "encode", "create", "lost", "relook", "upsert", "fetch", "done", "failed"},
                              hash : Hashes, v : Versions \cup {NoVersion}, again : BOOLEAN,
                              todo : SUBSET Hashes, left : SUBSET Hashes,
                              srt : Versions \cup {NoVersion}, tries : 0..MaxTries]]
    /\ cleaner \in [pc : {"idle", "listed", "objects"}, rows : SUBSET [hash : Hashes, v : Versions]]
    /\ cacheFaults \in [{"crash", "cleanup", "lost"} -> 0..MaxCacheFaults]
    /\ \A h \in Hashes : entry[h] => asset[h] # NoVersion

\* The subtitles a finished render refers to can be fetched: neither a
\* cleanup nor another run's step removed the row or the version.
RenderKeepsSubtitles ==
    \A m \in Manifests : Rendered(m) => asset[Srt] = render[m] /\ render[m] \in object[Srt]

CacheQuiet ==
    /\ cleaner = CleanerIdle
    /\ \A m \in Manifests : job[m].pc \in {"new", "prepared", "idle", "backoff", "done", "failed"}

\* Without a crash no stored version outlives its use: at rest a key holds
\* at most the version its asset row records, whoever won the race to store.
NoLeakedVersion ==
    cacheFaults.crash = 0 /\ CacheQuiet => \A h \in Hashes : object[h] \subseteq {asset[h]}

\* A frozen manifest is rendered, whatever entries were cleaned up, lost or
\* stored twice since the freeze, within the attempts River gives a step.
FrozenIsRendered == <>[](\A m \in Manifests : job[m].pc \in {"new", "done"})

\* The cache keeps what finished renders refer to and nothing that no row
\* refers to (cache.go, cleanup.go).
CacheSafe == CacheTypeOK /\ RenderKeepsSubtitles /\ NoLeakedVersion
=============================================================================
