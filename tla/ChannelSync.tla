----------------------------- MODULE ChannelSync -----------------------------
(***************************************************************************)
(* The analytics of one connected YouTube channel: its sync job, the       *)
(* figures and reach reports it stores, and connecting and disconnecting   *)
(* the channel meanwhile (src/api/internal/analytics, channelsapi,         *)
(* analyticsapi/tracked_videos.go).                                        *)
(*                                                                         *)
(* Days are numbered, and Google makes one reach report a day.  Of a       *)
(* stored figure only this is kept: that of day d is final when it is read *)
(* on day d + LookBackDays or later, and until then YouTube may change it  *)
(* or leave it out.  River keeps at most one sync job of a channel, so     *)
(* there is one attempt at a time.  The owner connects or disconnects, one *)
(* request at a time, and does not track a video again that was untracked. *)
(***************************************************************************)
EXTENDS Integers, FiniteSets, FiniteSetsExt

CONSTANTS
    TrackedVideos,   \* the videos the owner may track
    PublishedOn,     \* their days of publication, NoDay when unknown
    LookBackDays, ChannelBackfillDays,
    FirstDay,        \* the last complete day at the start
    LastDay,         \* and the last one of a behaviour
    MaxGrants,       \* one, and the times the owner connects again
    MaxSyncAttempts,
    SyncFaultKinds,  \* the faults and the owner's requests
    MaxSyncFaults    \* how many requests, with their faults, or else one other event

Days == 1..LastDay
NoDay == 0
Figures == {"none", "early", "final"}
Grants == 1..MaxGrants
NoGrant == 0

ASSUME ChannelAssumption ==
    /\ PublishedOn \in [TrackedVideos -> Days \cup {NoDay}]
    /\ LookBackDays \in Nat /\ ChannelBackfillDays \in Nat \ {0}
    /\ LastDay \in Nat /\ FirstDay \in Days
    /\ MaxGrants \in Nat \ {0} /\ MaxSyncAttempts \in Nat \ {0}
    /\ SyncFaultKinds \subseteq {"crash", "timeout", "quota", "error", "grant", "consent", "seal", "api",
                           "connect", "disconnect", "untrack"}
    /\ MaxSyncFaults \in Nat

VARIABLES
    channel,      \* youtube_channels: status
    sealed,       \* the grant of the stored refresh token
    alive,        \* the grants that Google honours
    owner,        \* the owner's request
    lastDay,      \* the last complete day
    tracked, untracked,
    channelRead,  \* channel_metrics_daily: the figure of each day
    videoRead,    \* video_metrics_daily, the same of each video
    syncRow,      \* analytics_sync_state: status and analytics_through
    reach,        \* ingested reports, cursor, the report whose rows stay
    syncJob,      \* the River job
    sync,         \* its attempt
    syncFaults

grantVars == <<channel, sealed, alive, owner>>
figureVars == <<channelRead, videoRead>>
worldVars == <<lastDay, tracked, untracked>>
jobVars == <<syncRow, syncJob, sync>>
channelVars == <<grantVars, worldVars, figureVars, reach, jobVars, syncFaults>>

NoSync == [pc |-> "none", cursor |-> NoDay, end |-> NoDay, grant |-> NoGrant,
           todo |-> {}, known |-> {}, reports |-> {}, error |-> "none"]
\* Of an owner between requests the last grant is kept.
NoRequest == [pc |-> "none", grant |-> 1]

SyncAt(pc) == sync.pc = pc
GoSync(pc) == sync' = [sync EXCEPT !.pc = pc]
GoOwner(pc) == owner' = [owner EXCEPT !.pc = pc]
SyncCost(f) == IF f \in {"crash", "timeout", "quota", "error", "untrack"} THEN MaxSyncFaults ELSE 1
SpendSync(f) ==
    /\ f \in SyncFaultKinds /\ syncFaults > 0 /\ syncFaults >= SyncCost(f)
    /\ syncFaults' = syncFaults - SyncCost(f)

ChannelInit ==
    /\ channel \in {"connected", "disconnected"} /\ owner = NoRequest
    /\ alive = {1} /\ sealed = IF channel = "connected" THEN 1 ELSE NoGrant
    /\ lastDay = FirstDay /\ tracked = {} /\ untracked = {}
    /\ channelRead = [d \in Days |-> "none"]
    /\ videoRead = [v \in TrackedVideos |-> [d \in Days |-> "none"]]
    /\ syncRow = [status |-> "idle", through |-> NoDay]
    /\ reach = [ingested |-> {}, cursor |-> FirstDay, rows |-> FirstDay]
    /\ syncJob = [state |-> "none", attempt |-> 0]
    /\ sync = NoSync
    /\ syncFaults = MaxSyncFaults

(***************************************************************************)
(* The windows of window.go.                                               *)
(***************************************************************************)

\* Mutant: the days before the cursor are not read again.
AfterCursor(cursor, from, end) ==
    {d \in Days : from <= d /\ d <= end /\ (cursor # NoDay => cursor < d)}

SyncWindow(cursor, from, end) ==
    {d \in Days : from <= d /\ d <= end /\ (cursor # NoDay => cursor - LookBackDays <= d)}

BackfillFrom(end) == end - (ChannelBackfillDays - 1)
ChannelWindow(cursor, end) == SyncWindow(cursor, BackfillFrom(end), end)

VideoFrom(v, end) == IF PublishedOn[v] = NoDay THEN BackfillFrom(end) ELSE PublishedOn[v]

\* A video with no history has no cursor.
VideoCursor(v, known, cursor) == IF v \in known THEN cursor ELSE NoDay

VideoWindow(v, known, cursor, end) == SyncWindow(VideoCursor(v, known, cursor), VideoFrom(v, end), end)

\* ListSyncedVideoIDs.
HasHistory(v) == \E d \in Days : videoRead[v][d] # "none"

\* What a query over a window stores: YouTube leaves out the days after
\* lastDay - lag.
Upserted(read, window, lag) ==
    [d \in Days |-> IF d \in window /\ d + lag <= lastDay
                    THEN IF d + LookBackDays <= lastDay THEN "final" ELSE "early"
                    ELSE read[d]]

(***************************************************************************)
(* The job: SyncArgs, SyncAllWorker, SyncAnalyticsChannel.                 *)
(***************************************************************************)

QueuedJob == [state |-> "queued", attempt |-> 0]
NoJobNow == [state |-> "none", attempt |-> 0]

\* Insert with UniqueOpts: a job that waits or runs is kept.
InsertSync == syncJob' = IF syncJob.state = "none" THEN QueuedJob ELSE syncJob

\* The daily fan-out over the connected channels, or "Sync now".
SyncAll ==
    /\ channel = "connected" /\ syncJob.state = "none"
    /\ InsertSync
    /\ UNCHANGED <<grantVars, worldVars, figureVars, reach, syncRow, sync, syncFaults>>

\* The job is retried while River has attempts left.
Retried == IF syncJob.attempt < MaxSyncAttempts THEN [syncJob EXCEPT !.state = "queued"] ELSE NoJobNow

EndSync(job) == sync' = NoSync /\ syncJob' = job

\* jobOutcome.
OutcomeOf(error) ==
    CASE error = "quota" -> [syncJob EXCEPT !.state = "queued", !.attempt = @ - 1]
      [] error = "auth" -> NoJobNow
      [] OTHER -> Retried

(***************************************************************************)
(* SyncChannel.                                                            *)
(***************************************************************************)

\* GetYouTubeChannel and cursor; a database error is retried.
SyncBegin ==
    /\ syncJob.state = "queued"
    /\ \/ /\ channel # "connected"
          /\ EndSync(NoJobNow)
          /\ UNCHANGED syncFaults
       \/ /\ channel = "connected"
          /\ syncJob' = [state |-> "running", attempt |-> syncJob.attempt + 1]
          /\ sync' = [NoSync EXCEPT !.pc = "start", !.cursor = syncRow.through]
          /\ UNCHANGED syncFaults
       \/ /\ SpendSync("error")
          /\ syncJob' = IF syncJob.attempt + 1 < MaxSyncAttempts THEN [syncJob EXCEPT !.attempt = @ + 1] ELSE NoJobNow
          /\ UNCHANGED sync
    /\ UNCHANGED <<grantVars, worldVars, figureVars, reach, syncRow>>

\* Mutant: the row of a sync that died is never taken over.
NotRunning == syncRow.status \notin {"running", "stale"}

\* StartAnalyticsSync takes a row that is not running, or went stale.
MayStart == syncRow.status # "running"

SyncStart ==
    /\ SyncAt("start")
    /\ IF MayStart
       THEN syncRow' = [syncRow EXCEPT !.status = "running"] /\ GoSync("open") /\ UNCHANGED syncJob
       ELSE EndSync(NoJobNow) /\ UNCHANGED syncRow
    /\ UNCHANGED <<grantVars, worldVars, figureVars, reach, syncFaults>>

\* The attempt's error is on its way to fail().
RaiseSync(error) == sync' = [sync EXCEPT !.pc = "fail", !.error = error]

LastCompleteDay == lastDay

\* ForChannel, and the last complete day.
SyncOpen ==
    /\ SyncAt("open")
    /\ IF sealed = NoGrant THEN RaiseSync("auth")
       ELSE sync' = [sync EXCEPT !.pc = "daily", !.grant = sealed, !.end = LastCompleteDay]
    /\ UNCHANGED <<grantVars, worldVars, figureVars, reach, syncRow, syncJob, syncFaults>>

Granted == sync.grant \in alive
ApiCalls == {"daily", "videos", "reports", "ingest"}

\* The videos are done, MyChannelStatistics is next.
AtStats == SyncAt("videos") /\ sync.todo = {}

\* A call with a dead grant is an auth error, wherever it happens.
GrantRefused ==
    /\ sync.pc \in ApiCalls /\ ~Granted
    /\ RaiseSync("auth")
    /\ UNCHANGED <<grantVars, worldVars, figureVars, reach, syncRow, syncJob, syncFaults>>

\* Any other error of the Analytics queries ends the sync; that of the
\* counters or the reach report is a note.
QueryFails ==
    /\ sync.pc \in ApiCalls /\ Granted
    /\ \E error \in {"quota", "error"} :
        /\ SpendSync(error)
        /\ CASE AtStats -> sync' = [sync EXCEPT !.pc = "reports", !.known = {}]
             [] sync.pc \in {"daily", "videos"} /\ ~AtStats -> RaiseSync(error)
             [] OTHER -> GoSync("finish")
    /\ UNCHANGED <<grantVars, worldVars, figureVars, reach, syncRow, syncJob>>

\* syncChannelDaily, then the videos to sync are listed.
SyncDaily ==
    /\ SyncAt("daily") /\ Granted
    /\ \E lag \in 0..LookBackDays :
        channelRead' = Upserted(channelRead, ChannelWindow(sync.cursor, sync.end), lag)
    /\ LET known == {v \in TrackedVideos : HasHistory(v)}
       IN  sync' = [sync EXCEPT !.pc = "videos", !.known = known,
               !.todo = {v \in tracked : VideoWindow(v, known, sync.cursor, sync.end) # {}}]
    /\ UNCHANGED <<grantVars, worldVars, videoRead, reach, syncRow, syncJob, syncFaults>>

\* syncVideo: the videos of a sync end in any order.
SyncVideo(v) ==
    /\ SyncAt("videos") /\ v \in sync.todo /\ Granted
    /\ \E lag \in 0..LookBackDays :
        videoRead' = [videoRead EXCEPT
            ![v] = Upserted(@, VideoWindow(v, sync.known, sync.cursor, sync.end), lag)]
    /\ sync' = [sync EXCEPT !.todo = @ \ {v}]
    /\ UNCHANGED <<grantVars, worldVars, channelRead, reach, syncRow, syncJob, syncFaults>>

SyncStats ==
    /\ AtStats /\ Granted
    /\ sync' = [sync EXCEPT !.pc = "reports", !.known = {}]
    /\ UNCHANGED <<grantVars, worldVars, figureVars, reach, syncRow, syncJob, syncFaults>>

\* syncReach: the reports made since the last one seen.
SyncReports ==
    /\ SyncAt("reports") /\ Granted
    /\ LET new == {r \in Days : reach.cursor < r /\ r <= lastDay}
       IN  sync' = [sync EXCEPT !.reports = new, !.pc = IF new = {} THEN "finish" ELSE "ingest"]
    /\ UNCHANGED <<grantVars, worldVars, figureVars, reach, syncRow, syncJob, syncFaults>>

\* syncReach sorts the reports by creation.
Oldest(reports) == Min(reports)

\* ingestReachReport: claim and rows in one transaction; a claimed report is
\* passed over.
IngestReport ==
    /\ SyncAt("ingest") /\ Granted
    /\ LET r == Oldest(sync.reports)
       IN  reach' = IF r \in reach.ingested THEN reach
                    ELSE [reach EXCEPT !.ingested = @ \cup {r}, !.rows = r]
    /\ GoSync("advance")
    /\ UNCHANGED <<grantVars, worldVars, figureVars, syncRow, syncJob, syncFaults>>

\* AdvanceReportingJobCursor, GREATEST of the two.
AdvanceCursor ==
    /\ SyncAt("advance")
    /\ LET r == Oldest(sync.reports)
           rest == sync.reports \ {r}
       IN  /\ reach' = [reach EXCEPT !.cursor = Max({@, r})]
           /\ sync' = [sync EXCEPT !.reports = rest, !.pc = IF rest = {} THEN "finish" ELSE "ingest"]
    /\ UNCHANGED <<grantVars, worldVars, figureVars, syncRow, syncJob, syncFaults>>

\* FinishAnalyticsSync, with the last complete day when the sync began; its error goes to fail().
SyncFinish ==
    /\ SyncAt("finish")
    /\ \/ /\ syncRow' = [status |-> "idle", through |-> sync.end]
          /\ EndSync(NoJobNow)
          /\ UNCHANGED syncFaults
       \/ /\ SpendSync("error")
          /\ RaiseSync("error")
          /\ UNCHANGED <<syncRow, syncJob>>
    /\ UNCHANGED <<grantVars, worldVars, figureVars, reach>>

\* Mutant: the flag does not look at the status.
FlagAlways == "reconnect_needed"

\* FlagChannelReconnectNeeded.
Flagged == IF channel = "connected" THEN "reconnect_needed" ELSE channel

\* fail(), its first statement.
SyncFail ==
    /\ SyncAt("fail")
    /\ channel' = IF sync.error = "auth" THEN Flagged ELSE channel
    /\ GoSync("record")
    /\ UNCHANGED <<sealed, alive, owner, worldVars, figureVars, reach, syncRow, syncJob, syncFaults>>

\* FailAnalyticsSync, and what River makes of the error.
SyncRecord ==
    /\ SyncAt("record")
    /\ syncRow' = [syncRow EXCEPT !.status = "failed"]
    /\ EndSync(OutcomeOf(sync.error))
    /\ UNCHANGED <<grantVars, worldVars, figureVars, reach, syncFaults>>

\* The attempt runs out of time: fail() writes with the same dead context,
\* so the row stays "running".
SyncTimeout ==
    /\ ~SyncAt("none") /\ SpendSync("timeout")
    /\ EndSync(Retried)
    /\ UNCHANGED <<grantVars, worldVars, figureVars, reach, syncRow>>

\* The worker dies; its job stays "running".
SyncCrash ==
    /\ ~SyncAt("none") /\ SpendSync("crash")
    /\ sync' = NoSync
    /\ UNCHANGED <<grantVars, worldVars, figureVars, reach, syncRow, syncJob>>

Expired == [syncRow EXCEPT !.status = IF @ = "running" THEN "stale" ELSE @]

\* staleSyncAfter passes: longer than syncTimeout, so the attempt that wrote
\* the row is gone.
SyncGoesStale ==
    /\ sync.pc \in {"none", "start"} /\ syncRow.status = "running"
    /\ syncRow' = Expired
    /\ UNCHANGED <<grantVars, worldVars, figureVars, reach, syncJob, sync, syncFaults>>

\* River rescues the job of a dead worker after RescueStuckJobsAfter, which
\* is longer still.
RescueSync ==
    /\ SyncAt("none") /\ syncJob.state = "running"
    /\ syncRow' = Expired
    /\ syncJob' = Retried
    /\ UNCHANGED <<grantVars, worldVars, figureVars, reach, sync, syncFaults>>

(***************************************************************************)
(* Connecting and disconnecting.                                           *)
(***************************************************************************)

\* The owner consents again and the callback exchanges the code.
ConnectExchange ==
    /\ owner.pc = "none" /\ owner.grant < MaxGrants /\ SpendSync("connect")
    /\ owner' = [pc |-> "read", grant |-> owner.grant + 1]
    /\ alive' = alive \cup {owner.grant + 1}
    /\ UNCHANGED <<channel, sealed, worldVars, figureVars, reach, jobVars>>

\* HasScope and MyChannel; a grant without the scope, without a channel or
\* without quota is given up.
ConnectRead ==
    /\ owner.pc = "read"
    /\ \/ GoOwner("store") /\ UNCHANGED syncFaults
       \/ GoOwner("abandon") /\ SpendSync("consent")
    /\ UNCHANGED <<channel, sealed, alive, worldVars, figureVars, reach, jobVars>>

\* UpsertYouTubeChannel.
ConnectStore ==
    /\ owner.pc = "store"
    /\ \/ channel' = "connected" /\ GoOwner("seal") /\ UNCHANGED syncFaults
       \/ GoOwner("abandon") /\ SpendSync("seal") /\ UNCHANGED channel
    /\ UNCHANGED <<sealed, alive, worldVars, figureVars, reach, jobVars>>

\* Secrets.Put, or markReconnectNeeded.
ConnectSeal ==
    /\ owner.pc = "seal"
    /\ \/ sealed' = owner.grant /\ GoOwner("none") /\ UNCHANGED <<channel, syncFaults>>
       \/ channel' = "reconnect_needed" /\ GoOwner("abandon") /\ SpendSync("seal") /\ UNCHANGED sealed
    /\ UNCHANGED <<alive, worldVars, figureVars, reach, jobVars>>

\* Google is asked to revoke the grant, and may not answer.
Revoke(g) == alive' = alive \ {g} \/ UNCHANGED alive

\* abandon: a failure must not leave a live grant behind.
ConnectAbandon ==
    /\ owner.pc = "abandon"
    /\ Revoke(owner.grant)
    /\ GoOwner("none")
    /\ UNCHANGED <<channel, sealed, worldVars, figureVars, reach, jobVars, syncFaults>>

\* DisconnectYouTubeChannel, up to revokeStored.
DisconnectRevoke ==
    /\ owner.pc = "none" /\ channel # "disconnected" /\ SpendSync("disconnect")
    /\ Revoke(sealed)
    /\ GoOwner("delete")
    /\ UNCHANGED <<channel, sealed, worldVars, figureVars, reach, jobVars>>

DisconnectDelete ==
    /\ owner.pc = "delete"
    /\ sealed' = NoGrant
    /\ GoOwner("mark")
    /\ UNCHANGED <<channel, alive, worldVars, figureVars, reach, jobVars, syncFaults>>

DisconnectMark ==
    /\ owner.pc = "mark"
    /\ channel' = "disconnected"
    /\ GoOwner("none")
    /\ UNCHANGED <<sealed, alive, worldVars, figureVars, reach, jobVars, syncFaults>>

\* The API process dies in the middle of a request.
OwnerCrash ==
    /\ owner.pc # "none" /\ SpendSync("api")
    /\ GoOwner("none")
    /\ UNCHANGED <<channel, sealed, alive, worldVars, figureVars, reach, jobVars>>

\* The owner takes the access back at Google.
GrantLost ==
    /\ sealed \in alive /\ SpendSync("grant")
    /\ alive' = alive \ {sealed}
    /\ UNCHANGED <<channel, sealed, owner, worldVars, figureVars, reach, jobVars>>

(***************************************************************************)
(* Tracked videos, days and reports.                                       *)
(***************************************************************************)

\* TrackAnalyticsVideo: looked up with the channel's grant, then synced.
Track(v) ==
    /\ v \notin tracked \cup untracked
    /\ channel = "connected" /\ sealed \in alive
    /\ tracked' = tracked \cup {v}
    /\ InsertSync
    /\ UNCHANGED <<grantVars, lastDay, untracked, figureVars, reach, syncRow, sync, syncFaults>>

\* UntrackAnalyticsVideo.
Untrack(v) ==
    /\ v \in tracked /\ SpendSync("untrack")
    /\ tracked' = tracked \ {v} /\ untracked' = untracked \cup {v}
    /\ UNCHANGED <<grantVars, lastDay, figureVars, reach, jobVars>>

\* A day ends, and Google makes a report, which may have rows that an
\* earlier one has too.
NewDay ==
    /\ lastDay < LastDay
    /\ lastDay' = lastDay + 1
    /\ UNCHANGED <<grantVars, tracked, untracked, figureVars, reach, jobVars, syncFaults>>

SyncStep ==
    \/ SyncBegin \/ SyncStart \/ SyncOpen \/ GrantRefused \/ QueryFails \/ SyncDaily
    \/ \E v \in TrackedVideos : SyncVideo(v)
    \/ SyncStats \/ SyncReports \/ IngestReport \/ AdvanceCursor
    \/ SyncFinish \/ SyncFail \/ SyncRecord

OwnerStep ==
    \/ ConnectRead \/ ConnectStore \/ ConnectSeal \/ ConnectAbandon
    \/ DisconnectDelete \/ DisconnectMark

ChannelNext ==
    \/ SyncAll \/ SyncStep \/ SyncTimeout \/ SyncCrash \/ SyncGoesStale \/ RescueSync
    \/ ConnectExchange \/ DisconnectRevoke \/ OwnerStep \/ OwnerCrash \/ GrantLost
    \/ \E v \in TrackedVideos : Track(v) \/ Untrack(v)
    \/ NewDay

\* River schedules the daily fan-out and works the queue, the hour and the
\* rescue pass; a request that was begun goes on.
ChannelFairness ==
    /\ WF_channelVars(SyncAll) /\ WF_channelVars(SyncStep)
    /\ WF_channelVars(SyncGoesStale) /\ WF_channelVars(RescueSync)
    /\ WF_channelVars(OwnerStep)

ChannelSpec == ChannelInit /\ [][ChannelNext]_channelVars /\ ChannelFairness

(***************************************************************************)
(* Properties.                                                             *)
(***************************************************************************)

\* The type invariant.
ChannelTypeOK ==
    /\ channel \in {"connected", "reconnect_needed", "disconnected"}
    /\ sealed \in Grants \cup {NoGrant} /\ alive \subseteq Grants
    /\ owner.pc \in {"none", "read", "store", "seal", "abandon", "delete", "mark"} /\ owner.grant \in Grants
    /\ lastDay \in Days
    /\ tracked \subseteq TrackedVideos /\ untracked \subseteq TrackedVideos
    /\ channelRead \in [Days -> Figures]
    /\ videoRead \in [TrackedVideos -> [Days -> Figures]]
    /\ syncRow.status \in {"idle", "running", "stale", "failed"} /\ syncRow.through \in Days \cup {NoDay}
    /\ reach.ingested \subseteq Days /\ reach.cursor \in Days /\ reach.rows \in Days
    /\ syncJob.state \in {"none", "queued", "running"} /\ syncJob.attempt \in 0..MaxSyncAttempts
    /\ sync.pc \in {"none", "start", "open", "advance", "finish", "fail", "record"} \cup ApiCalls
    /\ sync.end \in Days \cup {NoDay} /\ sync.todo \subseteq TrackedVideos /\ sync.reports \subseteq Days
    /\ syncFaults \in 0..MaxSyncFaults

\* Every day from first on that is old enough has its final figure.
FinalFrom(read, first) ==
    \A d \in Days : first <= d /\ d + LookBackDays <= syncRow.through => read[d] = "final"

\* The promise of SyncWindow and VideoWindow: whatever syncs failed, came
\* late or were cut short, the days up to the cursor have no hole and no
\* figure that YouTube has revised since, for the channel and for each
\* tracked video that has a history, from the first day that a sync would
\* ask for now.
FiguresFinal ==
    /\ FinalFrom(channelRead, BackfillFrom(syncRow.through))
    /\ \A v \in tracked : HasHistory(v) => FinalFrom(videoRead[v], VideoFrom(v, lastDay))

\* syncReach: no report before the cursor is missed, and the rows are those
\* of the newest report, also when a sync died between a report and the
\* cursor.
ReportsInOrder ==
    /\ \A r \in FirstDay + 1..reach.cursor : r \in reach.ingested
    /\ \A r \in reach.ingested : r <= reach.rows

\* fail(): only the owner's own connect takes a channel out of
\* "disconnected"; a sync that was under way does not.
DisconnectSticks ==
    [][channel = "disconnected" /\ channel' # channel => owner.pc = "store"]_channelVars

\* SyncChannel and the daily schedule: when the faults are over, a channel
\* that is still shown as connected has a working grant, figures up to the
\* last complete day and every report.
ConnectedIsCurrent ==
    <>[](channel = "connected" =>
            sealed \in alive /\ syncRow.through = lastDay /\ reach.cursor = lastDay)

\* The analytics of a channel have no hole and no stale figure, and its
\* reports are read in order (sync_metrics.go, reach.go).
ChannelSafe == ChannelTypeOK /\ FiguresFinal /\ ReportsInOrder
=============================================================================
