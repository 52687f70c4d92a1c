--------------------------- MODULE PipelineEngine ---------------------------
(***************************************************************************)
(* The pipeline engine of api/internal/pipeline: runs of dependent steps   *)
(* kept in Postgres, executed by River jobs on worker processes that may   *)
(* crash, cancelled and retried by API requests, and repaired by a         *)
(* reconciler.                                                             *)
(*                                                                         *)
(* One action is one SQL statement or one transaction of the engine; the   *)
(* statements in between are where the other actors interleave.  Events    *)
(* published after a commit are not part of this module.                   *)
(***************************************************************************)
EXTENDS Integers, FiniteSets

CONSTANTS
    Steps,        \* every step of every run that may be enqueued
    NoStep,       \* "no step", for an executor or a reconciler at rest
    Deps,         \* Deps[s]: the steps s depends on
    Runs,         \* the runs
    RunOf,        \* RunOf[s]: the run of step s
    Scopes,       \* the domain objects (an episode, a scene) steps work for
    ScopeOf,      \* ScopeOf[s]: the scope of step s
    Group,        \* Group[s]: rank of its (queue, kind, provider_ref) chunk
    GpuSteps,     \* the steps of the gpu queue, run with a ModelResidency
    JobIds,       \* River job slots: at most this many jobs live at once
    Reconcilers,  \* one per worker process
    MaxAttempts,  \* MaxTransientAttempts: River attempts of one job
    MaxStranded,  \* maxStrandedRequeues
    MaxActive,    \* tenant_quotas.max_active_steps
    Outcomes,     \* what a handler may return
    Faults        \* Faults[k]: how many faults or requests of kind k may happen

FaultKinds == {"crash", "db", "stale", "snooze", "kill", "cancel", "retry"}

ASSUME StepsAssumption == IsFiniteSet(Steps) /\ NoStep \notin Steps
\* validateGraph rejects a dependency outside the request and every cycle.
ASSUME DepsAssumption ==
    /\ Deps \in [Steps -> SUBSET Steps]
    /\ \A s \in Steps : \A d \in Deps[s] : d # s /\ RunOf[d] = RunOf[s]
ASSUME RunsAssumption == RunOf \in [Steps -> Runs] /\ ScopeOf \in [Steps -> Scopes]
ASSUME GroupAssumption == Group \in [Steps -> Nat] /\ GpuSteps \subseteq Steps
ASSUME JobIdsAssumption == JobIds \subseteq Nat /\ IsFiniteSet(JobIds)
ASSUME LimitsAssumption ==
    /\ MaxAttempts \in Nat \ {0}
    /\ MaxStranded \in Nat
    /\ MaxActive \in Nat
    /\ Outcomes \subseteq {"ok", "permanent", "transient", "oom"}
    /\ Faults \in [FaultKinds -> Nat]

VARIABLES
    status,      \* pipeline_steps.status, "absent" before Enqueue
    remaining,   \* pipeline_steps.remaining_deps
    attempt,     \* pipeline_steps.attempt, the fencing token
    stranded,    \* pipeline_steps.stranded_requeues
    oomCount,    \* pipeline_steps.gpu_oom_count
    runStatus,   \* pipeline_runs.status, "absent" before Enqueue
    job,         \* river_job: the live jobs
    ex,          \* the goroutine that works each running job
    retrying,    \* steps whose RetryStep has read the run and not yet committed
    probing,     \* the step each reconciler found to have no live job
    budget       \* the faults and requests still allowed

rows == <<status, remaining, attempt, stranded, oomCount>>
vars == <<rows, runStatus, job, ex, retrying, probing, budget>>

Active == {"pending", "queued", "running"}
StepStatus == {"absent"} \cup Active \cup {"done", "failed", "canceled"}
RunStatus == {"absent", "active", "done", "failed", "canceled", "superseded"}
Terminal(st) == st \in {"done", "failed", "canceled"}

StepsOf(r) == {s \in Steps : RunOf[s] = r}
Dependents(S) == {d \in Steps : Deps[d] \cap S # {}}

-----------------------------------------------------------------------------
(* River: jobs *)

NoJob == [state |-> "free", ids |-> {}, attempt |-> 0]
JobRow(j, state, n) == [state |-> state, ids |-> job[j].ids, attempt |-> n]
FreeJobs == {j \in JobIds : job[j].state = "free"}
HasLiveRiverJob(s) == \E j \in JobIds : job[j].state # "free" /\ s \in job[j].ids

(***************************************************************************)
(* enqueueReadySteps: one job for each chunk of the queued steps Q.  The   *)
(* chunks, in the order of their keys, take the free slots in slot order.  *)
(***************************************************************************)
Rank(x, S) == Cardinality({y \in S : y < x})
Groups(Q) == {Group[s] : s \in Q}
ChunkFor(j, Q) == {s \in Q : Rank(Group[s], Groups(Q)) = Rank(j, FreeJobs)}

EnqueueReadySteps(Q) ==
    /\ Cardinality(Groups(Q)) <= Cardinality(FreeJobs)
    /\ job' = [j \in JobIds |->
                 IF j \in FreeJobs /\ ChunkFor(j, Q) # {}
                 THEN [state |-> "available", ids |-> ChunkFor(j, Q), attempt |-> 0]
                 ELSE job[j]]

-----------------------------------------------------------------------------
(* The executor of a job: Dispatch and runOne *)

PCs == {"idle", "claim", "work", "oomRequeue", "oomFail",
        "cascade", "count", "verdict", "mark", "dead"}

AtRest == [pc |-> "idle", todo |-> {}, step |-> NoStep, held |-> 0,
           frontier |-> {}, verdict |-> "active", err |-> FALSE]

\* The loop of Dispatch with the ids still to work and the error to return.
Looping(todo, err) == [pc |-> "claim", todo |-> todo, step |-> NoStep, held |-> 0,
                       frontier |-> {}, verdict |-> "active", err |-> err]

Becomes(j, e) == ex' = [ex EXCEPT ![j] = e]

\* runOne returned: go on with the next id, remembering an error.
NextId(j, failed) == Becomes(j, Looping(ex[j].todo, ex[j].err \/ failed))

\* Dispatch returns an error at once and leaves the other ids queued.
StopChunk(j) == Becomes(j, Looping({}, TRUE))

\* Mutant: a write fenced by the attempt alone.
OwnsAttempt(j) == attempt[ex[j].step] = ex[j].held

\* The WHERE clause of every write of an executor: id, attempt and 'running'.
Owns(j) == status[ex[j].step] = "running" /\ attempt[ex[j].step] = ex[j].held

LastAttempt(j) == job[j].attempt >= MaxAttempts

\* Classify, and the gpu_oom of a step that has no ModelResidency.
Class(s, o) == IF o = "oom" /\ s \notin GpuSteps THEN "permanent" ELSE o
Result(j, c) == ex[j].pc = "work" /\ \E o \in Outcomes : Class(ex[j].step, o) = c

Spend(k) == budget[k] > 0 /\ budget' = [budget EXCEPT ![k] = @ - 1]

Set(S, st) == status' = [s \in Steps |-> IF s \in S THEN st ELSE status[s]]

Init ==
    /\ status = [s \in Steps |-> "absent"]
    /\ remaining = [s \in Steps |-> 0]
    /\ attempt = [s \in Steps |-> 0]
    /\ stranded = [s \in Steps |-> 0]
    /\ oomCount = [s \in Steps |-> 0]
    /\ runStatus = [r \in Runs |-> "absent"]
    /\ job = [j \in JobIds |-> NoJob]
    /\ ex = [j \in JobIds |-> AtRest]
    /\ retrying = {}
    /\ probing = [w \in Reconcilers |-> NoStep]
    /\ budget = Faults

\* River fetches an available job for a free worker of its queue.
StartJob(j) ==
    /\ job[j].state = "available"
    /\ job' = [job EXCEPT ![j] = JobRow(j, "running", job[j].attempt + 1)]
    /\ Becomes(j, Looping(job[j].ids, FALSE))
    /\ UNCHANGED <<rows, runStatus, retrying, probing, budget>>

\* No handler for the kind of the next id, a render job without VRAM, a gpu
\* job without the GPU lock: JobSnooze, which consumes no River attempt.
SnoozeJob(j) ==
    /\ ex[j].pc = "claim" /\ ex[j].todo # {}
    /\ Spend("snooze")
    /\ job' = [job EXCEPT ![j] = JobRow(j, "available", job[j].attempt - 1)]
    /\ Becomes(j, AtRest)
    /\ UNCHANGED <<rows, runStatus, retrying, probing>>

\* Peek or claim failed: the job returns the error.
PeekFails(j) ==
    /\ ex[j].pc = "claim" /\ ex[j].todo # {}
    /\ Spend("db")
    /\ StopChunk(j)
    /\ UNCHANGED <<rows, runStatus, job, retrying, probing>>

\* Mutant: a claim that does not bump the attempt.
ClaimKeepsAttempt(j, s) ==
    /\ ex[j].pc = "claim" /\ s \in ex[j].todo
    /\ status[s] = "queued"
    /\ status' = [status EXCEPT ![s] = "running"]
    /\ Becomes(j, [ex[j] EXCEPT !.pc = "work", !.step = s,
                                 !.held = attempt[s], !.todo = ex[j].todo \ {s}])
    /\ UNCHANGED <<remaining, attempt, stranded, oomCount, runStatus, job, retrying, probing, budget>>

\* ClaimSteps: queued -> running under a new attempt.
Claim(j, s) ==
    /\ ex[j].pc = "claim" /\ s \in ex[j].todo
    /\ status[s] = "queued"
    /\ status' = [status EXCEPT ![s] = "running"]
    /\ attempt' = [attempt EXCEPT ![s] = @ + 1]
    /\ Becomes(j, [ex[j] EXCEPT !.pc = "work", !.step = s,
                                 !.held = attempt[s] + 1, !.todo = ex[j].todo \ {s}])
    /\ UNCHANGED <<remaining, stranded, oomCount, runStatus, job, retrying, probing, budget>>

\* ClaimSteps returned no row: claimed by another job, or terminal.
Skip(j, s) ==
    /\ ex[j].pc = "claim" /\ s \in ex[j].todo
    /\ status[s] # "queued"
    /\ Becomes(j, [ex[j] EXCEPT !.todo = @ \ {s}])
    /\ UNCHANGED <<rows, runStatus, job, retrying, probing, budget>>

-----------------------------------------------------------------------------
(* commitDone and fanIn, one transaction *)

Ready(s) == {d \in Dependents({s}) : status[d] = "pending" /\ remaining[d] - 1 <= 0}

RecordDone(s) ==
    /\ status' = [t \in Steps |-> IF t = s THEN "done"
                                  ELSE IF t \in Ready(s) THEN "queued" ELSE status[t]]
    /\ remaining' = [t \in Steps |-> IF t \in Dependents({s})
                                     THEN remaining[t] - 1 ELSE remaining[t]]
    /\ EnqueueReadySteps(Ready(s))
    /\ UNCHANGED <<attempt, stranded, oomCount, runStatus, retrying, probing>>

CommitDone(j) ==
    /\ Result(j, "ok") /\ Owns(j)
    /\ RecordDone(ex[j].step)
    /\ Becomes(j, [ex[j] EXCEPT !.pc = "count"])
    /\ UNCHANGED budget

\* The commit landed but its answer was lost: the retry of commitDoneWithRetry
\* finds no row and returns nil, without the rollup.
CommitDoneUnacked(j) ==
    /\ Result(j, "ok") /\ Owns(j)
    /\ Spend("db")
    /\ RecordDone(ex[j].step)
    /\ NextId(j, FALSE)

Requeue(s) == Set({s}, "queued") /\ UNCHANGED <<remaining, attempt, stranded, oomCount>>

\* Mutant: the fan-in is not in the transaction of the commit that failed.
FanInThenRequeue(j) ==
    /\ Result(j, "ok") /\ Owns(j)
    /\ Spend("db")
    /\ Set({ex[j].step}, "queued")
    /\ remaining' = [t \in Steps |-> IF t \in Dependents({ex[j].step})
                                     THEN remaining[t] - 1 ELSE remaining[t]]
    /\ NextId(j, TRUE)
    /\ UNCHANGED <<attempt, stranded, oomCount, runStatus, job, retrying, probing>>

\* Every commitDone failed: requeue the step and return the error.
CommitDoneRequeued(j) ==
    /\ Result(j, "ok") /\ Owns(j)
    /\ Spend("db")
    /\ Requeue(ex[j].step)
    /\ NextId(j, TRUE)
    /\ UNCHANGED <<runStatus, job, retrying, probing>>

-----------------------------------------------------------------------------
(* Failures *)

\* CommitStepFailed: a permanent failure, or a transient one on the last attempt.
CommitFailed(j) ==
    /\ Result(j, "permanent") \/ (Result(j, "transient") /\ LastAttempt(j))
    /\ Owns(j)
    /\ Set({ex[j].step}, "failed")
    /\ Becomes(j, [ex[j] EXCEPT !.pc = "cascade", !.frontier = {ex[j].step}])
    /\ UNCHANGED <<remaining, attempt, stranded, oomCount>>
    /\ UNCHANGED <<runStatus, job, retrying, probing, budget>>

\* Mutant: requeues on the last River attempt too.
RequeueAlways(j) ==
    /\ Result(j, "transient")
    /\ Owns(j)
    /\ Requeue(ex[j].step)
    /\ NextId(j, TRUE)
    /\ UNCHANGED <<runStatus, job, retrying, probing, budget>>

\* A transient failure that River will retry.
RequeueForRetry(j) ==
    /\ Result(j, "transient") /\ ~LastAttempt(j)
    /\ Owns(j)
    /\ Requeue(ex[j].step)
    /\ NextId(j, TRUE)
    /\ UNCHANGED <<runStatus, job, retrying, probing, budget>>

\* handleGPUOOM, after UnloadAll: IncrementGpuOomCount, then what to do.
CountOom(j) ==
    /\ Result(j, "oom") /\ Owns(j)
    /\ oomCount' = [oomCount EXCEPT ![ex[j].step] = @ + 1]
    /\ Becomes(j, [ex[j] EXCEPT !.pc = IF oomCount[ex[j].step] + 1 > 1
                                        THEN "oomFail" ELSE "oomRequeue"])
    /\ UNCHANGED <<status, remaining, attempt, stranded>>
    /\ UNCHANGED <<runStatus, job, retrying, probing, budget>>

OomRequeue(j) ==
    /\ ex[j].pc = "oomRequeue" /\ Owns(j)
    /\ Requeue(ex[j].step)
    /\ StopChunk(j)
    /\ UNCHANGED <<runStatus, job, retrying, probing, budget>>

OomFail(j) ==
    /\ ex[j].pc = "oomFail" /\ Owns(j)
    /\ Set({ex[j].step}, "failed")
    /\ Becomes(j, [ex[j] EXCEPT !.pc = "cascade", !.frontier = {ex[j].step},
                                 !.todo = {}, !.err = TRUE])
    /\ UNCHANGED <<remaining, attempt, stranded, oomCount>>
    /\ UNCHANGED <<runStatus, job, retrying, probing, budget>>

\* The fenced write finds no row: the step was cancelled or reclaimed meanwhile.
Discard(j) ==
    /\ ex[j].pc \in {"work", "oomRequeue", "oomFail"} /\ ~Owns(j)
    /\ \/ Result(j, "ok") /\ NextId(j, FALSE)
       \/ Result(j, "permanent") /\ NextId(j, FALSE)
       \/ Result(j, "transient") /\ NextId(j, ~LastAttempt(j))
       \/ Result(j, "oom") /\ StopChunk(j)
       \/ ex[j].pc \in {"oomRequeue", "oomFail"} /\ StopChunk(j)
    /\ UNCHANGED <<rows, runStatus, job, retrying, probing, budget>>

\* No bookkeeping write succeeds: the step stays running without a heartbeat.
LoseWrites(j) ==
    /\ Spend("db")
    /\ \/ \E c \in {"ok", "permanent", "transient"} : Result(j, c) /\ NextId(j, TRUE)
       \/ Result(j, "oom") /\ StopChunk(j)
       \/ ex[j].pc \in {"oomRequeue", "oomFail"} /\ StopChunk(j)
    /\ UNCHANGED <<rows, runStatus, job, retrying, probing>>

-----------------------------------------------------------------------------
(* cascadeCancelPendingDependents and rollupRun, one statement at a time *)

\* Mutant: cancels the direct dependents only.
CascadeOneLevel(j) ==
    /\ ex[j].pc = "cascade"
    /\ Set({d \in Dependents(ex[j].frontier) : status[d] = "pending"}, "canceled")
    /\ Becomes(j, [ex[j] EXCEPT !.frontier = {}, !.pc = "count"])
    /\ UNCHANGED <<remaining, attempt, stranded, oomCount>>
    /\ UNCHANGED <<runStatus, job, retrying, probing, budget>>

Cascade(j) ==
    LET hit == {d \in Dependents(ex[j].frontier) : status[d] = "pending"} IN
    /\ ex[j].pc = "cascade"
    /\ Set(hit, "canceled")
    /\ Becomes(j, [ex[j] EXCEPT !.frontier = hit,
                                 !.pc = IF hit = {} THEN "count" ELSE "cascade"])
    /\ UNCHANGED <<remaining, attempt, stranded, oomCount>>
    /\ UNCHANGED <<runStatus, job, retrying, probing, budget>>

\* A query of the walk failed: it is logged and the walk ends.
CascadeFails(j) ==
    /\ ex[j].pc = "cascade"
    /\ Spend("db")
    /\ Becomes(j, [ex[j] EXCEPT !.frontier = {}, !.pc = "count"])
    /\ UNCHANGED <<rows, runStatus, job, retrying, probing>>

RunAt(j) == RunOf[ex[j].step]

\* Mutant: does not count running steps.
RollupIgnoresRunning(j) ==
    /\ ex[j].pc = "count"
    /\ IF \E s \in StepsOf(RunAt(j)) : status[s] \in {"pending", "queued"}
       THEN NextId(j, FALSE)
       ELSE Becomes(j, [ex[j] EXCEPT !.pc = "verdict"])
    /\ UNCHANGED <<rows, runStatus, job, retrying, probing, budget>>

\* CountNonTerminalStepsInRun
RollupCount(j) ==
    /\ ex[j].pc = "count"
    /\ IF \E s \in StepsOf(RunAt(j)) : ~Terminal(status[s])
       THEN NextId(j, FALSE)
       ELSE Becomes(j, [ex[j] EXCEPT !.pc = "verdict"])
    /\ UNCHANGED <<rows, runStatus, job, retrying, probing, budget>>

\* HasFailedStepsInRun
RollupVerdict(j) ==
    /\ ex[j].pc = "verdict"
    /\ Becomes(j, [ex[j] EXCEPT !.pc = "mark",
                                 !.verdict = IF \E s \in StepsOf(RunAt(j)) : status[s] = "failed"
                                             THEN "failed" ELSE "done"])
    /\ UNCHANGED <<rows, runStatus, job, retrying, probing, budget>>

\* MarkRunStatusIfNotTerminal
RollupMark(j) ==
    /\ ex[j].pc = "mark"
    /\ runStatus' = [runStatus EXCEPT ![RunAt(j)] =
                       IF @ = "active" THEN ex[j].verdict ELSE @]
    /\ NextId(j, FALSE)
    /\ UNCHANGED <<rows, job, retrying, probing, budget>>

\* A query of the rollup failed: it is logged and the rollup ends.
RollupFails(j) ==
    /\ ex[j].pc \in {"count", "verdict", "mark"}
    /\ Spend("db")
    /\ NextId(j, FALSE)
    /\ UNCHANGED <<rows, runStatus, job, retrying, probing>>

-----------------------------------------------------------------------------
(* The end of a job, a crash of its worker, and River's rescue *)

\* River retries a job that returned an error until its attempts are used up.
RetryOrDiscard(j) == IF LastAttempt(j) THEN NoJob
                     ELSE JobRow(j, "available", job[j].attempt)

FinishJob(j) ==
    /\ ex[j].pc = "claim" /\ ex[j].todo = {}
    /\ job' = [job EXCEPT ![j] = IF ex[j].err THEN RetryOrDiscard(j) ELSE NoJob]
    /\ Becomes(j, AtRest)
    /\ UNCHANGED <<rows, runStatus, retrying, probing, budget>>

\* The worker process dies; its job row stays running.
Crash(j) ==
    /\ ex[j].pc \notin {"idle", "dead"}
    /\ Spend("crash")
    /\ Becomes(j, [AtRest EXCEPT !.pc = "dead"])
    /\ UNCHANGED <<rows, runStatus, job, retrying, probing>>

\* Mutant: a rescue that fires while the job is still being worked.
RescueEarly(j) ==
    /\ ex[j].pc # "idle"
    /\ job' = [job EXCEPT ![j] = RetryOrDiscard(j)]
    /\ UNCHANGED <<rows, runStatus, ex, retrying, probing, budget>>

\* RescueStuckJobsAfter
Rescue(j) ==
    /\ ex[j].pc = "dead"
    /\ job' = [job EXCEPT ![j] = RetryOrDiscard(j)]
    /\ Becomes(j, AtRest)
    /\ UNCHANGED <<rows, runStatus, retrying, probing, budget>>

\* Something outside the engine removes a waiting job.
LoseJob(j) ==
    /\ job[j].state = "available"
    /\ Spend("kill")
    /\ job' = [job EXCEPT ![j] = NoJob]
    /\ UNCHANGED <<rows, runStatus, ex, retrying, probing>>

-----------------------------------------------------------------------------
(* The reconciler *)

\* A live goroutine refreshes heartbeat_at of s: startHeartbeat of this attempt.
Beating(s) ==
    \E j \in JobIds : /\ ex[j].pc \notin {"idle", "claim", "dead"}
                      /\ ex[j].step = s /\ ex[j].held = attempt[s]

Requeued(S) ==
    /\ Set(S, "queued")
    /\ EnqueueReadySteps(S)
    /\ UNCHANGED <<remaining, attempt, stranded, oomCount>>
    /\ UNCHANGED <<runStatus, ex, retrying, probing>>

\* Mutant: no resetStaleHeartbeats.
ReadyOnly == {s \in Steps : status[s] = "pending" /\ remaining[s] <= 0}

(***************************************************************************)
(* A batch of resetStaleHeartbeats or of sweepReady: running steps without *)
(* a heartbeat, pending steps without an unmet dependency.                 *)
(***************************************************************************)
Reclaimable == {s \in Steps : \/ status[s] = "running" /\ ~Beating(s)
                              \/ status[s] = "pending" /\ remaining[s] <= 0}

Sweep(S) ==
    /\ S # {} /\ S \subseteq Reclaimable
    /\ Requeued(S)
    /\ UNCHANGED budget

\* The heartbeat writes of a live executor fail or stall for heartbeatStaleAfter.
ReclaimLive(s) ==
    /\ status[s] = "running" /\ Beating(s)
    /\ Spend("stale")
    /\ Requeued({s})

(***************************************************************************)
(* sweepOrphanedQueued: the candidates are read, then each is probed       *)
(* outside any transaction.  The candidate query keeps to steps below the  *)
(* budget, so the FailQueuedStep branch of reconcileOneOrphan never runs.  *)
(***************************************************************************)
OrphanProbe(w, s) ==
    /\ probing[w] = NoStep
    /\ status[s] = "queued" /\ stranded[s] < MaxStranded
    /\ ~HasLiveRiverJob(s)
    /\ probing' = [probing EXCEPT ![w] = s]
    /\ UNCHANGED <<rows, runStatus, job, ex, retrying, budget>>

\* IncrementStrandedRequeue and a new job, unless the step left queued.
OrphanRequeue(w) ==
    LET s == probing[w] IN
    /\ s # NoStep
    /\ IF status[s] = "queued"
       THEN /\ stranded' = [stranded EXCEPT ![s] = @ + 1]
            /\ EnqueueReadySteps({s})
       ELSE UNCHANGED <<stranded, job>>
    /\ probing' = [probing EXCEPT ![w] = NoStep]
    /\ UNCHANGED <<status, remaining, attempt, oomCount, runStatus, ex, retrying, budget>>

-----------------------------------------------------------------------------
(* Requests: Enqueue, RetryStep, CancelStep, CancelRun, SupersedeRun, CancelScope *)

\* Mutant: does not count the steps of the new run.
AdmittedBefore(r) == Cardinality({s \in Steps : status[s] \in Active}) <= MaxActive

\* The quota check under the tenant's admission lock.
Admitted(r) ==
    Cardinality({s \in Steps : status[s] \in Active}) + Cardinality(StepsOf(r)) <= MaxActive

Enqueue(r) ==
    LET roots == {s \in StepsOf(r) : Deps[s] = {}} IN
    /\ runStatus[r] = "absent"
    /\ Admitted(r)
    /\ runStatus' = [runStatus EXCEPT ![r] = "active"]
    /\ status' = [s \in Steps |-> IF s \in roots THEN "queued"
                                  ELSE IF s \in StepsOf(r) THEN "pending" ELSE status[s]]
    /\ remaining' = [s \in Steps |-> IF s \in StepsOf(r) THEN Cardinality(Deps[s])
                                     ELSE remaining[s]]
    /\ EnqueueReadySteps(roots)
    /\ UNCHANGED <<attempt, stranded, oomCount, ex, retrying, probing, budget>>

\* Mutant: retries a step whose inputs do not exist.
RetryableAlways(s) == status[s] \in {"failed", "canceled"}

Retryable(s) == status[s] \in {"failed", "canceled"} /\ remaining[s] <= 0

(***************************************************************************)
(* RetryStep is one UPDATE ... FROM pipeline_runs under READ COMMITTED: it *)
(* reads the run in its snapshot, without a lock, and re-checks only the   *)
(* step's own row before its transaction commits.                          *)
(***************************************************************************)
RetryRead(s) ==
    /\ s \notin retrying
    /\ Retryable(s) /\ runStatus[RunOf[s]] = "active"
    /\ Spend("retry")
    /\ retrying' = retrying \cup {s}
    /\ UNCHANGED <<rows, runStatus, job, ex, probing>>

RetryCommit(s) ==
    /\ s \in retrying
    /\ IF Retryable(s)
       THEN /\ Set({s}, "queued")
            /\ stranded' = [stranded EXCEPT ![s] = 0]
            /\ oomCount' = [oomCount EXCEPT ![s] = 0]
            /\ EnqueueReadySteps({s})
       ELSE UNCHANGED <<status, stranded, oomCount, job>>
    /\ retrying' = retrying \ {s}
    /\ UNCHANGED <<remaining, attempt, runStatus, ex, probing, budget>>

\* Mutant: leaves running steps running.
CancelWaiting(S) ==
    /\ Set({s \in S : status[s] \in {"pending", "queued"}}, "canceled")
    /\ UNCHANGED <<remaining, attempt, stranded, oomCount, job, ex, retrying, probing>>

CancelSteps(S) ==
    /\ Set({s \in S : status[s] \in Active}, "canceled")
    /\ UNCHANGED <<remaining, attempt, stranded, oomCount, job, ex, retrying, probing>>

CancelStep(s) ==
    /\ status[s] \in Active
    /\ Spend("cancel")
    /\ CancelSteps({s})
    /\ UNCHANGED runStatus

CancelRun(r) ==
    /\ runStatus[r] = "active"
    /\ Spend("cancel")
    /\ runStatus' = [runStatus EXCEPT ![r] = "canceled"]
    /\ CancelSteps(StepsOf(r))

\* The replacement run must exist already.
SupersedeRun(old, new) ==
    /\ runStatus[old] = "active" /\ old # new /\ runStatus[new] # "absent"
    /\ Spend("cancel")
    /\ runStatus' = [runStatus EXCEPT ![old] = "superseded"]
    /\ CancelSteps(StepsOf(old))

CancelScope(c) ==
    /\ \E s \in Steps : ScopeOf[s] = c /\ status[s] \in Active
    /\ Spend("cancel")
    /\ CancelSteps({s \in Steps : ScopeOf[s] = c})
    /\ UNCHANGED runStatus

-----------------------------------------------------------------------------

\* What an executor does when nothing fails around it.
Dispatch(j) ==
    \/ \E s \in Steps : Claim(j, s) \/ Skip(j, s)
    \/ CommitDone(j) \/ CommitFailed(j) \/ RequeueForRetry(j)
    \/ CountOom(j) \/ OomRequeue(j) \/ OomFail(j) \/ Discard(j)
    \/ Cascade(j) \/ RollupCount(j) \/ RollupVerdict(j) \/ RollupMark(j)
    \/ FinishJob(j)

\* What may go wrong around a job.
Fault(j) ==
    \/ SnoozeJob(j) \/ PeekFails(j) \/ CommitDoneUnacked(j) \/ CommitDoneRequeued(j)
    \/ LoseWrites(j) \/ CascadeFails(j) \/ RollupFails(j)
    \/ Crash(j) \/ LoseJob(j)

Reconcile ==
    \/ \E S \in SUBSET Steps : Sweep(S)
    \/ \E s \in Steps : ReclaimLive(s)
    \/ \E w \in Reconcilers : OrphanRequeue(w) \/ \E s \in Steps : OrphanProbe(w, s)

Request ==
    \/ \E r \in Runs : Enqueue(r) \/ CancelRun(r)
    \/ \E old, new \in Runs : SupersedeRun(old, new)
    \/ \E s \in Steps : RetryRead(s) \/ RetryCommit(s) \/ CancelStep(s)
    \/ \E c \in Scopes : CancelScope(c)

Next ==
    \/ \E j \in JobIds : StartJob(j) \/ Dispatch(j) \/ Fault(j) \/ Rescue(j)
    \/ Reconcile
    \/ Request

Spec == Init /\ [][Next]_vars

(***************************************************************************)
(* River keeps fetching and rescuing jobs, a worker that does not crash    *)
(* keeps executing, every reconciler keeps sweeping once a minute, and a   *)
(* request once begun ends.  Nobody has to enqueue, cancel or retry.       *)
(***************************************************************************)
Fairness ==
    /\ \A j \in JobIds : /\ WF_vars(StartJob(j))
                         /\ WF_vars(Dispatch(j))
                         /\ WF_vars(Rescue(j))
    /\ WF_vars(\E S \in SUBSET Steps : Sweep(S))
    /\ \A w \in Reconcilers : /\ WF_vars(OrphanRequeue(w))
                              /\ WF_vars(\E s \in Steps : OrphanProbe(w, s))
    /\ \A s \in Steps : WF_vars(RetryCommit(s))

FairSpec == Spec /\ Fairness
=============================================================================
