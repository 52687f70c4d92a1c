------------------------- MODULE PipelineProperties -------------------------
(***************************************************************************)
(* What makes the pipeline engine correct.                                 *)
(***************************************************************************)
EXTENDS PipelineEngine

Working(j) == ex[j].pc \notin {"idle", "claim", "dead"}

JobRecords == [state : {"free", "available", "running"}, ids : SUBSET Steps, attempt : Nat]
ExRecords == [pc : PCs, todo : SUBSET Steps, step : Steps \cup {NoStep}, held : Nat,
              frontier : SUBSET Steps, verdict : {"active", "done", "failed"}, err : BOOLEAN]

\* Types, and what the program counter of an executor implies of its record
\* and of its job: the row of a job that is being worked is running.
TypeOK ==
    /\ status \in [Steps -> StepStatus]
    /\ remaining \in [Steps -> Int]
    /\ attempt \in [Steps -> Nat]
    /\ stranded \in [Steps -> Nat]
    /\ oomCount \in [Steps -> Nat]
    /\ runStatus \in [Runs -> RunStatus]
    /\ job \in [JobIds -> JobRecords]
    /\ ex \in [JobIds -> ExRecords]
    /\ retrying \subseteq Steps
    /\ probing \in [Reconcilers -> Steps \cup {NoStep}]
    /\ budget \in [FaultKinds -> Nat]
    /\ \A j \in JobIds : /\ Working(j) => ex[j].step \in Steps
                         /\ ex[j].pc # "idle" => job[j].state = "running" /\ job[j].attempt > 0
                         /\ job[j].state = "running" => ex[j].pc # "idle"

\* The attempt number is a fencing token: no executor holds one the row has
\* not reached, and two executors of one step (a zombie and its successor)
\* never hold the same one, so at most one of them can write (claim.go).
FencedOwnership ==
    \A j \in JobIds : Working(j) =>
        /\ ex[j].held <= attempt[ex[j].step]
        /\ \A i \in JobIds \ {j} :
             Working(i) /\ ex[i].step = ex[j].step => ex[i].held # ex[j].held

Unmet(s) == {d \in Deps[s] : status[d] # "done"}

\* remaining_deps counts exactly the dependencies that are not done, whatever
\* crashes, reclaims, cancels and retries happened: a completion is counted
\* once and only once (fanin.go).
FanInExact ==
    \A s \in Steps : status[s] # "absent" => remaining[s] = Cardinality(Unmet(s))

\* No lost wakeup: a pending step always waits for something, so the gap that
\* sweepReady exists to close is never open (fanin.go, reconciler.go).
NoFanInGap == \A s \in Steps : status[s] = "pending" => Unmet(s) # {}

\* The fan-in neither miscounts nor loses a wakeup (fanin.go).
FanInSound == FanInExact /\ NoFanInGap

\* A step is queued, worked on or finished only when all its inputs exist,
\* also after a manual retry downstream of a failure (cancel.go RetryStep).
DepsBeforeRun ==
    \A s \in Steps : status[s] \in {"queued", "running", "done"} => Unmet(s) = {}

\* A cancelled step is revived by a RetryStep and by nothing else: neither the
\* executor that was working it nor the reconciler (cancel.go CancelStep).
CanceledStaysCanceled ==
    [][\A s \in Steps : status[s] = "canceled" /\ status'[s] # "canceled" => s \in retrying]_vars

Lifecycle == INSTANCE StepLifecycle WITH Steps <- Steps, Deps <- Deps, status <- status

\* The engine implements the abstract life of a step: only moves of the
\* transition table, inputs first, and done for good (transition.go).
ImplementsLifecycle == Lifecycle!Spec

\* A run marked done or failed has only terminal steps, and its mark says
\* whether one of them failed (rollup.go rollupRun).
RunVerdictSound ==
    \A r \in Runs : runStatus[r] \in {"done", "failed"} =>
        /\ \A s \in StepsOf(r) : Terminal(status[s])
        /\ runStatus[r] = "failed" <=> \E s \in StepsOf(r) : status[s] = "failed"

\* A run that was cancelled or superseded has no step left to run
\* (cancel.go CancelRun, SupersedeRun, RetryStep).
StoppedRunIsQuiet ==
    \A r \in Runs : runStatus[r] \in {"canceled", "superseded"} =>
        \A s \in StepsOf(r) : Terminal(status[s])

\* A tenant never has more active steps than its quota (quota/check.go).
QuotaRespected == Cardinality({s \in Steps : status[s] \in Active}) <= MaxActive

\* A queued step has a job that will claim it (dispatcher.go, enqueue_jobs.go).
QueuedHasJob == \A s \in Steps : status[s] = "queued" => HasLiveRiverJob(s)

\* Crashes, lost writes and stalled heartbeats delay a step that is due but
\* never lose it: it is worked to an end (reconciler.go).
DueStepsFinish ==
    \A s \in Steps : status[s] \in {"queued", "running"} ~> Terminal(status[s])

AllTerminal(r) == \A s \in StepsOf(r) : Terminal(status[s])

\* Every active run comes to an end: no step of it waits for ever, and the
\* last one to finish rolls the run up (rollup.go).
RunsFinish == \A r \in Runs : runStatus[r] = "active" ~> runStatus[r] # "active"

\* A run whose steps are all terminal is rolled up (rollup.go rollupRun).
TerminalRunRollsUp ==
    \A r \in Runs : runStatus[r] = "active" /\ AllTerminal(r) ~> runStatus[r] # "active"
=============================================================================
