--------------------------- MODULE PipelineProofs ---------------------------
(***************************************************************************)
(* Proofs about the pipeline engine, for any graph of steps, any number of *)
(* jobs and reconcilers and any bound on the faults.                       *)
(***************************************************************************)
EXTENDS PipelineProperties, FiniteSetTheorems, WellFoundedInduction, TLAPS

-----------------------------------------------------------------------------
(* Types *)

\* The records the executor loop is built from are executor records.
LEMMA LoopingType ==
    ASSUME NEW todo \in SUBSET Steps, NEW err \in BOOLEAN
    PROVE  /\ Looping(todo, err) \in ExRecords
           /\ Looping(todo, err).pc = "claim"
BY DEF Looping, AtRest, ExRecords, PCs, RunStatus

LEMMA AtRestType ==
    /\ AtRest \in ExRecords
    /\ AtRest.pc = "idle"
    /\ [AtRest EXCEPT !.pc = "dead"] \in ExRecords
    /\ [AtRest EXCEPT !.pc = "dead"].pc = "dead"
BY DEF AtRest, ExRecords, PCs, RunStatus

LEMMA NoJobType == NoJob \in JobRecords /\ NoJob.state = "free"
BY DEF NoJob, JobRecords

(***************************************************************************)
(* TypeOK in two parts: the database rows, and the jobs with their         *)
(* executors.  No action but EnqueueReadySteps touches a job that is not   *)
(* its own.                                                                *)
(***************************************************************************)
RowsOK ==
    /\ status \in [Steps -> StepStatus]
    /\ remaining \in [Steps -> Int]
    /\ attempt \in [Steps -> Nat]
    /\ stranded \in [Steps -> Nat]
    /\ oomCount \in [Steps -> Nat]
    /\ runStatus \in [Runs -> RunStatus]
    /\ retrying \subseteq Steps
    /\ probing \in [Reconcilers -> Steps \cup {NoStep}]
    /\ budget \in [FaultKinds -> Nat]

\* One job and its executor.
PairOK(J, E) ==
    /\ J \in JobRecords
    /\ E \in ExRecords
    /\ E.pc \notin {"idle", "claim", "dead"} => E.step \in Steps
    /\ E.pc # "idle" => J.state = "running" /\ J.attempt > 0
    /\ J.state = "running" => E.pc # "idle"

JobsOK ==
    /\ DOMAIN job = JobIds /\ job = [j \in JobIds |-> job[j]]
    /\ DOMAIN ex = JobIds /\ ex = [j \in JobIds |-> ex[j]]
    /\ \A j \in JobIds : PairOK(job[j], ex[j])

LEMMA TypeParts == TypeOK <=> RowsOK /\ JobsOK
BY DEF TypeOK, RowsOK, JobsOK, PairOK, Working

\* Inserting jobs leaves every live job alone.
LEMMA EnqueueReadyType ==
    ASSUME JobsOK, NEW Q \in SUBSET Steps, EnqueueReadySteps(Q)
    PROVE  /\ DOMAIN job' = JobIds /\ job' = [j \in JobIds |-> job'[j]]
           /\ \A j \in JobIds : \/ job'[j] = job[j]
                                \/ /\ job[j].state = "free"
                                   /\ job'[j] \in JobRecords
                                   /\ job'[j].state = "available"
<1>1. \A j \in JobIds : ChunkFor(j, Q) \in SUBSET Steps
  BY DEF ChunkFor
<1>2. \A j \in JobIds : [state |-> "available", ids |-> ChunkFor(j, Q), attempt |-> 0]
                            \in JobRecords
  BY <1>1 DEF JobRecords
<1> QED
  BY <1>2 DEF EnqueueReadySteps, FreeJobs, JobsOK

\* An executor step that leaves the jobs alone, or only inserts some, keeps the
\* pairs when the new executor record fits a running job.
LEMMA ExecutorStepType ==
    ASSUME JobsOK, NEW j \in JobIds, NEW E, ex' = [ex EXCEPT ![j] = E],
           ex[j].pc # "idle", E \in ExRecords, E.pc # "idle",
           E.pc \notin {"idle", "claim", "dead"} => E.step \in Steps,
           job' = job \/ \E Q \in SUBSET Steps : EnqueueReadySteps(Q)
    PROVE  JobsOK'
<1>1. /\ DOMAIN job' = JobIds /\ job' = [i \in JobIds |-> job'[i]]
      /\ \A i \in JobIds : \/ job'[i] = job[i]
                           \/ /\ job[i].state = "free"
                              /\ job'[i] \in JobRecords
                              /\ job'[i].state = "available"
  BY EnqueueReadyType DEF JobsOK
<1>2. \A i \in JobIds : PairOK(job[i], ex[i])
  BY DEF JobsOK
<1>3. ex' = [i \in JobIds |-> IF i = j THEN E ELSE ex[i]]
  BY DEF JobsOK
<1>4. ASSUME NEW i \in JobIds PROVE PairOK(job'[i], ex'[i])
  <2>1. CASE job'[i] = job[i]
    BY <1>2, <1>3, <2>1 DEF PairOK
  <2>2. CASE job[i].state = "free" /\ job'[i] \in JobRecords /\ job'[i].state = "available"
    BY <1>2, <1>3, <2>2 DEF PairOK
  <2> QED
    BY <1>1, <2>1, <2>2
<1> QED
  BY <1>1, <1>3, <1>4 DEF JobsOK

\* An action that ends, starts, snoozes or loses a job changes that pair only.
LEMMA PairStepType ==
    ASSUME JobsOK, NEW j \in JobIds, NEW J, NEW E,
           job' = [job EXCEPT ![j] = J], ex' = [ex EXCEPT ![j] = E], PairOK(J, E)
    PROVE  JobsOK'
BY DEF JobsOK

\* An action outside the executors at most inserts jobs.
LEMMA OutsideStepType ==
    ASSUME JobsOK, ex' = ex,
           job' = job \/ \E Q \in SUBSET Steps : EnqueueReadySteps(Q)
    PROVE  JobsOK'
<1>1. CASE job' = job
  BY <1>1 DEF JobsOK
<1>2. CASE \E Q \in SUBSET Steps : EnqueueReadySteps(Q)
  <2>1. /\ DOMAIN job' = JobIds /\ job' = [j \in JobIds |-> job'[j]]
        /\ \A j \in JobIds : \/ job'[j] = job[j]
                             \/ /\ job[j].state = "free"
                                /\ job'[j] \in JobRecords
                                /\ job'[j].state = "available"
    BY <1>2, EnqueueReadyType
  <2>2. \A j \in JobIds : PairOK(job'[j], ex'[j])
    BY <2>1 DEF JobsOK, PairOK
  <2> QED
    BY <2>1, <2>2 DEF JobsOK
<1> QED
  BY <1>1, <1>2

\* What the prover needs of one executor record before it changes.
LEMMA ExecutorFacts ==
    ASSUME JobsOK, NEW j \in JobIds
    PROVE  /\ job[j] \in JobRecords /\ ex[j] \in ExRecords
           /\ ex[j].pc \notin {"idle", "claim", "dead"} => ex[j].step \in Steps
           /\ ex[j].pc # "idle" => job[j].state = "running" /\ job[j].attempt > 0
           /\ job[j].state # "running" => ex[j].pc = "idle"
BY DEF JobsOK, PairOK

\* Every action of the executors, River and the requests keeps the types of
\* the database rows.
LEMMA RowsStep ==
    ASSUME RowsOK, JobsOK, [Next]_vars
    PROVE  RowsOK'
<1> USE DEF RowsOK, StepStatus, Active, RunStatus
<1>1. ASSUME NEW j \in JobIds, StartJob(j) \/ FinishJob(j) \/ Rescue(j) PROVE RowsOK'
  BY <1>1 DEF StartJob, FinishJob, Rescue, rows
<1>2. ASSUME NEW j \in JobIds, NEW s \in Steps, Claim(j, s) PROVE RowsOK'
  BY <1>2 DEF Claim
<1>3. ASSUME NEW j \in JobIds, NEW s \in Steps, Skip(j, s) PROVE RowsOK'
  BY <1>3 DEF Skip, rows
<1>4. ASSUME NEW j \in JobIds, CommitDone(j) PROVE RowsOK'
  BY <1>4 DEF CommitDone, RecordDone
<1>5. ASSUME NEW j \in JobIds, CommitFailed(j) PROVE RowsOK'
  BY <1>5 DEF CommitFailed, Set
<1>6. ASSUME NEW j \in JobIds, RequeueForRetry(j) PROVE RowsOK'
  BY <1>6 DEF RequeueForRetry, Requeue, Set
<1>7. ASSUME NEW j \in JobIds, CountOom(j) PROVE RowsOK'
  <2>1. ex[j].step \in Steps
    BY <1>7, ExecutorFacts DEF CountOom, Result
  <2> QED
    BY <1>7, <2>1 DEF CountOom
<1>8. ASSUME NEW j \in JobIds, OomRequeue(j) PROVE RowsOK'
  BY <1>8 DEF OomRequeue, Requeue, Set
<1>9. ASSUME NEW j \in JobIds, OomFail(j) PROVE RowsOK'
  BY <1>9 DEF OomFail, Set
<1>10. ASSUME NEW j \in JobIds, Discard(j) PROVE RowsOK'
  BY <1>10 DEF Discard, rows
<1>11. ASSUME NEW j \in JobIds, Cascade(j) PROVE RowsOK'
  BY <1>11 DEF Cascade, Set
<1>12. ASSUME NEW j \in JobIds, RollupCount(j) \/ RollupVerdict(j) PROVE RowsOK'
  BY <1>12 DEF RollupCount, RollupVerdict, rows
<1>13. ASSUME NEW j \in JobIds, RollupMark(j) PROVE RowsOK'
  <2>1. ex[j].verdict \in RunStatus
    BY ExecutorFacts DEF ExRecords
  <2> QED
    BY <1>13, <2>1 DEF RollupMark, rows
<1>14. ASSUME NEW k \in FaultKinds, Spend(k) PROVE budget' \in [FaultKinds -> Nat]
  BY <1>14 DEF Spend
<1>15. ASSUME NEW j \in JobIds, Fault(j) PROVE RowsOK'
  <2>1. CASE SnoozeJob(j)
    BY <2>1, <1>14 DEF SnoozeJob, FaultKinds, rows
  <2>2. CASE PeekFails(j) \/ LoseWrites(j) \/ CascadeFails(j) \/ RollupFails(j)
    BY <2>2, <1>14 DEF PeekFails, LoseWrites, CascadeFails, RollupFails, FaultKinds, rows
  <2>3. CASE CommitDoneUnacked(j)
    BY <2>3, <1>14 DEF CommitDoneUnacked, RecordDone, FaultKinds
  <2>4. CASE CommitDoneRequeued(j)
    BY <2>4, <1>14 DEF CommitDoneRequeued, Requeue, Set, FaultKinds
  <2>5. CASE Crash(j) \/ LoseJob(j)
    BY <2>5, <1>14 DEF Crash, LoseJob, FaultKinds, rows
  <2> QED
    BY <1>15, <2>1, <2>2, <2>3, <2>4, <2>5 DEF Fault
<1>16. ASSUME Reconcile PROVE RowsOK'
  <2>1. ASSUME NEW S \in SUBSET Steps, Sweep(S) PROVE RowsOK'
    BY <2>1 DEF Sweep, Requeued, Set
  <2>2. ASSUME NEW s \in Steps, ReclaimLive(s) PROVE RowsOK'
    BY <2>2, <1>14 DEF ReclaimLive, Requeued, Set, FaultKinds
  <2>3. ASSUME NEW w \in Reconcilers, OrphanRequeue(w) PROVE RowsOK'
    BY <2>3 DEF OrphanRequeue
  <2>4. ASSUME NEW w \in Reconcilers, NEW s \in Steps, OrphanProbe(w, s) PROVE RowsOK'
    BY <2>4 DEF OrphanProbe, rows
  <2> QED
    BY <1>16, <2>1, <2>2, <2>3, <2>4 DEF Reconcile
<1>17. ASSUME Request PROVE RowsOK'
  <2>1. ASSUME NEW r \in Runs, Enqueue(r) PROVE RowsOK'
    <3>1. \A s \in Steps : Cardinality(Deps[s]) \in Int
      BY DepsAssumption, StepsAssumption, FS_Subset, FS_CardinalityType
    <3> QED
      BY <2>1, <3>1 DEF Enqueue
  <2>2. ASSUME NEW r \in Runs, CancelRun(r) PROVE RowsOK'
    BY <2>2, <1>14 DEF CancelRun, CancelSteps, Set, FaultKinds
  <2>3. ASSUME NEW old \in Runs, NEW new \in Runs, SupersedeRun(old, new) PROVE RowsOK'
    BY <2>3, <1>14 DEF SupersedeRun, CancelSteps, Set, FaultKinds
  <2>4. ASSUME NEW s \in Steps, RetryRead(s) PROVE RowsOK'
    BY <2>4, <1>14 DEF RetryRead, FaultKinds, rows
  <2>5. ASSUME NEW s \in Steps, RetryCommit(s) PROVE RowsOK'
    BY <2>5 DEF RetryCommit, Set
  <2>6. ASSUME NEW s \in Steps, CancelStep(s) PROVE RowsOK'
    BY <2>6, <1>14 DEF CancelStep, CancelSteps, Set, FaultKinds
  <2>7. ASSUME NEW c \in Scopes, CancelScope(c) PROVE RowsOK'
    BY <2>7, <1>14 DEF CancelScope, CancelSteps, Set, FaultKinds
  <2> QED
    BY <1>17, <2>1, <2>2, <2>3, <2>4, <2>5, <2>6, <2>7 DEF Request
<1>18. CASE UNCHANGED vars
  BY <1>18 DEF vars, rows
<1> QED
  BY <1>1, <1>2, <1>3, <1>4, <1>5, <1>6, <1>7, <1>8, <1>9, <1>10, <1>11, <1>12, <1>13,
     <1>15, <1>16, <1>17, <1>18 DEF Next, Dispatch

\* Every action keeps the jobs and their executors well formed.
LEMMA JobsStep ==
    ASSUME RowsOK, JobsOK, [Next]_vars
    PROVE  JobsOK'
<1> DEFINE Quiet == job' = job \/ \E Q \in SUBSET Steps : EnqueueReadySteps(Q)
<1>1. ASSUME NEW j \in JobIds, StartJob(j) PROVE JobsOK'
  <2> DEFINE J == JobRow(j, "running", job[j].attempt + 1)
             E == Looping(job[j].ids, FALSE)
  <2>1. job[j] \in JobRecords
    BY ExecutorFacts
  <2>2. J \in JobRecords /\ J.state = "running" /\ J.attempt > 0 /\ job[j].ids \in SUBSET Steps
    BY <2>1 DEF JobRecords, JobRow
  <2>3. PairOK(J, E)
    BY <2>2, LoopingType DEF PairOK
  <2> QED
    BY <1>1, <2>3, PairStepType DEF StartJob, Becomes
<1>2. ASSUME NEW j \in JobIds, NEW todo \in SUBSET Steps, NEW err \in BOOLEAN,
             Becomes(j, Looping(todo, err)), ex[j].pc # "idle", Quiet
      PROVE  JobsOK'
  BY <1>2, LoopingType, ExecutorStepType DEF Becomes
<1>3. ASSUME NEW j \in JobIds, NEW failed \in BOOLEAN, NextId(j, failed) \/ StopChunk(j),
             ex[j].pc # "idle", Quiet
      PROVE  JobsOK'
  <2>1. ex[j].todo \in SUBSET Steps /\ ex[j].err \in BOOLEAN
    BY ExecutorFacts DEF ExRecords
  <2>2. (ex[j].err \/ failed) \in BOOLEAN
    OBVIOUS
  <2>3. CASE NextId(j, failed)
    BY <1>3, <1>2, <2>1, <2>2, <2>3 DEF NextId
  <2>4. CASE StopChunk(j)
    BY <1>3, <1>2, <2>4 DEF StopChunk
  <2> QED
    BY <1>3, <2>3, <2>4
<1>5. ASSUME NEW j \in JobIds, NEW s \in Steps, Claim(j, s) PROVE JobsOK'
  <2> DEFINE E == [ex[j] EXCEPT !.pc = "work", !.step = s, !.held = attempt[s] + 1,
                                !.todo = ex[j].todo \ {s}]
  <2>1. attempt[s] + 1 \in Nat
    BY DEF RowsOK
  <2>2. ex[j] \in ExRecords /\ ex[j].todo \ {s} \in SUBSET Steps
    BY ExecutorFacts DEF ExRecords
  <2>3. E \in ExRecords /\ E.pc = "work" /\ E.step \in Steps
    BY <2>1, <2>2 DEF ExRecords, PCs
  <2> QED
    BY <1>5, <2>3, ExecutorStepType DEF Claim, Becomes
<1>6. ASSUME NEW j \in JobIds, NEW s \in Steps, Skip(j, s) PROVE JobsOK'
  <2> DEFINE E == [ex[j] EXCEPT !.todo = @ \ {s}]
  <2>1. E \in ExRecords /\ E.pc = ex[j].pc /\ E.pc = "claim"
    BY <1>6, ExecutorFacts DEF ExRecords, PCs, Skip
  <2> QED
    BY <1>6, <2>1, ExecutorStepType DEF Skip, Becomes
<1>7. ASSUME NEW j \in JobIds, ex[j].pc \notin {"idle", "claim", "dead"}
      PROVE  ex[j] \in ExRecords /\ ex[j].step \in Steps
  BY <1>7, ExecutorFacts
<1>8. ASSUME NEW j \in JobIds, CommitDone(j) PROVE JobsOK'
  <2> DEFINE E == [ex[j] EXCEPT !.pc = "count"]
  <2>1. ex[j].pc = "work" /\ ex[j] \in ExRecords /\ ex[j].step \in Steps
    BY <1>7, <1>8 DEF CommitDone, Result
  <2>2. E \in ExRecords /\ E.pc = "count" /\ E.step \in Steps
    BY <2>1 DEF ExRecords, PCs
  <2>3. Quiet
    BY <1>8 DEF CommitDone, RecordDone, Ready, Dependents
  <2> QED
    BY <1>8, <2>1, <2>2, <2>3, ExecutorStepType DEF CommitDone, Becomes
<1>9. ASSUME NEW j \in JobIds, CommitFailed(j) \/ OomFail(j) PROVE JobsOK'
  <2>1. ex[j].pc \in {"work", "oomFail"} /\ ex[j] \in ExRecords /\ ex[j].step \in Steps /\ Quiet
    BY <1>7, <1>9 DEF CommitFailed, OomFail, Result
  <2>2. CASE CommitFailed(j)
    <3> DEFINE E == [ex[j] EXCEPT !.pc = "cascade", !.frontier = {ex[j].step}]
    <3>1. E \in ExRecords /\ E.pc = "cascade" /\ E.step \in Steps
      BY <2>1 DEF ExRecords, PCs
    <3> QED
      BY <2>1, <2>2, <3>1, ExecutorStepType DEF CommitFailed, Becomes
  <2>3. CASE OomFail(j)
    <3> DEFINE E == [ex[j] EXCEPT !.pc = "cascade", !.frontier = {ex[j].step},
                                  !.todo = {}, !.err = TRUE]
    <3>1. E \in ExRecords /\ E.pc = "cascade" /\ E.step \in Steps
      BY <2>1 DEF ExRecords, PCs
    <3> QED
      BY <2>1, <2>3, <3>1, ExecutorStepType DEF OomFail, Becomes
  <2> QED
    BY <1>9, <2>2, <2>3
<1>10. ASSUME NEW j \in JobIds, RequeueForRetry(j) \/ OomRequeue(j) PROVE JobsOK'
  BY <1>10, <1>3 DEF RequeueForRetry, OomRequeue, Result
<1>11. ASSUME NEW j \in JobIds, CountOom(j) PROVE JobsOK'
  <2> DEFINE E == [ex[j] EXCEPT !.pc = IF oomCount[ex[j].step] + 1 > 1
                                       THEN "oomFail" ELSE "oomRequeue"]
  <2>1. ex[j].pc = "work" /\ ex[j] \in ExRecords /\ ex[j].step \in Steps
    BY <1>7, <1>11 DEF CountOom, Result
  <2>2. E \in ExRecords /\ E.pc \in {"oomFail", "oomRequeue"} /\ E.step \in Steps
    BY <2>1 DEF ExRecords, PCs
  <2> QED
    BY <1>11, <2>1, <2>2, ExecutorStepType DEF CountOom, Becomes
<1>12. ASSUME NEW j \in JobIds, Discard(j) PROVE JobsOK'
  <2>1. ex[j].pc # "idle" /\ Quiet
    BY <1>12 DEF Discard
  <2>2. NextId(j, FALSE) \/ NextId(j, ~LastAttempt(j)) \/ StopChunk(j)
    BY <1>12 DEF Discard
  <2>3. (~LastAttempt(j)) \in BOOLEAN
    OBVIOUS
  <2> QED
    BY <1>3, <2>1, <2>2, <2>3
<1>13. ASSUME NEW j \in JobIds, Cascade(j) PROVE JobsOK'
  <2> DEFINE hit == {d \in Dependents(ex[j].frontier) : status[d] = "pending"}
             E == [ex[j] EXCEPT !.frontier = hit,
                                !.pc = IF hit = {} THEN "count" ELSE "cascade"]
  <2>1. ex[j].pc = "cascade" /\ ex[j] \in ExRecords /\ ex[j].step \in Steps
    BY <1>7, <1>13 DEF Cascade
  <2>2. hit \in SUBSET Steps
    BY DEF Dependents
  <2>3. E \in ExRecords /\ E.pc \in {"count", "cascade"} /\ E.step \in Steps
    BY <2>1, <2>2 DEF ExRecords, PCs
  <2> QED
    BY <1>13, <2>1, <2>3, ExecutorStepType DEF Cascade, Becomes
<1>14. ASSUME NEW j \in JobIds, RollupCount(j) PROVE JobsOK'
  <2> DEFINE E == [ex[j] EXCEPT !.pc = "verdict"]
  <2>1. ex[j].pc = "count" /\ ex[j] \in ExRecords /\ ex[j].step \in Steps /\ Quiet
    BY <1>7, <1>14 DEF RollupCount
  <2>2. E \in ExRecords /\ E.pc = "verdict" /\ E.step \in Steps
    BY <2>1 DEF ExRecords, PCs
  <2>3. NextId(j, FALSE) \/ Becomes(j, E)
    BY <1>14 DEF RollupCount
  <2> QED
    BY <1>3, <2>1, <2>2, <2>3, ExecutorStepType DEF Becomes
<1>15. ASSUME NEW j \in JobIds, RollupVerdict(j) PROVE JobsOK'
  <2>1. PICK v \in {"failed", "done"} :
           Becomes(j, [ex[j] EXCEPT !.pc = "mark", !.verdict = v])
    BY <1>15 DEF RollupVerdict
  <2> DEFINE E == [ex[j] EXCEPT !.pc = "mark", !.verdict = v]
  <2>2. ex[j].pc = "verdict" /\ ex[j] \in ExRecords /\ ex[j].step \in Steps
    BY <1>7, <1>15 DEF RollupVerdict
  <2>3. E \in ExRecords /\ E.pc = "mark" /\ E.step \in Steps
    BY <2>2 DEF ExRecords, PCs, RunStatus
  <2> QED
    BY <1>15, <2>1, <2>2, <2>3, ExecutorStepType DEF RollupVerdict, Becomes
<1>16. ASSUME NEW j \in JobIds, RollupMark(j) PROVE JobsOK'
  BY <1>16, <1>3 DEF RollupMark
<1>17. ASSUME NEW j \in JobIds PROVE RetryOrDiscard(j) \in JobRecords
                                    /\ RetryOrDiscard(j).state # "running"
  BY ExecutorFacts, NoJobType DEF RetryOrDiscard, JobRow, JobRecords
<1>18. ASSUME NEW j \in JobIds, FinishJob(j) \/ Rescue(j) PROVE JobsOK'
  <2>1. PICK J \in JobRecords : J.state # "running" /\ job' = [job EXCEPT ![j] = J]
    BY <1>17, <1>18, NoJobType DEF FinishJob, Rescue
  <2>2. PairOK(J, AtRest)
    BY <2>1, AtRestType DEF PairOK
  <2> QED
    BY <1>18, <2>1, <2>2, PairStepType DEF FinishJob, Rescue, Becomes
<1>19. ASSUME NEW j \in JobIds, Fault(j) PROVE JobsOK'
  <2>1. CASE SnoozeJob(j)
    <3> DEFINE J == JobRow(j, "available", job[j].attempt - 1)
    <3>1. job[j] \in JobRecords /\ job[j].attempt > 0
      BY <2>1, ExecutorFacts DEF SnoozeJob
    <3>2. J \in JobRecords /\ J.state = "available"
      BY <3>1 DEF JobRecords, JobRow
    <3>3. PairOK(J, AtRest)
      BY <3>2, AtRestType DEF PairOK
    <3> QED
      BY <2>1, <3>3, PairStepType DEF SnoozeJob, Becomes
  <2>2. CASE PeekFails(j)
    BY <2>2, <1>3 DEF PeekFails
  <2>3. CASE CommitDoneUnacked(j)
    <3>1. Quiet
      BY <2>3 DEF CommitDoneUnacked, RecordDone, Ready, Dependents
    <3> QED
      BY <2>3, <3>1, <1>3 DEF CommitDoneUnacked, Result
  <2>4. CASE CommitDoneRequeued(j)
    BY <2>4, <1>3 DEF CommitDoneRequeued, Result
  <2>5. CASE LoseWrites(j)
    <3>1. ex[j].pc # "idle" /\ Quiet /\ (NextId(j, TRUE) \/ StopChunk(j))
      BY <2>5 DEF LoseWrites, Result
    <3> QED
      BY <3>1, <1>3
  <2>6. CASE CascadeFails(j)
    <3> DEFINE E == [ex[j] EXCEPT !.frontier = {}, !.pc = "count"]
    <3>1. ex[j].pc = "cascade" /\ ex[j] \in ExRecords /\ ex[j].step \in Steps
      BY <1>7, <2>6 DEF CascadeFails
    <3>2. E \in ExRecords /\ E.pc = "count" /\ E.step \in Steps
      BY <3>1 DEF ExRecords, PCs
    <3> QED
      BY <2>6, <3>1, <3>2, ExecutorStepType DEF CascadeFails, Becomes
  <2>7. CASE RollupFails(j)
    BY <2>7, <1>3 DEF RollupFails
  <2>8. CASE Crash(j)
    BY <2>8, AtRestType, ExecutorStepType DEF Crash, Becomes
  <2>9. CASE LoseJob(j)
    <3>1. PairOK(NoJob, ex[j]) /\ ex' = [ex EXCEPT ![j] = ex[j]]
      BY <2>9, ExecutorFacts, NoJobType DEF PairOK, LoseJob, JobsOK
    <3> QED
      BY <2>9, <3>1, PairStepType DEF LoseJob
  <2> QED
    BY <1>19, <2>1, <2>2, <2>3, <2>4, <2>5, <2>6, <2>7, <2>8, <2>9 DEF Fault
<1>20. ASSUME Reconcile PROVE JobsOK'
  <2>1. ex' = ex /\ Quiet
    BY <1>20 DEF Reconcile, Sweep, ReclaimLive, Requeued, OrphanRequeue, OrphanProbe, RowsOK
  <2> QED
    BY <2>1, OutsideStepType
<1>21. ASSUME Request PROVE JobsOK'
  <2>1. ASSUME NEW r \in Runs, Enqueue(r) PROVE ex' = ex /\ Quiet
    BY <2>1 DEF Enqueue, StepsOf
  <2>2. ex' = ex /\ Quiet
    BY <1>21, <2>1 DEF Request, CancelRun, SupersedeRun, RetryRead, RetryCommit, CancelStep,
                       CancelScope, CancelSteps
  <2> QED
    BY <2>2, OutsideStepType
<1>22. CASE UNCHANGED vars
  BY <1>22, OutsideStepType DEF vars
<1> QED
  BY <1>1, <1>5, <1>6, <1>8, <1>9, <1>10, <1>11, <1>12, <1>13, <1>14, <1>15, <1>16, <1>18,
     <1>19, <1>20, <1>21, <1>22 DEF Next, Dispatch

\* The engine's state always has its types, and a job that is being worked is
\* a running River job, whatever fails around it.
THEOREM TypeCorrect == Spec => []TypeOK
<1>1. Init => TypeOK
  BY StepsAssumption, LimitsAssumption, AtRestType, NoJobType
  DEF Init, TypeOK, StepStatus, RunStatus, Working
<1>2. TypeOK /\ [Next]_vars => TypeOK'
  BY TypeParts, RowsStep, JobsStep DEF TypeOK, RowsOK, JobsOK, PairOK, Working
<1> QED
  BY <1>1, <1>2, PTL DEF Spec

-----------------------------------------------------------------------------
(***************************************************************************)
(* How the rows of the steps can change.  The thirty actions of the engine *)
(* write pipeline_steps in six ways; what they do is proved once, by       *)
(* RowMoves, and the invariants are proved from the six ways.              *)
(***************************************************************************)
SameRows == status' = status /\ remaining' = remaining

Claimed == \E s \in Steps : /\ status[s] = "queued"
                            /\ Set({s}, "running") /\ remaining' = remaining

Failed == \E s \in Steps : /\ status[s] = "running"
                           /\ Set({s}, "failed") /\ remaining' = remaining

Canceled == \E S \in SUBSET Steps : /\ \A s \in S : status[s] \in Active
                                    /\ Set(S, "canceled") /\ remaining' = remaining

MayQueue(s) == \/ status[s] = "running"
               \/ status[s] = "pending" /\ remaining[s] <= 0
               \/ s \in retrying /\ Retryable(s)

BackToQueue == \E S \in SUBSET Steps : /\ \A s \in S : MayQueue(s)
                                       /\ Set(S, "queued") /\ remaining' = remaining

Completed == \E s \in Steps : status[s] = "running" /\ RecordDone(s)

Enqueued == \E r \in Runs : Enqueue(r)

LEMMA RowMoves ==
    ASSUME TypeOK, [Next]_vars
    PROVE  SameRows \/ Claimed \/ Failed \/ Canceled \/ BackToQueue \/ Completed \/ Enqueued
<1> USE DEF TypeOK, rows
<1>1. ASSUME NEW j \in JobIds, ex[j].pc \notin {"idle", "claim", "dead"} PROVE ex[j].step \in Steps
  BY <1>1 DEF Working
<1>2. ASSUME NEW j \in JobIds, StartJob(j) \/ FinishJob(j) \/ Rescue(j) PROVE SameRows
  BY <1>2 DEF StartJob, FinishJob, Rescue, SameRows
<1>3. ASSUME NEW j \in JobIds, NEW s \in Steps, Claim(j, s) PROVE Claimed
  BY <1>3 DEF Claim, Claimed, Set
<1>4. ASSUME NEW j \in JobIds, NEW s \in Steps, Skip(j, s) PROVE SameRows
  BY <1>4 DEF Skip, SameRows
<1>5. ASSUME NEW j \in JobIds, CommitDone(j) \/ CommitDoneUnacked(j) PROVE Completed
  BY <1>5, <1>1 DEF CommitDone, CommitDoneUnacked, Completed, Result, Owns
<1>6. ASSUME NEW j \in JobIds, CommitFailed(j) \/ OomFail(j) PROVE Failed
  BY <1>6, <1>1 DEF CommitFailed, OomFail, Failed, Result, Owns
<1>7. ASSUME NEW j \in JobIds, RequeueForRetry(j) \/ OomRequeue(j) \/ CommitDoneRequeued(j)
      PROVE  BackToQueue
  <2>1. ex[j].step \in Steps /\ Owns(j) /\ Requeue(ex[j].step)
    BY <1>7, <1>1 DEF RequeueForRetry, OomRequeue, CommitDoneRequeued, Result
  <2>2. {ex[j].step} \in SUBSET Steps /\ \A s \in {ex[j].step} : MayQueue(s)
    BY <2>1 DEF Owns, MayQueue
  <2> QED
    BY <2>1, <2>2 DEF BackToQueue, Requeue
<1>8. ASSUME NEW j \in JobIds, CountOom(j) \/ Discard(j) PROVE SameRows
  BY <1>8 DEF CountOom, Discard, SameRows
<1>9. ASSUME NEW j \in JobIds, Cascade(j) PROVE Canceled
  BY <1>9 DEF Cascade, Canceled, Dependents, Active
<1>10. ASSUME NEW j \in JobIds, RollupCount(j) \/ RollupVerdict(j) \/ RollupMark(j) PROVE SameRows
  BY <1>10 DEF RollupCount, RollupVerdict, RollupMark, SameRows
<1>11. ASSUME NEW j \in JobIds, SnoozeJob(j) \/ PeekFails(j) \/ LoseWrites(j) \/ CascadeFails(j)
                                 \/ RollupFails(j) \/ Crash(j) \/ LoseJob(j)
       PROVE  SameRows
  BY <1>11 DEF SnoozeJob, PeekFails, LoseWrites, CascadeFails, RollupFails, Crash, LoseJob, SameRows
<1>12. ASSUME Reconcile PROVE SameRows \/ BackToQueue
  <2>1. ASSUME NEW S \in SUBSET Steps, Sweep(S) PROVE BackToQueue
    BY <2>1 DEF Sweep, Requeued, BackToQueue, MayQueue, Reclaimable
  <2>2. ASSUME NEW s \in Steps, ReclaimLive(s) PROVE BackToQueue
    <3>1. {s} \in SUBSET Steps /\ \A t \in {s} : MayQueue(t)
      BY <2>2 DEF ReclaimLive, MayQueue
    <3> QED
      BY <2>2, <3>1 DEF ReclaimLive, Requeued, BackToQueue
  <2>3. ASSUME NEW w \in Reconcilers, OrphanRequeue(w) PROVE SameRows
    BY <2>3 DEF OrphanRequeue, SameRows
  <2>4. ASSUME NEW w \in Reconcilers, NEW s \in Steps, OrphanProbe(w, s) PROVE SameRows
    BY <2>4 DEF OrphanProbe, SameRows
  <2> QED
    BY <1>12, <2>1, <2>2, <2>3, <2>4 DEF Reconcile
<1>13. ASSUME NEW S \in SUBSET Steps, CancelSteps(S) PROVE Canceled
  <2>1. {s \in S : status[s] \in Active} \in SUBSET Steps
    OBVIOUS
  <2> QED
    BY <1>13, <2>1 DEF CancelSteps, Canceled
<1>14. ASSUME Request PROVE SameRows \/ Canceled \/ BackToQueue \/ Enqueued
  <2>1. ASSUME NEW r \in Runs, Enqueue(r) PROVE Enqueued
    BY <2>1 DEF Enqueued
  <2>2. ASSUME NEW r \in Runs, CancelRun(r) PROVE Canceled
    BY <2>2, <1>13 DEF CancelRun, StepsOf
  <2>3. ASSUME NEW old \in Runs, NEW new \in Runs, SupersedeRun(old, new) PROVE Canceled
    BY <2>3, <1>13 DEF SupersedeRun, StepsOf
  <2>4. ASSUME NEW s \in Steps, RetryRead(s) PROVE SameRows
    BY <2>4 DEF RetryRead, SameRows
  <2>5. ASSUME NEW s \in Steps, RetryCommit(s) PROVE SameRows \/ BackToQueue
    <3>1. CASE Retryable(s)
      <4>1. {s} \in SUBSET Steps /\ \A t \in {s} : MayQueue(t)
        BY <2>5, <3>1 DEF RetryCommit, MayQueue
      <4> QED
        BY <2>5, <3>1, <4>1 DEF RetryCommit, BackToQueue
    <3>2. CASE ~Retryable(s)
      BY <2>5, <3>2 DEF RetryCommit, SameRows
    <3> QED
      BY <3>1, <3>2
  <2>6. ASSUME NEW s \in Steps, CancelStep(s) PROVE Canceled
    BY <2>6, <1>13 DEF CancelStep
  <2>7. ASSUME NEW c \in Scopes, CancelScope(c) PROVE Canceled
    BY <2>7, <1>13 DEF CancelScope
  <2> QED
    BY <1>14, <2>1, <2>2, <2>3, <2>4, <2>5, <2>6, <2>7 DEF Request
<1>15. CASE UNCHANGED vars
  BY <1>15 DEF vars, SameRows
<1> QED
  BY <1>2, <1>3, <1>4, <1>5, <1>6, <1>7, <1>8, <1>9, <1>10, <1>11, <1>12, <1>14, <1>15
  DEF Next, Dispatch, Fault

-----------------------------------------------------------------------------
(* Fan-in *)

\* A run and its steps are inserted by one transaction.
AbsentTogether ==
    \A s \in Steps : runStatus[RunOf[s]] = "absent" => status[s] = "absent"

(***************************************************************************)
(* The inductive invariant.  FanInExact makes the guards on remaining_deps *)
(* mean what they should, and needs in turn that a completed step was      *)
(* running, that it is counted in each dependent once, and that Enqueue    *)
(* never meets steps that already exist (AbsentTogether).                  *)
(***************************************************************************)
FanInInv ==
    /\ TypeOK
    /\ AbsentTogether
    /\ FanInExact
    /\ NoFanInGap
    /\ DepsBeforeRun

LEMMA UnmetFinite ==
    ASSUME NEW s \in Steps
    PROVE  /\ IsFiniteSet(Unmet(s)) /\ Cardinality(Unmet(s)) \in Nat
           /\ Cardinality(Unmet(s)) = 0 <=> Unmet(s) = {}
<1>1. Unmet(s) \in SUBSET Steps
  BY DepsAssumption DEF Unmet
<1>2. IsFiniteSet(Unmet(s))
  BY <1>1, StepsAssumption, FS_Subset
<1> QED
  BY <1>2, FS_CardinalityType, FS_EmptySet

\* The mark of a run never goes back to absent.
LEMMA RunStays ==
    ASSUME TypeOK, [Next]_vars
    PROVE  \A r \in Runs : runStatus'[r] = "absent" => runStatus[r] = "absent"
<1> USE DEF TypeOK
<1>1. ASSUME NEW j \in JobIds, RollupMark(j)
      PROVE  \A r \in Runs : runStatus'[r] = "absent" => runStatus[r] = "absent"
  <2>1. ex[j].verdict # "absent"
    BY DEF ExRecords
  <2> QED
    BY <1>1, <2>1 DEF RollupMark
<1>2. ASSUME NEW j \in JobIds, Dispatch(j), ~RollupMark(j) PROVE runStatus' = runStatus
  BY <1>2 DEF Dispatch, Claim, Skip, CommitDone, RecordDone, CommitFailed, RequeueForRetry,
       CountOom, OomRequeue, OomFail, Discard, Cascade, RollupCount, RollupVerdict, FinishJob
<1>3. ASSUME NEW j \in JobIds, StartJob(j) \/ Rescue(j) \/ Fault(j) PROVE runStatus' = runStatus
  BY <1>3 DEF StartJob, Rescue, Fault, SnoozeJob, PeekFails, CommitDoneUnacked, RecordDone,
       CommitDoneRequeued, LoseWrites, CascadeFails, RollupFails, Crash, LoseJob
<1>4. ASSUME Reconcile PROVE runStatus' = runStatus
  BY <1>4 DEF Reconcile, Sweep, ReclaimLive, Requeued, OrphanRequeue, OrphanProbe
<1>5. ASSUME Request PROVE \A r \in Runs : runStatus'[r] = "absent" => runStatus[r] = "absent"
  BY <1>5 DEF Request, Enqueue, CancelRun, SupersedeRun, RetryRead, RetryCommit, CancelStep,
       CancelScope
<1>6. CASE UNCHANGED vars
  BY <1>6 DEF vars
<1> QED
  BY <1>1, <1>2, <1>3, <1>4, <1>5, <1>6 DEF Next

\* Moves that neither create nor complete a step leave every count right.
LEMMA CountsKept ==
    ASSUME FanInExact, remaining' = remaining,
           \A s \in Steps : /\ status'[s] = "done" <=> status[s] = "done"
                            /\ status'[s] = "absent" <=> status[s] = "absent"
    PROVE  FanInExact' /\ \A s \in Steps : Unmet(s)' = Unmet(s)
<1>1. \A s \in Steps : Unmet(s)' = Unmet(s)
  BY DepsAssumption DEF Unmet
<1> QED
  BY <1>1 DEF FanInExact

\* Every step of the engine keeps the fan-in invariant.
LEMMA FanInStep ==
    ASSUME FanInInv, TypeOK', [Next]_vars
    PROVE  AbsentTogether' /\ FanInExact' /\ NoFanInGap' /\ DepsBeforeRun'
<1> USE DEF FanInInv
<1>1. status \in [Steps -> StepStatus] /\ remaining \in [Steps -> Int]
  BY DEF TypeOK
<1>2. \A r \in Runs : runStatus'[r] = "absent" => runStatus[r] = "absent"
  BY RunStays
<1>3. CASE SameRows
  <2>1. FanInExact' /\ \A s \in Steps : Unmet(s)' = Unmet(s)
    BY <1>3, CountsKept DEF SameRows
  <2> QED
    BY <1>2, <1>3, <2>1, RunsAssumption DEF SameRows, AbsentTogether, NoFanInGap, DepsBeforeRun
<1>4. CASE Claimed \/ Failed \/ Canceled
  <2>1. /\ remaining' = remaining
        /\ \A s \in Steps : /\ status'[s] = "done" <=> status[s] = "done"
                            /\ status'[s] = "absent" <=> status[s] = "absent"
                            /\ status'[s] = "pending" => status[s] = "pending"
                            /\ status'[s] \in {"queued", "running", "done"}
                                 => status[s] \in {"queued", "running", "done"}
    BY <1>1, <1>4 DEF Claimed, Failed, Canceled, Set, Active
  <2>2. FanInExact' /\ \A s \in Steps : Unmet(s)' = Unmet(s)
    BY <2>1, CountsKept
  <2> QED
    BY <1>2, <2>1, <2>2, RunsAssumption DEF AbsentTogether, NoFanInGap, DepsBeforeRun
<1>5. CASE BackToQueue
  <2>1. PICK S \in SUBSET Steps : /\ \A s \in S : MayQueue(s)
                                  /\ Set(S, "queued") /\ remaining' = remaining
    BY <1>5 DEF BackToQueue
  <2>2. \A s \in Steps : /\ status'[s] = "done" <=> status[s] = "done"
                         /\ status'[s] = "absent" <=> status[s] = "absent"
                         /\ status'[s] = "pending" => status[s] = "pending"
    BY <1>1, <2>1 DEF Set, MayQueue, Retryable
  <2>3. FanInExact' /\ \A s \in Steps : Unmet(s)' = Unmet(s)
    BY <2>1, <2>2, CountsKept
  <2>4. \A s \in S : Unmet(s) = {}
    <3> SUFFICES ASSUME NEW s \in S PROVE Unmet(s) = {}
      OBVIOUS
    <3>1. CASE status[s] = "running"
      BY <2>1, <3>1 DEF DepsBeforeRun
    <3>2. CASE status[s] # "running"
      <4>1. remaining[s] <= 0 /\ status[s] # "absent"
        BY <2>1, <3>2 DEF MayQueue, Retryable
      <4>2. Cardinality(Unmet(s)) = 0
        BY <4>1, <2>1, UnmetFinite DEF FanInExact
      <4> QED
        BY <4>2, UnmetFinite
    <3> QED
      BY <3>1, <3>2
  <2> QED
    BY <1>2, <2>1, <2>2, <2>3, <2>4, RunsAssumption DEF Set, AbsentTogether, NoFanInGap, DepsBeforeRun
<1>6. CASE Completed
  <2>1. PICK s \in Steps : status[s] = "running" /\ RecordDone(s)
    BY <1>6 DEF Completed
  <2>2. /\ status' = [t \in Steps |-> IF t = s THEN "done"
                                      ELSE IF t \in Ready(s) THEN "queued" ELSE status[t]]
        /\ remaining' = [t \in Steps |-> IF t \in Dependents({s})
                                         THEN remaining[t] - 1 ELSE remaining[t]]
    BY <2>1 DEF RecordDone
  <2>3. \A t \in Steps : Unmet(t)' = Unmet(t) \ {s}
    <3>1. \A t \in Steps : status'[t] = "done" <=> t = s \/ status[t] = "done"
      BY <2>2 DEF Ready
    <3> QED
      BY <3>1, DepsAssumption DEF Unmet
  <2>4. \A t \in Steps : status'[t] = "absent" <=> status[t] = "absent"
    BY <2>1, <2>2 DEF Ready
  <2>5. \A t \in Steps : t \in Dependents({s}) <=> s \in Unmet(t)
    BY <2>1 DEF Dependents, Unmet
  <2>6. \A t \in Steps : status[t] # "absent" => remaining'[t] = Cardinality(Unmet(t)')
    <3> SUFFICES ASSUME NEW t \in Steps, status[t] # "absent"
                 PROVE  remaining'[t] = Cardinality(Unmet(t) \ {s})
      BY <2>3
    <3>1. Cardinality(Unmet(t) \ {s}) = IF s \in Unmet(t) THEN Cardinality(Unmet(t)) - 1
                                        ELSE Cardinality(Unmet(t))
      BY UnmetFinite, FS_RemoveElement
    <3> QED
      BY <3>1, <2>2, <2>5 DEF FanInExact
  <2>7. FanInExact'
    BY <2>4, <2>6 DEF FanInExact
  <2>8. NoFanInGap'
    <3> SUFFICES ASSUME NEW t \in Steps, status'[t] = "pending" PROVE Unmet(t)' # {}
      BY DEF NoFanInGap
    <3>1. t # s /\ t \notin Ready(s) /\ status[t] = "pending"
      BY <2>2
    <3>2. CASE t \in Dependents({s})
      <4>1. remaining'[t] > 0
        BY <1>1, <2>2, <3>1, <3>2 DEF Ready
      <4>2. remaining'[t] = Cardinality(Unmet(t)')
        BY <2>6, <3>1
      <4>3. Cardinality({}) = 0
        BY FS_EmptySet
      <4> QED
        BY <4>1, <4>2, <4>3
    <3>3. CASE t \notin Dependents({s})
      BY <2>3, <2>5, <3>1, <3>3 DEF NoFanInGap
    <3> QED
      BY <3>2, <3>3
  <2>9. DepsBeforeRun'
    <3> SUFFICES ASSUME NEW t \in Steps, status'[t] \in {"queued", "running", "done"}
                 PROVE  Unmet(t)' = {}
      BY DEF DepsBeforeRun
    <3>1. CASE t \in Ready(s) /\ t # s
      <4>1. /\ t \in Dependents({s}) /\ status[t] # "absent" /\ remaining'[t] <= 0
        BY <2>2, <3>1 DEF Ready
      <4>2. remaining'[t] = Cardinality(Unmet(t)')
        BY <2>6, <4>1
      <4>3. IsFiniteSet(Unmet(t) \ {s})
        BY UnmetFinite, FS_RemoveElement
      <4>4. IsFiniteSet(Unmet(t)') /\ Cardinality(Unmet(t)') \in Nat
        BY <2>3, <4>3, FS_CardinalityType
      <4>5. Cardinality(Unmet(t)') = 0
        BY <4>1, <4>2, <4>4
      <4> QED
        BY <4>4, <4>5, FS_EmptySet
    <3>2. CASE t \notin Ready(s) \/ t = s
      <4>1. status[t] \in {"queued", "running", "done"}
        BY <2>1, <2>2, <3>2
      <4> QED
        BY <2>3, <4>1 DEF DepsBeforeRun
    <3> QED
      BY <3>1, <3>2
  <2>10. AbsentTogether'
    BY <1>2, <2>4, RunsAssumption DEF AbsentTogether
  <2> QED
    BY <2>7, <2>8, <2>9, <2>10
<1>7. CASE Enqueued
  <2>1. PICK r \in Runs : Enqueue(r)
    BY <1>7 DEF Enqueued
  <2> DEFINE roots == {s \in StepsOf(r) : Deps[s] = {}}
  <2>2. /\ runStatus[r] = "absent"
        /\ runStatus' = [runStatus EXCEPT ![r] = "active"]
        /\ status' = [s \in Steps |-> IF s \in roots THEN "queued"
                                      ELSE IF s \in StepsOf(r) THEN "pending" ELSE status[s]]
        /\ remaining' = [s \in Steps |-> IF s \in StepsOf(r) THEN Cardinality(Deps[s])
                                         ELSE remaining[s]]
    BY <2>1 DEF Enqueue
  <2>3. \A s \in StepsOf(r) : status[s] = "absent"
    BY <2>2 DEF AbsentTogether, StepsOf
  <2>4. \A s \in Steps : status'[s] = "done" <=> status[s] = "done"
    BY <2>2, <2>3
  <2>5. \A s \in Steps : Unmet(s)' = Unmet(s)
    BY <2>4, DepsAssumption DEF Unmet
  <2>6. \A s \in StepsOf(r) : Unmet(s) = Deps[s]
    BY <2>3, DepsAssumption DEF Unmet, StepsOf
  <2>7. AbsentTogether'
    BY <2>2, RunsAssumption DEF AbsentTogether, StepsOf, TypeOK
  <2>8. FanInExact'
    BY <2>2, <2>5, <2>6 DEF FanInExact, StepsOf
  <2>9. NoFanInGap'
    BY <2>2, <2>5, <2>6 DEF NoFanInGap, StepsOf
  <2>10. DepsBeforeRun'
    BY <2>2, <2>5, <2>6 DEF DepsBeforeRun, StepsOf
  <2> QED
    BY <2>7, <2>8, <2>9, <2>10
<1> QED
  BY <1>3, <1>4, <1>5, <1>6, <1>7, RowMoves

LEMMA FanInInvariant == Spec => []FanInInv
<1>1. Init => AbsentTogether /\ FanInExact /\ NoFanInGap /\ DepsBeforeRun
  BY DEF Init, AbsentTogether, FanInExact, NoFanInGap, DepsBeforeRun
<1>2. FanInInv /\ TypeOK' /\ [Next]_vars => FanInInv'
  BY FanInStep DEF FanInInv
<1> QED
  BY <1>1, <1>2, TypeCorrect, PTL DEF Spec, FanInInv

\* remaining_deps always counts exactly the unfinished dependencies: fanIn
\* decrements once for each completion, whatever crashes, reclaims, cancels
\* and retries surround it.
THEOREM FanInIsExact == Spec => []FanInExact
BY FanInInvariant, PTL DEF FanInInv

\* No wakeup is lost: a pending step always has an unfinished dependency.
THEOREM NoWakeupIsLost == Spec => []NoFanInGap
BY FanInInvariant, PTL DEF FanInInv

\* The fan-in is sound for every dependency graph (fanin.go).
THEOREM FanInIsSound == Spec => []FanInSound
BY FanInIsExact, NoWakeupIsLost, PTL DEF FanInSound

\* No step is queued, worked or finished before its inputs exist.
THEOREM InputsComeFirst == Spec => []DepsBeforeRun
BY FanInInvariant, PTL DEF FanInInv

-----------------------------------------------------------------------------
(* The fence *)

\* An executor keeps its step and its attempt until it stops working.
KeepsHold(j) ==
    \/ ~Working(j)'
    \/ /\ Working(j)
       /\ ex'[j].step = ex[j].step /\ ex'[j].held = ex[j].held

LEMMA LeavesOthers ==
    ASSUME TypeOK, NEW j \in JobIds, NEW E, Becomes(j, E),
           \/ E.pc \in {"idle", "claim", "dead"}
           \/ Working(j) /\ E.step = ex[j].step /\ E.held = ex[j].held
    PROVE  \A i \in JobIds : KeepsHold(i)
BY DEF TypeOK, Becomes, KeepsHold, Working

LEMMA StopsWorking ==
    ASSUME TypeOK, NEW j \in JobIds, NEW failed \in BOOLEAN,
           NextId(j, failed) \/ StopChunk(j) \/ Becomes(j, AtRest)
    PROVE  \A i \in JobIds : KeepsHold(i)
<1>1. \A todo, err : Looping(todo, err).pc = "claim"
  BY DEF Looping
<1>2. PICK E : Becomes(j, E) /\ E.pc \in {"idle", "claim", "dead"}
  BY <1>1, AtRestType DEF NextId, StopChunk
<1> QED
  BY <1>2, LeavesOthers

\* A claim is the only way to take hold of a step, and the only write to attempt.
LEMMA HoldMoves ==
    ASSUME TypeOK, [Next]_vars
    PROVE  \/ attempt' = attempt /\ \A i \in JobIds : KeepsHold(i)
           \/ \E j \in JobIds, s \in Steps : Claim(j, s)
<1> DEFINE Kept == attempt' = attempt /\ \A i \in JobIds : KeepsHold(i)
<1> USE DEF rows
<1>1. ASSUME ex' = ex, attempt' = attempt PROVE Kept
  BY <1>1 DEF KeepsHold, Working
<1>2. ASSUME NEW j \in JobIds, NEW E, Becomes(j, E), attempt' = attempt,
             Working(j), E.step = ex[j].step, E.held = ex[j].held
      PROVE  Kept
  BY <1>2, LeavesOthers
<1>3. ASSUME NEW j \in JobIds PROVE ex[j] \in ExRecords
  BY DEF TypeOK
<1>4. ASSUME NEW j \in JobIds, StartJob(j) PROVE Kept
  <2>1. Looping(job[j].ids, FALSE).pc = "claim"
    BY DEF Looping
  <2> QED
    BY <1>4, <2>1, LeavesOthers DEF StartJob
<1>5. ASSUME NEW j \in JobIds, FinishJob(j) \/ Rescue(j) \/ SnoozeJob(j) PROVE Kept
  BY <1>5, StopsWorking DEF FinishJob, Rescue, SnoozeJob
<1>6. ASSUME NEW j \in JobIds, NEW s \in Steps, Skip(j, s) PROVE Kept
  <2>1. [ex[j] EXCEPT !.todo = @ \ {s}].pc = "claim"
    BY <1>3, <1>6 DEF Skip, ExRecords
  <2> QED
    BY <1>6, <2>1, LeavesOthers DEF Skip
<1>7. ASSUME NEW j \in JobIds, CommitDone(j) PROVE Kept
  BY <1>2, <1>3, <1>7 DEF CommitDone, RecordDone, Result, Working, ExRecords
<1>8. ASSUME NEW j \in JobIds, CommitFailed(j) \/ OomFail(j) PROVE Kept
  BY <1>2, <1>3, <1>8 DEF CommitFailed, OomFail, Result, Working, ExRecords
<1>9. ASSUME NEW j \in JobIds, RequeueForRetry(j) \/ OomRequeue(j) \/ CommitDoneRequeued(j)
      PROVE  Kept
  BY <1>9, StopsWorking DEF RequeueForRetry, OomRequeue, CommitDoneRequeued, Requeue
<1>10. ASSUME NEW j \in JobIds, CountOom(j) PROVE Kept
  BY <1>2, <1>3, <1>10 DEF CountOom, Result, Working, ExRecords
<1>11. ASSUME NEW j \in JobIds, Discard(j) PROVE Kept
  <2>1. (~LastAttempt(j)) \in BOOLEAN
    OBVIOUS
  <2> QED
    BY <1>11, <2>1, StopsWorking DEF Discard
<1>12. ASSUME NEW j \in JobIds, Cascade(j) \/ CascadeFails(j) PROVE Kept
  BY <1>2, <1>3, <1>12 DEF Cascade, CascadeFails, Working, ExRecords
<1>13. ASSUME NEW j \in JobIds, RollupCount(j) PROVE Kept
  BY <1>2, <1>3, <1>13, StopsWorking DEF RollupCount, Working, ExRecords
<1>14. ASSUME NEW j \in JobIds, RollupVerdict(j) PROVE Kept
  BY <1>2, <1>3, <1>14 DEF RollupVerdict, Working, ExRecords
<1>15. ASSUME NEW j \in JobIds, RollupMark(j) \/ RollupFails(j) \/ PeekFails(j) \/ LoseWrites(j)
       PROVE  Kept
  BY <1>15, StopsWorking DEF RollupMark, RollupFails, PeekFails, LoseWrites
<1>16. ASSUME NEW j \in JobIds, CommitDoneUnacked(j) PROVE Kept
  BY <1>16, StopsWorking DEF CommitDoneUnacked, RecordDone
<1>17. ASSUME NEW j \in JobIds, Crash(j) PROVE Kept
  BY <1>17, LeavesOthers, AtRestType DEF Crash
<1>18. ASSUME NEW j \in JobIds, LoseJob(j) PROVE Kept
  BY <1>1, <1>18 DEF LoseJob
<1>19. ASSUME Reconcile PROVE Kept
  BY <1>1, <1>19 DEF Reconcile, Sweep, ReclaimLive, Requeued, OrphanRequeue, OrphanProbe
<1>20. ASSUME Request PROVE Kept
  BY <1>1, <1>20 DEF Request, Enqueue, CancelRun, SupersedeRun, RetryRead, RetryCommit,
       CancelStep, CancelScope, CancelSteps
<1>21. CASE UNCHANGED vars
  BY <1>1, <1>21 DEF vars
<1> QED
  BY <1>4, <1>5, <1>6, <1>7, <1>8, <1>9, <1>10, <1>11, <1>12, <1>13, <1>14, <1>15, <1>16,
     <1>17, <1>18, <1>19, <1>20, <1>21 DEF Next, Dispatch, Fault

\* Whatever crashes, stalls and is reclaimed, two executors never hold the same
\* attempt of one step: at most one of them can pass the fence of a commit.
THEOREM FenceHolds == Spec => []FencedOwnership
<1>1. Init => FencedOwnership
  BY AtRestType DEF Init, FencedOwnership, Working
<1>2. ASSUME TypeOK, TypeOK', FencedOwnership, [Next]_vars PROVE FencedOwnership'
  <2>1. CASE attempt' = attempt /\ \A i \in JobIds : KeepsHold(i)
    BY <1>2, <2>1 DEF FencedOwnership, KeepsHold
  <2>2. ASSUME NEW j \in JobIds, NEW s \in Steps, Claim(j, s) PROVE FencedOwnership'
    <3>1. /\ attempt' = [attempt EXCEPT ![s] = @ + 1]
          /\ ex'[j].step = s /\ ex'[j].held = attempt[s] + 1
          /\ \A i \in JobIds \ {j} : ex'[i] = ex[i]
      BY <1>2, <2>2 DEF Claim, Becomes, TypeOK, ExRecords
    <3>2. /\ attempt \in [Steps -> Nat]
          /\ \A i \in JobIds : ex[i].held \in Nat /\ (Working(i) => ex[i].step \in Steps)
      BY <1>2 DEF TypeOK, ExRecords
    <3> QED
      BY <1>2, <3>1, <3>2 DEF FencedOwnership, Working
  <2> QED
    BY <1>2, <2>1, <2>2, HoldMoves
<1> QED
  BY <1>1, <1>2, TypeCorrect, PTL DEF Spec

-----------------------------------------------------------------------------
(* Cancellation, and the refinement of StepLifecycle *)

\* Only a RetryStep revives a cancelled step: a late commit of its executor, a
\* stale heartbeat or a fan-in never does.
THEOREM CancelIsKept == Spec => CanceledStaysCanceled
<1>1. ASSUME FanInInv, [Next]_vars, NEW s \in Steps,
             status[s] = "canceled", status'[s] # "canceled"
      PROVE  s \in retrying
  <2>1. CASE SameRows \/ Claimed \/ Failed \/ Canceled
    BY <1>1, <2>1 DEF SameRows, Claimed, Failed, Canceled, Set, Active
  <2>2. CASE BackToQueue
    BY <1>1, <2>2 DEF BackToQueue, MayQueue, Set
  <2>3. CASE Completed
    BY <1>1, <2>3 DEF Completed, RecordDone, Ready
  <2>4. CASE Enqueued
    BY <1>1, <2>4 DEF Enqueued, Enqueue, StepsOf, FanInInv, AbsentTogether
  <2> QED
    BY <1>1, <2>1, <2>2, <2>3, <2>4, RowMoves DEF FanInInv
<1>2. FanInInv /\ [Next]_vars =>
        [\A s \in Steps : status[s] = "canceled" /\ status'[s] # "canceled" => s \in retrying]_vars
  BY <1>1
<1> QED
  BY <1>2, FanInInvariant, PTL DEF Spec, CanceledStaysCanceled

\* The engine implements the abstract life of a step.
THEOREM EngineImplementsLifecycle == Spec => ImplementsLifecycle
<1>1. Init => Lifecycle!Init
  BY DEF Init, Lifecycle!Init
<1>2. ASSUME FanInInv, FanInInv', [Next]_vars PROVE [Lifecycle!Next]_status
  <2>1. status' \in [Steps -> Lifecycle!StepStatus \cup {"absent"}]
    BY <1>2 DEF FanInInv, TypeOK, StepStatus, Active, Lifecycle!StepStatus
  <2>2. \A s \in Steps : Lifecycle!InputsReady(s, status')
    BY <1>2, DepsAssumption DEF FanInInv, DepsBeforeRun, Unmet, Lifecycle!InputsReady
  <2>3. \A s \in Steps : status'[s] = status[s] \/ Lifecycle!Moves(s, status[s], status'[s])
    <3> USE DEF Lifecycle!Moves, Lifecycle!CanTransition, Lifecycle!transitions
    <3>1. CASE SameRows
      BY <3>1 DEF SameRows
    <3>2. CASE Claimed \/ Failed \/ Canceled
      BY <3>2 DEF Claimed, Failed, Canceled, Set, Active
    <3>3. CASE BackToQueue
      BY <3>3 DEF BackToQueue, MayQueue, Retryable, Set
    <3>4. CASE Completed
      BY <3>4 DEF Completed, RecordDone, Ready
    <3>5. CASE Enqueued
      BY <1>2, <3>5 DEF Enqueued, Enqueue, StepsOf, FanInInv, AbsentTogether, Lifecycle!Created
    <3> QED
      BY <1>2, <3>1, <3>2, <3>3, <3>4, <3>5, RowMoves DEF FanInInv
  <2> QED
    BY <2>1, <2>2, <2>3 DEF Lifecycle!Next
<1> QED
  BY <1>1, <1>2, FanInInvariant, PTL DEF Spec, ImplementsLifecycle, Lifecycle!Spec

(***************************************************************************)
(* What the mark of a run says, and the tenant's quota, for any graph of   *)
(* steps and any faults as long as nobody retries a step by hand: a        *)
(* RetryStep reads the run without a lock, and TLC shows that it breaks    *)
(* StoppedRunIsQuiet; it also bypasses the quota.                          *)
(***************************************************************************)

NoRetry == budget["retry"] = 0 /\ retrying = {}

\* A run and its steps exist together.
Together == \A s \in Steps : status[s] = "absent" <=> runStatus[RunOf[s]] = "absent"

\* What a rollup in progress has read is still so.
RollupSound ==
    \A j \in JobIds :
        /\ ex[j].pc \in {"verdict", "mark"} => AllTerminal(RunAt(j))
        /\ ex[j].pc = "mark" =>
             /\ ex[j].verdict \in {"done", "failed"}
             /\ ex[j].verdict = "failed" <=> \E s \in StepsOf(RunAt(j)) : status[s] = "failed"

RunInv ==
    /\ NoRetry /\ Together /\ RollupSound
    /\ RunVerdictSound /\ StoppedRunIsQuiet /\ QuotaRespected

\* Only a request to retry spends the retry budget or adds to retrying.
LEMMA NoRetryKept == ASSUME TypeOK, NoRetry, [Next]_vars PROVE NoRetry'
<1> USE DEF NoRetry, TypeOK, FaultKinds
<1>1. ASSUME NEW k \in FaultKinds, Spend(k) PROVE budget'["retry"] = 0
  BY <1>1 DEF Spend
<1>2. ASSUME NEW j \in JobIds, StartJob(j) \/ Dispatch(j) \/ Rescue(j) PROVE NoRetry'
  BY <1>2 DEF StartJob, Rescue, Dispatch, Claim, Skip, CommitDone, RecordDone, CommitFailed, RequeueForRetry,
       CountOom, OomRequeue, OomFail, Discard, Cascade, RollupCount, RollupVerdict, RollupMark, FinishJob
<1>3. ASSUME NEW j \in JobIds, Fault(j) PROVE NoRetry'
  BY <1>1, <1>3 DEF Fault, SnoozeJob, PeekFails, CommitDoneUnacked, RecordDone,
       CommitDoneRequeued, LoseWrites, CascadeFails, RollupFails, Crash, LoseJob
<1>4. ASSUME Reconcile PROVE NoRetry'
  BY <1>1, <1>4 DEF Reconcile, Sweep, ReclaimLive, Requeued, OrphanRequeue, OrphanProbe
<1>5. ASSUME Request PROVE NoRetry'
  <2>1. ASSUME NEW s \in Steps, RetryRead(s) PROVE FALSE
    BY <2>1 DEF RetryRead, Spend
  <2>2. ASSUME NEW s \in Steps, RetryCommit(s) PROVE FALSE
    BY <2>2 DEF RetryCommit
  <2> QED
    BY <1>1, <1>5, <2>1, <2>2 DEF Request, Enqueue, CancelRun, SupersedeRun, CancelStep, CancelScope, CancelSteps
<1>6. CASE UNCHANGED vars
  BY <1>6 DEF vars
<1> QED
  BY <1>2, <1>3, <1>4, <1>5, <1>6 DEF Next

\* Without retries a terminal step stays as it is.
LEMMA TerminalKept ==
    ASSUME FanInInv, NoRetry, [Next]_vars, NEW s \in Steps, Terminal(status[s])
    PROVE  status'[s] = status[s]
<1> USE DEF Terminal
<1>1. CASE SameRows \/ Claimed \/ Failed \/ Canceled
  BY <1>1 DEF SameRows, Claimed, Failed, Canceled, Set, Active
<1>2. CASE BackToQueue
  BY <1>2 DEF BackToQueue, MayQueue, Set, NoRetry
<1>3. CASE Completed
  BY <1>3 DEF Completed, RecordDone, Ready
<1>4. CASE Enqueued
  BY <1>4 DEF Enqueued, Enqueue, StepsOf, FanInInv, AbsentTogether
<1> QED
  BY <1>1, <1>2, <1>3, <1>4, RowMoves DEF FanInInv

\* Only an Enqueue makes a step exist.
LEMMA ExistenceKept ==
    ASSUME FanInInv, [Next]_vars, ~Enqueued, NEW s \in Steps
    PROVE  status'[s] = "absent" <=> status[s] = "absent"
<1>1. CASE SameRows \/ Claimed \/ Failed \/ Canceled
  BY <1>1 DEF SameRows, Claimed, Failed, Canceled, Set, Active
<1>2. CASE BackToQueue
  BY <1>2 DEF BackToQueue, MayQueue, Retryable, Set
<1>3. CASE Completed
  BY <1>3 DEF Completed, RecordDone, Ready
<1> QED
  BY <1>1, <1>2, <1>3, RowMoves DEF FanInInv

\* Without retries and new runs, the active steps only become fewer.
LEMMA ActiveShrinks ==
    ASSUME FanInInv, NoRetry, [Next]_vars, ~Enqueued, NEW s \in Steps, status'[s] \in Active
    PROVE  status[s] \in Active
<1> USE DEF Active
<1>1. CASE SameRows \/ Claimed \/ Failed \/ Canceled
  BY <1>1 DEF SameRows, Claimed, Failed, Canceled, Set
<1>2. CASE BackToQueue
  BY <1>2 DEF BackToQueue, MayQueue, Set, NoRetry
<1>3. CASE Completed
  BY <1>3 DEF Completed, RecordDone, Ready
<1> QED
  BY <1>1, <1>2, <1>3, RowMoves DEF FanInInv

\* The quota check of Enqueue is enough.
LEMMA QuotaStep ==
    ASSUME FanInInv, NoRetry, QuotaRespected, [Next]_vars
    PROVE  QuotaRespected'
<1> DEFINE A == {s \in Steps : status[s] \in Active}
           B == {s \in Steps : status'[s] \in Active}
<1>1. IsFiniteSet(A) /\ IsFiniteSet(B) /\ Cardinality(A) \in Nat /\ Cardinality(B) \in Nat
  BY StepsAssumption, FS_Subset, FS_CardinalityType
<1>2. CASE ~Enqueued
  <2>1. B \subseteq A
    BY <1>2, ActiveShrinks
  <2>2. Cardinality(B) <= Cardinality(A)
    BY <1>1, <2>1, FS_Subset
  <2> QED
    BY <1>1, <2>2, LimitsAssumption DEF QuotaRespected
<1>3. CASE Enqueued
  <2>1. PICK r \in Runs : Enqueue(r)
    BY <1>3 DEF Enqueued
  <2> DEFINE S == StepsOf(r)
  <2>2. B \subseteq A \cup S
    BY <2>1 DEF Enqueue, StepsOf
  <2>3. S \subseteq Steps
    BY DEF StepsOf
  <2>4. IsFiniteSet(S) /\ IsFiniteSet(A \cup S) /\ Cardinality(S) \in Nat /\ Cardinality(A \cap S) \in Nat
    <3>1. IsFiniteSet(S)
      BY <2>3, StepsAssumption, FS_Subset
    <3>2. IsFiniteSet(A \cup S) /\ IsFiniteSet(A \cap S)
      BY <1>1, <3>1, FS_Union, FS_Subset
    <3> QED
      BY <3>1, <3>2, FS_CardinalityType
  <2>5. Cardinality(A \cup S) = Cardinality(A) + Cardinality(S) - Cardinality(A \cap S)
    BY <1>1, <2>4, FS_Union
  <2>6. Cardinality(B) <= Cardinality(A \cup S)
    BY <2>2, <2>4, FS_Subset
  <2>7. Cardinality(A) + Cardinality(S) <= MaxActive
    BY <2>1 DEF Enqueue, Admitted
  <2> HIDE DEF A, B, S
  <2>8. Cardinality(B) <= MaxActive
    BY <1>1, <2>4, <2>5, <2>6, <2>7, LimitsAssumption
  <2> QED
    BY <2>8 DEF QuotaRespected, B
<1> QED
  BY <1>2, <1>3

-----------------------------------------------------------------------------
(* The mark of a run *)

Stopped(r) ==
    /\ runStatus[r] = "active" /\ runStatus'[r] \in {"canceled", "superseded"}
    /\ \A s \in StepsOf(r) : status'[s] = IF status[s] \in Active THEN "canceled" ELSE status[s]

Marked(r) ==
    /\ status' = status /\ runStatus[r] = "active"
    /\ \E j \in JobIds : ex[j].pc = "mark" /\ RunAt(j) = r /\ runStatus'[r] = ex[j].verdict

\* The mark of a run changes when it is enqueued, stopped or rolled up.
LEMMA RunMoves ==
    ASSUME TypeOK, [Next]_vars, NEW r \in Runs
    PROVE  runStatus'[r] = runStatus[r] \/ Enqueue(r) \/ Stopped(r) \/ Marked(r)
<1> USE DEF TypeOK, rows
<1>1. ASSUME NEW j \in JobIds, RollupMark(j) PROVE runStatus'[r] = runStatus[r] \/ Marked(r)
  BY <1>1 DEF RollupMark, Marked, RunAt
<1>2. ASSUME NEW j \in JobIds, Dispatch(j), ~RollupMark(j) PROVE runStatus' = runStatus
  BY <1>2 DEF Dispatch, Claim, Skip, CommitDone, RecordDone, CommitFailed, RequeueForRetry,
       CountOom, OomRequeue, OomFail, Discard, Cascade, RollupCount, RollupVerdict, FinishJob
<1>3. ASSUME NEW j \in JobIds, StartJob(j) \/ Rescue(j) \/ Fault(j) PROVE runStatus' = runStatus
  BY <1>3 DEF StartJob, Rescue, Fault, SnoozeJob, PeekFails, CommitDoneUnacked, RecordDone,
       CommitDoneRequeued, LoseWrites, CascadeFails, RollupFails, Crash, LoseJob
<1>4. ASSUME Reconcile PROVE runStatus' = runStatus
  BY <1>4 DEF Reconcile, Sweep, ReclaimLive, Requeued, OrphanRequeue, OrphanProbe
<1>5. ASSUME NEW q \in Runs, CancelRun(q) PROVE runStatus'[r] = runStatus[r] \/ Stopped(r)
  BY <1>5 DEF CancelRun, CancelSteps, Set, Stopped, StepsOf
<1>6. ASSUME NEW old \in Runs, NEW new \in Runs, SupersedeRun(old, new)
      PROVE  runStatus'[r] = runStatus[r] \/ Stopped(r)
  BY <1>6 DEF SupersedeRun, CancelSteps, Set, Stopped, StepsOf
<1>7. ASSUME NEW q \in Runs, Enqueue(q) PROVE runStatus'[r] = runStatus[r] \/ Enqueue(r)
  BY <1>7 DEF Enqueue
<1>8. ASSUME NEW s \in Steps, RetryRead(s) \/ RetryCommit(s) \/ CancelStep(s) PROVE runStatus' = runStatus
  BY <1>8 DEF RetryRead, RetryCommit, CancelStep
<1>9. ASSUME NEW c \in Scopes, CancelScope(c) PROVE runStatus' = runStatus
  BY <1>9 DEF CancelScope
<1>10. CASE UNCHANGED vars
  BY <1>10 DEF vars
<1> QED
  BY <1>1, <1>2, <1>3, <1>4, <1>5, <1>6, <1>7, <1>8, <1>9, <1>10 DEF Next, Request

LEMMA TogetherStep ==
    ASSUME FanInInv, Together, [Next]_vars
    PROVE  Together'
<1> SUFFICES ASSUME NEW s \in Steps
             PROVE  status'[s] = "absent" <=> runStatus'[RunOf[s]] = "absent"
  BY DEF Together
<1>0. RunOf[s] \in Runs /\ TypeOK
  BY RunsAssumption DEF FanInInv
<1>1. CASE Enqueued
  <2>1. PICK r \in Runs : Enqueue(r)
    BY <1>1 DEF Enqueued
  <2> QED
    BY <1>0, <2>1 DEF Enqueue, Together, StepsOf, TypeOK
<1>2. CASE ~Enqueued
  <2>1. runStatus'[RunOf[s]] = "absent" <=> runStatus[RunOf[s]] = "absent"
    <3>1. ~Enqueue(RunOf[s])
      BY <1>0, <1>2 DEF Enqueued
    <3>2. \A j \in JobIds : ex[j].verdict # "absent"
      BY <1>0 DEF TypeOK, ExRecords
    <3> QED
      BY <1>0, <3>1, <3>2, RunMoves DEF Stopped, Marked
  <2> QED
    BY <1>2, <2>1, ExistenceKept DEF Together
<1> QED
  BY <1>1, <1>2

\* A rollup gets to its verdict from a count of none, and to its mark from a
\* read of the failed steps; every other step of an executor leaves both.
RollsUp(j) ==
    \/ ex'[j] = ex[j]
    \/ /\ ex'[j].pc = "verdict" /\ status' = status
       /\ ex'[j].step = ex[j].step /\ AllTerminal(RunAt(j))
    \/ /\ ex[j].pc = "verdict" /\ ex'[j].pc = "mark" /\ status' = status
       /\ ex'[j].step = ex[j].step
       /\ ex'[j].verdict = IF \E s \in StepsOf(RunAt(j)) : status[s] = "failed" THEN "failed" ELSE "done"
    \/ ex'[j].pc \notin {"verdict", "mark"}

LEMMA OthersRest ==
    ASSUME TypeOK, NEW j \in JobIds, NEW E, Becomes(j, E), E.pc \notin {"verdict", "mark"}
    PROVE  \A i \in JobIds : RollsUp(i)
BY DEF TypeOK, Becomes, RollsUp

LEMMA LoopsOn ==
    ASSUME TypeOK, NEW j \in JobIds, NEW failed, NextId(j, failed) \/ StopChunk(j) \/ Becomes(j, AtRest)
    PROVE  \A i \in JobIds : RollsUp(i)
<1>1. \A todo, err : Looping(todo, err).pc = "claim"
  BY DEF Looping
<1>2. PICK E : Becomes(j, E) /\ E.pc \notin {"verdict", "mark"}
  BY <1>1, AtRestType DEF NextId, StopChunk
<1> QED
  BY <1>2, OthersRest

LEMMA RollupMoves == ASSUME TypeOK, [Next]_vars PROVE \A i \in JobIds : RollsUp(i)
<1> DEFINE Kept == \A i \in JobIds : RollsUp(i)
<1> USE DEF rows
<1>1. ASSUME ex' = ex PROVE Kept
  BY <1>1 DEF RollsUp
<1>2. ASSUME NEW j \in JobIds PROVE ex[j] \in ExRecords
  BY DEF TypeOK
<1>3. ASSUME NEW j \in JobIds, StartJob(j) PROVE Kept
  <2>1. Looping(job[j].ids, FALSE).pc = "claim"
    BY DEF Looping
  <2> QED
    BY <1>3, <2>1, OthersRest DEF StartJob
<1>4. ASSUME NEW j \in JobIds, FinishJob(j) \/ Rescue(j) \/ SnoozeJob(j) PROVE Kept
  BY <1>4, LoopsOn DEF FinishJob, Rescue, SnoozeJob
<1>5. ASSUME NEW j \in JobIds, NEW s \in Steps, Claim(j, s) \/ Skip(j, s) PROVE Kept
  BY <1>2, <1>5, OthersRest DEF Claim, Skip, ExRecords
<1>6. ASSUME NEW j \in JobIds, CommitDone(j) \/ CommitFailed(j) \/ OomFail(j) PROVE Kept
  BY <1>2, <1>6, OthersRest DEF CommitDone, CommitFailed, OomFail, ExRecords
<1>7. ASSUME NEW j \in JobIds, RequeueForRetry(j) \/ OomRequeue(j) \/ CommitDoneRequeued(j) \/ CommitDoneUnacked(j)
      PROVE  Kept
  BY <1>7, LoopsOn DEF RequeueForRetry, OomRequeue, CommitDoneRequeued, CommitDoneUnacked
<1>8. ASSUME NEW j \in JobIds, CountOom(j) PROVE Kept
  BY <1>2, <1>8, OthersRest DEF CountOom, ExRecords
<1>9. ASSUME NEW j \in JobIds, Discard(j) \/ LoseWrites(j) \/ PeekFails(j) \/ RollupMark(j) \/ RollupFails(j) PROVE Kept
  BY <1>9, LoopsOn DEF Discard, LoseWrites, PeekFails, RollupMark, RollupFails
<1>10. ASSUME NEW j \in JobIds, Cascade(j) \/ CascadeFails(j) PROVE Kept
  BY <1>2, <1>10, OthersRest DEF Cascade, CascadeFails, ExRecords
<1>11. ASSUME NEW j \in JobIds, RollupCount(j) PROVE Kept
  <2>1. CASE \E s \in StepsOf(RunAt(j)) : ~Terminal(status[s])
    BY <1>11, <2>1, LoopsOn DEF RollupCount
  <2>2. CASE ~\E s \in StepsOf(RunAt(j)) : ~Terminal(status[s])
    BY <1>2, <1>11, <2>2 DEF RollupCount, Becomes, TypeOK, ExRecords, RollsUp, AllTerminal
  <2> QED
    BY <2>1, <2>2
<1>12. ASSUME NEW j \in JobIds, RollupVerdict(j) PROVE Kept
  BY <1>2, <1>12 DEF RollupVerdict, Becomes, TypeOK, ExRecords, RollsUp
<1>13. ASSUME NEW j \in JobIds, Crash(j) PROVE Kept
  BY <1>13, OthersRest, AtRestType DEF Crash
<1>14. ASSUME NEW j \in JobIds, LoseJob(j) PROVE Kept
  BY <1>1, <1>14 DEF LoseJob
<1>15. ASSUME Reconcile PROVE Kept
  BY <1>1, <1>15 DEF Reconcile, Sweep, ReclaimLive, Requeued, OrphanRequeue, OrphanProbe
<1>16. ASSUME Request PROVE Kept
  BY <1>1, <1>16 DEF Request, Enqueue, CancelRun, SupersedeRun, RetryRead, RetryCommit,
       CancelStep, CancelScope, CancelSteps
<1>17. CASE UNCHANGED vars
  BY <1>1, <1>17 DEF vars
<1> QED
  BY <1>3, <1>4, <1>5, <1>6, <1>7, <1>8, <1>9, <1>10, <1>11, <1>12, <1>13, <1>14, <1>15,
     <1>16, <1>17 DEF Next, Dispatch, Fault

LEMMA RollupStep ==
    ASSUME FanInInv, NoRetry, RollupSound, [Next]_vars
    PROVE  RollupSound'
<1> SUFFICES ASSUME NEW j \in JobIds
             PROVE  /\ ex'[j].pc \in {"verdict", "mark"} => AllTerminal(RunAt(j))'
                    /\ ex'[j].pc = "mark" =>
                         /\ ex'[j].verdict \in {"done", "failed"}
                         /\ ex'[j].verdict = "failed" <=> \E s \in StepsOf(RunAt(j)') : status'[s] = "failed"
  BY DEF RollupSound, StepsOf
<1>1. RollsUp(j)
  BY RollupMoves DEF FanInInv
<1>2. \A s \in Steps : Terminal(status[s]) => status'[s] = status[s]
  BY TerminalKept
<1>3. CASE ex'[j] = ex[j]
  <2>1. RunAt(j)' = RunAt(j)
    BY <1>3 DEF RunAt
  <2>2. ex[j].pc \in {"verdict", "mark"} => \A s \in StepsOf(RunAt(j)) : Terminal(status[s]) /\ status'[s] = status[s]
    BY <1>2 DEF RollupSound, AllTerminal, StepsOf
  <2> QED
    BY <1>3, <2>1, <2>2 DEF RollupSound, AllTerminal, StepsOf
<1>4. CASE ex'[j].pc = "verdict" /\ status' = status /\ ex'[j].step = ex[j].step /\ AllTerminal(RunAt(j))
  BY <1>4 DEF AllTerminal, RunAt, StepsOf
<1>5. CASE /\ ex[j].pc = "verdict" /\ ex'[j].pc = "mark" /\ status' = status
           /\ ex'[j].step = ex[j].step
           /\ ex'[j].verdict = IF \E s \in StepsOf(RunAt(j)) : status[s] = "failed" THEN "failed" ELSE "done"
  BY <1>5 DEF RollupSound, AllTerminal, RunAt, StepsOf
<1>6. CASE ex'[j].pc \notin {"verdict", "mark"}
  BY <1>6
<1> QED
  BY <1>1, <1>3, <1>4, <1>5, <1>6 DEF RollsUp

LEMMA VerdictStep ==
    ASSUME FanInInv, RunInv, [Next]_vars
    PROVE  RunVerdictSound' /\ StoppedRunIsQuiet'
<1> SUFFICES ASSUME NEW r \in Runs
             PROVE  /\ runStatus'[r] \in {"done", "failed"} =>
                         /\ \A s \in StepsOf(r) : Terminal(status'[s])
                         /\ runStatus'[r] = "failed" <=> \E s \in StepsOf(r) : status'[s] = "failed"
                    /\ runStatus'[r] \in {"canceled", "superseded"} =>
                         \A s \in StepsOf(r) : Terminal(status'[s])
  BY DEF RunVerdictSound, StoppedRunIsQuiet, StepsOf
<1> USE DEF RunInv
<1>0. TypeOK /\ StepsOf(r) \subseteq Steps
  BY DEF FanInInv, StepsOf
<1>1. \A s \in Steps : Terminal(status[s]) => status'[s] = status[s]
  BY TerminalKept
<1>2. CASE runStatus'[r] = runStatus[r]
  <2>1. runStatus[r] \in {"done", "failed", "canceled", "superseded"} =>
           \A s \in StepsOf(r) : Terminal(status[s]) /\ status'[s] = status[s]
    BY <1>0, <1>1 DEF RunVerdictSound, StoppedRunIsQuiet
  <2> QED
    BY <1>2, <2>1 DEF RunVerdictSound, StoppedRunIsQuiet
<1>3. CASE Enqueue(r)
  BY <1>0, <1>3 DEF Enqueue, TypeOK
<1>4. CASE Stopped(r)
  <2>1. \A s \in StepsOf(r) : status[s] # "absent" /\ status[s] \in StepStatus
    BY <1>0, <1>4 DEF Stopped, Together, StepsOf, TypeOK
  <2> QED
    BY <1>4, <2>1 DEF Stopped, Terminal, StepStatus
<1>5. CASE Marked(r)
  BY <1>5 DEF Marked, RollupSound, AllTerminal
<1> QED
  BY <1>0, <1>2, <1>3, <1>4, <1>5, RunMoves

LEMMA RunInvariant == Faults["retry"] = 0 => (Spec => []RunInv)
<1>1. Faults["retry"] = 0 /\ Init => RunInv
  <2> SUFFICES ASSUME Faults["retry"] = 0, Init PROVE RunInv
    OBVIOUS
  <2>1. {s \in Steps : status[s] \in Active} = {}
    BY DEF Init, Active
  <2>2. QuotaRespected
    BY <2>1, FS_EmptySet, LimitsAssumption DEF QuotaRespected
  <2>3. RollupSound
    BY AtRestType DEF Init, RollupSound
  <2> QED
    BY <2>2, <2>3, RunsAssumption DEF Init, RunInv, NoRetry, Together, RunVerdictSound, StoppedRunIsQuiet
<1>2. FanInInv /\ RunInv /\ [Next]_vars => RunInv'
  BY NoRetryKept, TogetherStep, RollupStep, VerdictStep, QuotaStep DEF FanInInv, RunInv
<1> QED
  BY <1>1, <1>2, FanInInvariant, PTL DEF Spec

\* The mark of a run is the truth about its steps, whatever crashes, cancels
\* and late commits surround the rollup's three statements (rollup.go).
THEOREM VerdictsAreSound == Faults["retry"] = 0 => (Spec => []RunVerdictSound)
BY RunInvariant, PTL DEF RunInv

\* A cancelled or superseded run has no step left to run (cancel.go).
THEOREM StoppedRunsAreQuiet == Faults["retry"] = 0 => (Spec => []StoppedRunIsQuiet)
BY RunInvariant, PTL DEF RunInv

\* The check under the admission lock keeps a tenant within its quota, for
\* every number of steps and runs (quota/check.go).
THEOREM QuotaIsKept == Faults["retry"] = 0 => (Spec => []QuotaRespected)
BY RunInvariant, PTL DEF RunInv


-----------------------------------------------------------------------------
(***************************************************************************)
(* The queue.  A job that returns an error on its last River attempt is    *)
(* gone, with the steps of its chunk it did not get to; so are the steps   *)
(* of a job lost with its worker.  Then sweepOrphanedQueued has work to    *)
(* do.  Without lost workers, jobs and database calls, and without a       *)
(* gpu_oom, which ends a chunk as well, every queued step has a job that   *)
(* will claim it.                                                          *)
(***************************************************************************)
Undisturbed ==
    /\ \A k \in {"crash", "db", "kill"} : Faults[k] = 0
    /\ "oom" \notin Outcomes \/ GpuSteps = {}

CalmBudget == \A k \in {"crash", "db", "kill"} : budget[k] = 0

\* The job has the step before it: it has not started, has not got to it, or
\* will be run again.
WillClaim(j, s) ==
    /\ s \in job[j].ids
    /\ \/ job[j].state = "available"
       \/ job[j].state = "running" /\ (s \in ex[j].todo \/ (ex[j].err /\ ~LastAttempt(j)))

\* An executor works the steps of its job, and is not in a place it gets to by
\* a crash or a gpu_oom only.
WorksItsChunk(j) ==
    /\ ex[j].pc \notin {"dead", "oomRequeue", "oomFail"}
    /\ ex[j].pc # "idle" => ex[j].todo \subseteq job[j].ids
    /\ Working(j) => ex[j].step \in job[j].ids

QueueInv ==
    /\ CalmBudget
    /\ \A j \in JobIds : WorksItsChunk(j)
    /\ \A s \in Steps : status[s] = "queued" => \E j \in JobIds : WillClaim(j, s)

\* A set of natural numbers has a least one; a finite one, a greatest.
LEMMA LeastExists ==
    ASSUME NEW V \in SUBSET Nat, V # {}
    PROVE  \E m \in V : \A k \in V : m <= k
<1> DEFINE R == {ss \in Nat \X Nat : ss[1] < ss[2]}
<1>1. IsWellFoundedOn(R, Nat)
  BY NatLessThanWellFounded DEF OpToRel
<1>2. \A k, m \in Nat : k < m => <<k, m>> \in R
  OBVIOUS
<1> HIDE DEF R
<1>3. PICK m \in V : \A k \in V : <<k, m>> \notin R
  BY <1>1, WFMin
<1>4. \A k \in V : ~(k < m)
  BY <1>2, <1>3
<1> QED  BY <1>4

LEMMA GreatestExists ==
    ASSUME NEW S \in SUBSET Nat, IsFiniteSet(S), S # {}
    PROVE  \E m \in S : \A k \in S : k <= m
<1> DEFINE above(x) == {y \in S : y > x}
           V == {Cardinality(above(x)) : x \in S}
<1>1. \A x \in S : IsFiniteSet(above(x)) /\ Cardinality(above(x)) \in Nat
  BY FS_Subset, FS_CardinalityType
<1>2. V \in SUBSET Nat /\ V # {}
  BY <1>1
<1>3. PICK v \in V : \A k \in V : v <= k
  BY <1>2, LeastExists
<1>4. PICK m \in S : v = Cardinality(above(m))
  BY <1>3
<1>5. ASSUME NEW k \in S, k > m PROVE FALSE
  <2>1. above(k) \subseteq above(m) \ {k} /\ k \in above(m)
    <3>1. \A y \in S : y \in Nat /\ (y > k => y > m /\ y # k)
      BY <1>5
    <3> QED  BY <1>5, <3>1
  <2>2. /\ IsFiniteSet(above(m) \ {k})
        /\ Cardinality(above(m) \ {k}) = Cardinality(above(m)) - 1
    BY <1>1, <2>1, FS_RemoveElement
  <2>3. Cardinality(above(k)) <= Cardinality(above(m)) - 1
    BY <2>1, <2>2, FS_Subset
  <2>4. Cardinality(above(k)) \in V /\ Cardinality(above(k)) \in Nat /\ Cardinality(above(m)) \in Nat
    BY <1>1
  <2>5. v <= Cardinality(above(k))
    BY <1>3, <2>4
  <2> HIDE DEF above
  <2> QED  BY <1>4, <2>3, <2>4, <2>5
<1> QED  BY <1>5

\* The ranks of a finite set of numbers are 0, 1, ... without a gap.
LEMMA RankIsBelow ==
    ASSUME NEW S \in SUBSET Nat, IsFiniteSet(S), NEW x \in S
    PROVE  Rank(x, S) \in Nat /\ Rank(x, S) < Cardinality(S)
<1> DEFINE L == {y \in S : y < x}
<1>1. L \subseteq S \ {x}
  OBVIOUS
<1>2. IsFiniteSet(S \ {x}) /\ Cardinality(S \ {x}) = Cardinality(S) - 1 /\ Cardinality(S) \in Nat
  BY FS_RemoveElement, FS_CardinalityType
<1>3. IsFiniteSet(L) /\ Cardinality(L) <= Cardinality(S) - 1 /\ Cardinality(L) \in Nat
  BY <1>1, <1>2, FS_Subset, FS_CardinalityType
<1> QED  BY <1>2, <1>3 DEF Rank

LEMMA RankIsTaken ==
    ASSUME NEW S \in SUBSET Nat, IsFiniteSet(S), NEW n \in Nat, n < Cardinality(S)
    PROVE  \E x \in S : Rank(x, S) = n
<1> DEFINE below(x) == {y \in S : y < x}
           T == {x \in S : Rank(x, S) >= n}
<1>1. Cardinality(S) \in Nat /\ S # {}
  BY FS_CardinalityType, FS_EmptySet
<1>2. T # {}
  <2>1. PICK m \in S : \A k \in S : k <= m
    BY <1>1, GreatestExists
  <2>2. below(m) = S \ {m}
    <3>1. \A k \in S : k < m <=> k # m
      BY <2>1
    <3> QED  BY <3>1
  <2>3. Rank(m, S) = Cardinality(S) - 1
    BY <2>2, FS_RemoveElement DEF Rank
  <2>4. m \in T
    BY <1>1, <2>3
  <2> QED  BY <2>4
<1>3. PICK x \in T : \A k \in T : x <= k
  BY <1>2, LeastExists
<1>4. Rank(x, S) \in Nat /\ Rank(x, S) = Cardinality(below(x)) /\ IsFiniteSet(below(x))
  BY RankIsBelow, FS_Subset DEF Rank
<1>5. ASSUME Rank(x, S) > n PROVE FALSE
  <2>1. below(x) # {}
    BY <1>4, <1>5, FS_EmptySet
  <2>2. PICK z \in below(x) : \A k \in below(x) : k <= z
    BY <1>4, <2>1, GreatestExists
  <2>3. below(z) = below(x) \ {z}
    <3>1. \A k \in S : k < z <=> k < x /\ k # z
      <4> SUFFICES ASSUME NEW k \in S PROVE k < z <=> k < x /\ k # z
        OBVIOUS
      <4>1. k \in Nat /\ z \in Nat /\ x \in Nat /\ z < x /\ (k < x => k <= z)
        BY <2>2
      <4> QED  BY <4>1
    <3> QED  BY <3>1
  <2>4. Cardinality(below(x) \ {z}) = Cardinality(below(x)) - 1
    BY <1>4, FS_RemoveElement
  <2>5. Rank(z, S) = Rank(x, S) - 1
    BY <1>4, <2>3, <2>4 DEF Rank
  <2>6. z \in T /\ z < x
    BY <1>4, <1>5, <2>2, <2>5
  <2> QED  BY <1>3, <2>6
<1> QED  BY <1>3, <1>4, <1>5

\* Every queued step gets a job: each chunk finds a slot of its own.
LEMMA EnqueueReadyGives ==
    ASSUME JobsOK, NEW Q \in SUBSET Steps, EnqueueReadySteps(Q)
    PROVE  /\ \A j \in JobIds : job[j].state # "free" => job'[j] = job[j]
           /\ \A s \in Q : \E j \in JobIds : job'[j].state = "available" /\ s \in job'[j].ids
<1>1. \A j \in JobIds : job[j].state # "free" => job'[j] = job[j]
  BY DEF EnqueueReadySteps, FreeJobs
<1>2. ASSUME NEW s \in Q PROVE \E j \in JobIds : job'[j].state = "available" /\ s \in job'[j].ids
  <2>1. Groups(Q) \in SUBSET Nat /\ Group[s] \in Groups(Q)
    BY GroupAssumption DEF Groups
  <2>2. IsFiniteSet(Q)
    BY StepsAssumption, FS_Subset
  <2>3. IsFiniteSet(Groups(Q))
    <3> DEFINE g == [t \in Q |-> Group[t]]
    <3>1. g \in Surjection(Q, Groups(Q))
      BY DEF Surjection, Groups
    <3> QED  BY <2>2, <3>1, FS_Surjection
  <2>4. FreeJobs \in SUBSET Nat /\ IsFiniteSet(FreeJobs) /\ FreeJobs \subseteq JobIds
    BY JobIdsAssumption, FS_Subset DEF FreeJobs
  <2>5. Rank(Group[s], Groups(Q)) \in Nat /\ Rank(Group[s], Groups(Q)) < Cardinality(Groups(Q))
    BY <2>1, <2>3, RankIsBelow
  <2>6. Rank(Group[s], Groups(Q)) < Cardinality(FreeJobs)
    BY <2>3, <2>4, <2>5, FS_CardinalityType DEF EnqueueReadySteps
  <2>7. PICK j \in FreeJobs : Rank(j, FreeJobs) = Rank(Group[s], Groups(Q))
    BY <2>4, <2>5, <2>6, RankIsTaken
  <2>8. s \in ChunkFor(j, Q)
    BY <2>7 DEF ChunkFor
  <2>9. job'[j] = [state |-> "available", ids |-> ChunkFor(j, Q), attempt |-> 0]
    BY <2>4, <2>8 DEF EnqueueReadySteps
  <2> QED  BY <2>4, <2>8, <2>9
<1> QED  BY <1>1, <1>2

\* Nobody gives a budget back.
LEMMA CalmBudgetKept == ASSUME TypeOK, CalmBudget, [Next]_vars PROVE CalmBudget'
<1> USE DEF CalmBudget, TypeOK, FaultKinds
<1>1. ASSUME NEW k \in FaultKinds, Spend(k) PROVE CalmBudget'
  BY <1>1 DEF Spend
<1>2. ASSUME budget' = budget PROVE CalmBudget'
  BY <1>2
<1>3. ASSUME NEW j \in JobIds, StartJob(j) \/ Dispatch(j) \/ Rescue(j) PROVE CalmBudget'
  BY <1>2, <1>3 DEF StartJob, Rescue, Dispatch, Claim, Skip, CommitDone, RecordDone, CommitFailed, RequeueForRetry,
       CountOom, OomRequeue, OomFail, Discard, Cascade, RollupCount, RollupVerdict, RollupMark, FinishJob
<1>4. ASSUME NEW j \in JobIds, Fault(j) PROVE CalmBudget'
  BY <1>1, <1>4 DEF Fault, SnoozeJob, PeekFails, CommitDoneUnacked, CommitDoneRequeued, LoseWrites,
       CascadeFails, RollupFails, Crash, LoseJob
<1>5. ASSUME Reconcile PROVE CalmBudget'
  BY <1>1, <1>2, <1>5 DEF Reconcile, Sweep, ReclaimLive, OrphanRequeue, OrphanProbe
<1>6. ASSUME Request PROVE CalmBudget'
  BY <1>1, <1>2, <1>6 DEF Request, Enqueue, CancelRun, SupersedeRun, CancelStep, CancelScope, RetryRead, RetryCommit
<1>7. CASE UNCHANGED vars
  BY <1>2, <1>7 DEF vars
<1> QED  BY <1>3, <1>4, <1>5, <1>6, <1>7 DEF Next

\* Jobs are inserted for the steps Q, if any; the live jobs stay.
Inserts(Q) == (job' = job /\ Q = {}) \/ EnqueueReadySteps(Q)

LEMMA InsertsGives ==
    ASSUME TypeOK, NEW Q \in SUBSET Steps, Inserts(Q)
    PROVE  /\ \A j \in JobIds : job[j].state # "free" => job'[j] = job[j]
           /\ \A s \in Q : \E j \in JobIds : job'[j].state = "available" /\ s \in job'[j].ids
<1>1. CASE job' = job /\ Q = {}
  BY <1>1
<1>2. CASE EnqueueReadySteps(Q)
  BY <1>2, TypeParts, EnqueueReadyGives
<1> QED  BY <1>1, <1>2 DEF Inserts

\* A step of an executor keeps the queue if it drops no queued step of its
\* chunk, keeps its error, and queues only what has a new job or its own.
LEMMA ExecutorKeepsQueue ==
    ASSUME TypeOK, QueueInv, CalmBudget', NEW j \in JobIds, NEW E \in ExRecords, Becomes(j, E),
           ex[j].pc # "idle", E.pc \notin {"idle", "dead", "oomRequeue", "oomFail"},
           E.todo \subseteq ex[j].todo, ex[j].err => E.err, E.pc # "claim" => E.step \in job[j].ids,
           NEW Q \in SUBSET Steps, Inserts(Q),
           \A s \in Steps : status'[s] = "queued" =>
               \/ status[s] = "queued" /\ (s \in ex[j].todo => s \in E.todo)
               \/ s \in job[j].ids /\ E.err /\ ~LastAttempt(j)
               \/ s \in Q
    PROVE  QueueInv'
<1>1. /\ ex'[j] = E /\ \A i \in JobIds : i # j => ex'[i] = ex[i]
      /\ \A i \in JobIds : ex[i].pc # "idle" => job[i].state = "running"
      /\ \A i \in JobIds : Working(i) => ex[i].pc # "idle"
  BY DEF TypeOK, Becomes, Working
<1>2. /\ \A i \in JobIds : job[i].state # "free" => job'[i] = job[i]
      /\ \A s \in Q : \E i \in JobIds : job'[i].state = "available" /\ s \in job'[i].ids
  BY InsertsGives
<1>3. ASSUME NEW i \in JobIds PROVE WorksItsChunk(i)'
  <2>1. WorksItsChunk(i)
    BY DEF QueueInv
  <2>2. CASE i = j
    BY <1>1, <1>2, <2>1, <2>2 DEF WorksItsChunk, Working
  <2>3. CASE i # j
    BY <1>1, <1>2, <2>1, <2>3 DEF WorksItsChunk, Working
  <2> QED  BY <2>2, <2>3
<1>4. ASSUME NEW s \in Steps, status'[s] = "queued" PROVE \E i \in JobIds : WillClaim(i, s)'
  <2>1. CASE status[s] = "queued" /\ (s \in ex[j].todo => s \in E.todo)
    <3>1. PICK i \in JobIds : WillClaim(i, s)
      BY <2>1 DEF QueueInv
    <3>2. job'[i] = job[i]
      BY <1>2, <3>1 DEF WillClaim
    <3>3. WillClaim(i, s)'
      BY <1>1, <2>1, <3>1, <3>2 DEF WillClaim, LastAttempt
    <3> QED  BY <3>3
  <2>2. CASE s \in job[j].ids /\ E.err /\ ~LastAttempt(j)
    <3>1. WillClaim(j, s)'
      BY <1>1, <1>2, <2>2 DEF WillClaim, LastAttempt
    <3> QED  BY <3>1
  <2>3. CASE s \in Q
    BY <1>2, <2>3 DEF WillClaim
  <2> QED  BY <1>4, <2>1, <2>2, <2>3
<1> QED  BY <1>3, <1>4 DEF QueueInv

\* So does a step from outside that queues only what has a new job.
LEMMA OutsideKeepsQueue ==
    ASSUME TypeOK, QueueInv, CalmBudget', ex' = ex, NEW Q \in SUBSET Steps, Inserts(Q),
           \A s \in Steps : status'[s] = "queued" => status[s] = "queued" \/ s \in Q
    PROVE  QueueInv'
<1>1. /\ \A i \in JobIds : ex[i].pc # "idle" => job[i].state = "running"
      /\ \A i \in JobIds : Working(i) => ex[i].pc # "idle"
  BY DEF TypeOK, Working
<1>2. /\ \A i \in JobIds : job[i].state # "free" => job'[i] = job[i]
      /\ \A s \in Q : \E i \in JobIds : job'[i].state = "available" /\ s \in job'[i].ids
  BY InsertsGives
<1>3. ASSUME NEW i \in JobIds PROVE WorksItsChunk(i)'
  BY <1>1, <1>2 DEF WorksItsChunk, Working, QueueInv
<1>4. ASSUME NEW s \in Steps, status'[s] = "queued" PROVE \E i \in JobIds : WillClaim(i, s)'
  <2>1. CASE status[s] = "queued"
    <3>1. PICK i \in JobIds : WillClaim(i, s)
      BY <2>1 DEF QueueInv
    <3>2. job'[i] = job[i]
      BY <1>2, <3>1 DEF WillClaim
    <3>3. WillClaim(i, s)'
      BY <3>1, <3>2 DEF WillClaim, LastAttempt
    <3> QED  BY <3>3
  <2>2. CASE s \in Q
    BY <1>2, <2>2 DEF WillClaim
  <2> QED  BY <1>4, <2>1, <2>2
<1> QED  BY <1>3, <1>4 DEF QueueInv

\* And the start, the end and the snooze of a job.
LEMMA PairKeepsQueue ==
    ASSUME TypeOK, QueueInv, CalmBudget', status' = status, NEW j \in JobIds, NEW J, NEW E,
           job' = [job EXCEPT ![j] = J], ex' = [ex EXCEPT ![j] = E],
           E.pc \in {"idle", "claim"}, E.pc = "claim" => E.todo \subseteq J.ids,
           \A s \in Steps : status[s] = "queued" /\ WillClaim(j, s) =>
               s \in J.ids /\ (J.state = "available" \/ (J.state = "running" /\ s \in E.todo))
    PROVE  QueueInv'
<1>1. /\ job'[j] = J /\ ex'[j] = E
      /\ \A i \in JobIds : i # j => job'[i] = job[i] /\ ex'[i] = ex[i]
  BY DEF TypeOK
<1>2. ASSUME NEW i \in JobIds PROVE WorksItsChunk(i)'
  BY <1>1 DEF WorksItsChunk, Working, QueueInv
<1>3. ASSUME NEW s \in Steps, status[s] = "queued" PROVE \E i \in JobIds : WillClaim(i, s)'
  <2>1. PICK i \in JobIds : WillClaim(i, s)
    BY <1>3 DEF QueueInv
  <2>2. WillClaim(i, s)'
    BY <1>1, <1>3, <2>1 DEF WillClaim, LastAttempt
  <2> QED  BY <2>2
<1> QED  BY <1>2, <1>3 DEF QueueInv

\* runOne returned: the loop goes on with the rest of the chunk.
LEMMA NextIdKeepsQueue ==
    ASSUME TypeOK, QueueInv, CalmBudget', NEW j \in JobIds, NEW failed \in BOOLEAN, NextId(j, failed),
           ex[j].pc # "idle", job' = job,
           \A s \in Steps : status'[s] = "queued" =>
               status[s] = "queued" \/ (s \in job[j].ids /\ failed /\ ~LastAttempt(j))
    PROVE  QueueInv'
<1> DEFINE e == ex[j].err \/ failed
           E == Looping(ex[j].todo, e)
<1>1. ex[j].todo \in SUBSET Steps /\ e \in BOOLEAN
  BY DEF TypeOK, ExRecords
<1>2. Becomes(j, E) /\ (failed => e) /\ (ex[j].err => e)
  BY DEF NextId
<1> HIDE DEF e
<1>3. E \in ExRecords /\ E.pc = "claim" /\ E.todo = ex[j].todo /\ E.err = e
  BY <1>1, LoopingType DEF Looping
<1> HIDE DEF E
<1>4. {} \in SUBSET Steps /\ Inserts({})
  BY DEF Inserts
<1> QED  BY <1>2, <1>3, <1>4, ExecutorKeepsQueue

LEMMA DispatchKeepsQueue ==
    ASSUME TypeOK, QueueInv, CalmBudget', Undisturbed, NEW j \in JobIds, Dispatch(j)
    PROVE  QueueInv'
<1>1. /\ ex[j] \in ExRecords /\ job[j] \in JobRecords /\ WorksItsChunk(j)
      /\ status \in [Steps -> StepStatus]
      /\ ex[j].pc # "idle" => job[j].state = "running"
      /\ Working(j) => ex[j].step \in Steps
  BY DEF TypeOK, QueueInv
<1>2. {} \in SUBSET Steps /\ (job' = job => Inserts({}))
  BY DEF Inserts
<1>3. ~Result(j, "oom") /\ ex[j].pc \notin {"oomRequeue", "oomFail"}
  BY <1>1 DEF Result, Class, Undisturbed, WorksItsChunk, Working
<1>4. ASSUME NEW s \in Steps, Claim(j, s) PROVE QueueInv'
  <2> DEFINE E == [ex[j] EXCEPT !.pc = "work", !.step = s, !.held = attempt[s] + 1, !.todo = ex[j].todo \ {s}]
  <2>1. attempt[s] + 1 \in Nat /\ Becomes(j, E) /\ ex[j].pc = "claim" /\ job' = job /\ s \in job[j].ids
    BY <1>1, <1>4 DEF TypeOK, Claim, WorksItsChunk
  <2>2. /\ E \in ExRecords /\ E.pc = "work" /\ E.step = s /\ E.todo = ex[j].todo \ {s} /\ E.err = ex[j].err
    BY <1>1, <2>1 DEF ExRecords, PCs
  <2> HIDE DEF E
  <2>3. \A t \in Steps : status'[t] = "queued" => status[t] = "queued" /\ t # s
    BY <1>1, <1>4 DEF Claim
  <2> QED  BY <1>2, <2>1, <2>2, <2>3, ExecutorKeepsQueue
<1>5. ASSUME NEW s \in Steps, Skip(j, s) PROVE QueueInv'
  <2> DEFINE E == [ex[j] EXCEPT !.todo = ex[j].todo \ {s}]
  <2>1. Becomes(j, E) /\ ex[j].pc = "claim" /\ job' = job /\ status' = status /\ status[s] # "queued"
    BY <1>5 DEF Skip, rows
  <2>2. E \in ExRecords /\ E.pc = "claim" /\ E.todo = ex[j].todo \ {s} /\ E.err = ex[j].err
    BY <1>1, <2>1 DEF ExRecords, PCs
  <2> HIDE DEF E
  <2> QED  BY <1>2, <2>1, <2>2, ExecutorKeepsQueue
<1>6. ASSUME CommitDone(j) PROVE QueueInv'
  <2> DEFINE E == [ex[j] EXCEPT !.pc = "count"]
             Q == Ready(ex[j].step)
  <2>1. Becomes(j, E) /\ ex[j].pc = "work" /\ ex[j].step \in job[j].ids /\ Q \in SUBSET Steps /\ Inserts(Q)
    BY <1>1, <1>6 DEF CommitDone, RecordDone, Result, Ready, Dependents, Inserts, WorksItsChunk, Working
  <2>2. E \in ExRecords /\ E.pc = "count" /\ E.step = ex[j].step /\ E.todo = ex[j].todo /\ E.err = ex[j].err
    BY <1>1 DEF ExRecords, PCs
  <2>3. \A t \in Steps : status'[t] = "queued" => status[t] = "queued" \/ t \in Q
    BY <1>6 DEF CommitDone, RecordDone
  <2> HIDE DEF E, Q
  <2> QED  BY <2>1, <2>2, <2>3, ExecutorKeepsQueue
<1>7. ASSUME CommitFailed(j) PROVE QueueInv'
  <2> DEFINE F == {ex[j].step}
             E == [ex[j] EXCEPT !.pc = "cascade", !.frontier = F]
  <2>1. /\ Becomes(j, E) /\ ex[j].pc = "work" /\ ex[j].step \in job[j].ids /\ job' = job
        /\ F \in SUBSET Steps
    BY <1>1, <1>7 DEF CommitFailed, Result, WorksItsChunk, Working
  <2> HIDE DEF F
  <2>2. E \in ExRecords /\ E.pc = "cascade" /\ E.step = ex[j].step /\ E.todo = ex[j].todo /\ E.err = ex[j].err
    BY <1>1, <2>1 DEF ExRecords, PCs
  <2>3. \A t \in Steps : status'[t] = "queued" => status[t] = "queued"
    BY <1>7 DEF CommitFailed, Set
  <2> HIDE DEF E
  <2> QED  BY <1>2, <2>1, <2>2, <2>3, ExecutorKeepsQueue
<1>8. ASSUME RequeueForRetry(j) PROVE QueueInv'
  <2>1. /\ NextId(j, TRUE) /\ ex[j].pc = "work" /\ ex[j].step \in job[j].ids /\ job' = job /\ ~LastAttempt(j)
        /\ \A t \in Steps : status'[t] = "queued" => status[t] = "queued" \/ t = ex[j].step
    BY <1>1, <1>8 DEF RequeueForRetry, Requeue, Set, Result, WorksItsChunk, Working
  <2> QED  BY <2>1, NextIdKeepsQueue
<1>9. ASSUME Discard(j) PROVE QueueInv'
  <2>1. /\ ex[j].pc # "idle" /\ job' = job /\ status' = status
        /\ \E b \in BOOLEAN : NextId(j, b)
    BY <1>3, <1>9 DEF Discard, rows, LastAttempt
  <2> QED  BY <2>1, NextIdKeepsQueue
<1>10. ASSUME Cascade(j) PROVE QueueInv'
  <2> DEFINE F == {d \in Dependents(ex[j].frontier) : status[d] = "pending"}
             p == IF F = {} THEN "count" ELSE "cascade"
             E == [ex[j] EXCEPT !.frontier = F, !.pc = p]
  <2>1. /\ Becomes(j, E) /\ ex[j].pc = "cascade" /\ ex[j].step \in job[j].ids /\ job' = job
        /\ F \in SUBSET Steps /\ p \in {"count", "cascade"}
    BY <1>1, <1>10 DEF Cascade, WorksItsChunk, Working, Dependents
  <2>2. \A t \in Steps : status'[t] = "queued" => status[t] = "queued"
    BY <1>10 DEF Cascade, Set
  <2> HIDE DEF F, p
  <2>3. E \in ExRecords /\ E.pc = p /\ E.step = ex[j].step /\ E.todo = ex[j].todo /\ E.err = ex[j].err
    BY <1>1, <2>1 DEF ExRecords, PCs
  <2> HIDE DEF E
  <2> QED  BY <1>2, <2>1, <2>2, <2>3, ExecutorKeepsQueue
<1>11. ASSUME RollupCount(j) PROVE QueueInv'
  <2> DEFINE E == [ex[j] EXCEPT !.pc = "verdict"]
  <2>1. /\ NextId(j, FALSE) \/ Becomes(j, E)
        /\ ex[j].pc = "count" /\ ex[j].step \in job[j].ids /\ job' = job /\ status' = status
    BY <1>1, <1>11 DEF RollupCount, WorksItsChunk, Working, rows
  <2>2. E \in ExRecords /\ E.pc = "verdict" /\ E.step = ex[j].step /\ E.todo = ex[j].todo /\ E.err = ex[j].err
    BY <1>1 DEF ExRecords, PCs
  <2> HIDE DEF E
  <2>3. CASE NextId(j, FALSE)
    BY <2>1, <2>3, NextIdKeepsQueue
  <2>4. CASE Becomes(j, E)
    BY <1>2, <2>1, <2>2, <2>4, ExecutorKeepsQueue
  <2> QED  BY <2>1, <2>3, <2>4
<1>12. ASSUME RollupVerdict(j) PROVE QueueInv'
  <2>1. PICK v \in {"failed", "done"} : Becomes(j, [ex[j] EXCEPT !.pc = "mark", !.verdict = v])
    BY <1>12 DEF RollupVerdict
  <2> DEFINE E == [ex[j] EXCEPT !.pc = "mark", !.verdict = v]
  <2>2. ex[j].pc = "verdict" /\ ex[j].step \in job[j].ids /\ job' = job /\ status' = status
    BY <1>1, <1>12 DEF RollupVerdict, WorksItsChunk, Working, rows
  <2>3. E \in ExRecords /\ E.pc = "mark" /\ E.step = ex[j].step /\ E.todo = ex[j].todo /\ E.err = ex[j].err
    BY <1>1 DEF ExRecords, PCs
  <2>4. Becomes(j, E)
    BY <2>1
  <2> HIDE DEF E
  <2> QED  BY <1>2, <2>2, <2>3, <2>4, ExecutorKeepsQueue
<1>13. ASSUME RollupMark(j) PROVE QueueInv'
  BY <1>13, NextIdKeepsQueue DEF RollupMark, rows
<1>14. ASSUME FinishJob(j) PROVE QueueInv'
  <2> DEFINE J == IF ex[j].err THEN RetryOrDiscard(j) ELSE NoJob
  <2>1. /\ job' = [job EXCEPT ![j] = J] /\ ex' = [ex EXCEPT ![j] = AtRest] /\ status' = status
        /\ ex[j].pc = "claim" /\ ex[j].todo = {} /\ job[j].state = "running"
    BY <1>1, <1>14 DEF FinishJob, Becomes, rows
  <2>2. ASSUME NEW s \in Steps, WillClaim(j, s) PROVE s \in J.ids /\ J.state = "available"
    <3>1. ex[j].err /\ ~LastAttempt(j) /\ s \in job[j].ids
      BY <2>1, <2>2 DEF WillClaim
    <3>2. J = JobRow(j, "available", job[j].attempt)
      BY <3>1 DEF RetryOrDiscard
    <3> QED  BY <3>1, <3>2 DEF JobRow
  <2> HIDE DEF J
  <2> QED  BY <2>1, <2>2, AtRestType, PairKeepsQueue
<1>15. ~CountOom(j) /\ ~OomRequeue(j) /\ ~OomFail(j)
  BY <1>3 DEF CountOom, OomRequeue, OomFail
<1> QED  BY <1>4, <1>5, <1>6, <1>7, <1>8, <1>9, <1>10, <1>11, <1>12, <1>13, <1>14, <1>15 DEF Dispatch

LEMMA QueueInvKept ==
    ASSUME TypeOK, QueueInv, Undisturbed, [Next]_vars
    PROVE  QueueInv'
<1>0. CalmBudget' /\ CalmBudget
  BY CalmBudgetKept DEF QueueInv
<1>1. ASSUME NEW j \in JobIds, StartJob(j) PROVE QueueInv'
  <2> DEFINE J == JobRow(j, "running", job[j].attempt + 1)
             E == Looping(job[j].ids, FALSE)
  <2>1. job' = [job EXCEPT ![j] = J] /\ ex' = [ex EXCEPT ![j] = E] /\ status' = status
    BY <1>1 DEF StartJob, Becomes, rows
  <2>2. J.ids = job[j].ids /\ J.state = "running" /\ E.pc = "claim" /\ E.todo = job[j].ids
    BY DEF JobRow, Looping
  <2> HIDE DEF J, E
  <2>3. \A s \in Steps : WillClaim(j, s) => s \in job[j].ids
    BY DEF WillClaim
  <2> QED  BY <1>0, <2>1, <2>2, <2>3, PairKeepsQueue
<1>2. ASSUME NEW j \in JobIds, Fault(j) PROVE QueueInv'
  <2>1. ~Spend("db") /\ ~Spend("crash") /\ ~Spend("kill")
    BY <1>0 DEF CalmBudget, Spend
  <2>2. SnoozeJob(j)
    BY <1>2, <2>1 DEF Fault, PeekFails, CommitDoneUnacked, CommitDoneRequeued, LoseWrites, CascadeFails,
         RollupFails, Crash, LoseJob
  <2> DEFINE J == JobRow(j, "available", job[j].attempt - 1)
  <2>3. job' = [job EXCEPT ![j] = J] /\ ex' = [ex EXCEPT ![j] = AtRest] /\ status' = status
    BY <2>2 DEF SnoozeJob, Becomes, rows
  <2>4. J.ids = job[j].ids /\ J.state = "available"
    BY DEF JobRow
  <2> HIDE DEF J
  <2>5. \A s \in Steps : WillClaim(j, s) => s \in job[j].ids
    BY DEF WillClaim
  <2> QED  BY <1>0, <2>3, <2>4, <2>5, AtRestType, PairKeepsQueue
<1>3. ASSUME NEW j \in JobIds, Rescue(j) PROVE FALSE
  BY <1>3 DEF Rescue, QueueInv, WorksItsChunk
<1>4. ASSUME ex' = ex, job' = job, \A s \in Steps : status'[s] = "queued" => status[s] = "queued" PROVE QueueInv'
  <2>1. {} \in SUBSET Steps /\ Inserts({})
    BY <1>4 DEF Inserts
  <2> QED  BY <1>0, <1>4, <2>1, OutsideKeepsQueue
<1>5. ASSUME ex' = ex, NEW Q \in SUBSET Steps, EnqueueReadySteps(Q),
             \A s \in Steps : status'[s] = "queued" => status[s] = "queued" \/ s \in Q
      PROVE  QueueInv'
  <2>1. Inserts(Q)
    BY <1>5 DEF Inserts
  <2> QED  BY <1>0, <1>5, <2>1, OutsideKeepsQueue
<1>6. ASSUME NEW S \in SUBSET Steps, Requeued(S) PROVE QueueInv'
  BY <1>5, <1>6 DEF Requeued, Set
<1>7. ASSUME Reconcile PROVE QueueInv'
  <2>1. ASSUME NEW w \in Reconcilers, OrphanRequeue(w) PROVE QueueInv'
    <3> DEFINE s == probing[w]
    <3>1. s \in Steps /\ ex' = ex /\ status' = status
      BY <2>1 DEF OrphanRequeue, TypeOK
    <3>2. CASE status[s] = "queued"
      BY <1>5, <2>1, <3>1, <3>2 DEF OrphanRequeue
    <3>3. CASE status[s] # "queued"
      BY <1>4, <2>1, <3>1, <3>3 DEF OrphanRequeue
    <3> QED  BY <3>2, <3>3
  <2>2. ASSUME NEW w \in Reconcilers, NEW s \in Steps, OrphanProbe(w, s) PROVE QueueInv'
    BY <1>4, <2>2 DEF OrphanProbe, rows
  <2> QED  BY <1>6, <1>7, <2>1, <2>2 DEF Reconcile, Sweep, ReclaimLive
<1>8. ASSUME Request PROVE QueueInv'
  <2>1. ASSUME NEW r \in Runs, Enqueue(r) PROVE QueueInv'
    <3> DEFINE Q == {s \in StepsOf(r) : Deps[s] = {}}
    <3>1. /\ Q \in SUBSET Steps /\ ex' = ex /\ EnqueueReadySteps(Q)
          /\ \A s \in Steps : status'[s] = "queued" => status[s] = "queued" \/ s \in Q
      BY <2>1 DEF Enqueue, StepsOf
    <3> QED  BY <1>5, <3>1
  <2>2. ASSUME NEW S, CancelSteps(S) PROVE QueueInv'
    BY <1>4, <2>2 DEF CancelSteps, Set
  <2>3. ASSUME NEW s \in Steps, RetryRead(s) PROVE QueueInv'
    BY <1>4, <2>3 DEF RetryRead, rows
  <2>4. ASSUME NEW s \in Steps, RetryCommit(s) PROVE QueueInv'
    <3>1. CASE Retryable(s)
      BY <1>5, <2>4, <3>1 DEF RetryCommit, Set
    <3>2. CASE ~Retryable(s)
      BY <1>4, <2>4, <3>2 DEF RetryCommit
    <3> QED  BY <3>1, <3>2
  <2> QED  BY <1>8, <2>1, <2>2, <2>3, <2>4 DEF Request, CancelRun, SupersedeRun, CancelStep, CancelScope
<1>9. CASE UNCHANGED vars
  BY <1>4, <1>9 DEF vars, rows
<1> QED  BY <1>0, <1>1, <1>2, <1>3, <1>7, <1>8, <1>9, DispatchKeepsQueue DEF Next

\* However stalls, snoozes, transient failures, cancels and retries fall: as
\* long as no worker, job or database call is lost and no step runs out of
\* VRAM, a queued step has a job that will claim it, and the sweep of orphaned
\* steps finds none (dispatcher.go, enqueue_jobs.go, reconciler.go).
THEOREM QueuedStepsHaveJobs == Undisturbed => (Spec => []QueuedHasJob)
<1> SUFFICES ASSUME Undisturbed PROVE Spec => []QueuedHasJob
  OBVIOUS
<1>1. Init => QueueInv
  BY AtRestType DEF Undisturbed, Init, QueueInv, CalmBudget, WorksItsChunk, Working
<1>2. TypeOK /\ QueueInv /\ [Next]_vars => QueueInv'
  BY QueueInvKept
<1>3. QueueInv => QueuedHasJob
  BY DEF QueueInv, QueuedHasJob, HasLiveRiverJob, WillClaim
<1> QED  BY <1>1, <1>2, <1>3, TypeCorrect, PTL DEF Spec
=============================================================================
