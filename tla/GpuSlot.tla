------------------------------ MODULE GpuSlot ------------------------------
(***************************************************************************)
(* The single GPU: the executor of the gpu queue (pipeline/gpu_executor.go)*)
(* takes a session advisory lock of Postgres, lets a watchdog ping the     *)
(* connection that holds it, prefers jobs of the resident model, and asks  *)
(* the residency manager (providers/residency) to load the model of its    *)
(* job before the steps of the job are claimed.                            *)
(*                                                                         *)
(* The database, the network and the model backends are external.  What    *)
(* happens to a step once claimed is the business of PipelineEngine; here  *)
(* a step is queued, running or done.                                      *)
(***************************************************************************)
EXTENDS Naturals, FiniteSets

CONSTANTS
    Procs,        \* worker processes with the gpu queue; MaxWorkers is 1 there
    Jobs,         \* the jobs of the gpu queue, all of one priority
    Models,       \* "backend:model" references
    Backends,     \* the services that hold models
    None,         \* no model, no job
    Target,       \* Target[j]: the model of job j, None for a models.unload job
    BackendOf,    \* BackendOf[m]
    MaxSnoozes,   \* maxResidentPreferenceSnoozes
    Faults        \* how many faults of each kind may happen

FaultKinds == {"drop", "crash", "oom", "error"}

ASSUME GpuAssumption ==
    /\ None \notin Models \cup Jobs
    /\ Procs \cap {"free", "ghost"} = {}
    /\ Target \in [Jobs -> Models \cup {None}]
    /\ BackendOf \in [Models -> Backends]
    /\ MaxSnoozes \in Nat
    /\ Faults \in [FaultKinds -> Nat]

VARIABLES
    step,      \* step[j]: the status of the steps of job j
    pc,        \* pc[p]: where Run is in process p
    cur,       \* cur[p]: the job p works
    lock,      \* who holds the advisory lock: a process, "free", or "ghost",
               \* a session whose client is gone and which Postgres keeps
    conn,      \* conn[p]: the lock connection of p, "lost" when it broke
    canceled,  \* canceled[p]: the watchdog cancelled the context of the job
    snoozes,   \* snoozes[p][j]: GPUExecutor.snoozes
    current,   \* current[p]: Manager.current
    todo,      \* todo[p]: the backends unloadAllLocked has still to unload
    loaded,    \* the models that really are on the GPU
    budget     \* the faults still allowed

vars == <<step, pc, cur, lock, conn, canceled, snoozes, current, todo, loaded, budget>>

PCs == {"down", "idle", "try", "prefer", "ensure", "unload", "load",
        "prove", "dispatch", "work", "unloadAll", "unlock"}

\* Between the advisory lock and its release.
Holding == {"prefer", "ensure", "unload", "load", "prove", "dispatch", "work", "unloadAll", "unlock"}

TargetOf(p) == Target[cur[p]]
Spend(k) == budget[k] > 0 /\ budget' = [budget EXCEPT ![k] = @ - 1]
Goto(p, l) == pc' = [pc EXCEPT ![p] = l]

\* No process has a job, and nothing is loaded.
AllIdle ==
    /\ pc = [p \in Procs |-> "idle"]
    /\ cur = [p \in Procs |-> None]
    /\ lock = "free"
    /\ conn = [p \in Procs |-> "none"]
    /\ canceled = [p \in Procs |-> FALSE]
    /\ snoozes = [p \in Procs |-> [j \in Jobs |-> 0]]
    /\ current = [p \in Procs |-> None]
    /\ todo = [p \in Procs |-> {}]
    /\ loaded = {}

Init == AllIdle /\ step = [j \in Jobs |-> "queued"] /\ budget = Faults

\* River hands a waiting job to the one gpu worker of a process.
Fetch(p, j) ==
    /\ pc[p] = "idle" /\ step[j] = "queued"
    /\ \A q \in Procs : cur[q] # j
    /\ cur' = [cur EXCEPT ![p] = j]
    /\ Goto(p, "try")
    /\ UNCHANGED <<step, lock, conn, canceled, snoozes, current, todo, loaded, budget>>

-----------------------------------------------------------------------------
(* Run: the lock, its watchdog and its release *)

Locked(p) ==
    /\ lock' = p
    /\ conn' = [conn EXCEPT ![p] = "up"]
    /\ Goto(p, "prefer")
    /\ UNCHANGED <<step, cur, canceled, snoozes, current, todo, loaded, budget>>

TryLock(p) == pc[p] = "try" /\ lock = "free" /\ Locked(p)

\* The lock is taken: the snooze count of the job is dropped, River snoozes it.
MissLock(p) ==
    /\ pc[p] = "try" /\ lock # "free"
    /\ snoozes' = [snoozes EXCEPT ![p][cur[p]] = 0]
    /\ cur' = [cur EXCEPT ![p] = None]
    /\ Goto(p, "idle")
    /\ UNCHANGED <<step, lock, conn, canceled, current, todo, loaded, budget>>

\* No connection, or the query for the lock fails: pgx closes a connection whose
\* query was cut off, and the lock goes when Postgres notices.
TryFails(p) ==
    /\ pc[p] = "try" /\ Spend("error")
    /\ \/ UNCHANGED lock
       \/ lock = "free" /\ lock' = "ghost"
    /\ cur' = [cur EXCEPT ![p] = None]
    /\ Goto(p, "idle")
    /\ UNCHANGED <<step, conn, canceled, snoozes, current, todo, loaded>>

\* The lock connection breaks.  Postgres ends its session, and with it the
\* lock, at once or when it notices.
Drop(p) ==
    /\ pc[p] \in Holding /\ conn[p] = "up"
    /\ Spend("drop")
    /\ conn' = [conn EXCEPT ![p] = "lost"]
    /\ lock' \in {"free", "ghost"}
    /\ UNCHANGED <<step, pc, cur, canceled, snoozes, current, todo, loaded>>

Reap ==
    /\ lock = "ghost"
    /\ lock' = "free"
    /\ UNCHANGED <<step, pc, cur, conn, canceled, snoozes, current, todo, loaded, budget>>

\* watchLockConnection: a ping fails and the context of the job is cancelled.
Watchdog(p) ==
    /\ pc[p] \in Holding /\ conn[p] = "lost" /\ ~canceled[p]
    /\ canceled' = [canceled EXCEPT ![p] = TRUE]
    /\ UNCHANGED <<step, pc, cur, lock, conn, snoozes, current, todo, loaded, budget>>

Released(p) ==
    /\ conn' = [conn EXCEPT ![p] = "none"]
    /\ canceled' = [canceled EXCEPT ![p] = FALSE]
    /\ cur' = [cur EXCEPT ![p] = None]
    /\ Goto(p, "idle")
    /\ UNCHANGED <<step, snoozes, current, todo, loaded>>

\* pg_advisory_unlock on a live connection, which returns to the pool.
Unlock(p) ==
    /\ pc[p] = "unlock" /\ conn[p] = "up"
    /\ lock' = "free"
    /\ Released(p)
    /\ UNCHANGED budget

\* Mutant: the connection goes back to the pool, its session keeps the lock.
UnlockFailsPooled(p) ==
    /\ pc[p] = "unlock"
    /\ \/ conn[p] = "lost" /\ UNCHANGED <<lock, budget>>
       \/ conn[p] = "up" /\ Spend("error") /\ UNCHANGED lock
    /\ Released(p)

\* The unlock fails: the connection is hijacked and closed.
UnlockFails(p) ==
    /\ pc[p] = "unlock"
    /\ \/ conn[p] = "lost" /\ UNCHANGED <<lock, budget>>
       \/ conn[p] = "up" /\ Spend("error") /\ lock' \in {"free", "ghost"}
    /\ Released(p)

-----------------------------------------------------------------------------
(* preferResident *)

\* Another job of the resident model waits.
ResidentWaits(p) ==
    \E k \in Jobs : k # cur[p] /\ step[k] = "queued" /\ Target[k] = current[p]

\* Mutant: no bound on the deferrals.
PrefersAlways(p) ==
    current[p] # None /\ TargetOf(p) # current[p] /\ ResidentWaits(p)

Prefers(p) ==
    /\ current[p] # None /\ TargetOf(p) # current[p]
    /\ snoozes[p][cur[p]] < MaxSnoozes
    /\ ResidentWaits(p)

Defer(p) ==
    /\ pc[p] = "prefer" /\ Prefers(p)
    /\ snoozes' = [snoozes EXCEPT ![p][cur[p]] = @ + 1]
    /\ Goto(p, "unlock")
    /\ UNCHANGED <<step, cur, lock, conn, canceled, current, todo, loaded, budget>>

Proceed(p) ==
    /\ pc[p] = "prefer" /\ ~Prefers(p)
    /\ snoozes' = [snoozes EXCEPT ![p][cur[p]] = 0]
    /\ Goto(p, IF TargetOf(p) = None THEN "dispatch" ELSE "ensure")
    /\ UNCHANGED <<step, cur, lock, conn, canceled, current, todo, loaded, budget>>

\* PeekSteps, the count or the handler's ModelRef fails.
PeekFails(p) ==
    /\ pc[p] \in {"prefer", "ensure"} /\ Spend("error")
    /\ Goto(p, "unlock")
    /\ UNCHANGED <<step, cur, lock, conn, canceled, snoozes, current, todo, loaded>>

-----------------------------------------------------------------------------
(* Manager.Ensure *)

\* Mutant: trusts Manager.current without asking the backend.
ResidentByCurrent(p) == current[p] = TargetOf(p)

Resident(p) == current[p] = TargetOf(p) /\ TargetOf(p) \in loaded

EnsureHit(p) ==
    /\ pc[p] = "ensure" /\ Resident(p) /\ ~canceled[p]
    /\ Goto(p, "dispatch")
    /\ UNCHANGED <<step, cur, lock, conn, canceled, snoozes, current, todo, loaded, budget>>

ToUnload(p) == Backends

EnsureMiss(p) ==
    /\ pc[p] = "ensure" /\ (~Resident(p) \/ canceled[p])
    /\ todo' = [todo EXCEPT ![p] = ToUnload(p)]
    /\ Goto(p, "unload")
    /\ UNCHANGED <<step, cur, lock, conn, canceled, snoozes, current, loaded, budget>>

\* handleGPUOOM unloads under a detached context; Ensure and UnloadStep do not.
Detached(p) == pc[p] = "unloadAll" /\ TargetOf(p) # None

\* unloadAllLocked: a backend that cannot be reached counts as unloaded, and
\* so does every backend once the context is cancelled.
UnloadOne(p, b) ==
    /\ pc[p] \in {"unload", "unloadAll"} /\ b \in todo[p]
    /\ todo' = [todo EXCEPT ![p] = @ \ {b}]
    /\ \/ /\ Detached(p) \/ ~canceled[p]
          /\ loaded' = {m \in loaded : BackendOf[m] # b}
          /\ UNCHANGED budget
       \/ ~Detached(p) /\ canceled[p] /\ UNCHANGED <<loaded, budget>>
       \/ Spend("error") /\ UNCHANGED loaded
    /\ UNCHANGED <<step, pc, cur, lock, conn, canceled, snoozes, current>>

Unloaded(p) ==
    /\ pc[p] = "unload" /\ todo[p] = {}
    /\ current' = [current EXCEPT ![p] = None]
    /\ Goto(p, "load")
    /\ UNCHANGED <<step, cur, lock, conn, canceled, snoozes, todo, loaded, budget>>

\* waitForFreeVRAM succeeded and Load returned.
Load(p) ==
    /\ pc[p] = "load" /\ ~canceled[p]
    /\ loaded' = loaded \cup {TargetOf(p)}
    /\ Goto(p, "prove")
    /\ UNCHANGED <<step, cur, lock, conn, canceled, snoozes, current, todo, budget>>

ProveResident(p) ==
    /\ pc[p] = "prove" /\ TargetOf(p) \in loaded /\ ~canceled[p]
    /\ current' = [current EXCEPT ![p] = TargetOf(p)]
    /\ Goto(p, "dispatch")
    /\ UNCHANGED <<step, cur, lock, conn, canceled, snoozes, todo, loaded, budget>>

\* The wait for VRAM, the load or the proof times out or fails, or the context
\* was cancelled: the job returns the error, its steps stay queued.  The proof
\* of a model that another process unloaded always times out.
EnsureFails(p) ==
    /\ pc[p] \in {"load", "prove"}
    /\ \/ canceled[p] /\ UNCHANGED budget
       \/ pc[p] = "prove" /\ TargetOf(p) \notin loaded /\ UNCHANGED budget
       \/ Spend("error")
    /\ Goto(p, "unlock")
    /\ UNCHANGED <<step, cur, lock, conn, canceled, snoozes, current, todo, loaded>>

-----------------------------------------------------------------------------
(* Dispatch: claim, run, commit *)

Claim(p) ==
    /\ pc[p] = "dispatch" /\ ~canceled[p]
    /\ step' = [step EXCEPT ![cur[p]] = "running"]
    /\ Goto(p, "work")
    /\ UNCHANGED <<cur, lock, conn, canceled, snoozes, current, todo, loaded, budget>>

\* The handler returns its result; the commit uses a detached context.
Finish(p) ==
    /\ pc[p] = "work" /\ TargetOf(p) # None
    /\ step' = [step EXCEPT ![cur[p]] = "done"]
    /\ Goto(p, "unlock")
    /\ UNCHANGED <<cur, lock, conn, canceled, snoozes, current, todo, loaded, budget>>

\* Mutant: the requeue uses the cancelled context too and is lost.
AbortLeavesRunning(p) ==
    /\ pc[p] \in {"prefer", "ensure", "dispatch", "work"} /\ canceled[p]
    /\ Goto(p, "unlock")
    /\ UNCHANGED <<step, cur, lock, conn, canceled, snoozes, current, todo, loaded, budget>>

\* The cancelled context ends a query, the claim or the handler: the steps of
\* the job stay queued, or requeueForRetry makes them so again.
Abort(p) ==
    /\ pc[p] \in {"prefer", "ensure", "dispatch", "work"} /\ canceled[p]
    /\ step' = [step EXCEPT ![cur[p]] = "queued"]
    /\ Goto(p, "unlock")
    /\ UNCHANGED <<cur, lock, conn, canceled, snoozes, current, todo, loaded, budget>>

StartUnloadAll(p) ==
    /\ todo' = [todo EXCEPT ![p] = Backends]
    /\ Goto(p, "unloadAll")
    /\ UNCHANGED <<step, cur, lock, conn, canceled, snoozes, current, loaded>>

\* UnloadStep.Run, which does nothing but UnloadAll.
UnloadJob(p) ==
    /\ pc[p] = "work" /\ TargetOf(p) = None
    /\ StartUnloadAll(p)
    /\ UNCHANGED budget

\* handleGPUOOM unloads everything and requeues the step.
Oom(p) ==
    /\ pc[p] = "work" /\ TargetOf(p) # None
    /\ Spend("oom")
    /\ StartUnloadAll(p)

UnloadAllDone(p) ==
    /\ pc[p] = "unloadAll" /\ todo[p] = {}
    /\ current' = [current EXCEPT ![p] = None]
    /\ step' = [step EXCEPT ![cur[p]] = IF TargetOf(p) = None THEN "done" ELSE "queued"]
    /\ Goto(p, "unlock")
    /\ UNCHANGED <<cur, lock, conn, canceled, snoozes, todo, loaded, budget>>

-----------------------------------------------------------------------------
(* Processes *)

\* The process dies and its connections with it; the step it worked is
\* reclaimed (PipelineEngine), the models stay on the GPU.
Crash(p) ==
    /\ pc[p] # "down"
    /\ Spend("crash")
    /\ step' = [j \in Jobs |-> IF j = cur[p] /\ step[j] = "running" THEN "queued" ELSE step[j]]
    /\ lock' = IF lock = p THEN "free" ELSE lock
    /\ conn' = [conn EXCEPT ![p] = "none"]
    /\ canceled' = [canceled EXCEPT ![p] = FALSE]
    /\ cur' = [cur EXCEPT ![p] = None]
    /\ current' = [current EXCEPT ![p] = None]
    /\ snoozes' = [snoozes EXCEPT ![p] = [j \in Jobs |-> 0]]
    /\ todo' = [todo EXCEPT ![p] = {}]
    /\ Goto(p, "down")
    /\ UNCHANGED loaded

\* NewManagerWithBudget unloads every backend, without the GPU lock.
Boot(p) ==
    /\ pc[p] = "down"
    /\ loaded' = {}
    /\ Goto(p, "idle")
    /\ UNCHANGED <<step, cur, lock, conn, canceled, snoozes, current, todo, budget>>

-----------------------------------------------------------------------------

\* What a process does for the job it has, when nothing fails around it.
Run(p) ==
    \/ TryLock(p) \/ MissLock(p) \/ TryFails(p) \/ Unlock(p) \/ UnlockFails(p)
    \/ Defer(p) \/ Proceed(p) \/ PeekFails(p)
    \/ EnsureHit(p) \/ EnsureMiss(p) \/ (\E b \in Backends : UnloadOne(p, b))
    \/ Unloaded(p) \/ Load(p) \/ ProveResident(p) \/ EnsureFails(p)
    \/ Claim(p) \/ Finish(p) \/ UnloadJob(p) \/ Abort(p) \/ UnloadAllDone(p)

Next ==
    \/ \E p \in Procs : \/ Run(p) \/ Watchdog(p) \/ Drop(p) \/ Oom(p)
                        \/ Crash(p) \/ Boot(p)
                        \/ \E j \in Jobs : Fetch(p, j)
    \/ Reap

Spec == Init /\ [][Next]_vars

(***************************************************************************)
(* A process goes on with the job it has, the watchdog keeps pinging,      *)
(* Postgres notices a dead client, a dead worker is restarted, and River   *)
(* hands out every job that keeps being available.                         *)
(***************************************************************************)
Fairness ==
    /\ \A p \in Procs : WF_vars(Run(p)) /\ WF_vars(Watchdog(p)) /\ WF_vars(Boot(p))
    /\ \A p \in Procs, j \in Jobs : SF_vars(Fetch(p, j))
    /\ WF_vars(Reap)

-----------------------------------------------------------------------------

TypeOK ==
    /\ step \in [Jobs -> {"queued", "running", "done"}]
    /\ pc \in [Procs -> PCs]
    /\ cur \in [Procs -> Jobs \cup {None}]
    /\ lock \in Procs \cup {"free", "ghost"}
    /\ conn \in [Procs -> {"none", "up", "lost"}]
    /\ canceled \in [Procs -> BOOLEAN]
    /\ snoozes \in [Procs -> [Jobs -> 0..MaxSnoozes]]
    /\ current \in [Procs -> Models \cup {None}]
    /\ todo \in [Procs -> SUBSET Backends]
    /\ loaded \subseteq Models
    /\ budget \in [FaultKinds -> Nat]
    /\ \A p \in Procs : (cur[p] = None) <=> pc[p] \in {"down", "idle"}

OnGpu(p) == pc[p] \in Holding

\* Two processes are on the GPU only when one of them has lost its lock
\* connection, however connections break and processes crash (gpu_executor.go).
ExclusiveGpu ==
    \A p, q \in Procs : p # q /\ OnGpu(p) /\ OnGpu(q) =>
        conn[p] = "lost" \/ conn[q] = "lost"

\* The lock never outlives the job that took it in a connection of the pool:
\* whoever holds it is running a job on a live connection (the deferred unlock).
SlotNotLeaked ==
    \A p \in Procs : lock = p => OnGpu(p) /\ conn[p] = "up"

\* The GPU lock excludes and is never leaked (gpu_executor.go Run).
SlotSafe == ExclusiveGpu /\ SlotNotLeaked

\* A job works with its model on the GPU, although other processes swap models
\* between its jobs and its manager's idea of what is resident is stale
\* (gpu_executor.go ensureModel, residency Ensure).
WorkingModelLoaded ==
    \A p \in Procs : pc[p] = "work" /\ TargetOf(p) # None => TargetOf(p) \in loaded

\* One model at a time: nothing else is on the GPU while a job works, unless
\* a backend could not be reached (residency Ensure).
OnlyWorkingModel ==
    \A p \in Procs : pc[p] = "work" /\ TargetOf(p) # None => loaded \subseteq {TargetOf(p)}

\* A job works with its model on the GPU, alone (residency Ensure).
WorkingModelAlone == WorkingModelLoaded /\ OnlyWorkingModel

\* Every job of the gpu queue is done in the end: a lost connection, a crash, a
\* failed unlock and the preference for the resident model delay it, but lock
\* nobody out of the GPU (the watchdog, maxResidentPreferenceSnoozes).
EveryJobRuns == \A j \in Jobs : step[j] = "queued" ~> step[j] = "done"
=============================================================================
