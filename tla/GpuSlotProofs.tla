--------------------------- MODULE GpuSlotProofs ---------------------------
(***************************************************************************)
(* The GPU slot is exclusive and is never leaked, for any number of worker *)
(* processes, jobs, models and backends and any number of faults.          *)
(***************************************************************************)
EXTENDS GpuSlot, TLAPS

\* The lock connection of a process on the GPU is up exactly while its session
\* holds the lock; a process off the GPU has none.
LockInv ==
    /\ pc \in [Procs -> PCs]
    /\ conn \in [Procs -> {"none", "up", "lost"}]
    /\ \A p \in Procs : OnGpu(p) <=> conn[p] # "none"
    /\ \A p \in Procs : lock = p <=> conn[p] = "up"

\* What one process does to its own program counter and connection keeps the
\* invariant when the lock follows its connection.
LEMMA OneProcess ==
    ASSUME LockInv, NEW p \in Procs, NEW l \in PCs, NEW k \in {"none", "up", "lost"},
           pc' = [pc EXCEPT ![p] = l], conn' = [conn EXCEPT ![p] = k],
           l \in Holding <=> k # "none",
           lock' = p <=> k = "up",
           \A q \in Procs \ {p} : lock' = q <=> lock = q
    PROVE  LockInv'
BY DEF LockInv, OnGpu

\* A step that changes neither the lock nor the connections, and keeps every
\* process on its side of the lock.
LEMMA SameSide ==
    ASSUME LockInv, NEW p \in Procs, NEW l \in PCs,
           pc' = [pc EXCEPT ![p] = l], UNCHANGED <<conn, lock>>,
           l \in Holding <=> pc[p] \in Holding
    PROVE  LockInv'
BY DEF LockInv, OnGpu

LEMMA LockInit == Init => LockInv
BY GpuAssumption DEF Init, AllIdle, LockInv, OnGpu, PCs, Holding

\* Every step of a process keeps the lock and its connection together.
LEMMA LockStep == LockInv /\ [Next]_vars => LockInv'
<1> SUFFICES ASSUME LockInv, [Next]_vars PROVE LockInv'
  OBVIOUS
<1> USE GpuAssumption DEF Goto, PCs, Holding
<1>1. ASSUME NEW p \in Procs, NEW j \in Jobs, Fetch(p, j) PROVE LockInv'
  BY <1>1, SameSide DEF Fetch
<1>2. ASSUME NEW p \in Procs, Run(p) PROVE LockInv'
  <2>1. CASE TryLock(p)
    BY <2>1, OneProcess DEF TryLock, Locked, LockInv
  <2>2. CASE MissLock(p)
    BY <2>2, SameSide DEF MissLock
  <2>10. CASE TryFails(p)
    <3>1. CASE UNCHANGED lock
      BY <2>10, <3>1, SameSide DEF TryFails
    <3>2. CASE lock = "free" /\ lock' = "ghost"
      BY <2>10, <3>2 DEF TryFails, LockInv, OnGpu
    <3> QED  BY <2>10, <3>1, <3>2 DEF TryFails
  <2>3. CASE Unlock(p)
    <3>1. lock = p
      BY <2>3 DEF Unlock, LockInv
    <3> QED  BY <2>3, <3>1, OneProcess DEF Unlock, Released, LockInv
  <2>4. CASE UnlockFails(p)
    <3>1. CASE conn[p] = "lost" /\ UNCHANGED lock
      BY <2>4, <3>1, OneProcess DEF UnlockFails, Released, LockInv
    <3>2. CASE conn[p] = "up" /\ lock' \in {"free", "ghost"}
      <4>1. lock = p
        BY <3>2 DEF LockInv
      <4> QED  BY <2>4, <3>2, <4>1, OneProcess DEF UnlockFails, Released, LockInv
    <3> QED  BY <2>4, <3>1, <3>2 DEF UnlockFails
  <2>5. CASE Defer(p) \/ Proceed(p) \/ PeekFails(p)
    BY <2>5, SameSide DEF Defer, Proceed, PeekFails
  <2>6. CASE EnsureHit(p) \/ EnsureMiss(p) \/ Unloaded(p)
    BY <2>6, SameSide DEF EnsureHit, EnsureMiss, Unloaded
  <2>7. CASE \E b \in Backends : UnloadOne(p, b)
    BY <2>7 DEF UnloadOne, LockInv, OnGpu
  <2>8. CASE Load(p) \/ ProveResident(p) \/ EnsureFails(p)
    BY <2>8, SameSide DEF Load, ProveResident, EnsureFails
  <2>9. CASE Claim(p) \/ Finish(p) \/ UnloadJob(p) \/ Abort(p) \/ UnloadAllDone(p)
    BY <2>9, SameSide DEF Claim, Finish, UnloadJob, StartUnloadAll, Abort, UnloadAllDone
  <2> QED  BY <1>2, <2>1, <2>2, <2>10, <2>3, <2>4, <2>5, <2>6, <2>7, <2>8, <2>9 DEF Run
<1>3. ASSUME NEW p \in Procs, Watchdog(p) \/ Oom(p) PROVE LockInv'
  <2>1. CASE Watchdog(p)
    BY <2>1 DEF Watchdog, LockInv, OnGpu
  <2>2. CASE Oom(p)
    BY <2>2, SameSide DEF Oom, StartUnloadAll
  <2> QED  BY <1>3, <2>1, <2>2
<1>4. ASSUME NEW p \in Procs, Drop(p) PROVE LockInv'
  <2>1. lock = p
    BY <1>4 DEF Drop, LockInv
  <2> QED  BY <1>4, <2>1 DEF Drop, LockInv, OnGpu
<1>5. ASSUME NEW p \in Procs, Crash(p) PROVE LockInv'
  BY <1>5, OneProcess DEF Crash, LockInv
<1>6. ASSUME NEW p \in Procs, Boot(p) PROVE LockInv'
  BY <1>6, SameSide DEF Boot
<1>7. CASE Reap
  BY <1>7 DEF Reap, LockInv, OnGpu
<1>8. CASE UNCHANGED vars
  BY <1>8 DEF vars, LockInv, OnGpu
<1> QED  BY <1>1, <1>2, <1>3, <1>4, <1>5, <1>6, <1>7, <1>8 DEF Next

\* At most one process on the GPU has a live lock connection, whatever breaks
\* (gpu_executor.go Run).
THEOREM GpuIsExclusive == Spec => []ExclusiveGpu
<1>1. LockInv => ExclusiveGpu
  BY DEF LockInv, ExclusiveGpu, OnGpu
<1> QED  BY <1>1, LockInit, LockStep, PTL DEF Spec

\* No connection of a pool keeps the lock after the job that took it
\* (gpu_executor.go, the deferred unlock).
THEOREM SlotIsNotLeaked == Spec => []SlotNotLeaked
<1>1. LockInv => SlotNotLeaked
  BY DEF LockInv, SlotNotLeaked, OnGpu
<1> QED  BY <1>1, LockInit, LockStep, PTL DEF Spec

\* The slot excludes and is never leaked, for any number of workers and faults
\* (gpu_executor.go Run).
THEOREM SlotIsSafe == Spec => []SlotSafe
BY GpuIsExclusive, SlotIsNotLeaked, PTL DEF SlotSafe

-----------------------------------------------------------------------------
(* Types *)

LEMMA TypeInit == Init => TypeOK
BY GpuAssumption DEF Init, AllIdle, TypeOK, PCs

\* A step of one process that moves its program counter and keeps its job.
LEMMA SameJob ==
    ASSUME TypeOK, NEW p \in Procs, NEW l \in PCs, pc' = [pc EXCEPT ![p] = l], UNCHANGED cur,
           pc[p] \notin {"down", "idle"}, l \notin {"down", "idle"}
    PROVE  /\ pc' \in [Procs -> PCs] /\ cur' \in [Procs -> Jobs \cup {None}]
           /\ \A q \in Procs : (cur'[q] = None) <=> pc'[q] \in {"down", "idle"}
BY DEF TypeOK

\* A step of one process that ends its job.
LEMMA JobEnds ==
    ASSUME TypeOK, NEW p \in Procs, NEW l \in {"down", "idle"}, pc' = [pc EXCEPT ![p] = l],
           cur' = [cur EXCEPT ![p] = None]
    PROVE  /\ pc' \in [Procs -> PCs] /\ cur' \in [Procs -> Jobs \cup {None}]
           /\ \A q \in Procs : (cur'[q] = None) <=> pc'[q] \in {"down", "idle"}
BY DEF TypeOK, PCs

LEMMA HasJob ==
    ASSUME TypeOK, NEW p \in Procs, pc[p] \notin {"down", "idle"}
    PROVE  cur[p] \in Jobs /\ TargetOf(p) \in Models \cup {None}
BY GpuAssumption DEF TypeOK, TargetOf

LEMMA SpendType == ASSUME TypeOK, NEW k \in FaultKinds, Spend(k) PROVE budget' \in [FaultKinds -> Nat]
BY DEF TypeOK, Spend

Ensuring == {"ensure", "unload", "load", "prove"}

\* Ensure is only called for a job that has a model.
TargetInv == \A p \in Procs : pc[p] \in Ensuring => TargetOf(p) # None

LEMMA TypeStep == TypeOK /\ TargetInv /\ [Next]_vars => TypeOK'
<1> SUFFICES ASSUME TypeOK, TargetInv, [Next]_vars PROVE TypeOK'
  OBVIOUS
<1> USE GpuAssumption DEF Goto
<1>0. /\ {"prefer", "unlock", "dispatch", "ensure", "unload", "load", "prove", "work", "unloadAll"} \subseteq PCs
      /\ {"drop", "crash", "oom", "error"} \subseteq FaultKinds
  BY DEF PCs, FaultKinds
<1>1. ASSUME NEW p \in Procs, NEW j \in Jobs, Fetch(p, j) PROVE TypeOK'
  BY <1>1 DEF Fetch, TypeOK, PCs
<1>2. ASSUME NEW p \in Procs, TryLock(p) PROVE TypeOK'
  BY <1>0, <1>2, SameJob DEF TryLock, Locked, TypeOK
<1>3. ASSUME NEW p \in Procs, MissLock(p) PROVE TypeOK'
  <2>1. cur[p] \in Jobs
    BY <1>3, HasJob DEF MissLock
  <2>2. snoozes' \in [Procs -> [Jobs -> 0..MaxSnoozes]]
    BY <1>3, <2>1 DEF MissLock, TypeOK
  <2> QED  BY <1>3, <2>2, JobEnds DEF MissLock, TypeOK
<1>4. ASSUME NEW p \in Procs, TryFails(p) PROVE TypeOK'
  BY <1>0, <1>4, JobEnds, SpendType DEF TryFails, TypeOK
<1>5. ASSUME NEW p \in Procs, Unlock(p) PROVE TypeOK'
  BY <1>5, JobEnds DEF Unlock, Released, TypeOK
<1>6. ASSUME NEW p \in Procs, UnlockFails(p) PROVE TypeOK'
  BY <1>0, <1>6, JobEnds, SpendType DEF UnlockFails, Released, TypeOK
<1>7. ASSUME NEW p \in Procs, Defer(p) PROVE TypeOK'
  <2>1. cur[p] \in Jobs /\ snoozes[p][cur[p]] \in 0..MaxSnoozes /\ snoozes[p][cur[p]] + 1 \in 0..MaxSnoozes
    BY <1>7, HasJob DEF Defer, Prefers, TypeOK
  <2>2. snoozes' \in [Procs -> [Jobs -> 0..MaxSnoozes]]
    BY <1>7, <2>1 DEF Defer, TypeOK
  <2> QED  BY <1>0, <1>7, <2>2, SameJob DEF Defer, TypeOK
<1>8. ASSUME NEW p \in Procs, Proceed(p) PROVE TypeOK'
  <2>1. cur[p] \in Jobs
    BY <1>8, HasJob DEF Proceed
  <2>2. snoozes' \in [Procs -> [Jobs -> 0..MaxSnoozes]]
    BY <1>8, <2>1 DEF Proceed, TypeOK
  <2> QED  BY <1>0, <1>8, <2>2, SameJob DEF Proceed, TypeOK
<1>9. ASSUME NEW p \in Procs, PeekFails(p) PROVE TypeOK'
  BY <1>0, <1>9, SameJob, SpendType DEF PeekFails, TypeOK
<1>10. ASSUME NEW p \in Procs, EnsureHit(p) \/ EnsureMiss(p) PROVE TypeOK'
  <2>1. CASE EnsureHit(p)
    BY <1>0, <2>1, SameJob DEF EnsureHit, TypeOK
  <2>2. CASE EnsureMiss(p)
    BY <1>0, <2>2, SameJob DEF EnsureMiss, ToUnload, TypeOK
  <2> QED  BY <1>10, <2>1, <2>2
<1>11. ASSUME NEW p \in Procs, NEW b \in Backends, UnloadOne(p, b) PROVE TypeOK'
  <2>1. budget' \in [FaultKinds -> Nat] /\ loaded' \subseteq Models
    BY <1>0, <1>11, SpendType DEF UnloadOne, TypeOK
  <2> QED  BY <1>11, <2>1 DEF UnloadOne, TypeOK
<1>12. ASSUME NEW p \in Procs, Unloaded(p) PROVE TypeOK'
  BY <1>0, <1>12, SameJob DEF Unloaded, TypeOK
<1>13. ASSUME NEW p \in Procs, Claim(p) PROVE TypeOK'
  BY <1>0, <1>13, SameJob, HasJob DEF Claim, TypeOK
<1>14. ASSUME NEW p \in Procs, Finish(p) \/ Abort(p) PROVE TypeOK'
  <2>1. CASE Finish(p)
    BY <1>0, <2>1, SameJob, HasJob DEF Finish, TypeOK
  <2>2. CASE Abort(p)
    BY <1>0, <2>2, SameJob, HasJob DEF Abort, TypeOK
  <2> QED  BY <1>14, <2>1, <2>2
<1>15. ASSUME NEW p \in Procs, UnloadJob(p) PROVE TypeOK'
  BY <1>0, <1>15, SameJob DEF UnloadJob, StartUnloadAll, TypeOK
<1>16. ASSUME NEW p \in Procs, Oom(p) PROVE TypeOK'
  BY <1>0, <1>16, SameJob, SpendType DEF Oom, StartUnloadAll, TypeOK
<1>17. ASSUME NEW p \in Procs, UnloadAllDone(p) PROVE TypeOK'
  BY <1>0, <1>17, SameJob, HasJob DEF UnloadAllDone, TypeOK
<1>18. ASSUME NEW p \in Procs, Watchdog(p) PROVE TypeOK'
  BY <1>18 DEF Watchdog, TypeOK
<1>19. ASSUME NEW p \in Procs, Drop(p) PROVE TypeOK'
  BY <1>0, <1>19, SpendType DEF Drop, TypeOK
<1>20. ASSUME NEW p \in Procs, Crash(p) PROVE TypeOK'
  <2>1. step' \in [Jobs -> {"queued", "running", "done"}] /\ lock' \in Procs \cup {"free", "ghost"}
    BY <1>20 DEF Crash, TypeOK
  <2>2. /\ pc' \in [Procs -> PCs] /\ cur' \in [Procs -> Jobs \cup {None}]
        /\ \A q \in Procs : (cur'[q] = None) <=> pc'[q] \in {"down", "idle"}
    BY <1>20, JobEnds DEF Crash
  <2>3. budget' \in [FaultKinds -> Nat]
    BY <1>0, <1>20, SpendType DEF Crash
  <2>4. snoozes' \in [Procs -> [Jobs -> 0..MaxSnoozes]]
    BY <1>20 DEF Crash, TypeOK
  <2> QED  BY <1>20, <2>1, <2>2, <2>3, <2>4 DEF Crash, TypeOK
<1>21. ASSUME NEW p \in Procs, Boot(p) PROVE TypeOK'
  BY <1>21 DEF Boot, TypeOK, PCs
<1>22. CASE Reap
  BY <1>22 DEF Reap, TypeOK
<1>23. ASSUME NEW p \in Procs, EnsureFails(p) PROVE TypeOK'
  BY <1>0, <1>23, SameJob, SpendType DEF EnsureFails, TypeOK
<1>24. ASSUME NEW p \in Procs, Load(p) PROVE TypeOK'
  <2>1. TargetOf(p) \in Models
    BY <1>24, HasJob DEF Load, TargetInv, Ensuring
  <2> QED  BY <1>0, <1>24, <2>1, SameJob DEF Load, TypeOK
<1>25. ASSUME NEW p \in Procs, ProveResident(p) PROVE TypeOK'
  BY <1>0, <1>25, SameJob, HasJob DEF ProveResident, TypeOK
<1>26. CASE UNCHANGED vars
  BY <1>26 DEF vars, TypeOK
<1> QED  BY <1>1, <1>2, <1>3, <1>4, <1>5, <1>6, <1>7, <1>8, <1>9, <1>10, <1>11, <1>12, <1>13, <1>14,
            <1>15, <1>16, <1>17, <1>18, <1>19, <1>20, <1>21, <1>22, <1>23, <1>24, <1>25, <1>26 DEF Next, Run

\* A process that leaves Ensure, or does not enter it, keeps the invariant.
LEMMA OutsideEnsure ==
    ASSUME TypeOK, TargetInv, NEW p \in Procs, NEW l \in PCs \ Ensuring, NEW j,
           pc' = [pc EXCEPT ![p] = l], cur' = cur \/ cur' = [cur EXCEPT ![p] = j]
    PROVE  TargetInv'
BY DEF TypeOK, TargetInv, TargetOf

LEMMA TargetStep == TypeOK /\ TargetInv /\ [Next]_vars => TargetInv'
<1> SUFFICES ASSUME TypeOK, TargetInv, [Next]_vars PROVE TargetInv'
  OBVIOUS
<1> USE DEF Goto
<1>0. {"down", "idle", "try", "prefer", "dispatch", "work", "unloadAll", "unlock"} \subseteq PCs \ Ensuring
  BY DEF PCs, Ensuring
<1>1. ASSUME NEW p \in Procs, NEW j \in Jobs, Fetch(p, j) PROVE TargetInv'
  BY <1>0, <1>1, OutsideEnsure DEF Fetch
<1>2. ASSUME NEW p \in Procs, Run(p) PROVE TargetInv'
  <2>1. CASE TryLock(p) \/ MissLock(p) \/ TryFails(p)
    BY <1>0, <2>1, OutsideEnsure DEF TryLock, Locked, MissLock, TryFails
  <2>2. CASE Unlock(p) \/ UnlockFails(p)
    BY <1>0, <2>2, OutsideEnsure DEF Unlock, UnlockFails, Released
  <2>3. CASE Defer(p) \/ PeekFails(p) \/ EnsureHit(p) \/ ProveResident(p) \/ EnsureFails(p)
    BY <1>0, <2>3, OutsideEnsure DEF Defer, PeekFails, EnsureHit, ProveResident, EnsureFails
  <2>4. CASE Proceed(p)
    BY <2>4 DEF Proceed, TypeOK, TargetInv, TargetOf, Ensuring
  <2>5. CASE EnsureMiss(p) \/ Unloaded(p) \/ Load(p)
    BY <2>5 DEF EnsureMiss, Unloaded, Load, TypeOK, TargetInv, TargetOf, Ensuring
  <2>6. CASE \E b \in Backends : UnloadOne(p, b)
    BY <2>6 DEF UnloadOne, TargetInv, TargetOf
  <2>7. CASE Claim(p) \/ Finish(p) \/ UnloadJob(p) \/ Abort(p) \/ UnloadAllDone(p)
    BY <1>0, <2>7, OutsideEnsure DEF Claim, Finish, UnloadJob, StartUnloadAll, Abort, UnloadAllDone
  <2> QED  BY <1>2, <2>1, <2>2, <2>3, <2>4, <2>5, <2>6, <2>7 DEF Run
<1>3. ASSUME NEW p \in Procs, Watchdog(p) \/ Drop(p) PROVE TargetInv'
  BY <1>3 DEF Watchdog, Drop, TargetInv, TargetOf
<1>4. ASSUME NEW p \in Procs, Oom(p) \/ Crash(p) \/ Boot(p) PROVE TargetInv'
  BY <1>0, <1>4, OutsideEnsure DEF Oom, StartUnloadAll, Crash, Boot
<1>5. CASE Reap \/ UNCHANGED vars
  BY <1>5 DEF Reap, vars, TargetInv, TargetOf
<1> QED  BY <1>1, <1>2, <1>3, <1>4, <1>5 DEF Next

LEMMA TargetInit == Init => TargetInv
BY DEF Init, AllIdle, TargetInv, Ensuring

\* The type invariant holds for any number of workers, jobs, models and faults;
\* in it, that a job is never deferred more than maxResidentPreferenceSnoozes
\* times in a row by one process (gpu_executor.go preferResident).
THEOREM TypesAreKept == Spec => []TypeOK
BY TypeInit, TypeStep, TargetInit, TargetStep, PTL DEF Spec

-----------------------------------------------------------------------------
(* The model of a working job *)

\* No lock connection broke, no worker died and every call got through.
Calm ==
    /\ budget["drop"] = 0 /\ budget["crash"] = 0 /\ budget["error"] = 0
    /\ \A p \in Procs : conn[p] # "lost" /\ ~canceled[p] /\ pc[p] # "down"

\* What the GPU holds follows from where the process that has it is.
ModelAt(p) ==
    /\ pc[p] = "unload" => \A m \in loaded : BackendOf[m] \in todo[p]
    /\ pc[p] = "load" => loaded = {}
    /\ pc[p] = "prove" => loaded = {TargetOf(p)}
    /\ pc[p] \in {"dispatch", "work"} /\ TargetOf(p) # None => loaded = {TargetOf(p)}

\* At most one model is on the GPU, and the right one from the load on.
ModelInv ==
    /\ \A m, n \in loaded : m = n
    /\ \A p \in Procs : ModelAt(p)

LEMMA CalmInit == Faults["drop"] = 0 /\ Faults["crash"] = 0 /\ Faults["error"] = 0 /\ Init => Calm
BY DEF Init, AllIdle, Calm

\* Without faults to spend, connections and processes stay as they are.
LEMMA CalmStep == TypeOK /\ Calm /\ [Next]_vars => Calm'
<1> SUFFICES ASSUME TypeOK, Calm, [Next]_vars PROVE Calm'
  OBVIOUS
<1> USE DEF Goto
<1>0. \A k \in {"drop", "crash", "error"} : ~Spend(k)
  BY DEF Calm, Spend
<1>1. ASSUME NEW p \in Procs, NEW j \in Jobs, Fetch(p, j) PROVE Calm'
  BY <1>1 DEF Fetch, Calm, TypeOK
<1>2. ASSUME NEW p \in Procs, Run(p) PROVE Calm'
  <2>1. CASE TryLock(p) \/ MissLock(p) \/ TryFails(p)
    BY <1>0, <2>1 DEF TryLock, Locked, MissLock, TryFails, Calm, TypeOK
  <2>2. CASE Unlock(p) \/ UnlockFails(p)
    BY <1>0, <2>2 DEF Unlock, UnlockFails, Released, Calm, TypeOK
  <2>3. CASE Defer(p) \/ Proceed(p) \/ PeekFails(p) \/ EnsureHit(p) \/ EnsureMiss(p)
    BY <1>0, <2>3 DEF Defer, Proceed, PeekFails, EnsureHit, EnsureMiss, Calm, TypeOK
  <2>4. CASE Unloaded(p) \/ Load(p) \/ ProveResident(p) \/ EnsureFails(p)
    BY <1>0, <2>4 DEF Unloaded, Load, ProveResident, EnsureFails, Calm, TypeOK
  <2>5. CASE \E b \in Backends : UnloadOne(p, b)
    BY <1>0, <2>5 DEF UnloadOne, Calm, TypeOK
  <2>6. CASE Claim(p) \/ Finish(p) \/ UnloadJob(p) \/ Abort(p) \/ UnloadAllDone(p)
    BY <2>6 DEF Claim, Finish, UnloadJob, StartUnloadAll, Abort, UnloadAllDone, Calm, TypeOK
  <2> QED  BY <1>2, <2>1, <2>2, <2>3, <2>4, <2>5, <2>6 DEF Run
<1>3. ASSUME NEW p \in Procs, Watchdog(p) \/ Drop(p) \/ Crash(p) \/ Boot(p) PROVE Calm'
  BY <1>0, <1>3 DEF Watchdog, Drop, Crash, Boot, Calm
<1>4. ASSUME NEW p \in Procs, Oom(p) PROVE Calm'
  <2>1. budget'["drop"] = 0 /\ budget'["crash"] = 0 /\ budget'["error"] = 0
    BY <1>4 DEF Oom, Spend, Calm, TypeOK, FaultKinds
  <2> QED  BY <1>4, <2>1 DEF Oom, StartUnloadAll, Calm, TypeOK
<1>5. CASE Reap \/ UNCHANGED vars
  BY <1>5 DEF Reap, vars, Calm
<1> QED  BY <1>1, <1>2, <1>3, <1>4, <1>5 DEF Next

\* While nothing broke, a process on the GPU is alone on it.
LEMMA Alone ==
    ASSUME LockInv, Calm, NEW p \in Procs, OnGpu(p)
    PROVE  \A q \in Procs \ {p} : ~OnGpu(q)
BY DEF LockInv, Calm, OnGpu

\* What is said of a process off the GPU is nothing.
LEMMA OffGpu == \A q : ~OnGpu(q) => ModelAt(q)
BY DEF OnGpu, Holding, ModelAt

\* A step of the process on the GPU has to be checked for that process only.
LEMMA OnlyHolder ==
    ASSUME TypeOK, LockInv, Calm, NEW p \in Procs, NEW l \in PCs, OnGpu(p), pc' = [pc EXCEPT ![p] = l] \/ pc' = pc,
           \A m, n \in loaded' : m = n, ModelAt(p)'
    PROVE  ModelInv'
<1>1. ASSUME NEW q \in Procs \ {p} PROVE ModelAt(q)'
  <2>1. pc'[q] \notin Holding
    BY Alone DEF OnGpu, TypeOK
  <2> QED  BY <2>1 DEF ModelAt, Holding
<1> QED  BY <1>1 DEF ModelInv

LEMMA ModelStep == TypeOK /\ TargetInv /\ LockInv /\ Calm /\ ModelInv /\ [Next]_vars => ModelInv'
<1> SUFFICES ASSUME TypeOK, TargetInv, LockInv, Calm, ModelInv, [Next]_vars PROVE ModelInv'
  OBVIOUS
<1> USE DEF Goto
<1>0. \A k \in {"drop", "crash", "error"} : ~Spend(k)
  BY DEF Calm, Spend
<1>a. /\ {"unlock", "dispatch", "ensure", "unload", "load", "prove", "work", "unloadAll"} \subseteq PCs
      /\ \A q \in Procs : pc[q] \in Holding => OnGpu(q)
  BY DEF PCs, OnGpu
<1>1. ASSUME NEW p \in Procs, NEW l \in PCs, l \notin {"unload", "load", "prove", "dispatch", "work"},
             pc' = [pc EXCEPT ![p] = l], \A q \in Procs \ {p} : cur'[q] = cur[q],
             UNCHANGED loaded, \A q \in Procs \ {p} : todo'[q] = todo[q]
      PROVE  ModelInv'
  BY <1>1 DEF ModelInv, ModelAt, TypeOK, TargetOf
<1>2. ASSUME NEW p \in Procs, NEW j \in Jobs, Fetch(p, j) PROVE ModelInv'
  BY <1>1, <1>2 DEF Fetch, TypeOK, PCs
<1>3. ASSUME NEW p \in Procs, Run(p) PROVE ModelInv'
  <2>1. CASE TryLock(p) \/ MissLock(p) \/ TryFails(p)
    BY <1>1, <2>1 DEF TryLock, Locked, MissLock, TryFails, TypeOK, PCs
  <2>2. CASE Unlock(p) \/ UnlockFails(p)
    BY <1>1, <2>2 DEF Unlock, UnlockFails, Released, TypeOK, PCs
  <2>3. CASE Defer(p) \/ PeekFails(p) \/ EnsureFails(p)
    BY <1>1, <2>3 DEF Defer, PeekFails, EnsureFails, TypeOK, PCs
  <2>4. CASE Proceed(p)
    <3>1. CASE TargetOf(p) = None
      <4>1. OnGpu(p) /\ pc' = [pc EXCEPT ![p] = "dispatch"] /\ loaded' = loaded /\ cur' = cur
        BY <2>4, <3>1, <1>a DEF Proceed, Holding
      <4>2. ModelAt(p)'
        BY <3>1, <4>1 DEF ModelAt, TargetOf, TypeOK
      <4> QED  BY <1>a, <4>1, <4>2, OnlyHolder DEF ModelInv
    <3>2. CASE TargetOf(p) # None
      BY <1>1, <2>4, <3>2 DEF Proceed, PCs
    <3> QED  BY <3>1, <3>2
  <2>5. CASE EnsureHit(p)
    <3>1. OnGpu(p) /\ TargetOf(p)' = TargetOf(p) /\ loaded' = loaded
      BY <2>5, <1>a DEF EnsureHit, Holding, TargetOf
    <3>2. loaded = {TargetOf(p)}
      BY <2>5 DEF EnsureHit, Resident, ModelInv
    <3>3. ModelAt(p)'
      BY <2>5, <3>1, <3>2 DEF EnsureHit, ModelAt, TypeOK
    <3> QED  BY <1>a, <2>5, <3>1, <3>3, OnlyHolder DEF EnsureHit, ModelInv
  <2>6. CASE EnsureMiss(p)
    <3>1. OnGpu(p) /\ loaded' = loaded
      BY <2>6, <1>a DEF EnsureMiss, Holding
    <3>2. ModelAt(p)'
      BY <2>6, <3>1, GpuAssumption DEF EnsureMiss, ToUnload, ModelAt, TypeOK
    <3> QED  BY <1>a, <2>6, <3>1, <3>2, OnlyHolder DEF EnsureMiss, ModelInv
  <2>7. ASSUME NEW b \in Backends, UnloadOne(p, b) PROVE ModelInv'
    <3>1. OnGpu(p) /\ pc' = pc /\ cur' = cur /\ loaded' = {m \in loaded : BackendOf[m] # b}
      BY <2>7, <1>a, <1>0 DEF UnloadOne, Holding, Calm
    <3>2. ModelAt(p)'
      BY <2>7, <3>1 DEF UnloadOne, ModelInv, ModelAt, TypeOK
    <3> QED  BY <1>a, <3>1, <3>2, OnlyHolder DEF ModelInv, TypeOK
  <2>8. CASE Unloaded(p)
    <3>1. OnGpu(p) /\ loaded' = loaded /\ loaded = {}
      BY <2>8, <1>a DEF Unloaded, Holding, ModelInv, ModelAt
    <3>2. ModelAt(p)'
      BY <2>8, <3>1 DEF Unloaded, ModelAt, TypeOK
    <3> QED  BY <1>a, <2>8, <3>1, <3>2, OnlyHolder DEF Unloaded, ModelInv
  <2>9. CASE Load(p)
    <3>1. OnGpu(p) /\ TargetOf(p)' = TargetOf(p) /\ loaded' = {TargetOf(p)}
      BY <2>9, <1>a DEF Load, Holding, TargetOf, ModelInv, ModelAt
    <3>2. ModelAt(p)'
      BY <2>9, <3>1 DEF Load, ModelAt, TypeOK
    <3> QED  BY <1>a, <2>9, <3>1, <3>2, OnlyHolder DEF Load
  <2>10. CASE ProveResident(p) \/ Claim(p)
    <3>1. OnGpu(p) /\ TargetOf(p)' = TargetOf(p) /\ loaded' = loaded
      BY <2>10, <1>a DEF ProveResident, Claim, Holding, TargetOf
    <3>2. ModelAt(p)'
      BY <2>10, <3>1 DEF ProveResident, Claim, ModelInv, ModelAt, TypeOK
    <3> QED  BY <1>a, <2>10, <3>1, <3>2, OnlyHolder DEF ProveResident, Claim, ModelInv
  <2>11. CASE Finish(p) \/ UnloadJob(p) \/ Abort(p) \/ UnloadAllDone(p)
    BY <1>1, <2>11 DEF Finish, UnloadJob, StartUnloadAll, Abort, UnloadAllDone, TypeOK, PCs
  <2> QED  BY <1>3, <2>1, <2>2, <2>3, <2>4, <2>5, <2>6, <2>7, <2>8, <2>9, <2>10, <2>11 DEF Run
<1>4. ASSUME NEW p \in Procs, Watchdog(p) \/ Drop(p) \/ Crash(p) \/ Boot(p) PROVE ModelInv'
  BY <1>0, <1>4 DEF Watchdog, Drop, Crash, Boot, Calm
<1>5. ASSUME NEW p \in Procs, Oom(p) PROVE ModelInv'
  BY <1>1, <1>5 DEF Oom, StartUnloadAll, TypeOK, PCs
<1>6. CASE Reap \/ UNCHANGED vars
  BY <1>6 DEF Reap, vars, ModelInv, ModelAt, TargetOf
<1> QED  BY <1>2, <1>3, <1>4, <1>5, <1>6 DEF Next

LEMMA ModelInit == Init => ModelInv
BY DEF Init, AllIdle, ModelInv, ModelAt

\* Without a broken connection, a dead worker or a failed call, a job works
\* with its model on the GPU and nothing else, however many workers swap
\* models between its jobs and run out of memory (residency Ensure).
THEOREM ModelIsAlone ==
    Faults["drop"] = 0 /\ Faults["crash"] = 0 /\ Faults["error"] = 0 => (Spec => []WorkingModelAlone)
<1>1. ModelInv => WorkingModelAlone
  BY DEF ModelInv, ModelAt, WorkingModelAlone, WorkingModelLoaded, OnlyWorkingModel
<1>2. Faults["drop"] = 0 /\ Faults["crash"] = 0 /\ Faults["error"] = 0 /\ Init => Calm
  BY CalmInit
<1> HIDE DEF Calm, ModelInv, LockInv, TargetInv
<1> SUFFICES ASSUME Faults["drop"] = 0 /\ Faults["crash"] = 0 /\ Faults["error"] = 0
             PROVE  Spec => []WorkingModelAlone
  OBVIOUS
<1>3. Init => Calm
  BY <1>2
<1> QED  BY <1>1, <1>3, TypeInit, TypeStep, TargetInit, TargetStep, LockInit, LockStep, CalmStep, ModelInit, ModelStep,
            PTL DEF Spec
=============================================================================
