---------------------------- MODULE RenderRestart ----------------------------
(***************************************************************************)
(* Restarting a render after an edit: scenes.Changed arms a debounce timer *)
(* in the process that made the edit, its callback freezes a new manifest  *)
(* and supersedes the active run (src/api/internal/render/supersede.go,    *)
(* freeze.go, http.go StartRender, pipeline/cancel.go, scenes/hooks.go).   *)
(*                                                                         *)
(* One episode language, edited in several processes.  Its content is the  *)
(* number of edits so far.  Time is left out except for what the debounce  *)
(* gives: a restart or start takes less than the debounce, so a timer does *)
(* not fire while a task that began before its edit is still running.      *)
(***************************************************************************)
EXTENDS Naturals, FiniteSets

CONSTANTS
    EditProcs,     \* processes that mutate scenes: the api and the workers
    Stopping,      \* the processes that may be shut down
    Starter,       \* the StartRender request; the user sends one at a time
    MaxEdits,
    MaxRuns

ASSUME RestartAssumption ==
    /\ Starter \notin EditProcs /\ Stopping \subseteq EditProcs /\ IsFiniteSet(EditProcs)
    /\ MaxEdits \in Nat /\ MaxRuns \in Nat \ {0}

Tasks == EditProcs \cup {Starter}
RunIds == 1..MaxRuns

VARIABLES
    content,   \* the number of committed edits
    ready,     \* the episode can be rendered
    emitted,   \* the edit whose Changed event is still to be handled
    pending,   \* the edit of the process's pending restart, 0 for none
    armed,     \* its timer has not fired
    fired,     \* callbacks that wait for the mutex: their edit, when they fired
    wg,        \* Superseder.wg
    stopped,   \* "no", "waiting" in wg.Wait, "yes"
    renderRun,       \* render runs in the order of their manifests
    runs,      \* how many there are
    task,      \* what a restart or StartRender is doing
    dropped    \* a shutdown dropped a pending restart

restartVars == <<content, ready, emitted, pending, armed, fired, wg, stopped, renderRun, runs, task, dropped>>
debounce == <<emitted, pending, armed, fired, wg, stopped, dropped>>

NoTask == [pc |-> "idle", began |-> 0, old |-> 0, new |-> 0, content |-> 0]
NoRenderRun == [status |-> "none", content |-> 0, by |-> 0, linked |-> FALSE]

SetTask(t, r) == task' = [task EXCEPT ![t] = r]
TaskTo(t, pc) == SetTask(t, [task[t] EXCEPT !.pc = pc])
TaskAt(t, pc) == task[t].pc = pc
SetRun(r, s) == renderRun' = [renderRun EXCEPT ![r].status = s]

\* GetActiveRenderRun: the newest manifest whose run is active.
ActiveRuns == {r \in 1..runs : renderRun[r].linked /\ renderRun[r].status = "active"}
Newest(S) == CHOOSE r \in S : \A q \in S : q <= r

RestartInit ==
    /\ content = 0 /\ ready = TRUE
    /\ emitted = [p \in EditProcs |-> 0]
    /\ pending = [p \in EditProcs |-> 0]
    /\ armed = [p \in EditProcs |-> FALSE]
    /\ fired = [p \in EditProcs |-> {}]
    /\ wg = [p \in EditProcs |-> 0]
    /\ stopped = [p \in EditProcs |-> "no"]
    /\ renderRun = [r \in RunIds |-> NoRenderRun]
    /\ runs = 0
    /\ task = [t \in Tasks |-> NoTask]
    /\ dropped = FALSE

(***************************************************************************)
(* Edits and the debounce timer.                                           *)
(***************************************************************************)

\* A mutation commits; it may leave the episode unrenderable.
EditScene(p) ==
    /\ content < MaxEdits /\ emitted[p] = 0
    /\ content' = content + 1
    /\ ready' \in BOOLEAN
    /\ emitted' = [emitted EXCEPT ![p] = content + 1]
    /\ UNCHANGED <<pending, armed, fired, wg, stopped, renderRun, runs, task, dropped>>

\* wg after the old timer is stopped: Done only when its callback never runs.
StoppedTimer(p) == wg[p] - (IF pending[p] # 0 /\ armed[p] THEN 1 ELSE 0)

\* Handle re-arms the timer, unless the superseder was stopped.
HandleChanged(p) ==
    /\ emitted[p] # 0
    /\ emitted' = [emitted EXCEPT ![p] = 0]
    /\ IF stopped[p] # "no"
       THEN dropped' = TRUE /\ UNCHANGED <<pending, armed, wg>>
       ELSE /\ pending' = [pending EXCEPT ![p] = emitted[p]]
            /\ armed' = [armed EXCEPT ![p] = TRUE]
            /\ wg' = [wg EXCEPT ![p] = StoppedTimer(p) + 1]
            /\ UNCHANGED dropped
    /\ UNCHANGED <<content, ready, fired, stopped, renderRun, runs, task>>

\* The timer expires: its goroutine is on its way to the mutex.
TimerFires(p) ==
    /\ armed[p]
    /\ \A t \in Tasks : ~TaskAt(t, "idle") => task[t].began >= pending[p]
    /\ armed' = [armed EXCEPT ![p] = FALSE]
    /\ fired' = [fired EXCEPT ![p] = @ \cup {[edit |-> pending[p], began |-> content]}]
    /\ UNCHANGED <<content, ready, emitted, pending, wg, stopped, renderRun, runs, task, dropped>>

IsCurrent(p, c) == pending[p] = c.edit

\* The callback's critical section: only the current one goes on.
Callback(p, c) ==
    /\ c \in fired[p] /\ TaskAt(p, "idle")
    /\ fired' = [fired EXCEPT ![p] = @ \ {c}]
    /\ IF IsCurrent(p, c)
       THEN /\ pending' = [pending EXCEPT ![p] = 0]
            /\ SetTask(p, [NoTask EXCEPT !.pc = "active", !.began = c.began])
            /\ UNCHANGED wg
       ELSE /\ wg' = [wg EXCEPT ![p] = @ - 1]
            /\ UNCHANGED <<pending, task>>
    /\ UNCHANGED <<content, ready, emitted, armed, stopped, renderRun, runs, dropped>>

\* Stop drops the pending restart and then waits for running callbacks.
StopSuperseder(p) ==
    /\ p \in Stopping /\ stopped[p] = "no"
    /\ stopped' = [stopped EXCEPT ![p] = "waiting"]
    /\ wg' = [wg EXCEPT ![p] = StoppedTimer(p)]
    /\ pending' = [pending EXCEPT ![p] = 0]
    /\ armed' = [armed EXCEPT ![p] = FALSE]
    /\ dropped' = (dropped \/ pending[p] # 0)
    /\ UNCHANGED <<content, ready, emitted, fired, renderRun, runs, task>>

Waited(p) == wg[p] = 0

StopReturns(p) ==
    /\ stopped[p] = "waiting" /\ Waited(p)
    /\ stopped' = [stopped EXCEPT ![p] = "yes"]
    /\ UNCHANGED <<content, ready, emitted, pending, armed, fired, wg, renderRun, runs, task, dropped>>

(***************************************************************************)
(* Restart, StartRender and Freeze.                                        *)
(***************************************************************************)

\* The end of a task: a callback's deferred wg.Done.
FinishTask(t) ==
    /\ SetTask(t, NoTask)
    /\ wg' = IF t \in EditProcs THEN [wg EXCEPT ![t] = @ - 1] ELSE wg
    /\ UNCHANGED <<emitted, pending, armed, fired, stopped, dropped>>

\* StartRender is refused while a run is active.  It is not sent into the
\* middle of a restart, whose run it would not see.
StartRender ==
    /\ \A t \in Tasks : TaskAt(t, "idle")
    /\ ActiveRuns = {} /\ runs < MaxRuns
    /\ SetTask(Starter, [NoTask EXCEPT !.pc = "prepare", !.began = content])
    /\ UNCHANGED <<content, ready, debounce, renderRun, runs>>

\* A restart needs an active run.
ReadActive(t) ==
    /\ TaskAt(t, "active")
    /\ IF ActiveRuns = {} THEN FinishTask(t)
       ELSE /\ SetTask(t, [task[t] EXCEPT !.pc = "prepare", !.old = Newest(ActiveRuns)])
            /\ UNCHANGED debounce
    /\ UNCHANGED <<content, ready, renderRun, runs>>

\* prepare snapshots the selected takes; NotReady ends a start and makes a
\* restart cancel the old run.
PrepareFreeze(t) ==
    /\ TaskAt(t, "prepare")
    /\ IF ready THEN /\ SetTask(t, [task[t] EXCEPT !.pc = "insert", !.content = content])
                     /\ UNCHANGED debounce
       ELSE IF t \in EditProcs THEN TaskTo(t, "cancelOld") /\ UNCHANGED debounce
       ELSE FinishTask(t)
    /\ UNCHANGED <<content, ready, renderRun, runs>>

\* insertManifest and Enqueue: the run is active, its manifest does not name
\* it yet.
EnqueueRun(t) ==
    /\ TaskAt(t, "insert") /\ runs < MaxRuns
    /\ runs' = runs + 1
    /\ renderRun' = [renderRun EXCEPT ![runs + 1] = [NoRenderRun EXCEPT !.status = "active", !.content = task[t].content]]
    /\ SetTask(t, [task[t] EXCEPT !.pc = "link", !.new = runs + 1])
    /\ UNCHANGED <<content, ready, debounce>>

SetManifestRun(t) ==
    /\ TaskAt(t, "link")
    /\ renderRun' = [renderRun EXCEPT ![task[t].new].linked = TRUE]
    /\ IF t \in EditProcs THEN TaskTo(t, "supersede") /\ UNCHANGED debounce ELSE FinishTask(t)
    /\ UNCHANGED <<content, ready, runs>>

\* Mutant: a restart that finds its old run ended tries again.
TriesAgain(t) == "supersede"

AfterLost(t) == "recheck"

\* SupersedeRun, in one transaction: only an active run can be superseded.
SupersedeRun(t) ==
    /\ TaskAt(t, "supersede")
    /\ IF renderRun[task[t].old].status = "active"
       THEN /\ renderRun' = [renderRun EXCEPT ![task[t].old].status = "superseded", ![task[t].old].by = task[t].new]
            /\ FinishTask(t)
       ELSE TaskTo(t, AfterLost(t)) /\ UNCHANGED <<renderRun, debounce>>
    /\ UNCHANGED <<content, ready, runs>>

\* Mutant: the restart that came second keeps its run.
KeepsDuplicate(t) == FALSE

\* The old run ended meanwhile: by another restart, or by finishing.
Duplicates(t) == renderRun[task[t].old].by \notin {0, task[t].new}

RecheckOld(t) ==
    /\ TaskAt(t, "recheck")
    /\ IF Duplicates(t) THEN TaskTo(t, "cancelNew") /\ UNCHANGED debounce ELSE FinishTask(t)
    /\ UNCHANGED <<content, ready, renderRun, runs>>

\* CancelRun of the old or of its own run, if it is still active.
CancelRun(t) ==
    LET r == IF TaskAt(t, "cancelOld") THEN task[t].old ELSE task[t].new IN
    /\ task[t].pc \in {"cancelOld", "cancelNew"}
    /\ renderRun' = [renderRun EXCEPT ![r].status = IF @ = "active" THEN "canceled" ELSE @]
    /\ FinishTask(t)
    /\ UNCHANGED <<content, ready, runs>>

\* A run's last step ends.
RunEnds(r) ==
    /\ renderRun[r].status = "active"
    /\ SetRun(r, "done")
    /\ UNCHANGED <<content, ready, debounce, runs, task>>

(***************************************************************************)
(* The specification.                                                      *)
(***************************************************************************)

TaskStep(t) ==
    \/ ReadActive(t) \/ PrepareFreeze(t) \/ EnqueueRun(t) \/ SetManifestRun(t)
    \/ SupersedeRun(t) \/ RecheckOld(t) \/ CancelRun(t)

ProcStep(p) ==
    HandleChanged(p) \/ TimerFires(p) \/ StopReturns(p) \/ \E c \in fired[p] : Callback(p, c)

RestartNext ==
    \/ \E t \in Tasks : TaskStep(t)
    \/ \E p \in EditProcs : ProcStep(p) \/ EditScene(p) \/ StopSuperseder(p)
    \/ StartRender
    \/ \E r \in 1..runs : RunEnds(r)

RestartFairness ==
    /\ \A t \in Tasks : WF_restartVars(TaskStep(t))
    /\ \A p \in EditProcs : WF_restartVars(ProcStep(p))

RestartSpec == RestartInit /\ [][RestartNext]_restartVars
RestartFairSpec == RestartSpec /\ RestartFairness

(***************************************************************************)
(* Properties.                                                             *)
(***************************************************************************)

RestartTypeOK ==
    /\ content \in 0..MaxEdits /\ ready \in BOOLEAN /\ dropped \in BOOLEAN
    /\ emitted \in [EditProcs -> 0..MaxEdits] /\ pending \in [EditProcs -> 0..MaxEdits]
    /\ armed \in [EditProcs -> BOOLEAN]
    /\ fired \in [EditProcs -> SUBSET [edit : 1..MaxEdits, began : 0..MaxEdits]]
    /\ wg \in [EditProcs -> Nat]
    /\ stopped \in [EditProcs -> {"no", "waiting", "yes"}]
    /\ runs \in 0..MaxRuns
    /\ renderRun \in [RunIds -> [status : {"none", "active", "done", "superseded", "canceled"},
                           content : 0..MaxEdits, by : 0..MaxRuns, linked : BOOLEAN]]
    /\ task \in [Tasks -> [pc : {"idle", "active", "prepare", "insert", "link", "supersede",
                                 "recheck", "cancelOld", "cancelNew"},
                           began : 0..MaxEdits, old : 0..MaxRuns, new : 0..MaxRuns, content : 0..MaxEdits]]

\* wg counts exactly the timers that will fire, the callbacks on their way
\* and the restart that runs: it never goes negative, which would panic.
WaitGroupBalanced ==
    \A p \in EditProcs : wg[p] = (IF armed[p] THEN 1 ELSE 0) + Cardinality(fired[p])
                             + (IF TaskAt(p, "idle") THEN 0 ELSE 1)

\* Stop returns only when no restart of the process is running or can start.
StopWaits ==
    \A p \in EditProcs : stopped[p] = "yes" => TaskAt(p, "idle") /\ ~armed[p] /\ fired[p] = {}

AtRest ==
    /\ \A t \in Tasks : TaskAt(t, "idle")
    /\ \A p \in EditProcs : emitted[p] = 0 /\ ~armed[p] /\ fired[p] = {}

\* Once the edits are handled, an active run renders the content as it is
\* now, however the edits fell on the processes; and the restarts of two
\* processes leave one of them, unless the run they replace ended by itself,
\* when both are kept.  It holds for any number of edits in one process; in two
\* processes a third edit may leave a run too many.
OneFreshRun ==
    LET active == {r \in 1..runs : renderRun[r].status = "active"}
    IN  AtRest /\ ~dropped =>
            /\ \A r \in active : renderRun[r].content = content /\ ready
            /\ Cardinality(active) <= 1 \/ \E r \in 1..runs : renderRun[r].status = "done"

\* An edit is not left waiting: every process comes to rest again and again,
\* and Stop returns, as long as the model has runs left.
RestartSettles == []<>(runs = MaxRuns \/ (AtRest /\ \A p \in EditProcs : stopped[p] # "waiting"))

\* A superseder neither panics nor leaves a restart behind when it stops, and
\* its restarts leave one run of the present content (supersede.go).
RestartSafe == RestartTypeOK /\ WaitGroupBalanced /\ StopWaits /\ OneFreshRun
=============================================================================
