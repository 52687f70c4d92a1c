---------------------------- MODULE EventStream ----------------------------
(***************************************************************************)
(* Live progress: a change of a step is committed, then published with     *)
(* NOTIFY (pipeline/notify.go); the hub of the API process (sse/hub.go)    *)
(* holds one LISTEN connection and fans events out to its subscribers      *)
(* (sse/subscriber.go), whose frames a browser applies to its cached       *)
(* snapshot (web/src/api/sse-*.ts).                                        *)
(*                                                                         *)
(* One stream of one leader tab is modelled.  An event is a step, the      *)
(* version of its row and whether it is a transition.  The polling that    *)
(* some screens add as a safety net is left out: the properties are about  *)
(* the stream.                                                             *)
(***************************************************************************)
EXTENDS Naturals, Sequences, FiniteSets

CONSTANTS
    Steps,        \* the steps of the subscribed runs
    MaxVersion,   \* bound: changes of one step
    QueueSize,    \* transitionQueueSize
    OutSize,      \* outQueueSize
    Faults        \* how many faults of each kind may happen

FaultKinds == {"listen", "publish"}

ASSUME StreamAssumption ==
    /\ IsFiniteSet(Steps)
    /\ MaxVersion \in Nat \ {0} /\ QueueSize \in Nat \ {0} /\ OutSize \in Nat \ {0}
    /\ Faults \in [FaultKinds -> Nat]

VARIABLES
    db,         \* db[s]: pipeline_steps.version
    unpub,      \* events committed and not yet published
    wire,       \* notifications on the LISTEN connection
    hub,        \* Hub.Run: "listening", "lost" or "resynced"
    open,       \* the subscriber is registered
    trans,      \* Subscriber.transitions
    resync,     \* Subscriber.resync holds a token
    progress,   \* Subscriber.progress: version per step, 0 for none
    held,       \* the frames Subscriber.run is sending
    out,        \* Subscriber.out and the response body
    cache,      \* the cached snapshot: version per step, 0 before the first
    pending,    \* SseCachePatcher.pending: version per step, 0 for none
    asked,      \* a snapshot request is on its way to the API
    answer,     \* the snapshot on its way back, Nothing for none
    waiting,    \* a refetch waits for the next ready
    connected,  \* SseConnection.hasConnectedBefore
    owed,       \* history: the last published transition that the stream has
                \* neither sent nor covered by a resync, 0 for none
    budget

server == <<wire, hub, open, trans, resync, progress, held, out>>
client == <<cache, pending, asked, answer, waiting, connected>>
vars == <<db, unpub, server, client, owed, budget>>

Versions == 0..MaxVersion
Events == [step : Steps, ver : 1..MaxVersion, tr : BOOLEAN]
Nothing == [s \in Steps |-> 0]

\* Frames: a step event, or a bare ready or resync.
Frame(name) == [name |-> name]
StepFrame(e) == [name |-> "step", step |-> e.step, ver |-> e.ver]

\* The sequences that hold every element of S once.
Orders(S) == {q \in [1..Cardinality(S) -> S] : \A i, k \in DOMAIN q : i # k => q[i] # q[k]}

Spend(k) == budget[k] > 0 /\ budget' = [budget EXCEPT ![k] = @ - 1]
Larger(x, y) == IF x < y THEN y ELSE x

Init ==
    /\ db = [s \in Steps |-> 1]
    /\ unpub = {} /\ wire = <<>> /\ hub = "listening"
    /\ open = FALSE
    /\ trans = <<>> /\ resync = FALSE /\ progress = Nothing /\ held = <<>> /\ out = <<>>
    /\ cache = Nothing /\ pending = Nothing /\ asked = FALSE /\ answer = Nothing
    /\ waiting = FALSE /\ connected = FALSE
    /\ owed = Nothing
    /\ budget = Faults

-----------------------------------------------------------------------------
(* Producers *)

\* A change of a step commits; every change bumps its version.
Change(s, tr) ==
    /\ db[s] < MaxVersion
    /\ db' = [db EXCEPT ![s] = @ + 1]
    /\ unpub' = unpub \cup {[step |-> s, ver |-> db[s] + 1, tr |-> tr]}
    /\ UNCHANGED <<server, client, owed, budget>>

\* publishStepEvent, by whoever made the change: two actors publish in any
\* order.  Postgres delivers to the sessions that listen now.
Publish(e) ==
    /\ e \in unpub
    /\ unpub' = unpub \ {e}
    /\ wire' = IF hub = "listening" THEN Append(wire, e) ELSE wire
    /\ owed' = IF e.tr /\ open THEN [owed EXCEPT ![e.step] = Larger(@, e.ver)] ELSE owed
    /\ UNCHANGED <<db, hub, open, trans, resync, progress, held, out, client, budget>>

\* The NOTIFY fails, which is only logged, or the process dies before it.
PublishFails(e) ==
    /\ e \in unpub
    /\ Spend("publish")
    /\ unpub' = unpub \ {e}
    /\ UNCHANGED <<db, server, client, owed>>

-----------------------------------------------------------------------------
(* The hub and its subscriber *)

\* forceResync
ForceResync ==
    /\ progress' = Nothing
    /\ trans' = <<>>
    /\ resync' = TRUE

\* Mutant: a full queue drops the event.
OverflowDrops == UNCHANGED <<trans, resync>>

\* The transition queue is full: the subscriber must start over.
Overflow == ForceResync

\* Mutant: no bound on the transitions queued.
QueueUnbounded(e) ==
    /\ trans' = Append(trans, e)
    /\ progress' = [progress EXCEPT ![e.step] = 0]
    /\ UNCHANGED resync

Queue(e) ==
    IF Len(trans) < QueueSize
    THEN /\ trans' = Append(trans, e)
         /\ progress' = [progress EXCEPT ![e.step] = 0]
         /\ UNCHANGED resync
    ELSE Overflow /\ progress' = Nothing

\* Subscriber.deliver
Deliver(e) ==
    IF e.tr THEN Queue(e)
    ELSE progress' = [progress EXCEPT ![e.step] = e.ver] /\ UNCHANGED <<trans, resync>>

\* WaitForNotification and broadcast.
Receive ==
    /\ hub = "listening" /\ wire # <<>>
    /\ wire' = Tail(wire)
    /\ IF open THEN Deliver(Head(wire)) ELSE UNCHANGED <<trans, resync, progress>>
    /\ UNCHANGED <<db, unpub, hub, open, held, out, client, owed, budget>>

\* The LISTEN connection breaks, or cannot be made.
ListenLost ==
    /\ hub \in {"listening", "resynced"}
    /\ Spend("listen")
    /\ hub' = "lost" /\ wire' = <<>>
    /\ UNCHANGED <<db, unpub, open, trans, resync, progress, held, out, client, owed>>

\* Hub.Run comes round: resyncAll, then listenOnce.
ResyncAll ==
    /\ hub = "lost"
    /\ hub' = "resynced"
    /\ IF open THEN ForceResync ELSE UNCHANGED <<trans, resync, progress>>
    /\ UNCHANGED <<db, unpub, wire, open, held, out, client, owed, budget>>

Listen ==
    /\ hub = "resynced"
    /\ hub' = "listening"
    /\ UNCHANGED <<db, unpub, wire, open, trans, resync, progress, held, out, client, owed, budget>>

\* Subscriber.run takes one thing at a time and sends it before the next.
TakeTransition ==
    /\ open /\ held = <<>> /\ trans # <<>>
    /\ held' = <<StepFrame(Head(trans))>>
    /\ trans' = Tail(trans)
    /\ UNCHANGED <<db, unpub, wire, hub, open, resync, progress, out, client, owed, budget>>

TakeResync ==
    /\ open /\ held = <<>> /\ resync
    /\ held' = <<Frame("resync")>>
    /\ resync' = FALSE
    /\ UNCHANGED <<db, unpub, wire, hub, open, trans, progress, out, client, owed, budget>>

\* flushProgress, in the order of the map.
FlushProgress ==
    /\ open /\ held = <<>> /\ progress # Nothing
    /\ held' \in Orders({[name |-> "step", step |-> s, ver |-> progress[s]] :
                          s \in {t \in Steps : progress[t] # 0}})
    /\ progress' = Nothing
    /\ UNCHANGED <<db, unpub, wire, hub, open, trans, resync, out, client, owed, budget>>

Covered(f) ==
    IF f.name = "resync" THEN Nothing
    ELSE IF f.name = "step" /\ f.ver >= owed[f.step] THEN [owed EXCEPT ![f.step] = 0]
    ELSE owed

\* send blocks while the client does not read.
Send ==
    /\ open /\ held # <<>> /\ Len(out) < OutSize
    /\ out' = Append(out, Head(held))
    /\ held' = Tail(held)
    /\ owed' = Covered(Head(held))
    /\ UNCHANGED <<db, unpub, wire, hub, open, trans, resync, progress, client, budget>>

\* The client went away, the process shuts down, or maxStreamLifetime passed:
\* WriteTo still drains what run had sent, if there is a client to read it.
StreamEnds ==
    /\ open
    /\ open' = FALSE
    /\ trans' = <<>> /\ resync' = FALSE /\ progress' = Nothing /\ held' = <<>>
    /\ out' \in {out, <<>>}
    /\ owed' = Nothing
    /\ UNCHANGED <<db, unpub, wire, hub, client, budget>>

-----------------------------------------------------------------------------
(* The browser *)

\* runLoop comes round once the old stream is read to its end; Subscribe: the
\* first frame of a stream is ready.
Connect ==
    /\ ~open /\ out = <<>>
    /\ open' = TRUE
    /\ held' = <<Frame("ready")>>
    /\ UNCHANGED <<db, unpub, wire, hub, trans, resync, progress, out, client, owed, budget>>

\* Mutant: a reconnect does not count as a resync.
OnReadyFirstOnly ==
    /\ asked' = (asked \/ ~connected)
    /\ connected' = TRUE /\ waiting' = FALSE
    /\ UNCHANGED <<cache, pending, answer>>

\* ready: the first one enables the snapshot query, every later one is a resync
\* point; a snapshot is fetched, and one that was on its way is abandoned.
OnReady ==
    /\ asked' = TRUE /\ answer' = Nothing
    /\ connected' = TRUE /\ waiting' = FALSE
    /\ pending' = IF connected THEN Nothing ELSE pending
    /\ UNCHANGED cache

\* resync: invalidateSnapshots, which refetches at the next ready.
OnResync ==
    /\ pending' = Nothing /\ waiting' = TRUE
    /\ UNCHANGED <<cache, asked, answer, connected>>

\* SseCachePatcher.enqueue
OnStep(f) ==
    /\ pending' = [pending EXCEPT ![f.step] = Larger(@, f.ver)]
    /\ UNCHANGED <<cache, asked, answer, waiting, connected>>

ReadFrame ==
    /\ out # <<>>
    /\ out' = Tail(out)
    /\ CASE Head(out).name = "ready"  -> OnReady
         [] Head(out).name = "resync" -> OnResync
         [] OTHER                     -> OnStep(Head(out))
    /\ UNCHANGED <<db, unpub, wire, hub, open, trans, resync, progress, held, owed, budget>>

\* Mutant: applies an event whatever its version.
PatchAlways(s) == IF pending[s] # 0 THEN pending[s] ELSE cache[s]

\* patchIfNewer
Patched(s) == IF pending[s] > cache[s] THEN pending[s] ELSE cache[s]

\* SseCachePatcher.flush: an event for a step that is not cached is dropped.
Flush ==
    /\ pending # Nothing
    /\ cache' = [s \in Steps |-> IF cache[s] = 0 THEN 0 ELSE Patched(s)]
    /\ pending' = Nothing
    /\ UNCHANGED <<db, unpub, server, asked, answer, waiting, connected, owed, budget>>

\* The API reads the snapshot; the answer is on its way.
SnapshotRead ==
    /\ asked
    /\ asked' = FALSE /\ answer' = db
    /\ UNCHANGED <<db, unpub, server, cache, pending, waiting, connected, owed, budget>>

\* The answer replaces what is cached.
SnapshotLand ==
    /\ answer # Nothing
    /\ cache' = answer
    /\ answer' = Nothing
    /\ UNCHANGED <<db, unpub, server, pending, asked, waiting, connected, owed, budget>>

-----------------------------------------------------------------------------

Next ==
    \/ \E s \in Steps, tr \in BOOLEAN : Change(s, tr)
    \/ \E e \in unpub : Publish(e) \/ PublishFails(e)
    \/ Receive \/ ListenLost \/ ResyncAll \/ Listen
    \/ TakeTransition \/ TakeResync \/ FlushProgress \/ Send \/ StreamEnds
    \/ Connect \/ ReadFrame \/ Flush \/ SnapshotRead \/ SnapshotLand

Spec == Init /\ [][Next]_vars

(***************************************************************************)
(* The processes and the browser keep running: events are published, the   *)
(* hub reads and reconnects, run keeps choosing among what is ready, the   *)
(* browser reads, flushes, fetches and reconnects.  Streams last seconds   *)
(* to an hour, so that frames and snapshots get through now and then even  *)
(* if streams keep ending: strong fairness for those.                      *)
(***************************************************************************)
Fairness ==
    /\ WF_vars(\E e \in unpub : Publish(e))
    /\ WF_vars(Receive) /\ WF_vars(ResyncAll) /\ WF_vars(Listen)
    /\ SF_vars(TakeTransition) /\ SF_vars(TakeResync) /\ SF_vars(FlushProgress) /\ SF_vars(Send)
    /\ WF_vars(Connect) /\ SF_vars(ReadFrame) /\ WF_vars(Flush)
    /\ WF_vars(SnapshotRead) /\ SF_vars(SnapshotLand)

\* A stream may stay open for ever.
FairSpec == Spec /\ Fairness

\* The hub reads, run chooses fairly among what is ready, the client reads.
DeliverySpec ==
    /\ Spec
    /\ WF_vars(Receive)
    /\ SF_vars(TakeTransition) /\ SF_vars(TakeResync)
    /\ WF_vars(Send) /\ WF_vars(ReadFrame)

\* maxStreamLifetime: every stream ends and the browser reconnects.  Nothing is
\* asked of the hub or of the publishers.
LifetimeSpec ==
    /\ Spec
    /\ WF_vars(StreamEnds) /\ WF_vars(Connect)
    /\ SF_vars(Send) /\ SF_vars(ReadFrame)
    /\ WF_vars(SnapshotRead) /\ SF_vars(SnapshotLand)

-----------------------------------------------------------------------------

FrameRecords == [name : {"ready", "resync"}] \cup [name : {"step"}, step : Steps, ver : 1..MaxVersion]

\* Types, and the bounds of the queues.
TypeOK ==
    /\ db \in [Steps -> Versions]
    /\ unpub \subseteq Events
    /\ wire \in Seq(Events)
    /\ hub \in {"listening", "lost", "resynced"}
    /\ open \in BOOLEAN /\ resync \in BOOLEAN /\ waiting \in BOOLEAN /\ connected \in BOOLEAN
    /\ trans \in Seq(Events) /\ Len(trans) <= QueueSize
    /\ held \in Seq(FrameRecords)
    /\ out \in Seq(FrameRecords) /\ Len(out) <= OutSize
    /\ progress \in [Steps -> Versions]
    /\ cache \in [Steps -> Versions] /\ pending \in [Steps -> Versions]
    /\ owed \in [Steps -> Versions]
    /\ asked \in BOOLEAN /\ answer \in [Steps -> Versions]

\* Events only ever move a cached step forward: delayed, coalesced or swapped
\* ones never roll the view back (sse-cache.ts patchIfNewer).
EventsNeverRollBack ==
    [][\A s \in Steps : cache'[s] < cache[s] => answer # Nothing /\ cache' = answer]_vars

\* The newest transition of a step that the client does not know of yet, or a
\* resync after it, is still somewhere between Postgres and the client.
OnItsWay(s) ==
    \/ \E i \in DOMAIN wire : wire[i].tr /\ wire[i].step = s /\ wire[i].ver >= owed[s]
    \/ \E i \in DOMAIN trans : trans[i].step = s /\ trans[i].ver >= owed[s]
    \/ \E i \in DOMAIN held : held[i].name = "step" /\ held[i].step = s /\ held[i].ver >= owed[s]
    \/ resync
    \/ \E i \in DOMAIN held : held[i].name = "resync"

\* Nothing owed to an open stream has vanished, however full its queues are
\* (subscriber.go deliver); asked where the LISTEN connection does not break.
NothingVanishes == \A s \in Steps : owed[s] # 0 => open /\ OnItsWay(s)

\* Types and bounds, and every transition is on its way.
StreamSafe == TypeOK /\ NothingVanishes

\* A published transition reaches a subscriber, or the subscriber is told to
\* start over after it was published (subscriber.go deliver, hub.go resyncAll).
NoTransitionLost == \A s \in Steps : owed[s] # 0 ~> owed[s] = 0

\* The view catches up: when a step has stopped changing, the browser comes to
\* show its last version and keeps showing it (sse-bridge.ts, sse-cache.ts).
ViewConverges == \A s \in Steps : (db[s] = MaxVersion) ~> [](cache[s] = MaxVersion)
=============================================================================
