----------------------------- MODULE MCPipeline -----------------------------
(***************************************************************************)
(* Instances of the pipeline engine for TLC: the graphs of the runs.       *)
(***************************************************************************)
EXTENDS PipelineProperties, TLC

CONSTANTS a, b, c, d, r1, r2, x, w

\* c joins a and b, in one run.
JoinDeps == (a :> {}) @@ (b :> {}) @@ (c :> {a, b})
\* b follows a in run r1; run r2 has the one step c.
TwoRunDeps == (a :> {}) @@ (b :> {a}) @@ (c :> {})
\* c joins a and b, and d follows c.
TailDeps == (a :> {}) @@ (b :> {}) @@ (c :> {a, b}) @@ (d :> {c})
\* Independent steps.
FreeDeps == (a :> {}) @@ (b :> {}) @@ (c :> {})
ApartDeps == (a :> {}) @@ (b :> {})
SoloDeps == a :> {}

OneRun == [s \in Steps |-> r1]
TwoRuns == (a :> r1) @@ (b :> r1) @@ (c :> r2)
OneScope == [s \in Steps |-> x]

\* All ready steps of a transaction in one chunk, or each in a job of its own.
OneGroup == [s \in Steps |-> 0]
OwnGroups == (a :> 0) @@ (b :> 1) @@ (c :> 2)
TailGroups == (a :> 0) @@ (b :> 1) @@ (c :> 2) @@ (d :> 2)
PairGroups == (a :> 0) @@ (b :> 1)

NoFaults == [k \in FaultKinds |-> 0]
CrashFaults == [NoFaults EXCEPT !["crash"] = 1, !["stale"] = 1, !["db"] = 1]
RequestFaults == [NoFaults EXCEPT !["cancel"] = 1, !["retry"] = 1]
VerdictFaults == [NoFaults EXCEPT !["cancel"] = 1, !["crash"] = 1]
DueFaults == [CrashFaults EXCEPT !["kill"] = 1, !["snooze"] = 1]
RunFaults == [NoFaults EXCEPT !["stale"] = 1]
CancelFaults == [NoFaults EXCEPT !["cancel"] = 1]
RetryCancelFaults == [CancelFaults EXCEPT !["retry"] = 1]
=============================================================================
