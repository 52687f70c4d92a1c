--------------------------- MODULE StepLifecycle ---------------------------
(***************************************************************************)
(* What the pipeline engine promises about one tenant's steps, with the    *)
(* database, River, the workers and the reconciler left out: a step moves  *)
(* only along the table of transition.go, starts only when every step it   *)
(* depends on is done, and is never taken back once it is done.            *)
(***************************************************************************)
EXTENDS Naturals

CONSTANTS Steps,  \* the steps of every run that may be enqueued
          Deps    \* Deps[s]: the steps that s depends on

VARIABLE status   \* status[s]: pipeline_steps.status, or "absent" before Enqueue

StepStatus == {"pending", "queued", "running", "done", "failed", "canceled"}

\* The legal moves of a step that exists.
transitions ==
    [pending  |-> {"queued", "canceled"},
     queued   |-> {"running", "canceled"},
     running  |-> {"done", "failed", "queued", "canceled"},
     done     |-> {"queued"},
     failed   |-> {"queued"},
     canceled |-> {"queued"}]

CanTransition(from, to) ==
    from \in DOMAIN transitions /\ to \in transitions[from]

Terminal(st) == st \in {"done", "failed", "canceled"}

\* insertSteps: a step without dependencies is created queued, any other pending.
Created(s) == IF Deps[s] = {} THEN "queued" ELSE "pending"

(***************************************************************************)
(* The table admits done -> queued; nothing in the engine that this module *)
(* abstracts takes that move, and the promise is the stronger one.         *)
(***************************************************************************)
Moves(s, from, to) ==
    \/ from = "absent" /\ to = Created(s)
    \/ from # "done" /\ CanTransition(from, to)

\* s may be worked on only once its inputs exist.
InputsReady(s, st) ==
    st[s] \in {"queued", "running", "done"} => \A d \in Deps[s] : st[d] = "done"

Init == status = [s \in Steps |-> "absent"]

\* One transaction may move many steps.
Next ==
    /\ status' \in [Steps -> StepStatus \cup {"absent"}]
    /\ \A s \in Steps : \/ status'[s] = status[s]
                        \/ Moves(s, status[s], status'[s])
    /\ \A s \in Steps : InputsReady(s, status')

Spec == Init /\ [][Next]_status
=============================================================================
