----------------------------- MODULE MCGpuSlot -----------------------------
(***************************************************************************)
(* Instances of the GPU slot for TLC.                                      *)
(***************************************************************************)
EXTENDS GpuSlot, TLC

CONSTANTS p1, p2, j1, j2, j3, j4, m1, m2, b1, b2

\* One job of each model, or two and one; and an unload job.
OneEach == (j1 :> m1) @@ (j2 :> m2) @@ (j4 :> None)
WithUnload == (j1 :> m1) @@ (j2 :> m1) @@ (j3 :> m2) @@ (j4 :> None)
OwnBackends == (m1 :> b1) @@ (m2 :> b2)

SlotFaults == [drop |-> 1, crash |-> 1, oom |-> 1, error |-> 1]
ModelFaults == [drop |-> 0, crash |-> 0, oom |-> 3, error |-> 0]

\* The unload job meets a gpu_oom; the other faults meet each other when it is
\* done and no gpu_oom is left.
SlotInit ==
    /\ AllIdle
    /\ \/ /\ step = [j \in Jobs |-> "queued"]
          /\ budget = [SlotFaults EXCEPT !["drop"] = 0, !["crash"] = 0, !["error"] = 0]
       \/ /\ step = [[j \in Jobs |-> "queued"] EXCEPT ![j4] = "done"]
          /\ budget = [SlotFaults EXCEPT !["oom"] = 0]

SlotSpec == SlotInit /\ [][Next]_vars /\ Fairness
=============================================================================
