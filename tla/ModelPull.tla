------------------------------ MODULE ModelPull ------------------------------
(***************************************************************************)
(* Model installs: the Model manager's install and pause requests, the     *)
(* models.pull step that the worker runs, the operator's `models pull` and *)
(* `models remove`, and the gate an engine passes before it loads a model  *)
(* (src/api/internal/models, modelsapi/handler.go, cmd/loomtale/models.go).*)
(*                                                                         *)
(* Models share files.  A file has a .part in the staging directory, its   *)
(* final path and a model_files row; pulls exclude each other per file by  *)
(* an flock that dies with its holder.  A file is Blocks blocks long; of   *)
(* its content only "these are the pinned bytes" matters.  The pipeline    *)
(* that retries a step is abstracted to its River attempts and its status. *)
(***************************************************************************)
EXTENDS Naturals, Sequences

CONSTANTS
    PullModels,       \* the manifest's entries
    PullFiles,        \* paths on the models volume
    FilesOf,          \* the files of an entry, in manifest order
    Licensed,         \* the entries whose licences are all allowlisted
    Pulls,            \* install requests, each with the step it enqueues
    NoPull,
    Blocks,           \* the size of a file
    MaxPullAttempts,  \* MaxTransientAttempts
    PullFaultKinds,   \* the faults and rare requests of a run
    MaxPullFaults     \* how many transient errors, or else one other fault

ASSUME PullAssumption ==
    /\ FilesOf \in [PullModels -> Seq(PullFiles)]
    /\ Licensed \subseteq PullModels
    /\ NoPull \notin Pulls
    /\ Blocks \in Nat \ {0} /\ MaxPullAttempts \in Nat \ {0}
    /\ PullFaultKinds \subseteq {"crash", "claim", "api", "disk", "error", "bad", "pause", "cli", "remove"}
    /\ MaxPullFaults \in Nat

VARIABLES
    installRow,   \* model_installs.status, "none" without a row
    installStep,  \* model_installs.step_id
    pausing,      \* the step a pause request still has to cancel
    finalFile,    \* the file at its final path
    partFile,     \* the .part: its length, and whether it is a prefix of the pinned bytes
    verified,     \* a model_files row with the pinned digest and size
    stagingLock,  \* who holds the flock of the file's staging lock
    pull,
    removing,     \* `models remove`: the model and its files still to delete
    pullFaults

pullVars == <<installRow, installStep, pausing, finalFile, partFile, verified,
              stagingLock, pull, removing, pullFaults>>
volume == <<finalFile, partFile, verified, stagingLock>>

InstallStatuses == {"none", "downloading", "paused", "installed", "failed"}
EmptyPart == [len |-> 0, ok |-> TRUE]
NoModel == "no model"
FreshPull == [model |-> NoModel, req |-> "none", step |-> "none", pc |-> "idle",
              attempt |-> 0, river |-> 0, k |-> 1, todo |-> {}, off |-> 0, hash |-> TRUE]
NoRemove == [model |-> NoModel, files |-> {}, row |-> FALSE]

ModelOf(p) == pull[p].model
\* The file the loop of Install is at.
FileOf(p) == FilesOf[ModelOf(p)][pull[p].k]
FilesDone(p) == pull[p].k > Len(FilesOf[ModelOf(p)])
HasLock(p) == \E f \in PullFiles : stagingLock[f] = p

\* Between attempts only the step's counters are kept.
IdlePull(p, step) ==
    [FreshPull EXCEPT !.model = pull[p].model, !.req = pull[p].req, !.step = step,
        !.attempt = IF step = "queued" THEN pull[p].attempt ELSE 0,
        !.river = IF step = "queued" THEN pull[p].river ELSE 0]
SetPull(p, r) == pull' = [pull EXCEPT ![p] = r]
GoPull(p, pc) == SetPull(p, [pull[p] EXCEPT !.pc = pc])
PullCost(f) == IF f = "error" THEN 1 ELSE MaxPullFaults
SpendPull(f) ==
    /\ f \in PullFaultKinds /\ pullFaults > 0 /\ pullFaults >= PullCost(f)
    /\ pullFaults' = pullFaults - PullCost(f)
SetInstall(m, s) == installRow' = [installRow EXCEPT ![m] = s]

\* The licence gate, run by the request, by Install and by the load gate.
LicenceGate(m) == m \in Licensed

PullInit ==
    /\ installRow = [m \in PullModels |-> "none"]
    /\ installStep = [m \in PullModels |-> NoPull]
    /\ pausing = [m \in PullModels |-> NoPull]
    /\ finalFile \in [PullFiles -> {"absent", "wrong", "right"}]
    /\ partFile = [f \in PullFiles |-> EmptyPart]
    /\ verified = [f \in PullFiles |-> FALSE]
    /\ stagingLock = [f \in PullFiles |-> NoPull]
    /\ pull = [p \in Pulls |-> FreshPull]
    /\ removing = NoRemove
    /\ pullFaults = MaxPullFaults

(***************************************************************************)
(* The requests of the Model manager.                                      *)
(***************************************************************************)

\* InstallModel up to the claim: the licence and the row are read first.
CheckInstall(p, m) ==
    /\ pull[p].req = "none" /\ pull[p].pc = "idle"
    /\ LicenceGate(m) /\ installRow[m] # "installed"
    /\ SetPull(p, [pull[p] EXCEPT !.model = m, !.req = "checked"])
    /\ UNCHANGED <<installRow, installStep, pausing, volume, removing, pullFaults>>

\* ClaimModelInstall: downloading, unless a pull is in flight (409).
ClaimInstall(p) ==
    /\ pull[p].req = "checked"
    /\ IF installRow[ModelOf(p)] = "downloading"
       THEN /\ SetPull(p, [pull[p] EXCEPT !.req = "done"])
            /\ UNCHANGED <<installRow, installStep>>
       ELSE /\ SetPull(p, [pull[p] EXCEPT !.req = "claimed"])
            /\ SetInstall(ModelOf(p), "downloading")
            /\ installStep' = [installStep EXCEPT ![ModelOf(p)] = NoPull]
    /\ UNCHANGED <<pausing, volume, removing, pullFaults>>

\* The pull step exists, and may start before the row names it.
EnqueuePull(p) ==
    /\ pull[p].req = "claimed"
    /\ SetPull(p, [pull[p] EXCEPT !.req = "enqueued", !.step = "queued"])
    /\ UNCHANGED <<installRow, installStep, pausing, volume, removing, pullFaults>>

\* MarkModelInstallFailed writes only over "downloading".
FailedRow(m) == [installRow EXCEPT ![m] = IF @ = "downloading" THEN "failed" ELSE @]

EnqueueFails(p) ==
    /\ pull[p].req = "claimed" /\ SpendPull("api")
    /\ SetPull(p, [pull[p] EXCEPT !.req = "done"])
    /\ installRow' = FailedRow(ModelOf(p))
    /\ UNCHANGED <<installStep, pausing, volume, removing>>

\* SetModelInstallStep, for a row that is still downloading.
LinkStep(p) ==
    /\ pull[p].req = "enqueued"
    /\ SetPull(p, [pull[p] EXCEPT !.req = "done"])
    /\ installStep' = [installStep EXCEPT ![ModelOf(p)] =
                          IF installRow[ModelOf(p)] = "downloading" THEN p ELSE @]
    /\ UNCHANGED <<installRow, pausing, volume, removing, pullFaults>>

\* PauseModelInstall: the row first, then CancelStep of the step it named.
PauseInstall(m) ==
    /\ installRow[m] = "downloading" /\ pausing[m] = NoPull /\ SpendPull("pause")
    /\ SetInstall(m, "paused")
    /\ pausing' = [pausing EXCEPT ![m] = installStep[m]]
    /\ UNCHANGED <<installStep, volume, pull, removing>>

CancelPaused(m) ==
    /\ pausing[m] # NoPull
    /\ pausing' = [pausing EXCEPT ![m] = NoPull]
    /\ SetPull(pausing[m], [pull[pausing[m]] EXCEPT
              !.step = IF @ \in {"queued", "running"} THEN "canceled" ELSE @])
    /\ UNCHANGED <<installRow, installStep, volume, removing, pullFaults>>

\* `loomtale models pull`: claims and installs in the operator's process.
\* No step retries it, so every error is its last attempt's.
CliPull(p, m) ==
    /\ pull[p].req = "none" /\ pull[p].pc = "idle"
    /\ LicenceGate(m) /\ installRow[m] # "downloading" /\ SpendPull("cli")
    /\ SetInstall(m, "downloading")
    /\ installStep' = [installStep EXCEPT ![m] = NoPull]
    /\ SetPull(p, [FreshPull EXCEPT !.model = m, !.req = "done", !.pc = "inspect",
                                !.attempt = MaxPullAttempts, !.river = MaxPullAttempts])
    /\ UNCHANGED <<pausing, volume, removing>>

(***************************************************************************)
(* One attempt of the pull step.                                           *)
(***************************************************************************)

StartAttempt(p) ==
    /\ pull[p].step = "queued" /\ pull[p].pc = "idle"
    /\ SetPull(p, [pull[p] EXCEPT !.step = "running", !.pc = "inspect", !.k = 1, !.todo = {},
                              !.attempt = @ + 1, !.river = @ + 1])
    /\ UNCHANGED <<installRow, installStep, pausing, volume, removing, pullFaults>>

\* A job attempt whose claim failed in the database: River counts it, the
\* step does not.  A job out of attempts is replaced by the reconciler.
ClaimFails(p) ==
    /\ pull[p].step = "queued" /\ pull[p].pc = "idle" /\ SpendPull("claim")
    /\ SetPull(p, [pull[p] EXCEPT !.river = (@ + 1) % MaxPullAttempts])
    /\ UNCHANGED <<installRow, installStep, pausing, volume, removing>>

\* pullOutcome: this error is the last of the row's download.
MarksFailed(p, permanent) == permanent \/ pull[p].attempt >= MaxPullAttempts

\* What the engine makes of the step's error; a canceled step stays so.
PullStepAfter(p, permanent) ==
    IF pull[p].step # "running" THEN pull[p].step
    ELSE IF permanent \/ pull[p].river >= MaxPullAttempts THEN "failed" ELSE "queued"

\* Mutant: the lock file is not unlocked.
KeepFlock(p) == stagingLock

DropFlock(p) == [f \in PullFiles |-> IF stagingLock[f] = p THEN NoPull ELSE stagingLock[f]]

\* The attempt ends with an error: PullStep.Run, then the engine.
FailPull(p, permanent) ==
    /\ installRow' = IF MarksFailed(p, permanent) THEN FailedRow(ModelOf(p)) ELSE installRow
    /\ stagingLock' = DropFlock(p)
    /\ SetPull(p, IdlePull(p, PullStepAfter(p, permanent)))
    /\ UNCHANGED <<installStep, pausing, removing>>

\* The step was canceled and its heartbeat noticed: the row is left alone,
\* the .part stays for the next pull.
StopCanceled(p) ==
    /\ pull[p].pc # "idle" /\ pull[p].step = "canceled"
    /\ stagingLock' = DropFlock(p)
    /\ SetPull(p, IdlePull(p, "canceled"))
    /\ UNCHANGED <<installRow, installStep, pausing, finalFile, partFile, verified, removing, pullFaults>>

\* The process dies; the kernel drops its flock and the reconciler requeues
\* the step, with a new job when River has no attempt left.
PullCrash(p) ==
    /\ pull[p].pc # "idle" /\ pull[p].step # "none" /\ SpendPull("crash")
    /\ stagingLock' = DropFlock(p)
    /\ SetPull(p, [IdlePull(p, IF pull[p].step = "running" THEN "queued" ELSE pull[p].step)
                      EXCEPT !.river = @ % MaxPullAttempts])
    /\ UNCHANGED <<installRow, installStep, pausing, finalFile, partFile, verified, removing>>

\* A timeout, a broken connection, an unexpected status: transient, and
\* whatever reached the .part stays.
TransientError(p) ==
    /\ pull[p].pc \in {"wait", "request", "body"} /\ SpendPull("error")
    /\ FailPull(p, FALSE)
    /\ UNCHANGED <<finalFile, partFile, verified>>

\* inspect, first branch: the file is known to be the pinned one.
FileKnown(f) == finalFile[f] # "absent" /\ verified[f]
\* inspect, second branch: it hashes right and is adopted.
FileAdoptable(f) == finalFile[f] = "right" /\ ~verified[f]

\* Install's first loop: what each file needs.
InspectFile(p) ==
    /\ pull[p].pc = "inspect" /\ ~FilesDone(p)
    /\ IF FileAdoptable(FileOf(p)) THEN GoPull(p, "adopt")
       ELSE SetPull(p, [pull[p] EXCEPT !.k = @ + 1,
                       !.todo = IF FileKnown(FileOf(p)) THEN @ ELSE @ \cup {FileOf(p)}])
    /\ UNCHANGED <<installRow, installStep, pausing, volume, removing, pullFaults>>

\* MarkFileVerified of an adopted file, before or under the lock.
AdoptFile(p) ==
    /\ pull[p].pc = "adopt"
    /\ verified' = [verified EXCEPT ![FileOf(p)] = TRUE]
    /\ stagingLock' = DropFlock(p)
    /\ SetPull(p, [pull[p] EXCEPT !.k = @ + 1, !.pc = IF HasLock(p) THEN "wait" ELSE "inspect"])
    /\ UNCHANGED <<installRow, installStep, pausing, finalFile, partFile, removing, pullFaults>>

\* The disk pre-flight, for what is still to download.
Preflight(p) ==
    /\ pull[p].pc = "inspect" /\ FilesDone(p)
    /\ \/ /\ SetPull(p, [pull[p] EXCEPT !.pc = "wait", !.k = 1])
          /\ UNCHANGED <<installRow, installStep, pausing, volume, removing, pullFaults>>
       \/ /\ pull[p].todo # {} /\ SpendPull("disk")
          /\ FailPull(p, TRUE)
          /\ UNCHANGED <<finalFile, partFile, verified>>

\* Install's second loop passes over a file its plan says is verified.
SkipVerified(p) ==
    /\ pull[p].pc = "wait" /\ ~FilesDone(p) /\ FileOf(p) \notin pull[p].todo
    /\ SetPull(p, [pull[p] EXCEPT !.k = @ + 1])
    /\ UNCHANGED <<installRow, installStep, pausing, volume, removing, pullFaults>>

\* lockStaging: LOCK_EX | LOCK_NB, polled.
FlockFree(p) == stagingLock[FileOf(p)] = NoPull

LockStaging(p) ==
    /\ pull[p].pc = "wait" /\ ~FilesDone(p) /\ FileOf(p) \in pull[p].todo
    /\ FlockFree(p)
    /\ stagingLock' = [stagingLock EXCEPT ![FileOf(p)] = p]
    /\ GoPull(p, "recheck")
    /\ UNCHANGED <<installRow, installStep, pausing, finalFile, partFile, verified, removing, pullFaults>>

\* downloadExclusive inspects again, since the other pull may have finished;
\* otherwise downloadFile opens the .part, hashes what is there and starts
\* over when it is too long.
Recheck(p) ==
    LET f == FileOf(p)
        here == IF partFile[f].len > Blocks THEN EmptyPart ELSE partFile[f]
    IN  /\ pull[p].pc = "recheck"
        /\ \/ /\ FileKnown(f)
              /\ stagingLock' = DropFlock(p)
              /\ SetPull(p, [pull[p] EXCEPT !.pc = "wait", !.k = @ + 1])
              /\ UNCHANGED partFile
           \/ /\ FileAdoptable(f)
              /\ GoPull(p, "adopt")
              /\ UNCHANGED <<stagingLock, partFile>>
           \/ /\ ~FileKnown(f) /\ ~FileAdoptable(f)
              /\ partFile' = [partFile EXCEPT ![f] = here]
              /\ SetPull(p, [pull[p] EXCEPT !.off = here.len, !.hash = here.ok,
                                !.pc = IF here.len < Blocks THEN "request" ELSE "verify"])
              /\ UNCHANGED stagingLock
        /\ UNCHANGED <<installRow, installStep, pausing, finalFile, verified, removing, pullFaults>>

\* fetch: 206 continues at the offset, 200 restarts from byte zero, another
\* status is refused.
Respond(p) ==
    /\ pull[p].pc = "request"
    /\ \/ /\ pull[p].off > 0
          /\ GoPull(p, "body")
          /\ UNCHANGED <<installRow, installStep, pausing, volume, removing, pullFaults>>
       \/ /\ partFile' = [partFile EXCEPT ![FileOf(p)] = EmptyPart]
          /\ SetPull(p, [pull[p] EXCEPT !.pc = "body", !.off = 0, !.hash = TRUE])
          /\ UNCHANGED <<installRow, installStep, pausing, finalFile, verified, stagingLock, removing, pullFaults>>
       \/ /\ SpendPull("error")
          /\ FailPull(p, TRUE)
          /\ UNCHANGED <<finalFile, partFile, verified>>

\* One read of the body written at the handle's offset: at most one block
\* past the pinned size.  Beyond the end of the .part it leaves a hole.
WriteBlock(p, good) ==
    LET f == FileOf(p) IN
    /\ pull[p].pc = "body" /\ pull[p].off <= Blocks
    /\ IF good THEN pull[p].off < Blocks /\ UNCHANGED pullFaults ELSE SpendPull("bad")
    /\ partFile' = [partFile EXCEPT ![f] =
          [len |-> IF @.len > pull[p].off THEN @.len ELSE pull[p].off + 1,
           ok |-> @.ok /\ good /\ pull[p].off <= @.len]]
    /\ SetPull(p, [pull[p] EXCEPT !.off = @ + 1, !.hash = @ /\ good])
    /\ UNCHANGED <<installRow, installStep, pausing, finalFile, verified, stagingLock, removing>>

\* End of the body; a short one is an error of the server.
EndBody(p) ==
    /\ pull[p].pc = "body"
    /\ IF pull[p].off < Blocks THEN SpendPull("error") ELSE UNCHANGED pullFaults
    /\ GoPull(p, "verify")
    /\ UNCHANGED <<installRow, installStep, pausing, volume, removing>>

\* Mutant: the size is checked, the digest is not.
SizeOnly(p) == partFile[FileOf(p)].len = Blocks

\* The size of the .part and the digest of what was hashed.
MatchesPin(p) == partFile[FileOf(p)].len = Blocks /\ pull[p].hash

\* A mismatch removes the .part; otherwise it is renamed into place.
VerifyPart(p) ==
    LET f == FileOf(p) IN
    /\ pull[p].pc = "verify"
    /\ partFile' = [partFile EXCEPT ![f] = EmptyPart]
    /\ IF MatchesPin(p)
       THEN /\ finalFile' = [finalFile EXCEPT ![f] = IF partFile[f].ok THEN "right" ELSE "wrong"]
            /\ SetPull(p, [pull[p] EXCEPT !.pc = "mark", !.off = 0, !.hash = TRUE])
            /\ UNCHANGED <<installRow, installStep, pausing, stagingLock, removing>>
       ELSE FailPull(p, TRUE) /\ UNCHANGED finalFile
    /\ UNCHANGED <<verified, pullFaults>>

\* Recorded before the lock is released.
MarkFileVerified(p) ==
    /\ pull[p].pc = "mark"
    /\ verified' = [verified EXCEPT ![FileOf(p)] = TRUE]
    /\ stagingLock' = DropFlock(p)
    /\ SetPull(p, [pull[p] EXCEPT !.pc = "wait", !.k = @ + 1])
    /\ UNCHANGED <<installRow, installStep, pausing, finalFile, partFile, removing, pullFaults>>

\* MarkModelInstalled is unconditional; then the engine commits the step.
MarkInstalled(p) ==
    /\ pull[p].pc = "wait" /\ FilesDone(p)
    /\ SetInstall(ModelOf(p), "installed")
    /\ SetPull(p, IdlePull(p, IF pull[p].step = "running" THEN "done" ELSE pull[p].step))
    /\ UNCHANGED <<installStep, pausing, volume, removing, pullFaults>>

(***************************************************************************)
(* `loomtale models remove`.                                               *)
(***************************************************************************)

\* The files no other installed model uses, read once.
StartRemove(m) ==
    LET shared == UNION {{FilesOf[n][i] : i \in 1..Len(FilesOf[n])} :
                            n \in {n \in PullModels \ {m} : installRow[n] = "installed"}}
    IN  /\ removing = NoRemove /\ SpendPull("remove")
        /\ removing' = [model |-> m, row |-> FALSE,
                        files |-> {FilesOf[m][i] : i \in 1..Len(FilesOf[m])} \ shared]
        /\ UNCHANGED <<installRow, installStep, pausing, volume, pull>>

\* The file goes before its row.
RemoveFile(f) ==
    /\ f \in removing.files
    /\ IF removing.row
       THEN /\ verified' = [verified EXCEPT ![f] = FALSE]
            /\ removing' = [removing EXCEPT !.row = FALSE, !.files = @ \ {f}]
            /\ UNCHANGED finalFile
       ELSE /\ finalFile' = [finalFile EXCEPT ![f] = "absent"]
            /\ removing' = [removing EXCEPT !.row = TRUE]
            /\ UNCHANGED verified
    /\ UNCHANGED <<installRow, installStep, pausing, partFile, stagingLock, pull, pullFaults>>

DeleteInstall ==
    /\ removing.model # NoModel /\ removing.files = {}
    /\ SetInstall(removing.model, "none")
    /\ installStep' = [installStep EXCEPT ![removing.model] = NoPull]
    /\ removing' = NoRemove
    /\ UNCHANGED <<pausing, volume, pull, pullFaults>>

(***************************************************************************)
(* The specification.                                                      *)
(***************************************************************************)

\* A step of request or attempt p that is not a fault.
PullStep(p) ==
    \/ ClaimInstall(p) \/ EnqueuePull(p) \/ LinkStep(p)
    \/ StartAttempt(p) \/ StopCanceled(p)
    \/ InspectFile(p) \/ AdoptFile(p) \/ Preflight(p) \/ SkipVerified(p)
    \/ LockStaging(p) \/ Recheck(p) \/ Respond(p)
    \/ WriteBlock(p, TRUE) \/ EndBody(p) \/ VerifyPart(p)
    \/ MarkFileVerified(p) \/ MarkInstalled(p)

RemoveStep == (\E f \in PullFiles : RemoveFile(f)) \/ DeleteInstall

PullNext ==
    \/ \E p \in Pulls :
          \/ PullStep(p)
          \/ EnqueueFails(p) \/ ClaimFails(p) \/ PullCrash(p) \/ TransientError(p)
          \/ WriteBlock(p, FALSE)
          \/ \E m \in PullModels : CheckInstall(p, m) \/ CliPull(p, m)
    \/ \E m \in PullModels : PauseInstall(m) \/ CancelPaused(m) \/ StartRemove(m)
    \/ RemoveStep

\* Requests, the worker and the operator's command run on; River retries.
PullFairness ==
    /\ \A p \in Pulls : WF_pullVars(PullStep(p))
    /\ \A m \in PullModels : WF_pullVars(CancelPaused(m))

PullSpec == PullInit /\ [][PullNext]_pullVars
PullFairSpec == PullSpec /\ PullFairness

(***************************************************************************)
(* Properties.                                                             *)
(***************************************************************************)

\* Types; whoever works on a .part holds its lock.
PullTypeOK ==
    /\ installRow \in [PullModels -> InstallStatuses]
    /\ installStep \in [PullModels -> Pulls \cup {NoPull}]
    /\ pausing \in [PullModels -> Pulls \cup {NoPull}]
    /\ finalFile \in [PullFiles -> {"absent", "wrong", "right"}]
    /\ partFile \in [PullFiles -> [len : Nat, ok : BOOLEAN]]
    /\ verified \in [PullFiles -> BOOLEAN]
    /\ stagingLock \in [PullFiles -> Pulls \cup {NoPull}]
    /\ pull \in [Pulls -> [model : PullModels \cup {NoModel},
                           req : {"none", "checked", "claimed", "enqueued", "done"},
                           step : {"none", "queued", "running", "done", "failed", "canceled"},
                           pc : {"idle", "inspect", "adopt", "wait", "recheck",
                                 "request", "body", "verify", "mark"},
                           attempt : Nat, river : Nat, k : Nat \ {0},
                           todo : SUBSET PullFiles, off : Nat, hash : BOOLEAN]]
    /\ removing \in [model : PullModels \cup {NoModel}, files : SUBSET PullFiles, row : BOOLEAN]
    /\ pullFaults \in 0..MaxPullFaults
    /\ \A p \in Pulls : pull[p].pc \in {"recheck", "request", "body", "verify"} => stagingLock[FileOf(p)] = p

\* LoadGate.Check: licensed, every file verified and present with its size.
LoadGate(m) == LicenceGate(m) /\ \A i \in 1..Len(FilesOf[m]) : FileKnown(FilesOf[m][i])

\* An engine never loads bytes other than the pinned ones: whatever the
\* pulls, crashes, resumes and removals that touched a shared file, when the
\* load gate lets a model pass, every file of it is the pinned one.
LoadsPinnedBytes ==
    \A m \in PullModels : LoadGate(m) =>
        \A i \in 1..Len(FilesOf[m]) : finalFile[FilesOf[m][i]] = "right"

PullWorking(p) == pull[p].pc # "idle" \/ pull[p].step = "queued" \/ pull[p].req = "claimed"

\* PullStep.Run's promise: no install is left "downloading" with nothing
\* running that will end it, so the owner can always resume.
NoOrphanDownload ==
    \A m \in PullModels : installRow[m] = "downloading" =>
        \E p \in Pulls : ModelOf(p) = m /\ PullWorking(p)

\* Every pull ends: no pull waits for ever on a staging lock, or on a holder
\* that died.
PullsEnd == <>[](\A p \in Pulls : pull[p].pc = "idle")

\* What an engine gets is what was pinned, whoever works on a .part holds its
\* lock, and no download is left without a pull (download.go, LoadGate.Check).
PullSafe == PullTypeOK /\ LoadsPinnedBytes /\ NoOrphanDownload
=============================================================================
