----------------------------- MODULE PullProofs -----------------------------
(***************************************************************************)
(* What an engine loads is what was pinned, whoever works on a .part holds *)
(* its lock, and no download is left without a pull: for any manifest, any *)
(* number of pulls and any size of a file.                                 *)
(*                                                                         *)
(* Three inductive invariants: of one pull's record, of the volume and of  *)
(* the install rows.                                                       *)
(***************************************************************************)
EXTENDS ModelPull, TLAPS

PullRecords == [model : PullModels \cup {NoModel},
                req : {"none", "checked", "claimed", "enqueued", "done"},
                step : {"none", "queued", "running", "done", "failed", "canceled"},
                pc : {"idle", "inspect", "adopt", "wait", "recheck", "request", "body", "verify", "mark"},
                attempt : Nat, river : Nat, k : Nat \ {0},
                todo : SUBSET PullFiles, off : Nat, hash : BOOLEAN]

FileIn(r) == FilesOf[r.model][r.k]
\* At one file of the model; and where the file's lock is held.
AtFile == {"adopt", "recheck", "request", "body", "verify", "mark"}
Locked == AtFile \ {"adopt"}

\* What a pull's place implies of its record.
PullOK(r) ==
    /\ r \in PullRecords
    /\ r.pc # "idle" \/ r.step # "none" \/ r.req \in {"checked", "claimed", "enqueued"} => r.model \in PullModels
    /\ r.pc # "idle" => r.k <= Len(FilesOf[r.model]) + 1
    /\ r.pc \in AtFile => r.k <= Len(FilesOf[r.model])
    /\ r.req \in {"none", "checked", "claimed"} => r.step = "none" /\ r.pc = "idle"
    /\ r.step = "queued" => r.pc = "idle"

PullsOK == pull \in [Pulls -> PullRecords] /\ \A p \in Pulls : PullOK(pull[p])

VolumeTypes ==
    /\ finalFile \in [PullFiles -> {"absent", "wrong", "right"}]
    /\ partFile \in [PullFiles -> [len : Nat, ok : BOOLEAN]]
    /\ verified \in [PullFiles -> BOOLEAN]
    /\ stagingLock \in [PullFiles -> Pulls \cup {NoPull}]

\* A pull's share of the volume: the one lock it may hold is that of its file;
\* its offset and running digest are those of the .part; and the file it is
\* about to record is not a wrong one.
VolumeAt(p) ==
    /\ \A f \in PullFiles : stagingLock[f] = p => pull[p].pc \in AtFile /\ FileIn(pull[p]) = f
    /\ pull[p].pc \in Locked => stagingLock[FileIn(pull[p])] = p
    /\ pull[p].pc \in {"request", "body", "verify"} =>
          partFile[FileIn(pull[p])].len = pull[p].off /\ partFile[FileIn(pull[p])].ok = pull[p].hash
    /\ pull[p].pc \in {"adopt", "mark"} => finalFile[FileIn(pull[p])] # "wrong"

VolumeOK ==
    /\ VolumeTypes
    /\ \A p \in Pulls : VolumeAt(p)
    /\ \A f \in PullFiles : verified[f] => finalFile[f] # "wrong"

\* A pull that will end its model's download.
Owner(r) ==
    \/ r.req = "claimed"
    \/ r.step = "queued"
    \/ r.step = "running" /\ r.pc # "idle"
    \/ r.step = "none" /\ r.pc # "idle" /\ r.attempt >= MaxPullAttempts

RowTypes ==
    /\ installRow \in [PullModels -> InstallStatuses]
    /\ installStep \in [PullModels -> Pulls \cup {NoPull}]
    /\ pausing \in [PullModels -> Pulls \cup {NoPull}]
    /\ removing \in [model : PullModels \cup {NoModel}, files : SUBSET PullFiles, row : BOOLEAN]
    /\ pullFaults \in 0..MaxPullFaults

\* A pause names a pull of its model that has made its claim.
NamedPull(m, p) == p # NoPull => pull[p].model = m /\ pull[p].req \in {"enqueued", "done"}

\* While errors are still to come River and the step count the same attempts;
\* a downloading row has a pull to end it that no pause is about to cancel.
RowsOK ==
    /\ RowTypes
    /\ \A m \in PullModels : NamedPull(m, installStep[m]) /\ NamedPull(m, pausing[m])
    /\ pullFaults > 0 => \A p \in Pulls : pull[p].river = pull[p].attempt
    /\ \A m \in PullModels : installRow[m] = "downloading" =>
          \E p \in Pulls : pull[p].model = m /\ Owner(pull[p]) /\ pausing[m] # p

-----------------------------------------------------------------------------
(* Records *)

LEMMA FileTyped ==
    ASSUME NEW r, PullOK(r), r.pc \in AtFile
    PROVE  FileIn(r) \in PullFiles
<1>1. r.model \in PullModels /\ r.k \in Nat \ {0} /\ r.k <= Len(FilesOf[r.model])
  BY DEF PullOK, PullRecords, AtFile
<1>2. FilesOf[r.model] \in Seq(PullFiles)
  BY <1>1, PullAssumption
<1> QED  BY <1>1, <1>2 DEF FileIn

LEMMA FreshPullIs ==
    /\ FreshPull \in PullRecords /\ FreshPull.model = NoModel /\ FreshPull.req = "none" /\ FreshPull.step = "none"
    /\ FreshPull.pc = "idle" /\ FreshPull.attempt = 0 /\ FreshPull.river = 0 /\ FreshPull.k = 1
BY DEF FreshPull, PullRecords

\* A pull between two attempts.
LEMMA IdlePullIs ==
    ASSUME NEW p \in Pulls, pull[p] \in PullRecords,
           NEW s \in {"none", "queued", "running", "done", "failed", "canceled"}
    PROVE  LET r == IdlePull(p, s)
           IN  /\ r \in PullRecords /\ r.model = pull[p].model /\ r.req = pull[p].req /\ r.step = s
               /\ r.pc = "idle" /\ r.k = 1
               /\ r.attempt = (IF s = "queued" THEN pull[p].attempt ELSE 0)
               /\ r.river = (IF s = "queued" THEN pull[p].river ELSE 0)
<1> DEFINE a == IF s = "queued" THEN pull[p].attempt ELSE 0
           v == IF s = "queued" THEN pull[p].river ELSE 0
           m == pull[p].model
           q == pull[p].req
<1>1. a \in Nat /\ v \in Nat /\ m \in PullModels \cup {NoModel}
      /\ q \in {"none", "checked", "claimed", "enqueued", "done"}
  BY DEF PullRecords
<1>2. IdlePull(p, s) = [FreshPull EXCEPT !.model = m, !.req = q, !.step = s, !.attempt = a, !.river = v]
  BY DEF IdlePull
<1> HIDE DEF a, v, m, q
<1> DEFINE f == FreshPull
<1>3. f \in PullRecords /\ f.pc = "idle" /\ f.k = 1
  BY FreshPullIs
<1> HIDE DEF f
<1> DEFINE r == [f EXCEPT !.model = m, !.req = q, !.step = s, !.attempt = a, !.river = v]
<1>4. r \in PullRecords
  <2> DEFINE g == [f EXCEPT !.model = m, !.req = q]
             h == [g EXCEPT !.step = s]
             i == [h EXCEPT !.attempt = a]
  <2>1. g \in PullRecords
    BY <1>1, <1>3 DEF PullRecords
  <2> HIDE DEF g
  <2>2. h \in PullRecords
    BY <2>1 DEF PullRecords
  <2> HIDE DEF h
  <2>3. i \in PullRecords
    BY <1>1, <2>2 DEF PullRecords
  <2> HIDE DEF i
  <2>4. [i EXCEPT !.river = v] \in PullRecords
    BY <1>1, <2>3 DEF PullRecords
  <2>5. r = [i EXCEPT !.river = v]
    BY DEF g, h, i
  <2> QED  BY <2>4, <2>5
<1>5. /\ r.model = m /\ r.req = q /\ r.step = s /\ r.attempt = a /\ r.river = v
      /\ r.pc = f.pc /\ r.k = f.k
  BY <1>3 DEF PullRecords
<1>6. IdlePull(p, s) = r
  BY <1>2 DEF f
<1> HIDE DEF r
<1> QED  BY <1>3, <1>4, <1>5, <1>6 DEF a, v, m, q

\* A step of one pull keeps the records of the others.
LEMMA OnePull ==
    ASSUME PullsOK, NEW p \in Pulls, NEW r, PullOK(r), pull' = [pull EXCEPT ![p] = r]
    PROVE  PullsOK' /\ pull'[p] = r /\ \A q \in Pulls \ {p} : pull'[q] = pull[q]
BY DEF PullsOK, PullOK

-----------------------------------------------------------------------------
(* The volume *)

\* A step of pull p keeps the volume in order when it touches only locks that
\* are free or its own, only the .part of a file it has locked, and leaves no
\* wrong file behind that was not there.
LEMMA VolumeKept ==
    ASSUME PullsOK, VolumeOK, NEW p \in Pulls, VolumeTypes',
           \A q \in Pulls \ {p} : pull'[q] = pull[q],
           \A f \in PullFiles :
              /\ stagingLock'[f] = stagingLock[f] \/ {stagingLock[f], stagingLock'[f]} \subseteq {p, NoPull}
              /\ partFile'[f] = partFile[f] \/ stagingLock[f] = p
              /\ finalFile'[f] = finalFile[f] \/ finalFile'[f] # "wrong"
              /\ verified'[f] => verified[f] \/ finalFile'[f] # "wrong",
           VolumeAt(p)'
    PROVE  VolumeOK'
<1>1. ASSUME NEW q \in Pulls, q # p PROVE VolumeAt(q)'
  <2>1. pull'[q] = pull[q] /\ VolumeAt(q) /\ PullOK(pull[q]) /\ q # NoPull
    BY <1>1, PullAssumption DEF VolumeOK, PullsOK
  <2>2. \A f \in PullFiles : stagingLock'[f] = q <=> stagingLock[f] = q
    BY <1>1, <2>1
  <2>3. CASE pull[q].pc \notin AtFile
    BY <2>1, <2>2, <2>3 DEF VolumeAt, AtFile, Locked
  <2>4. CASE pull[q].pc \in AtFile
    <3>1. FileIn(pull[q]) \in PullFiles
      BY <2>1, <2>4, FileTyped
    <3>2. pull[q].pc \in Locked => stagingLock[FileIn(pull[q])] = q /\ partFile'[FileIn(pull[q])] = partFile[FileIn(pull[q])]
      BY <1>1, <2>1, <3>1 DEF VolumeAt
    <3>3. finalFile[FileIn(pull[q])] # "wrong" => finalFile'[FileIn(pull[q])] # "wrong"
      BY <3>1
    <3> QED  BY <2>1, <2>2, <3>1, <3>2, <3>3 DEF VolumeAt, AtFile, Locked
  <2> QED  BY <2>3, <2>4
<1>2. \A f \in PullFiles : verified'[f] => finalFile'[f] # "wrong"
  BY DEF VolumeOK
<1> QED  BY <1>1, <1>2 DEF VolumeOK

\* A pull without a lock, away from any file.
LEMMA VolumeAway ==
    ASSUME NEW p \in Pulls, pull'[p].pc \notin AtFile, \A f \in PullFiles : stagingLock'[f] # p
    PROVE  VolumeAt(p)'
BY DEF VolumeAt, AtFile, Locked

\* The flock of p is free, and the others are where they were.
LEMMA FlockDropped ==
    ASSUME VolumeTypes, NEW p \in Pulls, stagingLock' = DropFlock(p)
    PROVE  /\ stagingLock' \in [PullFiles -> Pulls \cup {NoPull}]
           /\ \A f \in PullFiles :
                /\ stagingLock'[f] # p
                /\ stagingLock'[f] = stagingLock[f] \/ {stagingLock[f], stagingLock'[f]} \subseteq {p, NoPull}
BY PullAssumption DEF VolumeTypes, DropFlock

-----------------------------------------------------------------------------
(* The install rows *)

\* A step of pull p that makes no claim: its model stays, and if it would have
\* ended a download that goes on, it still will.
LEMMA RowsKept ==
    ASSUME PullsOK, RowsOK, NEW p \in Pulls, NEW r, PullOK(r), pull' = [pull EXCEPT ![p] = r],
           r.model = pull[p].model,
           pull[p].req \in {"enqueued", "done"} => r.req \in {"enqueued", "done"},
           installRow' \in [PullModels -> InstallStatuses], UNCHANGED <<installStep, pausing, removing>>,
           \A m \in PullModels : installRow'[m] = "downloading" => installRow[m] = "downloading",
           Owner(pull[p]) => Owner(r) \/ installRow'[pull[p].model] # "downloading",
           pullFaults' \in 0..MaxPullFaults,
           pullFaults' > 0 => pullFaults > 0 /\ r.river = r.attempt
    PROVE  RowsOK'
<1>1. pull'[p] = r /\ \A q \in Pulls \ {p} : pull'[q] = pull[q]
  BY OnePull
<1>2. RowTypes'
  BY DEF RowsOK, RowTypes
<1>3. ASSUME NEW m \in PullModels, NEW q \in Pulls \cup {NoPull}, NamedPull(m, q) PROVE NamedPull(m, q)'
  BY <1>1, <1>3 DEF NamedPull
<1>4. \A m \in PullModels : NamedPull(m, installStep[m])' /\ NamedPull(m, pausing[m])'
  BY <1>3 DEF RowsOK, RowTypes
<1>5. pullFaults' > 0 => \A q \in Pulls : pull'[q].river = pull'[q].attempt
  BY <1>1 DEF RowsOK
<1>6. ASSUME NEW m \in PullModels, installRow'[m] = "downloading"
      PROVE  \E q \in Pulls : pull'[q].model = m /\ Owner(pull'[q]) /\ pausing'[m] # q
  <2>1. PICK q \in Pulls : pull[q].model = m /\ Owner(pull[q]) /\ pausing[m] # q
    BY <1>6 DEF RowsOK
  <2>2. CASE q = p
    BY <1>1, <1>6, <2>1, <2>2
  <2>3. CASE q # p
    BY <1>1, <2>1, <2>3
  <2> QED  BY <2>2, <2>3
<1> QED  BY <1>2, <1>4, <1>5, <1>6 DEF RowsOK

\* The fault budget only shrinks; a fault that is not a transient error is the
\* last one.
LEMMA FaultSpent ==
    ASSUME RowTypes, NEW f, SpendPull(f)
    PROVE  /\ pullFaults > 0 /\ pullFaults' \in 0..MaxPullFaults
           /\ f # "error" => pullFaults' = 0
BY PullAssumption DEF RowTypes, SpendPull, PullCost

PullInv == PullsOK /\ VolumeOK /\ RowsOK

\* A step of p off the volume that keeps what RowsKept asks for.
LEMMA QuietStep ==
    ASSUME PullInv, NEW p \in Pulls, NEW r, PullOK(r), pull' = [pull EXCEPT ![p] = r], UNCHANGED volume,
           r.pc \notin AtFile, pull[p].pc \notin AtFile, RowsOK'
    PROVE  PullInv'
<1>1. PullsOK' /\ pull'[p] = r /\ \A q \in Pulls \ {p} : pull'[q] = pull[q]
  BY OnePull DEF PullInv
<1>2. VolumeTypes' /\ \A f \in PullFiles : stagingLock'[f] # p
  BY DEF PullInv, VolumeOK, VolumeTypes, VolumeAt, volume
<1>3. VolumeAt(p)'
  BY <1>1, <1>2, VolumeAway
<1>4. VolumeOK'
  BY <1>1, <1>2, <1>3, VolumeKept DEF PullInv, volume
<1> QED  BY <1>1, <1>4 DEF PullInv

\* The end of an attempt with an error: the row fails with the last one, and
\* otherwise the step is queued again.
LEMMA AttemptFails ==
    ASSUME PullInv, NEW p \in Pulls, NEW permanent \in BOOLEAN, pull[p].pc # "idle", FailPull(p, permanent),
           UNCHANGED <<finalFile, verified>>, partFile' \in [PullFiles -> [len : Nat, ok : BOOLEAN]],
           \A f \in PullFiles : partFile'[f] = partFile[f] \/ stagingLock[f] = p,
           pullFaults' \in 0..MaxPullFaults, pullFaults' > 0 => pullFaults > 0, permanent \/ pullFaults > 0
    PROVE  PullInv'
<1> DEFINE s == PullStepAfter(p, permanent)
           r == IdlePull(p, s)
<1>1. /\ PullOK(pull[p]) /\ pull[p] \in PullRecords /\ pull[p].model \in PullModels /\ pull[p].step # "queued"
      /\ pull[p].req \in {"enqueued", "done"}
  BY DEF PullInv, PullsOK, PullOK, PullRecords
<1>2. s \in {"none", "queued", "running", "done", "failed", "canceled"} /\ s # "running"
      /\ (s = "none" => pull[p].step = "none") /\ (s = "queued" => pull[p].step = "running")
  BY <1>1 DEF PullStepAfter, PullRecords
<1>3. pull' = [pull EXCEPT ![p] = r] /\ stagingLock' = DropFlock(p)
      /\ installRow' = (IF MarksFailed(p, permanent) THEN FailedRow(pull[p].model) ELSE installRow)
      /\ UNCHANGED <<installStep, pausing, removing>>
  BY DEF FailPull, SetPull, ModelOf
<1>4. /\ r \in PullRecords /\ r.model = pull[p].model /\ r.req = pull[p].req /\ r.step = s
      /\ r.pc = "idle" /\ r.k = 1 /\ r.attempt = (IF s = "queued" THEN pull[p].attempt ELSE 0)
      /\ r.river = (IF s = "queued" THEN pull[p].river ELSE 0)
  BY <1>1, <1>2, IdlePullIs
<1> HIDE DEF r, s
<1>5. PullOK(r)
  BY <1>1, <1>2, <1>4 DEF PullOK, AtFile
<1>6. PullsOK' /\ pull'[p] = r /\ \A q \in Pulls \ {p} : pull'[q] = pull[q]
  BY <1>3, <1>5, OnePull DEF PullInv
<1>7. VolumeOK'
  <2>1. VolumeTypes'
    BY <1>3, FlockDropped DEF PullInv, VolumeOK, VolumeTypes
  <2>2. VolumeAt(p)'
    BY <1>3, <1>4, <1>6, FlockDropped, VolumeAway DEF PullInv, VolumeOK, AtFile
  <2> QED  BY <1>3, <1>6, <2>1, <2>2, FlockDropped, VolumeKept DEF PullInv, VolumeOK
<1>8. RowsOK'
  <2>1. /\ installRow' \in [PullModels -> InstallStatuses]
        /\ \A m \in PullModels : installRow'[m] = "downloading" => installRow[m] = "downloading"
    BY <1>3 DEF PullInv, RowsOK, RowTypes, FailedRow, InstallStatuses
  <2>2. Owner(pull[p]) => Owner(r) \/ installRow'[pull[p].model] # "downloading"
    <3>1. CASE MarksFailed(p, permanent)
      BY <1>1, <1>3, <3>1 DEF PullInv, RowsOK, RowTypes, FailedRow
    <3>2. CASE ~MarksFailed(p, permanent)
      <4>1. ~permanent /\ pull[p].attempt < MaxPullAttempts /\ pull[p].river = pull[p].attempt
        BY <1>1, <3>2, PullAssumption DEF MarksFailed, PullInv, RowsOK, PullRecords
      <4>2. pull[p].step = "running" => s = "queued"
        BY <1>1, <4>1, PullAssumption DEF PullStepAfter, PullRecords, s
      <4>3. ~(pull[p].attempt >= MaxPullAttempts)
        BY <1>1, <4>1, PullAssumption DEF PullRecords
      <4> QED  BY <1>1, <1>4, <4>2, <4>3 DEF Owner
    <3> QED  BY <3>1, <3>2
  <2>3. pullFaults' > 0 => pullFaults > 0 /\ r.river = r.attempt
    BY <1>4 DEF PullInv, RowsOK
  <2> QED  BY <1>3, <1>4, <1>5, <2>1, <2>2, <2>3, <1>1, RowsKept DEF PullInv
<1> QED  BY <1>6, <1>7, <1>8 DEF PullInv

-----------------------------------------------------------------------------
(* The requests *)

LEMMA PullInitially == PullInit => PullInv
<1> SUFFICES ASSUME PullInit PROVE PullInv
  OBVIOUS
<1> USE PullAssumption, FreshPullIs
<1>1. PullsOK
  <2>1. PullOK(FreshPull)
    BY DEF PullOK, AtFile
  <2> QED  BY <2>1 DEF PullInit, PullsOK
<1>2. VolumeOK
  <2>1. EmptyPart \in [len : Nat, ok : BOOLEAN]
    BY DEF EmptyPart
  <2>2. VolumeTypes
    BY <2>1 DEF PullInit, VolumeTypes
  <2> QED  BY <2>2 DEF PullInit, VolumeOK, VolumeAt, AtFile, Locked
<1>3. RowsOK
  <2>1. NoRemove \in [model : PullModels \cup {NoModel}, files : SUBSET PullFiles, row : BOOLEAN]
    BY DEF NoRemove
  <2>2. RowTypes
    BY <2>1 DEF PullInit, RowTypes, InstallStatuses
  <2> QED  BY <2>2 DEF PullInit, RowsOK, NamedPull
<1> QED  BY <1>1, <1>2, <1>3 DEF PullInv

LEMMA InstallIsChecked ==
    ASSUME PullInv, NEW p \in Pulls, NEW m \in PullModels, CheckInstall(p, m)
    PROVE  PullInv'
<1> DEFINE a == pull[p]
           r == [a EXCEPT !.model = m, !.req = "checked"]
<1>1. PullOK(a) /\ a.req = "none" /\ a.pc = "idle" /\ a.step = "none"
  BY DEF CheckInstall, PullInv, PullsOK, PullOK
<1>2. pull' = [pull EXCEPT ![p] = r] /\ UNCHANGED <<installRow, installStep, pausing, volume, removing, pullFaults>>
  BY DEF CheckInstall, SetPull
<1> HIDE DEF a
<1>3. /\ r \in PullRecords /\ r.model = m /\ r.req = "checked" /\ r.step = "none" /\ r.pc = "idle"
      /\ r.attempt = a.attempt /\ r.river = a.river
  BY <1>1 DEF PullOK, PullRecords
<1> HIDE DEF r
<1>4. PullOK(r)
  BY <1>3 DEF PullOK, AtFile
<1>5. pull'[p] = r /\ \A q \in Pulls \ {p} : pull'[q] = pull[q]
  BY <1>2, <1>4, OnePull DEF PullInv
<1>6. RowsOK'
  <2>1. ~Owner(a)
    BY <1>1 DEF Owner
  <2>2. RowTypes'
    BY <1>2 DEF PullInv, RowsOK, RowTypes
  <2>3. ASSUME NEW n \in PullModels, NEW q \in Pulls \cup {NoPull}, NamedPull(n, q) PROVE NamedPull(n, q)' /\ q # p
    BY <1>1, <1>5, <2>3, PullAssumption DEF NamedPull, a
  <2>4. \A n \in PullModels : NamedPull(n, installStep[n])' /\ NamedPull(n, pausing[n])'
    BY <1>2, <2>3 DEF PullInv, RowsOK, RowTypes
  <2>5. pullFaults' > 0 => \A q \in Pulls : pull'[q].river = pull'[q].attempt
    BY <1>2, <1>3, <1>5 DEF PullInv, RowsOK, a
  <2>6. ASSUME NEW n \in PullModels, installRow'[n] = "downloading"
        PROVE  \E q \in Pulls : pull'[q].model = n /\ Owner(pull'[q]) /\ pausing'[n] # q
    <3>1. PICK q \in Pulls : pull[q].model = n /\ Owner(pull[q]) /\ pausing[n] # q
      BY <1>2, <2>6 DEF PullInv, RowsOK
    <3> QED  BY <1>2, <1>5, <2>1, <3>1 DEF a
  <2> QED  BY <2>2, <2>4, <2>5, <2>6 DEF RowsOK
<1> QED  BY <1>1, <1>2, <1>3, <1>4, <1>6, QuietStep DEF a, AtFile

\* A claim, by the request or by the operator's command: the row is downloading
\* and its pull will end it.
LEMMA ClaimIsMade ==
    ASSUME PullInv, NEW p \in Pulls, NEW m \in PullModels, NEW r, PullOK(r), pull' = [pull EXCEPT ![p] = r],
           pull[p].req \in {"none", "checked"}, Owner(r), r.model = m, r.pc \notin AtFile,
           installRow' = [installRow EXCEPT ![m] = "downloading"],
           installStep' = [installStep EXCEPT ![m] = NoPull], UNCHANGED <<pausing, volume, removing>>,
           pullFaults' \in 0..MaxPullFaults,
           pullFaults' > 0 => pullFaults > 0 /\ r.river = r.attempt
    PROVE  PullInv'
<1>1. pull'[p] = r /\ (\A q \in Pulls \ {p} : pull'[q] = pull[q]) /\ pull[p].pc \notin AtFile /\ p # NoPull
  BY OnePull, PullAssumption DEF PullInv, PullsOK, PullOK, AtFile
<1>2. RowTypes'
  BY DEF PullInv, RowsOK, RowTypes, InstallStatuses
<1>3. ASSUME NEW n \in PullModels, NEW q \in Pulls \cup {NoPull}, NamedPull(n, q) PROVE NamedPull(n, q)' /\ q # p
  BY <1>1, <1>3 DEF NamedPull
<1>4. \A n \in PullModels : NamedPull(n, installStep[n])' /\ NamedPull(n, pausing[n])' /\ pausing[n] # p
  <2>1. NamedPull(m, NoPull)'
    BY DEF NamedPull
  <2>2. ASSUME NEW n \in PullModels PROVE NamedPull(n, installStep[n])'
    <3>1. CASE n = m
      BY <2>1, <3>1 DEF PullInv, RowsOK, RowTypes
    <3>2. CASE n # m
      BY <1>3, <3>2 DEF PullInv, RowsOK, RowTypes
    <3> QED  BY <3>1, <3>2
  <2> QED  BY <1>3, <2>2 DEF PullInv, RowsOK, RowTypes
<1>5. pullFaults' > 0 => \A q \in Pulls : pull'[q].river = pull'[q].attempt
  BY <1>1 DEF PullInv, RowsOK
<1>6. ASSUME NEW n \in PullModels, installRow'[n] = "downloading"
      PROVE  \E q \in Pulls : pull'[q].model = n /\ Owner(pull'[q]) /\ pausing'[n] # q
  <2>1. CASE n = m
    BY <1>1, <1>4, <2>1
  <2>2. CASE n # m
    <3>1. PICK q \in Pulls : pull[q].model = n /\ Owner(pull[q]) /\ pausing[n] # q
      BY <1>6, <2>2 DEF PullInv, RowsOK, RowTypes
    <3>2. CASE q = p
      <4>1. ~Owner(pull[p])
        BY DEF PullInv, PullsOK, PullOK, Owner
      <4> QED  BY <3>1, <3>2, <4>1
    <3>3. CASE q # p
      BY <1>1, <3>1, <3>3
    <3> QED  BY <3>2, <3>3
  <2> QED  BY <2>1, <2>2
<1>7. RowsOK'
  BY <1>2, <1>4, <1>5, <1>6 DEF RowsOK
<1> QED  BY <1>1, <1>7, QuietStep

\* ClaimModelInstall: refused while a pull is in flight.
LEMMA InstallIsClaimed ==
    ASSUME PullInv, NEW p \in Pulls, ClaimInstall(p)
    PROVE  PullInv'
<1> DEFINE a == pull[p]
           m == pull[p].model
<1>1. PullOK(a) /\ a.req = "checked" /\ a.pc = "idle" /\ a.step = "none" /\ m \in PullModels /\ ~Owner(a)
      /\ (pullFaults > 0 => a.river = a.attempt) /\ pullFaults \in 0..MaxPullFaults
  BY DEF ClaimInstall, PullInv, PullsOK, PullOK, Owner, RowsOK, RowTypes
<1>2. CASE installRow[m] = "downloading"
  <2> DEFINE r == [a EXCEPT !.req = "done"]
  <2>1. pull' = [pull EXCEPT ![p] = r] /\ UNCHANGED <<installRow, installStep, pausing, volume, removing, pullFaults>>
    BY <1>2 DEF ClaimInstall, SetPull, ModelOf
  <2>2. r \in PullRecords /\ r.model = m /\ r.req = "done" /\ r.step = "none" /\ r.pc = "idle"
        /\ r.attempt = a.attempt /\ r.river = a.river
    <3> HIDE DEF a
    <3>1. m = a.model
      BY DEF a
    <3> QED  BY <1>1, <3>1 DEF PullOK, PullRecords
  <2> HIDE DEF r
  <2>3. PullOK(r)
    BY <2>2 DEF PullOK, AtFile
  <2>4. RowsOK'
    BY <1>1, <2>1, <2>2, <2>3, RowsKept DEF PullInv, RowsOK, RowTypes
  <2> QED  BY <1>1, <2>1, <2>2, <2>3, <2>4, QuietStep DEF AtFile
<1>3. CASE installRow[m] # "downloading"
  <2> DEFINE r == [a EXCEPT !.req = "claimed"]
  <2>1. /\ pull' = [pull EXCEPT ![p] = r] /\ UNCHANGED <<pausing, volume, removing, pullFaults>>
        /\ installRow' = [installRow EXCEPT ![m] = "downloading"]
        /\ installStep' = [installStep EXCEPT ![m] = NoPull]
    BY <1>3 DEF ClaimInstall, SetPull, SetInstall, ModelOf
  <2>2. r \in PullRecords /\ r.model = m /\ r.req = "claimed" /\ r.step = "none" /\ r.pc = "idle"
        /\ r.attempt = a.attempt /\ r.river = a.river
    <3> HIDE DEF a
    <3>1. m = a.model
      BY DEF a
    <3> QED  BY <1>1, <3>1 DEF PullOK, PullRecords
  <2> HIDE DEF r
  <2>3. PullOK(r) /\ Owner(r)
    BY <1>1, <2>2 DEF PullOK, AtFile, Owner
  <2> QED  BY <1>1, <2>1, <2>2, <2>3, ClaimIsMade DEF AtFile
<1> QED  BY <1>2, <1>3

LEMMA PullIsEnqueued ==
    ASSUME PullInv, NEW p \in Pulls, EnqueuePull(p)
    PROVE  PullInv'
<1> DEFINE a == pull[p]
           r == [a EXCEPT !.req = "enqueued", !.step = "queued"]
<1>1. PullOK(a) /\ a.req = "claimed" /\ a.pc = "idle" /\ a.model \in PullModels
      /\ (pullFaults > 0 => a.river = a.attempt)
  BY DEF EnqueuePull, PullInv, PullsOK, PullOK, RowsOK
<1>2. pull' = [pull EXCEPT ![p] = r] /\ UNCHANGED <<installRow, installStep, pausing, volume, removing, pullFaults>>
  BY DEF EnqueuePull, SetPull
<1>3. r \in PullRecords /\ r.model = a.model /\ r.req = "enqueued" /\ r.step = "queued" /\ r.pc = "idle"
      /\ r.attempt = a.attempt /\ r.river = a.river
  <2> HIDE DEF a
  <2> QED  BY <1>1 DEF PullOK, PullRecords
<1> HIDE DEF r
<1>4. PullOK(r) /\ Owner(r)
  BY <1>1, <1>3 DEF PullOK, AtFile, Owner
<1>5. RowsOK'
  BY <1>1, <1>2, <1>3, <1>4, RowsKept DEF PullInv, RowsOK, RowTypes
<1> QED  BY <1>1, <1>2, <1>3, <1>4, <1>5, QuietStep DEF AtFile

\* The request that could not enqueue its step fails the row it claimed.
LEMMA EnqueueIsUndone ==
    ASSUME PullInv, NEW p \in Pulls, EnqueueFails(p)
    PROVE  PullInv'
<1> DEFINE a == pull[p]
           r == [a EXCEPT !.req = "done"]
<1>1. PullOK(a) /\ a.req = "claimed" /\ a.pc = "idle" /\ a.step = "none" /\ a.model \in PullModels
      /\ RowTypes /\ SpendPull("api")
  BY DEF EnqueueFails, PullInv, PullsOK, PullOK, RowsOK
<1>2. pull' = [pull EXCEPT ![p] = r] /\ UNCHANGED <<installStep, pausing, volume, removing>>
      /\ installRow' = FailedRow(a.model)
  BY DEF EnqueueFails, SetPull, ModelOf
<1>3. r \in PullRecords /\ r.model = a.model /\ r.req = "done" /\ r.step = "none" /\ r.pc = "idle"
  <2> HIDE DEF a
  <2> QED  BY <1>1 DEF PullOK, PullRecords
<1> HIDE DEF r
<1>4. PullOK(r)
  BY <1>1, <1>3 DEF PullOK, AtFile
<1>5. pullFaults' = 0 /\ pullFaults' \in 0..MaxPullFaults
  BY <1>1, FaultSpent
<1>6. /\ installRow' \in [PullModels -> InstallStatuses] /\ installRow'[a.model] # "downloading"
      /\ \A m \in PullModels : installRow'[m] = "downloading" => installRow[m] = "downloading"
  BY <1>1, <1>2 DEF RowTypes, FailedRow, InstallStatuses
<1>7. RowsOK'
  <2>1. pullFaults' > 0 => pullFaults > 0 /\ r.river = r.attempt
    BY <1>5
  <2> QED  BY <1>1, <1>2, <1>3, <1>4, <1>5, <1>6, <2>1, RowsKept DEF PullInv
<1> QED  BY <1>1, <1>2, <1>3, <1>4, <1>7, QuietStep DEF AtFile

\* SetModelInstallStep: the row names the pull.
LEMMA StepIsLinked ==
    ASSUME PullInv, NEW p \in Pulls, LinkStep(p)
    PROVE  PullInv'
<1> DEFINE a == pull[p]
           r == [a EXCEPT !.req = "done"]
<1>1. PullOK(a) /\ a.req = "enqueued" /\ a.model \in PullModels /\ RowTypes
      /\ (pullFaults > 0 => a.river = a.attempt)
  BY DEF LinkStep, PullInv, PullsOK, PullOK, RowsOK
<1>2. pull' = [pull EXCEPT ![p] = r] /\ UNCHANGED <<installRow, pausing, volume, removing, pullFaults>>
      /\ installStep' = [installStep EXCEPT ![a.model] = IF installRow[a.model] = "downloading" THEN p ELSE @]
  BY DEF LinkStep, SetPull, ModelOf
<1>3. r \in PullRecords /\ r.model = a.model /\ r.req = "done" /\ r.step = a.step /\ r.pc = a.pc /\ r.k = a.k
      /\ r.attempt = a.attempt /\ r.river = a.river /\ r.off = a.off /\ r.hash = a.hash
  <2> HIDE DEF a
  <2> QED  BY <1>1 DEF PullOK, PullRecords
<1> HIDE DEF r
<1>4. PullOK(r) /\ (Owner(a) => Owner(r))
  BY <1>1, <1>3 DEF PullOK, Owner
<1>5. PullsOK' /\ pull'[p] = r /\ \A q \in Pulls \ {p} : pull'[q] = pull[q]
  BY <1>2, <1>4, OnePull DEF PullInv
<1>6. VolumeOK'
  <2>1. VolumeTypes' /\ VolumeAt(p)
    BY <1>2 DEF PullInv, VolumeOK, VolumeTypes, volume
  <2>2. VolumeAt(p)'
    BY <1>2, <1>3, <1>5, <2>1 DEF VolumeAt, FileIn, volume
  <2> QED  BY <1>2, <1>5, <2>1, <2>2, VolumeKept DEF PullInv, volume
<1>7. RowsOK'
  <2>1. RowTypes'
    BY <1>1, <1>2 DEF RowTypes
  <2>2. ASSUME NEW n \in PullModels, NEW q \in Pulls \cup {NoPull}, NamedPull(n, q) PROVE NamedPull(n, q)'
    BY <1>1, <1>3, <1>5, <2>2 DEF NamedPull
  <2>3. \A n \in PullModels : NamedPull(n, installStep[n])' /\ NamedPull(n, pausing[n])'
    <3>1. pull'[p].model = a.model /\ pull'[p].req = "done"
      BY <1>3, <1>5
    <3>2. ASSUME NEW n \in PullModels PROVE NamedPull(n, installStep[n])'
      <4>1. installStep'[n] = installStep[n] \/ (n = a.model /\ installStep'[n] = p)
        BY <1>1, <1>2 DEF RowTypes
      <4>2. NamedPull(n, installStep[n]) /\ installStep[n] \in Pulls \cup {NoPull}
        BY DEF PullInv, RowsOK, RowTypes
      <4>3. CASE installStep'[n] = installStep[n]
        BY <2>2, <4>2, <4>3 DEF NamedPull
      <4>4. CASE n = a.model /\ installStep'[n] = p
        BY <3>1, <4>4 DEF NamedPull
      <4> QED  BY <4>1, <4>3, <4>4
    <3> QED  BY <1>2, <2>2, <3>2 DEF PullInv, RowsOK, RowTypes
  <2>4. pullFaults' > 0 => \A q \in Pulls : pull'[q].river = pull'[q].attempt
    BY <1>1, <1>2, <1>3, <1>5 DEF PullInv, RowsOK
  <2>5. ASSUME NEW n \in PullModels, installRow'[n] = "downloading"
        PROVE  \E q \in Pulls : pull'[q].model = n /\ Owner(pull'[q]) /\ pausing'[n] # q
    <3>1. PICK q \in Pulls : pull[q].model = n /\ Owner(pull[q]) /\ pausing[n] # q
      BY <1>2, <2>5 DEF PullInv, RowsOK
    <3>2. pull'[q].model = n /\ Owner(pull'[q])
      BY <1>3, <1>4, <1>5, <3>1
    <3> QED  BY <1>2, <3>1, <3>2
  <2> QED  BY <2>1, <2>3, <2>4, <2>5 DEF RowsOK
<1> QED  BY <1>5, <1>6, <1>7 DEF PullInv

\* A pause writes the row first; nothing downloads it from then on.
LEMMA InstallIsPaused ==
    ASSUME PullInv, NEW m \in PullModels, PauseInstall(m)
    PROVE  PullInv'
<1>1. /\ UNCHANGED <<installStep, volume, pull, removing>> /\ installRow' = [installRow EXCEPT ![m] = "paused"]
      /\ pausing' = [pausing EXCEPT ![m] = installStep[m]] /\ SpendPull("pause")
  BY DEF PauseInstall, SetInstall
<1>2. PullsOK' /\ VolumeOK'
  BY <1>1 DEF PullInv, PullsOK, VolumeOK, VolumeTypes, VolumeAt, FileIn, volume
<1>3. pullFaults' = 0 /\ pullFaults' \in 0..MaxPullFaults
  BY <1>1, FaultSpent DEF PullInv, RowsOK
<1>4. RowTypes'
  BY <1>1, <1>3 DEF PullInv, RowsOK, RowTypes, InstallStatuses
<1>5. \A n \in PullModels : NamedPull(n, installStep[n])' /\ NamedPull(n, pausing[n])'
  BY <1>1 DEF PullInv, RowsOK, RowTypes, NamedPull
<1>6. \A n \in PullModels : installRow'[n] = "downloading" =>
         \E q \in Pulls : pull'[q].model = n /\ Owner(pull'[q]) /\ pausing'[n] # q
  BY <1>1 DEF PullInv, RowsOK, RowTypes
<1>7. RowsOK'
  BY <1>3, <1>4, <1>5, <1>6 DEF RowsOK
<1> QED  BY <1>2, <1>7 DEF PullInv

\* CancelStep hits the pull the row named at the pause, which is nobody's owner.
LEMMA PausedIsCanceled ==
    ASSUME PullInv, NEW m \in PullModels, CancelPaused(m)
    PROVE  PullInv'
<1> DEFINE p == pausing[m]
           a == pull[p]
           s == IF a.step \in {"queued", "running"} THEN "canceled" ELSE a.step
           r == [a EXCEPT !.step = s]
<1>1. p \in Pulls /\ PullOK(a) /\ a.model = m /\ a.req \in {"enqueued", "done"} /\ RowTypes
  BY DEF CancelPaused, PullInv, PullsOK, RowsOK, RowTypes, NamedPull
<1>2. pull' = [pull EXCEPT ![p] = r] /\ UNCHANGED <<installRow, installStep, volume, removing, pullFaults>>
      /\ pausing' = [pausing EXCEPT ![m] = NoPull]
  BY DEF CancelPaused, SetPull
<1>3. s \in {"none", "queued", "running", "done", "failed", "canceled"} /\ s \notin {"queued", "running"}
      /\ (s = "none" => a.step = "none")
  BY <1>1 DEF PullOK, PullRecords
<1>4. r \in PullRecords /\ r.model = m /\ r.req = a.req /\ r.step = s /\ r.pc = a.pc /\ r.k = a.k
      /\ r.attempt = a.attempt /\ r.river = a.river /\ r.off = a.off /\ r.hash = a.hash
  <2> HIDE DEF a, s
  <2> QED  BY <1>1, <1>3 DEF PullOK, PullRecords
<1> HIDE DEF r, s
<1>5. PullOK(r)
  BY <1>1, <1>3, <1>4 DEF PullOK
<1> HIDE DEF p
<1>6. PullsOK' /\ pull'[p] = r /\ \A q \in Pulls \ {p} : pull'[q] = pull[q]
  BY <1>1, <1>2, <1>5 DEF PullInv, PullsOK, PullOK
<1>7. VolumeOK'
  <2>1. VolumeTypes' /\ \A q \in Pulls : VolumeAt(q)
    BY <1>2 DEF PullInv, VolumeOK, VolumeTypes, volume
  <2>2. ASSUME NEW q \in Pulls PROVE VolumeAt(q)'
    BY <1>1, <1>2, <1>4, <1>6, <2>1 DEF VolumeAt, FileIn, volume
  <2> QED  BY <1>2, <2>1, <2>2 DEF PullInv, VolumeOK, volume
<1>8. RowsOK'
  <2>1. RowTypes'
    BY <1>1, <1>2 DEF RowTypes
  <2>2. \A n \in PullModels : NamedPull(n, installStep[n])' /\ NamedPull(n, pausing[n])'
    <3>1. ASSUME NEW n \in PullModels PROVE NamedPull(n, installStep[n])'
      BY <1>1, <1>2, <1>4, <1>6 DEF PullInv, RowsOK, RowTypes, NamedPull
    <3>2. ASSUME NEW n \in PullModels PROVE NamedPull(n, pausing[n])'
      BY <1>1, <1>2, <1>4, <1>6 DEF PullInv, RowsOK, RowTypes, NamedPull
    <3> QED  BY <3>1, <3>2
  <2>3. pullFaults' > 0 => \A q \in Pulls : pull'[q].river = pull'[q].attempt
    BY <1>1, <1>2, <1>4, <1>6 DEF PullInv, RowsOK
  <2>4. ASSUME NEW n \in PullModels, installRow'[n] = "downloading"
        PROVE  \E q \in Pulls : pull'[q].model = n /\ Owner(pull'[q]) /\ pausing'[n] # q
    <3>1. PICK q \in Pulls : pull[q].model = n /\ Owner(pull[q]) /\ pausing[n] # q
      BY <1>2, <2>4 DEF PullInv, RowsOK
    <3>2. q # p
      BY <1>1, <3>1 DEF p
    <3>3. q # NoPull
      BY PullAssumption
    <3>4. pausing'[n] = pausing[n] \/ pausing'[n] = NoPull
      BY <1>1, <1>2 DEF RowTypes
    <3> QED  BY <1>6, <3>1, <3>2, <3>3, <3>4
  <2> QED  BY <2>1, <2>2, <2>3, <2>4 DEF RowsOK
<1> QED  BY <1>6, <1>7, <1>8 DEF PullInv

\* `loomtale models pull` claims the row and starts at once.
LEMMA CliPullStarts ==
    ASSUME PullInv, NEW p \in Pulls, NEW m \in PullModels, CliPull(p, m)
    PROVE  PullInv'
<1> DEFINE r == [FreshPull EXCEPT !.model = m, !.req = "done", !.pc = "inspect",
                                 !.attempt = MaxPullAttempts, !.river = MaxPullAttempts]
<1>1. /\ pull[p].req = "none" /\ pull' = [pull EXCEPT ![p] = r] /\ UNCHANGED <<pausing, volume, removing>>
      /\ installRow' = [installRow EXCEPT ![m] = "downloading"]
      /\ installStep' = [installStep EXCEPT ![m] = NoPull] /\ SpendPull("cli")
  BY DEF CliPull, SetPull, SetInstall
<1>2. /\ r \in PullRecords /\ r.model = m /\ r.req = "done" /\ r.pc = "inspect" /\ r.step = "none" /\ r.k = 1
      /\ r.attempt = MaxPullAttempts
  BY FreshPullIs, PullAssumption DEF PullRecords
<1> HIDE DEF r
<1>3. Len(FilesOf[m]) \in Nat
  BY PullAssumption
<1>4. PullOK(r) /\ Owner(r)
  BY <1>2, <1>3, PullAssumption DEF PullOK, AtFile, Owner
<1>5. pullFaults' = 0 /\ pullFaults' \in 0..MaxPullFaults
  BY <1>1, FaultSpent DEF PullInv, RowsOK
<1>6. pullFaults' > 0 => pullFaults > 0 /\ r.river = r.attempt
  BY <1>5
<1>7. pull[p].req \in {"none", "checked"} /\ r.pc \notin AtFile
  BY <1>1, <1>2 DEF AtFile
<1> QED  BY <1>1, <1>2, <1>4, <1>5, <1>6, <1>7, ClaimIsMade

-----------------------------------------------------------------------------
(* One attempt *)

LEMMA AttemptStarts ==
    ASSUME PullInv, NEW p \in Pulls, StartAttempt(p)
    PROVE  PullInv'
<1> DEFINE a == pull[p]
           n == a.attempt + 1
           v == a.river + 1
           none == {}
           one == 1
           r == [a EXCEPT !.step = "running", !.pc = "inspect", !.k = one, !.todo = none, !.attempt = n, !.river = v]
<1>1. PullOK(a) /\ a.step = "queued" /\ a.pc = "idle" /\ a.model \in PullModels /\ a.req \in {"enqueued", "done"}
      /\ (pullFaults > 0 => a.river = a.attempt)
  BY DEF StartAttempt, PullInv, PullsOK, PullOK, PullRecords, RowsOK
<1>2. pull' = [pull EXCEPT ![p] = r] /\ UNCHANGED <<installRow, installStep, pausing, volume, removing, pullFaults>>
  BY DEF StartAttempt, SetPull
<1>3. r \in PullRecords /\ r.model = a.model /\ r.req = a.req /\ r.step = "running" /\ r.pc = "inspect" /\ r.k = one
      /\ r.attempt = n /\ r.river = v
  <2>1. a \in PullRecords /\ n \in Nat /\ v \in Nat /\ none \in SUBSET PullFiles /\ one \in Nat \ {0}
    BY <1>1 DEF PullOK, PullRecords
  <2> HIDE DEF a, n, v, none, one
  <2>2. r \in PullRecords
    BY <2>1 DEF PullRecords
  <2>3. r.model = a.model /\ r.req = a.req /\ r.step = "running" /\ r.pc = "inspect" /\ r.k = one
    BY <2>1 DEF PullRecords
  <2>4. r.attempt = n /\ r.river = v
    BY <2>1 DEF PullRecords
  <2> QED  BY <2>2, <2>3, <2>4
<1> HIDE DEF r
<1>4. Len(FilesOf[a.model]) \in Nat
  BY <1>1, PullAssumption
<1>5. PullOK(r) /\ Owner(r) /\ r.pc \notin AtFile /\ a.pc \notin AtFile
  BY <1>1, <1>3, <1>4 DEF PullOK, AtFile, Owner
<1>6. RowsOK'
  <2>1. pullFaults' > 0 => pullFaults > 0 /\ r.river = r.attempt
    BY <1>1, <1>2, <1>3
  <2>2. /\ pull[p].req \in {"enqueued", "done"} => r.req \in {"enqueued", "done"}
        /\ installRow' \in [PullModels -> InstallStatuses] /\ pullFaults' \in 0..MaxPullFaults
    BY <1>1, <1>2, <1>3 DEF PullInv, RowsOK, RowTypes
  <2> QED  BY <1>1, <1>2, <1>3, <1>5, <2>1, <2>2, RowsKept DEF PullInv
<1> QED  BY <1>2, <1>5, <1>6, QuietStep

\* River counted an attempt the step did not; the step stays queued.
LEMMA ClaimIsLost ==
    ASSUME PullInv, NEW p \in Pulls, ClaimFails(p)
    PROVE  PullInv'
<1> DEFINE a == pull[p]
           v == (a.river + 1) % MaxPullAttempts
           r == [a EXCEPT !.river = v]
<1>1. PullOK(a) /\ a.step = "queued" /\ a.pc = "idle" /\ SpendPull("claim") /\ RowTypes
  BY DEF ClaimFails, PullInv, PullsOK, RowsOK
<1>2. pull' = [pull EXCEPT ![p] = r] /\ UNCHANGED <<installRow, installStep, pausing, volume, removing>>
  BY DEF ClaimFails, SetPull
<1>3. v \in Nat
  BY <1>1, PullAssumption DEF PullOK, PullRecords
<1>4. r \in PullRecords /\ r.model = a.model /\ r.req = a.req /\ r.step = "queued" /\ r.pc = "idle"
  <2> HIDE DEF a, v
  <2> QED  BY <1>1, <1>3 DEF PullOK, PullRecords
<1> HIDE DEF r
<1>5. PullOK(r) /\ Owner(r) /\ r.pc \notin AtFile /\ a.pc \notin AtFile
  BY <1>1, <1>4 DEF PullOK, AtFile, Owner
<1>6. pullFaults' = 0 /\ pullFaults' \in 0..MaxPullFaults
  BY <1>1, FaultSpent
<1>7. RowsOK'
  <2>1. pullFaults' > 0 => pullFaults > 0 /\ r.river = r.attempt
    BY <1>6
  <2> QED  BY <1>1, <1>2, <1>4, <1>5, <1>6, <2>1, RowsKept DEF PullInv, RowTypes
<1> QED  BY <1>2, <1>5, <1>7, QuietStep

\* The end of an attempt that leaves the row alone: its locks are free, and a
\* pull that owned its download is queued again.
LEMMA AttemptEnds ==
    ASSUME PullInv, NEW p \in Pulls, NEW r, PullOK(r), pull' = [pull EXCEPT ![p] = r],
           pull[p].pc # "idle", r.pc = "idle", r.model = pull[p].model, r.req = pull[p].req,
           Owner(pull[p]) => Owner(r), stagingLock' = DropFlock(p),
           UNCHANGED <<installRow, installStep, pausing, finalFile, partFile, verified, removing>>,
           pullFaults' \in 0..MaxPullFaults, pullFaults' > 0 => pullFaults > 0 /\ r.river = r.attempt
    PROVE  PullInv'
<1>1. PullsOK' /\ pull'[p] = r /\ \A q \in Pulls \ {p} : pull'[q] = pull[q]
  BY OnePull DEF PullInv
<1>2. VolumeOK'
  <2>1. VolumeTypes'
    BY FlockDropped DEF PullInv, VolumeOK, VolumeTypes
  <2>2. VolumeAt(p)'
    BY <1>1, FlockDropped, VolumeAway DEF PullInv, VolumeOK, AtFile
  <2> QED  BY <1>1, <2>1, <2>2, FlockDropped, VolumeKept DEF PullInv, VolumeOK
<1>3. RowsOK'
  BY RowsKept DEF PullInv, RowsOK, RowTypes
<1> QED  BY <1>1, <1>2, <1>3 DEF PullInv

LEMMA CanceledStops ==
    ASSUME PullInv, NEW p \in Pulls, StopCanceled(p)
    PROVE  PullInv'
<1> DEFINE r == IdlePull(p, "canceled")
<1>1. PullOK(pull[p]) /\ pull[p] \in PullRecords /\ pull[p].pc # "idle" /\ pull[p].step = "canceled"
      /\ pull[p].model \in PullModels /\ pull[p].req \in {"enqueued", "done"} /\ RowTypes
  BY DEF StopCanceled, PullInv, PullsOK, PullOK, PullRecords, RowsOK
<1>2. /\ pull' = [pull EXCEPT ![p] = r] /\ stagingLock' = DropFlock(p)
      /\ UNCHANGED <<installRow, installStep, pausing, finalFile, partFile, verified, removing, pullFaults>>
  BY DEF StopCanceled, SetPull
<1>3. r \in PullRecords /\ r.model = pull[p].model /\ r.req = pull[p].req /\ r.step = "canceled" /\ r.pc = "idle"
      /\ r.attempt = 0 /\ r.river = 0
  BY <1>1, IdlePullIs
<1> HIDE DEF r
<1>4. PullOK(r) /\ ~Owner(pull[p])
  BY <1>1, <1>3 DEF PullOK, AtFile, Owner
<1> QED  BY <1>1, <1>2, <1>3, <1>4, AttemptEnds DEF RowTypes

\* The process dies: the kernel frees its flock, the reconciler requeues the
\* step.
LEMMA CrashIsRequeued ==
    ASSUME PullInv, NEW p \in Pulls, PullCrash(p)
    PROVE  PullInv'
<1> DEFINE s == IF pull[p].step = "running" THEN "queued" ELSE pull[p].step
           b == IdlePull(p, s)
           v == b.river % MaxPullAttempts
           r == [b EXCEPT !.river = v]
<1>1. PullOK(pull[p]) /\ pull[p] \in PullRecords /\ pull[p].pc # "idle" /\ pull[p].step \notin {"none", "queued"}
      /\ pull[p].model \in PullModels /\ pull[p].req \in {"enqueued", "done"} /\ RowTypes /\ SpendPull("crash")
  BY DEF PullCrash, PullInv, PullsOK, PullOK, PullRecords, RowsOK
<1>2. /\ pull' = [pull EXCEPT ![p] = r] /\ stagingLock' = DropFlock(p)
      /\ UNCHANGED <<installRow, installStep, pausing, finalFile, partFile, verified, removing>>
  BY DEF PullCrash, SetPull
<1>3. s \in {"none", "queued", "running", "done", "failed", "canceled"} /\ s \notin {"none", "running"}
  BY <1>1 DEF PullRecords
<1>4. b \in PullRecords /\ b.model = pull[p].model /\ b.req = pull[p].req /\ b.step = s /\ b.pc = "idle"
  BY <1>1, <1>3, IdlePullIs
<1> HIDE DEF b
<1>5. v \in Nat
  BY <1>4, PullAssumption DEF PullRecords
<1>6. r \in PullRecords /\ r.model = pull[p].model /\ r.req = pull[p].req /\ r.step = s /\ r.pc = "idle"
  <2> HIDE DEF v, s
  <2> QED  BY <1>4, <1>5 DEF PullRecords
<1> HIDE DEF r
<1>7. PullOK(r)
  BY <1>1, <1>3, <1>6 DEF PullOK, AtFile
<1>8. Owner(pull[p]) => Owner(r)
  BY <1>1, <1>6 DEF Owner
<1>9. pullFaults' = 0 /\ pullFaults' \in 0..MaxPullFaults
  BY <1>1, FaultSpent
<1>10. pullFaults' > 0 => pullFaults > 0 /\ r.river = r.attempt
  BY <1>9
<1> QED  BY <1>1, <1>2, <1>6, <1>7, <1>8, <1>9, <1>10, AttemptEnds

LEMMA ErrorIsRetried ==
    ASSUME PullInv, NEW p \in Pulls, TransientError(p)
    PROVE  PullInv'
<1>1. pull[p].pc # "idle" /\ SpendPull("error") /\ FailPull(p, FALSE) /\ UNCHANGED <<finalFile, partFile, verified>>
  BY DEF TransientError
<1>2. pullFaults > 0 /\ pullFaults' \in 0..MaxPullFaults
  BY <1>1, FaultSpent DEF PullInv, RowsOK
<1>3. partFile' \in [PullFiles -> [len : Nat, ok : BOOLEAN]]
  BY <1>1 DEF PullInv, VolumeOK, VolumeTypes
<1> QED  BY <1>1, <1>2, <1>3, AttemptFails

\* What a running attempt keeps of its record.
SameAttempt(r, a) ==
    r.model = a.model /\ r.req = a.req /\ r.step = a.step /\ r.attempt = a.attempt /\ r.river = a.river

\* A step inside an attempt is no business of the rows.
LEMMA AttemptGoesOn ==
    ASSUME PullInv, NEW p \in Pulls, NEW r, PullOK(r), pull' = [pull EXCEPT ![p] = r],
           pull[p].pc # "idle", r.pc # "idle", SameAttempt(r, pull[p]),
           UNCHANGED <<installRow, installStep, pausing, removing>>,
           pullFaults' \in 0..MaxPullFaults, pullFaults' > 0 => pullFaults > 0,
           VolumeTypes', VolumeAt(p)',
           \A f \in PullFiles :
              /\ stagingLock'[f] = stagingLock[f] \/ {stagingLock[f], stagingLock'[f]} \subseteq {p, NoPull}
              /\ partFile'[f] = partFile[f] \/ stagingLock[f] = p
              /\ finalFile'[f] = finalFile[f] \/ finalFile'[f] # "wrong"
              /\ verified'[f] => verified[f] \/ finalFile'[f] # "wrong"
    PROVE  PullInv'
<1>1. PullsOK' /\ pull'[p] = r /\ \A q \in Pulls \ {p} : pull'[q] = pull[q]
  BY OnePull DEF PullInv
<1>2. VolumeOK'
  BY <1>1, VolumeKept DEF PullInv
<1>3. RowsOK'
  <2>1. Owner(pull[p]) => Owner(r)
    BY DEF SameAttempt, Owner, PullInv, PullsOK, PullOK
  <2>2. installRow' \in [PullModels -> InstallStatuses]
    BY DEF PullInv, RowsOK, RowTypes
  <2>3. pullFaults' > 0 => pullFaults > 0 /\ r.river = r.attempt
    BY DEF PullInv, RowsOK, SameAttempt
  <2> QED  BY <2>1, <2>2, <2>3, RowsKept DEF PullInv, SameAttempt
<1> QED  BY <1>1, <1>2, <1>3 DEF PullInv

\* Between two files.
LEMMA AttemptGoesAway ==
    ASSUME PullInv, NEW p \in Pulls, NEW r, PullOK(r), pull' = [pull EXCEPT ![p] = r],
           pull[p].pc \in {"inspect", "wait"}, r.pc \in {"inspect", "wait"}, SameAttempt(r, pull[p]),
           UNCHANGED <<installRow, installStep, pausing, volume, removing, pullFaults>>
    PROVE  PullInv'
<1>1. pull'[p] = r
  BY OnePull DEF PullInv
<1>2. VolumeTypes' /\ \A f \in PullFiles : stagingLock'[f] # p
  BY DEF PullInv, VolumeOK, VolumeTypes, VolumeAt, volume, AtFile
<1>3. VolumeAt(p)'
  BY <1>1, <1>2, VolumeAway DEF AtFile
<1>4. pullFaults' \in 0..MaxPullFaults
  BY DEF PullInv, RowsOK, RowTypes
<1> QED  BY <1>2, <1>3, <1>4, AttemptGoesOn DEF volume

\* The file the loop is at, while it has one.
LEMMA LoopFile ==
    ASSUME PullInv, NEW p \in Pulls, pull[p].pc # "idle", ~FilesDone(p)
    PROVE  /\ PullOK(pull[p]) /\ pull[p].k \in Nat \ {0} /\ pull[p].k <= Len(FilesOf[pull[p].model])
           /\ pull[p].model \in PullModels /\ Len(FilesOf[pull[p].model]) \in Nat
           /\ FileOf(p) = FileIn(pull[p]) /\ FileOf(p) \in PullFiles
<1>1. PullOK(pull[p]) /\ pull[p].k \in Nat \ {0} /\ pull[p].model \in PullModels
  BY DEF PullInv, PullsOK, PullOK, PullRecords
<1>2. FilesOf[pull[p].model] \in Seq(PullFiles)
  BY <1>1, PullAssumption
<1>3. pull[p].k <= Len(FilesOf[pull[p].model])
  BY <1>1, <1>2 DEF FilesDone, ModelOf
<1> QED  BY <1>1, <1>2, <1>3 DEF FileOf, FileIn, ModelOf

LEMMA FileIsInspected ==
    ASSUME PullInv, NEW p \in Pulls, InspectFile(p)
    PROVE  PullInv'
<1> DEFINE a == pull[p]
<1>1. /\ a.pc = "inspect" /\ PullOK(a) /\ a \in PullRecords /\ a.k \in Nat \ {0} /\ a.k <= Len(FilesOf[a.model])
      /\ a.model \in PullModels /\ Len(FilesOf[a.model]) \in Nat
      /\ FileOf(p) = FileIn(a) /\ FileOf(p) \in PullFiles
      /\ UNCHANGED <<installRow, installStep, pausing, volume, removing, pullFaults>>
  BY LoopFile DEF InspectFile, PullOK
<1>2. CASE FileAdoptable(FileOf(p))
  <2> DEFINE r == [a EXCEPT !.pc = "adopt"]
  <2>1. pull' = [pull EXCEPT ![p] = r]
    BY <1>2 DEF InspectFile, GoPull, SetPull
  <2>2. r \in PullRecords /\ SameAttempt(r, a) /\ r.pc = "adopt" /\ r.k = a.k
    <3> HIDE DEF a
    <3> QED  BY <1>1 DEF PullRecords, SameAttempt
  <2> HIDE DEF r
  <2>3. PullOK(r)
    BY <1>1, <2>2 DEF PullOK, SameAttempt, AtFile
  <2>4. pull'[p] = r /\ FileIn(r) = FileIn(a)
    BY <2>1, <2>2, <2>3, OnePull DEF PullInv, FileIn, SameAttempt
  <2>5. VolumeTypes' /\ pullFaults' \in 0..MaxPullFaults
    BY <1>1 DEF PullInv, VolumeOK, VolumeTypes, volume, RowsOK, RowTypes
  <2>6. VolumeAt(p)'
    BY <1>1, <1>2, <2>2, <2>4 DEF PullInv, VolumeOK, VolumeAt, volume, AtFile, Locked, FileAdoptable
  <2> QED  BY <1>1, <2>1, <2>2, <2>3, <2>5, <2>6, AttemptGoesOn DEF volume
<1>3. CASE ~FileAdoptable(FileOf(p))
  <2> DEFINE n == a.k + 1
             t == IF FileKnown(FileOf(p)) THEN a.todo ELSE a.todo \cup {FileOf(p)}
             r == [a EXCEPT !.k = n, !.todo = t]
  <2>1. pull' = [pull EXCEPT ![p] = r]
    BY <1>3 DEF InspectFile, SetPull
  <2>2. n \in Nat \ {0} /\ n <= Len(FilesOf[a.model]) + 1 /\ t \in SUBSET PullFiles
    BY <1>1 DEF PullRecords
  <2>3. r \in PullRecords /\ SameAttempt(r, a) /\ r.pc = "inspect" /\ r.k = n
    <3> HIDE DEF a, n, t
    <3> QED  BY <1>1, <2>2 DEF PullRecords, SameAttempt
  <2> HIDE DEF r, n, t
  <2>4. PullOK(r)
    BY <1>1, <2>2, <2>3 DEF PullOK, SameAttempt, AtFile
  <2> QED  BY <1>1, <2>1, <2>3, <2>4, AttemptGoesAway
<1> QED  BY <1>2, <1>3

LEMMA AtLoopFile ==
    ASSUME PullInv, NEW p \in Pulls, pull[p].pc \in AtFile
    PROVE  ~FilesDone(p) /\ pull[p].pc # "idle"
<1>1. PullOK(pull[p]) /\ pull[p].pc # "idle" /\ pull[p].k \in Nat /\ pull[p].model \in PullModels
      /\ pull[p].k <= Len(FilesOf[pull[p].model])
  BY DEF PullInv, PullsOK, PullOK, PullRecords, AtFile
<1>2. FilesOf[pull[p].model] \in Seq(PullFiles)
  BY <1>1, PullAssumption
<1> QED  BY <1>1, <1>2 DEF FilesDone, ModelOf

\* The loop leaves a file: its lock is free, and if its row is written the
\* file was checked.
LEMMA FileIsLeft ==
    ASSUME PullInv, NEW p \in Pulls, pull[p].pc \in AtFile, NEW c \in {"wait", "inspect"},
           pull' = [pull EXCEPT ![p] = [pull[p] EXCEPT !.pc = c, !.k = @ + 1]], stagingLock' = DropFlock(p),
           UNCHANGED <<installRow, installStep, pausing, finalFile, partFile, removing, pullFaults>>,
           \/ UNCHANGED verified
           \/ pull[p].pc \in {"adopt", "mark"} /\ verified' = [verified EXCEPT ![FileOf(p)] = TRUE]
    PROVE  PullInv'
<1> DEFINE a == pull[p]
           n == a.k + 1
           r == [a EXCEPT !.pc = c, !.k = n]
<1>1. /\ PullOK(a) /\ a \in PullRecords /\ a.k \in Nat \ {0} /\ a.k <= Len(FilesOf[a.model])
      /\ a.model \in PullModels /\ Len(FilesOf[a.model]) \in Nat /\ a.pc # "idle"
      /\ FileOf(p) = FileIn(a) /\ FileOf(p) \in PullFiles
  BY LoopFile, AtLoopFile DEF PullOK
<1>2. pull' = [pull EXCEPT ![p] = r] /\ n \in Nat \ {0} /\ n <= Len(FilesOf[a.model]) + 1
  BY <1>1
<1>3. r \in PullRecords /\ SameAttempt(r, a) /\ r.pc = c /\ r.k = n
  <2> HIDE DEF a, n
  <2> QED  BY <1>1, <1>2 DEF PullRecords, SameAttempt
<1> HIDE DEF r, n
<1>4. PullOK(r)
  BY <1>1, <1>2, <1>3 DEF PullOK, SameAttempt, AtFile
<1>5. pull'[p] = r
  BY <1>2, <1>4, OnePull DEF PullInv
<1>6. VolumeTypes
  BY DEF PullInv, VolumeOK
<1>7. /\ stagingLock' \in [PullFiles -> Pulls \cup {NoPull}]
      /\ \A f \in PullFiles :
           /\ stagingLock'[f] # p
           /\ stagingLock'[f] = stagingLock[f] \/ {stagingLock[f], stagingLock'[f]} \subseteq {p, NoPull}
  BY <1>6, FlockDropped
<1>8. VolumeAt(p)'
  BY <1>3, <1>5, <1>7, VolumeAway DEF AtFile
<1>9. verified' \in [PullFiles -> BOOLEAN]
      /\ \A f \in PullFiles : verified'[f] => verified[f] \/ finalFile'[f] # "wrong"
  <2>1. CASE UNCHANGED verified
    BY <1>6, <2>1 DEF VolumeTypes
  <2>2. CASE a.pc \in {"adopt", "mark"} /\ verified' = [verified EXCEPT ![FileOf(p)] = TRUE]
    <3>1. finalFile'[FileOf(p)] # "wrong"
      BY <1>1, <2>2 DEF PullInv, VolumeOK, VolumeAt
    <3> QED  BY <1>1, <1>6, <2>2, <3>1 DEF VolumeTypes
  <2> QED  BY <2>1, <2>2
<1>10. VolumeTypes'
  BY <1>6, <1>7, <1>9 DEF VolumeTypes
<1>11. pullFaults' \in 0..MaxPullFaults
  BY DEF PullInv, RowsOK, RowTypes
<1> QED  BY <1>1, <1>2, <1>3, <1>4, <1>7, <1>8, <1>9, <1>10, <1>11, AttemptGoesOn

LEMMA FileIsAdopted ==
    ASSUME PullInv, NEW p \in Pulls, AdoptFile(p)
    PROVE  PullInv'
<1> DEFINE c == IF HasLock(p) THEN "wait" ELSE "inspect"
<1>1. c \in {"wait", "inspect"}
  OBVIOUS
<1>2. pull[p].pc \in AtFile
  BY DEF AdoptFile, AtFile
<1>3. pull' = [pull EXCEPT ![p] = [pull[p] EXCEPT !.pc = c, !.k = @ + 1]]
  BY DEF AdoptFile, SetPull, PullInv, PullsOK, PullRecords
<1> HIDE DEF c
<1> QED  BY <1>1, <1>2, <1>3, FileIsLeft DEF AdoptFile

LEMMA FileIsMarked ==
    ASSUME PullInv, NEW p \in Pulls, MarkFileVerified(p)
    PROVE  PullInv'
<1>1. pull[p].pc \in AtFile
  BY DEF MarkFileVerified, AtFile
<1> QED  BY <1>1, FileIsLeft DEF MarkFileVerified, SetPull

LEMMA DiskIsChecked ==
    ASSUME PullInv, NEW p \in Pulls, Preflight(p)
    PROVE  PullInv'
<1> DEFINE a == pull[p]
           one == 1
           r == [a EXCEPT !.pc = "wait", !.k = one]
<1>1. PullOK(a) /\ a \in PullRecords /\ a.pc = "inspect" /\ a.model \in PullModels /\ one \in Nat \ {0}
      /\ Len(FilesOf[a.model]) \in Nat
  BY PullAssumption DEF Preflight, PullInv, PullsOK, PullOK
<1>2. CASE pull' = [pull EXCEPT ![p] = r] /\ UNCHANGED <<installRow, installStep, pausing, volume, removing, pullFaults>>
  <2>1. one <= Len(FilesOf[a.model]) + 1
    BY <1>1
  <2>2. r \in PullRecords /\ SameAttempt(r, a) /\ r.pc = "wait" /\ r.k = one
    <3> HIDE DEF a, one
    <3> QED  BY <1>1 DEF PullRecords, SameAttempt
  <2> HIDE DEF r, one
  <2>3. PullOK(r)
    BY <1>1, <2>1, <2>2 DEF PullOK, SameAttempt, AtFile
  <2> QED  BY <1>1, <1>2, <2>2, <2>3, AttemptGoesAway
<1>3. CASE SpendPull("disk") /\ FailPull(p, TRUE) /\ UNCHANGED <<finalFile, partFile, verified>>
  <2>1. pullFaults > 0 /\ pullFaults' \in 0..MaxPullFaults
    BY <1>3, FaultSpent DEF PullInv, RowsOK
  <2>2. partFile' \in [PullFiles -> [len : Nat, ok : BOOLEAN]]
    BY <1>3 DEF PullInv, VolumeOK, VolumeTypes
  <2> QED  BY <1>1, <1>3, <2>1, <2>2, AttemptFails
<1> QED  BY <1>2, <1>3 DEF Preflight, SetPull

LEMMA FileIsSkipped ==
    ASSUME PullInv, NEW p \in Pulls, SkipVerified(p)
    PROVE  PullInv'
<1> DEFINE a == pull[p]
           n == a.k + 1
           r == [a EXCEPT !.k = n]
<1>1. /\ a.pc = "wait" /\ PullOK(a) /\ a \in PullRecords /\ a.k \in Nat \ {0} /\ a.k <= Len(FilesOf[a.model])
      /\ Len(FilesOf[a.model]) \in Nat
      /\ UNCHANGED <<installRow, installStep, pausing, volume, removing, pullFaults>>
  BY LoopFile DEF SkipVerified, PullOK
<1>2. pull' = [pull EXCEPT ![p] = r] /\ n \in Nat \ {0} /\ n <= Len(FilesOf[a.model]) + 1
  BY <1>1 DEF SkipVerified, SetPull
<1>3. r \in PullRecords /\ SameAttempt(r, a) /\ r.pc = "wait" /\ r.k = n
  <2> HIDE DEF a, n
  <2> QED  BY <1>1, <1>2 DEF PullRecords, SameAttempt
<1> HIDE DEF r, n
<1>4. PullOK(r)
  BY <1>1, <1>2, <1>3 DEF PullOK, SameAttempt, AtFile
<1> QED  BY <1>1, <1>2, <1>3, <1>4, AttemptGoesAway

LEMMA StagingIsLocked ==
    ASSUME PullInv, NEW p \in Pulls, LockStaging(p)
    PROVE  PullInv'
<1> DEFINE a == pull[p]
           r == [a EXCEPT !.pc = "recheck"]
<1>1. /\ a.pc = "wait" /\ PullOK(a) /\ a \in PullRecords /\ a.k \in Nat \ {0} /\ a.k <= Len(FilesOf[a.model])
      /\ a.model \in PullModels /\ FileOf(p) = FileIn(a) /\ FileOf(p) \in PullFiles /\ stagingLock[FileOf(p)] = NoPull
      /\ stagingLock' = [stagingLock EXCEPT ![FileOf(p)] = p]
      /\ UNCHANGED <<installRow, installStep, pausing, finalFile, partFile, verified, removing, pullFaults>>
  BY LoopFile DEF LockStaging, PullOK, FlockFree
<1>2. pull' = [pull EXCEPT ![p] = r]
  BY DEF LockStaging, GoPull, SetPull
<1>3. r \in PullRecords /\ SameAttempt(r, a) /\ r.pc = "recheck" /\ r.k = a.k
  <2> HIDE DEF a
  <2> QED  BY <1>1 DEF PullRecords, SameAttempt
<1> HIDE DEF r
<1>4. PullOK(r)
  BY <1>1, <1>3 DEF PullOK, SameAttempt, AtFile
<1>5. pull'[p] = r /\ FileIn(r) = FileIn(a)
  BY <1>2, <1>3, <1>4, OnePull DEF PullInv, FileIn, SameAttempt
<1>6. VolumeTypes' /\ pullFaults' \in 0..MaxPullFaults
  BY <1>1 DEF PullInv, VolumeOK, VolumeTypes, RowsOK, RowTypes
<1>7. \A f \in PullFiles : stagingLock'[f] = (IF f = FileOf(p) THEN p ELSE stagingLock[f])
  BY <1>1 DEF PullInv, VolumeOK, VolumeTypes
<1>8. VolumeAt(p)'
  BY <1>1, <1>3, <1>5, <1>7 DEF PullInv, VolumeOK, VolumeAt, AtFile, Locked
<1> QED  BY <1>1, <1>2, <1>3, <1>4, <1>6, <1>7, <1>8, AttemptGoesOn

LEMMA EmptyPartIs == EmptyPart \in [len : Nat, ok : BOOLEAN] /\ EmptyPart.len = 0 /\ EmptyPart.ok = TRUE
BY DEF EmptyPart

\* A step on the .part of the locked file: the record follows what is on disk.
LEMMA PartIsWritten ==
    ASSUME PullInv, NEW p \in Pulls, pull[p].pc \in Locked, NEW r, r \in PullRecords, SameAttempt(r, pull[p]),
           pull' = [pull EXCEPT ![p] = r], r.k = pull[p].k, r.pc \in {"request", "body", "verify"},
           partFile' \in [PullFiles -> [len : Nat, ok : BOOLEAN]],
           \A f \in PullFiles \ {FileOf(p)} : partFile'[f] = partFile[f],
           partFile'[FileOf(p)].len = r.off, partFile'[FileOf(p)].ok = r.hash,
           UNCHANGED <<installRow, installStep, pausing, finalFile, verified, stagingLock, removing>>,
           pullFaults' \in 0..MaxPullFaults, pullFaults' > 0 => pullFaults > 0
    PROVE  PullInv'
<1> DEFINE a == pull[p]
<1>1. /\ PullOK(a) /\ a.pc # "idle" /\ a.k <= Len(FilesOf[a.model]) /\ a.model \in PullModels /\ a.pc \in AtFile
      /\ FileOf(p) = FileIn(a) /\ FileOf(p) \in PullFiles /\ a.step # "queued" /\ a.req \in {"enqueued", "done"}
      /\ Len(FilesOf[a.model]) \in Nat /\ a.k \in Nat
  <2>1. a.pc \in AtFile
    BY DEF Locked
  <2> QED  BY <2>1, LoopFile, AtLoopFile DEF PullInv, PullsOK, PullOK, PullRecords
<1>2. PullOK(r)
  BY <1>1 DEF PullOK, SameAttempt, AtFile
<1>3. pull'[p] = r /\ FileIn(r) = FileOf(p)
  BY <1>1, <1>2, OnePull DEF PullInv, FileIn, SameAttempt
<1>4. VolumeTypes'
  BY DEF PullInv, VolumeOK, VolumeTypes
<1>5. stagingLock[FileOf(p)] = p /\ \A f \in PullFiles : stagingLock[f] = p => f = FileOf(p)
  BY <1>1 DEF PullInv, VolumeOK, VolumeAt
<1>6. VolumeAt(p)'
  BY <1>3, <1>5 DEF VolumeAt, AtFile, Locked
<1> QED  BY <1>1, <1>2, <1>4, <1>5, <1>6, AttemptGoesOn

\* Under the lock the file is inspected again, and what the .part holds is
\* hashed.
LEMMA FileIsRechecked ==
    ASSUME PullInv, NEW p \in Pulls, Recheck(p)
    PROVE  PullInv'
<1> DEFINE a == pull[p]
           f == FileOf(p)
           here == IF partFile[f].len > Blocks THEN EmptyPart ELSE partFile[f]
<1>1. /\ a.pc = "recheck" /\ a.pc \in AtFile /\ a.pc \in Locked
      /\ UNCHANGED <<installRow, installStep, pausing, finalFile, verified, removing, pullFaults>>
  BY DEF Recheck, AtFile, Locked
<1>2. /\ PullOK(a) /\ a \in PullRecords /\ a.pc # "idle" /\ a.k <= Len(FilesOf[a.model]) /\ a.model \in PullModels
      /\ f = FileIn(a) /\ f \in PullFiles
  BY <1>1, LoopFile, AtLoopFile DEF PullOK
<1>3. CASE /\ stagingLock' = DropFlock(p) /\ UNCHANGED partFile
           /\ pull' = [pull EXCEPT ![p] = [pull[p] EXCEPT !.pc = "wait", !.k = @ + 1]]
  BY <1>1, <1>3, FileIsLeft
<1>4. CASE /\ FileAdoptable(f) /\ UNCHANGED <<stagingLock, partFile>>
           /\ pull' = [pull EXCEPT ![p] = [pull[p] EXCEPT !.pc = "adopt"]]
  <2> DEFINE r == [a EXCEPT !.pc = "adopt"]
  <2>1. pull' = [pull EXCEPT ![p] = r]
    BY <1>4
  <2>2. r \in PullRecords /\ SameAttempt(r, a) /\ r.pc = "adopt" /\ r.k = a.k
    <3> HIDE DEF a
    <3> QED  BY <1>2 DEF PullRecords, SameAttempt
  <2> HIDE DEF r
  <2>3. PullOK(r)
    BY <1>1, <1>2, <2>2 DEF PullOK, SameAttempt, AtFile
  <2>4. pull'[p] = r /\ FileIn(r) = FileIn(a)
    BY <2>1, <2>2, <2>3, OnePull DEF PullInv, FileIn, SameAttempt
  <2>5. VolumeTypes' /\ pullFaults' \in 0..MaxPullFaults
    BY <1>1, <1>4 DEF PullInv, VolumeOK, VolumeTypes, RowsOK, RowTypes
  <2>6. VolumeAt(p)'
    BY <1>1, <1>2, <1>4, <2>2, <2>4 DEF PullInv, VolumeOK, VolumeAt, AtFile, Locked, FileAdoptable
  <2> QED  BY <1>1, <1>2, <1>4, <2>1, <2>2, <2>3, <2>5, <2>6, AttemptGoesOn
<1>5. CASE /\ partFile' = [partFile EXCEPT ![f] = here] /\ UNCHANGED stagingLock
           /\ pull' = [pull EXCEPT ![p] = [pull[p] EXCEPT !.off = here.len, !.hash = here.ok,
                                             !.pc = IF here.len < Blocks THEN "request" ELSE "verify"]]
  <2> DEFINE c == IF here.len < Blocks THEN "request" ELSE "verify"
             n == here.len
             h == here.ok
             r == [a EXCEPT !.off = n, !.hash = h, !.pc = c]
  <2>1. pull' = [pull EXCEPT ![p] = r]
    BY <1>5
  <2>2. here \in [len : Nat, ok : BOOLEAN]
    BY <1>2, EmptyPartIs DEF PullInv, VolumeOK, VolumeTypes
  <2>3. n \in Nat /\ h \in BOOLEAN /\ c \in {"request", "verify"}
    <3> HIDE DEF here
    <3> QED  BY <2>2
  <2>4. r \in PullRecords /\ SameAttempt(r, a) /\ r.pc = c /\ r.k = a.k /\ r.off = n /\ r.hash = h
    <3> HIDE DEF a, n, h, c
    <3> QED  BY <1>2, <2>3 DEF PullRecords, SameAttempt
  <2> HIDE DEF r, c, here
  <2>5. /\ partFile' \in [PullFiles -> [len : Nat, ok : BOOLEAN]] /\ partFile'[f] = here
        /\ \A g \in PullFiles \ {f} : partFile'[g] = partFile[g]
    BY <1>2, <1>5, <2>2 DEF PullInv, VolumeOK, VolumeTypes
  <2>6. pullFaults' \in 0..MaxPullFaults
    BY <1>1 DEF PullInv, RowsOK, RowTypes
  <2> QED  BY <1>1, <1>5, <2>1, <2>3, <2>4, <2>5, <2>6, PartIsWritten
<1> QED  BY <1>3, <1>4, <1>5 DEF Recheck, SetPull, GoPull

\* 206 keeps the offset, 200 starts over, a refusal fails the attempt.
LEMMA ServerResponds ==
    ASSUME PullInv, NEW p \in Pulls, Respond(p)
    PROVE  PullInv'
<1> DEFINE a == pull[p]
           f == FileOf(p)
<1>1. a.pc = "request" /\ a.pc \in AtFile /\ a.pc \in Locked
  BY DEF Respond, AtFile, Locked
<1>2. /\ PullOK(a) /\ a \in PullRecords /\ a.pc # "idle" /\ f = FileIn(a) /\ f \in PullFiles
      /\ partFile[f].len = a.off /\ partFile[f].ok = a.hash
      /\ partFile \in [PullFiles -> [len : Nat, ok : BOOLEAN]] /\ pullFaults \in 0..MaxPullFaults
  BY <1>1, LoopFile, AtLoopFile DEF PullOK, PullInv, VolumeOK, VolumeAt, VolumeTypes, RowsOK, RowTypes
<1>3. CASE /\ pull' = [pull EXCEPT ![p] = [a EXCEPT !.pc = "body"]]
           /\ UNCHANGED <<installRow, installStep, pausing, volume, removing, pullFaults>>
  <2> DEFINE r == [a EXCEPT !.pc = "body"]
  <2>1. r \in PullRecords /\ SameAttempt(r, a) /\ r.pc = "body" /\ r.k = a.k /\ r.off = a.off /\ r.hash = a.hash
    <3> HIDE DEF a
    <3> QED  BY <1>2 DEF PullRecords, SameAttempt
  <2>2. pull' = [pull EXCEPT ![p] = r]
    BY <1>3
  <2> HIDE DEF r
  <2> QED  BY <1>1, <1>2, <1>3, <2>1, <2>2, PartIsWritten DEF volume
<1>4. CASE /\ pull' = [pull EXCEPT ![p] = [a EXCEPT !.pc = "body", !.off = 0, !.hash = TRUE]]
           /\ partFile' = [partFile EXCEPT ![f] = EmptyPart]
           /\ UNCHANGED <<installRow, installStep, pausing, finalFile, verified, stagingLock, removing, pullFaults>>
  <2> DEFINE n == EmptyPart.len
             h == EmptyPart.ok
             r == [a EXCEPT !.pc = "body", !.off = n, !.hash = h]
  <2>1. n \in Nat /\ h \in BOOLEAN /\ n = 0 /\ h = TRUE
    BY EmptyPartIs
  <2>2. pull' = [pull EXCEPT ![p] = r]
    BY <1>4, <2>1
  <2>3. r \in PullRecords /\ SameAttempt(r, a) /\ r.pc = "body" /\ r.k = a.k /\ r.off = n /\ r.hash = h
    <3>1. n \in Nat /\ h \in BOOLEAN
      BY <2>1
    <3> HIDE DEF a, n, h
    <3> QED  BY <1>2, <3>1 DEF PullRecords, SameAttempt
  <2> HIDE DEF r
  <2>4. /\ partFile' \in [PullFiles -> [len : Nat, ok : BOOLEAN]] /\ partFile'[f] = EmptyPart
        /\ \A g \in PullFiles \ {f} : partFile'[g] = partFile[g]
    BY <1>2, <1>4, EmptyPartIs
  <2> QED  BY <1>1, <1>2, <1>4, <2>2, <2>3, <2>4, PartIsWritten
<1>5. CASE SpendPull("error") /\ FailPull(p, TRUE) /\ UNCHANGED <<finalFile, partFile, verified>>
  <2>1. pullFaults > 0 /\ pullFaults' \in 0..MaxPullFaults
    BY <1>5, FaultSpent DEF PullInv, RowsOK
  <2> QED  BY <1>2, <1>5, <2>1, AttemptFails
<1> QED  BY <1>3, <1>4, <1>5 DEF Respond, SetPull, GoPull

\* A block lands at the end of the .part, and the running digest goes with it.
LEMMA BlockIsWritten ==
    ASSUME PullInv, NEW p \in Pulls, NEW good \in BOOLEAN, WriteBlock(p, good)
    PROVE  PullInv'
<1> DEFINE a == pull[p]
           f == FileOf(p)
           n == a.off + 1
           h == a.hash /\ good
           r == [a EXCEPT !.off = n, !.hash = h]
           b == [len |-> IF partFile[f].len > a.off THEN partFile[f].len ELSE a.off + 1,
                 ok |-> partFile[f].ok /\ good /\ a.off <= partFile[f].len]
<1>1. a.pc = "body" /\ a.pc \in AtFile /\ a.pc \in Locked
  BY DEF WriteBlock, AtFile, Locked
<1>2. /\ PullOK(a) /\ a \in PullRecords /\ f = FileIn(a) /\ f \in PullFiles
      /\ partFile[f].len = a.off /\ partFile[f].ok = a.hash
      /\ partFile \in [PullFiles -> [len : Nat, ok : BOOLEAN]] /\ pullFaults \in 0..MaxPullFaults /\ RowTypes
  BY <1>1, LoopFile, AtLoopFile DEF PullOK, PullInv, VolumeOK, VolumeAt, VolumeTypes, RowsOK, RowTypes
<1>3. /\ pull' = [pull EXCEPT ![p] = r] /\ partFile' = [partFile EXCEPT ![f] = b]
      /\ UNCHANGED <<installRow, installStep, pausing, finalFile, verified, stagingLock, removing>>
      /\ UNCHANGED pullFaults \/ SpendPull("bad")
  BY <1>2 DEF WriteBlock, SetPull
<1>4. pullFaults' \in 0..MaxPullFaults /\ (pullFaults' > 0 => pullFaults > 0)
  BY <1>2, <1>3, FaultSpent
<1>5. n \in Nat /\ h \in BOOLEAN
  BY <1>2 DEF PullRecords
<1>6. b.len = n /\ b.ok = h /\ b \in [len : Nat, ok : BOOLEAN]
  <2>1. a.off \in Nat /\ a.hash \in BOOLEAN
    BY <1>2 DEF PullRecords
  <2>2. ~(partFile[f].len > a.off) /\ a.off <= partFile[f].len
    BY <1>2, <2>1
  <2>3. b = [len |-> n, ok |-> h]
    BY <1>2, <2>2
  <2> HIDE DEF n, h, b
  <2> QED  BY <1>5, <2>3
<1>7. r \in PullRecords /\ SameAttempt(r, a) /\ r.pc = "body" /\ r.k = a.k /\ r.off = n /\ r.hash = h
  <2>1. a.pc = "body" /\ a \in PullRecords
    BY <1>1, <1>2
  <2> HIDE DEF a, n, h
  <2> QED  BY <1>5, <2>1 DEF PullRecords, SameAttempt
<1> HIDE DEF r, b, n, h
<1>8. /\ partFile' \in [PullFiles -> [len : Nat, ok : BOOLEAN]] /\ partFile'[f] = b
      /\ \A g \in PullFiles \ {f} : partFile'[g] = partFile[g]
  BY <1>2, <1>3, <1>6
<1> QED  BY <1>1, <1>3, <1>4, <1>6, <1>7, <1>8, PartIsWritten

LEMMA BodyEnds ==
    ASSUME PullInv, NEW p \in Pulls, EndBody(p)
    PROVE  PullInv'
<1> DEFINE a == pull[p]
           f == FileOf(p)
           r == [a EXCEPT !.pc = "verify"]
<1>1. a.pc = "body" /\ a.pc \in AtFile /\ a.pc \in Locked
  BY DEF EndBody, AtFile, Locked
<1>2. /\ PullOK(a) /\ a \in PullRecords /\ f = FileIn(a) /\ f \in PullFiles
      /\ partFile[f].len = a.off /\ partFile[f].ok = a.hash
      /\ partFile \in [PullFiles -> [len : Nat, ok : BOOLEAN]] /\ pullFaults \in 0..MaxPullFaults /\ RowTypes
  BY <1>1, LoopFile, AtLoopFile DEF PullOK, PullInv, VolumeOK, VolumeAt, VolumeTypes, RowsOK, RowTypes
<1>3. /\ pull' = [pull EXCEPT ![p] = r] /\ UNCHANGED <<installRow, installStep, pausing, volume, removing>>
      /\ UNCHANGED pullFaults \/ SpendPull("error")
  BY DEF EndBody, GoPull, SetPull
<1>4. pullFaults' \in 0..MaxPullFaults /\ (pullFaults' > 0 => pullFaults > 0)
  BY <1>2, <1>3, FaultSpent
<1>5. r \in PullRecords /\ SameAttempt(r, a) /\ r.pc = "verify" /\ r.k = a.k /\ r.off = a.off /\ r.hash = a.hash
  <2>1. a \in PullRecords
    BY <1>2
  <2> HIDE DEF a
  <2> QED  BY <2>1 DEF PullRecords, SameAttempt
<1> HIDE DEF r
<1> QED  BY <1>1, <1>2, <1>3, <1>4, <1>5, PartIsWritten DEF volume

\* What hashed right is right on disk, since the digest is that of the .part.
LEMMA PartIsVerified ==
    ASSUME PullInv, NEW p \in Pulls, VerifyPart(p)
    PROVE  PullInv'
<1> DEFINE a == pull[p]
           f == FileOf(p)
<1>1. /\ a.pc = "verify" /\ a.pc \in AtFile /\ a.pc \in Locked
      /\ partFile' = [partFile EXCEPT ![f] = EmptyPart] /\ UNCHANGED <<verified, pullFaults>>
  BY DEF VerifyPart, AtFile, Locked
<1>2. /\ PullOK(a) /\ a \in PullRecords /\ a.pc # "idle" /\ f = FileIn(a) /\ f \in PullFiles
      /\ partFile[f].ok = a.hash /\ stagingLock[f] = p /\ (\A g \in PullFiles : stagingLock[g] = p => g = f)
      /\ pullFaults \in 0..MaxPullFaults /\ VolumeTypes
  BY <1>1, LoopFile, AtLoopFile DEF PullOK, PullInv, VolumeOK, VolumeAt, RowsOK, RowTypes
<1>3. /\ partFile' \in [PullFiles -> [len : Nat, ok : BOOLEAN]]
      /\ \A g \in PullFiles : partFile'[g] = partFile[g] \/ stagingLock[g] = p
  BY <1>1, <1>2, EmptyPartIs DEF VolumeTypes
<1>4. CASE MatchesPin(p)
  <2> DEFINE n == EmptyPart.len
             h == EmptyPart.ok
             r == [a EXCEPT !.pc = "mark", !.off = n, !.hash = h]
  <2>1. a.hash = TRUE /\ finalFile' = [finalFile EXCEPT ![f] = "right"]
        /\ UNCHANGED <<installRow, installStep, pausing, stagingLock, removing>>
    <3>1. a.hash /\ a.hash \in BOOLEAN
      BY <1>2, <1>4 DEF MatchesPin, PullRecords
    <3> QED  BY <1>2, <1>4, <3>1 DEF VerifyPart
  <2>2. pull' = [pull EXCEPT ![p] = r] /\ n \in Nat /\ h \in BOOLEAN
    BY <1>4, EmptyPartIs DEF VerifyPart, SetPull
  <2>3. r \in PullRecords /\ SameAttempt(r, a) /\ r.pc = "mark" /\ r.k = a.k
    <3>1. a \in PullRecords
      BY <1>2
    <3> HIDE DEF a, n, h
    <3> QED  BY <2>2, <3>1 DEF PullRecords, SameAttempt
  <2> HIDE DEF r
  <2>4. PullOK(r)
    BY <1>1, <1>2, <2>3 DEF PullOK, SameAttempt, AtFile
  <2>5. pull'[p] = r /\ FileIn(r) = f
    BY <1>2, <2>2, <2>3, <2>4, OnePull DEF PullInv, FileIn, SameAttempt
  <2>6. VolumeTypes' /\ \A g \in PullFiles : finalFile'[g] = finalFile[g] \/ finalFile'[g] # "wrong"
    BY <1>1, <1>2, <1>3, <2>1 DEF VolumeTypes
  <2>7. finalFile'[f] # "wrong"
    BY <1>2, <2>1 DEF VolumeTypes
  <2>8. VolumeAt(p)'
    BY <1>2, <2>1, <2>3, <2>5, <2>7 DEF VolumeAt, AtFile, Locked
  <2> QED  BY <1>1, <1>2, <1>3, <2>1, <2>2, <2>3, <2>4, <2>6, <2>8, AttemptGoesOn
<1>5. CASE ~MatchesPin(p)
  <2>1. FailPull(p, TRUE) /\ UNCHANGED finalFile
    BY <1>5 DEF VerifyPart
  <2> QED  BY <1>1, <1>2, <1>3, <2>1, AttemptFails
<1> QED  BY <1>4, <1>5

\* The last file is done: the row is installed, whoever else downloads it.
LEMMA InstallIsMarked ==
    ASSUME PullInv, NEW p \in Pulls, MarkInstalled(p)
    PROVE  PullInv'
<1> DEFINE s == IF pull[p].step = "running" THEN "done" ELSE pull[p].step
           r == IdlePull(p, s)
<1>1. /\ PullOK(pull[p]) /\ pull[p] \in PullRecords /\ pull[p].pc = "wait" /\ pull[p].model \in PullModels
      /\ pull[p].step # "queued" /\ pull[p].req \in {"enqueued", "done"} /\ RowTypes
  BY DEF MarkInstalled, PullInv, PullsOK, PullOK, PullRecords, RowsOK
<1>2. /\ pull' = [pull EXCEPT ![p] = r] /\ installRow' = [installRow EXCEPT ![pull[p].model] = "installed"]
      /\ UNCHANGED <<installStep, pausing, volume, removing, pullFaults>>
  BY DEF MarkInstalled, SetPull, SetInstall, ModelOf
<1>3. s \in {"none", "queued", "running", "done", "failed", "canceled"} /\ s \notin {"running", "queued"}
      /\ (s = "none" => pull[p].step = "none")
  BY <1>1 DEF PullRecords
<1>4. r \in PullRecords /\ r.model = pull[p].model /\ r.req = pull[p].req /\ r.step = s /\ r.pc = "idle"
      /\ r.attempt = 0 /\ r.river = 0
  BY <1>1, <1>3, IdlePullIs
<1> HIDE DEF r, s
<1>5. PullOK(r) /\ r.pc \notin AtFile /\ pull[p].pc \notin AtFile
  BY <1>1, <1>3, <1>4 DEF PullOK, AtFile
<1>6. /\ installRow' \in [PullModels -> InstallStatuses] /\ installRow'[pull[p].model] # "downloading"
      /\ \A m \in PullModels : installRow'[m] = "downloading" => installRow[m] = "downloading"
  BY <1>1, <1>2 DEF RowTypes, InstallStatuses
<1>7. RowsOK'
  <2>1. pullFaults' \in 0..MaxPullFaults /\ (pullFaults' > 0 => pullFaults > 0 /\ r.river = r.attempt)
    BY <1>1, <1>2, <1>4 DEF RowTypes
  <2> QED  BY <1>1, <1>2, <1>4, <1>5, <1>6, <2>1, RowsKept DEF PullInv
<1> QED  BY <1>2, <1>5, <1>7, QuietStep

-----------------------------------------------------------------------------
(* `models remove` *)

LEMMA RemoveStarts ==
    ASSUME PullInv, NEW m \in PullModels, StartRemove(m)
    PROVE  PullInv'
<1> DEFINE shared == UNION {{FilesOf[n][i] : i \in 1..Len(FilesOf[n])} :
                               n \in {n \in PullModels \ {m} : installRow[n] = "installed"}}
           files == {FilesOf[m][i] : i \in 1..Len(FilesOf[m])} \ shared
<1>1. /\ removing' = [model |-> m, row |-> FALSE, files |-> files] /\ SpendPull("remove")
      /\ UNCHANGED <<installRow, installStep, pausing, volume, pull>>
  BY DEF StartRemove
<1>2. files \in SUBSET PullFiles
  <2>1. FilesOf[m] \in Seq(PullFiles)
    BY PullAssumption
  <2>2. \A i \in 1..Len(FilesOf[m]) : FilesOf[m][i] \in PullFiles
    BY <2>1
  <2> HIDE DEF shared
  <2> QED  BY <2>2
<1> HIDE DEF files
<1>3. pullFaults' = 0 /\ pullFaults' \in 0..MaxPullFaults
  BY <1>1, FaultSpent DEF PullInv, RowsOK
<1>4. removing' \in [model : PullModels \cup {NoModel}, files : SUBSET PullFiles, row : BOOLEAN]
  BY <1>1, <1>2
<1>5. PullsOK' /\ VolumeOK'
  BY <1>1 DEF PullInv, PullsOK, VolumeOK, VolumeTypes, VolumeAt, FileIn, volume
<1>6. RowsOK'
  BY <1>1, <1>3, <1>4 DEF PullInv, RowsOK, RowTypes, NamedPull
<1> QED  BY <1>5, <1>6 DEF PullInv

\* A removal never turns a file into a wrong one.
LEMMA FileIsRemoved ==
    ASSUME PullInv, NEW f \in PullFiles, RemoveFile(f)
    PROVE  PullInv'
<1>1. UNCHANGED <<installRow, installStep, pausing, partFile, stagingLock, pull, pullFaults>>
      /\ removing \in [model : PullModels \cup {NoModel}, files : SUBSET PullFiles, row : BOOLEAN] /\ VolumeTypes
  BY DEF RemoveFile, PullInv, RowsOK, RowTypes, VolumeOK
<1>2. /\ VolumeTypes' /\ \A g \in PullFiles : (finalFile'[g] = finalFile[g] \/ finalFile'[g] = "absent")
                                            /\ (verified'[g] => verified[g])
      /\ removing' \in [model : PullModels \cup {NoModel}, files : SUBSET PullFiles, row : BOOLEAN]
  <2>1. CASE removing.row
    <3> DEFINE rest == removing.files \ {f}
    <3>1. rest \in SUBSET PullFiles /\ removing' = [removing EXCEPT !.row = FALSE, !.files = rest]
          /\ verified' = [verified EXCEPT ![f] = FALSE] /\ UNCHANGED finalFile
      BY <1>1, <2>1 DEF RemoveFile
    <3> HIDE DEF rest
    <3>2. removing' \in [model : PullModels \cup {NoModel}, files : SUBSET PullFiles, row : BOOLEAN]
      BY <1>1, <3>1
    <3> QED  BY <1>1, <3>1, <3>2 DEF VolumeTypes
  <2>2. CASE ~removing.row
    <3>1. removing' = [removing EXCEPT !.row = TRUE]
          /\ finalFile' = [finalFile EXCEPT ![f] = "absent"] /\ UNCHANGED verified
      BY <2>2 DEF RemoveFile
    <3>2. removing' \in [model : PullModels \cup {NoModel}, files : SUBSET PullFiles, row : BOOLEAN]
      BY <1>1, <3>1
    <3> QED  BY <1>1, <3>1, <3>2 DEF VolumeTypes
  <2> QED  BY <2>1, <2>2
<1>3. VolumeOK'
  <2>1. ASSUME NEW q \in Pulls PROVE VolumeAt(q)'
    <3>1. VolumeAt(q) /\ (pull[q].pc \in AtFile => FileIn(pull[q]) \in PullFiles)
      BY FileTyped DEF PullInv, VolumeOK, PullsOK
    <3> QED  BY <1>1, <1>2, <3>1 DEF VolumeAt, FileIn, AtFile
  <2> QED  BY <1>2, <2>1 DEF PullInv, VolumeOK
<1>4. PullsOK' /\ RowsOK'
  BY <1>1, <1>2 DEF PullInv, PullsOK, RowsOK, RowTypes, NamedPull
<1> QED  BY <1>3, <1>4 DEF PullInv

LEMMA InstallIsDeleted ==
    ASSUME PullInv, DeleteInstall
    PROVE  PullInv'
<1> DEFINE m == removing.model
<1>1. /\ installRow' = [installRow EXCEPT ![m] = "none"] /\ installStep' = [installStep EXCEPT ![m] = NoPull]
      /\ removing' = NoRemove /\ UNCHANGED <<pausing, volume, pull, pullFaults>>
      /\ m \in PullModels /\ RowTypes
  BY DEF DeleteInstall, SetInstall, PullInv, RowsOK, RowTypes
<1> HIDE DEF m
<1>2. NoRemove \in [model : PullModels \cup {NoModel}, files : SUBSET PullFiles, row : BOOLEAN]
  BY DEF NoRemove
<1>3. PullsOK' /\ VolumeOK'
  BY <1>1 DEF PullInv, PullsOK, VolumeOK, VolumeTypes, VolumeAt, FileIn, volume
<1>4. RowTypes'
  BY <1>1, <1>2 DEF RowTypes, InstallStatuses
<1>5. \A n \in PullModels : NamedPull(n, installStep[n])' /\ NamedPull(n, pausing[n])'
  BY <1>1 DEF PullInv, RowsOK, RowTypes, NamedPull
<1>6. \A n \in PullModels : installRow'[n] = "downloading" => installRow[n] = "downloading"
  BY <1>1 DEF RowTypes
<1>7. RowsOK'
  BY <1>1, <1>4, <1>5, <1>6 DEF PullInv, RowsOK
<1> QED  BY <1>3, <1>7 DEF PullInv

-----------------------------------------------------------------------------
(* The theorem *)

LEMMA PullStepKeeps ==
    ASSUME PullInv, NEW p \in Pulls, PullStep(p)
    PROVE  PullInv'
<1>1. ASSUME ClaimInstall(p) \/ EnqueuePull(p) \/ LinkStep(p) \/ StartAttempt(p) \/ StopCanceled(p)
      PROVE  PullInv'
  BY <1>1, InstallIsClaimed, PullIsEnqueued, StepIsLinked, AttemptStarts, CanceledStops
<1>2. ASSUME InspectFile(p) \/ AdoptFile(p) \/ Preflight(p) \/ SkipVerified(p) \/ LockStaging(p)
      PROVE  PullInv'
  BY <1>2, FileIsInspected, FileIsAdopted, DiskIsChecked, FileIsSkipped, StagingIsLocked
<1>3. ASSUME Recheck(p) \/ Respond(p) \/ WriteBlock(p, TRUE) \/ EndBody(p)
      PROVE  PullInv'
  BY <1>3, FileIsRechecked, ServerResponds, BlockIsWritten, BodyEnds
<1>4. ASSUME VerifyPart(p) \/ MarkFileVerified(p) \/ MarkInstalled(p)
      PROVE  PullInv'
  BY <1>4, PartIsVerified, FileIsMarked, InstallIsMarked
<1> QED  BY <1>1, <1>2, <1>3, <1>4 DEF PullStep

LEMMA PullInvKept == PullInv /\ [PullNext]_pullVars => PullInv'
<1> SUFFICES ASSUME PullInv, [PullNext]_pullVars PROVE PullInv'
  OBVIOUS
<1>1. ASSUME NEW p \in Pulls, PullStep(p) PROVE PullInv'
  BY <1>1, PullStepKeeps
<1>2. ASSUME NEW p \in Pulls, EnqueueFails(p) \/ ClaimFails(p) \/ PullCrash(p) \/ TransientError(p) PROVE PullInv'
  BY <1>2, EnqueueIsUndone, ClaimIsLost, CrashIsRequeued, ErrorIsRetried
<1>3. ASSUME NEW p \in Pulls, WriteBlock(p, FALSE) PROVE PullInv'
  BY <1>3, BlockIsWritten
<1>4. ASSUME NEW p \in Pulls, NEW m \in PullModels, CheckInstall(p, m) \/ CliPull(p, m) PROVE PullInv'
  BY <1>4, InstallIsChecked, CliPullStarts
<1>5. ASSUME NEW m \in PullModels, PauseInstall(m) \/ CancelPaused(m) \/ StartRemove(m) PROVE PullInv'
  BY <1>5, InstallIsPaused, PausedIsCanceled, RemoveStarts
<1>6. ASSUME RemoveStep PROVE PullInv'
  BY <1>6, FileIsRemoved, InstallIsDeleted DEF RemoveStep
<1>7. ASSUME UNCHANGED pullVars PROVE PullInv'
  BY <1>7 DEF pullVars, PullInv, PullsOK, VolumeOK, VolumeTypes, VolumeAt, FileIn, RowsOK, RowTypes, NamedPull
<1> QED  BY <1>1, <1>2, <1>3, <1>4, <1>5, <1>6, <1>7 DEF PullNext

\* A verified file that is there is not a wrong one, and an owner works.
LEMMA PullInvIsSafe == PullInv => PullSafe
<1> SUFFICES ASSUME PullInv PROVE PullSafe
  OBVIOUS
<1>1. PullTypeOK
  <2>1. \A p \in Pulls : pull[p].pc \in {"recheck", "request", "body", "verify"} => stagingLock[FileOf(p)] = p
    BY DEF PullInv, VolumeOK, VolumeAt, FileIn, FileOf, ModelOf, Locked, AtFile
  <2> QED  BY <2>1 DEF PullInv, PullsOK, PullRecords, VolumeOK, VolumeTypes, RowsOK, RowTypes, PullTypeOK
<1>2. LoadsPinnedBytes
  <2> SUFFICES ASSUME NEW m \in PullModels, LoadGate(m), NEW i \in 1..Len(FilesOf[m])
               PROVE  finalFile[FilesOf[m][i]] = "right"
    BY DEF LoadsPinnedBytes
  <2>1. FilesOf[m] \in Seq(PullFiles)
    BY PullAssumption
  <2>2. FilesOf[m][i] \in PullFiles
    BY <2>1
  <2>3. FileKnown(FilesOf[m][i])
    BY DEF LoadGate
  <2> QED  BY <2>2, <2>3 DEF FileKnown, PullInv, VolumeOK, VolumeTypes
<1>3. NoOrphanDownload
  <2>1. \A p \in Pulls : Owner(pull[p]) => PullWorking(p)
    BY DEF Owner, PullWorking
  <2> QED  BY <2>1 DEF PullInv, RowsOK, NoOrphanDownload, ModelOf
<1> QED  BY <1>1, <1>2, <1>3 DEF PullSafe

\* What an engine loads is what was pinned, whoever works on a .part holds its
\* lock, and no install is left downloading with nothing to end it: whatever
\* pulls, pauses, resumes, crashes and removals interleave on shared files
\* (download.go, lockStaging, PullStep.Run, LoadGate.Check).
THEOREM PullsAreSafe == PullSpec => []PullSafe
<1>1. PullInit => PullInv
  BY PullInitially
<1>2. PullInv /\ [PullNext]_pullVars => PullInv'
  BY PullInvKept
<1>3. PullInv => PullSafe
  BY PullInvIsSafe
<1> QED  BY <1>1, <1>2, <1>3, PTL DEF PullSpec
=============================================================================
