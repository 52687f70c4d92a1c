\* Two pulls of models that share a file, with two transient errors or one
\* other fault; two workers that swap models; two renders that share
\* subtitles, with one fault; two processes and two edits that restart
\* renders; two uploads, with two faults; one channel with a tracked video,
\* over three days, with two requests of its owner or one fault of a sync.
CONSTANTS
  pa = pa
  pb = pb
  pm1 = pm1
  pm2 = pm2
  pf = pf
  PullModels = {pm1, pm2}
  PullFiles = {pf}
  FilesOf <- SharedFile
  Licensed = {pm1, pm2}
  Pulls = {pa, pb}
  NoPull = NoPull
  Blocks = 2
  MaxPullAttempts = 2
  PullFaultKinds = {"crash", "claim", "api", "disk", "error", "bad", "pause", "cli", "remove"}
  MaxPullFaults = 2
  p1 = p1
  p2 = p2
  j1 = j1
  j2 = j2
  j3 = j3
  j4 = j4
  m1 = m1
  m2 = m2
  b1 = b1
  b2 = b2
  None = None
  Procs = {p1, p2}
  Jobs = {j1, j2, j3, j4}
  Models = {m1, m2}
  Backends = {b1, b2}
  Target <- WithUnload
  BackendOf <- OwnBackends
  MaxSnoozes = 1
  Faults <- ModelFaults
  rm1 = rm1
  rm2 = rm2
  rs = rs
  Hashes = {rs}
  Srt = rs
  Manifests = {rm1, rm2}
  Needs <- SharedSubtitles
  NoManifest = NoManifest
  Versions = {1, 2, 3, 4, 5, 6}
  NoVersion = 0
  MaxTries = 3
  CrashPoints = {"encode", "create", "stat", "fetch", "unlink"}
  MaxCacheFaults = 1
  e1 = e1
  e2 = e2
  EditProcs = {e1, e2}
  Stopping = {e1}
  Starter = Starter
  MaxEdits = 2
  MaxRuns = 3
  u1 = u1
  u2 = u2
  Uploads = {u1, u2}
  VideoBlocks = 2
  ChunkBlocks = 2
  InsertCost = 2
  ReadCost = 1
  DailyLimit = 3
  UploadFaultKinds = {"lost", "crash", "expire", "change", "refuse", "quota"}
  MaxUploadFaults = 2
  cv = cv
  TrackedVideos = {cv}
  PublishedOn <- OldVideo
  LookBackDays = 1
  ChannelBackfillDays = 3
  FirstDay = 2
  LastDay = 4
  MaxGrants = 2
  MaxSyncAttempts = 2
  SyncFaultKinds = {"crash", "timeout", "quota", "error", "grant", "consent", "seal", "api", "connect", "disconnect", "untrack"}
  MaxSyncFaults = 2
SPECIFICATION ServicesSpec
INVARIANTS
  
  WorkingModelAlone
  
  
  UploadSafe
  
PROPERTIES
  PullsEnd
  
  
  
  DisconnectSticks
  ConnectedIsCurrent
CHECK_DEADLOCK FALSE
