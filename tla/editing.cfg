\* Two tabs and an AI result on one draft; all saves of four and all merges
\* of three paragraphs; a storyboard of up to two scenes with three requests;
\* timelines of up to four scenes, planned and planned again after an edit; a run of four steps of the engine.
CONSTANTS
  a = a
  b = b
  c = c
  d = d
  r1 = r1
  r2 = r2
  x = x
  w = w
  NoStep = NoStep
  Steps = {a, b, c, d}
  Deps <- TailDeps
  Runs = {r1}
  RunOf <- OneRun
  Scopes = {x}
  ScopeOf <- OneScope
  Group <- TailGroups
  GpuSteps = {}
  JobIds = {1, 2, 3}
  Reconcilers = {w}
  MaxAttempts = 1
  MaxStranded = 1
  MaxActive = 4
  Outcomes = {"ok", "permanent"}
  Faults <- RunFaults
  w1 = w1
  w2 = w2
  dp = dp
  na = na
  nb = nb
  Writers = {w1, w2}
  Paras = {dp}
  AiPara = AiPara
  AiReplaces = {}
  MaxTyped = 2
  Proposer = w1
  Leavers = {w1}
  LosesCalls = {w1}
  RevisionsKept = 2
  TypeDuring = {}
  MaxDraftFaults = 1
  SaveIds <- FourIds
  MergeIds <- ThreeIds
  EditedId = "b"
  TaintedId = "b"
  Narrations = {na, nb}
  SplitDrafts <- Drafts
  TakeKinds = {"voice", "align"}
  MaxRequests = 3
  TakeRaces = FALSE
  SceneLists <- Episodes
  Lengths = {2, 3, 6}
  Crossfades = {1, 3, 4}
  MaxReplans = 1
SPECIFICATION EditingSpec
INVARIANTS
  
  StorySafe
  
PROPERTIES
  NoLostUpdate
  EditsReachServer
  OpsSafe
  SavesSettle
  
  StoryboardCompletes
  RunsFinish
CHECK_DEADLOCK FALSE
