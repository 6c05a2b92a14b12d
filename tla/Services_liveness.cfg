SPECIFICATION ServicesSpec
CONSTANTS
  Parts = {"connection", "task", "save", "capture", "pipe", "trash"}
  \* ClientConnection
  Sockets = {1, 2}
  MaxRetries = 2
  ClassifyFrom = 2
  QueueLimit = 1
  MaxKeys = 0
  MaxOutput = 1
  MaxClientEvents = 2
  \* AgentResume
  Sessions = {1, 2, 3, 4}
  Open = {1, 2}
  Conversations = {1, 2}
  WithId = {}
  ManualStarts = FALSE
  ResumeRequests = {1, 2}
  MaxAgentEvents = 3
  \* TaskRunner
  MaxRounds = 2
  MaxAgents = 2
  MaxRequests = 0
  Races = {}
  \* EditorTabs
  f1 = f1
  f2 = f2
  f3 = f3
  Keys = {f1, f2, f3}
  NoKey = NoKey
  Saved <- SavedTabs
  \* EditorSave
  Editors = {1, 2}
  Autosaving = {1}
  MaxPuts = 2
  MaxEdits = 4
  SaveOverlaps = {}
  \* PipeCapture
  create = create
  attach1 = attach1
  attach2 = attach2
  Calls = {create, attach1, attach2}
  MaxRestarts = 2
  \* PipeHandoff
  MaxBytes = 3
  MaxHandles = 2
  \* LinkedViews
  v1 = v1
  v2 = v2
  Primary = Primary
  Views = {v1, v2}
  MaxViewFaults = 2
  \* TerminalAdmission
  member = member
  owner = owner
  r1 = r1
  r2 = r2
  r3 = r3
  Users = {member, owner}
  Instance = owner
  Requests = {r1, r2, r3}
  Owner <- OwnerOf
  MaxTerminals = 2
  MaxPerUser = 1
  PerUserRate = 2
  GlobalRate = 2
  \* FileTrash
  i1 = i1
  None = None
  Items = {i1}
  Files = {f1, f2}
  FirstFile = f1
  MaxFaults = 3
PROPERTIES
  ConnectionSettles ExitAdvances TypedIsStored EveryCallReturns Drained PendingSettles
CHECK_DEADLOCK FALSE
