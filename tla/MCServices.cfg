\* One component at a time: see MCServices.tla for the instances and their bounds.
SPECIFICATION Spec
CONSTANTS
\* two callers and the refills share three builds
  Callers = {"c1", "c2"}
  MaxBuilds = 3
  MaxRefills = 3
\* two requests; the environment sets the variable of one provider, with one token
  Reqs = {"r1", "r2"}
  Deepseek = {"d1", "d2"}
  Qwen = {"q1"}
  AtStart = {"d1"}
  Stored = {}
  Environ = {"d1"}
  Shadowed = {"d1", "d2"}
\* two requests, three access tokens, one retry
  Requests = {"r1", "r2"}
  MaxTokens = 3
  MaxRetries = 1
  None = None
\* two asks over one socket, each tried twice
  MaxAsks = 2
  Retries = 1
  Continuations = 2
  Backlog = 2
\* three requests, room for one pool and one lock
  ByokReqs = {"r1", "r2", "r3"}
  Keyless = "keyless"
  ByokLimit = 1
  LockLimit = 1
  ByokNone = "none"
  Keys <- KeySets
  Wants <- KeysWanted
\* two runs of two iterations
  Runs = {"a", "b"}
  Iterations = 2
  McpTurns <- CallTurns
\* three clients, of which one is kept in any case, and one that is added
  LifeKept = {"d"}
  Added = "n"
  Clients <- ThreeClients
  Servers <- TwoServers
\* bodies of up to three chunks
  ChatLimit = 3
  GateLimit = 5
  LogLimit = 2
  Bodies <- ThreeChunks
\* two requests, each tried twice
  DuckRequests = 2
  DuckRetries = 1
  DuckEvents = 2
  Scripts = 3
\* two requests of a client that changes the model
  QwenReqs = {"r1", "r2"}
  QwenModels = {"m1", "m2"}
  MaxTurns = 2
  MaxChats = 3
  QwenMaxRetries = 1
  NoReq = "none"
\* two requests of one account, each tried twice
  MisReqs = {"r1", "r2"}
  MisNone = "none"
  MisMaxRetries = 1
  MaxEvents = 2
\* two threads and two models, of which one has a counter
  Threads = {"t1", "t2"}
  Models = {"m1", "m2"}
  MaxRecords = 1
  UsageMaxTurns = 2
  MaxCrashes = 1
  Nobody = "nobody"
  Usages <- OneUsage
INVARIANTS
  TypeOK
  BuildsOneAtATime
  AccountsAreKept
  OneAccountPerToken
  FetchesOneAtATime
  AnswerIsOwn
  CallsAreAnswered
  NothingLeftOpen
  LimitIsKept
  RetriesAreUnseen
  TurnsAddUp
  
  SameAnswer
  EventsInOrder
  AnswersMatchCalls
PROPERTIES
  ClientsAccountedFor
  TrimmedAfterBuild
  NoCloseWhileHeld
\* requests end and nothing is left to do
CHECK_DEADLOCK FALSE
