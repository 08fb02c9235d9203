SPECIFICATION Services
CONSTANTS
  LimitKeys = {k1, k2, k3}
  LimitHandlers = {h1, h2}
  MaxEntries = 2
  Burst = 1
  Cost = 2
  Idle = 3
  Stall = 1
  LimitRequests = 4
  LimitClock = 5
  ApiKeySet = {s1, s2}
  KeyHandlers = {h1, h2}
  FlushInterval = 1
  KeyRequests = 5
  KeyRestarts = 1
  KeyFaults = 1
  KeyClock = 2
  NSources = 2
  Texts = {s1, s2}
  DataEdits = 2
  DataReloads = 1
  DataRestarts = 1
  Streams = {s1, s2}
  Publishers = {h1, h2}
  ChannelSize = 2
  NoteRequests = 4
  NoteFaults = 1
  Logins = {h1, h2}
  Threshold = 2
  Window = 5
  BaseBackoff = 1
  MaxBackoff = 3
  LoginRequests = 7
  LoginClock = 8
  Players = {"p1"}
  Staff = {"gm", "helper"}
  Categories = {"bug", "abuse"}
  Subjects = {"s1", "s2"}
  Permits <- Permitted
  Handlers = {h1, h2}
  Ops = {"open", "playerReply", "staffReply", "note", "recategorize", "editSubject", "resolve", "close", "view"}
  MaxOpenPerPlayer = 1
  TicketOpenCooldown = 1
  MaxRequests = 3
  MaxClock = 2
INVARIANTS RateLimited GateMatchesRows EditsHotReload BadgeCurrent GuessingSlow Consistent OpenBounded
PROPERTIES NeverReopened ViewsGrow
SYMMETRY Symmetry
CHECK_DEADLOCK FALSE
