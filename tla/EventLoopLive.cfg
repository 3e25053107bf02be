SPECIFICATION FairSpec
CONSTANTS
  l1 = l1
  f1 = f1
  f2 = f2
  f3 = f3
  f4 = f4
  p1 = p1
  p2 = p2
  Junk = Junk
  Listener = {l1}
  Handout <- OneFree
  Kinds = {"CS_READING", "CS_CGI_REQ"}
  ListenFds <- MCListenFds
  Fd = {f1, f2, f3}
  NoFd = NoFd
  Pid = {p1}
  NoPid = NoPid
  GarbageFd = {NoFd, Junk}
  GarbagePid = {NoPid}
  HeaderTimeout = 2
  CgiTimeout = 1
  MaxOut = 1
  MaxClients = 1
  MaxLost = 2
  StaleRevents = TRUE
  GarbageConn = {"NEW", "CLOSED"}
PROPERTIES
  ScriptEnds
  SigintStops
