SPECIFICATION FairSpec
CONSTANTS
  Procs = {p1, p2}
  Pids = {n1}
  Pid <- MCPid
  Images = {i1}
  Image <- MCImage
  Raw <- MCImage
  Signers = {s1}
  None = None
  FirstRules <- MCRules
  FirstSigner <- MCSigner
  RuleTTL = 1
  GateTTL = 1
  SignCacheMax = 1
  MaxEdits = 1
  p1 = p1
  p2 = p2
  n1 = n1
  i1 = i1
  s1 = s1
INVARIANTS
  KilledForCause
PROPERTIES
  OncePerWindow
  ShownIsHandled
CHECK_DEADLOCK FALSE
