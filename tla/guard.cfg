CONSTANTS
  r1 = r1
  r2 = r2
  r3 = r3
  core = core
  tool = tool
  None = None
  Runs = {r1, r2, r3}
  Procs = {core, tool}
  ProcOf <- MCProcOf
  Cores = {core}
  Trusted = {core}
  MaxToken = 2
  MaxCrashes = 1
SPECIFICATION FairSpec
INVARIANTS
  LostLeaseIsGone
  RunHasLock
PROPERTIES
  DeletesAreFenced
  DeadOwnersRowGoes
  Fenced
