CONSTANTS
  p1 = p1
  p2 = p2
  Ssh = ssh
  Shell = shell
  Shared = shared
  Plugins = {p1, p2, ssh}
  Builtin = {ssh}
  Broken = {}
  Registered = {p1, p2}
  Names = {shell, shared}
  Offers <- Offered
  Sessions = {s1, s2}
  Callers = {c1, c2}
  MaxInstances = 2
  None = None
  MaxOps = 5
SPECIFICATION Spec
INVARIANTS TypeOK RegistryAgrees ForeignCodeIsInFront OpenIsClosable ClosedIsGone
PROPERTIES HandsChangeForCause
SYMMETRY Symmetric
CHECK_DEADLOCK FALSE
