CONSTANTS
  Plugins = {p1, p2}
  Builtin = {}
  Broken = {}
  Registered = {p1, p2}
  None = None
SPECIFICATION Spec
INVARIANTS OwnCode
CHECK_DEADLOCK FALSE
