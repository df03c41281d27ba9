CONSTANTS
  Skills = {s1, s2}
  Servers = {m1, m2}
  Models = {main}
  Default = main
  Unknown = unknown
  Tasks = {k1, k2}
  MaxClients = 3
  None = None
  MaxOps = 5
SPECIFICATION Spec
INVARIANTS TypeOK AnsweredIsKept ListedIsOn SessionsAreLive EveryProcessIsKept ToolsAreOfSession
SYMMETRY Symmetric
CHECK_DEADLOCK FALSE
