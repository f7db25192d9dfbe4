SPECIFICATION MCSpec
CONSTANTS
  MaxFront = 3
  MaxBack = 3
  MaxAuths = 3
  FrontRaises = {}
  BackRaises = {3}
  Ids = {0, 1}
  None = None
  Types = {"session", "forward", "other"}
  Openers = {"S", "C"}
  MaxOpens = 3
  MaxForwards = 2
  MaxInput = 8
  MaxAhead = 6
  SplitOutput = FALSE
  Sessions = {s1, s2}
  Kinds = {"shell", "exec", "proxy_term", "proxy_exec", "telnet"}
  Seconds = {1}
  Chunks = {"a", "b"}
  Output = {"x"}
  MaxData = 2
  MaxLost = 2
  Limit = 2
INVARIANTS
  RelayInOrder ChannelsPaired LoginStaysHere LogsFiled
PROPERTIES
  EndsWell
CHECK_DEADLOCK FALSE
