SPECIFICATION MCSpec
CONSTANTS
  Sources = {s1, s2}
  Combinations = {"a", "b", "c", "d"}
  mintry = 2
  maxtry = 3
  maxcache = 1
  MaxAttempts = 5
  Users = {"u1", "u2"}
  MaxRequests = 3
  MaxRekeys = 2
  MaxData = 2
  MaxLogins = 3
  EnvBytes = {0, 1, 2, 3, 9}
  MaxEnv = 1
  Lines <- MCLines
  MaxLines = 3
  window = 2
  Threads = {t1, t2}
  Commands <- MCCommands
  max_entries = 1
  ttl_seconds = 1
  max_retries = 1
  MaxCalls = 3
  MaxClock = 2
  Browsers = {b1}
  maxsize = 1
  MaxEvents = 2
  MaxStreams = 2
INVARIANTS
  RandomAttempts SshHandshake TunnelInOrder TelnetOptions Conversation CacheServesOwn
  StreamHasNoGaps
PROPERTIES
  ConnectionEnds
CHECK_DEADLOCK FALSE
