CONSTANTS
  ip1 = ip1
  ip2 = ip2
  ip3 = ip3
  attacker1 = attacker1
  attacker2 = attacker2
  session1 = session1
  session2 = session2
  thread1 = thread1
  thread2 = thread2
  IPs = {ip1, ip2, ip3}
  Addrs = {attacker1, attacker2}
  Sessions = {session1, session2}
  SrcIp <- TwoAddresses
  Threads = {thread1}
  Services = {"ssh", "telnet"}
  Configs <- Shared
  IdSpace = 3
  IdsWrap = FALSE
  Recycle = FALSE
  CreateMayFail = TRUE
  DestroyMayFail = FALSE
  VMsMayFail = TRUE
SPECIFICATION SteadySpec
SYMMETRY IPSymmetry
INVARIANTS ClientsKnown AvailableIsPristine PoolInPlace
PROPERTY ClientKeepsGuest
