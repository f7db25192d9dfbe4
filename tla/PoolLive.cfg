CONSTANTS
  ip1 = ip1
  ip2 = ip2
  ip3 = ip3
  attacker1 = attacker1
  attacker2 = attacker2
  session1 = session1
  session2 = session2
  thread1 = thread1
  thread2 = thread2
  IPs = {ip1, ip2}
  Addrs = {attacker1, attacker2}
  Sessions = {session1}
  SrcIp <- OneAddress
  Threads = {thread1, thread2}
  Services = {"ssh", "telnet"}
  Configs <- SharedOrAlone
  IdSpace = 4
  IdsWrap = FALSE
  Recycle = TRUE
  CreateMayFail = FALSE
  DestroyMayFail = TRUE
  VMsMayFail = TRUE
SPECIFICATION LiveSpec
PROPERTIES SecondProducerByRestart GuestAvailableAgain
CHECK_DEADLOCK FALSE
