CONSTANTS
  session1 = session1
  session2 = session2
  session3 = session3
  Sessions = {session1}
  Guests = {0, 1}
  NoGuest = NoGuest
  UseNat = TRUE
  HangUpEarly = TRUE
  SplitReads = FALSE
  PortsMayClose = FALSE
  PoolMayStop = FALSE
  MaxRestarts = 0
SPECIFICATION MCSpec
PROPERTY GuestGivenBack
CHECK_DEADLOCK FALSE
