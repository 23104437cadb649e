SPECIFICATION FairSpec
CONSTANTS
  Logins = {l1, l2}
  Ports = {p1}
  NoPort = NoPort
  LoginTimeout = 1
  TransactionLife = 2
  CodeLife = 2
  SessionLife = 2
  TicketLife = 1
  IdLives = {1, 3}
  MaxTime = 2
  MaxSignIns = 2
CHECK_DEADLOCK FALSE
INVARIANTS SignInOnce OwnSignIn BeginsFresh TicketEndsSession
PROPERTIES LoginEnds
