SPECIFICATION ExitSpec
CONSTANTS
  Threads = 1
  StartOnPool = TRUE
  PublicKeys = {k1}
  Clients = {1, 2, 3}
  Pointers = {p1, p2}
  Undecodable = {3}
  p1 = p1
  p2 = p2
  PointerOf <- SharedPointer
INVARIANT TypeOK
INVARIANT UsersAdmitted
INVARIANT ClientsAdmitted
INVARIANT OrderlyCloses
PROPERTY ServerStopsFirst
PROPERTY ShutdownAdvances
PROPERTY ShutdownEnds
