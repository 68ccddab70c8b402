SPECIFICATION Spec
CONSTANTS
  Threads = 1
  StartOnPool = TRUE
  PublicKeys = {k1}
  Clients = {1}
  Pointers = {p1, p2}
  Undecodable = {}
  p1 = p1
  p2 = p2
  PointerOf <- OwnPointer
INVARIANT HooksExecuted
