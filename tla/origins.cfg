SPECIFICATION Spec
CONSTANTS
  Tenants = {t1}
  Identities = {d1}
  Groups = {g1, g2}
  GroupNames = {name}
  Domains = {site1, site2}
  ValidDomains = {site1, site2}
  Wildcard = Wildcard
  Blank = Blank
  StrictGroupCheck = TRUE
  Opaque = Opaque
  Services = {s1}
  Pointers = {p1}
  Manager = Manager
  Forged = Forged
  Garbage = Garbage
  HmacWindow = 2
  MaxTokens = 1
  MaxTime = 2
  t1 = t1
  d1 = d1
  g1 = g1
  g2 = g2
  name = name
  s1 = s1
  p1 = p1
  site1 = site1
  site2 = site2
  Issuers <- SomeIssuers
  NameOf <- OneName
  ServiceScopes <- Scopes
  ServiceAudiences <- Audiences
  PointerOf <- OwnPointer
  SecretPools <- TwoPools
  Skews <- SameClock
  Bodies <- TwoOrigins
  GenericTokens <- NoTokens
  InitialGroups <- NoGroups
  Regroupings <- Never
INVARIANT OriginsAccepted
