SPECIFICATION Spec
CONSTANTS
  Operations = {"create", "delete", "verify"}
  Tenants = {t1}
  Identities = {d1}
  Groups = {}
  GroupNames = {name}
  Domains = {}
  ValidDomains = {}
  Wildcard = Wildcard
  Blank = Blank
  StrictGroupCheck = FALSE
  Opaque = Opaque
  Requests = {r1}
  Admins = {}
  Keys = {}
  EcdsaKeys = {}
  Forged = Forged
  Garbage = Garbage
  RegistrationTTL = 1
  HmacWindow = 2
  Lagging = FALSE
  MaxTokens = 1
  MaxTime = 0
  t1 = t1
  t2 = t2
  d1 = d1
  g1 = g1
  g2 = g2
  name = name
  k1 = k1
  k2 = k2
  site = site
  NameOf <- OneName
  PurposedClaims <- PlainClaims
  GenericClaims <- NoStamp
  Stamps <- SomeStamps
  InitialGroups <- NoGroups
  Regroupings <- Never
  InitialKeys <- NoKeys
INVARIANT RevokedIsNotVerified
