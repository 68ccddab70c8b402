SPECIFICATION Spec
CONSTANTS
  Operations = {"create", "list"}
  Tenants = {t1}
  Identities = {d1}
  Groups = {}
  GroupNames = {name}
  Domains = {}
  ValidDomains = {}
  Wildcard = Wildcard
  Blank = Blank
  StrictGroupCheck = FALSE
  Opaque = Opaque
  Requests = {r1}
  Admins = {}
  Keys = {}
  EcdsaKeys = {}
  Forged = Forged
  Garbage = Garbage
  RegistrationTTL = 1
  HmacWindow = 2
  Lagging = FALSE
  MaxTokens = 1
  MaxTime = 1
  t1 = t1
  t2 = t2
  d1 = d1
  g1 = g1
  g2 = g2
  name = name
  k1 = k1
  k2 = k2
  site = site
  NameOf <- OneName
  PurposedClaims <- MixedClaims
  GenericClaims <- NoStamp
  Stamps <- NoStamp
  InitialGroups <- NoGroups
  Regroupings <- Never
  InitialKeys <- NoKeys
PROPERTY ListedAreValid
