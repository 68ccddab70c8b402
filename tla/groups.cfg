SPECIFICATION Spec
CONSTANTS
  Operations = {"create", "generic", "verify", "rejected"}
  Tenants = {t1, t2}
  Identities = {d1}
  Groups = {g1, g2}
  GroupNames = {name}
  Domains = {}
  ValidDomains = {}
  Wildcard = Wildcard
  Blank = Blank
  StrictGroupCheck = TRUE
  Opaque = Opaque
  Requests = {r1}
  Admins = {t1}
  Keys = {}
  EcdsaKeys = {}
  Forged = Forged
  Garbage = Garbage
  RegistrationTTL = 1
  HmacWindow = 2
  Lagging = FALSE
  MaxTokens = 1
  MaxTime = 1
  t1 = t1
  t2 = t2
  d1 = d1
  g1 = g1
  g2 = g2
  name = name
  k1 = k1
  k2 = k2
  site = site
  NameOf <- OneName
  PurposedClaims <- GroupClaims
  GenericClaims <- GenericTokens
  Stamps <- SomeStamps
  InitialGroups <- NoGroups
  Regroupings <- BothMove
  InitialKeys <- NoKeys
INVARIANT VerifiedSharesGroup
INVARIANT VouchedGroups
INVARIANT VouchedOwners
