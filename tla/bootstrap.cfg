SPECIFICATION Spec
CONSTANTS
  Operations = {"create", "bootstrap"}
  Tenants = {t1}
  Identities = {d1}
  Groups = {g1, g2}
  GroupNames = {name}
  Domains = {}
  ValidDomains = {}
  Wildcard = Wildcard
  Blank = Blank
  StrictGroupCheck = FALSE
  Opaque = Opaque
  Requests = {r1}
  Admins = {}
  Keys = {k1, k2}
  EcdsaKeys = {k1}
  Forged = Forged
  Garbage = Garbage
  RegistrationTTL = 2
  HmacWindow = 2
  Lagging = FALSE
  MaxTokens = 5
  MaxTime = 1
  t1 = t1
  t2 = t2
  d1 = d1
  g1 = g1
  g2 = g2
  name = name
  k1 = k1
  k2 = k2
  site = site
  NameOf <- OneName
  PurposedClaims <- LenientClaims
  GenericClaims <- NoStamp
  Stamps <- NoStamp
  InitialGroups <- MixedStart
  Regroupings <- TenantLeaves
  InitialKeys <- KeyK1
INVARIANT DerivedTokens
INVARIANT BootstrapSigned
INVARIANT BootstrapComplete
INVARIANT VouchedGroups
PROPERTY RefusedLeavesRecorded
