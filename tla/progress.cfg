SPECIFICATION TimerSpec
CONSTANTS
  Operations = {"create", "list", "bootstrap", "rejected"}
  Tenants = {t1}
  Identities = {d1}
  Groups = {g1}
  GroupNames = {name}
  Domains = {}
  ValidDomains = {}
  Wildcard = Wildcard
  Blank = Blank
  StrictGroupCheck = FALSE
  Opaque = Opaque
  Requests = {r1}
  Admins = {}
  Keys = {k1}
  EcdsaKeys = {k1}
  Forged = Forged
  Garbage = Garbage
  RegistrationTTL = 1
  HmacWindow = 2
  Lagging = FALSE
  MaxTokens = 5
  MaxTime = 0
  t1 = t1
  t2 = t2
  d1 = d1
  g1 = g1
  g2 = g2
  name = name
  k1 = k1
  k2 = k2
  site = site
  NameOf <- OneName
  PurposedClaims <- BootstrapClaims
  GenericClaims <- NoStamp
  Stamps <- NoStamp
  InitialGroups <- TenantInG1
  Regroupings <- Never
  InitialKeys <- KeyK1
PROPERTY TasksEnd
PROPERTY ClientsAreAnswered
PROPERTY ImplementsCourse
