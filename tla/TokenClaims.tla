------------------------------ MODULE TokenClaims ------------------------------
(****************************************************************************)
(* The claims of a ubirch token and the pure functions on them: the checks   *)
(* a claim must pass, its conversion to the claim set that is signed, the    *)
(* encoding as a JWT at a given time, the decoding of a presented JWT at a   *)
(* later time, and the comparison of claimed with current groups.            *)
(*                                                                          *)
(* A list of the code is the set of its elements, an Option the set of its   *)
(* value (empty for None), a purpose its length, a text of scopes the set of *)
(* the known scopes it lists, and a JSON array of UUIDs or texts (an         *)
(* Either) a set: the extraction yields Left exactly when every element is a *)
(* UUID.                                                                     *)
(****************************************************************************)
EXTENDS Integers

CONSTANTS
  Tenants,            \* ids of Keycloak users, the owners of tokens
  Identities,         \* ids of devices
  Groups,             \* ids of groups
  GroupNames,         \* texts used as names of groups
  NameOf,             \* the name of each group
  Domains,            \* origins a claim may list
  ValidDomains,       \* those the URL validator accepts
  Wildcard,           \* the text "*"
  Blank,              \* the empty text
  StrictGroupCheck,   \* tokenSystem.externalStateGetter.strictGroupCheck
  Opaque              \* the content of a token that is no purposed claim

ASSUME NamesAssumption == NameOf \in [Groups -> GroupNames]

(* Wildcard and Blank are no UUIDs.                                         *)
ASSUME TextsAssumption == {Wildcard, Blank} \cap (Identities \cup Groups) = {}

ASSUME StrictAssumption == StrictGroupCheck \in BOOLEAN

Scope == {"upp:anchor", "upp:verify", "thing:create", "thing:getinfo",
          "thing:storedata", "thing:bootstrap", "user:getinfo"}

IdentityText == Identities \cup {Wildcard, Blank}
GroupText == Groups \cup GroupNames \cup {Wildcard, Blank}

(* The content of a JWT issued for a purposed claim.                        *)
Content == [pur: Nat, tid: SUBSET IdentityText, tgp: SUBSET GroupText,
            ord: SUBSET Domains, scp: SUBSET SUBSET Scope]

ASSUME OpaqueAssumption == Opaque \notin Content

TokenPurposedClaim ==
  [tenantId: Tenants, purpose: Nat, targetIdentities: SUBSET IdentityText,
   targetGroups: SUBSET GroupText, expiration: SUBSET Int,
   notBefore: SUBSET Int, originDomains: SUBSET Domains,
   scopes: SUBSET SUBSET Scope]

TokenClaim ==
  [ownerId: Tenants, subject: Tenants, expiration: SUBSET Int,
   notBefore: SUBSET Int, content: Content \cup {Opaque}]

(* The registered and private claims of a signed token.                     *)
JwtClaim ==
  [sub: Tenants, iat: Int, exp: SUBSET Int, nbf: SUBSET Int,
   content: Content \cup {Opaque}]

------------------------------------------------------------------------------
(* Checks on a claim                                                        *)

isIdentitiesWildcard(c) == Wildcard \in c.targetIdentities

hasMaybeGroups(c) == c.targetGroups \ {Blank, Wildcard} # {}

hasMaybeIdentities(c) == c.targetIdentities \ {Blank, Wildcard} # {}

validateGroups(c) ==
  IF c.targetGroups \subseteq Groups THEN c.targetGroups # {}
                                     ELSE c.targetGroups # {Wildcard}

validateIdentities(c) ==
  IF c.targetIdentities \subseteq Identities
    THEN c.targetIdentities # {}
    ELSE c.targetIdentities = {Wildcard}

validateOriginsDomains(c) == c.originDomains \subseteq ValidDomains

validatePurpose(c) == c.purpose > 5

validateScopes(c) == UNION c.scopes # {}

localVerify(c) ==
  /\ validatePurpose(c)
  /\ hasMaybeGroups(c) \/ hasMaybeIdentities(c) \/ isIdentitiesWildcard(c)
  /\ hasMaybeIdentities(c) => validateIdentities(c)
  /\ hasMaybeGroups(c) => validateGroups(c)
  /\ validateOriginsDomains(c)
  /\ validateScopes(c)

------------------------------------------------------------------------------
(* Issuing and reading tokens                                               *)

(* Unknown scopes are dropped and lists of scopes split into single ones.   *)
toTokenClaim(c) ==
  [ownerId |-> c.tenantId, subject |-> c.tenantId,
   expiration |-> c.expiration, notBefore |-> c.notBefore,
   content |-> [pur |-> c.purpose, tid |-> c.targetIdentities,
                tgp |-> c.targetGroups, ord |-> c.originDomains,
                scp |-> {{s} : s \in UNION c.scopes}]]

(* Expiration and notBefore are seconds from the moment of issuing.         *)
encode(tc, time) ==
  [sub |-> tc.subject, iat |-> time,
   exp |-> {time + e : e \in tc.expiration},
   nbf |-> {time + n : n \in tc.notBefore},
   content |-> tc.content]

(* jwt-core accepts a token from nbf on and strictly before exp.            *)
validAt(jwt, time) ==
  /\ \A n \in jwt.nbf : n <= time
  /\ \A e \in jwt.exp : time < e

(* Reading back a purposed claim: exp, now absolute, becomes expiration, and *)
(* nbf, which no rule renames, is lost.                                      *)
decoded(jwt) ==
  [tenantId |-> jwt.sub, purpose |-> jwt.content.pur,
   targetIdentities |-> jwt.content.tid, targetGroups |-> jwt.content.tgp,
   expiration |-> jwt.exp, notBefore |-> {},
   originDomains |-> jwt.content.ord, scopes |-> jwt.content.scp]

------------------------------------------------------------------------------
(* Groups                                                                   *)

(* What current groups offer to a claim: ids to a claim of ids, names else. *)
offered(claimed, current) ==
  IF claimed \subseteq Groups THEN current ELSE {NameOf[g] : g \in current}

matching(claimed, offer) ==
  IF StrictGroupCheck THEN claimed \subseteq offer ELSE claimed \cap offer # {}

(* Mutant of verifyGroups: the configured strictness is ignored.             *)
verifyGroupsLenient(claimed, current) ==
  offered(claimed, current) \cap claimed # {}

verifyGroups(claimed, current) ==
  current # {} /\ matching(claimed, offered(claimed, current))
=============================================================================
