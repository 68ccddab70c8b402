--------------------------- MODULE TokenClaimsProofs ---------------------------
(****************************************************************************)
(* Facts about claims and groups, for any claims: what the signed form of a   *)
(* claim and reading it back keep, and how comparisons of groups relate.      *)
(****************************************************************************)
EXTENDS TokenClaims, TLAPS

------------------------------------------------------------------------------
(* Types                                                                    *)

(* The signed form of a purposed claim is well-formed, keeps its tenant as   *)
(* owner and subject, and keeps purpose, groups and origins.                 *)
LEMMA ToTokenClaimType ==
  ASSUME NEW c \in TokenPurposedClaim
  PROVE  /\ toTokenClaim(c) \in TokenClaim
         /\ toTokenClaim(c).content \in Content
         /\ toTokenClaim(c).content.tgp = c.targetGroups
         /\ toTokenClaim(c).ownerId = c.tenantId
         /\ toTokenClaim(c).subject = c.tenantId
<1>1. {{s} : s \in UNION c.scopes} \in SUBSET SUBSET Scope
  BY DEF TokenPurposedClaim
<1>2. QED
  BY <1>1 DEF toTokenClaim, TokenPurposedClaim, TokenClaim, Content

(* Encoding a claim at any time gives a well-formed JWT of the same subject  *)
(* and content.                                                              *)
LEMMA EncodeType ==
  ASSUME NEW tc \in TokenClaim, NEW time \in Nat
  PROVE  /\ encode(tc, time) \in JwtClaim
         /\ encode(tc, time).sub = tc.subject
         /\ encode(tc, time).content = tc.content
<1>1. /\ {time + e : e \in tc.expiration} \subseteq Int
      /\ {time + n : n \in tc.notBefore} \subseteq Int
  BY DEF TokenClaim
<1>2. QED
  BY <1>1 DEF encode, TokenClaim, JwtClaim

(* Reading a JWT with the content of a purposed claim gives such a claim.    *)
LEMMA DecodedType ==
  ASSUME NEW jwt \in JwtClaim, jwt.content # Opaque
  PROVE  /\ decoded(jwt) \in TokenPurposedClaim
         /\ decoded(jwt).tenantId = jwt.sub
         /\ decoded(jwt).targetGroups = jwt.content.tgp
BY DEF decoded, JwtClaim, Content, TokenPurposedClaim

------------------------------------------------------------------------------
(* Groups                                                                   *)

(* A claim that agrees with some groups agrees with any larger set of them,  *)
(* strictly or not.                                                          *)
LEMMA GroupsMonotone ==
  ASSUME NEW claimed, NEW current, NEW larger,
         current \subseteq larger, verifyGroups(claimed, current)
  PROVE  verifyGroups(claimed, larger)
<1>1. offered(claimed, current) \subseteq offered(claimed, larger)
  BY DEF offered
<1>2. QED
  BY <1>1 DEF verifyGroups, matching

(* Under the strict check two sets of groups that both agree with a claim      *)
(* naming groups have one of these in common.                                *)
LEMMA StrictAgreement ==
  ASSUME StrictGroupCheck, NEW claim, hasMaybeGroups(claim), NEW one, NEW other,
         verifyGroups(claim.targetGroups, one), verifyGroups(claim.targetGroups, other)
  PROVE  \E x \in claim.targetGroups : /\ x \in offered(claim.targetGroups, one)
                                       /\ x \in offered(claim.targetGroups, other)
BY DEF hasMaybeGroups, verifyGroups, matching

------------------------------------------------------------------------------
(* Reading back                                                             *)

(* A purposed claim that was signed is read back with every part but its      *)
(* times, whatever the time of signing.                                      *)
LEMMA ReadBack ==
  ASSUME NEW c \in TokenPurposedClaim, NEW time
  PROVE  LET back == decoded(encode(toTokenClaim(c), time)) IN
         /\ back.tenantId = c.tenantId /\ back.purpose = c.purpose
         /\ back.targetIdentities = c.targetIdentities
         /\ back.targetGroups = c.targetGroups /\ back.originDomains = c.originDomains
         /\ UNION back.scopes = UNION c.scopes
<1>1. UNION {{s} : s \in UNION c.scopes} = UNION c.scopes OBVIOUS
<1> QED BY <1>1 DEF decoded, encode, toTokenClaim

(* The checks on a claim pass before it is signed exactly when they pass after *)
(* it is read back.                                                          *)
LEMMA CheckedBack ==
  ASSUME NEW c \in TokenPurposedClaim, NEW time
  PROVE  LET back == decoded(encode(toTokenClaim(c), time)) IN
         /\ localVerify(back) <=> localVerify(c)
         /\ hasMaybeGroups(back) <=> hasMaybeGroups(c)
BY ReadBack
DEF localVerify, hasMaybeGroups, hasMaybeIdentities, isIdentitiesWildcard, validateGroups,
    validateIdentities, validateOriginsDomains, validatePurpose, validateScopes
=============================================================================
