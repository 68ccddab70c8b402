--------------------------- MODULE TokenServiceProofs --------------------------
(****************************************************************************)
(* Proofs about the token service, for any requests, tenants, claims, groups *)
(* and keys. Three inductive invariants carry them: the types with the shape *)
(* of the requests, and relative to these what is stored and what is vouched.*)
(****************************************************************************)
EXTENDS TokenService, TokenClaimsProofs

(* The stage of a request fits its call, and its tokens are real tokens.     *)
Shaped(r) ==
  /\ pc[r] = "groups" => call[r].op = "create"
  /\ pc[r] \in {"key", "keyAgain"} => call[r].op = "bootstrap" /\ made[r] = <<>>
  /\ pc[r] \in {"groups", "device"} => made[r] = <<>>
  /\ pc[r] = "mint" => Len(made[r]) < needed(call[r])
  /\ pc[r] = "insert" => Len(made[r]) \in 1 .. needed(call[r])
  /\ call[r].op = "bootstrap" => call[r].token \in Ids \cup {Forged, Garbage}
  /\ \A k \in DOMAIN made[r] : made[r][k] \in Ids
  /\ outcome[r].ids \subseteq Ids

(* All tokens of a request but the one being inserted, and all of a result,  *)
(* have reached the table.                                                   *)
Stored(r) ==
  /\ outcome[r].ids \subseteq rows \cup erased
  /\ pc[r] = "mint" =>
       \A k \in DOMAIN made[r] : made[r][k] \in rows \cup erased
  /\ pc[r] = "insert" =>
       \A k \in DOMAIN made[r] : k < Len(made[r]) => made[r][k] \in rows \cup erased

(* A purposed claim about to be signed has passed the group check.           *)
Checked(r) ==
  pc[r] = "mint" /\ call[r].op = "create" /\ hasMaybeGroups(call[r].claim) =>
    verifyGroups(call[r].claim.targetGroups, held[call[r].claim.tenantId])

TypeInv == TypeOK /\ \A r \in Requests : Shaped(r)

KeptInv == DeliveredTokensAreKept /\ \A r \in Requests : Stored(r)

VouchedInv ==
  /\ \A x \in Members : groups[x] \subseteq held[x]
  /\ \A r \in Requests : Checked(r)
  /\ VouchedGroups /\ VouchedOwners
------------------------------------------------------------------------------
(* The token a request signs next                                           *)

(* The claim of a token derived by a bootstrap is well-formed and keeps the  *)
(* groups and the tenant of the token it comes from.                         *)
LEMMA BootstrapClaimType ==
  ASSUME NEW p, tokens[p].jwt \in JwtClaim, tokens[p].jwt.content # Opaque,
         NEW device \in Identities, NEW k \in 1 .. 4, RegistrationTTL \in Nat
  PROVE  LET c == bootstrapClaim(p, device, k) IN
         /\ c \in TokenClaim
         /\ c.content \in Content
         /\ c.content.tgp = tokens[p].jwt.content.tgp
         /\ c.ownerId = tokens[p].jwt.sub
         /\ c.subject = tokens[p].jwt.sub
<1> DEFINE narrowed == [decoded(tokens[p].jwt) EXCEPT
                     !.targetIdentities = IF BootstrapScopes[k] = "upp:verify"
                                          THEN {Wildcard} ELSE {device},
                     !.scopes = {{BootstrapScopes[k]}}]
<1>1. BootstrapScopes[k] \in Scope
  BY DEF BootstrapScopes, Scope
<1>2. {{BootstrapScopes[k]}} \in SUBSET SUBSET Scope
  BY <1>1
<1>3. decoded(tokens[p].jwt) \in TokenPurposedClaim
  BY DecodedType
<1>4. /\ narrowed \in TokenPurposedClaim
      /\ narrowed.targetGroups = tokens[p].jwt.content.tgp
      /\ narrowed.tenantId = tokens[p].jwt.sub
  <2>1. {Wildcard} \subseteq IdentityText /\ {device} \subseteq IdentityText
    BY DEF IdentityText
  <2>2. QED
    BY <1>2, <1>3, <2>1, DecodedType DEF TokenPurposedClaim
<1>5. /\ toTokenClaim(narrowed) \in TokenClaim
      /\ toTokenClaim(narrowed).content \in Content
      /\ toTokenClaim(narrowed).content.tgp = narrowed.targetGroups
      /\ toTokenClaim(narrowed).ownerId = narrowed.tenantId
      /\ toTokenClaim(narrowed).subject = narrowed.tenantId
  BY <1>4, ToTokenClaimType
<1>6. bootstrapClaim(p, device, k) =
        [toTokenClaim(narrowed) EXCEPT
           !.expiration = IF k = 1 THEN {RegistrationTTL} ELSE {}]
  BY DEF bootstrapClaim
<1> HIDE DEF narrowed
<1>7. (IF k = 1 THEN {RegistrationTTL} ELSE {}) \in SUBSET Int
  OBVIOUS
<1>8. QED
  BY <1>4, <1>5, <1>6, <1>7 DEF TokenClaim

(* The fields of a call, by endpoint.                                       *)
LEMMA CallFields ==
  ASSUME NEW c \in Call
  PROVE  /\ c.op = "create" => c.who \in Tenants /\ c.claim \in TokenPurposedClaim
         /\ c.op = "generic" => c.who \in Tenants /\ c.claim \in TokenClaim
         /\ c.op = "bootstrap" => c.device \in Identities
BY DEF Call

(* Only creating endpoints need tokens, a bootstrap four of them.            *)
LEMMA NeededTokens ==
  ASSUME NEW c \in Call
  PROVE  /\ needed(c) \in Nat
         /\ needed(c) # 0 => c.op \in {"create", "generic", "bootstrap"}
         /\ c.op \in {"create", "generic"} => needed(c) = 1
         /\ c.op = "bootstrap" => needed(c) = 4
BY DEF needed, BootstrapScopes

(* A token decoded without complaint was signed here for a purposed claim.   *)
LEMMA DecodedIsOurs ==
  ASSUME NEW p \in Ids \cup {Forged, Garbage}, decodingStatus(p) = 0
  PROVE  p \in Ids /\ tokens[p].jwt.content # Opaque
BY DEF decodingStatus

(* What a request signs next: a well-formed token which, when it goes back   *)
(* to a purposed create request, speaks for the tenant of that request's     *)
(* claim, and when it is derived, takes tenant, groups and history from the  *)
(* token presented.                                                          *)
LEMMA NextTokenType ==
  ASSUME TypeInv, NEW r \in Requests, pc[r] = "mint", mintStatus(r) = 0
  PROVE  LET new == nextToken(r)
             c == call[r]
         IN
         /\ new \in Token
         /\ c.op = "create" =>
              /\ new.jwt.content.tgp = c.claim.targetGroups
              /\ new.jwt.sub = c.claim.tenantId
              /\ new.ownerId = c.claim.tenantId
              /\ new.askedBy = {c.claim.tenantId}
         /\ c.op = "generic" => ~new.vouched
         /\ c.op = "bootstrap" =>
              /\ c.token \in Ids
              /\ tokens[c.token].jwt.content # Opaque
              /\ new.jwt.content.tgp = tokens[c.token].jwt.content.tgp
              /\ new.jwt.sub = tokens[c.token].jwt.sub
              /\ new.ownerId = tokens[c.token].jwt.sub
              /\ new.askedBy = tokens[c.token].askedBy
              /\ new.vouched = tokens[c.token].vouched
<1> DEFINE c == call[r]
<1>1. /\ c \in Call /\ now \in Nat /\ tokens \in Seq(Token)
      /\ Len(made[r]) \in Nat /\ Len(made[r]) < needed(c)
  BY DEF TypeInv, TypeOK, Shaped
<1>2. c.op \in {"create", "generic", "bootstrap"}
  BY <1>1, NeededTokens
<1>3. CASE c.op = "create"
  <2>1. c.who \in Tenants /\ c.claim \in TokenPurposedClaim /\ c.who = c.claim.tenantId
    BY <1>1, <1>3, CallFields DEF mintStatus
  <2> DEFINE tc == toTokenClaim(c.claim)
  <2>2. /\ tc \in TokenClaim /\ tc.content.tgp = c.claim.targetGroups
        /\ tc.ownerId = c.claim.tenantId /\ tc.subject = c.claim.tenantId
    BY <2>1, ToTokenClaimType
  <2>3. /\ encode(tc, now) \in JwtClaim
        /\ encode(tc, now).sub = tc.subject /\ encode(tc, now).content = tc.content
    BY <1>1, <2>2, EncodeType
  <2>4. nextToken(r) =
          [jwt |-> encode(tc, now), ownerId |-> tc.ownerId,
           category |-> "purposed_claim", parent |-> {}, askedBy |-> {c.who},
           vouched |-> TRUE]
    BY <1>3 DEF nextToken
  <2>5. tc.ownerId \in Tenants
    BY <2>2 DEF TokenClaim
  <2> HIDE DEF tc
  <2>6. QED
    BY <1>3, <2>1, <2>2, <2>3, <2>4, <2>5 DEF Token
<1>4. CASE c.op = "generic"
  <2>1. c.who \in Tenants /\ c.claim \in TokenClaim
    BY <1>1, <1>4, CallFields
  <2>2. encode(c.claim, now) \in JwtClaim
    BY <1>1, <2>1, EncodeType
  <2>3. nextToken(r) =
          [jwt |-> encode(c.claim, now), ownerId |-> c.claim.ownerId,
           category |-> "generic", parent |-> {}, askedBy |-> {c.who},
           vouched |-> FALSE]
    BY <1>4 DEF nextToken
  <2>4. c.claim.ownerId \in Tenants
    BY <2>1 DEF TokenClaim
  <2>5. QED
    BY <1>4, <2>1, <2>2, <2>3, <2>4 DEF Token
<1>5. CASE c.op = "bootstrap"
  <2> DEFINE p == c.token
             k == Len(made[r]) + 1
             tc == bootstrapClaim(p, c.device, k)
  <2>1. k \in 1 .. 4 /\ c.device \in Identities
    BY <1>1, <1>5, NeededTokens, CallFields
  <2>2. p \in Ids \cup {Forged, Garbage} /\ decodingStatus(p) = 0
    BY <1>5 DEF TypeInv, Shaped, mintStatus
  <2>3. p \in Ids /\ tokens[p].jwt.content # Opaque
    BY <2>2, DecodedIsOurs
  <2>4. tokens[p] \in Token /\ p \in Nat
    BY <1>1, <2>3 DEF Ids
  <2>5. tokens[p].jwt \in JwtClaim
    BY <2>4 DEF Token
  <2>6. /\ tc \in TokenClaim
        /\ tc.content.tgp = tokens[p].jwt.content.tgp
        /\ tc.ownerId = tokens[p].jwt.sub
        /\ tc.subject = tokens[p].jwt.sub
    BY <2>1, <2>3, <2>5, BootstrapClaimType, BoundsAssumption
  <2>7. nextToken(r) =
          [jwt |-> encode(tc, now), ownerId |-> tc.ownerId,
           category |-> "purposed_claim", parent |-> {p},
           askedBy |-> tokens[p].askedBy, vouched |-> tokens[p].vouched]
    BY <1>5 DEF nextToken
  <2> HIDE DEF tc
  <2>8. /\ encode(tc, now) \in JwtClaim
        /\ encode(tc, now).sub = tc.subject /\ encode(tc, now).content = tc.content
    BY <1>1, <2>6, EncodeType
  <2>9. tc.ownerId \in Tenants
    BY <2>6 DEF TokenClaim
  <2> HIDE DEF p
  <2>10. nextToken(r) \in Token
    BY <2>4, <2>7, <2>8, <2>9 DEF Token
  <2>11. QED
    BY <1>5, <2>3, <2>6, <2>7, <2>8, <2>10 DEF p
<1>6. QED
  BY <1>2, <1>3, <1>4, <1>5
------------------------------------------------------------------------------
(* Types                                                                    *)

LEMMA TypeInit == Init => TypeInv
<1> SUFFICES ASSUME Init PROVE TypeInv
  OBVIOUS
<1>1. NoCall \in Call /\ NoCall.op = "none"
  BY DEF NoCall, Call
<1>2. NoAnswer \in Answer /\ NoAnswer.ids = {}
  BY DEF NoAnswer, Failed, Answer, Statuses
<1>3. TypeOK
  BY <1>1, <1>2, GroupsAssumption, KeysAssumption DEF Init, TypeOK, Stages, Ids
<1>4. ASSUME NEW r \in Requests PROVE Shaped(r)
  BY <1>1, <1>2 DEF Init, Shaped
<1>5. QED
  BY <1>3, <1>4 DEF TypeInv

(* A call that begins may wait for what its endpoint asks for first.         *)
Fits(c, stage) ==
  /\ stage \in Stages \ {"insert"}
  /\ stage = "groups" => c.op = "create"
  /\ stage \in {"key", "keyAgain"} => c.op = "bootstrap"
  /\ stage = "mint" => needed(c) > 0
  /\ c.op = "bootstrap" => c.token \in Ids \cup {Forged, Garbage}

LEMMA TypeBegin ==
  ASSUME TypeInv, NEW r \in Requests, NEW STATE c, NEW STATE stage, NEW STATE out,
         c \in Call, Fits(c, stage), out \in Answer, out.ids = {},
         Begin(r, c, stage, out)
  PROVE  TypeInv'
<1>1. NoAnswer \in Answer
  BY DEF NoAnswer, Failed, Answer, Statuses
<1>2. TypeOK'
  BY <1>1 DEF TypeInv, TypeOK, Begin, Fits, Ids, table, world
<1>3. ASSUME NEW q \in Requests PROVE Shaped(q)'
  <2>1. Shaped(q)
    BY DEF TypeInv
  <2>2. CASE q = r
    BY <2>2 DEF TypeInv, TypeOK, Begin, Fits, Shaped, Ids
  <2>3. CASE q # r
    BY <2>1, <2>3 DEF TypeInv, TypeOK, Begin, Shaped, Ids, needed
  <2>4. QED
    BY <2>2, <2>3
<1>4. QED
  BY <1>2, <1>3 DEF TypeInv

(* A task that reaches a result keeps the types.                            *)
LEMMA TypeFinish ==
  ASSUME TypeInv, NEW r \in Requests, NEW STATE out,
         out \in Answer, out.ids \subseteq Ids, Finish(r, out),
         UNCHANGED <<now, tokens, world, delivered>>,
         writes' \subseteq Ids, rows' \subseteq Ids, erased' \subseteq Ids,
         unsettled' \subseteq Ids
  PROVE  TypeInv'
<1>1. TypeOK'
  BY DEF TypeInv, TypeOK, Finish, Stages, Ids, table, world
<1>2. ASSUME NEW q \in Requests PROVE Shaped(q)'
  <2>1. Shaped(q)
    BY DEF TypeInv
  <2>2. CASE q = r
    BY <2>1, <2>2 DEF TypeInv, TypeOK, Finish, Shaped, Ids
  <2>3. CASE q # r
    BY <2>1, <2>3 DEF TypeInv, TypeOK, Finish, Shaped, Ids, needed
  <2>4. QED
    BY <2>2, <2>3
<1>3. QED
  BY <1>1, <1>2 DEF TypeInv

LEMMA TypeArrive ==
  ASSUME TypeInv, NEW r \in Requests, Arrive(r)
  PROVE  TypeInv'
<1>1. /\ NoAnswer \in Answer /\ NoAnswer.ids = {}
      /\ \A status \in Statuses : Failed(status) \in Answer /\ Failed(status).ids = {}
  BY DEF NoAnswer, Failed, Answer, Statuses
<1>2. /\ tokens \in Seq(Token) /\ Ids \subseteq Nat /\ rows \subseteq Ids
      /\ erased \subseteq Ids /\ delivered \subseteq Ids
  BY DEF TypeInv, TypeOK, Ids
<1>3. CASE Create(r)
  <2> PICK who \in Tenants, claim \in PurposedClaims :
        LET c == [op |-> "create", who |-> who, claim |-> claim] IN
        \/ ~localVerify(claim) /\ Refuse(r, c, 400)
        \/ localVerify(claim)
           /\ Proceed(r, c, IF hasMaybeGroups(claim) THEN "groups" ELSE "mint")
    BY <1>3 DEF Create
  <2> DEFINE c == [op |-> "create", who |-> who, claim |-> claim]
  <2>1. c \in Call /\ c.op = "create"
    BY InputsAssumption DEF Call
  <2>2. Fits(c, "respond") /\ Fits(c, "groups") /\ Fits(c, "mint")
    BY <2>1, NeededTokens DEF Fits, Stages
  <2> HIDE DEF c
  <2>3. \/ Begin(r, c, "respond", Failed(400)) \/ Begin(r, c, "groups", NoAnswer)
        \/ Begin(r, c, "mint", NoAnswer)
    BY DEF Refuse, Proceed, c
  <2>4. QED
    BY <1>1, <2>1, <2>2, <2>3, TypeBegin DEF Statuses
<1>4. CASE CreateGeneric(r)
  <2> PICK who \in Admins, claim \in GenericClaims :
        Proceed(r, [op |-> "generic", who |-> who, claim |-> claim], "mint")
    BY <1>4 DEF CreateGeneric
  <2> DEFINE c == [op |-> "generic", who |-> who, claim |-> claim]
  <2>1. c \in Call /\ c.op = "generic"
    BY InputsAssumption, AdminsAssumption DEF Call
  <2>2. Fits(c, "mint")
    BY <2>1, NeededTokens DEF Fits, Stages
  <2>3. Begin(r, c, "mint", NoAnswer)
    BY DEF Proceed
  <2> HIDE DEF c
  <2>4. QED
    BY <1>1, <2>1, <2>2, <2>3, TypeBegin
<1>5. ASSUME NEW op \in {"list", "get"}, NEW who \in Tenants, NEW id \in Nat,
             Query(r, op, who, id)
      PROVE  TypeInv'
  <2> DEFINE c == [op |-> op, who |-> who, id |-> id,
                   owed |-> (rows \ unsettled) \cap byOwnerId(who),
                   gone |-> erased \ unsettled]
  <2>1. c \in Call /\ c.op \in {"list", "get"}
    BY <1>2 DEF Call
  <2>2. Fits(c, "read")
    BY <2>1 DEF Fits, Stages
  <2>3. Begin(r, c, "read", NoAnswer)
    BY <1>5 DEF Query, Proceed
  <2> HIDE DEF c
  <2>4. QED
    BY <1>1, <2>1, <2>2, <2>3, TypeBegin
<1>6. CASE List(r)
  BY <1>5, <1>6 DEF List
<1>7. CASE Get(r)
  BY <1>2, <1>5, <1>7 DEF Get
<1>8. CASE Delete(r)
  <2> PICK who \in Tenants, id \in Ids :
        Proceed(r, [op |-> "delete", who |-> who, id |-> id], "erase")
    BY <1>8 DEF Delete
  <2> DEFINE c == [op |-> "delete", who |-> who, id |-> id]
  <2>1. c \in Call /\ c.op = "delete"
    BY <1>2 DEF Call
  <2>2. Fits(c, "erase")
    BY <2>1 DEF Fits, Stages
  <2>3. Begin(r, c, "erase", NoAnswer)
    BY DEF Proceed
  <2> HIDE DEF c
  <2>4. QED
    BY <1>1, <2>1, <2>2, <2>3, TypeBegin
<1>9. CASE Verify(r)
  <2> PICK p \in Presentable, d \in Identities, t \in Stamps, sealed \in BOOLEAN :
        LET c == [op |-> "verify", token |-> p, device |-> d, stamp |-> t,
                  sealed |-> sealed, gone |-> erased] IN
        \/ Proceed(r, c, "device")
        \/ verifyStatus(c) # 0 /\ Refuse(r, c, verifyStatus(c))
    BY <1>9 DEF Verify
  <2> DEFINE c == [op |-> "verify", token |-> p, device |-> d, stamp |-> t,
                   sealed |-> sealed, gone |-> erased]
  <2>1. p \in Presented
    BY <1>2 DEF Presentable, Presented
  <2>2. c \in Call /\ c.op = "verify"
    BY <1>2, <2>1, InputsAssumption DEF Call
  <2>3. Fits(c, "respond") /\ Fits(c, "device")
    BY <2>2 DEF Fits, Stages
  <2>4. \/ Begin(r, c, "device", NoAnswer)
        \/ Begin(r, c, "respond", Failed(verifyStatus(c)))
    BY DEF Refuse, Proceed
  <2> HIDE DEF c
  <2>5. decodingStatus(c.token) \in Statuses
    BY DEF decodingStatus, Statuses
  <2>6. verifyStatus(c) \in Statuses
    BY <2>5 DEF verifyStatus, Statuses
  <2>7. QED
    BY <1>1, <2>2, <2>3, <2>4, <2>6, TypeBegin
<1>10. CASE Bootstrap(r)
  <2> PICK p \in Presentable, d \in Identities, sig \in Signature :
        Proceed(r, [op |-> "bootstrap", token |-> p, device |-> d, sig |-> sig], "key")
    BY <1>10 DEF Bootstrap
  <2> DEFINE c == [op |-> "bootstrap", token |-> p, device |-> d, sig |-> sig]
  <2>1. p \in Presented /\ p \in Ids \cup {Forged, Garbage}
    BY <1>2 DEF Presentable, Presented
  <2>2. c \in Call /\ c.op = "bootstrap" /\ c.token = p
    BY <2>1 DEF Call
  <2>3. Begin(r, c, "key", NoAnswer)
    BY DEF Proceed
  <2> HIDE DEF c
  <2>4. Fits(c, "key")
    BY <2>1, <2>2 DEF Fits, Stages
  <2>5. QED
    BY <1>1, <2>2, <2>3, <2>4, TypeBegin
<1>11. CASE Unauthorized(r)
  <2> PICK status \in {401, 400, 403} :
        /\ "rejected" \in Operations
        /\ Operations \cap {"create", "generic", "list", "get", "delete"} # {}
        /\ ~Busy(r)
        /\ pc' = [pc EXCEPT ![r] = "done"]
        /\ call' = [call EXCEPT ![r] = [op |-> "rejected"]]
        /\ made' = [made EXCEPT ![r] = <<>>]
        /\ outcome' = [outcome EXCEPT ![r] = Failed(status)]
        /\ reply' = [reply EXCEPT ![r] = Failed(status)]
        /\ UNCHANGED <<now, tokens, table, world, delivered>>
    BY <1>11 DEF Unauthorized
  <2>1. /\ Failed(status) \in Answer /\ Failed(status).ids = {}
        /\ [op |-> "rejected"] \in Call
    BY <1>1 DEF Statuses, Call
  <2>2. TypeOK'
    BY <2>1 DEF TypeInv, TypeOK, Stages, Ids, table, world
  <2>3. ASSUME NEW q \in Requests PROVE Shaped(q)'
    <3>1. Shaped(q)
      BY DEF TypeInv
    <3>2. CASE q = r
      BY <2>1, <3>2 DEF TypeInv, TypeOK, Shaped, Ids
    <3>3. CASE q # r
      BY <3>1, <3>3 DEF TypeInv, TypeOK, Shaped, Ids, needed
    <3>4. QED
      BY <3>2, <3>3
  <2>4. QED
    BY <2>2, <2>3 DEF TypeInv
<1>12. CASE Malformed(r)
  <2> PICK op \in Operations : \E status \in malformedStatuses(op) :
        Begin(r, [op |-> "rejected"], "respond", Failed(status))
    BY <1>12 DEF Malformed, Refuse
  <2> PICK status \in malformedStatuses(op) :
        Begin(r, [op |-> "rejected"], "respond", Failed(status))
    OBVIOUS
  <2> DEFINE c == [op |-> "rejected"]
  <2>1. c \in Call /\ c.op = "rejected"
    BY DEF Call
  <2>2. Fits(c, "respond")
    BY <2>1 DEF Fits, Stages
  <2> HIDE DEF c
  <2>3. status \in Statuses
    BY DEF malformedStatuses, Statuses
  <2>4. QED
    BY <1>1, <2>1, <2>2, <2>3, TypeBegin DEF c
<1>13. QED
  BY <1>3, <1>4, <1>6, <1>7, <1>8, <1>9, <1>10, <1>11, <1>12 DEF Arrive

(* A task that goes on keeps the types when the stage fits.                 *)
LEMMA TypeGoto ==
  ASSUME TypeInv, NEW r \in Requests, NEW STATE stage,
         stage \in {"mint", "keyAgain"},
         stage = "mint" => Len(made[r]) < needed(call[r]),
         stage = "keyAgain" => call[r].op = "bootstrap" /\ made[r] = <<>>,
         Goto(r, stage), Untouched
  PROVE  TypeInv'
<1>1. TypeOK'
  BY DEF TypeInv, TypeOK, Goto, Untouched, Stages, Ids, table, world
<1>2. ASSUME NEW q \in Requests PROVE Shaped(q)'
  <2>1. Shaped(q)
    BY DEF TypeInv
  <2>2. CASE q = r
    BY <2>1, <2>2 DEF TypeInv, TypeOK, Goto, Untouched, Shaped, Ids, needed
  <2>3. CASE q # r
    BY <2>1, <2>3 DEF TypeInv, TypeOK, Goto, Untouched, Shaped, Ids, needed
  <2>4. QED
    BY <2>2, <2>3
<1>3. QED
  BY <1>1, <1>2 DEF TypeInv

LEMMA TypeMint ==
  ASSUME TypeInv, NEW r \in Requests, Mint(r)
  PROVE  TypeInv'
<1> DEFINE id == Len(tokens) + 1
<1>1. /\ tokens \in Seq(Token) /\ made[r] \in Seq(Nat) /\ nextToken(r) \in Token
      /\ pc[r] = "mint"
  BY NextTokenType DEF TypeInv, TypeOK, Mint
<1>2. tokens' = Append(tokens, nextToken(r)) /\ tokens' \in Seq(Token)
  BY <1>1 DEF Mint
<1>3. Ids' = Ids \cup {id} /\ id \in Nat
  BY <1>1, <1>2 DEF Ids
<1>4. /\ made' = [made EXCEPT ![r] = Append(@, id)] /\ made' \in [Requests -> Seq(Nat)]
      /\ writes' = writes \cup {id} /\ pc' = [pc EXCEPT ![r] = "insert"]
      /\ UNCHANGED <<now, rows, erased, unsettled, world, call, outcome, reply, delivered>>
  BY <1>1, <1>3 DEF TypeInv, TypeOK, Mint
<1> HIDE DEF id
<1>5. TypeOK'
  BY <1>2, <1>3, <1>4 DEF TypeInv, TypeOK, Stages, world
<1>6. ASSUME NEW q \in Requests PROVE Shaped(q)'
  <2>1. Shaped(q)
    BY DEF TypeInv
  <2>2. CASE q = r
    <3>1. /\ made'[r] = Append(made[r], id) /\ pc'[r] = "insert"
          /\ Len(made[r]) < needed(call[r]) /\ needed(call[r]) \in Nat
      BY <1>1, <1>4, <2>1, <2>2, NeededTokens DEF TypeInv, TypeOK, Shaped
    <3>2. /\ Len(made'[r]) = Len(made[r]) + 1
          /\ \A k \in DOMAIN made'[r] : made'[r][k] \in Ids'
      BY <1>1, <1>3, <2>1, <2>2, <3>1 DEF Shaped
    <3>3. QED
      BY <1>1, <1>3, <1>4, <2>1, <2>2, <3>1, <3>2 DEF Shaped, needed
  <2>3. CASE q # r
    BY <1>3, <1>4, <2>1, <2>3 DEF TypeInv, TypeOK, Shaped, needed
  <2>4. QED
    BY <2>2, <2>3
<1>7. QED
  BY <1>5, <1>6 DEF TypeInv

LEMMA TypeStep ==
  ASSUME TypeInv, NEW r \in Requests, Step(r)
  PROVE  TypeInv'
<1>1. /\ \A status \in Statuses : Failed(status) \in Answer /\ Failed(status).ids = {}
      /\ \A S \in SUBSET Nat : Ok(S) \in Answer /\ Ok(S).ids = S
  BY DEF Ok, Failed, Answer, Statuses
<1>2. /\ tokens \in Seq(Token) /\ Ids \subseteq Nat
      /\ rows \subseteq Ids /\ erased \subseteq Ids /\ writes \subseteq Ids
      /\ unsettled \subseteq Ids
      /\ call[r] \in Call /\ made[r] \in Seq(Nat) /\ Shaped(r)
  BY DEF TypeInv, TypeOK, Ids
<1>3. ASSUME NEW STATE out, out \in Answer, out.ids \subseteq Ids, Finish(r, out), Untouched
      PROVE  TypeInv'
  BY <1>2, <1>3, TypeFinish DEF Untouched, table
<1>4. ASSUME NEW status \in Statuses, Finish(r, Failed(status)), Untouched
      PROVE  TypeInv'
  BY <1>1, <1>3, <1>4
<1>5. CASE TenantGroups(r)
  <2>1. CASE Goto(r, "mint")
    <3>1. Len(made[r]) < needed(call[r])
      BY <1>2, <1>5, NeededTokens DEF TenantGroups, Shaped
    <3>2. QED
      BY <1>5, <2>1, <3>1, TypeGoto DEF TenantGroups
  <2>2. CASE Finish(r, Failed(400))
    BY <1>4, <1>5, <2>2 DEF TenantGroups, Statuses
  <2>3. QED
    BY <1>5, <2>1, <2>2 DEF TenantGroups
<1>6. CASE DeviceGroups(r)
  <2>1. CASE Finish(r, Ok({}))
    BY <1>1, <1>3, <1>6, <2>1 DEF DeviceGroups
  <2>2. CASE Finish(r, Failed(400))
    BY <1>4, <1>6, <2>2 DEF DeviceGroups, Statuses
  <2>3. QED
    BY <1>6, <2>1, <2>2 DEF DeviceGroups
<1>7. CASE GroupsFail(r)
  BY <1>4, <1>7 DEF GroupsFail, Statuses
<1>8. CASE IdentityKey(r)
  <2>1. call[r].op = "bootstrap" /\ made[r] = <<>> /\ Untouched
    BY <1>2, <1>8 DEF IdentityKey, Shaped
  <2>2. Len(made[r]) < needed(call[r])
    BY <1>2, <2>1, NeededTokens
  <2>3. Goto(r, "mint") \/ Goto(r, "keyAgain") \/ Finish(r, Failed(400))
    BY <1>8 DEF IdentityKey
  <2>4. QED
    BY <1>4, <2>1, <2>2, <2>3, TypeGoto DEF Statuses
<1>9. CASE IdentityKeyFails(r)
  BY <1>4, <1>9 DEF IdentityKeyFails, Statuses
<1>10. CASE MintRefused(r)
  <2>1. mintStatus(r) \in Statuses
    BY DEF mintStatus, decodingStatus, Statuses
  <2>2. QED
    BY <1>4, <1>10, <2>1 DEF MintRefused
<1>10f. CASE MintFails(r)
  BY <1>4, <1>10f DEF MintFails, Statuses
<1>11. CASE Mint(r)
  BY <1>11, TypeMint
<1>12. CASE InsertDone(r)
  <2> DEFINE all == {made[r][k] : k \in DOMAIN made[r]}
  <2>1. all \subseteq Ids /\ all \in SUBSET Nat
    BY <1>2 DEF Shaped
  <2>2. \/ Len(made[r]) < needed(call[r]) /\ Goto(r, "mint")
        \/ Finish(r, Ok(all))
    BY <1>12 DEF InsertDone
  <2> HIDE DEF all
  <2>3. Untouched
    BY <1>12 DEF InsertDone
  <2>4. QED
    BY <1>1, <1>3, <2>1, <2>2, <2>3, TypeGoto
<1>13. CASE InsertFails(r)
  BY <1>4, <1>13 DEF InsertFails, Statuses
<1>14. CASE RowsRead(r)
  <2> PICK seen \in SUBSET ((rows \cup (erased \cap unsettled)) \cap selected(call[r])) :
        Finish(r, Ok(seen))
    BY <1>14 DEF RowsRead
  <2>1. seen \subseteq Ids /\ seen \in SUBSET Nat
    BY <1>2
  <2>2. QED
    BY <1>1, <1>3, <1>14, <2>1 DEF RowsRead
<1>15. CASE RowDeleted(r)
  <2> DEFINE gone == deleteQ(call[r].who, call[r].id)
  <2>1. gone \subseteq Ids
    BY <1>2 DEF deleteQ
  <2>2. /\ rows' = rows \ gone /\ writes' = writes \ gone
        /\ erased' = erased \cup gone
        /\ unsettled' \in {unsettled, unsettled \cup gone}
        /\ UNCHANGED <<now, tokens, world, delivered>>
        /\ Finish(r, Ok({})) \/ Finish(r, Failed(500))
    BY <1>15 DEF RowDeleted
  <2> HIDE DEF gone
  <2>3. /\ rows' \subseteq Ids /\ writes' \subseteq Ids
        /\ erased' \subseteq Ids /\ unsettled' \subseteq Ids
    BY <1>2, <2>1, <2>2
  <2>4. QED
    BY <1>1, <2>2, <2>3, TypeFinish DEF Statuses
<1>16. CASE StorageFails(r)
  BY <1>4, <1>16 DEF StorageFails, Statuses
<1>17. CASE Respond(r)
  <2>1. /\ pc' = [pc EXCEPT ![r] = "done"]
        /\ reply' \in {reply, [reply EXCEPT ![r] = outcome[r]]}
        /\ delivered' \in {delivered, delivered \cup outcome[r].ids}
        /\ UNCHANGED <<now, tokens, table, world, call, made, outcome>>
    BY <1>17 DEF Respond
  <2>2. outcome[r] \in Answer /\ outcome[r].ids \subseteq Ids
    BY <1>2 DEF TypeInv, TypeOK, Shaped
  <2>3. TypeOK'
    BY <2>1, <2>2 DEF TypeInv, TypeOK, Stages, Ids, table, world
  <2>4. ASSUME NEW q \in Requests PROVE Shaped(q)'
    <3>1. Shaped(q)
      BY DEF TypeInv
    <3>2. CASE q = r
      BY <2>1, <3>1, <3>2 DEF TypeInv, TypeOK, Shaped, Ids
    <3>3. CASE q # r
      BY <2>1, <3>1, <3>3 DEF TypeInv, TypeOK, Shaped, Ids, needed
    <3>4. QED
      BY <3>2, <3>3
  <2>5. QED
    BY <2>3, <2>4 DEF TypeInv
<1>18. QED
  BY <1>5, <1>6, <1>7, <1>8, <1>9, <1>10, <1>10f, <1>11, <1>12, <1>13, <1>14, <1>15, <1>16,
     <1>17 DEF Step

LEMMA TypeTimeout ==
  ASSUME TypeInv, NEW r \in Requests, Timeout(r)
  PROVE  TypeInv'
<1>1. Failed(504) \in Answer
  BY DEF Failed, Answer, Statuses
<1>2. TypeOK'
  BY <1>1 DEF TypeInv, TypeOK, Timeout, Ids, table, world
<1>3. ASSUME NEW q \in Requests PROVE Shaped(q)'
  BY DEF TypeInv, Timeout, Shaped, Ids, needed
<1>4. QED
  BY <1>2, <1>3 DEF TypeInv

LEMMA TypeEnvironment ==
  ASSUME TypeInv, Environment
  PROVE  TypeInv'
<1>1. NoCall \in Call /\ NoCall.op = "none"
  BY DEF NoCall, Call
<1>2. NoAnswer \in Answer /\ NoAnswer.ids = {}
  BY DEF NoAnswer, Failed, Answer, Statuses
<1>3. ASSUME UNCHANGED slots, UNCHANGED tokens
      PROVE  \A r \in Requests : Shaped(r)'
  BY <1>3 DEF TypeInv, Shaped, Ids, slots, needed
<1>4. ASSUME NEW i \in Ids, WriteLands(i) \/ WriteLost(i) \/ Settle(i)
      PROVE  TypeInv'
  <2>1. TypeOK'
    BY <1>4 DEF TypeInv, TypeOK, WriteLands, WriteLost, Settle, Ids, world, slots
  <2>2. QED
    BY <1>3, <1>4, <2>1 DEF TypeInv, WriteLands, WriteLost, Settle
<1>5. ASSUME NEW x \in Members, NEW g \in Regroupings[x], Regroup(x, g)
      PROVE  TypeInv'
  <2>1. g \in SUBSET Groups
    BY GroupsAssumption
  <2>2. TypeOK'
    BY <1>5, <2>1 DEF TypeInv, TypeOK, Regroup, Ids, table, slots
  <2>3. QED
    BY <1>3, <1>5, <2>2 DEF TypeInv, Regroup
<1>6. ASSUME NEW d \in Identities, NEW k \in Keys, Register(d, k)
      PROVE  TypeInv'
  <2>1. TypeOK'
    BY <1>6 DEF TypeInv, TypeOK, Register, Ids, table, slots
  <2>2. QED
    BY <1>3, <1>6, <2>1 DEF TypeInv, Register
<1>7. CASE Tick
  <2>1. TypeOK'
    BY <1>7 DEF TypeInv, TypeOK, Tick, Ids, table, world, slots
  <2>2. QED
    BY <1>3, <1>7, <2>1 DEF TypeInv, Tick
<1>8. CASE Crash
  <2>1. TypeOK'
    BY <1>1, <1>2, <1>8 DEF TypeInv, TypeOK, Crash, Ids, Stages, table, world
  <2>2. ASSUME NEW r \in Requests PROVE Shaped(r)'
    BY <1>1, <1>2, <1>8 DEF Crash, Shaped
  <2>3. QED
    BY <2>1, <2>2 DEF TypeInv
<1>9. QED
  BY <1>4, <1>5, <1>6, <1>7, <1>8 DEF Environment

LEMMA TypeNext ==
  ASSUME TypeInv, [Next]_vars
  PROVE  TypeInv'
<1>1. CASE UNCHANGED vars
  <2>1. TypeOK'
    BY <1>1 DEF TypeInv, TypeOK, Ids, vars
  <2>2. ASSUME NEW r \in Requests PROVE Shaped(r)'
    BY <1>1 DEF TypeInv, Shaped, Ids, needed, vars
  <2>3. QED
    BY <2>1, <2>2 DEF TypeInv
<1>2. CASE Next
  BY <1>2, TypeArrive, TypeStep, TypeTimeout, TypeEnvironment DEF Next
<1>3. QED
  BY <1>1, <1>2

LEMMA TypeInvariant == Spec => []TypeInv
BY TypeInit, TypeNext, PTL DEF Spec

(* In every reachable state the variables have their types, and everything   *)
(* that is kept, answered or delivered refers to a token that was signed.    *)
THEOREM TypeCorrect == Spec => []TypeOK
<1>1. TypeInv => TypeOK
  BY DEF TypeInv
<1>2. QED
  BY <1>1, TypeInvariant, PTL
------------------------------------------------------------------------------
(* Delivered tokens are kept                                                *)

(* A request that arrives touches its own slot only, starts without tokens   *)
(* and without a result that contains any, and can be about to sign at once  *)
(* only if its purposed claim names no groups.                               *)
OnlySlot(r) ==
  /\ UNCHANGED <<now, tokens, table, world, delivered>>
  /\ \A q \in Requests \ {r} : UNCHANGED <<pc[q], call[q], made[q], outcome[q]>>
  /\ made'[r] = <<>> /\ outcome'[r].ids = {} /\ pc'[r] # "insert"
  /\ pc'[r] = "mint" /\ call'[r].op = "create" => ~hasMaybeGroups(call'[r].claim)

LEMMA ArriveFrame ==
  ASSUME TypeInv, NEW r \in Requests, Arrive(r)
  PROVE  OnlySlot(r)
<1>1. /\ NoAnswer.ids = {} /\ \A status : Failed(status).ids = {}
  BY DEF NoAnswer, Failed
<1>2. ASSUME NEW STATE c, NEW STATE stage, NEW STATE out, Begin(r, c, stage, out),
             out.ids = {}, stage # "insert",
             stage = "mint" /\ c.op = "create" => ~hasMaybeGroups(c.claim)
      PROVE  OnlySlot(r)
  <2>1. pc'[r] = stage /\ call'[r] = c /\ made'[r] = <<>> /\ outcome'[r] = out
    BY <1>2 DEF Begin, TypeInv, TypeOK
  <2>2. QED
    BY <1>2, <2>1 DEF Begin, OnlySlot, TypeInv, TypeOK
<1>3. CASE Create(r)
  <2> PICK who \in Tenants, claim \in PurposedClaims :
        LET c == [op |-> "create", who |-> who, claim |-> claim] IN
        \/ ~localVerify(claim) /\ Refuse(r, c, 400)
        \/ localVerify(claim)
           /\ Proceed(r, c, IF hasMaybeGroups(claim) THEN "groups" ELSE "mint")
    BY <1>3 DEF Create
  <2> DEFINE c == [op |-> "create", who |-> who, claim |-> claim]
  <2>1. c.claim = claim
    OBVIOUS
  <2> HIDE DEF c
  <2>2. \/ Begin(r, c, "respond", Failed(400)) \/ Begin(r, c, "groups", NoAnswer)
        \/ ~hasMaybeGroups(claim) /\ Begin(r, c, "mint", NoAnswer)
    BY DEF Refuse, Proceed, c
  <2>3. CASE Begin(r, c, "respond", Failed(400)) \/ Begin(r, c, "groups", NoAnswer)
    BY <1>1, <1>2, <2>3
  <2>4. CASE ~hasMaybeGroups(claim) /\ Begin(r, c, "mint", NoAnswer)
    BY <1>1, <1>2, <2>1, <2>4
  <2>5. QED
    BY <2>2, <2>3, <2>4
<1>4. CASE CreateGeneric(r)
  <2> PICK who \in Admins, claim \in GenericClaims :
        Begin(r, [op |-> "generic", who |-> who, claim |-> claim], "mint", NoAnswer)
    BY <1>4 DEF CreateGeneric, Proceed
  <2> DEFINE c == [op |-> "generic", who |-> who, claim |-> claim]
  <2>1. c.op # "create"
    OBVIOUS
  <2>2. Begin(r, c, "mint", NoAnswer)
    OBVIOUS
  <2> HIDE DEF c
  <2>3. QED
    BY <1>1, <1>2, <2>1, <2>2
<1>5. ASSUME NEW STATE c, NEW STATE stage, NEW STATE out, Begin(r, c, stage, out),
             stage \in {"key", "device", "read", "erase", "respond"}, out.ids = {}
      PROVE  OnlySlot(r)
  BY <1>2, <1>5
<1>6. CASE List(r) \/ Get(r)
  BY <1>1, <1>5, <1>6 DEF List, Get, Query, Proceed
<1>7. CASE Delete(r)
  BY <1>1, <1>5, <1>7 DEF Delete, Proceed
<1>8. CASE Verify(r)
  BY <1>1, <1>5, <1>8 DEF Verify, Proceed, Refuse
<1>9. CASE Bootstrap(r)
  BY <1>1, <1>5, <1>9 DEF Bootstrap, Proceed
<1>10. CASE Unauthorized(r)
  BY <1>1, <1>10 DEF Unauthorized, OnlySlot, TypeInv, TypeOK
<1>11. CASE Malformed(r)
  BY <1>1, <1>5, <1>11 DEF Malformed, Refuse
<1>12. QED
  BY <1>3, <1>4, <1>6, <1>7, <1>8, <1>9, <1>10, <1>11 DEF Arrive

(* What a request has stored remains so while the table only gains rows and  *)
(* deletions, and the request does not move.                                 *)
LEMMA StoredStable ==
  ASSUME NEW q, Stored(q), rows \cup erased \subseteq rows' \cup erased',
         UNCHANGED <<pc[q], made[q], outcome[q]>>
  PROVE  Stored(q)'
BY DEF Stored

LEMMA KeptStep ==
  ASSUME TypeInv, KeptInv, NEW r \in Requests, Step(r)
  PROVE  KeptInv'
<1> DEFINE there == rows \cup erased
<1>1. /\ pc \in [Requests -> Stages] /\ made \in [Requests -> Seq(Nat)]
      /\ outcome \in [Requests -> Answer] /\ Shaped(r)
  BY DEF TypeInv, TypeOK
<1>2. ASSUME rows \cup erased \subseteq rows' \cup erased',
             \A q \in Requests \ {r} : UNCHANGED <<pc[q], made[q], outcome[q]>>,
             Stored(r)', delivered' \subseteq rows' \cup erased'
      PROVE  KeptInv'
  BY <1>2, StoredStable DEF KeptInv, DeliveredTokensAreKept
<1>3. ASSUME NEW STATE out, Finish(r, out), out.ids \subseteq there,
             rows \cup erased \subseteq rows' \cup erased', UNCHANGED delivered
      PROVE  KeptInv'
  <2>1. /\ \A q \in Requests \ {r} : UNCHANGED <<pc[q], made[q], outcome[q]>>
        /\ pc'[r] = "respond" /\ outcome'[r] = out
    BY <1>1, <1>3 DEF Finish
  <2>2. Stored(r)'
    BY <1>3, <2>1 DEF Stored
  <2>3. QED
    BY <1>2, <1>3, <2>1, <2>2 DEF KeptInv, DeliveredTokensAreKept
<1>4. ASSUME NEW status, Finish(r, Failed(status)), Untouched
      PROVE  KeptInv'
  BY <1>3, <1>4 DEF Untouched, table, Failed
<1>5. ASSUME NEW STATE stage, stage \in {"mint", "keyAgain"}, Goto(r, stage), Untouched,
             stage = "mint" => \A k \in DOMAIN made[r] : made[r][k] \in there
      PROVE  KeptInv'
  <2>1. /\ \A q \in Requests \ {r} : UNCHANGED <<pc[q], made[q], outcome[q]>>
        /\ pc'[r] = stage /\ UNCHANGED <<made, outcome, rows, erased, delivered>>
    BY <1>1, <1>5 DEF Goto, Untouched, table
  <2>2. Stored(r)
    BY DEF KeptInv
  <2>3. Stored(r)'
    BY <1>5, <2>1, <2>2 DEF Stored
  <2>4. QED
    BY <1>2, <2>1, <2>3 DEF KeptInv, DeliveredTokensAreKept
<1>6. CASE TenantGroups(r)
  <2>1. made[r] = <<>> /\ Untouched
    BY <1>1, <1>6 DEF TenantGroups, Shaped
  <2>2. Goto(r, "mint") \/ Finish(r, Failed(400))
    BY <1>6 DEF TenantGroups
  <2>3. QED
    BY <1>4, <1>5, <2>1, <2>2
<1>7. CASE DeviceGroups(r)
  <2>1. Finish(r, Ok({})) \/ Finish(r, Failed(400))
    BY <1>7 DEF DeviceGroups
  <2>2. Ok({}).ids = {} /\ UNCHANGED <<rows, erased, delivered>> /\ Untouched
    BY <1>7 DEF DeviceGroups, Ok, Untouched, table
  <2>3. QED
    BY <1>3, <1>4, <2>1, <2>2
<1>8. CASE GroupsFail(r) \/ IdentityKeyFails(r) \/ MintRefused(r) \/ MintFails(r) \/ InsertFails(r)
           \/ StorageFails(r)
  BY <1>4, <1>8 DEF GroupsFail, IdentityKeyFails, MintRefused, MintFails, InsertFails, StorageFails
<1>9. CASE IdentityKey(r)
  <2>1. made[r] = <<>> /\ Untouched
    BY <1>1, <1>9 DEF IdentityKey, Shaped
  <2>2. Goto(r, "mint") \/ Goto(r, "keyAgain") \/ Finish(r, Failed(400))
    BY <1>9 DEF IdentityKey
  <2>3. QED
    BY <1>4, <1>5, <2>1, <2>2
<1>10. CASE Mint(r)
  <2> DEFINE id == Len(tokens) + 1
  <2>1. /\ pc[r] = "mint" /\ made' = [made EXCEPT ![r] = Append(@, id)]
        /\ pc' = [pc EXCEPT ![r] = "insert"]
        /\ UNCHANGED <<rows, erased, outcome, delivered>>
    BY <1>10 DEF Mint
  <2> HIDE DEF id
  <2>2. \A q \in Requests \ {r} : UNCHANGED <<pc[q], made[q], outcome[q]>>
    BY <1>1, <2>1
  <2>3. /\ made'[r] = Append(made[r], id) /\ pc'[r] = "insert"
        /\ Len(made'[r]) = Len(made[r]) + 1 /\ made[r] \in Seq(Nat)
        /\ \A k \in DOMAIN made'[r] : k < Len(made'[r]) =>
             k \in DOMAIN made[r] /\ made'[r][k] = made[r][k]
    BY <1>1, <2>1
  <2>4. Stored(r) /\ \A k \in DOMAIN made[r] : made[r][k] \in there
    BY <2>1 DEF KeptInv, Stored
  <2>5. Stored(r)'
    BY <2>1, <2>3, <2>4 DEF Stored
  <2>6. QED
    BY <1>2, <2>1, <2>2, <2>5 DEF KeptInv, DeliveredTokensAreKept
<1>11. CASE InsertDone(r)
  <2> DEFINE all == {made[r][k] : k \in DOMAIN made[r]}
  <2>1. /\ pc[r] = "insert" /\ made[r][Len(made[r])] \in there
        /\ Goto(r, "mint") \/ Finish(r, Ok(all))
        /\ Untouched
    BY <1>11 DEF InsertDone
  <2>2. \A k \in DOMAIN made[r] : made[r][k] \in there
    <3>1. Stored(r)
      BY DEF KeptInv
    <3>2. \A k \in DOMAIN made[r] : k < Len(made[r]) \/ k = Len(made[r])
      BY <1>1
    <3>3. QED
      BY <2>1, <3>1, <3>2 DEF Stored
  <2>3. all \subseteq there /\ Ok(all).ids = all
    BY <2>2 DEF Ok
  <2> HIDE DEF all
  <2>4. UNCHANGED <<rows, erased, delivered>>
    BY <2>1 DEF Untouched, table
  <2>5. QED
    BY <1>3, <1>5, <2>1, <2>2, <2>3, <2>4
<1>12. CASE RowsRead(r)
  <2> PICK seen \in SUBSET ((rows \cup (erased \cap unsettled)) \cap selected(call[r])) :
        Finish(r, Ok(seen))
    BY <1>12 DEF RowsRead
  <2>1. Ok(seen).ids \subseteq there
    BY DEF Ok
  <2>2. UNCHANGED <<rows, erased, delivered>>
    BY <1>12 DEF RowsRead, Untouched, table
  <2>3. QED
    BY <1>3, <2>1, <2>2
<1>13. CASE RowDeleted(r)
  <2>1. /\ Finish(r, Ok({})) \/ Finish(r, Failed(500))
        /\ rows \cup erased \subseteq rows' \cup erased' /\ UNCHANGED delivered
    BY <1>13 DEF RowDeleted
  <2>2. Ok({}).ids = {} /\ Failed(500).ids = {}
    BY DEF Ok, Failed
  <2>3. QED
    BY <1>3, <2>1, <2>2
<1>14. CASE Respond(r)
  <2>1. /\ pc' = [pc EXCEPT ![r] = "done"]
        /\ delivered' \subseteq delivered \cup outcome[r].ids
        /\ UNCHANGED <<rows, erased, made, outcome>>
    BY <1>14 DEF Respond, table
  <2>2. /\ \A q \in Requests \ {r} : UNCHANGED <<pc[q], made[q], outcome[q]>>
        /\ pc'[r] = "done"
    BY <1>1, <2>1
  <2>3. Stored(r)
    BY DEF KeptInv
  <2>4. Stored(r)'
    BY <2>1, <2>2, <2>3 DEF Stored
  <2>5. QED
    BY <1>2, <2>1, <2>2, <2>3, <2>4 DEF KeptInv, DeliveredTokensAreKept, Stored
<1>15. QED
  BY <1>6, <1>7, <1>8, <1>9, <1>10, <1>11, <1>12, <1>13, <1>14 DEF Step

LEMMA KeptNext ==
  ASSUME TypeInv, KeptInv, [Next]_vars
  PROVE  KeptInv'
<1>1. CASE UNCHANGED vars
  BY <1>1, StoredStable DEF KeptInv, DeliveredTokensAreKept, vars
<1>2. ASSUME NEW r \in Requests, Arrive(r)
      PROVE  KeptInv'
  <2>1. OnlySlot(r) /\ UNCHANGED <<rows, erased, delivered>>
    BY <1>2, ArriveFrame DEF OnlySlot, table
  <2>2. Stored(r)'
    BY <2>1 DEF OnlySlot, Stored
  <2>3. \A q \in Requests \ {r} : Stored(q)'
    BY <2>1, StoredStable DEF KeptInv, OnlySlot
  <2>4. QED
    BY <2>1, <2>2, <2>3 DEF KeptInv, DeliveredTokensAreKept
<1>3. ASSUME NEW r \in Requests, Timeout(r)
      PROVE  KeptInv'
  BY <1>3, StoredStable DEF KeptInv, DeliveredTokensAreKept, Timeout, table
<1>4. ASSUME UNCHANGED slots, UNCHANGED delivered, rows \cup erased \subseteq rows' \cup erased'
      PROVE  KeptInv'
  BY <1>4, StoredStable DEF KeptInv, DeliveredTokensAreKept, slots
<1>5. CASE Environment
  <2>1. CASE Crash
    <3>1. /\ UNCHANGED <<rows, erased, delivered>>
          /\ \A q \in Requests : pc'[q] = "idle" /\ outcome'[q].ids = {}
      BY <2>1 DEF Crash, table, NoAnswer, Failed
    <3>2. QED
      BY <3>1 DEF KeptInv, DeliveredTokensAreKept, Stored
  <2>2. CASE \E i \in Ids : WriteLands(i) \/ WriteLost(i) \/ Settle(i)
    BY <1>4, <2>2 DEF WriteLands, WriteLost, Settle
  <2>3. CASE \E x \in Members : \E g \in Regroupings[x] : Regroup(x, g)
    BY <1>4, <2>3 DEF Regroup, table
  <2>4. CASE Tick \/ \E d \in Identities, k \in Keys : Register(d, k)
    BY <1>4, <2>4 DEF Tick, Register, table
  <2>5. QED
    BY <1>5, <2>1, <2>2, <2>3, <2>4 DEF Environment
<1>6. QED
  BY <1>1, <1>2, <1>3, <1>5, KeptStep DEF Next

(* No token is given to a client before its row has reached Cassandra, and   *)
(* from then on its row is there until it is deleted, whatever requests      *)
(* interleave and whichever writes, replies and processes are lost.          *)
THEOREM TokensAreKept == Spec => []DeliveredTokensAreKept
<1>1. Init => KeptInv
  BY DEF Init, KeptInv, DeliveredTokensAreKept, Stored, NoAnswer, Failed
<1>2. KeptInv => DeliveredTokensAreKept
  BY DEF KeptInv
<1>3. QED
  BY <1>1, <1>2, KeptNext, TypeInvariant, PTL DEF Spec
------------------------------------------------------------------------------
(* Vouched tokens                                                           *)

(* Who asked for a token and which groups it names stays right while no      *)
(* token is signed: memberships once held are never forgotten.               *)
LEMMA VouchedStable ==
  ASSUME TypeInv, VouchedInv, UNCHANGED tokens,
         \A x \in Members : held[x] \subseteq held'[x]
  PROVE  VouchedGroups' /\ VouchedOwners'
<1>1. ASSUME NEW i \in Ids, tokens[i].vouched, NamesGroups(i)
      PROVE  verifyGroups(claimOf(i).targetGroups, held'[claimOf(i).tenantId])
  <2>1. tokens[i].jwt \in JwtClaim /\ tokens[i].jwt.content # Opaque
    <3>1. tokens[i] \in Token
      BY DEF TypeInv, TypeOK, Ids
    <3>2. tokens[i].jwt \in JwtClaim
      BY <3>1 DEF Token
    <3>3. QED
      BY <1>1, <3>2 DEF NamesGroups, IsPurposed
  <2>2. claimOf(i).tenantId \in Members
    BY <2>1, DecodedType DEF claimOf, JwtClaim, Members
  <2>3. verifyGroups(claimOf(i).targetGroups, held[claimOf(i).tenantId])
    BY <1>1 DEF VouchedInv, VouchedGroups
  <2>4. QED
    BY <2>2, <2>3, GroupsMonotone
<1>2. VouchedGroups'
  BY <1>1 DEF VouchedGroups, NamesGroups, IsPurposed, claimOf, Ids
<1>3. VouchedOwners'
  BY DEF VouchedInv, VouchedOwners, Ids
<1>4. QED
  BY <1>2, <1>3

(* The group check a request has passed is not undone while it waits.        *)
LEMMA CheckedStable ==
  ASSUME TypeInv, NEW q \in Requests, Checked(q), UNCHANGED <<pc[q], call[q]>>,
         \A x \in Members : held[x] \subseteq held'[x]
  PROVE  Checked(q)'
<1>1. call[q] \in Call
  BY DEF TypeInv, TypeOK
<1>2. call[q].op = "create" => call[q].claim.tenantId \in Members
  BY <1>1, CallFields DEF TokenPurposedClaim, Members
<1>3. QED
  BY <1>2, GroupsMonotone DEF Checked

(* The token just signed is right, and the ones before it stay as they were. *)
LEMMA VouchedMint ==
  ASSUME TypeInv, VouchedInv, NEW r \in Requests, Mint(r)
  PROVE  VouchedGroups' /\ VouchedOwners'
<1> DEFINE new == nextToken(r)
           c == call[r]
           id == Len(tokens) + 1
<1>1. /\ tokens \in Seq(Token) /\ new \in Token /\ c \in Call /\ pc[r] = "mint"
      /\ UNCHANGED held
  BY NextTokenType DEF TypeInv, TypeOK, Mint, world
<1>2. tokens' = Append(tokens, new)
  BY DEF Mint
<1>3. /\ Ids' = Ids \cup {id}
      /\ tokens'[id] = new
      /\ \A i \in Ids : tokens'[i] = tokens[i]
  BY <1>1, <1>2 DEF Ids
<1>4. c.op \in {"create", "generic", "bootstrap"}
  BY <1>1, NeededTokens DEF TypeInv, TypeOK, Shaped
<1>5. /\ c.op = "create" =>
           /\ new.jwt.content.tgp = c.claim.targetGroups
           /\ new.jwt.sub = c.claim.tenantId
           /\ new.ownerId = c.claim.tenantId
           /\ new.askedBy = {c.claim.tenantId}
      /\ c.op = "generic" => ~new.vouched
      /\ c.op = "bootstrap" =>
           /\ c.token \in Ids
           /\ tokens[c.token].jwt.content # Opaque
           /\ new.jwt.content.tgp = tokens[c.token].jwt.content.tgp
           /\ new.jwt.sub = tokens[c.token].jwt.sub
           /\ new.ownerId = tokens[c.token].jwt.sub
           /\ new.askedBy = tokens[c.token].askedBy
           /\ new.vouched = tokens[c.token].vouched
  BY NextTokenType DEF Mint
<1> HIDE DEF new, id
<1>6. new.vouched => new.askedBy = {new.ownerId} /\ new.jwt.sub = new.ownerId
  BY <1>4, <1>5 DEF VouchedInv, VouchedOwners
<1>7. VouchedOwners'
  BY <1>3, <1>6 DEF VouchedInv, VouchedOwners
<1>8. ASSUME new.vouched, new.jwt.content # Opaque, hasMaybeGroups(decoded(new.jwt))
      PROVE  verifyGroups(decoded(new.jwt).targetGroups, held[decoded(new.jwt).tenantId])
  <2>1. /\ decoded(new.jwt).targetGroups = new.jwt.content.tgp
        /\ decoded(new.jwt).tenantId = new.jwt.sub
    BY DEF decoded
  <2>2. CASE c.op = "create"
    <3>1. /\ decoded(new.jwt).targetGroups = c.claim.targetGroups
          /\ decoded(new.jwt).tenantId = c.claim.tenantId
      BY <1>5, <2>1, <2>2
    <3>2. hasMaybeGroups(c.claim)
      BY <1>8, <3>1 DEF hasMaybeGroups
    <3>3. QED
      BY <1>1, <2>2, <3>1, <3>2 DEF VouchedInv, Checked
  <2>3. CASE c.op = "bootstrap"
    <3> DEFINE p == c.token
    <3>1. /\ claimOf(p).targetGroups = tokens[p].jwt.content.tgp
          /\ claimOf(p).tenantId = tokens[p].jwt.sub
      BY DEF claimOf, decoded
    <3>2. /\ decoded(new.jwt).targetGroups = claimOf(p).targetGroups
          /\ decoded(new.jwt).tenantId = claimOf(p).tenantId
          /\ p \in Ids /\ tokens[p].jwt.content # Opaque /\ tokens[p].vouched
      BY <1>5, <1>8, <2>1, <2>3, <3>1
    <3>3. NamesGroups(p)
      BY <1>8, <3>2 DEF NamesGroups, IsPurposed, hasMaybeGroups
    <3>4. QED
      BY <3>2, <3>3 DEF VouchedInv, VouchedGroups
  <2>4. QED
    BY <1>4, <1>5, <1>8, <2>2, <2>3
<1>9. VouchedGroups'
  <2>1. ASSUME NEW i \in Ids', tokens'[i].vouched, NamesGroups(i)'
        PROVE  verifyGroups(claimOf(i)'.targetGroups, held[claimOf(i)'.tenantId])
    <3>1. claimOf(i)' = decoded(tokens'[i].jwt)
      BY DEF claimOf
    <3>2. CASE i \in Ids
      <4>1. tokens'[i] = tokens[i] /\ claimOf(i)' = claimOf(i) /\ NamesGroups(i)
        BY <1>3, <2>1, <3>2 DEF claimOf, NamesGroups, IsPurposed
      <4>2. QED
        BY <2>1, <3>2, <4>1 DEF VouchedInv, VouchedGroups
    <3>3. CASE i = id
      BY <1>3, <1>8, <2>1, <3>1, <3>3 DEF NamesGroups, IsPurposed, claimOf
    <3>4. QED
      BY <1>3, <3>2, <3>3
  <2>2. QED
    BY <1>1, <2>1 DEF VouchedGroups
<1>10. QED
  BY <1>7, <1>9

LEMMA VouchedStep ==
  ASSUME TypeInv, VouchedInv, NEW r \in Requests, Step(r)
  PROVE  VouchedInv'
<1>1. /\ pc \in [Requests -> Stages] /\ call[r] \in Call /\ Shaped(r)
      /\ \A q \in Requests : Checked(q)
      /\ \A x \in Members : groups[x] \subseteq held[x]
  BY DEF TypeInv, TypeOK, VouchedInv
<1>2. ASSUME UNCHANGED tokens, UNCHANGED <<world, call>>,
             \A q \in Requests \ {r} : UNCHANGED pc[q], Checked(r)'
      PROVE  VouchedInv'
  <2>1. \A q \in Requests \ {r} : Checked(q)'
    BY <1>1, <1>2, CheckedStable DEF world
  <2>2. VouchedGroups' /\ VouchedOwners'
    BY <1>2, VouchedStable DEF world
  <2>3. QED
    BY <1>1, <1>2, <2>1, <2>2 DEF VouchedInv, world
<1>3. ASSUME NEW STATE stage, stage # "mint", pc' = [pc EXCEPT ![r] = stage],
             UNCHANGED tokens, UNCHANGED <<world, call>>
      PROVE  VouchedInv'
  <2>1. pc'[r] # "mint" /\ \A q \in Requests \ {r} : UNCHANGED pc[q]
    BY <1>1, <1>3
  <2>2. QED
    BY <1>2, <1>3, <2>1 DEF Checked
<1>4. ASSUME NEW STATE out, Finish(r, out), UNCHANGED tokens, UNCHANGED world
      PROVE  VouchedInv'
  BY <1>3, <1>4 DEF Finish
<1>5. ASSUME Goto(r, "mint"), Untouched,
             call[r].op = "create" /\ hasMaybeGroups(call[r].claim) =>
               verifyGroups(call[r].claim.targetGroups, held[call[r].claim.tenantId])
      PROVE  VouchedInv'
  <2>1. \A q \in Requests \ {r} : UNCHANGED pc[q]
    BY <1>1, <1>5 DEF Goto
  <2>2. UNCHANGED tokens /\ UNCHANGED <<world, call>>
    BY <1>5 DEF Goto, Untouched
  <2>3. Checked(r)'
    BY <1>5, <2>2 DEF Checked, world
  <2>4. QED
    BY <1>2, <2>1, <2>2, <2>3
<1>6. CASE TenantGroups(r)
  <2> DEFINE claim == call[r].claim
  <2>1. CASE verifyGroups(claim.targetGroups, groups[claim.tenantId])
    <3>1. call[r].op = "create"
      BY <1>1, <1>6 DEF TenantGroups, Shaped
    <3>2. claim.tenantId \in Members
      BY <1>1, <3>1, CallFields DEF TokenPurposedClaim, Members
    <3>3. verifyGroups(claim.targetGroups, held[claim.tenantId])
      BY <1>1, <2>1, <3>2, GroupsMonotone
    <3>4. Goto(r, "mint") /\ Untouched
      BY <1>6, <2>1 DEF TenantGroups
    <3>5. QED
      BY <1>5, <3>3, <3>4
  <2>2. CASE ~verifyGroups(claim.targetGroups, groups[claim.tenantId])
    BY <1>4, <1>6, <2>2 DEF TenantGroups, Untouched
  <2>3. QED
    BY <2>1, <2>2
<1>7. CASE DeviceGroups(r)
  <2>1. Finish(r, Ok({})) \/ Finish(r, Failed(400))
    BY <1>7 DEF DeviceGroups
  <2>2. QED
    BY <1>4, <1>7, <2>1 DEF DeviceGroups, Untouched
<1>8. CASE GroupsFail(r) \/ IdentityKeyFails(r) \/ MintRefused(r) \/ MintFails(r) \/ InsertFails(r)
           \/ RowsRead(r) \/ StorageFails(r)
  BY <1>4, <1>8 DEF GroupsFail, IdentityKeyFails, MintRefused, MintFails, InsertFails, RowsRead,
     StorageFails, Untouched
<1>9. CASE IdentityKey(r)
  <2>1. call[r].op = "bootstrap" /\ Untouched
    BY <1>1, <1>9 DEF IdentityKey, Shaped
  <2>2. Goto(r, "mint") \/ Goto(r, "keyAgain") \/ Finish(r, Failed(400))
    BY <1>9 DEF IdentityKey
  <2>3. CASE Goto(r, "keyAgain")
    BY <1>3, <2>1, <2>3 DEF Goto, Untouched
  <2>4. QED
    BY <1>4, <1>5, <2>1, <2>2, <2>3 DEF Untouched
<1>10. CASE Mint(r)
  <2>1. /\ pc' = [pc EXCEPT ![r] = "insert"] /\ UNCHANGED <<world, call>>
    BY <1>10 DEF Mint
  <2>2. \A q \in Requests \ {r} : UNCHANGED <<pc[q], call[q]>>
    BY <1>1, <2>1
  <2>3. \A q \in Requests \ {r} : Checked(q)'
    BY <1>1, <2>1, <2>2, CheckedStable DEF world
  <2>4. Checked(r)'
    BY <1>1, <2>1 DEF Checked
  <2>5. VouchedGroups' /\ VouchedOwners'
    BY <1>10, VouchedMint
  <2>6. QED
    BY <1>1, <2>1, <2>3, <2>4, <2>5 DEF VouchedInv, world
<1>11. CASE InsertDone(r)
  <2>1. CASE Goto(r, "mint") /\ Len(made[r]) < needed(call[r])
    <3>1. call[r].op # "create"
      BY <1>1, <1>11, <2>1, NeededTokens DEF InsertDone, Shaped
    <3>2. QED
      BY <1>5, <1>11, <2>1, <3>1 DEF InsertDone
  <2>2. CASE Finish(r, Ok({made[r][k] : k \in DOMAIN made[r]}))
    BY <1>4, <1>11, <2>2 DEF InsertDone, Untouched
  <2>3. QED
    BY <1>11, <2>1, <2>2 DEF InsertDone
<1>12. CASE RowDeleted(r)
  BY <1>4, <1>12 DEF RowDeleted
<1>13. CASE Respond(r)
  BY <1>3, <1>13 DEF Respond
<1>14. QED
  BY <1>6, <1>7, <1>8, <1>9, <1>10, <1>11, <1>12, <1>13 DEF Step

LEMMA VouchedNext ==
  ASSUME TypeInv, VouchedInv, [Next]_vars
  PROVE  VouchedInv'
<1>1. /\ \A q \in Requests : Checked(q)
      /\ \A x \in Members : groups[x] \subseteq held[x]
  BY DEF VouchedInv
<1>2. ASSUME UNCHANGED tokens, UNCHANGED <<pc, call>>,
             \A x \in Members : held[x] \subseteq held'[x] /\ groups'[x] \subseteq held'[x]
      PROVE  VouchedInv'
  BY <1>1, <1>2, CheckedStable, VouchedStable DEF VouchedInv
<1>3. CASE UNCHANGED vars
  BY <1>1, <1>2, <1>3 DEF vars
<1>4. ASSUME NEW r \in Requests, Arrive(r)
      PROVE  VouchedInv'
  <2>1. OnlySlot(r) /\ UNCHANGED <<tokens, groups, held>>
    BY <1>4, ArriveFrame DEF OnlySlot, world
  <2>2. Checked(r)'
    BY <2>1 DEF OnlySlot, Checked
  <2>3. \A q \in Requests \ {r} : Checked(q)'
    BY <1>1, <2>1, CheckedStable DEF OnlySlot
  <2>4. VouchedGroups' /\ VouchedOwners'
    BY <2>1, VouchedStable
  <2>5. QED
    BY <1>1, <2>1, <2>2, <2>3, <2>4 DEF VouchedInv
<1>5. ASSUME NEW r \in Requests, Timeout(r)
      PROVE  VouchedInv'
  BY <1>1, <1>2, <1>5 DEF Timeout, world
<1>6. CASE Environment
  <2>1. CASE Crash
    <3>1. UNCHANGED <<tokens, groups, held>> /\ \A q \in Requests : pc'[q] = "idle"
      BY <2>1 DEF Crash, world
    <3>2. \A q \in Requests : Checked(q)'
      BY <3>1 DEF Checked
    <3>3. QED
      BY <1>1, <3>1, <3>2, VouchedStable DEF VouchedInv
  <2>2. CASE \E i \in Ids : WriteLands(i) \/ WriteLost(i) \/ Settle(i)
    BY <1>1, <1>2, <2>2 DEF WriteLands, WriteLost, Settle, world, slots
  <2>3. CASE \E x \in Members : \E g \in Regroupings[x] : Regroup(x, g)
    <3> PICK x \in Members : \E g \in Regroupings[x] : Regroup(x, g)
      BY <2>3
    <3> PICK g \in Regroupings[x] : Regroup(x, g)
      OBVIOUS
    <3>1. \A y \in Members : held[y] \subseteq held'[y] /\ groups'[y] \subseteq held'[y]
      BY <1>1 DEF Regroup, TypeInv, TypeOK
    <3>2. QED
      BY <1>2, <3>1 DEF Regroup, slots
  <2>4. CASE Tick \/ \E d \in Identities, k \in Keys : Register(d, k)
    BY <1>1, <1>2, <2>4 DEF Tick, Register, world, slots
  <2>5. QED
    BY <1>6, <2>1, <2>2, <2>3, <2>4 DEF Environment
<1>7. QED
  BY <1>3, <1>4, <1>5, <1>6, VouchedStep DEF Next

LEMMA VouchedInvariant == Spec => []VouchedInv
<1>1. Init => VouchedInv
  BY DEF Init, VouchedInv, Checked, VouchedGroups, VouchedOwners, Ids
<1>2. QED
  BY <1>1, VouchedNext, TypeInvariant, PTL DEF Spec

(* Every token that goes back to a purposed create request names only groups *)
(* its tenant has been in, for any tenants, groups and changes of them while *)
(* requests wait, and through any chain of bootstraps.                       *)
THEOREM GroupsAreVouched == Spec => []VouchedGroups
<1>1. VouchedInv => VouchedGroups
  BY DEF VouchedInv
<1>2. QED
  BY <1>1, VouchedInvariant, PTL

(* Such a token belongs to the user who asked for it.                       *)
THEOREM OwnersAreVouched == Spec => []VouchedOwners
<1>1. VouchedInv => VouchedOwners
  BY DEF VouchedInv
<1>2. QED
  BY <1>1, VouchedInvariant, PTL
=============================================================================
