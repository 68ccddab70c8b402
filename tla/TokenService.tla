------------------------------ MODULE TokenService -----------------------------
(****************************************************************************)
(* The token manager at work: concurrent requests to the REST endpoints, the *)
(* Cassandra table of tokens, the group service, the key service, time, and  *)
(* crashes of the process.                                                   *)
(*                                                                          *)
(* A request occupies a slot. Its handler runs as a Monix task that yields   *)
(* at every call to a service or to Cassandra; pc says what it waits for.    *)
(* Handlers run on several threads, so steps of different requests           *)
(* interleave freely. Tokens are numbered in the order of their signing; a   *)
(* random UUID is never drawn twice.                                         *)
(****************************************************************************)
EXTENDS TokenClaims, Sequences, FiniteSets

CONSTANTS
  Requests,         \* slots for requests in progress
  Operations,       \* the endpoints in use; "rejected" for requests none accepts
  Admins,           \* tenants with the role ADMIN
  PurposedClaims,   \* bodies sent to /v2/create
  GenericClaims,    \* bodies sent to /v2/generic/create
  Keys,             \* public keys of devices
  EcdsaKeys,        \* those whose signatures have two encodings
  Stamps,           \* values of X-Ubirch-Timestamp, {} when it is missing
  Forged,           \* a JWT this service did not sign
  Garbage,          \* a text that is no JWT
  InitialGroups,    \* groups of tenants and devices at the start
  Regroupings,      \* sets of groups each tenant or device may change to
  InitialKeys,      \* registered key of a device at the start, or {}
  RegistrationTTL,  \* life of a registration token in seconds, 15 minutes
  HmacWindow,       \* tolerated age of a verification request, 120 seconds
  Lagging,          \* replicas may lag: replication factor 3, LOCAL_ONE
  MaxTokens,        \* bound on the tokens signed
  MaxTime           \* bound on the clock

Members == Tenants \cup Identities

ASSUME MembersAssumption == Tenants \cap Identities = {}
ASSUME AdminsAssumption == Admins \subseteq Tenants
ASSUME InputsAssumption == /\ PurposedClaims \subseteq TokenPurposedClaim
                           /\ GenericClaims \subseteq TokenClaim
                           /\ Stamps \subseteq SUBSET Int
ASSUME GroupsAssumption == /\ InitialGroups \in [Members -> SUBSET Groups]
                           /\ Regroupings \in [Members -> SUBSET SUBSET Groups]
ASSUME KeysAssumption == InitialKeys \in [Identities -> SUBSET Keys]
ASSUME BoundsAssumption ==
  /\ RegistrationTTL \in Nat /\ HmacWindow \in Nat
  /\ MaxTokens \in Nat /\ MaxTime \in Nat /\ Lagging \in BOOLEAN

VARIABLES
  now,        \* the clock, in seconds
  tokens,     \* every token ever signed, a sequence: its id is its position
  writes,     \* ids of inserts sent to Cassandra that have not landed
  rows,       \* ids in the table tokens
  erased,     \* ids whose row the owner has deleted
  unsettled,  \* ids whose last mutation has not reached every replica
  groups,     \* the groups of each tenant and device, kept by the console
  keys,       \* the key of each device, kept by the identity service
  held,       \* history: all groups a tenant or device ever was in
  used,       \* history: all keys a device ever had
  pc,         \* what each request waits for
  call,       \* the input of each request
  made,       \* the tokens each request has signed, in order
  outcome,    \* the result the task of a request has reached
  reply,      \* the reply the client of a request has received
  delivered   \* history: ids of tokens contained in some reply

vars == <<now, tokens, writes, rows, erased, unsettled, groups, keys, held,
          used, pc, call, made, outcome, reply, delivered>>

table == <<writes, rows, erased, unsettled>>
world == <<groups, keys, held, used>>
slots == <<pc, call, made, outcome, reply>>

------------------------------------------------------------------------------
(* Types                                                                    *)

(* The JWT, the columns owner_id and category of its row, and three ghosts:  *)
(* the token it was derived from, the users who asked for it, and whether    *)
(* its groups go back to a request that was checked against the tenant.      *)
Token == [jwt: JwtClaim, ownerId: Tenants, category: {"purposed_claim", "generic"},
          parent: SUBSET Nat, askedBy: SUBSET Tenants, vouched: BOOLEAN]

Presented == Nat \cup {Forged, Garbage}

(* A signature in one of two encodings, by one key.                         *)
Signature == [key: Keys, form: {"plain", "asn1"}]

Call ==
  [op: {"create"}, who: Tenants, claim: TokenPurposedClaim]
    \cup [op: {"generic"}, who: Tenants, claim: TokenClaim]
    \cup [op: {"list", "get"}, who: Tenants, id: Nat,
          owed: SUBSET Nat, gone: SUBSET Nat]
    \cup [op: {"delete"}, who: Tenants, id: Nat]
    \cup [op: {"verify"}, token: Presented, device: Identities,
          stamp: SUBSET Int, sealed: BOOLEAN, gone: SUBSET Nat]
    \cup [op: {"bootstrap"}, token: Presented, device: Identities,
          sig: Signature]
    \cup [op: {"none", "rejected"}]

NoCall == [op |-> "none"]

Statuses == {0, 200, 400, 401, 403, 500, 504}

Answer == [status: Statuses, ids: SUBSET Nat]

Failed(status) == [status |-> status, ids |-> {}]
NoAnswer == Failed(0)
Ok(ids) == [status |-> 200, ids |-> ids]

Stages == {"idle", "groups", "mint", "insert", "key", "keyAgain", "device",
           "read", "erase", "respond", "done"}

Ids == DOMAIN tokens

TypeOK ==
  /\ now \in Nat
  /\ tokens \in Seq(Token)
  /\ writes \subseteq Ids /\ rows \subseteq Ids /\ erased \subseteq Ids
  /\ unsettled \subseteq Ids /\ delivered \subseteq Ids
  /\ groups \in [Members -> SUBSET Groups]
  /\ held \in [Members -> SUBSET Groups]
  /\ keys \in [Identities -> SUBSET Keys]
  /\ used \in [Identities -> SUBSET Keys]
  /\ pc \in [Requests -> Stages]
  /\ call \in [Requests -> Call]
  /\ made \in [Requests -> Seq(Nat)]
  /\ outcome \in [Requests -> Answer]
  /\ reply \in [Requests -> Answer]

Init ==
  /\ now = 0
  /\ tokens = <<>>
  /\ writes = {} /\ rows = {} /\ erased = {} /\ unsettled = {}
  /\ groups = InitialGroups /\ held = InitialGroups
  /\ keys = InitialKeys /\ used = InitialKeys
  /\ pc = [r \in Requests |-> "idle"]
  /\ call = [r \in Requests |-> NoCall]
  /\ made = [r \in Requests |-> <<>>]
  /\ outcome = [r \in Requests |-> NoAnswer]
  /\ reply = [r \in Requests |-> NoAnswer]
  /\ delivered = {}

------------------------------------------------------------------------------
(* What a request needs to know                                             *)

Busy(r) == pc[r] \notin {"idle", "done"}

BootstrapScopes == <<"thing:create", "upp:anchor", "upp:verify", "thing:storedata">>

needed(c) == CASE c.op \in {"create", "generic"} -> 1
               [] c.op = "bootstrap" -> Len(BootstrapScopes)
               [] OTHER -> 0

(* The bound on tokens: every request accepted can sign what it needs.      *)
Room(c) ==
  LET open == UNION {{q} \X (Len(made[q]) + 1 .. needed(call[q])) :
                       q \in {x \in Requests : Busy(x)}}
  IN  Len(tokens) + Cardinality(open) + needed(c) <= MaxTokens

(* What a client can present: tokens some reply contained, and others that   *)
(* are not from here.                                                        *)
Presentable == delivered \cup {Forged, Garbage}

(* Mutant of decodingStatus: every failure to decode is an invalid claim.    *)
decodingStatusBroad(p) ==
  CASE p \in {Forged, Garbage} -> 400
    [] OTHER -> IF validAt(tokens[p].jwt, now) /\ tokens[p].jwt.content # Opaque
                THEN 0 ELSE 400

(* The status a presented token earns when it is decoded now, 0 if it reads. *)
(* Only a wrong signature is answered as an invalid claim.                   *)
decodingStatus(p) ==
  CASE p = Forged  -> 400
    [] p = Garbage -> 500
    [] OTHER -> IF validAt(tokens[p].jwt, now) /\ tokens[p].jwt.content # Opaque
                THEN 0 ELSE 500

(* Mutant of bootstrapClaim: the decoded expiration is not reset.            *)
bootstrapClaimKept(p, device, k) ==
  toTokenClaim([decoded(tokens[p].jwt) EXCEPT
                  !.targetIdentities = IF BootstrapScopes[k] = "upp:verify"
                                       THEN {Wildcard} ELSE {device},
                  !.scopes = {{BootstrapScopes[k]}}])

(* Mutant of bootstrapClaim: the groups are those of the device.             *)
bootstrapClaimDeviceGroups(p, device, k) ==
  [toTokenClaim([decoded(tokens[p].jwt) EXCEPT
                   !.targetIdentities = IF BootstrapScopes[k] = "upp:verify"
                                        THEN {Wildcard} ELSE {device},
                   !.targetGroups = groups[device],
                   !.scopes = {{BootstrapScopes[k]}}])
     EXCEPT !.expiration = IF k = 1 THEN {RegistrationTTL} ELSE {}]

(* The claim for the k-th token of a bootstrap of device from token p.       *)
bootstrapClaim(p, device, k) ==
  LET narrowed == [decoded(tokens[p].jwt) EXCEPT
                     !.targetIdentities = IF BootstrapScopes[k] = "upp:verify"
                                          THEN {Wildcard} ELSE {device},
                     !.scopes = {{BootstrapScopes[k]}}]
  IN  [toTokenClaim(narrowed) EXCEPT
         !.expiration = IF k = 1 THEN {RegistrationTTL} ELSE {}]

(* Mutant of mintStatus: the owner of the claim is not compared.             *)
mintStatusAnyOwner(r) ==
  IF call[r].op = "bootstrap" THEN decodingStatus(call[r].token) ELSE 0

(* The status with which the signing of the next token of r is refused.     *)
mintStatus(r) ==
  LET c == call[r] IN
  CASE c.op = "create"  -> IF c.who = c.claim.tenantId THEN 0 ELSE 400
    [] c.op = "generic" -> IF c.who = c.claim.ownerId THEN 0 ELSE 400
    [] OTHER -> decodingStatus(c.token)

nextToken(r) ==
  LET c == call[r]
      issue(tc, category, parent, askedBy, vouched) ==
        [jwt |-> encode(tc, now), ownerId |-> tc.ownerId, category |-> category,
         parent |-> parent, askedBy |-> askedBy, vouched |-> vouched]
  IN  CASE c.op = "create" ->
             issue(toTokenClaim(c.claim), "purposed_claim", {}, {c.who}, TRUE)
        [] c.op = "generic" -> issue(c.claim, "generic", {}, {c.who}, FALSE)
        [] OTHER ->
             issue(bootstrapClaim(c.token, c.device, Len(made[r]) + 1),
                   "purposed_claim", {c.token}, tokens[c.token].askedBy,
                   tokens[c.token].vouched)

(* Rows a query of the tokens table selects.                                *)
byOwnerId(owner) == {i \in Ids : tokens[i].ownerId = owner}

(* Mutant of byOwnerIdAndId: the query filters by id alone.                  *)
byIdAlone(owner, id) == {i \in Ids : i = id}

byOwnerIdAndId(owner, id) == {i \in byOwnerId(owner) : i = id}

selected(c) == IF c.op = "list" THEN byOwnerId(c.who) ELSE byOwnerIdAndId(c.who, c.id)

(* The HMAC check of a verification request.                                *)
hmacVerified(c) ==
  c.sealed /\ \A t \in c.stamp : now - t < HmacWindow /\ t - now < HmacWindow

(* The status of a verification request before groups are consulted, 0 when  *)
(* they are to be asked for.                                                 *)
verifyStatus(c) ==
  IF c.stamp = {} \/ ~hmacVerified(c) THEN 400
  ELSE IF decodingStatus(c.token) # 0 THEN decodingStatus(c.token)
  ELSE LET claim == decoded(tokens[c.token].jwt) IN
       IF ~localVerify(claim) THEN 400
       ELSE IF hasMaybeGroups(claim) THEN 0 ELSE 200

(* Mutant of attempt: a readable signature is taken for a good one.          *)
attemptReadable(registered, sig, raw) ==
  IF registered = {} THEN "wrong"
  ELSE LET expected == IF registered \subseteq EcdsaKeys /\ ~raw THEN "asn1" ELSE "plain"
       IN  IF sig.form # expected THEN "unreadable" ELSE "valid"

(* One attempt to check the signature of a bootstrap request with the        *)
(* registered key: a plain encoding is expected of an ECDSA key at first, an *)
(* ASN.1 encoding at the second attempt.                                     *)
attempt(registered, sig, raw) ==
  IF registered = {} THEN "wrong"
  ELSE LET expected == IF registered \subseteq EcdsaKeys /\ ~raw THEN "asn1" ELSE "plain"
       IN  IF sig.form # expected THEN "unreadable"
           ELSE IF sig.key \in registered THEN "valid" ELSE "wrong"

------------------------------------------------------------------------------
(* Requests arrive                                                          *)

(* A free slot takes the call c and continues at stage, or, when out is an   *)
(* answer, has its result already.                                           *)
Begin(r, c, stage, out) ==
  /\ ~Busy(r)
  /\ pc' = [pc EXCEPT ![r] = stage]
  /\ call' = [call EXCEPT ![r] = c]
  /\ made' = [made EXCEPT ![r] = <<>>]
  /\ outcome' = [outcome EXCEPT ![r] = out]
  /\ reply' = [reply EXCEPT ![r] = NoAnswer]
  /\ UNCHANGED <<now, tokens, table, world, delivered>>

Refuse(r, c, status) == Begin(r, c, "respond", Failed(status))
Proceed(r, c, stage) == Begin(r, c, stage, NoAnswer)

(* Mutant of Create: no question to the console about groups.               *)
CreateUnchecked(r) ==
  \E who \in Tenants, claim \in PurposedClaims :
    LET c == [op |-> "create", who |-> who, claim |-> claim] IN
    /\ "create" \in Operations
    /\ \/ ~localVerify(claim) /\ Refuse(r, c, 400)
       \/ localVerify(claim) /\ Room(c) /\ Proceed(r, c, "mint")

Create(r) ==
  \E who \in Tenants, claim \in PurposedClaims :
    LET c == [op |-> "create", who |-> who, claim |-> claim] IN
    /\ "create" \in Operations
    /\ \/ ~localVerify(claim) /\ Refuse(r, c, 400)
       \/ localVerify(claim) /\ Room(c)
          /\ Proceed(r, c, IF hasMaybeGroups(claim) THEN "groups" ELSE "mint")

CreateGeneric(r) ==
  \E who \in Admins, claim \in GenericClaims :
    LET c == [op |-> "generic", who |-> who, claim |-> claim] IN
    /\ "generic" \in Operations /\ Room(c)
    /\ Proceed(r, c, "mint")

(* History kept with a query: the caller's rows every replica already holds, *)
(* and the deletions every replica already knows.                            *)
Query(r, op, who, id) ==
  /\ op \in Operations
  /\ Proceed(r, [op |-> op, who |-> who, id |-> id,
                 owed |-> (rows \ unsettled) \cap byOwnerId(who),
                 gone |-> erased \ unsettled], "read")

List(r) == \E who \in Tenants : Query(r, "list", who, 0)
Get(r) == \E who \in Tenants, id \in Ids : Query(r, "get", who, id)

Delete(r) ==
  \E who \in Tenants, id \in Ids :
    /\ "delete" \in Operations
    /\ Proceed(r, [op |-> "delete", who |-> who, id |-> id], "erase")

Verify(r) ==
  \E p \in Presentable, d \in Identities, t \in Stamps, sealed \in BOOLEAN :
    LET c == [op |-> "verify", token |-> p, device |-> d, stamp |-> t, sealed |-> sealed,
              gone |-> erased]
        status == verifyStatus(c)
    IN  /\ "verify" \in Operations
        /\ \/ status = 0 /\ Proceed(r, c, "device")
           \/ status # 0 /\ Refuse(r, c, status)

Bootstrap(r) ==
  \E p \in Presentable, d \in Identities, sig \in Signature :
    LET c == [op |-> "bootstrap", token |-> p, device |-> d, sig |-> sig] IN
    /\ "bootstrap" \in Operations /\ Room(c)
    /\ Proceed(r, c, "key")

(* No bearer token, another scheme, or a user who may not call: the servlet  *)
(* halts before any task is started.                                         *)
Unauthorized(r) ==
  \E status \in {401, 400, 403} :
    /\ "rejected" \in Operations
    /\ Operations \cap {"create", "generic", "list", "get", "delete"} # {}
    /\ ~Busy(r)
    /\ pc' = [pc EXCEPT ![r] = "done"]
    /\ call' = [call EXCEPT ![r] = [op |-> "rejected"]]
    /\ made' = [made EXCEPT ![r] = <<>>]
    /\ outcome' = [outcome EXCEPT ![r] = Failed(status)]
    /\ reply' = [reply EXCEPT ![r] = Failed(status)]
    /\ UNCHANGED <<now, tokens, table, world, delivered>>

(* A body, id or header that cannot be read. Where the body is read inside   *)
(* the handler that maps errors, the failure becomes an internal error.      *)
malformedStatuses(op) ==
  CASE op \in {"create", "generic"} -> {400}
    [] op \in {"get", "delete"} -> {500}
    [] op \in {"verify", "bootstrap"} -> {400, 500}
    [] OTHER -> {}

Malformed(r) ==
  \E op \in Operations : \E status \in malformedStatuses(op) :
    /\ "rejected" \in Operations
    /\ Refuse(r, [op |-> "rejected"], status)

------------------------------------------------------------------------------
(* Requests continue                                                        *)

(* The task of r goes on to stage, or ends with an answer.                  *)
Goto(r, stage) ==
  /\ pc' = [pc EXCEPT ![r] = stage]
  /\ UNCHANGED <<call, made, outcome, reply>>

Finish(r, out) ==
  /\ pc' = [pc EXCEPT ![r] = "respond"]
  /\ outcome' = [outcome EXCEPT ![r] = out]
  /\ UNCHANGED <<call, made, reply>>

Untouched == UNCHANGED <<now, tokens, table, world, delivered>>

(* The console answers with the groups of the tenant.                       *)
TenantGroups(r) ==
  /\ pc[r] = "groups"
  /\ LET claim == call[r].claim IN
     IF verifyGroups(claim.targetGroups, groups[claim.tenantId])
       THEN Goto(r, "mint")
       ELSE Finish(r, Failed(400))
  /\ Untouched

(* The console answers with the groups of the device.                       *)
DeviceGroups(r) ==
  /\ pc[r] = "device"
  /\ LET claim == decoded(tokens[call[r].token].jwt) IN
     Finish(r, IF verifyGroups(claim.targetGroups, groups[call[r].device])
               THEN Ok({}) ELSE Failed(400))
  /\ Untouched

(* The console is unreachable (500) or answers something unreadable (400).  *)
GroupsFail(r) ==
  /\ pc[r] \in {"groups", "device"}
  /\ \E status \in {400, 500} : Finish(r, Failed(status))
  /\ Untouched

(* Mutant of IdentityKey: an unreadable signature is retried for ever.       *)
IdentityKeyLoop(r) ==
  LET c == call[r]
      result == attempt(keys[c.device], c.sig, TRUE)
  IN  /\ pc[r] \in {"key", "keyAgain"}
      /\ CASE result = "valid" -> Goto(r, "mint")
           [] result = "unreadable" -> Goto(r, IF pc[r] = "key" THEN "keyAgain" ELSE "key")
           [] OTHER -> Finish(r, Failed(400))
      /\ Untouched

(* The identity service answers with the key of the device; an unreadable    *)
(* signature makes the check ask for the key again and retry.                *)
IdentityKey(r) ==
  LET c == call[r]
      result == attempt(keys[c.device], c.sig, pc[r] = "key")
  IN  /\ pc[r] \in {"key", "keyAgain"}
      /\ CASE result = "valid" -> Goto(r, "mint")
           [] result = "unreadable" /\ pc[r] = "key" -> Goto(r, "keyAgain")
           [] OTHER -> Finish(r, Failed(400))
      /\ Untouched

(* Any failure around the key is reported as an invalid claim.              *)
IdentityKeyFails(r) ==
  /\ pc[r] \in {"key", "keyAgain"}
  /\ Finish(r, Failed(400))
  /\ Untouched

MintRefused(r) ==
  /\ pc[r] = "mint" /\ mintStatus(r) # 0
  /\ Finish(r, Failed(mintStatus(r)))
  /\ Untouched

(* Signing fails after all. To the handlers this is an invalid claim, also when *)
(* earlier tokens of the same bootstrap are signed and stored.               *)
MintFails(r) ==
  /\ pc[r] = "mint" /\ mintStatus(r) = 0
  /\ Finish(r, Failed(400))
  /\ Untouched

(* Mutant of Mint: the row is written under another id than the token's.     *)
MintOtherId(r) ==
  LET id == Len(tokens) + 1 IN
  /\ pc[r] = "mint" /\ mintStatus(r) = 0
  /\ tokens' = Append(tokens, nextToken(r))
  /\ writes' = writes \cup {id + 1}
  /\ made' = [made EXCEPT ![r] = Append(@, id)]
  /\ pc' = [pc EXCEPT ![r] = "insert"]
  /\ UNCHANGED <<now, rows, erased, unsettled, world, call, outcome, reply, delivered>>

(* The next token is signed and its row sent to Cassandra.                  *)
Mint(r) ==
  LET id == Len(tokens) + 1 IN
  /\ pc[r] = "mint" /\ mintStatus(r) = 0
  /\ tokens' = Append(tokens, nextToken(r))
  /\ writes' = writes \cup {id}
  /\ made' = [made EXCEPT ![r] = Append(@, id)]
  /\ pc' = [pc EXCEPT ![r] = "insert"]
  /\ UNCHANGED <<now, rows, erased, unsettled, world, call, outcome, reply, delivered>>

(* Mutant of InsertDone: the insert is not waited for.                      *)
InsertForgotten(r) ==
  /\ pc[r] = "insert"
  /\ IF Len(made[r]) < needed(call[r])
       THEN Goto(r, "mint")
       ELSE Finish(r, Ok({made[r][k] : k \in DOMAIN made[r]}))
  /\ Untouched

(* Mutant of InsertDone: one token too few.                                 *)
InsertDoneEarly(r) ==
  /\ pc[r] = "insert" /\ made[r][Len(made[r])] \in rows \cup erased
  /\ IF Len(made[r]) + 1 < needed(call[r])
       THEN Goto(r, "mint")
       ELSE Finish(r, Ok({made[r][k] : k \in DOMAIN made[r]}))
  /\ Untouched

(* Cassandra acknowledges an insert that landed.                            *)
InsertDone(r) ==
  /\ pc[r] = "insert" /\ made[r][Len(made[r])] \in rows \cup erased
  /\ IF Len(made[r]) < needed(call[r])
       THEN Goto(r, "mint")
       ELSE Finish(r, Ok({made[r][k] : k \in DOMAIN made[r]}))
  /\ Untouched

(* Mutant of InsertFails: the failure is logged and forgotten.              *)
InsertFailureLogged(r) ==
  /\ pc[r] = "insert"
  /\ Finish(r, Ok({made[r][k] : k \in DOMAIN made[r]}))
  /\ Untouched

(* The insert is reported as failed, whether or not it lands.               *)
InsertFails(r) ==
  /\ pc[r] = "insert"
  /\ Finish(r, Failed(500))
  /\ Untouched

(* A query is answered by one replica: of the selected ids it shows every    *)
(* settled row, and any of the unsettled ones, deleted ones included.        *)
RowsRead(r) ==
  LET possible == rows \cup (erased \cap unsettled) IN
  /\ pc[r] = "read"
  /\ \E seen \in SUBSET (possible \cap selected(call[r])) :
       /\ (rows \ unsettled) \cap selected(call[r]) \subseteq seen
       /\ Finish(r, Ok(seen))
  /\ Untouched

(* Mutant of deleteQ: the statement names the id alone.                     *)
deleteByIdAlone(owner, id) == (rows \cup writes) \cap {id}

(* The delete statement names owner and id; it also shadows an insert that   *)
(* has not landed. It succeeds whether or not such a row exists.             *)
deleteQ(owner, id) == (rows \cup writes) \cap byOwnerIdAndId(owner, id)

RowDeleted(r) ==
  LET gone == deleteQ(call[r].who, call[r].id) IN
  /\ pc[r] = "erase"
  /\ rows' = rows \ gone /\ writes' = writes \ gone
  /\ erased' = erased \cup gone
  /\ unsettled' = IF Lagging THEN unsettled \cup gone ELSE unsettled
  /\ \E out \in {Ok({}), Failed(500)} : Finish(r, out)
  /\ UNCHANGED <<now, tokens, world, delivered>>

StorageFails(r) ==
  /\ pc[r] \in {"read", "erase"}
  /\ Finish(r, Failed(500))
  /\ Untouched

(* The result reaches the client unless the request has timed out before.   *)
Respond(r) ==
  /\ pc[r] = "respond"
  /\ pc' = [pc EXCEPT ![r] = "done"]
  /\ IF reply[r] = NoAnswer
       THEN /\ reply' = [reply EXCEPT ![r] = outcome[r]]
            /\ delivered' = delivered \cup outcome[r].ids
       ELSE UNCHANGED <<reply, delivered>>
  /\ UNCHANGED <<now, tokens, table, world, call, made, outcome>>

(* A task runs on the thread of the servlet until it waits for Cassandra or   *)
(* has ended. Only then does the servlet start the asynchronous context, and  *)
(* its timer: the calls over HTTP are not timed.                             *)
Timed(r) == pc[r] \in {"insert", "read", "erase", "respond"} \/ made[r] # <<>>

(* Mutant of Timeout: a request waiting for Cassandra is not timed.          *)
TimeoutWhenIdle(r) ==
  /\ pc[r] = "respond" /\ reply[r] = NoAnswer
  /\ reply' = [reply EXCEPT ![r] = Failed(504)]
  /\ UNCHANGED <<now, tokens, table, world, pc, call, made, outcome, delivered>>

(* The servlet container gives up waiting; the task goes on.                *)
Timeout(r) ==
  /\ Busy(r) /\ Timed(r) /\ reply[r] = NoAnswer
  /\ reply' = [reply EXCEPT ![r] = Failed(504)]
  /\ UNCHANGED <<now, tokens, table, world, pc, call, made, outcome, delivered>>

------------------------------------------------------------------------------
(* The surroundings                                                         *)

(* A write reaches a replica, never does, or the last replica.              *)
WriteLands(i) ==
  /\ i \in writes
  /\ writes' = writes \ {i} /\ rows' = rows \cup {i}
  /\ unsettled' = IF Lagging THEN unsettled \cup {i} ELSE unsettled
  /\ UNCHANGED <<now, tokens, erased, world, slots, delivered>>

WriteLost(i) ==
  /\ i \in writes
  /\ writes' = writes \ {i}
  /\ UNCHANGED <<now, tokens, rows, erased, unsettled, world, slots, delivered>>

Settle(i) ==
  /\ i \in unsettled
  /\ unsettled' = unsettled \ {i}
  /\ UNCHANGED <<now, tokens, writes, rows, erased, world, slots, delivered>>

Regroup(x, g) ==
  /\ groups' = [groups EXCEPT ![x] = g]
  /\ held' = [held EXCEPT ![x] = @ \cup g]
  /\ UNCHANGED <<now, tokens, table, keys, used, slots, delivered>>

Register(d, k) ==
  /\ keys' = [keys EXCEPT ![d] = {k}]
  /\ used' = [used EXCEPT ![d] = @ \cup {k}]
  /\ UNCHANGED <<now, tokens, table, groups, held, slots, delivered>>

Tick ==
  /\ now < MaxTime
  /\ now' = now + 1
  /\ UNCHANGED <<tokens, table, world, slots, delivered>>

(* The process dies and is started again: every request in it is gone.      *)
Crash ==
  /\ \E r \in Requests : Busy(r)
  /\ pc' = [r \in Requests |-> "idle"]
  /\ call' = [r \in Requests |-> NoCall]
  /\ made' = [r \in Requests |-> <<>>]
  /\ outcome' = [r \in Requests |-> NoAnswer]
  /\ reply' = [r \in Requests |-> NoAnswer]
  /\ UNCHANGED <<now, tokens, table, world, delivered>>

Arrive(r) ==
  \/ Create(r) \/ CreateGeneric(r)
  \/ List(r) \/ Get(r) \/ Delete(r) \/ Verify(r) \/ Bootstrap(r)
  \/ Unauthorized(r) \/ Malformed(r)

Step(r) ==
  \/ TenantGroups(r) \/ DeviceGroups(r) \/ GroupsFail(r)
  \/ IdentityKey(r) \/ IdentityKeyFails(r)
  \/ MintRefused(r) \/ MintFails(r) \/ Mint(r) \/ InsertDone(r) \/ InsertFails(r)
  \/ RowsRead(r) \/ RowDeleted(r) \/ StorageFails(r)
  \/ Respond(r)

Environment ==
  \/ \E i \in Ids : WriteLands(i) \/ WriteLost(i) \/ Settle(i)
  \/ \E x \in Members : \E g \in Regroupings[x] : Regroup(x, g)
  \/ \E d \in Identities, k \in Keys : Register(d, k)
  \/ Tick
  \/ Crash

Next ==
  \/ \E r \in Requests : Arrive(r) \/ Step(r) \/ Timeout(r)
  \/ Environment

Spec == Init /\ [][Next]_vars

(* The services asked over HTTP, on the thread of the servlet, answer or fail. *)
(* Of Cassandra and the pool nothing is promised: only the timer runs.       *)
TimerSpec ==
  Spec /\ \A r \in Requests : WF_vars(Timeout(r)) /\ WF_vars(~Timed(r) /\ Step(r))

------------------------------------------------------------------------------
(* Safety                                                                   *)

claimOf(i) == decoded(tokens[i].jwt)
IsPurposed(i) == tokens[i].jwt.content # Opaque
NamesGroups(i) == IsPurposed(i) /\ hasMaybeGroups(claimOf(i))

(* A token is given to a client only once its row has reached Cassandra, and *)
(* from then on the row is there until its owner deletes it: neither a lost  *)
(* write nor a crash nor a timeout leaves a client with an unknown token.    *)
DeliveredTokensAreKept == delivered \subseteq rows \cup erased

(* A row disappears only by a delete request of the token's owner that names *)
(* its id; a row that a late insert would bring back stays deleted.          *)
OnlyOwnerErases ==
  [][/\ rows \ rows' \subseteq erased' \ erased
     /\ erased' \cap rows' = {}
     /\ \A i \in erased' \ erased : \E r \in Requests :
          /\ pc[r] = "erase" /\ call[r].op = "delete"
          /\ call[r].id = i /\ call[r].who = tokens[i].ownerId]_vars

(* Every token that goes back to a purposed create request and names groups, *)
(* also one derived from it by a bootstrap long after, names groups that its *)
(* tenant has been a member of, in the sense of the configured check.        *)
VouchedGroups ==
  \A i \in Ids : tokens[i].vouched /\ NamesGroups(i) =>
    verifyGroups(claimOf(i).targetGroups, held[claimOf(i).tenantId])

(* Such a token belongs to, and speaks for, the user who asked for it.       *)
VouchedOwners ==
  \A i \in Ids : tokens[i].vouched =>
    tokens[i].askedBy = {tokens[i].ownerId} /\ tokens[i].jwt.sub = tokens[i].ownerId

(* A token derived by a bootstrap was signed while the token it came from    *)
(* was valid, keeps its tenant, purpose, groups and origins, and has one     *)
(* scope; only the registration token expires, and it does so in time. The    *)
(* model reads the clock once for decoding, iat and exp; the code reads it for  *)
(* each, so that these bounds hold up to the seconds that pass in between.     *)
DerivedTokens ==
  \A i \in Ids : \A p \in tokens[i].parent :
    LET new == tokens[i].jwt
        old == tokens[p].jwt
    IN  /\ validAt(old, new.iat)
        /\ new.sub = old.sub /\ new.content.pur = old.content.pur
        /\ new.content.tgp = old.content.tgp /\ new.content.ord = old.content.ord
        /\ \E k \in DOMAIN BootstrapScopes :
             /\ new.content.scp = {{BootstrapScopes[k]}}
             /\ new.exp = IF k = 1 THEN {new.iat + RegistrationTTL} ELSE {}

(* A bootstrap signs tokens only for a device one of whose registered keys   *)
(* made the signature, whichever of the two attempts succeeded.              *)
BootstrapSigned ==
  \A r \in Requests : call[r].op = "bootstrap" /\ made[r] # <<>> =>
    call[r].sig.key \in used[call[r].device]

(* A bootstrap answered 200 hands out the complete set, one token for each   *)
(* scope and in their order, all of them stored and of one tenant.           *)
BootstrapComplete ==
  \A r \in Requests : call[r].op = "bootstrap" /\ reply[r].status = 200 =>
    /\ Len(made[r]) = Len(BootstrapScopes)
    /\ reply[r].ids = {made[r][k] : k \in DOMAIN made[r]}
    /\ reply[r].ids \subseteq rows \cup erased
    /\ \A k \in DOMAIN made[r] :
         /\ tokens[made[r][k]].jwt.content.scp = {{BootstrapScopes[k]}}
         /\ tokens[made[r][k]].ownerId = tokens[call[r].token].jwt.sub

(* A refusal (400, 401, 403) leaves no token behind, with one exception: when  *)
(* signing fails in the midst of a bootstrap, the tokens signed before stay.   *)
(* Then the set is not complete, the presented token still reads, and every    *)
(* one of them is recorded, so that its owner finds it. A token that expires    *)
(* and an insert that fails half-way are no refusals.                        *)
RefusedLeavesRecorded ==
  [][\A r \in Requests :
       /\ pc[r] # "respond" /\ pc'[r] = "respond"
       /\ outcome'[r].status \in {400, 401, 403} /\ made'[r] # <<>>
       => /\ call[r].op = "bootstrap" /\ validAt(tokens[call[r].token].jwt, now)
          /\ Len(made[r]) < Len(BootstrapScopes)
          /\ \A k \in DOMAIN made[r] : made[r][k] \in rows \cup erased]_vars

(* A query shows tokens of the caller only, every selected one that had      *)
(* settled before the request arrived and is not deleted, and none whose     *)
(* deletion had settled by then.                                             *)
QueriesAccurate ==
  \A r \in Requests : call[r].op \in {"list", "get"} /\ reply[r].status = 200 =>
    /\ (call[r].owed \cap selected(call[r])) \ erased \subseteq reply[r].ids
    /\ reply[r].ids \subseteq byOwnerId(call[r].who) \ call[r].gone

(* With the strict check, a device for which a token naming groups is        *)
(* verified has been in a group, named by the token, of the token's tenant:  *)
(* the check at creation and the check at verification fit together.         *)
VerifiedSharesGroup ==
  \A r \in Requests : call[r].op = "verify" /\ reply[r].status = 200 =>
    LET p == call[r].token IN
    tokens[p].vouched /\ NamesGroups(p) =>
      \E x \in claimOf(p).targetGroups :
        /\ x \in offered(claimOf(p).targetGroups, held[claimOf(p).tenantId])
        /\ x \in offered(claimOf(p).targetGroups, held[call[r].device])

------------------------------------------------------------------------------
(* Liveness                                                                 *)

(* Tasks make progress: the services and Cassandra answer or fail, and the   *)
(* scheduler runs what is ready. Timeouts, writes and the rest are not fair. *)
TasksProgress == \A r \in Requests : WF_vars(Step(r))

(* Every task ends when tasks make progress, also one that has to retry a    *)
(* signature or whose insert is never acknowledged.                          *)
TasksEnd == TasksProgress => \A r \in Requests : Busy(r) ~> ~Busy(r)

(* Every client is answered even if Cassandra never answers the task, unless *)
(* the process dies.                                                         *)
ClientsAreAnswered ==
  \A r \in Requests : Busy(r) ~> (reply[r] # NoAnswer \/ pc[r] = "idle")

------------------------------------------------------------------------------
(* Claims of the documentation that the code does not keep                  *)

(* The README calls external verification useful for revocation: a token     *)
(* deleted before the request arrived would not be verified.                 *)
RevokedIsNotVerified ==
  \A r \in Requests : call[r].op = "verify" /\ reply[r].status = 200 =>
    call[r].token \notin call[r].gone

(* The list endpoint is summarised as querying the currently valid tokens.   *)
ListedAreValid ==
  [][\A r \in Requests : pc[r] = "read" /\ call[r].op = "list" /\ pc'[r] = "respond" =>
       \A i \in outcome'[r].ids : validAt(tokens[i].jwt, now)]_vars

(* The README promises 400 for data that cannot be parsed.                  *)
MalformedIsBadRequest ==
  \A r \in Requests : call[r].op = "rejected" => reply[r].status # 500
=============================================================================
