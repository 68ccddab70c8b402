-------------------------- MODULE VerificationExchange --------------------------
(****************************************************************************)
(* A token on its way: it is signed by the token manager, read by a service   *)
(* that uses the SDK, and verified by the manager on the service's request.   *)
(* Between the two are a network that is slow or breaks, clocks that differ,   *)
(* and a console that moves devices and tenants between groups.               *)
(*                                                                          *)
(* TokenService has the creation and the verification of tokens step by step, *)
(* with everything that runs beside them. Here a creation is one step, and    *)
(* the list of claimed groups is kept as the request gives it: a bag, as the   *)
(* comparison sorts what it compares.                                        *)
(****************************************************************************)
EXTENDS TokenClaims, FiniteSets, Sequences, Bags

CONSTANTS
  Services,          \* services that use the SDK
  ServiceScopes,     \* token.scopes, the scopes each service accepts
  ServiceAudiences,  \* token.audience, the audiences each accepts
  Pointers,          \* first parts of secrets
  PointerOf,         \* that of the secret of each service
  SecretPools,       \* what the manager may have read: secrets by pointer
  Skews,             \* by how much the clock of a service may be ahead
  Manager,           \* the issuer of purposed tokens, token.issuer at a service
  Issuers,           \* texts administrators put as issuer of generic tokens
  Bodies,            \* requests for purposed tokens
  GenericTokens,     \* tokens of administrators
  Forged, Garbage,   \* texts that are no token of the manager
  InitialGroups,     \* groups of tenants and devices at the start
  Regroupings,       \* sets of groups each may change to
  HmacWindow,        \* 120 seconds
  MaxTokens,         \* bound on the tokens signed
  MaxTime            \* bound on the clock

Members == Tenants \cup Identities

Audience == {"niomon", "verify", "console", "data", "token"}

ASSUME ServicesAssumption ==
  /\ ServiceScopes \in [Services -> SUBSET Scope]
  /\ ServiceAudiences \in [Services -> SUBSET Audience]
  /\ PointerOf \in [Services -> Pointers]
  /\ SecretPools \subseteq [Pointers -> SUBSET Services]
  /\ Skews \subseteq Int

ASSUME TokensAssumption ==
  /\ Manager \in Issuers
  /\ {Forged, Garbage, Blank} \cap Nat = {}
  /\ \A b \in Bodies : /\ b.claim \in TokenPurposedClaim /\ IsABag(b.groups)
                       /\ BagToSet(b.groups) = b.claim.targetGroups
  /\ GenericTokens \subseteq [claim: TokenClaim, issuer: Issuers, audience: SUBSET Audience]

ASSUME ConsoleAssumption ==
  /\ IsFiniteSet(Groups)
  /\ InitialGroups \in [Members -> SUBSET Groups]
  /\ Regroupings \in [Members -> SUBSET SUBSET Groups]

ASSUME LimitsAssumption == HmacWindow \in Nat /\ MaxTokens \in Nat /\ MaxTime \in Nat

VARIABLES
  now,      \* the clock of the manager, in seconds
  skew,     \* by how much the clock of each service is ahead of it
  secrets,  \* whose secret the manager keeps under each pointer
  tokens,   \* the tokens signed, a sequence
  groups,   \* the groups of each tenant and device, kept by the console
  pc,       \* where the call of externalStateVerify of each service is
  call,     \* its input, and what was the case since it began
  reply,    \* the reply on its way back
  result,   \* what the last call of each service has returned
  verdict   \* what decodeAndVerify has last told each service

vars == <<now, skew, secrets, tokens, groups, pc, call, reply, result, verdict>>

Presented == Nat \cup {Forged, Garbage, Blank}
Presentable == DOMAIN tokens \cup {Forged, Garbage, Blank}

(* A claim of one audience is written as a text, of several as a list. asked  *)
(* is the request for a purposed token.                                      *)
Token == [jwt: JwtClaim, iss: Issuers,
          aud: [text: SUBSET Audience, list: SUBSET Audience],
          asked: SUBSET TokenPurposedClaim]

(* since: when the call began; until: when it ended; seen: history, the sets   *)
(* of groups the device was in meanwhile; mishap: history, the console failed. *)
Call == [token: Presented, device: Identities, stamp: Int, since: Nat,
         until: SUBSET Nat, seen: SUBSET SUBSET Groups, mishap: BOOLEAN]

NoCall == [token |-> Blank]

(* A reply of the manager, or a page of a gateway, which is no JSON.           *)
Reply == [json: BOOLEAN, status: {0, 200, 400, 500, 504}]

Answer(status) == [json |-> TRUE, status |-> status]
GatewayPage == [json |-> FALSE, status |-> 504]
NoReply == Answer(0)

Verdict == [token: Presented, device: Identities, at: Int, accepted: BOOLEAN,
            identity: BOOLEAN]

NoVerdict == [accepted |-> FALSE]

TypeOK ==
  /\ now \in Nat
  /\ skew \in [Services -> Int]
  /\ secrets \in [Pointers -> SUBSET Services]
  /\ tokens \in Seq(Token)
  /\ groups \in [Members -> SUBSET Groups]
  /\ pc \in [Services -> {"idle", "sent", "device", "replied", "hanging"}]
  /\ call \in [Services -> Call \cup {NoCall}]
  /\ reply \in [Services -> Reply]
  /\ result \in [Services -> {"none", "true", "false", "error"}]
  /\ verdict \in [Services -> Verdict \cup {NoVerdict}]

Init ==
  /\ now = 0
  /\ skew \in [Services -> Skews]
  /\ secrets \in SecretPools
  /\ tokens = <<>>
  /\ groups = InitialGroups
  /\ pc = [c \in Services |-> "idle"]
  /\ call = [c \in Services |-> NoCall]
  /\ reply = [c \in Services |-> NoReply]
  /\ result = [c \in Services |-> "none"]
  /\ verdict = [c \in Services |-> NoVerdict]

clock(c) == now + skew[c]

------------------------------------------------------------------------------
(* The manager signs                                                        *)

(* Mutant of verifyGroupsListed: the strict check does not intersect, so that *)
(* all current groups have to be claimed.                                    *)
verifyGroupsExact(claimed, current) ==
  LET texts == BagToSet(claimed)
      found(x) == {g \in current : x = IF texts \subseteq Groups THEN g ELSE NameOf[g]}
  IN  IF StrictGroupCheck
        THEN /\ \A x \in texts : claimed[x] = Cardinality(found(x))
             /\ current = UNION {found(x) : x \in texts}
        ELSE \E x \in texts : found(x) # {}

(* The comparison of a list of claimed texts with the list of groups the      *)
(* console answers: the intersection of two lists keeps an element as often   *)
(* as it is in both, and the strict check wants back all that is claimed.     *)
verifyGroupsListed(claimed, current) ==
  LET texts == BagToSet(claimed)
      offers(x) == Cardinality({g \in current : x = IF texts \subseteq Groups
                                                      THEN g ELSE NameOf[g]})
  IN  /\ current # {}
      /\ IF StrictGroupCheck THEN \A x \in texts : claimed[x] <= offers(x)
                             ELSE \E x \in texts : offers(x) > 0

audienceOf(s) ==
  CASE s = "upp:anchor" -> "niomon"
    [] s = "upp:verify" -> "verify"
    [] s \in {"thing:create", "thing:getinfo", "user:getinfo"} -> "console"
    [] s = "thing:storedata" -> "data"
    [] s = "thing:bootstrap" -> "token"

written(audience) ==
  IF Cardinality(audience) = 1 THEN [text |-> audience, list |-> {}]
                               ELSE [text |-> {}, list |-> audience]

signed(tc, issuer, audience, asked) ==
  [jwt |-> encode(tc, now), iss |-> issuer, aud |-> written(audience), asked |-> asked]

Sign(token) ==
  /\ Len(tokens) < MaxTokens
  /\ tokens' = Append(tokens, token)
  /\ UNCHANGED <<now, skew, secrets, groups, pc, call, reply, result, verdict>>

Create ==
  \E b \in Bodies :
    LET c == b.claim IN
    /\ localVerify(c)
    /\ hasMaybeGroups(c) => verifyGroupsListed(b.groups, groups[c.tenantId])
    /\ Sign(signed(toTokenClaim(c), Manager, {audienceOf(s) : s \in UNION c.scopes}, {c}))

CreateGeneric ==
  \E g \in GenericTokens : Sign(signed(g.claim, g.issuer, g.audience, {}))

------------------------------------------------------------------------------
(* A service reads a token                                                  *)

genuine(p) == p \in DOMAIN tokens
content(p) == tokens[p].jwt.content
purposed(p) == genuine(p) /\ content(p) # Opaque

(* Mutant of audiences: only a list is read.                                 *)
audiencesListed(p) == tokens[p].aud.list

audiences(p) ==
  IF tokens[p].aud.list = {} THEN tokens[p].aud.text ELSE tokens[p].aud.list

scopes(p) == IF purposed(p) THEN UNION content(p).scp ELSE {}

(* getClaims and decodeAndVerify: the token reads at the clock of the service *)
(* and its standard claims are those configured.                             *)
decodeAndVerify(c, p, time) ==
  /\ genuine(p) /\ validAt(tokens[p].jwt, time)
  /\ tokens[p].iss = Manager
  /\ audiences(p) \cap ServiceAudiences[c] # {}
  /\ scopes(p) \cap ServiceScopes[c] # {}
  /\ content(p).pur > 0

(* Target identities are UUIDs as soon as one of them is, and only then.      *)
validateIdentity(p, d) ==
  LET ids == content(p).tid \cap Identities IN
  IF ids = {} THEN Wildcard \in content(p).tid ELSE d \in ids

(* The domains of a purposed token all have to be the origin of the call.     *)
validateOrigin(p, origin) == \A x \in content(p).ord : {x} = origin

(* The thread of a service reads a token or asks about one, and keeps what it *)
(* has been told until it does the next.                                     *)
Read(c, p, d) ==
  LET accepted == decodeAndVerify(c, p, clock(c)) IN
  /\ pc[c] = "idle"
  /\ verdict' = [verdict EXCEPT ![c] =
       [token |-> p, device |-> d, at |-> clock(c), accepted |-> accepted,
        identity |-> accepted /\ validateIdentity(p, d)]]
  /\ call' = [call EXCEPT ![c] = NoCall]
  /\ reply' = [reply EXCEPT ![c] = NoReply]
  /\ result' = [result EXCEPT ![c] = "none"]
  /\ UNCHANGED <<now, skew, secrets, tokens, groups, pc>>

------------------------------------------------------------------------------
(* A service asks the manager                                               *)

(* externalStateVerify: the request is stamped, signed and sent.              *)
Ask(c, p, d) ==
  /\ pc[c] = "idle"
  /\ pc' = [pc EXCEPT ![c] = "sent"]
  /\ call' = [call EXCEPT ![c] =
       [token |-> p, device |-> d, stamp |-> clock(c), since |-> now, until |-> {},
        seen |-> {groups[d]}, mishap |-> FALSE]]
  /\ reply' = [reply EXCEPT ![c] = NoReply]
  /\ result' = [result EXCEPT ![c] = "none"]
  /\ verdict' = [verdict EXCEPT ![c] = NoVerdict]
  /\ UNCHANGED <<now, skew, secrets, tokens, groups>>

(* Mutant of hmacVerified: a stamp of the future is taken for a wrong one.    *)
hmacVerifiedPast(c) ==
  /\ secrets[PointerOf[c]] = {c}
  /\ call[c].stamp <= now /\ now - call[c].stamp < HmacWindow

(* The secret found under the pointer is the one the service has signed with, *)
(* and its stamp is less than the window away, in either direction.           *)
hmacVerified(c) ==
  /\ secrets[PointerOf[c]] = {c}
  /\ now - call[c].stamp < HmacWindow /\ call[c].stamp - now < HmacWindow

(* The status with which the manager answers at once, 0 if it has to ask for  *)
(* the groups of the device.                                                 *)
verifyStatus(c) ==
  LET p == call[c].token
      claim == decoded(tokens[p].jwt)
  IN  IF p \in {Blank, Forged} \/ ~hmacVerified(c) THEN 400
      ELSE IF ~(purposed(p) /\ validAt(tokens[p].jwt, now)) THEN 500
      ELSE IF ~localVerify(claim) THEN 400
      ELSE IF hasMaybeGroups(claim) THEN 0 ELSE 200

Reached(c, stage) ==
  /\ pc' = [pc EXCEPT ![c] = stage]
  /\ UNCHANGED <<now, skew, secrets, tokens, groups, result, verdict>>

Replied(c, r) == Reached(c, "replied") /\ reply' = [reply EXCEPT ![c] = r]

Receive(c) ==
  /\ pc[c] = "sent"
  /\ IF verifyStatus(c) = 0 THEN Reached(c, "device") /\ UNCHANGED reply
                            ELSE Replied(c, Answer(verifyStatus(c)))
  /\ UNCHANGED call

(* Mutant of DeviceGroups: the groups are those of the tenant.                *)
DeviceGroupsOfTenant(c) ==
  LET claim == decoded(tokens[call[c].token].jwt) IN
  /\ pc[c] = "device"
  /\ Replied(c, Answer(IF verifyGroupsListed(SetToBag(claim.targetGroups),
                                             groups[claim.tenantId])
                       THEN 200 ELSE 400))
  /\ UNCHANGED call

DeviceGroups(c) ==
  LET claim == decoded(tokens[call[c].token].jwt) IN
  /\ pc[c] = "device"
  /\ Replied(c, Answer(IF verifyGroupsListed(SetToBag(claim.targetGroups),
                                             groups[call[c].device])
                       THEN 200 ELSE 400))
  /\ UNCHANGED call

(* Mutant of ConsoleFails: a failing console is passed on as 503.             *)
ConsoleFailsPassedOn(c) ==
  /\ pc[c] = "device"
  /\ \E status \in {400, 500, 503} : Replied(c, Answer(status))
  /\ call' = [call EXCEPT ![c].mishap = TRUE]

(* The console is unreachable, or answers something unreadable.               *)
ConsoleFails(c) ==
  /\ pc[c] = "device"
  /\ \E status \in {400, 500} : Replied(c, Answer(status))
  /\ call' = [call EXCEPT ![c].mishap = TRUE]

(* The request or its reply is lost without a trace, or the manager hangs, or  *)
(* the console behind it. The client of the SDK has no timeout: it waits.     *)
Hang(c) ==
  /\ pc[c] \in {"sent", "device", "replied"}
  /\ Reached(c, "hanging")
  /\ UNCHANGED <<call, reply>>

(* A gateway gives up waiting for the manager, which goes on without effect.   *)
(* It does so once: its page may be lost as well.                            *)
GatewayAnswers(c) ==
  /\ pc[c] \in {"sent", "device", "hanging"} /\ reply[c] # GatewayPage
  /\ Replied(c, GatewayPage)
  /\ UNCHANGED call

Ended(c, value) ==
  /\ pc' = [pc EXCEPT ![c] = "idle"]
  /\ call' = [call EXCEPT ![c].until = {now}]
  /\ result' = [result EXCEPT ![c] = value]
  /\ UNCHANGED <<now, skew, secrets, tokens, groups, reply, verdict>>

(* Mutant of Return: a reply that is no JSON is waited for again.             *)
ReturnJson(c) ==
  /\ pc[c] = "replied" /\ reply[c].json
  /\ Ended(c, IF reply[c].status <= 299 THEN "true" ELSE "false")

(* A reply of the manager says ok and data exactly when its status is 200; a  *)
(* text that is no JSON is an error.                                         *)
Return(c) ==
  /\ pc[c] = "replied"
  /\ Ended(c, IF ~reply[c].json THEN "error"
              ELSE IF reply[c].status <= 299 THEN "true" ELSE "false")

(* The connection breaks: an exception at the service.                        *)
Break(c) == pc[c] # "idle" /\ Ended(c, "error")

------------------------------------------------------------------------------
(* The surroundings                                                         *)

Regroup(x, g) ==
  /\ groups' = [groups EXCEPT ![x] = g]
  /\ call' = [c \in Services |->
       IF pc[c] # "idle" /\ call[c].device = x
       THEN [call[c] EXCEPT !.seen = @ \cup {g}] ELSE call[c]]
  /\ UNCHANGED <<now, skew, secrets, tokens, pc, reply, result, verdict>>

Tick ==
  /\ now < MaxTime
  /\ now' = now + 1
  /\ UNCHANGED <<skew, secrets, tokens, groups, pc, call, reply, result, verdict>>

Proceed(c) == Receive(c) \/ DeviceGroups(c) \/ ConsoleFails(c) \/ Return(c)

Next ==
  \/ Create \/ CreateGeneric
  \/ \E c \in Services, p \in Presentable, d \in Identities : Read(c, p, d) \/ Ask(c, p, d)
  \/ \E c \in Services : Proceed(c) \/ Hang(c) \/ GatewayAnswers(c) \/ Break(c)
  \/ \E x \in Members : \E g \in Regroupings[x] : Regroup(x, g)
  \/ Tick

Spec == Init /\ [][Next]_vars

(* A call that is not hanging goes on. What hangs need not end: nothing is     *)
(* assumed of a gateway, or of a connection that would break.                 *)
FairSpec == Spec /\ \A c \in Services : WF_vars(Proceed(c))

------------------------------------------------------------------------------
(* Properties                                                               *)

(* A token confirmed by externalStateVerify was, at some moment of the call,  *)
(* valid, and at some moment its device was in the groups it names, although  *)
(* clock, device and token may change between any two steps of the call.      *)
ConfirmedDuringCall ==
  \A c \in Services : result[c] = "true" =>
    LET p == call[c].token
        claim == decoded(tokens[p].jwt)
    IN  /\ purposed(p)
        /\ \E last \in call[c].until : \E t \in call[c].since .. last :
             validAt(tokens[p].jwt, t)
        /\ hasMaybeGroups(claim) =>
             \E g \in call[c].seen : verifyGroups(claim.targetGroups, g)

(* A purposed token is refused only for a reason: at some moment of the call  *)
(* it was not valid or its device not in its groups, the manager does not     *)
(* have the secret, the console failed, or clock and delay add up to the      *)
(* window.                                                                   *)
RefusedForCause ==
  \A c \in Services : result[c] = "false" =>
    LET p == call[c].token
        claim == decoded(tokens[p].jwt)
        during == UNION {call[c].since .. last : last \in call[c].until}
    IN  genuine(p) /\ tokens[p].asked # {} =>
          \/ \E t \in during : ~validAt(tokens[p].jwt, t)
          \/ /\ hasMaybeGroups(claim)
             /\ \E g \in call[c].seen : ~verifyGroups(claim.targetGroups, g)
          \/ secrets[PointerOf[c]] # {c}
          \/ call[c].mishap
          \/ \E t \in during : LET off == skew[c] - (t - call[c].since)
                               IN  off >= HmacWindow \/ -off >= HmacWindow

(* What a service reads is what was asked for: a purposed token is accepted   *)
(* by a service exactly when it grants a scope of the service, which takes    *)
(* the audience of the scope, and is not expired by the clock of the service, *)
(* and it is good for exactly the devices that were asked for.                *)
ReadAsAsked ==
  \A c \in Services : verdict[c] # NoVerdict =>
    LET v == verdict[c] IN
    \A q \in (IF genuine(v.token) THEN tokens[v.token].asked ELSE {}) :
      /\ {audienceOf(s) : s \in ServiceScopes[c]} \subseteq ServiceAudiences[c] =>
           (v.accepted <=> /\ validAt(encode(toTokenClaim(q), tokens[v.token].jwt.iat), v.at)
                           /\ (UNION q.scopes) \cap ServiceScopes[c] # {})
      /\ v.accepted =>
           (v.identity <=> q.targetIdentities \cap {v.device, Wildcard} # {})

(* The comparison of lists accepts nothing that the one of sets, which        *)
(* TokenService uses, would refuse, and accepts all the same unless a text is *)
(* claimed twice: also when groups share a name.                             *)
ListsMatchSets ==
  \A b \in Bodies, x \in Members :
    LET listed == verifyGroupsListed(b.groups, groups[x])
        wanted == verifyGroups(b.claim.targetGroups, groups[x])
    IN  /\ listed => wanted
        /\ b.groups = SetToBag(b.claim.targetGroups) => (wanted => listed)

(* A call of externalStateVerify ends, in an error if need be, unless it hangs: *)
(* a reply that is lost or never given keeps the thread of the service for     *)
(* ever, as the client has no timeout. Where a gateway gives up in the end, only *)
(* a call whose page from the gateway is lost can be kept.                    *)
CallsEnd ==
  \A c \in Services :
    /\ pc[c] # "idle" ~> pc[c] \in {"idle", "hanging"}
    /\ WF_vars(GatewayAnswers(c)) =>
         (pc[c] # "idle" ~> pc[c] = "idle" \/ (pc[c] = "hanging" /\ reply[c] = GatewayPage))

(* The README says that calls are accepted from the domains a token lists.    *)
OriginsAccepted ==
  \A p \in DOMAIN tokens : purposed(p) =>
    \A x \in content(p).ord : validateOrigin(p, {x})
=============================================================================
