----------------------- MODULE VerificationExchangeProofs -----------------------
(****************************************************************************)
(* The exchange between services and the manager, for any services, clocks,   *)
(* secrets, tokens and groups: what a confirmation and a refusal say, and     *)
(* what a service reads from a token.                                        *)
(****************************************************************************)
EXTENDS VerificationExchange, TokenClaimsProofs, FiniteSetTheorems

(* A call in progress is about a text the service has, and its history is     *)
(* that of its device since it began.                                        *)
Pending(c) ==
  pc[c] # "idle" =>
    /\ call[c] \in Call /\ call[c].token \in Presentable
    /\ call[c].since <= now /\ call[c].stamp = call[c].since + skew[c]
    /\ groups[call[c].device] \in call[c].seen

TypeInv == TypeOK /\ \A c \in Services : Pending(c)

(* A token says of a request what the request asked for.                     *)
Honest(t) ==
  \A q \in t.asked :
    /\ q \in TokenPurposedClaim /\ localVerify(q)
    /\ t.jwt = encode(toTokenClaim(q), t.jwt.iat)
    /\ t.iss = Manager
    /\ t.aud = written({audienceOf(s) : s \in UNION q.scopes})

HonestInv == \A i \in DOMAIN tokens : Honest(tokens[i])

------------------------------------------------------------------------------
(* Signing                                                                  *)

LEMMA AudienceType == ASSUME NEW s \in Scope PROVE audienceOf(s) \in Audience
BY DEF audienceOf, Scope, Audience

LEMMA WrittenType ==
  ASSUME NEW audience \in SUBSET Audience
  PROVE  written(audience) \in [text: SUBSET Audience, list: SUBSET Audience]
BY DEF written

(* Whoever signs adds one token, which says what was asked for.               *)
LEMMA Signing ==
  ASSUME TypeInv, Create \/ CreateGeneric
  PROVE  \E t \in Token :
           /\ Honest(t) /\ tokens' = Append(tokens, t)
           /\ UNCHANGED <<now, skew, secrets, groups, pc, call, reply, result, verdict>>
<1>1. now \in Nat BY DEF TypeInv, TypeOK
<1>2. ASSUME NEW t, t \in Token, Honest(t), Sign(t)
      PROVE  \E u \in Token :
               /\ Honest(u) /\ tokens' = Append(tokens, u)
               /\ UNCHANGED <<now, skew, secrets, groups, pc, call, reply, result, verdict>>
  BY <1>2 DEF Sign
<1>3. CASE Create
  <2> PICK b \in Bodies :
        /\ localVerify(b.claim)
        /\ Sign(signed(toTokenClaim(b.claim), Manager,
                       {audienceOf(s) : s \in UNION b.claim.scopes}, {b.claim}))
    BY <1>3 DEF Create
  <2> DEFINE q == b.claim
             aud == {audienceOf(s) : s \in UNION q.scopes}
             t == signed(toTokenClaim(q), Manager, aud, {q})
  <2>1. q \in TokenPurposedClaim BY TokensAssumption
  <2>2. UNION q.scopes \subseteq Scope BY <2>1 DEF TokenPurposedClaim
  <2>3. aud \in SUBSET Audience BY <2>2, AudienceType
  <2>4. /\ encode(toTokenClaim(q), now) \in JwtClaim /\ encode(toTokenClaim(q), now).iat = now
        /\ Manager \in Issuers
    BY <1>1, <2>1, ToTokenClaimType, EncodeType, TokensAssumption DEF encode
  <2> HIDE DEF aud
  <2>5. t \in Token BY <2>1, <2>3, <2>4, WrittenType DEF Token, signed
  <2>6. Honest(t) BY <2>1, <2>4 DEF Honest, signed, aud
  <2> QED BY <1>2, <2>5, <2>6 DEF aud
<1>4. CASE CreateGeneric
  <2> PICK g \in GenericTokens : Sign(signed(g.claim, g.issuer, g.audience, {}))
    BY <1>4 DEF CreateGeneric
  <2>1. /\ g.claim \in TokenClaim /\ g.issuer \in Issuers /\ g.audience \in SUBSET Audience
    BY TokensAssumption
  <2>2. encode(g.claim, now) \in JwtClaim BY <1>1, <2>1, EncodeType
  <2>3. signed(g.claim, g.issuer, g.audience, {}) \in Token
    BY <2>1, <2>2, WrittenType DEF Token, signed
  <2>4. Honest(signed(g.claim, g.issuer, g.audience, {})) BY DEF Honest, signed
  <2> QED BY <1>2, <2>3, <2>4
<1> QED BY <1>3, <1>4

Grown == \A i \in DOMAIN tokens : i \in DOMAIN tokens' /\ tokens'[i] = tokens[i]

LEMMA Growth ==
  ASSUME TypeInv, Create \/ CreateGeneric
  PROVE  /\ Grown /\ tokens' \in Seq(Token)
         /\ HonestInv => HonestInv'
         /\ UNCHANGED <<now, skew, secrets, groups, pc, call, reply, result, verdict>>
<1> PICK t \in Token :
      /\ Honest(t) /\ tokens' = Append(tokens, t)
      /\ UNCHANGED <<now, skew, secrets, groups, pc, call, reply, result, verdict>>
  BY Signing
<1>1. tokens \in Seq(Token) BY DEF TypeInv, TypeOK
<1>2. \A i \in DOMAIN tokens' : tokens'[i] = t \/ (i \in DOMAIN tokens /\ tokens'[i] = tokens[i])
  BY <1>1
<1>3. HonestInv => HonestInv' BY <1>2 DEF HonestInv
<1> QED BY <1>1, <1>3 DEF Grown

(* Nothing else signs.                                                      *)
LEMMA OnlySigning ==
  ASSUME [Next]_vars, ~Create, ~CreateGeneric
  PROVE  UNCHANGED tokens
BY DEF Next, vars, Read, Ask, Proceed, Receive, DeviceGroups, ConsoleFails, Hang, GatewayAnswers,
       Return, Break, Ended, Reached, Replied, Regroup, Tick

LEMMA HonestNext == TypeInv /\ HonestInv /\ [Next]_vars => HonestInv'
<1> SUFFICES ASSUME TypeInv, HonestInv, [Next]_vars PROVE HonestInv' OBVIOUS
<1>1. CASE UNCHANGED tokens BY <1>1 DEF HonestInv
<1> QED BY <1>1, Growth, OnlySigning

------------------------------------------------------------------------------
(* Types                                                                    *)

LEMMA ReplyTypes ==
  /\ \A status \in {0, 200, 400, 500} : Answer(status) \in Reply
  /\ GatewayPage \in Reply /\ NoReply \in Reply
BY DEF Answer, GatewayPage, NoReply, Reply

LEMMA StatusType ==
  ASSUME NEW c \in Services PROVE verifyStatus(c) \in {0, 200, 400, 500}
BY DEF verifyStatus

(* The console has failed during a call.                                     *)
Marked(c) == call' = [call EXCEPT ![c].mishap = TRUE]

LEMMA TypeNext == TypeInv /\ [Next]_vars => TypeInv'
<1> SUFFICES ASSUME TypeInv, [Next]_vars PROVE TypeInv' OBVIOUS
<1>t. TypeOK /\ \A c \in Services : Pending(c) BY DEF TypeInv
<1>1. CASE Create \/ CreateGeneric
  <2>1. /\ Grown /\ tokens' \in Seq(Token)
        /\ UNCHANGED <<now, skew, secrets, groups, pc, call, reply, result, verdict>>
    BY <1>1, Growth
  <2>2. TypeOK' BY <1>t, <2>1 DEF TypeOK
  <2>3. Presentable \subseteq Presentable' BY <2>1 DEF Grown, Presentable
  <2> QED BY <1>t, <2>1, <2>2, <2>3 DEF TypeInv, Pending
<1>2. ASSUME NEW c \in Services, NEW p \in Presentable, NEW d \in Identities, Read(c, p, d)
      PROVE  TypeInv'
  <2> DEFINE v == [token |-> p, device |-> d, at |-> clock(c),
                   accepted |-> decodeAndVerify(c, p, clock(c)),
                   identity |-> decodeAndVerify(c, p, clock(c)) /\ validateIdentity(p, d)]
  <2>1. v \in Verdict
    <3>1. p \in Presented BY <1>t DEF TypeOK, Presentable, Presented
    <3>2. clock(c) \in Int BY <1>t DEF TypeOK, clock
    <3>3. decodeAndVerify(c, p, clock(c)) \in BOOLEAN BY DEF decodeAndVerify
    <3> QED BY <3>1, <3>2, <3>3 DEF Verdict
  <2>2. /\ verdict' = [verdict EXCEPT ![c] = v]
        /\ call' = [call EXCEPT ![c] = NoCall] /\ pc[c] = "idle"
        /\ reply' = [reply EXCEPT ![c] = NoReply]
        /\ result' = [result EXCEPT ![c] = "none"]
        /\ UNCHANGED <<now, skew, secrets, tokens, groups, pc>>
    BY <1>2 DEF Read
  <2> HIDE DEF v
  <2>3. TypeOK' BY <1>t, <2>1, <2>2, ReplyTypes DEF TypeOK
  <2> QED BY <1>t, <2>2, <2>3 DEF TypeInv, Pending, TypeOK, Presentable
<1>3. ASSUME NEW c \in Services, NEW p \in Presentable, NEW d \in Identities, Ask(c, p, d)
      PROVE  TypeInv'
  <2> DEFINE k == [token |-> p, device |-> d, stamp |-> clock(c), since |-> now, until |-> {},
                   seen |-> {groups[d]}, mishap |-> FALSE]
  <2>1. k \in Call
    <3>1. p \in Presented BY <1>t DEF TypeOK, Presentable, Presented
    <3>2. clock(c) \in Int /\ now \in Nat BY <1>t DEF TypeOK, clock
    <3>3. {groups[d]} \in SUBSET SUBSET Groups BY <1>t DEF TypeOK, Members
    <3> QED BY <3>1, <3>2, <3>3 DEF Call
  <2>2. /\ k.token = p /\ k.since = now /\ k.stamp = k.since + skew[c]
        /\ k.device = d /\ groups[d] \in k.seen
    BY DEF clock
  <2>3. /\ pc' = [pc EXCEPT ![c] = "sent"] /\ call' = [call EXCEPT ![c] = k]
        /\ reply' = [reply EXCEPT ![c] = NoReply]
        /\ result' = [result EXCEPT ![c] = "none"]
        /\ verdict' = [verdict EXCEPT ![c] = NoVerdict]
        /\ UNCHANGED <<now, skew, secrets, tokens, groups>>
    BY <1>3 DEF Ask
  <2> HIDE DEF k
  <2>4. TypeOK' BY <1>t, <2>1, <2>3, ReplyTypes DEF TypeOK
  <2>5. now <= now BY <1>t DEF TypeOK
  <2> QED BY <1>t, <2>1, <2>2, <2>3, <2>4, <2>5 DEF TypeInv, Pending, TypeOK, Presentable
<1>4. ASSUME NEW c \in Services,
             UNCHANGED call \/ Marked(c),
             \/ (Reached(c, "device") \/ Reached(c, "hanging")) /\ UNCHANGED reply
             \/ \E r \in Reply : Replied(c, r),
             pc[c] # "idle"
      PROVE  TypeInv'
  <2>1. call[c] \in Call BY <1>t, <1>4 DEF Pending
  <2>2. [call[c] EXCEPT !.mishap = TRUE] \in Call BY <2>1 DEF Call
  <2>3. /\ call' \in [Services -> Call \cup {NoCall}] /\ reply' \in [Services -> Reply]
        /\ pc' \in [Services -> {"idle", "sent", "device", "replied", "hanging"}]
        /\ UNCHANGED <<now, skew, secrets, tokens, groups, result, verdict>>
    <3>1. call' \in [Services -> Call \cup {NoCall}]
      <4>1. CASE UNCHANGED call BY <1>t, <4>1 DEF TypeOK
      <4>2. CASE call' = [call EXCEPT ![c] = [call[c] EXCEPT !.mishap = TRUE]]
        BY <1>t, <2>2, <4>2 DEF TypeOK
      <4> QED BY <1>4, <4>1, <4>2 DEF Marked
    <3>2. CASE (Reached(c, "device") \/ Reached(c, "hanging")) /\ UNCHANGED reply
      BY <1>t, <3>1, <3>2 DEF TypeOK, Reached
    <3>3. ASSUME NEW r \in Reply, Replied(c, r)
          PROVE  /\ reply' \in [Services -> Reply]
                 /\ pc' \in [Services -> {"idle", "sent", "device", "replied", "hanging"}]
                 /\ UNCHANGED <<now, skew, secrets, tokens, groups, result, verdict>>
      BY <1>t, <3>3 DEF TypeOK, Reached, Replied
    <3> QED BY <1>4, <3>1, <3>2, <3>3
  <2>4. TypeOK' BY <1>t, <2>3 DEF TypeOK
  <2>5. ASSUME NEW e \in Services, pc'[e] # "idle" PROVE pc[e] # "idle"
    BY <1>t, <1>4, <2>5 DEF TypeOK, Reached, Replied
  <2>6. ASSUME NEW e \in Services, pc[e] # "idle"
        PROVE  /\ call'[e] \in Call
               /\ \A f \in {"token", "since", "stamp", "device", "seen"} :
                    call'[e][f] = call[e][f]
    <3>1. call[e] \in Call BY <1>t, <2>6 DEF Pending
    <3>2. CASE call'[e] = call[e] BY <3>1, <3>2
    <3>3. CASE e = c /\ call'[e] = [call[c] EXCEPT !.mishap = TRUE]
      BY <2>1, <2>2, <3>3 DEF Call
    <3> QED BY <1>t, <1>4, <3>2, <3>3 DEF TypeOK, Marked
  <2>7. ASSUME NEW e \in Services PROVE Pending(e)'
    <3> SUFFICES ASSUME pc'[e] # "idle"
                 PROVE  Pending(e)'
      BY DEF Pending
    <3>1. pc[e] # "idle" BY <2>5
    <3>2. /\ call'[e].token = call[e].token /\ call'[e].since = call[e].since
          /\ call'[e].stamp = call[e].stamp /\ call'[e].device = call[e].device
          /\ call'[e].seen = call[e].seen /\ call'[e] \in Call
      BY <2>6, <3>1
    <3> QED BY <1>t, <2>3, <3>1, <3>2 DEF Pending, Presentable
  <2> QED BY <2>4, <2>7 DEF TypeInv
<1>5. ASSUME NEW c \in Services, Receive(c) PROVE TypeInv'
  BY <1>4, <1>5, StatusType, ReplyTypes DEF Receive
<1>6. ASSUME NEW c \in Services, DeviceGroups(c) PROVE TypeInv'
  BY <1>4, <1>6, ReplyTypes DEF DeviceGroups
<1>7. ASSUME NEW c \in Services, ConsoleFails(c) PROVE TypeInv'
  <2> PICK status \in {400, 500} : Replied(c, Answer(status)) BY <1>7 DEF ConsoleFails
  <2>1. pc[c] # "idle" /\ Marked(c) BY <1>7 DEF ConsoleFails, Marked
  <2>2. \E r \in Reply : Replied(c, r)
    <3> Answer(status) \in Reply BY ReplyTypes
    <3> QED OBVIOUS
  <2> QED BY <1>4, <2>1, <2>2
<1>8h. ASSUME NEW c \in Services, Hang(c) PROVE TypeInv' BY <1>4, <1>8h DEF Hang
<1>8. ASSUME NEW c \in Services, GatewayAnswers(c) PROVE TypeInv'
  BY <1>4, <1>8, ReplyTypes DEF GatewayAnswers
<1>9. ASSUME NEW c \in Services, NEW value \in {"true", "false", "error"},
             pc[c] # "idle", Ended(c, value)
      PROVE  TypeInv'
  <2>1. call[c] \in Call /\ now \in Nat BY <1>t, <1>9 DEF Pending, TypeOK
  <2>2. [call[c] EXCEPT !.until = {now}] \in Call BY <2>1 DEF Call
  <2>3. /\ pc' = [pc EXCEPT ![c] = "idle"] /\ result' = [result EXCEPT ![c] = value]
        /\ call' = [call EXCEPT ![c] = [call[c] EXCEPT !.until = {now}]]
        /\ UNCHANGED <<now, skew, secrets, tokens, groups, reply, verdict>>
    BY <1>9 DEF Ended
  <2>4. TypeOK' BY <1>t, <2>2, <2>3 DEF TypeOK
  <2>5. ASSUME NEW e \in Services, pc'[e] # "idle" PROVE e # c /\ pc[e] = pc'[e] /\ call'[e] = call[e]
    BY <1>t, <2>3, <2>5 DEF TypeOK
  <2> QED BY <1>t, <2>3, <2>4, <2>5 DEF TypeInv, Pending, Presentable
<1>10. ASSUME NEW c \in Services, Return(c) \/ Break(c) PROVE TypeInv'
  BY <1>9, <1>10 DEF Return, Break
<1>11. ASSUME NEW x \in Members, NEW g \in Regroupings[x], Regroup(x, g) PROVE TypeInv'
  <2>1. g \in SUBSET Groups BY ConsoleAssumption
  <2>2. /\ groups' = [groups EXCEPT ![x] = g]
        /\ call' = [c \in Services |->
             IF pc[c] # "idle" /\ call[c].device = x
             THEN [call[c] EXCEPT !.seen = @ \cup {g}] ELSE call[c]]
        /\ UNCHANGED <<now, skew, secrets, tokens, pc, reply, result, verdict>>
    BY <1>11 DEF Regroup
  <2>3. ASSUME NEW e \in Services, pc[e] # "idle"
        PROVE  /\ call'[e] \in Call
               /\ call'[e].token = call[e].token /\ call'[e].since = call[e].since
               /\ call'[e].stamp = call[e].stamp /\ call'[e].device = call[e].device
               /\ groups'[call[e].device] \in call'[e].seen
    <3>1. call[e] \in Call /\ groups[call[e].device] \in call[e].seen
      BY <1>t, <2>3 DEF Pending
    <3>2. call[e].device \in Members /\ call[e].seen \subseteq SUBSET Groups
      <4>1. call[e].device \in Identities /\ call[e].seen \subseteq SUBSET Groups
        BY <3>1 DEF Call
      <4> QED BY <4>1 DEF Members
    <3>3. CASE call[e].device = x
      <4> DEFINE seen == call[e].seen \cup {g}
      <4>1. seen \in SUBSET SUBSET Groups BY <2>1, <3>2
      <4>2. call'[e] = [call[e] EXCEPT !.seen = seen] BY <2>2, <2>3, <3>3
      <4>3. groups'[x] = g BY <1>t, <2>2 DEF TypeOK
      <4>4. g \in seen OBVIOUS
      <4> HIDE DEF seen
      <4> QED BY <3>1, <3>3, <4>1, <4>2, <4>3, <4>4 DEF Call
    <3>4. CASE call[e].device # x
      <4>1. call'[e] = call[e] BY <2>2, <3>4
      <4>2. groups'[call[e].device] = groups[call[e].device]
        BY <1>t, <2>2, <3>2, <3>4 DEF TypeOK
      <4> QED BY <3>1, <4>1, <4>2
    <3> QED BY <3>3, <3>4
  <2>4. call' \in [Services -> Call \cup {NoCall}]
    BY <1>t, <2>2, <2>3 DEF TypeOK
  <2>5. TypeOK' BY <1>t, <2>1, <2>2, <2>4 DEF TypeOK
  <2>6. ASSUME NEW e \in Services, pc[e] # "idle" PROVE Pending(e)'
    BY <1>t, <2>2, <2>3, <2>6 DEF Pending, Presentable
  <2> QED BY <2>2, <2>5, <2>6 DEF TypeInv, Pending
<1>12. CASE Tick
  <2>1. now' = now + 1 /\ UNCHANGED <<skew, secrets, tokens, groups, pc, call, reply, result, verdict>>
    BY <1>12 DEF Tick
  <2>2. \A c \in Services : pc[c] # "idle" => call[c].since <= now'
    BY <1>t, <2>1 DEF TypeOK, Pending, Call
  <2>3. TypeOK' BY <1>t, <2>1 DEF TypeOK
  <2> QED BY <1>t, <2>1, <2>2, <2>3 DEF TypeInv, Pending, Presentable
<1>13. CASE UNCHANGED vars
  BY <1>t, <1>13 DEF vars, TypeInv, TypeOK, Pending, Presentable
<1> QED
  BY <1>1, <1>2, <1>3, <1>5, <1>6, <1>7, <1>8, <1>8h, <1>10, <1>11, <1>12, <1>13 DEF Next, Proceed

LEMMA TypeInit == Init => TypeInv
<1> SUFFICES ASSUME Init PROVE TypeInv OBVIOUS
<1>1. now \in Nat /\ skew \in [Services -> Int] /\ secrets \in [Pointers -> SUBSET Services]
  BY ServicesAssumption DEF Init
<1>2. tokens \in Seq(Token) BY DEF Init
<1>3. groups \in [Members -> SUBSET Groups] BY ConsoleAssumption DEF Init
<1>4. pc \in [Services -> {"idle", "sent", "device", "replied", "hanging"}] BY DEF Init
<1>5. call \in [Services -> Call \cup {NoCall}] BY DEF Init
<1>6. reply \in [Services -> Reply] BY ReplyTypes DEF Init
<1>7. result \in [Services -> {"none", "true", "false", "error"}] BY DEF Init
<1>8. verdict \in [Services -> Verdict \cup {NoVerdict}] BY DEF Init
<1>9. \A c \in Services : Pending(c) BY DEF Init, Pending
<1> QED BY <1>1, <1>2, <1>3, <1>4, <1>5, <1>6, <1>7, <1>8, <1>9 DEF TypeInv, TypeOK

LEMMA TypeInvariant == Spec => []TypeInv
BY TypeInit, TypeNext, PTL DEF Spec

(* The variables have their types, for any services, clocks and requests.     *)
THEOREM ExchangeTypes == Spec => []TypeOK
<1>1. TypeInv => TypeOK BY DEF TypeInv
<1> QED BY <1>1, TypeInvariant, PTL

------------------------------------------------------------------------------
(* Lists of groups                                                          *)

(* How many current groups a claimed text stands for.                        *)
Offers(texts, current, x) ==
  {g \in current : x = IF texts \subseteq Groups THEN g ELSE NameOf[g]}

LEMMA OfferedOnes ==
  ASSUME NEW texts, NEW current \in SUBSET Groups, NEW x
  PROVE  /\ Cardinality(Offers(texts, current, x)) \in Nat
         /\ Cardinality(Offers(texts, current, x)) > 0 <=> x \in offered(texts, current)
<1> DEFINE found == Offers(texts, current, x)
<1>1. IsFiniteSet(found)
  <2>1. found \subseteq Groups BY DEF Offers
  <2> QED BY <2>1, ConsoleAssumption, FS_Subset
<1>2. Cardinality(found) \in Nat BY <1>1, FS_CardinalityType
<1>3. Cardinality(found) = 0 <=> found = {} BY <1>1, FS_EmptySet
<1>4. found # {} <=> x \in offered(texts, current) BY DEF Offers, offered
<1> HIDE DEF found
<1>5. Cardinality(found) > 0 <=> x \in offered(texts, current) BY <1>2, <1>3, <1>4
<1> QED BY <1>2, <1>5 DEF found

LEMMA ListedAsSets ==
  ASSUME NEW bag, IsABag(bag), NEW current \in SUBSET Groups
  PROVE  /\ verifyGroupsListed(bag, current) => verifyGroups(BagToSet(bag), current)
         /\ bag = SetToBag(BagToSet(bag)) =>
              (verifyGroups(BagToSet(bag), current) => verifyGroupsListed(bag, current))
<1> DEFINE texts == BagToSet(bag)
           offers(x) == Cardinality(Offers(texts, current, x))
<1>1. \A x \in texts : bag[x] \in Nat /\ bag[x] > 0 BY DEF IsABag, BagToSet
<1>2. \A x : offers(x) \in Nat /\ (offers(x) > 0 <=> x \in offered(texts, current))
  BY OfferedOnes
<1>3. verifyGroupsListed(bag, current) <=>
        /\ current # {}
        /\ IF StrictGroupCheck THEN \A x \in texts : bag[x] <= offers(x)
                               ELSE \E x \in texts : offers(x) > 0
  BY DEF verifyGroupsListed, Offers
<1>4. verifyGroups(texts, current) <=>
        /\ current # {}
        /\ IF StrictGroupCheck THEN \A x \in texts : x \in offered(texts, current)
                               ELSE \E x \in texts : x \in offered(texts, current)
  BY DEF verifyGroups, matching
<1>5. bag = SetToBag(texts) => \A x \in texts : bag[x] = 1 BY DEF SetToBag
<1> HIDE DEF texts, offers
<1>6. \A x \in texts : bag[x] <= offers(x) => x \in offered(texts, current) BY <1>1, <1>2
<1>7. \A x \in texts : bag[x] = 1 /\ x \in offered(texts, current) => bag[x] <= offers(x)
  BY <1>2
<1>8. verifyGroupsListed(bag, current) => verifyGroups(texts, current)
  BY <1>2, <1>3, <1>4, <1>6
<1>9. bag = SetToBag(texts) =>
        (verifyGroups(texts, current) => verifyGroupsListed(bag, current))
  BY <1>2, <1>3, <1>4, <1>5, <1>7
<1> QED BY <1>8, <1>9 DEF texts

LEMMA OnceEach == ASSUME NEW S PROVE IsABag(SetToBag(S)) /\ BagToSet(SetToBag(S)) = S
BY DEF IsABag, SetToBag, BagToSet

(* The comparison of lists and that of sets agree, whichever groups share      *)
(* names, but for texts claimed twice.                                       *)
THEOREM ListsAreSets == Spec => []ListsMatchSets
<1>1. TypeOK => ListsMatchSets
  <2> SUFFICES ASSUME TypeOK, NEW b \in Bodies, NEW x \in Members
               PROVE  /\ verifyGroupsListed(b.groups, groups[x]) =>
                           verifyGroups(b.claim.targetGroups, groups[x])
                      /\ b.groups = SetToBag(b.claim.targetGroups) =>
                           (verifyGroups(b.claim.targetGroups, groups[x]) =>
                              verifyGroupsListed(b.groups, groups[x]))
    BY DEF ListsMatchSets
  <2>1. IsABag(b.groups) /\ BagToSet(b.groups) = b.claim.targetGroups BY TokensAssumption
  <2>2. groups[x] \in SUBSET Groups BY DEF TypeOK
  <2> QED BY <2>1, <2>2, ListedAsSets
<1> QED BY <1>1, ExchangeTypes, PTL

------------------------------------------------------------------------------
(* Reading                                                                  *)

LEMMA HonestInvariant == Spec => []HonestInv
<1>1. Init => HonestInv BY DEF Init, HonestInv
<1> QED BY <1>1, HonestNext, TypeInvariant, PTL DEF Spec

(* What a service has been told is what the token still says.                *)
Told(c) ==
  LET v == verdict[c] IN
  v # NoVerdict =>
    /\ v.token \in Presentable /\ v.device \in Identities
    /\ v.accepted <=> decodeAndVerify(c, v.token, v.at)
    /\ v.identity <=> v.accepted /\ validateIdentity(v.token, v.device)

ToldInv == \A c \in Services : Told(c)

LEMMA ToldKept ==
  ASSUME TypeInv, TypeInv', NEW c \in Services, Told(c), Grown, verdict'[c] = verdict[c]
  PROVE  Told(c)'
<1> DEFINE p == verdict[c].token
<1> SUFFICES ASSUME verdict[c] # NoVerdict
             PROVE  /\ p \in Presentable'
                    /\ verdict[c].device \in Identities
                    /\ verdict[c].accepted <=> decodeAndVerify(c, p, verdict[c].at)'
                    /\ verdict[c].identity <=>
                         verdict[c].accepted /\ validateIdentity(p, verdict[c].device)'
  BY DEF Told
<1>1. tokens \in Seq(Token) /\ tokens' \in Seq(Token) BY DEF TypeInv, TypeOK
<1>2. p \in Presentable BY DEF Told
<1>3. CASE p \in DOMAIN tokens
  <2>1. p \in DOMAIN tokens' /\ tokens'[p] = tokens[p] BY <1>3 DEF Grown
  <2> QED
    BY <1>3, <2>1
    DEF Told, Presentable, decodeAndVerify, validateIdentity, genuine, audiences, scopes,
        purposed, content
<1>4. CASE p \in {Forged, Garbage, Blank}
  <2>1. p \notin Nat BY <1>4, TokensAssumption
  <2>2. p \notin DOMAIN tokens /\ p \notin DOMAIN tokens' BY <1>1, <2>1
  <2>3. ~decodeAndVerify(c, p, verdict[c].at) /\ ~decodeAndVerify(c, p, verdict[c].at)'
    BY <2>2 DEF decodeAndVerify, genuine
  <2>4. p \in Presentable' BY <1>4 DEF Presentable
  <2> QED BY <2>3, <2>4 DEF Told
<1> QED BY <1>2, <1>3, <1>4 DEF Presentable

LEMMA ToldNext == TypeInv /\ TypeInv' /\ ToldInv /\ [Next]_vars => ToldInv'
<1> SUFFICES ASSUME TypeInv, TypeInv', ToldInv, [Next]_vars, NEW c \in Services
             PROVE  Told(c)'
  BY DEF ToldInv
<1>1. Told(c) /\ TypeOK BY DEF ToldInv, TypeInv
<1>2. CASE Create \/ CreateGeneric BY <1>1, <1>2, Growth, ToldKept
<1>3. CASE ~(Create \/ CreateGeneric)
  <2>1. UNCHANGED tokens BY <1>3, OnlySigning
  <2>2. Grown BY <2>1 DEF Grown
  <2>3. CASE verdict'[c] = verdict[c] BY <1>1, <2>2, <2>3, ToldKept
  <2>4. ASSUME NEW e \in Services, NEW p \in Presentable, NEW d \in Identities, Read(e, p, d)
        PROVE  Told(c)'
    <3>1. CASE e # c BY <1>1, <2>3, <2>4, <3>1 DEF Read, TypeOK
    <3>2. CASE e = c
      <4>1. PICK at, accepted, identity :
              /\ accepted \in BOOLEAN /\ identity \in BOOLEAN
              /\ verdict'[c] = [token |-> p, device |-> d, at |-> at,
                                accepted |-> accepted, identity |-> identity]
              /\ accepted <=> decodeAndVerify(c, p, at)
              /\ identity <=> accepted /\ validateIdentity(p, d)
        <5> DEFINE at == clock(c)
                   accepted == decodeAndVerify(c, p, at)
                   identity == accepted /\ validateIdentity(p, d)
        <5>1. accepted \in BOOLEAN /\ identity \in BOOLEAN BY DEF decodeAndVerify
        <5>2. verdict'[c] = [token |-> p, device |-> d, at |-> at,
                             accepted |-> accepted, identity |-> identity]
          BY <1>1, <2>4, <3>2 DEF Read, TypeOK
        <5>3. /\ accepted <=> decodeAndVerify(c, p, at)
              /\ identity <=> accepted /\ validateIdentity(p, d)
          OBVIOUS
        <5> HIDE DEF at, accepted, identity
        <5> QED BY <5>1, <5>2, <5>3
      <4>2. p \in Presentable' BY <2>1 DEF Presentable
      <4>3. decodeAndVerify(c, p, at)' <=> decodeAndVerify(c, p, at)
        BY <2>1 DEF decodeAndVerify, genuine, audiences, scopes, purposed, content
      <4>4. validateIdentity(p, d)' <=> validateIdentity(p, d)
        BY <2>1 DEF validateIdentity, content
      <4> QED BY <4>1, <4>2, <4>3, <4>4 DEF Told
    <3> QED BY <3>1, <3>2
  <2>5. ASSUME NEW e \in Services, NEW p \in Presentable, NEW d \in Identities, Ask(e, p, d)
        PROVE  Told(c)'
    <3>1. CASE e # c BY <1>1, <2>3, <2>5, <3>1 DEF Ask, TypeOK
    <3>2. CASE e = c BY <1>1, <2>5, <3>2 DEF Ask, Told, TypeOK
    <3> QED BY <3>1, <3>2
  <2>6. ASSUME NEW e \in Services, Proceed(e) \/ Hang(e) \/ GatewayAnswers(e) \/ Break(e)
        PROVE  UNCHANGED verdict
    BY <2>6
    DEF Proceed, Receive, DeviceGroups, ConsoleFails, Hang, GatewayAnswers, Return, Break, Ended,
        Reached, Replied
  <2>7. \A x \in Members : \A g \in Regroupings[x] : Regroup(x, g) => UNCHANGED verdict
    BY DEF Regroup
  <2>8. Tick \/ UNCHANGED vars => UNCHANGED verdict BY DEF Tick, vars
  <2> QED BY <1>3, <2>3, <2>4, <2>5, <2>6, <2>7, <2>8 DEF Next
<1> QED BY <1>2, <1>3

(* What a token that was asked for says: its scopes, and one audience, text   *)
(* or list, of each of them.                                                 *)
LEMMA HonestReading ==
  ASSUME NEW p \in DOMAIN tokens, Honest(tokens[p]), NEW q \in tokens[p].asked
  PROVE  /\ purposed(p) /\ tokens[p].iss = Manager
         /\ content(p).pur > 0 /\ content(p).tid = q.targetIdentities
         /\ scopes(p) = UNION q.scopes
         /\ audiences(p) = {audienceOf(s) : s \in UNION q.scopes}
<1> DEFINE aud == {audienceOf(s) : s \in UNION q.scopes}
<1>1. /\ q \in TokenPurposedClaim /\ localVerify(q) /\ tokens[p].iss = Manager
      /\ tokens[p].jwt = encode(toTokenClaim(q), tokens[p].jwt.iat)
      /\ tokens[p].aud = written(aud)
  BY DEF Honest
<1>2. content(p) = toTokenClaim(q).content BY <1>1 DEF content, encode
<1>3. content(p) # Opaque BY <1>1, <1>2, ToTokenClaimType, OpaqueAssumption
<1>4. /\ content(p).pur = q.purpose /\ content(p).tid = q.targetIdentities
      /\ content(p).scp = {{s} : s \in UNION q.scopes}
  BY <1>2 DEF toTokenClaim
<1>5. UNION {{s} : s \in UNION q.scopes} = UNION q.scopes OBVIOUS
<1>6. q.purpose \in Nat /\ q.purpose > 5
  BY <1>1 DEF localVerify, validatePurpose, TokenPurposedClaim
<1>7. purposed(p) BY <1>3 DEF purposed, genuine
<1>8. scopes(p) = UNION q.scopes BY <1>4, <1>5, <1>7 DEF scopes
<1>9. audiences(p) = aud
  <2> HIDE DEF aud
  <2> QED BY <1>1 DEF audiences, written
<1> QED BY <1>1, <1>4, <1>6, <1>7, <1>8, <1>9

(* The devices a checked claim is good for are those it names, or all.        *)
LEMMA IdentitiesAsAsked ==
  ASSUME NEW q \in TokenPurposedClaim, localVerify(q), NEW p,
         content(p).tid = q.targetIdentities, NEW d \in Identities
  PROVE  validateIdentity(p, d) <=> q.targetIdentities \cap {d, Wildcard} # {}
<1>1. Wildcard \notin Identities /\ Blank \notin Identities BY TextsAssumption
<1>2. CASE hasMaybeIdentities(q)
  <2>1. validateIdentities(q) BY <1>2 DEF localVerify
  <2>2. CASE q.targetIdentities \subseteq Identities
    <3>1. q.targetIdentities \cap Identities = q.targetIdentities /\ q.targetIdentities # {}
      BY <2>1, <2>2 DEF validateIdentities
    <3> QED BY <1>1, <2>2, <3>1 DEF validateIdentity
  <2>3. CASE ~(q.targetIdentities \subseteq Identities)
    BY <1>2, <2>1, <2>3 DEF validateIdentities, hasMaybeIdentities
  <2> QED BY <2>2, <2>3
<1>3. CASE ~hasMaybeIdentities(q)
  <2>1. q.targetIdentities \subseteq {Blank, Wildcard} BY <1>3 DEF hasMaybeIdentities
  <2>2. q.targetIdentities \cap Identities = {} /\ d \notin q.targetIdentities BY <1>1, <2>1
  <2> QED BY <2>2 DEF validateIdentity
<1> QED BY <1>2, <1>3

LEMMA ReadingAsAsked ==
  ASSUME NEW c \in Services, NEW p \in DOMAIN tokens, Honest(tokens[p]),
         NEW q \in tokens[p].asked, NEW d \in Identities, NEW at
  PROVE  /\ {audienceOf(s) : s \in ServiceScopes[c]} \subseteq ServiceAudiences[c] =>
              (decodeAndVerify(c, p, at) <=>
                 /\ validAt(encode(toTokenClaim(q), tokens[p].jwt.iat), at)
                 /\ (UNION q.scopes) \cap ServiceScopes[c] # {})
         /\ validateIdentity(p, d) <=> q.targetIdentities \cap {d, Wildcard} # {}
<1> DEFINE aud == {audienceOf(s) : s \in UNION q.scopes}
           jwt == encode(toTokenClaim(q), tokens[p].jwt.iat)
           granted == UNION q.scopes
           covered == {audienceOf(s) : s \in ServiceScopes[c]} \subseteq ServiceAudiences[c]
<1>1. /\ purposed(p) /\ tokens[p].iss = Manager
      /\ content(p).pur > 0 /\ content(p).tid = q.targetIdentities
      /\ scopes(p) = granted /\ audiences(p) = aud
  BY HonestReading
<1>2. q \in TokenPurposedClaim /\ localVerify(q) /\ tokens[p].jwt = jwt
  BY DEF Honest
<1>3. ASSUME covered, granted \cap ServiceScopes[c] # {}
      PROVE  aud \cap ServiceAudiences[c] # {}
  <2> PICK s \in granted : s \in ServiceScopes[c] BY <1>3
  <2>1. audienceOf(s) \in aud OBVIOUS
  <2>2. audienceOf(s) \in ServiceAudiences[c] BY <1>3
  <2> QED BY <2>1, <2>2
<1>4. genuine(p) BY DEF genuine
<1> HIDE DEF aud, jwt, granted, covered
<1>5. decodeAndVerify(c, p, at) <=>
        /\ validAt(jwt, at) /\ aud \cap ServiceAudiences[c] # {}
        /\ granted \cap ServiceScopes[c] # {}
  BY <1>1, <1>2, <1>4 DEF decodeAndVerify
<1>6. validateIdentity(p, d) <=> q.targetIdentities \cap {d, Wildcard} # {}
  BY <1>1, <1>2, IdentitiesAsAsked
<1>7. covered => (decodeAndVerify(c, p, at) <=>
                    validAt(jwt, at) /\ granted \cap ServiceScopes[c] # {})
  BY <1>3, <1>5
<1> QED BY <1>6, <1>7 DEF jwt, granted, covered

(* A service reads from a token exactly what was asked for when it was         *)
(* created: its scopes, its devices and its life.                            *)
THEOREM ReadsAsAsked == Spec => []ReadAsAsked
<1>1. Init => ToldInv BY DEF Init, ToldInv, Told
<1>2. Spec => []ToldInv BY <1>1, ToldNext, TypeInvariant, PTL DEF Spec
<1>3. HonestInv /\ ToldInv => ReadAsAsked
  <2> SUFFICES ASSUME HonestInv, ToldInv, NEW c \in Services, verdict[c] # NoVerdict,
                      genuine(verdict[c].token), NEW q \in tokens[verdict[c].token].asked
               PROVE  LET v == verdict[c] IN
                 /\ {audienceOf(s) : s \in ServiceScopes[c]} \subseteq ServiceAudiences[c] =>
                      (v.accepted <=>
                         /\ validAt(encode(toTokenClaim(q), tokens[v.token].jwt.iat), v.at)
                         /\ (UNION q.scopes) \cap ServiceScopes[c] # {})
                 /\ v.accepted =>
                      (v.identity <=> q.targetIdentities \cap {v.device, Wildcard} # {})
    BY DEF ReadAsAsked
  <2>1. /\ verdict[c].device \in Identities
        /\ verdict[c].accepted <=> decodeAndVerify(c, verdict[c].token, verdict[c].at)
        /\ verdict[c].identity <=>
             verdict[c].accepted /\ validateIdentity(verdict[c].token, verdict[c].device)
    BY DEF ToldInv, Told
  <2>2. verdict[c].token \in DOMAIN tokens /\ Honest(tokens[verdict[c].token])
    BY DEF genuine, HonestInv
  <2>3. /\ {audienceOf(s) : s \in ServiceScopes[c]} \subseteq ServiceAudiences[c] =>
             (decodeAndVerify(c, verdict[c].token, verdict[c].at) <=>
                /\ validAt(encode(toTokenClaim(q), tokens[verdict[c].token].jwt.iat),
                           verdict[c].at)
                /\ (UNION q.scopes) \cap ServiceScopes[c] # {})
        /\ validateIdentity(verdict[c].token, verdict[c].device) <=>
             q.targetIdentities \cap {verdict[c].device, Wildcard} # {}
    BY <2>1, <2>2, ReadingAsAsked
  <2> QED BY <2>1, <2>3
<1> QED BY <1>2, <1>3, HonestInvariant, PTL

------------------------------------------------------------------------------
(* Calls                                                                    *)

ClaimOf(toks, k) == decoded(toks[k.token].jwt)

(* By the moment last, the token of a call k was found to be valid.           *)
Good(toks, k, last) ==
  /\ k.token \in DOMAIN toks /\ toks[k.token].jwt.content # Opaque
  /\ \E t \in k.since .. last : validAt(toks[k.token].jwt, t)

(* Its device was seen in the groups it names.                               *)
Placed(toks, k) ==
  hasMaybeGroups(ClaimOf(toks, k)) =>
    \E g \in k.seen : verifyGroups(ClaimOf(toks, k).targetGroups, g)

(* By the moment last, there was a reason to refuse a call k of service c.     *)
Excused(toks, sec, sk, c, k, last) ==
  k.token \in DOMAIN toks /\ toks[k.token].asked # {} =>
    \/ \E t \in k.since .. last : ~validAt(toks[k.token].jwt, t)
    \/ /\ hasMaybeGroups(ClaimOf(toks, k))
       /\ \E g \in k.seen : ~verifyGroups(ClaimOf(toks, k).targetGroups, g)
    \/ sec[PointerOf[c]] # {c}
    \/ k.mishap
    \/ \E t \in k.since .. last :
         LET off == sk[c] - (t - k.since) IN off >= HmacWindow \/ -off >= HmacWindow

(* What a call, its reply or its result says is so.                          *)
Founded(c) ==
  /\ pc[c] # "idle" => result[c] = "none"
  /\ pc[c] = "device" =>
       Good(tokens, call[c], now) /\ hasMaybeGroups(ClaimOf(tokens, call[c]))
  /\ pc[c] = "replied" /\ reply[c].json =>
       IF reply[c].status <= 299
         THEN Good(tokens, call[c], now) /\ Placed(tokens, call[c])
         ELSE Excused(tokens, secrets, skew, c, call[c], now)
  /\ result[c] \in {"true", "false"} =>
       /\ call[c] \in Call /\ call[c].token \in Presentable
       /\ \E last \in Nat :
            /\ call[c].until = {last}
            /\ IF result[c] = "true"
                 THEN Good(tokens, call[c], last) /\ Placed(tokens, call[c])
                 ELSE Excused(tokens, secrets, skew, c, call[c], last)

CallInv == \A c \in Services : Founded(c)

(* A reason stays one when more is signed, time passes and more is seen.      *)
LEMMA ReasonsStay ==
  ASSUME NEW toks, NEW more, NEW sec, NEW sk, NEW c,
         \A i \in DOMAIN toks : i \in DOMAIN more /\ more[i] = toks[i],
         NEW k \in Call, NEW j \in Call, NEW last \in Nat, NEW later \in Nat, last <= later,
         k.token \in DOMAIN more => k.token \in DOMAIN toks,
         j.token = k.token, j.since = k.since, k.seen \subseteq j.seen, k.mishap => j.mishap
  PROVE  /\ Good(toks, k, last) => Good(more, j, later)
         /\ k.token \in DOMAIN toks =>
              (hasMaybeGroups(ClaimOf(toks, k)) => hasMaybeGroups(ClaimOf(more, j)))
         /\ k.token \in DOMAIN toks => (Placed(toks, k) => Placed(more, j))
         /\ Excused(toks, sec, sk, c, k, last) => Excused(more, sec, sk, c, j, later)
<1>1. k.since .. last \subseteq k.since .. later BY DEF Call
<1> DEFINE p == k.token
<1>2. CASE p \in DOMAIN toks
  <2>1. p \in DOMAIN more /\ more[p] = toks[p] /\ ClaimOf(more, j) = ClaimOf(toks, k)
    BY <1>2 DEF ClaimOf
  <2>2. Good(toks, k, last) => Good(more, j, later) BY <1>1, <2>1 DEF Good
  <2>3. Placed(toks, k) => Placed(more, j) BY <2>1 DEF Placed
  <2>4. Excused(toks, sec, sk, c, k, last) => Excused(more, sec, sk, c, j, later)
    BY <1>1, <1>2, <2>1 DEF Excused
  <2> QED BY <2>1, <2>2, <2>3, <2>4
<1>3. CASE p \notin DOMAIN toks
  <2>1. j.token \notin DOMAIN more BY <1>3
  <2> QED BY <1>3, <2>1 DEF Good, Excused
<1> QED BY <1>2, <1>3

(* What a service keeps of its call while others are busy.                   *)
Steady(c) ==
  /\ pc'[c] = pc[c] /\ reply'[c] = reply[c] /\ result'[c] = result[c]
  /\ pc[c] # "idle" \/ result[c] \in {"true", "false"} =>
       /\ call'[c] \in Call
       /\ call'[c].token = call[c].token /\ call'[c].since = call[c].since
       /\ call'[c].until = call[c].until /\ call[c].seen \subseteq call'[c].seen
       /\ call[c].mishap => call'[c].mishap

LEMMA FoundedKept ==
  ASSUME TypeInv, TypeInv', NEW c \in Services, Founded(c), Steady(c),
         Grown, UNCHANGED <<skew, secrets>>, now <= now'
  PROVE  Founded(c)'
<1>1. /\ tokens \in Seq(Token) /\ tokens' \in Seq(Token) /\ now \in Nat /\ now' \in Nat
      /\ Presentable \subseteq Presentable'
  BY DEF TypeInv, TypeOK, Presentable, Grown
<1>2. \A i \in DOMAIN tokens : i \in DOMAIN tokens' /\ tokens'[i] = tokens[i] BY DEF Grown
<1>3. ASSUME NEW p \in Presentable, p \in DOMAIN tokens' PROVE p \in DOMAIN tokens
  <2>1. p \in Nat BY <1>1, <1>3
  <2> QED BY <2>1, TokensAssumption DEF Presentable
<1>4. CASE pc[c] # "idle"
  <2>1. call[c] \in Call /\ call[c].token \in Presentable /\ result[c] = "none"
    BY <1>4 DEF TypeInv, Pending, Founded
  <2>2. /\ Good(tokens, call[c], now) => Good(tokens', call'[c], now')
        /\ call[c].token \in DOMAIN tokens =>
             (hasMaybeGroups(ClaimOf(tokens, call[c])) =>
                hasMaybeGroups(ClaimOf(tokens', call'[c])))
        /\ call[c].token \in DOMAIN tokens =>
             (Placed(tokens, call[c]) => Placed(tokens', call'[c]))
        /\ Excused(tokens, secrets, skew, c, call[c], now) =>
             Excused(tokens', secrets, skew, c, call'[c], now')
    BY <1>1, <1>2, <1>3, <1>4, <2>1, ReasonsStay DEF Steady
  <2>3. Good(tokens, call[c], now) => call[c].token \in DOMAIN tokens BY DEF Good
  <2> QED BY <2>1, <2>2, <2>3 DEF Founded, Steady
<1>5. CASE pc[c] = "idle" /\ result[c] \in {"true", "false"}
  <2> PICK last \in Nat :
        /\ call[c].until = {last}
        /\ IF result[c] = "true"
             THEN Good(tokens, call[c], last) /\ Placed(tokens, call[c])
             ELSE Excused(tokens, secrets, skew, c, call[c], last)
    BY <1>5 DEF Founded
  <2>1. /\ call[c] \in Call /\ call[c].token \in Presentable /\ last <= last
        /\ call'[c] \in Call /\ call'[c].token = call[c].token
        /\ call'[c].since = call[c].since /\ call[c].seen \subseteq call'[c].seen
        /\ call[c].mishap => call'[c].mishap
    BY <1>5 DEF Founded, Steady
  <2>2. /\ Good(tokens, call[c], last) => Good(tokens', call'[c], last)
        /\ call[c].token \in DOMAIN tokens =>
             (Placed(tokens, call[c]) => Placed(tokens', call'[c]))
        /\ Excused(tokens, secrets, skew, c, call[c], last) =>
             Excused(tokens', secrets, skew, c, call'[c], last)
    BY <1>2, <1>3, <2>1, ReasonsStay
  <2>3. Good(tokens, call[c], last) => call[c].token \in DOMAIN tokens BY DEF Good
  <2>4. /\ call'[c] \in Call /\ call'[c].token \in Presentable' /\ call'[c].until = {last}
        /\ IF result'[c] = "true"
             THEN Good(tokens', call'[c], last) /\ Placed(tokens', call'[c])
             ELSE Excused(tokens', secrets, skew, c, call'[c], last)
    BY <1>1, <1>5, <2>1, <2>2, <2>3 DEF Steady
  <2>5. pc'[c] = "idle" BY <1>5 DEF Steady
  <2> QED BY <2>4, <2>5 DEF Founded
<1>6. CASE pc[c] = "idle" /\ result[c] \notin {"true", "false"}
  BY <1>6 DEF Founded, Steady
<1> QED BY <1>4, <1>5, <1>6

Acts(c) ==
  \/ \E p \in Presentable, d \in Identities : Read(c, p, d) \/ Ask(c, p, d)
  \/ Proceed(c) \/ Hang(c) \/ GatewayAnswers(c) \/ Break(c)

LEMMA Background ==
  ASSUME TypeInv, [Next]_vars
  PROVE  Grown /\ now <= now' /\ UNCHANGED <<skew, secrets>>
<1>1. now \in Nat BY DEF TypeInv, TypeOK
<1>2. CASE Create \/ CreateGeneric BY <1>1, <1>2, Growth
<1>3. CASE ~(Create \/ CreateGeneric)
  <2>1. Grown BY <1>3, OnlySigning DEF Grown
  <2>2. ASSUME NEW c \in Services, Acts(c) PROVE UNCHANGED <<now, skew, secrets>>
    BY <2>2
    DEF Acts, Read, Ask, Proceed, Receive, DeviceGroups, ConsoleFails, Hang, GatewayAnswers, Return,
        Break, Ended, Reached, Replied
  <2>3. \A x \in Members : \A g \in Regroupings[x] :
          Regroup(x, g) => UNCHANGED <<now, skew, secrets>>
    BY DEF Regroup
  <2>4. Tick => now <= now' /\ UNCHANGED <<skew, secrets>> BY <1>1 DEF Tick
  <2>5. UNCHANGED vars => UNCHANGED <<now, skew, secrets>> BY DEF vars
  <2>6. \/ \E c \in Services : Acts(c)
        \/ \E x \in Members : \E g \in Regroupings[x] : Regroup(x, g)
        \/ Tick \/ UNCHANGED vars
    BY <1>3 DEF Next, Acts
  <2> QED BY <1>1, <2>1, <2>2, <2>3, <2>4, <2>5, <2>6
<1> QED BY <1>2, <1>3

LEMMA Bystander ==
  ASSUME TypeInv, [Next]_vars, NEW c \in Services, Founded(c), ~Acts(c)
  PROVE  Steady(c)
<1>t. /\ TypeOK /\ Pending(c)
      /\ pc[c] # "idle" \/ result[c] \in {"true", "false"} => call[c] \in Call
  BY DEF TypeInv, Founded, Pending
<1>1. ASSUME pc'[c] = pc[c], reply'[c] = reply[c], result'[c] = result[c], call'[c] = call[c]
      PROVE  Steady(c)
  BY <1>t, <1>1 DEF Steady
<1>2. CASE Create \/ CreateGeneric BY <1>1, <1>2, Growth
<1>3. ASSUME NEW e \in Services, Acts(e) PROVE Steady(c)
  <2>1. e # c BY <1>3
  <2>2. CASE \E p \in Presentable, d \in Identities : Read(e, p, d) \/ Ask(e, p, d)
    BY <1>t, <1>1, <2>1, <2>2 DEF Read, Ask, TypeOK
  <2>3. CASE Proceed(e) \/ Hang(e) \/ GatewayAnswers(e) \/ Break(e)
    BY <1>t, <1>1, <2>1, <2>3
    DEF Proceed, Receive, DeviceGroups, ConsoleFails, Hang, GatewayAnswers, Return, Break, Ended,
        Reached, Replied, TypeOK
  <2> QED BY <1>3, <2>2, <2>3 DEF Acts
<1>4. ASSUME NEW x \in Members, NEW g \in Regroupings[x], Regroup(x, g) PROVE Steady(c)
  <2>1. UNCHANGED <<pc, reply, result>> BY <1>4 DEF Regroup
  <2>2. CASE pc[c] # "idle" /\ call[c].device = x
    <3>1. call[c] \in Call /\ g \in SUBSET Groups BY <1>t, <2>2, ConsoleAssumption
    <3>2. call'[c] = [call[c] EXCEPT !.seen = @ \cup {g}] BY <1>4, <2>2 DEF Regroup
    <3>3. call[c].seen \cup {g} \in SUBSET SUBSET Groups BY <3>1 DEF Call
    <3> DEFINE seen == call[c].seen \cup {g}
    <3>4. call[c].seen \subseteq seen OBVIOUS
    <3>5. call'[c] = [call[c] EXCEPT !.seen = seen] BY <3>1, <3>2 DEF Call
    <3> HIDE DEF seen
    <3>6. /\ call'[c] \in Call
          /\ call'[c].token = call[c].token /\ call'[c].since = call[c].since
          /\ call'[c].until = call[c].until /\ call'[c].seen = seen
          /\ call'[c].mishap = call[c].mishap
      BY <3>1, <3>3, <3>5 DEF Call, seen
    <3> QED BY <2>1, <3>4, <3>6 DEF Steady
  <2>3. CASE ~(pc[c] # "idle" /\ call[c].device = x)
    <3>1. call'[c] = call[c] BY <1>4, <2>3 DEF Regroup
    <3> QED BY <1>1, <2>1, <3>1
  <2> QED BY <2>2, <2>3
<1>5. CASE Tick \/ UNCHANGED vars BY <1>1, <1>5 DEF Tick, vars
<1>6. \/ Create \/ CreateGeneric \/ \E e \in Services : Acts(e)
      \/ \E x \in Members : \E g \in Regroupings[x] : Regroup(x, g)
      \/ Tick \/ UNCHANGED vars
  BY DEF Next, Acts
<1> QED BY <1>2, <1>3, <1>4, <1>5, <1>6

LEMMA StatusFounded ==
  ASSUME TypeInv, HonestInv, NEW c \in Services, pc[c] # "idle"
  PROVE  /\ verifyStatus(c) = 0 =>
              Good(tokens, call[c], now) /\ hasMaybeGroups(ClaimOf(tokens, call[c]))
         /\ verifyStatus(c) = 200 =>
              Good(tokens, call[c], now) /\ Placed(tokens, call[c])
         /\ verifyStatus(c) \in {400, 500} =>
              Excused(tokens, secrets, skew, c, call[c], now)
<1> DEFINE k == call[c]
           p == k.token
<1>1. /\ k \in Call /\ p \in Presentable /\ k.since <= now /\ now \in Nat
      /\ k.stamp = k.since + skew[c] /\ skew[c] \in Int /\ k.since \in Nat
  BY DEF TypeInv, TypeOK, Pending, Call
<1>2. now \in k.since .. now BY <1>1
<1>3. ASSUME verifyStatus(c) \in {0, 200} PROVE Good(tokens, k, now)
  <2>1. purposed(p) /\ validAt(tokens[p].jwt, now) BY <1>3 DEF verifyStatus
  <2> QED BY <1>2, <2>1 DEF Good, purposed, genuine, content
<1>4. verifyStatus(c) = 0 <=> verifyStatus(c) = 0 /\ hasMaybeGroups(ClaimOf(tokens, k))
  BY DEF verifyStatus, ClaimOf
<1>5. verifyStatus(c) = 200 => Placed(tokens, k) BY DEF verifyStatus, ClaimOf, Placed
<1>6. ASSUME verifyStatus(c) \in {400, 500}, p \in DOMAIN tokens, tokens[p].asked # {}
      PROVE  \/ \E t \in k.since .. now : ~validAt(tokens[p].jwt, t)
             \/ secrets[PointerOf[c]] # {c}
             \/ \E t \in k.since .. now :
                  LET off == skew[c] - (t - k.since) IN off >= HmacWindow \/ -off >= HmacWindow
  <2> PICK q \in tokens[p].asked : TRUE BY <1>6
  <2>1. Honest(tokens[p]) BY <1>6 DEF HonestInv
  <2>2. purposed(p) BY <1>6, <2>1, HonestReading
  <2>3. /\ q \in TokenPurposedClaim /\ localVerify(q)
        /\ tokens[p].jwt = encode(toTokenClaim(q), tokens[p].jwt.iat)
    BY <2>1 DEF Honest
  <2> DEFINE iat == tokens[p].jwt.iat
  <2>4. localVerify(decoded(tokens[p].jwt))
    <3> HIDE DEF iat
    <3>1. localVerify(decoded(encode(toTokenClaim(q), iat))) BY <2>3, CheckedBack
    <3> QED BY <2>3, <3>1 DEF iat
  <2>5. p \notin {Blank, Forged}
    <3>1. tokens \in Seq(Token) BY DEF TypeInv, TypeOK
    <3>2. p \in Nat BY <1>6, <3>1
    <3> QED BY <3>2, TokensAssumption
  <2>6. ~hmacVerified(c) \/ ~validAt(tokens[p].jwt, now)
    BY <1>6, <2>2, <2>4, <2>5 DEF verifyStatus
  <2>7. CASE ~validAt(tokens[p].jwt, now) BY <1>2, <2>7
  <2>8. CASE ~hmacVerified(c) /\ secrets[PointerOf[c]] = {c}
    <3> DEFINE off == skew[c] - (now - k.since)
    <3>1. now - k.stamp >= HmacWindow \/ k.stamp - now >= HmacWindow
      BY <1>1, <2>8, LimitsAssumption DEF hmacVerified
    <3>2. off >= HmacWindow \/ -off >= HmacWindow BY <1>1, <3>1, LimitsAssumption
    <3> QED BY <1>2, <3>2
  <2> QED BY <2>6, <2>7, <2>8
<1>7. verifyStatus(c) \in {400, 500} => Excused(tokens, secrets, skew, c, k, now)
  BY <1>6 DEF Excused
<1> QED BY <1>3, <1>4, <1>5, <1>7

LEMMA ReceiveFounded ==
  ASSUME TypeInv, HonestInv, NEW c \in Services, Founded(c), Receive(c)
  PROVE  Founded(c)'
<1>1. pc[c] = "sent" /\ UNCHANGED <<now, skew, secrets, tokens, call, result>>
  BY DEF Receive, Reached, Replied
<1>2. result'[c] = "none" BY <1>1 DEF Founded
<1>3. CASE verifyStatus(c) = 0
  <2>1. pc'[c] = "device" BY <1>3 DEF Receive, Reached, TypeInv, TypeOK
  <2> QED BY <1>1, <1>2, <1>3, <2>1, StatusFounded DEF Founded
<1>4. CASE verifyStatus(c) # 0
  <2>1. /\ pc'[c] = "replied" /\ reply'[c].status = verifyStatus(c)
        /\ verifyStatus(c) \in {200, 400, 500}
    BY <1>4, StatusType DEF Receive, Replied, Reached, Answer, TypeInv, TypeOK
  <2>2. CASE verifyStatus(c) = 200
    BY <1>1, <1>2, <2>1, <2>2, StatusFounded DEF Founded
  <2>3. CASE verifyStatus(c) \in {400, 500}
    BY <1>1, <1>2, <2>1, <2>3, StatusFounded DEF Founded
  <2> QED BY <2>1, <2>2, <2>3
<1> QED BY <1>3, <1>4

LEMMA DeviceGroupsFounded ==
  ASSUME TypeInv, NEW c \in Services, Founded(c), DeviceGroups(c)
  PROVE  Founded(c)'
<1> DEFINE k == call[c]
           listed == verifyGroupsListed(SetToBag(ClaimOf(tokens, k).targetGroups),
                                        groups[k.device])
           agrees == verifyGroups(ClaimOf(tokens, k).targetGroups, groups[k.device])
<1>1. /\ pc[c] = "device" /\ UNCHANGED <<now, skew, secrets, tokens, call, result>>
      /\ pc'[c] = "replied"
      /\ reply'[c].status = IF listed THEN 200 ELSE 400
  BY DEF DeviceGroups, Replied, Reached, Answer, ClaimOf, TypeInv, TypeOK
<1>2. /\ result[c] = "none" /\ Good(tokens, k, now) /\ hasMaybeGroups(ClaimOf(tokens, k))
      /\ groups[k.device] \in k.seen
  BY <1>1 DEF Founded, TypeInv, Pending
<1>3. groups[k.device] \in SUBSET Groups
  <2>1. k.device \in Members BY <1>1 DEF TypeInv, Pending, Call, Members
  <2> QED BY <2>1 DEF TypeInv, TypeOK
<1>4. listed <=> agrees BY <1>3, OnceEach, ListedAsSets
<1> HIDE DEF listed
<1>5. CASE listed
  <2>1. Placed(tokens, k) BY <1>2, <1>4, <1>5 DEF Placed
  <2> QED BY <1>1, <1>2, <1>5, <2>1 DEF Founded
<1>6. CASE ~listed
  <2>1. Excused(tokens, secrets, skew, c, k, now) BY <1>2, <1>4, <1>6 DEF Excused
  <2> QED BY <1>1, <1>2, <1>6, <2>1 DEF Founded
<1> QED BY <1>5, <1>6

LEMMA ConsoleFounded ==
  ASSUME TypeInv, NEW c \in Services, Founded(c), ConsoleFails(c)
  PROVE  Founded(c)'
<1>1. /\ pc[c] = "device" /\ UNCHANGED <<now, skew, secrets, tokens, result>>
      /\ pc'[c] = "replied" /\ reply'[c].status \in {400, 500}
      /\ call' = [call EXCEPT ![c] = [call[c] EXCEPT !.mishap = TRUE]]
  BY DEF ConsoleFails, Replied, Reached, Answer, TypeInv, TypeOK
<1>2. result[c] = "none" /\ call[c] \in Call BY <1>1 DEF Founded, TypeInv, Pending
<1>3. call'[c].mishap
  <2>1. call'[c] = [call[c] EXCEPT !.mishap = TRUE] BY <1>1 DEF TypeInv, TypeOK
  <2> QED BY <1>2, <2>1 DEF Call
<1>4. Excused(tokens', secrets', skew', c, call'[c], now') BY <1>3 DEF Excused
<1> QED BY <1>1, <1>2, <1>4 DEF Founded

LEMMA GatewayFounded ==
  ASSUME TypeInv, NEW c \in Services, Founded(c), GatewayAnswers(c)
  PROVE  Founded(c)'
<1>1. /\ pc[c] # "idle" /\ UNCHANGED <<call, result>> /\ pc'[c] = "replied"
      /\ ~reply'[c].json
  BY DEF GatewayAnswers, Replied, Reached, GatewayPage, TypeInv, TypeOK
<1> QED BY <1>1 DEF Founded

(* A call that hangs has no result yet.                                      *)
LEMMA HangFounded ==
  ASSUME TypeInv, NEW c \in Services, Founded(c), Hang(c)
  PROVE  Founded(c)'
<1>1. pc[c] # "idle" /\ UNCHANGED <<call, result>> /\ pc'[c] = "hanging"
  BY DEF Hang, Reached, TypeInv, TypeOK
<1> QED BY <1>1 DEF Founded

LEMMA EndFounded ==
  ASSUME TypeInv, NEW c \in Services, Founded(c), Return(c) \/ Break(c)
  PROVE  Founded(c)'
<1> DEFINE k == call[c]
           ended == call'[c]
<1>1. PICK value \in {"true", "false", "error"} :
        /\ Ended(c, value)
        /\ value = "true" => /\ pc[c] = "replied" /\ reply[c].json /\ reply[c].status <= 299
        /\ value = "false" => /\ pc[c] = "replied" /\ reply[c].json
                              /\ ~(reply[c].status <= 299)
  BY DEF Return, Break
<1>2. pc[c] # "idle" BY DEF Return, Break
<1>3. k \in Call /\ k.token \in Presentable /\ now \in Nat
  BY <1>2 DEF TypeInv, TypeOK, Pending
<1>4. /\ pc'[c] = "idle" /\ result'[c] = value
      /\ UNCHANGED <<now, skew, secrets, tokens>>
      /\ ended = [k EXCEPT !.until = {now}]
  BY <1>1 DEF Ended, TypeInv, TypeOK
<1>5. /\ ended \in Call /\ ended.token = k.token /\ ended.since = k.since
      /\ ended.seen = k.seen /\ ended.mishap = k.mishap /\ ended.until = {now}
  BY <1>3, <1>4 DEF Call
<1>6. /\ now <= now
      /\ \A i \in DOMAIN tokens : i \in DOMAIN tokens /\ tokens[i] = tokens[i]
  BY <1>3
<1>7. /\ Good(tokens, k, now) => Good(tokens, ended, now)
      /\ k.token \in DOMAIN tokens => (Placed(tokens, k) => Placed(tokens, ended))
      /\ Excused(tokens, secrets, skew, c, k, now) =>
           Excused(tokens, secrets, skew, c, ended, now)
  <2> HIDE DEF ended
  <2> QED BY <1>3, <1>5, <1>6, ReasonsStay
<1>8. Good(tokens, k, now) => k.token \in DOMAIN tokens BY DEF Good
<1>9. ended.token \in Presentable' BY <1>3, <1>4, <1>5 DEF Presentable
<1>10. CASE value = "true"
  <2>1. Good(tokens, ended, now) /\ Placed(tokens, ended)
    BY <1>1, <1>7, <1>8, <1>10 DEF Founded
  <2> QED BY <1>3, <1>4, <1>5, <1>9, <1>10, <2>1 DEF Founded
<1>11. CASE value = "false"
  <2>1. Excused(tokens, secrets, skew, c, ended, now)
    BY <1>1, <1>7, <1>11 DEF Founded
  <2> QED BY <1>3, <1>4, <1>5, <1>9, <1>11, <2>1 DEF Founded
<1>12. CASE value = "error" BY <1>4, <1>12 DEF Founded
<1> QED BY <1>10, <1>11, <1>12

LEMMA CallNext ==
  TypeInv /\ TypeInv' /\ HonestInv /\ CallInv /\ [Next]_vars => CallInv'
<1> SUFFICES ASSUME TypeInv, TypeInv', HonestInv, CallInv, [Next]_vars, NEW c \in Services
             PROVE  Founded(c)'
  BY DEF CallInv
<1>1. Founded(c) BY DEF CallInv
<1>2. CASE ~Acts(c) BY <1>1, <1>2, Background, Bystander, FoundedKept
<1>3. ASSUME NEW p \in Presentable, NEW d \in Identities, Read(c, p, d) \/ Ask(c, p, d)
      PROVE  Founded(c)'
  BY <1>3 DEF Read, Ask, Founded, TypeInv, TypeOK
<1>4. CASE Proceed(c)
  BY <1>1, <1>4, ReceiveFounded, DeviceGroupsFounded, ConsoleFounded, EndFounded DEF Proceed
<1>5. CASE Hang(c) \/ GatewayAnswers(c) \/ Break(c)
  BY <1>1, <1>5, HangFounded, GatewayFounded, EndFounded
<1> QED BY <1>2, <1>3, <1>4, <1>5 DEF Acts

LEMMA CallInvariant == Spec => []CallInv
<1>1. Init => CallInv BY DEF Init, CallInv, Founded
<1> QED BY <1>1, CallNext, TypeInvariant, HonestInvariant, PTL DEF Spec

(* What externalStateVerify confirms has been so during the call, for any      *)
(* tokens, clocks and movements of devices between its steps.                *)
THEOREM ConfirmationsAreFounded == Spec => []ConfirmedDuringCall
<1>1. CallInv => ConfirmedDuringCall
  BY DEF CallInv, Founded, Good, Placed, ClaimOf, ConfirmedDuringCall, purposed, genuine, content
<1> QED BY <1>1, CallInvariant, PTL

(* A purposed token is refused only for one of the reasons the property        *)
(* lists, whatever is claimed and whenever.                                  *)
THEOREM RefusalsAreFounded == Spec => []RefusedForCause
<1>1. CallInv => RefusedForCause
  <2> SUFFICES ASSUME CallInv, NEW c \in Services, result[c] = "false",
                      genuine(call[c].token), tokens[call[c].token].asked # {}
               PROVE  LET p == call[c].token
                          claim == decoded(tokens[p].jwt)
                          during == UNION {call[c].since .. last : last \in call[c].until}
                      IN  \/ \E t \in during : ~validAt(tokens[p].jwt, t)
                          \/ /\ hasMaybeGroups(claim)
                             /\ \E g \in call[c].seen : ~verifyGroups(claim.targetGroups, g)
                          \/ secrets[PointerOf[c]] # {c}
                          \/ call[c].mishap
                          \/ \E t \in during :
                               LET off == skew[c] - (t - call[c].since)
                               IN  off >= HmacWindow \/ -off >= HmacWindow
    BY DEF RefusedForCause
  <2> PICK last \in Nat :
        call[c].until = {last} /\ Excused(tokens, secrets, skew, c, call[c], last)
    BY DEF CallInv, Founded
  <2>1. UNION {call[c].since .. l : l \in call[c].until} = call[c].since .. last
    OBVIOUS
  <2> QED BY <2>1 DEF Excused, ClaimOf, genuine
<1> QED BY <1>1, CallInvariant, PTL
=============================================================================
