------------------------- MODULE MCVerificationExchange -------------------------
(* A small instance of the exchange between services and the manager.         *)
EXTENDS VerificationExchange, TLC

CONSTANTS t1, d1, g1, g2, name, s1, p1, site1, site2

SomeIssuers == {Manager, Wildcard}

Asking(ids, bag, life, domains, scps) ==
  [claim |-> [tenantId |-> t1, purpose |-> 6, targetIdentities |-> ids,
              targetGroups |-> BagToSet(bag), expiration |-> life, notBefore |-> {},
              originDomains |-> domains, scopes |-> {scps}],
   groups |-> bag]

Once(S) == SetToBag(S)
Twice(x) == SetToBag({x}) (+) SetToBag({x})

(* By device, by wildcard, by ids and by a name two groups share; a group and *)
(* a name claimed twice; scopes of one and of two audiences.                 *)
SomeBodies ==
  {Asking({d1}, EmptyBag, {1}, {site1}, {"upp:verify"}),
   Asking({Wildcard}, Once({g1}), {}, {}, {"upp:anchor", "thing:create"}),
   Asking({}, Once({name}), {1}, {}, {"upp:verify", "thing:getinfo"}),
   Asking({}, Twice(g1), {}, {}, {"upp:verify"}),
   Asking({}, Twice(name), {}, {}, {"upp:verify"})}

TwoOrigins == {Asking({d1}, EmptyBag, {}, {site1, site2}, {"upp:verify"})}

(* Of another issuer, and with a content that is no purposed claim.           *)
SomeTokens ==
  LET alike == toTokenClaim(Asking({d1}, EmptyBag, {}, {}, {"upp:verify"}).claim) IN
  {[claim |-> alike, issuer |-> Wildcard, audience |-> {"verify"}],
   [claim |-> [alike EXCEPT !.content = Opaque], issuer |-> Manager, audience |-> {"verify"}]}

NoTokens == {}

OneName == [g \in Groups |-> name]
Scopes == [c \in Services |-> {"upp:verify"}]
Audiences == [c \in Services |-> {"verify"}]
OwnPointer == [c \in Services |-> p1]
(* The manager has been told the secret of the service, or it has not.       *)
TwoPools == {p1 :> {s1}, p1 :> {}}
Clocks == {-1, 1, 2}
SameClock == {0}
NoGroups == [x \in Members |-> {}]
TenantInBoth == [x \in Members |-> IF x = t1 THEN {g1, g2} ELSE {}]
(* A device moves about.                                                     *)
Moving == [x \in Members |-> IF x = t1 THEN {} ELSE {{}, {g1}, {g1, g2}}]
Never == [x \in Members |-> {}]
=============================================================================
