----------------------------- MODULE MCTokenService ----------------------------
(* Small instances of the token service for TLC.                            *)
EXTENDS TokenServiceRefinement, TLC

CONSTANTS t1, t2, d1, g1, g2, name, k1, k2, site

RequestSymmetry == Permutations(Requests)

------------------------------------------------------------------------------
(* Claims. A claim of tenant t, valid for life seconds.                     *)

ClaimOf(t, ids, gs, scp, life) ==
  [tenantId |-> t, purpose |-> 6, targetIdentities |-> ids, targetGroups |-> gs,
   expiration |-> life, notBefore |-> {}, originDomains |-> {}, scopes |-> {{scp}}]

PlainClaims == {ClaimOf(t1, {d1}, {}, "upp:verify", {})}

(* One claim that passes and one for each check that fails.                 *)
MixedClaims ==
  LET good == ClaimOf(t1, {Wildcard}, {}, "upp:verify", {1}) IN
  {good, [good EXCEPT !.purpose = 5], [good EXCEPT !.targetIdentities = {}],
   [good EXCEPT !.targetIdentities = {d1, Blank}],
   [good EXCEPT !.originDomains = Domains], [good EXCEPT !.scopes = {{}}]}

BootstrapClaims == {ClaimOf(t1, {}, {g1}, "thing:bootstrap", {1})}

(* Groups by id, by name, and partly not the tenant's; a claim too short.    *)
GroupClaims ==
  {ClaimOf(t1, {}, gs, "upp:verify", {1}) : gs \in {{g1}, {g1, g2}, {name}}}
    \cup {[ClaimOf(t1, {}, {g1}, "upp:verify", {1}) EXCEPT !.purpose = 5]}

(* A claim the lenient check lets a member of one group make about two.     *)
LenientClaims == {ClaimOf(t1, {}, {g1, g2}, "thing:bootstrap", {1})}

(* A generic token that looks like a purposed one, and one that does not.   *)
GenericTokens ==
  LET alike == toTokenClaim(ClaimOf(t2, {d1}, {g2}, "upp:verify", {})) IN
  {[alike EXCEPT !.ownerId = t1], alike, [alike EXCEPT !.content = Opaque]}

------------------------------------------------------------------------------
(* Surroundings                                                             *)

OneName == [g \in Groups |-> name]
NoGroups == [x \in Members |-> {}]
TenantInG1 == [x \in Members |-> IF x = t1 THEN {g1} ELSE {}]
MixedStart == [x \in Members |-> IF x = t1 THEN {g1} ELSE {g2}]
KeyK1 == [d \in Identities |-> {k1}]
Never == [x \in Members |-> {}]
TenantLeaves == [x \in Members |-> IF x = t1 THEN {{}} ELSE {}]
BothMove == [x \in Members |-> IF x = t2 THEN {} ELSE {{}, {g1}, {g2}}]
NoKeys == [d \in Identities |-> {}]
NoStamp == {}
SomeStamps == {{}, {0}, {2}}
=============================================================================
