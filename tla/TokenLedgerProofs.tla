--------------------------- MODULE TokenLedgerProofs ---------------------------
(****************************************************************************)
(* The token service implements the ledger of tokens, and only the owner of   *)
(* a token erases it: for any requests, tenants, claims, groups and keys.      *)
(****************************************************************************)
EXTENDS TokenServiceRefinement, TokenServiceProofs

(* A signed token is sent to the table, in it, deleted from it or lost, never  *)
(* two of these.                                                             *)
TableInv ==
  /\ writes \cap (rows \cup erased) = {} /\ rows \cap erased = {}
  /\ \A r \in Requests : pc[r] = "erase" => call[r].op = "delete"

(* The tokens of one request are of one owner: those it has signed, that of    *)
(* the token it was presented, and those of its result.                       *)
Sole(r) ==
  /\ call[r].op = "bootstrap" =>
       \A k \in DOMAIN made[r] :
         /\ call[r].token \in Ids
         /\ tokens[made[r][k]].ownerId = tokens[call[r].token].jwt.sub
  /\ \A i, j \in outcome[r].ids : tokens[i].ownerId = tokens[j].ownerId

SoleInv == \A r \in Requests : Sole(r)

------------------------------------------------------------------------------
(* Frames                                                                   *)

(* Tokens are only added, and those signed are never changed.                 *)
Grown == \A i \in Ids : i \in DOMAIN tokens' /\ tokens'[i] = tokens[i]

LEMMA MintGrows ==
  ASSUME TypeInv, NEW r \in Requests, Mint(r)
  PROVE  /\ Grown
         /\ tokens' = Append(tokens, nextToken(r)) /\ tokens \in Seq(Token)
         /\ nextToken(r) \in Token
         /\ Len(tokens) + 1 \notin Ids /\ Len(tokens) + 1 \in DOMAIN tokens'
         /\ tokens'[Len(tokens) + 1] = nextToken(r)
<1>1. tokens \in Seq(Token) /\ tokens' = Append(tokens, nextToken(r)) /\ nextToken(r) \in Token
  BY NextTokenType DEF TypeInv, TypeOK, Mint
<1> QED BY <1>1 DEF Grown, Ids

LEMMA Growth == TypeInv /\ [Next]_vars => Grown
<1> SUFFICES ASSUME TypeInv, [Next]_vars PROVE Grown OBVIOUS
<1>1. CASE UNCHANGED tokens BY <1>1 DEF Grown, Ids
<1>2. ASSUME NEW r \in Requests, Arrive(r) PROVE UNCHANGED tokens
  BY <1>2, ArriveFrame DEF OnlySlot
<1>3. ASSUME NEW r \in Requests, Step(r) PROVE Grown
  <2>1. CASE Mint(r) BY <2>1, MintGrows
  <2>2. CASE ~Mint(r)
    BY <1>1, <1>3, <2>2
    DEF Step, TenantGroups, DeviceGroups, GroupsFail, IdentityKey, IdentityKeyFails,
        MintRefused, MintFails, InsertDone, InsertFails, RowsRead, RowDeleted, StorageFails,
        Respond, Untouched
  <2> QED BY <2>1, <2>2
<1>4. ASSUME NEW r \in Requests, Timeout(r) PROVE UNCHANGED tokens BY <1>4 DEF Timeout
<1>5. CASE Environment
  <2>1. UNCHANGED tokens
    BY <1>5 DEF Environment, WriteLands, WriteLost, Settle, Regroup, Register, Tick, Crash
  <2> QED BY <1>1, <2>1
<1>6. CASE UNCHANGED vars BY <1>1, <1>6 DEF vars
<1> QED BY <1>1, <1>2, <1>3, <1>4, <1>5, <1>6 DEF Next

(* A step or a timeout of a request leaves the other requests alone.          *)
LEMMA OthersStay ==
  ASSUME TypeInv, NEW r \in Requests, Step(r) \/ Timeout(r), NEW q \in Requests \ {r}
  PROVE  UNCHANGED <<pc[q], call[q], made[q], outcome[q], reply[q]>>
<1> USE DEF TypeInv, TypeOK
<1>1. ASSUME NEW out, Finish(r, out) PROVE UNCHANGED <<pc[q], call[q], made[q], outcome[q], reply[q]>>
  BY <1>1 DEF Finish
<1>2. ASSUME NEW stage, Goto(r, stage) PROVE UNCHANGED <<pc[q], call[q], made[q], outcome[q], reply[q]>>
  BY <1>2 DEF Goto
<1>3. CASE TenantGroups(r) BY <1>1, <1>2, <1>3 DEF TenantGroups
<1>4. CASE DeviceGroups(r) BY <1>1, <1>4 DEF DeviceGroups
<1>5. CASE GroupsFail(r) \/ IdentityKeyFails(r) \/ MintRefused(r) \/ MintFails(r)
           \/ InsertFails(r) \/ StorageFails(r)
  BY <1>1, <1>5 DEF GroupsFail, IdentityKeyFails, MintRefused, MintFails, InsertFails, StorageFails
<1>6. CASE IdentityKey(r) BY <1>1, <1>2, <1>6 DEF IdentityKey
<1>7. CASE InsertDone(r) BY <1>1, <1>2, <1>7 DEF InsertDone
<1>8. CASE RowsRead(r) \/ RowDeleted(r) BY <1>1, <1>8 DEF RowsRead, RowDeleted
<1>9. CASE Mint(r) \/ Respond(r) \/ Timeout(r) BY <1>9 DEF Mint, Respond, Timeout
<1> QED BY <1>3, <1>4, <1>5, <1>6, <1>7, <1>8, <1>9 DEF Step
------------------------------------------------------------------------------
(* The table                                                                *)

(* The statement of a delete concerns at most the row it names, of its owner. *)
LEMMA DeleteNarrow ==
  ASSUME NEW owner, NEW id
  PROVE  /\ deleteQ(owner, id) \subseteq rows \cup writes
         /\ \A i \in deleteQ(owner, id) : i \in Ids /\ i = id /\ tokens[i].ownerId = owner
BY DEF deleteQ, byOwnerIdAndId, byOwnerId

(* A delete is the only call that reaches the stage of deleting.              *)
LEMMA EraseIsDelete ==
  ASSUME TypeInv, NEW r \in Requests, Arrive(r), pc'[r] = "erase"
  PROVE  call'[r].op = "delete"
<1> USE DEF TypeInv, TypeOK
<1>1. ASSUME NEW STATE c, NEW STATE stage, NEW STATE out, Begin(r, c, stage, out)
      PROVE  stage = "erase" /\ call'[r] = c
  BY <1>1 DEF Begin
<1>2. ASSUME NEW STATE c, NEW status, Refuse(r, c, status) PROVE FALSE
  BY <1>1, <1>2 DEF Refuse
<1>3. CASE Create(r) BY <1>1, <1>2, <1>3 DEF Create, Proceed
<1>4. CASE CreateGeneric(r) BY <1>1, <1>4 DEF CreateGeneric, Proceed
<1>q. ASSUME NEW STATE c, NEW STATE out, Begin(r, c, "read", out) PROVE FALSE
  BY <1>1, <1>q
<1>5. CASE List(r) \/ Get(r) BY <1>q, <1>5 DEF List, Get, Query, Proceed
<1>6. CASE Delete(r) BY <1>1, <1>6 DEF Delete, Proceed
<1>7. CASE Verify(r) BY <1>1, <1>2, <1>7 DEF Verify, Proceed
<1>8. CASE Bootstrap(r) BY <1>1, <1>8 DEF Bootstrap, Proceed
<1>9. CASE Unauthorized(r) BY <1>9 DEF Unauthorized
<1>10. CASE Malformed(r) BY <1>2, <1>10 DEF Malformed
<1> QED BY <1>3, <1>4, <1>5, <1>6, <1>7, <1>8, <1>9, <1>10 DEF Arrive

(* No request goes on to the stage of deleting.                              *)
LEMMA EraseIsFirst ==
  ASSUME TypeInv, NEW r \in Requests, Step(r)
  PROVE  pc'[r] # "erase"
<1> USE DEF TypeInv, TypeOK
<1>1. ASSUME NEW out, Finish(r, out) PROVE pc'[r] = "respond" BY <1>1 DEF Finish
<1>2. ASSUME NEW stage, Goto(r, stage) PROVE pc'[r] = stage BY <1>2 DEF Goto
<1>3. CASE TenantGroups(r) BY <1>1, <1>2, <1>3 DEF TenantGroups
<1>4. CASE DeviceGroups(r) BY <1>1, <1>4 DEF DeviceGroups
<1>5. CASE GroupsFail(r) \/ IdentityKeyFails(r) \/ MintRefused(r) \/ MintFails(r)
           \/ InsertFails(r) \/ StorageFails(r)
  BY <1>1, <1>5 DEF GroupsFail, IdentityKeyFails, MintRefused, MintFails, InsertFails, StorageFails
<1>6. CASE IdentityKey(r) BY <1>1, <1>2, <1>6 DEF IdentityKey
<1>7. CASE InsertDone(r) BY <1>1, <1>2, <1>7 DEF InsertDone
<1>8. CASE RowsRead(r) \/ RowDeleted(r) BY <1>1, <1>8 DEF RowsRead, RowDeleted
<1>9. CASE Mint(r) \/ Respond(r) BY <1>9 DEF Mint, Respond
<1> QED BY <1>3, <1>4, <1>5, <1>6, <1>7, <1>8, <1>9 DEF Step

LEMMA TableNext == TypeInv /\ TableInv /\ [Next]_vars => TableInv'
<1> SUFFICES ASSUME TypeInv, TableInv, [Next]_vars PROVE TableInv' OBVIOUS
<1> DEFINE Apart == writes \cap (rows \cup erased) = {} /\ rows \cap erased = {}
           Erasing == \A r \in Requests : pc[r] = "erase" => call[r].op = "delete"
<1>0. Apart /\ Erasing BY DEF TableInv
<1>1. CASE UNCHANGED vars
  BY <1>1 DEF vars, table, TableInv
<1>2. ASSUME NEW r \in Requests, Arrive(r) PROVE TableInv'
  <2>1. OnlySlot(r) BY <1>2, ArriveFrame
  <2>2. Erasing'
    BY <1>0, <1>2, <2>1, EraseIsDelete DEF OnlySlot
  <2> QED BY <2>1, <2>2 DEF TableInv, OnlySlot, table
<1>3. ASSUME NEW r \in Requests, Step(r) \/ Timeout(r) PROVE TableInv'
  <2>1. Erasing'
    <3>1. \A q \in Requests \ {r} : UNCHANGED <<pc[q], call[q]>> BY <1>3, OthersStay
    <3>2. CASE Step(r) BY <1>0, <3>1, <3>2, EraseIsFirst
    <3>3. CASE Timeout(r) BY <1>0, <3>3 DEF Timeout
    <3> QED BY <1>3, <3>2, <3>3
  <2>2. Apart'
    <3>1. CASE Mint(r)
      BY <3>1, MintGrows DEF Mint, TableInv, TypeInv, TypeOK, Ids
    <3>2. CASE RowDeleted(r)
      BY <3>2, DeleteNarrow DEF RowDeleted, TableInv
    <3>3. CASE ~Mint(r) /\ ~RowDeleted(r)
      <4>1. UNCHANGED <<writes, rows, erased>>
        BY <1>3, <3>3
        DEF Step, TenantGroups, DeviceGroups, GroupsFail, IdentityKey, IdentityKeyFails,
            MintRefused, MintFails, InsertDone, InsertFails, RowsRead, StorageFails,
            Respond, Timeout, Untouched, table
      <4> QED BY <1>0, <4>1
    <3> QED BY <3>1, <3>2, <3>3
  <2> QED BY <2>1, <2>2 DEF TableInv
<1>4. CASE Environment
  <2>1. CASE \E i \in Ids : WriteLands(i) \/ WriteLost(i) \/ Settle(i)
    BY <2>1 DEF WriteLands, WriteLost, Settle, TableInv, slots
  <2>2. CASE \E x \in Members : \E g \in Regroupings[x] : Regroup(x, g)
    BY <2>2 DEF Regroup, TableInv, slots, table
  <2>3. CASE \E d \in Identities, k \in Keys : Register(d, k)
    BY <2>3 DEF Register, TableInv, slots, table
  <2>4. CASE Tick
    BY <2>4 DEF Tick, TableInv, slots, table
  <2>5. CASE Crash
    BY <2>5 DEF Crash, TableInv, table
  <2> QED BY <1>4, <2>1, <2>2, <2>3, <2>4, <2>5 DEF Environment
<1> QED BY <1>1, <1>2, <1>3, <1>4 DEF Next

LEMMA TableInit == Init => TableInv
BY DEF Init, TableInv

(* A row disappears only by a delete of the token's owner that names it, and   *)
(* one that a late insert would bring back stays deleted.                     *)
THEOREM OnlyOwnersErase == Spec => OnlyOwnerErases
<1>1. ASSUME TypeInv, TableInv, TableInv', [Next]_vars
      PROVE  [/\ rows \ rows' \subseteq erased' \ erased
              /\ erased' \cap rows' = {}
              /\ \A i \in erased' \ erased : \E r \in Requests :
                   /\ pc[r] = "erase" /\ call[r].op = "delete"
                   /\ call[r].id = i /\ call[r].who = tokens[i].ownerId]_vars
  <2>1. erased' \cap rows' = {} BY <1>1 DEF TableInv
  <2>2. CASE UNCHANGED vars BY <2>2
  <2>3. ASSUME NEW r \in Requests, RowDeleted(r)
        PROVE  /\ rows \ rows' \subseteq erased' \ erased
               /\ \A i \in erased' \ erased :
                    /\ pc[r] = "erase" /\ call[r].op = "delete"
                    /\ call[r].id = i /\ call[r].who = tokens[i].ownerId
    BY <1>1, <2>3, DeleteNarrow DEF RowDeleted, TableInv
  <2>4. CASE \A r \in Requests : ~RowDeleted(r)
    <3>1. ASSUME NEW r \in Requests, Arrive(r) PROVE UNCHANGED <<rows, erased>>
      BY <1>1, <3>1, ArriveFrame DEF OnlySlot, table
    <3>2. ASSUME NEW r \in Requests, Step(r) \/ Timeout(r) PROVE UNCHANGED <<rows, erased>>
      BY <2>4, <3>2
      DEF Step, TenantGroups, DeviceGroups, GroupsFail, IdentityKey, IdentityKeyFails,
          MintRefused, MintFails, Mint, InsertDone, InsertFails, RowsRead, StorageFails,
          Respond, Timeout, Untouched, table
    <3>3. CASE Environment
      <4>1. rows \subseteq rows' /\ erased' = erased
        BY <3>3 DEF Environment, WriteLands, WriteLost, Settle, Regroup, Register, Tick,
                    Crash, table
      <4> QED BY <2>1, <4>1
    <3> QED BY <1>1, <2>1, <2>2, <3>1, <3>2, <3>3 DEF Next
  <2> QED BY <2>1, <2>3, <2>4
<1> QED
  BY <1>1, TableInit, TableNext, TypeInvariant, PTL DEF Spec, OnlyOwnerErases
------------------------------------------------------------------------------
(* Owners                                                                   *)

(* Tokens that are added change nothing about a request that does not move.   *)
LEMMA SoleStable ==
  ASSUME TypeInv, NEW q \in Requests, Sole(q), Grown,
         UNCHANGED <<call[q], made[q], outcome[q]>>
  PROVE  Sole(q)'
<1>1. /\ \A k \in DOMAIN made[q] : made[q][k] \in Ids
      /\ outcome[q].ids \subseteq Ids
  BY DEF TypeInv, Shaped
<1> QED BY <1>1 DEF Sole, Grown, Ids

LEMMA SoleStep ==
  ASSUME TypeInv, SoleInv, NEW r \in Requests, Step(r), Grown
  PROVE  Sole(r)'
<1>1. /\ pc \in [Requests -> Stages] /\ made \in [Requests -> Seq(Nat)]
      /\ call \in [Requests -> Call] /\ outcome \in [Requests -> Answer]
      /\ Shaped(r) /\ Sole(r)
  BY DEF TypeInv, TypeOK, SoleInv
<1>2. ASSUME NEW STATE out, Finish(r, out),
             \A i, j \in out.ids : i \in Ids /\ tokens[i].ownerId = tokens[j].ownerId
      PROVE  Sole(r)'
  <2>1. /\ outcome'[r] = out /\ UNCHANGED <<call[r], made[r]>>
    BY <1>1, <1>2 DEF Finish
  <2>2. \A k \in DOMAIN made[r] : made[r][k] \in Ids
    BY <1>1 DEF Shaped
  <2> QED BY <1>1, <1>2, <2>1, <2>2 DEF Sole, Grown, Ids
<1>3. ASSUME NEW status, Finish(r, Failed(status)) PROVE Sole(r)'
  BY <1>2, <1>3 DEF Failed
<1>4. ASSUME NEW stage, Goto(r, stage) PROVE Sole(r)'
  BY <1>1, <1>4, SoleStable DEF Goto
<1>5. ASSUME Finish(r, Ok({})) PROVE Sole(r)'
  BY <1>2, <1>5 DEF Ok
<1>6. CASE TenantGroups(r) BY <1>3, <1>4, <1>6 DEF TenantGroups
<1>7. CASE DeviceGroups(r) BY <1>3, <1>5, <1>7 DEF DeviceGroups
<1>8. CASE GroupsFail(r) \/ IdentityKeyFails(r) \/ MintRefused(r) \/ MintFails(r)
           \/ InsertFails(r) \/ StorageFails(r)
  BY <1>3, <1>8 DEF GroupsFail, IdentityKeyFails, MintRefused, MintFails, InsertFails, StorageFails
<1>9. CASE IdentityKey(r) BY <1>3, <1>4, <1>9 DEF IdentityKey
<1>10. CASE Mint(r)
  <2> DEFINE id == Len(tokens) + 1
  <2>1. /\ made'[r] = Append(made[r], id) /\ UNCHANGED <<call, outcome>>
        /\ pc[r] = "mint" /\ mintStatus(r) = 0
    BY <1>1, <1>10 DEF Mint
  <2>2. tokens'[id] = nextToken(r) BY <1>10, MintGrows
  <2>3. call[r].op = "bootstrap" =>
          /\ call[r].token \in Ids
          /\ nextToken(r).ownerId = tokens[call[r].token].jwt.sub
    BY <2>1, NextTokenType
  <2>4. \A k \in DOMAIN made[r] : made[r][k] \in Ids BY <1>1 DEF Shaped
  <2> HIDE DEF id
  <2>5. \A k \in DOMAIN made'[r] :
          \/ k \in DOMAIN made[r] /\ made'[r][k] = made[r][k]
          \/ made'[r][k] = id
    BY <1>1, <2>1
  <2>6. call[r].op = "bootstrap" =>
          \A k \in DOMAIN made'[r] :
            /\ call[r].token \in DOMAIN tokens'
            /\ tokens'[made'[r][k]].ownerId = tokens'[call[r].token].jwt.sub
    BY <1>1, <2>2, <2>3, <2>4, <2>5 DEF Sole, Grown, Ids
  <2>7. \A i, j \in outcome[r].ids : tokens'[i].ownerId = tokens'[j].ownerId
    BY <1>1 DEF Sole, Shaped, Grown
  <2> QED BY <2>1, <2>6, <2>7 DEF Sole, Ids
<1>11. CASE InsertDone(r)
  <2> DEFINE all == {made[r][k] : k \in DOMAIN made[r]}
  <2>1. pc[r] = "insert" /\ (Goto(r, "mint") \/ Finish(r, Ok(all)))
    BY <1>11 DEF InsertDone
  <2>2. \A k \in DOMAIN made[r] : made[r][k] \in Ids BY <1>1 DEF Shaped
  <2>3. call[r].op # "bootstrap" => Len(made[r]) = 1
    <3>1. Len(made[r]) \in 1 .. needed(call[r]) BY <1>1, <2>1 DEF Shaped
    <3>2. needed(call[r]) \in Nat /\ needed(call[r]) # 0
      BY <1>1, <3>1, NeededTokens
    <3>3. call[r].op # "bootstrap" => needed(call[r]) = 1
      BY <1>1, <3>2, NeededTokens
    <3>4. \A n : n \in 1 .. 1 => n = 1 OBVIOUS
    <3>5. ASSUME call[r].op # "bootstrap" PROVE Len(made[r]) \in 1 .. 1
      BY <3>1, <3>3, <3>5, Zenon
    <3> QED BY <3>4, <3>5
  <2>4. \A k, l \in DOMAIN made[r] : tokens[made[r][k]].ownerId = tokens[made[r][l]].ownerId
    <3>1. CASE call[r].op = "bootstrap" BY <1>1, <3>1 DEF Sole
    <3>2. CASE call[r].op # "bootstrap"
      BY <1>1, <2>3, <3>2
    <3> QED BY <3>1, <3>2
  <2>5. \A i, j \in Ok(all).ids : i \in Ids /\ tokens[i].ownerId = tokens[j].ownerId
    BY <2>2, <2>4 DEF Ok
  <2> HIDE DEF all
  <2> QED BY <1>2, <1>4, <2>1, <2>5
<1>12. CASE RowsRead(r)
  <2> PICK seen \in SUBSET ((rows \cup (erased \cap unsettled)) \cap selected(call[r])) :
        Finish(r, Ok(seen))
    BY <1>12 DEF RowsRead
  <2>1. \A i \in seen : i \in Ids /\ tokens[i].ownerId = call[r].who
    BY DEF selected, byOwnerId, byOwnerIdAndId
  <2> QED BY <1>2, <2>1 DEF Ok
<1>13. CASE RowDeleted(r) BY <1>3, <1>5, <1>13 DEF RowDeleted
<1>14. CASE Respond(r)
  BY <1>1, <1>14, SoleStable DEF Respond
<1> QED
  BY <1>6, <1>7, <1>8, <1>9, <1>10, <1>11, <1>12, <1>13, <1>14 DEF Step

LEMMA SoleNext == TypeInv /\ SoleInv /\ [Next]_vars => SoleInv'
<1> SUFFICES ASSUME TypeInv, SoleInv, [Next]_vars, NEW q \in Requests PROVE Sole(q)'
  BY DEF SoleInv
<1>0. Grown /\ Sole(q) BY Growth DEF SoleInv
<1>1. CASE UNCHANGED slots BY <1>0, <1>1, SoleStable DEF slots
<1>2. ASSUME NEW r \in Requests, Arrive(r) PROVE Sole(q)'
  <2>1. OnlySlot(r) BY <1>2, ArriveFrame
  <2>2. CASE q = r BY <2>1, <2>2 DEF OnlySlot, Sole
  <2> QED BY <1>0, <2>1, <2>2, SoleStable DEF OnlySlot
<1>3. ASSUME NEW r \in Requests, Step(r) \/ Timeout(r) PROVE Sole(q)'
  <2>1. CASE q # r BY <1>0, <1>3, <2>1, OthersStay, SoleStable
  <2>2. CASE q = r /\ Timeout(r) BY <1>0, <2>2, SoleStable DEF Timeout
  <2> QED BY <1>0, <1>3, <2>1, <2>2, SoleStep
<1>4. CASE Environment
  <2>1. CASE Crash
    BY <2>1 DEF Crash, Sole, NoAnswer, Failed, NoCall
  <2>2. CASE ~Crash
    BY <1>1, <1>4, <2>2 DEF Environment, WriteLands, WriteLost, Settle, Regroup, Register, Tick
  <2> QED BY <2>1, <2>2
<1>5. CASE UNCHANGED vars BY <1>1, <1>5 DEF vars, slots
<1> QED BY <1>2, <1>3, <1>4, <1>5 DEF Next

LEMMA SoleInit == Init => SoleInv
BY DEF Init, SoleInv, Sole, NoAnswer, Failed

------------------------------------------------------------------------------
(* The refinement                                                           *)

owners == [i \in Ids |-> tokens[i].ownerId]

LedgerInv == TypeInv /\ KeptInv /\ TableInv /\ SoleInv

LEMMA LedgerInvariant == Spec => []LedgerInv
<1>1. Init => LedgerInv
  BY TypeInit, TableInit, SoleInit
  DEF LedgerInv, Init, KeptInv, DeliveredTokensAreKept, Stored, NoAnswer, Failed
<1>2. LedgerInv /\ [Next]_vars => LedgerInv'
  BY TypeNext, KeptNext, TableNext, SoleNext DEF LedgerInv
<1> QED BY <1>1, <1>2, PTL DEF Spec

(* While no token is signed the owners stay.                                  *)
LEMMA OwnersStay == UNCHANGED tokens => UNCHANGED owners
BY DEF owners, Ids

(* A step that touches neither tokens nor table nor what was delivered is a    *)
(* stutter of the ledger.                                                    *)
LEMMA Stutter ==
  ASSUME UNCHANGED <<tokens, rows, erased, delivered>>
  PROVE  UNCHANGED <<owners, rows, erased, delivered>>
BY OwnersStay

LEMMA LedgerMint ==
  ASSUME LedgerInv, NEW r \in Requests, Mint(r)
  PROVE  \E o \in Tenants : /\ owners' = Append(owners, o)
                            /\ UNCHANGED <<rows, erased, delivered>>
<1> DEFINE new == nextToken(r)
<1>1. /\ tokens \in Seq(Token) /\ tokens' = Append(tokens, new) /\ new \in Token
      /\ UNCHANGED <<rows, erased, delivered>>
  BY MintGrows DEF LedgerInv, Mint
<1>2. new.ownerId \in Tenants BY <1>1 DEF Token
<1> HIDE DEF new
<1>3. owners \in Seq(Tenants) /\ Len(owners) = Len(tokens)
  <2>1. owners = [i \in 1 .. Len(tokens) |-> tokens[i].ownerId] /\ Len(tokens) \in Nat
    BY <1>1 DEF owners, Ids
  <2>2. ASSUME NEW i \in 1 .. Len(tokens) PROVE tokens[i].ownerId \in Tenants
    <3>1. tokens[i] \in Token BY <1>1
    <3> QED BY <3>1 DEF Token
  <2>3. owners \in [1 .. Len(tokens) -> Tenants] BY <2>1, <2>2
  <2> QED BY <2>1, <2>3
<1>4. owners' = Append(owners, new.ownerId)
  <2>1. owners' = [i \in 1 .. Len(tokens) + 1 |-> tokens'[i].ownerId] BY <1>1 DEF owners, Ids
  <2>2. Append(owners, new.ownerId) =
          [i \in 1 .. Len(tokens) + 1 |-> IF i <= Len(tokens) THEN owners[i] ELSE new.ownerId]
    BY <1>1, <1>2, <1>3
  <2>3. \A i \in 1 .. Len(tokens) + 1 :
          tokens'[i].ownerId = IF i <= Len(tokens) THEN owners[i] ELSE new.ownerId
    BY <1>1 DEF owners, Ids
  <2> QED BY <2>1, <2>2, <2>3
<1> QED BY <1>1, <1>2, <1>4

LEMMA LedgerRespond ==
  ASSUME LedgerInv, NEW r \in Requests, Respond(r)
  PROVE  \E S \in SUBSET Ids :
           /\ S \subseteq rows \cup erased
           /\ \A i, j \in S : owners[i] = owners[j]
           /\ delivered' = delivered \cup S
           /\ UNCHANGED <<tokens, rows, erased>>
<1>1. /\ outcome[r].ids \subseteq rows \cup erased /\ outcome[r].ids \subseteq Ids
      /\ \A i, j \in outcome[r].ids : tokens[i].ownerId = tokens[j].ownerId
  BY DEF LedgerInv, KeptInv, Stored, TypeInv, Shaped, SoleInv, Sole
<1>2. UNCHANGED <<tokens, rows, erased>> BY DEF Respond, table
<1>3. \A i, j \in outcome[r].ids : owners[i] = owners[j]
  BY <1>1 DEF owners
<1>4. CASE delivered' = delivered \cup outcome[r].ids BY <1>1, <1>2, <1>3, <1>4
<1>5. CASE delivered' = delivered
  <2>1. {} \in SUBSET Ids /\ {} \subseteq rows \cup erased /\ delivered' = delivered \cup {}
    BY <1>5
  <2> QED BY <1>2, <2>1
<1> QED BY <1>4, <1>5 DEF Respond

LEMMA LedgerStart == Init => Ledger!LedgerInit
<1> SUFFICES ASSUME Init PROVE Ledger!LedgerInit OBVIOUS
<1>1. tokens = <<>> /\ rows = {} /\ erased = {} /\ delivered = {} BY DEF Init
<1>2. owners = <<>> BY <1>1 DEF owners, Ids
<1> QED BY <1>1, <1>2 DEF Ledger!LedgerInit, owners

(* Every step of the service is a step of the ledger or leaves it alone.       *)
LEMMA LedgerStep ==
  ASSUME LedgerInv, [Next]_vars
  PROVE  [Ledger!LedgerNext]_(Ledger!ledger)
<1> DEFINE Goal == \/ Ledger!LedgerNext \/ UNCHANGED <<owners, rows, erased, delivered>>
<1> SUFFICES Goal BY DEF Ledger!ledger, owners
<1>0. DOMAIN owners = Ids BY DEF owners
<1>1. CASE UNCHANGED <<tokens, rows, erased, delivered>> BY <1>1, Stutter
<1>2. ASSUME NEW r \in Requests, Arrive(r) PROVE Goal
  BY <1>1, <1>2, ArriveFrame DEF OnlySlot, table, LedgerInv
<1>3. ASSUME NEW r \in Requests, Step(r) \/ Timeout(r) PROVE Goal
  <2>1. CASE Mint(r)
    <3>1. \E o \in Tenants : Ledger!Issue(o) BY <2>1, LedgerMint DEF Ledger!Issue, owners
    <3> QED BY <3>1 DEF Ledger!LedgerNext
  <2>2. CASE Respond(r)
    <3> PICK S \in SUBSET Ids :
          /\ S \subseteq rows \cup erased
          /\ \A i, j \in S : owners[i] = owners[j]
          /\ delivered' = delivered \cup S
          /\ UNCHANGED <<tokens, rows, erased>>
      BY <2>2, LedgerRespond
    <3>1. Ledger!Disclose(S) BY OwnersStay DEF Ledger!Disclose, owners
    <3> QED BY <1>0, <3>1 DEF Ledger!LedgerNext, owners
  <2>3. CASE RowDeleted(r)
    <3> DEFINE id == call[r].id
               gone == deleteQ(call[r].who, call[r].id)
    <3>1. /\ rows' = rows \ gone /\ erased' = erased \cup gone
          /\ UNCHANGED <<tokens, delivered>>
      BY <2>3 DEF RowDeleted
    <3>2. gone \subseteq rows \cup writes /\ \A i \in gone : i \in Ids /\ i = id
      BY DeleteNarrow
    <3>3. CASE gone = {}
      <4>1. UNCHANGED <<tokens, rows, erased, delivered>> BY <3>1, <3>3
      <4> QED BY <4>1, Stutter
    <3>4. CASE gone # {}
      <4>1. gone = {id} /\ id \in Ids \ erased
        BY <3>2, <3>4 DEF LedgerInv, TableInv
      <4>2. Ledger!Revoke(id)
        BY <1>0, <3>1, <4>1, OwnersStay DEF Ledger!Revoke, owners
      <4> QED BY <1>0, <4>1, <4>2 DEF Ledger!LedgerNext, owners
    <3> QED BY <3>3, <3>4
  <2>4. CASE ~Mint(r) /\ ~Respond(r) /\ ~RowDeleted(r)
    BY <1>1, <1>3, <2>4
    DEF Step, TenantGroups, DeviceGroups, GroupsFail, IdentityKey, IdentityKeyFails,
        MintRefused, MintFails, InsertDone, InsertFails, RowsRead, StorageFails,
        Timeout, Untouched, table
  <2> QED BY <2>1, <2>2, <2>3, <2>4
<1>4. CASE Environment
  <2>1. ASSUME NEW i \in Ids, WriteLands(i) PROVE Goal
    <3>1. i \in Ids \ (rows \cup erased) /\ rows' = rows \cup {i}
          /\ UNCHANGED <<tokens, erased, delivered>>
      BY <2>1 DEF WriteLands, LedgerInv, TableInv
    <3>2. Ledger!Record(i) BY <1>0, <3>1, OwnersStay DEF Ledger!Record, owners
    <3> QED BY <1>0, <3>2 DEF Ledger!LedgerNext, owners
  <2>2. CASE \A i \in Ids : ~WriteLands(i)
    BY <1>1, <1>4, <2>2
    DEF Environment, WriteLost, Settle, Regroup, Register, Tick, Crash, table
  <2> QED BY <2>1, <2>2
<1>5. CASE UNCHANGED vars BY <1>1, <1>5 DEF vars
<1> QED BY <1>2, <1>3, <1>4, <1>5 DEF Next

(* The service with its replicas, timeouts and crashes implements the ledger:  *)
(* for any number of requests and tokens.                                    *)
THEOREM LedgerImplemented == Spec => ImplementsLedger
<1>1. LedgerInv /\ [Next]_vars => [Ledger!LedgerNext]_(Ledger!ledger) BY LedgerStep
<1> QED
  BY <1>1, LedgerStart, LedgerInvariant, PTL DEF Spec, ImplementsLedger, Ledger!LedgerSpec
=============================================================================
