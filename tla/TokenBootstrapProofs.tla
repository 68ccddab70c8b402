-------------------------- MODULE TokenBootstrapProofs -------------------------
(****************************************************************************)
(* What a bootstrap signs and answers, for any requests, tenants, keys and    *)
(* tokens: only for a device whose key made the signature, only while the     *)
(* presented token reads, the complete set or no answer of success, and what  *)
(* a late refusal leaves is recorded.                                        *)
(****************************************************************************)
EXTENDS TokenLedgerProofs

(* The stage of a request fits its call; it has a result only at its end, and *)
(* the client gets no other success than that result.                        *)
Slot(r) ==
  /\ pc[r] = "device" => call[r].op = "verify"
  /\ pc[r] = "read" => call[r].op \in {"list", "get"}
  /\ pc[r] \notin {"respond", "done"} => outcome[r].status = 0
  /\ pc[r] = "respond" => outcome[r].status \in {200, 400, 500}
  /\ reply[r].status = 200 => pc[r] = "done" /\ reply[r] = outcome[r]

SlotInv == \A r \in Requests : Slot(r)

------------------------------------------------------------------------------
(* Frames                                                                   *)

(* What the arrival of a request leaves in its slot.                         *)
Arrived(r) ==
  LET c == call'[r] IN
  /\ UNCHANGED <<now, tokens, table, world, delivered>>
  /\ \A q \in Requests \ {r} : UNCHANGED <<pc[q], call[q], made[q], outcome[q], reply[q]>>
  /\ pc[r] \in {"idle", "done"}
  /\ made'[r] = <<>> /\ reply'[r].status # 200
  /\ IF pc'[r] = "done" THEN reply'[r].status \in {400, 401, 403} ELSE reply'[r] = NoAnswer
  /\ pc'[r] = "respond" => outcome'[r].status \in {200, 400, 500}
  /\ pc'[r] \in {"groups", "mint", "read", "erase", "key", "device", "respond", "done"}
  /\ pc'[r] \notin {"respond", "done"} => outcome'[r].status = 0
  /\ outcome'[r].status = 200 => c.op = "verify"
  /\ pc'[r] = "mint" => c.op # "bootstrap"
  /\ pc'[r] = "device" => c.op = "verify"
  /\ pc'[r] = "read" => c.op \in {"list", "get"}
  /\ c.op = "verify" =>
       /\ c.token \in Presentable
       /\ pc'[r] = "device" => verifyStatus(c) = 0
       /\ outcome'[r].status = 200 => verifyStatus(c) = 200
  /\ c.op \in {"list", "get"} =>
       /\ c.owed = (rows \ unsettled) \cap byOwnerId(c.who)
       /\ c.gone = erased \ unsettled

LEMMA Arrival ==
  ASSUME TypeInv, NEW r \in Requests, Arrive(r)
  PROVE  Arrived(r)
<1>1. ASSUME NEW STATE c, NEW STATE stage, NEW STATE out, Begin(r, c, stage, out)
      PROVE  /\ pc'[r] = stage /\ call'[r] = c /\ made'[r] = <<>> /\ outcome'[r] = out
             /\ reply'[r] = NoAnswer /\ reply'[r].status # 200
             /\ pc[r] \in {"idle", "done"}
             /\ UNCHANGED <<now, tokens, table, world, delivered>>
             /\ \A q \in Requests \ {r} :
                  UNCHANGED <<pc[q], call[q], made[q], outcome[q], reply[q]>>
  BY <1>1 DEF Begin, Busy, NoAnswer, Failed, TypeInv, TypeOK
<1>2. ASSUME NEW STATE c, NEW STATE stage, Proceed(r, c, stage),
             stage \in {"groups", "mint", "read", "erase", "key", "device"},
             stage = "mint" => c.op # "bootstrap",
             stage = "device" => c.op = "verify" /\ verifyStatus(c) = 0,
             c.op = "verify" => stage = "device" /\ c.token \in Presentable,
             stage = "read" => c.op \in {"list", "get"},
             c.op \in {"list", "get"} =>
               /\ c.owed = (rows \ unsettled) \cap byOwnerId(c.who)
               /\ c.gone = erased \ unsettled
      PROVE  Arrived(r)
  <2>1. Begin(r, c, stage, NoAnswer) /\ NoAnswer.status = 0
    BY <1>2 DEF Proceed, NoAnswer, Failed
  <2> QED BY <1>1, <1>2, <2>1 DEF Arrived
<1>3. ASSUME NEW STATE c, NEW STATE status, Refuse(r, c, status),
             c.op \notin {"list", "get"}, status \in {200, 400, 500},
             status = 200 => c.op = "verify",
             c.op = "verify" => status = verifyStatus(c) /\ c.token \in Presentable
      PROVE  Arrived(r)
  <2>1. Begin(r, c, "respond", Failed(status)) /\ Failed(status).status = status
    BY <1>3 DEF Refuse, Failed
  <2> QED BY <1>1, <1>3, <2>1 DEF Arrived
<1>4. CASE Create(r)
  <2> PICK who \in Tenants, claim \in PurposedClaims :
        LET c == [op |-> "create", who |-> who, claim |-> claim] IN
        \/ Refuse(r, c, 400)
        \/ \E stage \in {"groups", "mint"} : Proceed(r, c, stage)
    BY <1>4 DEF Create
  <2> DEFINE c == [op |-> "create", who |-> who, claim |-> claim]
  <2>1. c.op = "create" OBVIOUS
  <2>2. \/ Refuse(r, c, 400)
        \/ \E stage \in {"groups", "mint"} : Proceed(r, c, stage)
    OBVIOUS
  <2> HIDE DEF c
  <2>3. CASE Refuse(r, c, 400) BY <1>3, <2>1, <2>3
  <2>4. ASSUME NEW stage \in {"groups", "mint"}, Proceed(r, c, stage) PROVE Arrived(r)
    BY <1>2, <2>1, <2>4
  <2> QED BY <2>2, <2>3, <2>4
<1>5. CASE CreateGeneric(r)
  <2> PICK who \in Admins, claim \in GenericClaims :
        Proceed(r, [op |-> "generic", who |-> who, claim |-> claim], "mint")
    BY <1>5 DEF CreateGeneric
  <2> DEFINE c == [op |-> "generic", who |-> who, claim |-> claim]
  <2>1. c.op = "generic" /\ Proceed(r, c, "mint") OBVIOUS
  <2> HIDE DEF c
  <2> QED BY <1>2, <2>1
<1>6. ASSUME NEW op \in {"list", "get"}, NEW who, NEW id, Query(r, op, who, id)
      PROVE  Arrived(r)
  <2> DEFINE c == [op |-> op, who |-> who, id |-> id,
                   owed |-> (rows \ unsettled) \cap byOwnerId(who),
                   gone |-> erased \ unsettled]
  <2>1. /\ c.op \in {"list", "get"} /\ Proceed(r, c, "read")
        /\ c.owed = (rows \ unsettled) \cap byOwnerId(c.who)
        /\ c.gone = erased \ unsettled
    BY <1>6 DEF Query
  <2> HIDE DEF c
  <2> QED BY <1>2, <2>1
<1>7. CASE List(r) \/ Get(r) BY <1>6, <1>7 DEF List, Get
<1>8. CASE Delete(r)
  <2> PICK who \in Tenants, id \in Ids :
        Proceed(r, [op |-> "delete", who |-> who, id |-> id], "erase")
    BY <1>8 DEF Delete
  <2> DEFINE c == [op |-> "delete", who |-> who, id |-> id]
  <2>1. c.op = "delete" /\ Proceed(r, c, "erase") OBVIOUS
  <2> HIDE DEF c
  <2> QED BY <1>2, <2>1
<1>9. CASE Verify(r)
  <2> PICK p \in Presentable, d \in Identities, t \in Stamps, sealed \in BOOLEAN :
        LET c == [op |-> "verify", token |-> p, device |-> d, stamp |-> t,
                  sealed |-> sealed, gone |-> erased]
        IN  \/ verifyStatus(c) = 0 /\ Proceed(r, c, "device")
            \/ verifyStatus(c) # 0 /\ Refuse(r, c, verifyStatus(c))
    BY <1>9 DEF Verify
  <2> DEFINE c == [op |-> "verify", token |-> p, device |-> d, stamp |-> t,
                   sealed |-> sealed, gone |-> erased]
  <2>1. c.op = "verify" /\ c.token \in Presentable OBVIOUS
  <2>s. verifyStatus(c) \in {0, 200, 400, 500}
    <3>1. decodingStatus(c.token) \in {0, 400, 500} BY DEF decodingStatus
    <3> QED BY <3>1 DEF verifyStatus
  <2>2. \/ verifyStatus(c) = 0 /\ Proceed(r, c, "device")
        \/ verifyStatus(c) # 0 /\ Refuse(r, c, verifyStatus(c))
    OBVIOUS
  <2> HIDE DEF c
  <2>3. CASE verifyStatus(c) = 0 /\ Proceed(r, c, "device") BY <1>2, <2>1, <2>3
  <2>4. CASE verifyStatus(c) # 0 /\ Refuse(r, c, verifyStatus(c)) BY <1>3, <2>s, <2>1, <2>4
  <2> QED BY <2>2, <2>3, <2>4
<1>10. CASE Bootstrap(r)
  <2> PICK p \in Presentable, d \in Identities, sig \in Signature :
        Proceed(r, [op |-> "bootstrap", token |-> p, device |-> d, sig |-> sig], "key")
    BY <1>10 DEF Bootstrap
  <2> DEFINE c == [op |-> "bootstrap", token |-> p, device |-> d, sig |-> sig]
  <2>1. c.op = "bootstrap" /\ Proceed(r, c, "key") OBVIOUS
  <2> HIDE DEF c
  <2> QED BY <1>2, <2>1
<1>11. CASE Unauthorized(r)
  <2> PICK status \in {401, 400, 403} :
        /\ "rejected" \in Operations
        /\ Operations \cap {"create", "generic", "list", "get", "delete"} # {}
        /\ ~Busy(r)
        /\ pc' = [pc EXCEPT ![r] = "done"]
        /\ call' = [call EXCEPT ![r] = [op |-> "rejected"]]
        /\ made' = [made EXCEPT ![r] = <<>>]
        /\ outcome' = [outcome EXCEPT ![r] = Failed(status)]
        /\ reply' = [reply EXCEPT ![r] = Failed(status)]
        /\ UNCHANGED <<now, tokens, table, world, delivered>>
    BY <1>11 DEF Unauthorized
  <2>1. /\ Failed(status).status = status
        /\ pc'[r] = "done" /\ call'[r].op = "rejected" /\ made'[r] = <<>>
        /\ outcome'[r] = Failed(status) /\ reply'[r] = Failed(status)
        /\ pc[r] \in {"idle", "done"}
        /\ \A q \in Requests \ {r} :
             UNCHANGED <<pc[q], call[q], made[q], outcome[q], reply[q]>>
    BY DEF Busy, Failed, TypeInv, TypeOK
  <2> QED BY <2>1 DEF Arrived
<1>12. CASE Malformed(r)
  <2> PICK op \in Operations : \E status \in malformedStatuses(op) :
        Refuse(r, [op |-> "rejected"], status)
    BY <1>12 DEF Malformed
  <2> PICK status \in malformedStatuses(op) : Refuse(r, [op |-> "rejected"], status)
    OBVIOUS
  <2> DEFINE c == [op |-> "rejected"]
  <2>1. c.op = "rejected" /\ Refuse(r, c, status) /\ status \in {400, 500}
    BY DEF malformedStatuses
  <2> HIDE DEF c
  <2> QED BY <1>3, <2>1
<1> QED
  BY <1>4, <1>5, <1>7, <1>8, <1>9, <1>10, <1>11, <1>12 DEF Arrive

(* A task goes on without signing: after the console, the identity service or *)
(* Cassandra has answered.                                                   *)
Continues(r) ==
  /\ pc[r] \in {"groups", "key", "keyAgain", "insert"}
  /\ pc'[r] \in IF pc[r] = "key" THEN {"mint", "keyAgain"} ELSE {"mint"}
  /\ pc[r] \in {"key", "keyAgain"} /\ pc'[r] = "mint" =>
       call[r].sig.key \in keys[call[r].device]
  /\ UNCHANGED <<call, made, outcome, reply>> /\ Untouched

(* A task ends with its result.                                             *)
Ends(r) ==
  /\ pc[r] \notin {"idle", "respond", "done"} /\ pc'[r] = "respond"
  /\ UNCHANGED <<call, made, reply, now, tokens, world, delivered>>
  /\ outcome'[r].status \in {200, 400, 500}
  /\ outcome'[r].status \in {400, 401, 403} =>
       \/ pc[r] \in {"groups", "device", "key", "keyAgain"}
       \/ pc[r] = "mint" /\ mintStatus(r) \in {0, outcome'[r].status}
  /\ outcome'[r].status = 200 =>
       \/ /\ pc[r] = "device"
          /\ LET claim == decoded(tokens[call[r].token].jwt)
             IN  verifyGroups(claim.targetGroups, groups[call[r].device])
       \/ /\ pc[r] = "insert" /\ ~(Len(made[r]) < needed(call[r]))
          /\ outcome'[r].ids = {made[r][k] : k \in DOMAIN made[r]}
       \/ /\ pc[r] = "read" /\ UNCHANGED table
          /\ outcome'[r].ids \subseteq (rows \cup (erased \cap unsettled)) \cap selected(call[r])
          /\ (rows \ unsettled) \cap selected(call[r]) \subseteq outcome'[r].ids
       \/ pc[r] = "erase"

LEMMA StepKinds ==
  ASSUME TypeInv, NEW r \in Requests, Step(r)
  PROVE  Mint(r) \/ Respond(r) \/ Continues(r) \/ Ends(r)
<1> USE DEF TypeInv, TypeOK
<1>1. ASSUME NEW STATE out, Finish(r, out)
      PROVE  /\ pc'[r] = "respond" /\ outcome'[r] = out
             /\ UNCHANGED <<call, made, reply>>
  BY <1>1 DEF Finish
<1>2. ASSUME NEW stage, Goto(r, stage)
      PROVE  pc'[r] = stage /\ UNCHANGED <<call, made, outcome, reply>>
  BY <1>2 DEF Goto
<1>3. ASSUME NEW status, Finish(r, Failed(status))
      PROVE  /\ pc'[r] = "respond" /\ outcome'[r].status = status
             /\ UNCHANGED <<call, made, reply>>
  BY <1>1, <1>3 DEF Failed
<1>4. CASE TenantGroups(r)
  <2>1. pc[r] = "groups" /\ Untouched /\ (Goto(r, "mint") \/ Finish(r, Failed(400)))
    BY <1>4 DEF TenantGroups
  <2> QED BY <1>2, <1>3, <2>1 DEF Continues, Ends, Untouched
<1>5. CASE DeviceGroups(r)
  <2> DEFINE claim == decoded(tokens[call[r].token].jwt)
             met == verifyGroups(claim.targetGroups, groups[call[r].device])
  <2>1. /\ pc[r] = "device" /\ Untouched
        /\ \/ met /\ Finish(r, Ok({}))
           \/ Finish(r, Failed(400))
    BY <1>5 DEF DeviceGroups
  <2> HIDE DEF met
  <2>2. CASE met /\ Finish(r, Ok({}))
    <3>1. pc'[r] = "respond" /\ UNCHANGED <<call, made, reply>> /\ outcome'[r].status = 200
      BY <1>1, <2>2 DEF Ok
    <3> QED BY <2>1, <2>2, <3>1 DEF Ends, Untouched, met
  <2>3. CASE Finish(r, Failed(400)) BY <1>3, <2>1, <2>3 DEF Ends, Untouched
  <2> QED BY <2>1, <2>2, <2>3
<1>6. CASE GroupsFail(r) \/ IdentityKeyFails(r)
  BY <1>3, <1>6 DEF GroupsFail, IdentityKeyFails, Ends, Untouched
<1>7. CASE MintRefused(r)
  <2>1. pc[r] = "mint" /\ mintStatus(r) \in {400, 500} /\ Untouched
        /\ Finish(r, Failed(mintStatus(r)))
    BY <1>7 DEF MintRefused, mintStatus, decodingStatus
  <2> QED BY <1>3, <2>1 DEF Ends, Untouched
<1>7f. CASE MintFails(r) BY <1>3, <1>7f DEF MintFails, Ends, Untouched
<1>8. CASE InsertFails(r) \/ StorageFails(r)
  BY <1>3, <1>8 DEF InsertFails, StorageFails, Ends, Untouched
<1>9. CASE IdentityKey(r)
  <2> DEFINE result == attempt(keys[call[r].device], call[r].sig, pc[r] = "key")
  <2>1. /\ pc[r] \in {"key", "keyAgain"} /\ Untouched
        /\ \/ result = "valid" /\ Goto(r, "mint")
           \/ pc[r] = "key" /\ Goto(r, "keyAgain")
           \/ Finish(r, Failed(400))
    BY <1>9 DEF IdentityKey
  <2>2. result = "valid" => call[r].sig.key \in keys[call[r].device]
    BY DEF attempt
  <2> HIDE DEF result
  <2> QED BY <1>2, <1>3, <2>1, <2>2 DEF Continues, Ends, Untouched
<1>10. CASE InsertDone(r)
  <2>1. /\ pc[r] = "insert" /\ Untouched
        /\ \/ Goto(r, "mint")
           \/ /\ ~(Len(made[r]) < needed(call[r]))
              /\ Finish(r, Ok({made[r][k] : k \in DOMAIN made[r]}))
    BY <1>10 DEF InsertDone
  <2>2. CASE Goto(r, "mint") BY <1>2, <2>1, <2>2 DEF Continues
  <2>3. CASE /\ ~(Len(made[r]) < needed(call[r]))
             /\ Finish(r, Ok({made[r][k] : k \in DOMAIN made[r]}))
    BY <1>1, <2>1, <2>3 DEF Ends, Untouched, Ok
  <2> QED BY <2>1, <2>2, <2>3
<1>11. CASE RowsRead(r)
  <2> PICK seen \in SUBSET ((rows \cup (erased \cap unsettled)) \cap selected(call[r])) :
        /\ (rows \ unsettled) \cap selected(call[r]) \subseteq seen
        /\ Finish(r, Ok(seen))
    BY <1>11 DEF RowsRead
  <2>1. pc[r] = "read" /\ Untouched BY <1>11 DEF RowsRead
  <2>2. /\ pc'[r] = "respond" /\ UNCHANGED <<call, made, reply>>
        /\ outcome'[r].ids = seen /\ outcome'[r].status = 200
    BY <1>1 DEF Ok
  <2> QED BY <2>1, <2>2 DEF Ends, Untouched
<1>12. CASE RowDeleted(r)
  <2>1. /\ pc[r] = "erase" /\ UNCHANGED <<now, tokens, world, delivered>>
        /\ Finish(r, Ok({})) \/ Finish(r, Failed(500))
    BY <1>12 DEF RowDeleted
  <2> QED BY <1>1, <1>3, <2>1 DEF Ends, Ok
<1>13. CASE Mint(r) \/ Respond(r) BY <1>13
<1> QED
  BY <1>4, <1>5, <1>6, <1>7, <1>7f, <1>8, <1>9, <1>10, <1>11, <1>12, <1>13 DEF Step

(* The stages and results of requests stay in order.                         *)
LEMMA SlotNext == TypeInv /\ SlotInv /\ [Next]_vars => SlotInv'
<1> SUFFICES ASSUME TypeInv, SlotInv, [Next]_vars, NEW q \in Requests PROVE Slot(q)'
  BY DEF SlotInv
<1>0. Slot(q) BY DEF SlotInv
<1>s. ASSUME UNCHANGED <<pc[q], call[q], outcome[q], reply[q]>> PROVE Slot(q)'
  BY <1>0, <1>s DEF Slot
<1>1. ASSUME NEW r \in Requests, Arrive(r) PROVE Slot(q)'
  <2>1. Arrived(r) BY <1>1, Arrival
  <2> QED BY <1>s, <2>1 DEF Arrived, Slot
<1>2. ASSUME NEW r \in Requests, Step(r) PROVE Slot(q)'
  <2>1. CASE q # r BY <1>2, <1>s, <2>1, OthersStay
  <2>2. CASE q = r /\ Mint(r) BY <1>0, <2>2 DEF Mint, Slot, TypeInv, TypeOK
  <2>3. CASE q = r /\ Respond(r)
    BY <1>0, <2>3 DEF Respond, Slot, TypeInv, TypeOK
  <2>4. CASE q = r /\ Continues(r) BY <1>0, <2>4 DEF Continues, Slot
  <2>5. CASE q = r /\ Ends(r) BY <1>0, <2>5 DEF Ends, Slot
  <2> QED BY <1>2, <2>1, <2>2, <2>3, <2>4, <2>5, StepKinds
<1>3. ASSUME NEW r \in Requests, Timeout(r) PROVE Slot(q)'
  BY <1>0, <1>3 DEF Timeout, Slot, Failed, Busy, TypeInv, TypeOK
<1>4. CASE Environment
  <2>1. CASE Crash BY <2>1 DEF Crash, Slot, NoAnswer, Failed
  <2>2. CASE ~Crash
    BY <1>4, <1>s, <2>2 DEF Environment, WriteLands, WriteLost, Settle, Regroup, Register, Tick, slots
  <2> QED BY <2>1, <2>2
<1>5. CASE UNCHANGED vars BY <1>5, <1>s DEF vars
<1> QED BY <1>1, <1>2, <1>3, <1>4, <1>5 DEF Next

LEMMA SlotInit == Init => SlotInv
BY DEF Init, SlotInv, Slot, NoAnswer, Failed

------------------------------------------------------------------------------
(* Signatures                                                               *)

(* A bootstrap goes on to signing only with a key the device had.            *)
SignedInv ==
  /\ \A d \in Identities : keys[d] \subseteq used[d]
  /\ \A r \in Requests :
       call[r].op = "bootstrap" /\ (made[r] # <<>> \/ pc[r] = "mint") =>
         call[r].sig.key \in used[call[r].device]

LEMMA SignedNext == TypeInv /\ SignedInv /\ [Next]_vars => SignedInv'
<1> SUFFICES ASSUME TypeInv, SignedInv, [Next]_vars PROVE SignedInv' OBVIOUS
<1> DEFINE KeyKnown(q) == call[q].op = "bootstrap" /\ (made[q] # <<>> \/ pc[q] = "mint") =>
                       call[q].sig.key \in used[call[q].device]
<1>0. /\ \A q \in Requests : call[q] \in Call /\ KeyKnown(q)
      /\ \A d \in Identities : keys[d] \subseteq used[d]
  BY DEF TypeInv, TypeOK, SignedInv
<1>1. ASSUME NEW r \in Requests, Arrive(r) PROVE SignedInv'
  <2>1. Arrived(r) BY <1>1, Arrival
  <2> QED BY <1>0, <2>1 DEF Arrived, SignedInv, world
<1>2. ASSUME NEW r \in Requests, Step(r) PROVE SignedInv'
  <2>1. \A q \in Requests \ {r} : UNCHANGED <<pc[q], call[q], made[q]>>
    BY <1>2, OthersStay
  <2>2. UNCHANGED <<keys, used>>
    BY <1>2
    DEF Step, TenantGroups, DeviceGroups, GroupsFail, IdentityKey, IdentityKeyFails,
        MintRefused, MintFails, Mint, InsertDone, InsertFails, RowsRead, RowDeleted, StorageFails,
        Respond, Untouched, world
  <2>3. KeyKnown(r)'
    <3>1. CASE Mint(r) BY <1>0, <2>2, <3>1 DEF Mint
    <3>2. CASE Respond(r) BY <1>0, <2>2, <3>2 DEF Respond, TypeInv, TypeOK
    <3>3. CASE Continues(r)
      <4>1. CASE call[r].op # "bootstrap" BY <3>3, <4>1 DEF Continues
      <4>2. CASE call[r].op = "bootstrap" /\ pc[r] \in {"key", "keyAgain"}
        <5>1. call[r].device \in Identities /\ made[r] = <<>>
          BY <1>0, <4>2, CallFields DEF TypeInv, Shaped
        <5> QED BY <1>0, <2>2, <3>3, <4>2, <5>1 DEF Continues
      <4>3. CASE call[r].op = "bootstrap" /\ pc[r] = "insert"
        <5>1. made[r] # <<>>
          BY <4>3 DEF TypeInv, Shaped
        <5> QED BY <1>0, <2>2, <3>3, <4>3, <5>1 DEF Continues
      <4>4. CASE call[r].op = "bootstrap" /\ pc[r] = "groups"
        BY <4>4 DEF TypeInv, Shaped
      <4> QED BY <3>3, <4>1, <4>2, <4>3, <4>4 DEF Continues
    <3>4. CASE Ends(r) BY <1>0, <2>2, <3>4 DEF Ends
    <3> QED BY <1>2, <3>1, <3>2, <3>3, <3>4, StepKinds
  <2> QED BY <1>0, <2>1, <2>2, <2>3 DEF SignedInv
<1>3. ASSUME NEW r \in Requests, Timeout(r) PROVE SignedInv'
  BY <1>0, <1>3 DEF Timeout, SignedInv, world
<1>4. CASE Environment
  <2>1. CASE Crash BY <1>0, <2>1 DEF Crash, SignedInv, NoCall, world
  <2>2. CASE \E d \in Identities, k \in Keys : Register(d, k)
    <3> PICK d \in Identities, k \in Keys : Register(d, k) BY <2>2
    <3>1. /\ UNCHANGED <<pc, call, made>>
          /\ \A x \in Identities : used[x] \subseteq used'[x] /\ keys'[x] \subseteq used'[x]
      BY <1>0 DEF Register, slots, TypeInv, TypeOK
    <3>2. \A q \in Requests : call[q].op = "bootstrap" => call[q].device \in Identities
      BY <1>0, CallFields
    <3> QED BY <1>0, <3>1, <3>2 DEF SignedInv
  <2>3. CASE UNCHANGED <<pc, call, made, keys, used>> BY <1>0, <2>3 DEF SignedInv
  <2> QED
    BY <1>4, <2>1, <2>2, <2>3
    DEF Environment, WriteLands, WriteLost, Settle, Regroup, Tick, slots, world
<1>5. CASE UNCHANGED vars BY <1>0, <1>5 DEF vars, SignedInv
<1> QED BY <1>1, <1>2, <1>3, <1>4, <1>5 DEF Next

(* A bootstrap signs tokens only for a device one of whose keys made the      *)
(* signature, for any keys, encodings and changes of keys between the calls.  *)
THEOREM BootstrapsAreSigned == Spec => []BootstrapSigned
<1>1. Init => SignedInv BY DEF Init, SignedInv, NoCall
<1>2. SignedInv => BootstrapSigned BY DEF SignedInv, BootstrapSigned
<1> QED BY <1>1, <1>2, SignedNext, TypeInvariant, PTL DEF Spec

------------------------------------------------------------------------------
(* Refusals                                                                 *)

(* What decodes once is no forgery; a later failure to decode is internal.    *)
RefusedInv ==
  \A r \in Requests :
    call[r].op = "bootstrap" /\ made[r] # <<>> => call[r].token # Forged

(* The signing of a further token is never refused for the token presented.   *)
LEMMA LateMint ==
  ASSUME TypeInv, RefusedInv, NEW r \in Requests, pc[r] = "mint", made[r] # <<>>
  PROVE  call[r].op = "bootstrap" /\ mintStatus(r) \notin {400, 401, 403}
<1>1. call[r].op = "bootstrap"
  <2>1. Len(made[r]) < needed(call[r]) /\ call[r] \in Call /\ made[r] \in Seq(Nat)
    BY DEF TypeInv, TypeOK, Shaped
  <2>2. Len(made[r]) \in Nat \ {0} BY <2>1
  <2>3. needed(call[r]) \in Nat \ {0, 1} BY <2>1, <2>2, NeededTokens
  <2> QED BY <2>1, <2>3, NeededTokens
<1>2. call[r].token # Forged BY <1>1 DEF RefusedInv
<1> QED BY <1>1, <1>2 DEF mintStatus, decodingStatus

LEMMA RefusedNext == TypeInv /\ RefusedInv /\ [Next]_vars => RefusedInv'
<1> SUFFICES ASSUME TypeInv, RefusedInv, [Next]_vars, NEW q \in Requests
             PROVE  call'[q].op = "bootstrap" /\ made'[q] # <<>> => call'[q].token # Forged
  BY DEF RefusedInv
<1> DEFINE Goal == call'[q].op = "bootstrap" /\ made'[q] # <<>> => call'[q].token # Forged
<1>0. call[q].op = "bootstrap" /\ made[q] # <<>> => call[q].token # Forged BY DEF RefusedInv
<1>s. CASE UNCHANGED <<call[q], made[q]>> BY <1>0, <1>s
<1>1. ASSUME NEW r \in Requests, Arrive(r) PROVE Goal
  <2>1. Arrived(r) BY <1>1, Arrival
  <2> QED BY <1>s, <2>1 DEF Arrived
<1>2. ASSUME NEW r \in Requests, Step(r) PROVE Goal
  <2>1. CASE q # r BY <1>2, <1>s, <2>1, OthersStay
  <2>2. CASE q = r /\ Mint(r)
    <3>1. mintStatus(r) = 0 /\ UNCHANGED call BY <2>2 DEF Mint
    <3> QED BY <2>2, <3>1 DEF mintStatus, decodingStatus
  <2>3. CASE q = r /\ (Respond(r) \/ Continues(r) \/ Ends(r))
    BY <1>s, <2>3 DEF Respond, Continues, Ends
  <2> QED BY <1>2, <2>1, <2>2, <2>3, StepKinds
<1>3. ASSUME NEW r \in Requests, Timeout(r) PROVE Goal
  BY <1>s, <1>3 DEF Timeout
<1>4. CASE Environment
  <2>1. CASE Crash BY <2>1 DEF Crash
  <2>2. CASE ~Crash
    BY <1>4, <1>s, <2>2 DEF Environment, WriteLands, WriteLost, Settle, Regroup, Register, Tick, slots
  <2> QED BY <2>1, <2>2
<1>5. CASE UNCHANGED vars BY <1>5, <1>s DEF vars
<1> QED BY <1>1, <1>2, <1>3, <1>4, <1>5 DEF Next

(* What must hold of a bootstrap that is refused after it has signed a token.  *)
Recorded(r) ==
  /\ call[r].op = "bootstrap" /\ validAt(tokens[call[r].token].jwt, now)
  /\ Len(made[r]) < Len(BootstrapScopes)
  /\ \A k \in DOMAIN made[r] : made[r][k] \in rows \cup erased

(* Only a failure to sign refuses a request that has signed before.           *)
LEMMA RefusalIsLate ==
  ASSUME TypeInv, KeptInv, RefusedInv, NEW r \in Requests, Ends(r),
         outcome'[r].status \in {400, 401, 403}, made'[r] # <<>>
  PROVE  Recorded(r)
<1>1. Shaped(r) /\ Stored(r) /\ call[r] \in Call BY DEF TypeInv, TypeOK, KeptInv
<1>2. made[r] # <<>> BY DEF Ends
<1>3. pc[r] = "mint" /\ mintStatus(r) \in {0, outcome'[r].status}
  BY <1>1, <1>2 DEF Ends, Shaped
<1>4. call[r].op = "bootstrap" /\ mintStatus(r) = 0 BY <1>2, <1>3, LateMint
<1>5. decodingStatus(call[r].token) = 0 BY <1>4 DEF mintStatus
<1>6. validAt(tokens[call[r].token].jwt, now) BY <1>5 DEF decodingStatus
<1>7. Len(made[r]) < Len(BootstrapScopes) BY <1>1, <1>3, <1>4 DEF Shaped, needed
<1>8. \A k \in DOMAIN made[r] : made[r][k] \in rows \cup erased BY <1>1, <1>3 DEF Stored
<1> QED BY <1>4, <1>6, <1>7, <1>8 DEF Recorded

LEMMA RefusedStep ==
  ASSUME TypeInv, KeptInv, RefusedInv, Next, NEW q \in Requests,
         pc[q] # "respond", pc'[q] = "respond",
         outcome'[q].status \in {400, 401, 403}, made'[q] # <<>>
  PROVE  Recorded(q)
<1>1. ASSUME NEW r \in Requests, Arrive(r) PROVE FALSE
  <2>1. Arrived(r) BY <1>1, Arrival
  <2> QED BY <2>1 DEF Arrived
<1>2. ASSUME NEW r \in Requests, Step(r) PROVE Recorded(q)
  <2>1. CASE q # r BY <1>2, <2>1, OthersStay
  <2>2. CASE q = r /\ (Mint(r) \/ Respond(r) \/ Continues(r))
    BY <2>2 DEF Mint, Respond, Continues, TypeInv, TypeOK
  <2>3. CASE q = r /\ Ends(r) BY <2>3, RefusalIsLate
  <2> QED BY <1>2, <2>1, <2>2, <2>3, StepKinds
<1>3. ASSUME NEW r \in Requests, Timeout(r) PROVE FALSE BY <1>3 DEF Timeout
<1>4. CASE Environment
  <2>1. CASE Crash BY <2>1 DEF Crash
  <2>2. CASE ~Crash
    BY <1>4, <2>2 DEF Environment, WriteLands, WriteLost, Settle, Regroup, Register, Tick, slots
  <2> QED BY <2>1, <2>2
<1> QED BY <1>1, <1>2, <1>3, <1>4 DEF Next

(* A refusal leaves nothing, or tokens of a bootstrap that are all recorded:    *)
(* only a failure to sign comes so late, never an expired token or a failing    *)
(* insert; for any requests, tokens, lost writes and crashes.                 *)
THEOREM RefusalsLeaveRecorded == Spec => RefusedLeavesRecorded
<1>1. ASSUME TypeInv, KeptInv, RefusedInv, [Next]_vars
      PROVE  [\A r \in Requests :
                /\ pc[r] # "respond" /\ pc'[r] = "respond"
                /\ outcome'[r].status \in {400, 401, 403} /\ made'[r] # <<>>
                => /\ call[r].op = "bootstrap" /\ validAt(tokens[call[r].token].jwt, now)
                   /\ Len(made[r]) < Len(BootstrapScopes)
                   /\ \A k \in DOMAIN made[r] : made[r][k] \in rows \cup erased]_vars
  BY <1>1, RefusedStep DEF Recorded
<1>2. Init => RefusedInv BY DEF Init, RefusedInv
<1>3. LedgerInv => TypeInv /\ KeptInv BY DEF LedgerInv
<1> QED
  BY <1>1, <1>2, <1>3, RefusedNext, LedgerInvariant, PTL DEF Spec, RefusedLeavesRecorded

------------------------------------------------------------------------------
(* What a bootstrap signs                                                   *)

(* The k-th token of a bootstrap: its content and expiration.                 *)
LEMMA BootstrapMint ==
  ASSUME TypeInv, NEW r \in Requests, Mint(r), call[r].op = "bootstrap"
  PROVE  LET new == nextToken(r)
             old == tokens[call[r].token].jwt
             k   == Len(made[r]) + 1
         IN  /\ k \in DOMAIN BootstrapScopes
             /\ call[r].token \in Ids /\ new.parent = {call[r].token}
             /\ validAt(old, new.jwt.iat)
             /\ new.jwt.sub = old.sub /\ new.jwt.content.pur = old.content.pur
             /\ new.jwt.content.tgp = old.content.tgp
             /\ new.jwt.content.ord = old.content.ord
             /\ new.jwt.content.scp = {{BootstrapScopes[k]}}
             /\ new.jwt.exp = IF k = 1 THEN {new.jwt.iat + RegistrationTTL} ELSE {}
<1> DEFINE p == call[r].token
           k == Len(made[r]) + 1
           tc == bootstrapClaim(p, call[r].device, k)
<1>1. /\ pc[r] = "mint" /\ mintStatus(r) = 0 /\ call[r] \in Call
      /\ p \in Ids \cup {Forged, Garbage} /\ Len(made[r]) < needed(call[r])
      /\ made[r] \in Seq(Nat)
  BY DEF Mint, TypeInv, TypeOK, Shaped
<1>2. decodingStatus(p) = 0 BY <1>1 DEF mintStatus
<1>3. p \in Ids /\ validAt(tokens[p].jwt, now)
  BY <1>1, <1>2, DecodedIsOurs DEF decodingStatus
<1>4. k \in 1 .. 4
  <2>1. Len(made[r]) \in Nat /\ Len(made[r]) < 4 BY <1>1, NeededTokens
  <2> QED BY <2>1
<1>5. DOMAIN BootstrapScopes = 1 .. 4 BY DEF BootstrapScopes
<1>6. nextToken(r).jwt = encode(tc, now) /\ nextToken(r).parent = {p}
  BY DEF nextToken
<1>7. /\ tc.subject = tokens[p].jwt.sub
      /\ tc.expiration = IF k = 1 THEN {RegistrationTTL} ELSE {}
      /\ tc.content.pur = tokens[p].jwt.content.pur
      /\ tc.content.tgp = tokens[p].jwt.content.tgp
      /\ tc.content.ord = tokens[p].jwt.content.ord
      /\ tc.content.scp = {{s} : s \in UNION {{BootstrapScopes[k]}}}
  BY DEF bootstrapClaim, toTokenClaim, decoded
<1> HIDE DEF p, k, tc
<1>8. tc.content.scp = {{BootstrapScopes[k]}} BY <1>7
<1>9. /\ encode(tc, now).iat = now /\ encode(tc, now).sub = tc.subject
      /\ encode(tc, now).content = tc.content
      /\ encode(tc, now).exp = {now + e : e \in tc.expiration}
  BY DEF encode
<1>10. encode(tc, now).exp = IF k = 1 THEN {now + RegistrationTTL} ELSE {}
  BY <1>7, <1>9
<1> QED BY <1>3, <1>4, <1>5, <1>6, <1>7, <1>8, <1>9, <1>10 DEF p, k

(* A token is derived from an earlier one, which DerivedTokens compares.       *)
DerivedInv == DerivedTokens /\ \A i \in Ids : tokens[i].parent \subseteq Ids

LEMMA DerivedNext == TypeInv /\ DerivedInv /\ [Next]_vars => DerivedInv'
<1> SUFFICES ASSUME TypeInv, DerivedInv, [Next]_vars PROVE DerivedInv' OBVIOUS
<1> DEFINE Good(new, old) ==
             /\ validAt(old, new.iat)
             /\ new.sub = old.sub /\ new.content.pur = old.content.pur
             /\ new.content.tgp = old.content.tgp /\ new.content.ord = old.content.ord
             /\ \E k \in DOMAIN BootstrapScopes :
                  /\ new.content.scp = {{BootstrapScopes[k]}}
                  /\ new.exp = IF k = 1 THEN {new.iat + RegistrationTTL} ELSE {}
<1>0. \A i \in Ids : \A p \in tokens[i].parent : p \in Ids /\ Good(tokens[i].jwt, tokens[p].jwt)
  BY DEF DerivedInv, DerivedTokens
<1>1. CASE UNCHANGED tokens BY <1>1 DEF DerivedInv, DerivedTokens, Ids
<1>2. ASSUME NEW r \in Requests, Mint(r) PROVE DerivedInv'
  <2> DEFINE new == nextToken(r)
             id == Len(tokens) + 1
  <2>1. /\ Grown /\ tokens \in Seq(Token) /\ tokens' = Append(tokens, new)
        /\ new \in Token /\ tokens'[id] = new
    BY <1>2, MintGrows
  <2>2. \A p \in new.parent : p \in Ids /\ Good(new.jwt, tokens[p].jwt)
    <3>1. CASE call[r].op = "bootstrap"
      <4> DEFINE k == Len(made[r]) + 1
                 old == tokens[call[r].token].jwt
      <4>1. /\ k \in DOMAIN BootstrapScopes
            /\ call[r].token \in Ids /\ new.parent = {call[r].token}
            /\ validAt(old, new.jwt.iat)
            /\ new.jwt.sub = old.sub /\ new.jwt.content.pur = old.content.pur
            /\ new.jwt.content.tgp = old.content.tgp
            /\ new.jwt.content.ord = old.content.ord
            /\ new.jwt.content.scp = {{BootstrapScopes[k]}}
            /\ new.jwt.exp = IF k = 1 THEN {new.jwt.iat + RegistrationTTL} ELSE {}
        BY <1>2, <3>1, BootstrapMint
      <4> HIDE DEF new, k
      <4> QED BY <4>1
    <3>2. CASE call[r].op # "bootstrap"
      <4>1. call[r].op \in {"create", "generic"}
        <5>1. pc[r] = "mint" /\ call[r] \in Call /\ made[r] \in Seq(Nat)
              /\ Len(made[r]) < needed(call[r])
          BY <1>2 DEF Mint, TypeInv, TypeOK, Shaped
        <5>2. Len(made[r]) \in Nat BY <5>1
        <5>3. needed(call[r]) # 0 BY <5>1, <5>2, NeededTokens
        <5> QED BY <3>2, <5>1, <5>3, NeededTokens
      <4>2. new.parent = {} BY <4>1 DEF nextToken
      <4> QED BY <4>2
    <3> QED BY <3>1, <3>2
  <2> HIDE DEF new, Good
  <2>3. Ids' = Ids \cup {id} BY <2>1 DEF Ids
  <2>4. \A i \in Ids' : \A p \in tokens'[i].parent : p \in Ids /\ Good(tokens'[i].jwt, tokens[p].jwt)
    BY <1>0, <2>1, <2>2, <2>3 DEF Grown
  <2>5. \A i \in Ids' : \A p \in tokens'[i].parent : p \in Ids' /\ Good(tokens'[i].jwt, tokens'[p].jwt)
    BY <2>1, <2>3, <2>4 DEF Grown
  <2> QED BY <2>5 DEF DerivedInv, DerivedTokens, Good
<1>3. ASSUME NEW r \in Requests, Arrive(r) PROVE UNCHANGED tokens
  BY <1>3, Arrival DEF Arrived
<1>4. ASSUME NEW r \in Requests, Step(r) PROVE DerivedInv'
  BY <1>1, <1>2, <1>4, StepKinds DEF Respond, Continues, Ends, Untouched
<1>5. ASSUME NEW r \in Requests, Timeout(r) PROVE UNCHANGED tokens BY <1>5 DEF Timeout
<1>6. CASE Environment
  <2>1. UNCHANGED tokens
    BY <1>6 DEF Environment, WriteLands, WriteLost, Settle, Regroup, Register, Tick, Crash
  <2> QED BY <1>1, <2>1
<1>7. CASE UNCHANGED vars BY <1>1, <1>7 DEF vars
<1> QED BY <1>1, <1>3, <1>4, <1>5, <1>6, <1>7 DEF Next

(* Tokens derived by a bootstrap keep what the presented token says, which was *)
(* valid at that moment; they have one scope each, and only the registration   *)
(* token expires.                                                            *)
THEOREM BootstrapsDerive == Spec => []DerivedTokens
<1>1. Init => DerivedInv BY DEF Init, DerivedInv, DerivedTokens, Ids
<1>2. DerivedInv => DerivedTokens BY DEF DerivedInv
<1> QED BY <1>1, <1>2, DerivedNext, TypeInvariant, PTL DEF Spec

------------------------------------------------------------------------------
(* The answer of a bootstrap                                                *)

(* The tokens with these ids have the scopes of a bootstrap, in order.        *)
InOrder(ids, signed) ==
  \A k \in DOMAIN ids : signed[ids[k]].jwt.content.scp = {{BootstrapScopes[k]}}

All(ids) == {ids[k] : k \in DOMAIN ids}

(* The tokens of a bootstrap have their scopes in order, and a success has     *)
(* all of them.                                                              *)
Bootstrapped(r) ==
  call[r].op = "bootstrap" =>
    /\ InOrder(made[r], tokens)
    /\ outcome[r].status = 200 =>
         Len(made[r]) = Len(BootstrapScopes) /\ outcome[r].ids = All(made[r])

CompleteInv == \A r \in Requests : Bootstrapped(r)

LEMMA BootstrappedStable ==
  ASSUME TypeInv, NEW q \in Requests, Bootstrapped(q), Grown,
         UNCHANGED <<call[q], made[q], outcome[q]>>
  PROVE  Bootstrapped(q)'
<1>1. \A k \in DOMAIN made[q] : tokens'[made[q][k]] = tokens[made[q][k]]
  BY DEF TypeInv, Shaped, Grown
<1>2. InOrder(made[q], tokens) => InOrder(made[q], tokens') BY <1>1 DEF InOrder
<1> QED BY <1>2 DEF Bootstrapped

LEMMA CompleteNext ==
  TypeInv /\ TableInv /\ SlotInv /\ CompleteInv /\ [Next]_vars => CompleteInv'
<1> SUFFICES ASSUME TypeInv, TableInv, SlotInv, CompleteInv, [Next]_vars, NEW q \in Requests
             PROVE  Bootstrapped(q)'
  BY DEF CompleteInv
<1>0. Bootstrapped(q) /\ Slot(q) /\ Shaped(q) /\ call[q] \in Call /\ made[q] \in Seq(Nat) /\ Grown
  BY Growth DEF CompleteInv, SlotInv, TypeInv, TypeOK
<1>s. ASSUME UNCHANGED <<call[q], made[q], outcome[q]>> PROVE Bootstrapped(q)'
  BY <1>0, <1>s, BootstrappedStable
<1>1. ASSUME NEW r \in Requests, Arrive(r) PROVE Bootstrapped(q)'
  <2>1. Arrived(r) BY <1>1, Arrival
  <2>2. CASE q = r
    <3>1. InOrder(<<>>, tokens') BY DEF InOrder
    <3>2. made'[q] = <<>> /\ (outcome'[q].status = 200 => call'[q].op = "verify")
      BY <2>1, <2>2 DEF Arrived
    <3> QED BY <3>1, <3>2 DEF Bootstrapped
  <2> QED BY <1>s, <2>1, <2>2 DEF Arrived
<1>2. ASSUME NEW r \in Requests, Step(r) PROVE Bootstrapped(q)'
  <2>1. CASE q # r BY <1>2, <1>s, <2>1, OthersStay
  <2>2. CASE q = r /\ Mint(r) /\ call[r].op = "bootstrap"
    <3> DEFINE id == Len(tokens) + 1
               k == Len(made[r]) + 1
               scp(i) == tokens'[i].jwt.content.scp
    <3>1. /\ made' = [made EXCEPT ![r] = Append(@, id)] /\ UNCHANGED outcome
          /\ pc[r] = "mint"
      BY <2>2 DEF Mint
    <3>2. made'[r] = Append(made[r], id) BY <3>1 DEF TypeInv, TypeOK
    <3>3. scp(id) = {{BootstrapScopes[k]}} BY <2>2, MintGrows, BootstrapMint
    <3>4. outcome'[r].status = 0 BY <1>0, <2>2, <3>1 DEF Slot
    <3>5. \A j \in DOMAIN made[r] : scp(made[r][j]) = {{BootstrapScopes[j]}}
      BY <1>0, <2>2 DEF Bootstrapped, InOrder, Grown, Shaped
    <3> HIDE DEF id, scp
    <3>6. \A j \in DOMAIN made'[r] :
            \/ j \in DOMAIN made[r] /\ made'[r][j] = made[r][j]
            \/ j = k /\ made'[r][j] = id
      BY <1>0, <2>2, <3>2
    <3>7. \A j \in DOMAIN made'[r] : scp(made'[r][j]) = {{BootstrapScopes[j]}}
      BY <3>3, <3>5, <3>6
    <3>8. InOrder(made'[r], tokens') BY <3>7 DEF InOrder, scp
    <3> QED BY <2>2, <3>4, <3>8 DEF Bootstrapped
  <2>3. CASE q = r /\ Mint(r) /\ call[r].op # "bootstrap"
    BY <2>3 DEF Mint, Bootstrapped
  <2>4. CASE q = r /\ Respond(r) BY <1>s, <2>4 DEF Respond
  <2>5. CASE q = r /\ Continues(r) BY <1>s, <2>5 DEF Continues
  <2>6. CASE q = r /\ Ends(r) /\ call[r].op = "bootstrap"
    <3>1. UNCHANGED <<call, made, tokens>> BY <2>6 DEF Ends
    <3>2. InOrder(made[r], tokens) BY <1>0, <2>6 DEF Bootstrapped
    <3>3. ASSUME outcome'[r].status = 200
          PROVE  Len(made[r]) = Len(BootstrapScopes) /\ outcome'[r].ids = All(made[r])
      <4>1. pc[r] \notin {"device", "read", "erase"}
        BY <1>0, <2>6 DEF Slot, TableInv
      <4>2. /\ pc[r] = "insert" /\ ~(Len(made[r]) < needed(call[r]))
            /\ outcome'[r].ids = All(made[r])
        BY <2>6, <3>3, <4>1 DEF Ends, All
      <4>3. Len(made[r]) \in 1 .. 4 /\ ~(Len(made[r]) < 4)
        BY <1>0, <2>6, <4>2, NeededTokens DEF Shaped
      <4>4. \A n \in 1 .. 4 : ~(n < 4) => n = 4 OBVIOUS
      <4>5. Len(made[r]) = 4 BY <4>3, <4>4, Zenon
      <4> QED BY <4>2, <4>5 DEF BootstrapScopes
    <3> QED BY <2>6, <3>1, <3>2, <3>3 DEF Bootstrapped
  <2>7. CASE q = r /\ Ends(r) /\ call[r].op # "bootstrap" BY <2>7 DEF Ends, Bootstrapped
  <2> QED BY <1>2, <2>1, <2>2, <2>3, <2>4, <2>5, <2>6, <2>7, StepKinds
<1>3. ASSUME NEW r \in Requests, Timeout(r) PROVE Bootstrapped(q)'
  BY <1>s, <1>3 DEF Timeout
<1>4. CASE Environment
  <2>1. CASE Crash BY <2>1 DEF Crash, Bootstrapped, NoCall
  <2>2. CASE ~Crash
    BY <1>4, <1>s, <2>2 DEF Environment, WriteLands, WriteLost, Settle, Regroup, Register, Tick, slots
  <2> QED BY <2>1, <2>2
<1>5. CASE UNCHANGED vars BY <1>5, <1>s DEF vars
<1> QED BY <1>1, <1>2, <1>3, <1>4, <1>5 DEF Next

(* A bootstrap answered with success hands out the complete set, stored, in    *)
(* order and of the owner of the presented token.                            *)
THEOREM BootstrapsAreComplete == Spec => []BootstrapComplete
<1>1. Init => CompleteInv BY DEF Init, CompleteInv, Bootstrapped, NoCall
<1>2. LedgerInv /\ SlotInv /\ CompleteInv => BootstrapComplete
  <2> SUFFICES ASSUME LedgerInv, SlotInv, CompleteInv, NEW r \in Requests,
                      call[r].op = "bootstrap", reply[r].status = 200
               PROVE  /\ Len(made[r]) = Len(BootstrapScopes)
                      /\ reply[r].ids = {made[r][k] : k \in DOMAIN made[r]}
                      /\ reply[r].ids \subseteq rows \cup erased
                      /\ \A k \in DOMAIN made[r] :
                           /\ tokens[made[r][k]].jwt.content.scp = {{BootstrapScopes[k]}}
                           /\ tokens[made[r][k]].ownerId = tokens[call[r].token].jwt.sub
    BY DEF BootstrapComplete
  <2>1. reply[r] = outcome[r] BY DEF SlotInv, Slot
  <2>2. Stored(r) /\ Sole(r) /\ Bootstrapped(r)
    BY DEF LedgerInv, KeptInv, SoleInv, CompleteInv
  <2> QED BY <2>1, <2>2 DEF Stored, Sole, Bootstrapped, InOrder, All
<1> QED
  BY <1>1, <1>2, CompleteNext, SlotInit, SlotNext, LedgerInvariant, TypeInvariant, PTL
  DEF Spec, LedgerInv
=============================================================================
