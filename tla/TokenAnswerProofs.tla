--------------------------- MODULE TokenAnswerProofs ---------------------------
(****************************************************************************)
(* What queries show and what a verification vouches for, and the course all   *)
(* requests keep, for any requests, tenants, replicas and groups.            *)
(****************************************************************************)
EXTENDS TokenBootstrapProofs

------------------------------------------------------------------------------
(* Queries                                                                  *)

(* What a query has to show stays settled in the table or is deleted, what it  *)
(* must not show stays deleted on every replica; its result respects both.     *)
Queried(r) ==
  LET c == call[r] IN
  c.op \in {"list", "get"} =>
    /\ c.owed \subseteq Ids /\ c.owed \subseteq (rows \ unsettled) \cup erased
    /\ c.gone \subseteq erased \ unsettled
    /\ outcome[r].status = 200 =>
         /\ (c.owed \cap selected(c)) \ erased \subseteq outcome[r].ids
         /\ outcome[r].ids \subseteq byOwnerId(c.who) \ c.gone

QueryInv == \A r \in Requests : Queried(r)

(* The table of one step to the next: settled rows stay or are deleted.       *)
TableMoves ==
  /\ rows \ unsettled \subseteq (rows' \ unsettled') \cup erased'
  /\ erased \subseteq erased' /\ erased \ unsettled \subseteq erased' \ unsettled'

LEMMA TableMoved ==
  ASSUME TypeInv, TableInv, [Next]_vars
  PROVE  TableMoves
<1>1. CASE UNCHANGED <<rows, erased, unsettled>> BY <1>1 DEF TableMoves
<1>2. ASSUME NEW r \in Requests, Arrive(r) PROVE TableMoves
  BY <1>1, <1>2, Arrival DEF Arrived, table
<1>3. ASSUME NEW r \in Requests, Step(r) \/ Timeout(r) PROVE TableMoves
  <2>1. CASE RowDeleted(r)
    BY <2>1, DeleteNarrow DEF RowDeleted, TableMoves, TableInv
  <2>2. CASE ~RowDeleted(r)
    <3>1. UNCHANGED <<rows, erased, unsettled>>
      BY <1>3, <2>2
      DEF Step, TenantGroups, DeviceGroups, GroupsFail, IdentityKey, IdentityKeyFails,
          MintRefused, MintFails, Mint, InsertDone, InsertFails, RowsRead, StorageFails,
          Respond, Timeout, Untouched, table
    <3> QED BY <1>1, <3>1
  <2> QED BY <2>1, <2>2
<1>4. CASE Environment
  <2>1. ASSUME NEW i \in Ids, WriteLands(i) \/ WriteLost(i) \/ Settle(i) PROVE TableMoves
    BY <2>1 DEF WriteLands, WriteLost, Settle, TableMoves, TableInv
  <2>2. CASE \A i \in Ids : ~(WriteLands(i) \/ WriteLost(i) \/ Settle(i))
    BY <1>1, <1>4, <2>2 DEF Environment, Regroup, Register, Tick, Crash, table
  <2> QED BY <2>1, <2>2
<1>5. CASE UNCHANGED vars BY <1>1, <1>5 DEF vars, table
<1> QED BY <1>2, <1>3, <1>4, <1>5 DEF Next

(* Rows are selected by what was signed, which does not change.               *)
LEMMA Selection ==
  ASSUME TypeInv, Grown, NEW c
  PROVE  /\ byOwnerId(c.who) \subseteq byOwnerId(c.who)'
         /\ selected(c) \subseteq byOwnerId(c.who)
         /\ selected(c)' \cap Ids \subseteq selected(c)
BY DEF byOwnerId, byOwnerIdAndId, selected, Grown, Ids

LEMMA QueryStable ==
  ASSUME TypeInv, Grown, TableMoves, NEW q \in Requests, Queried(q),
         UNCHANGED <<call[q], outcome[q]>>
  PROVE  Queried(q)'
<1> DEFINE c == call[q]
<1>1. call'[q] = c /\ outcome'[q] = outcome[q] OBVIOUS
<1>2. /\ byOwnerId(c.who) \subseteq byOwnerId(c.who)'
      /\ selected(c)' \cap Ids \subseteq selected(c)
  BY Selection
<1>3. Ids \subseteq Ids' BY DEF Grown, Ids
<1> QED BY <1>1, <1>2, <1>3 DEF Queried, TableMoves

LEMMA QueryNext ==
  TypeInv /\ TableInv /\ SlotInv /\ QueryInv /\ [Next]_vars => QueryInv'
<1> SUFFICES ASSUME TypeInv, TableInv, SlotInv, QueryInv, [Next]_vars, NEW q \in Requests
             PROVE  Queried(q)'
  BY DEF QueryInv
<1>0. Queried(q) /\ Slot(q) /\ Grown /\ TableMoves
  BY Growth, TableMoved DEF QueryInv, SlotInv
<1>s. ASSUME UNCHANGED <<call[q], outcome[q]>> PROVE Queried(q)'
  BY <1>0, <1>s, QueryStable
<1>1. ASSUME NEW r \in Requests, Arrive(r) PROVE Queried(q)'
  <2>1. Arrived(r) BY <1>1, Arrival
  <2>2. CASE q = r
    <3> DEFINE c == call'[r]
    <3>1. /\ UNCHANGED <<tokens, rows, erased, unsettled>>
          /\ outcome'[r].status = 200 => c.op = "verify"
          /\ c.op \in {"list", "get"} =>
               /\ c.owed = (rows \ unsettled) \cap byOwnerId(c.who)
               /\ c.gone = erased \ unsettled
      BY <2>1 DEF Arrived, table
    <3> QED BY <2>2, <3>1 DEF Queried, byOwnerId, Ids
  <2> QED BY <1>s, <2>1, <2>2 DEF Arrived
<1>2. ASSUME NEW r \in Requests, Step(r) PROVE Queried(q)'
  <2>1. CASE q # r BY <1>2, <1>s, <2>1, OthersStay
  <2>2. CASE q = r /\ (Mint(r) \/ Respond(r) \/ Continues(r))
    BY <1>s, <2>2 DEF Mint, Respond, Continues
  <2>3. CASE q = r /\ Ends(r) /\ call[r].op \in {"list", "get"}
    <3> DEFINE c == call[r]
               seen == outcome'[r].ids
    <3>1. UNCHANGED <<call, tokens>> BY <2>3 DEF Ends
    <3>2. ASSUME outcome'[r].status = 200
          PROVE  /\ UNCHANGED <<rows, erased, unsettled>>
                 /\ (c.owed \cap selected(c)) \ erased \subseteq seen
                 /\ seen \subseteq byOwnerId(c.who) \ c.gone
      <4>1. pc[r] = "read"
        <5>1. pc[r] \notin {"device", "erase"} BY <1>0, <2>3 DEF Slot, TableInv
        <5>2. ~(pc[r] = "insert" /\ ~(Len(made[r]) < needed(call[r])))
          <6> SUFFICES ASSUME pc[r] = "insert" PROVE FALSE OBVIOUS
          <6>1. Len(made[r]) \in 1 .. needed(call[r]) /\ call[r] \in Call
            BY DEF TypeInv, TypeOK, Shaped
          <6>2. needed(call[r]) \in Nat /\ needed(call[r]) # 0 BY <6>1, NeededTokens
          <6> QED BY <2>3, <6>1, <6>2, NeededTokens
        <5> QED BY <2>3, <3>2, <5>1, <5>2 DEF Ends
      <4>2. /\ UNCHANGED <<rows, erased, unsettled>>
            /\ seen \subseteq (rows \cup (erased \cap unsettled)) \cap selected(c)
            /\ (rows \ unsettled) \cap selected(c) \subseteq seen
        BY <2>3, <3>2, <4>1 DEF Ends, table
      <4>3. selected(c) \subseteq byOwnerId(c.who) BY <1>0, Selection
      <4> QED BY <1>0, <2>3, <4>2, <4>3 DEF Queried, TableInv
    <3>3. /\ c.owed \subseteq Ids' /\ c.owed \subseteq (rows' \ unsettled') \cup erased'
          /\ c.gone \subseteq erased' \ unsettled'
      BY <1>0, <2>3, <3>1 DEF Queried, TableMoves, Ids
    <3>4. byOwnerId(c.who)' = byOwnerId(c.who) /\ selected(c)' = selected(c)
      BY <3>1 DEF byOwnerId, byOwnerIdAndId, selected, Ids
    <3>5. call'[r] = c BY <3>1
    <3> QED BY <2>3, <3>2, <3>3, <3>4, <3>5 DEF Queried
  <2>4. CASE q = r /\ Ends(r) /\ call[r].op \notin {"list", "get"}
    BY <2>4 DEF Ends, Queried
  <2> QED BY <1>2, <2>1, <2>2, <2>3, <2>4, StepKinds
<1>3. ASSUME NEW r \in Requests, Timeout(r) PROVE Queried(q)'
  BY <1>s, <1>3 DEF Timeout
<1>4. CASE Environment
  <2>1. CASE Crash BY <2>1 DEF Crash, Queried, NoCall
  <2>2. CASE ~Crash
    BY <1>4, <1>s, <2>2 DEF Environment, WriteLands, WriteLost, Settle, Regroup, Register, Tick, slots
  <2> QED BY <2>1, <2>2
<1>5. CASE UNCHANGED vars BY <1>5, <1>s DEF vars
<1> QED BY <1>1, <1>2, <1>3, <1>4, <1>5 DEF Next

(* A query shows the caller's own tokens, all that had settled before it       *)
(* arrived and are not deleted, and none whose deletion had settled by then.    *)
THEOREM QueriesAreAccurate == Spec => []QueriesAccurate
<1>1. Init => QueryInv BY DEF Init, QueryInv, Queried, NoCall
<1>2. SlotInv /\ QueryInv => QueriesAccurate
  BY DEF SlotInv, Slot, QueryInv, Queried, QueriesAccurate
<1> QED
  BY <1>1, <1>2, QueryNext, SlotInit, SlotNext, TableInit, TableNext, TypeInvariant, PTL
  DEF Spec

------------------------------------------------------------------------------
(* Verifications                                                            *)

(* A verification that waits for the console or has succeeded is about a       *)
(* token signed here; if this names groups, a success has compared them with   *)
(* groups of the device.                                                     *)
Verified(r) ==
  LET p == call[r].token IN
  call[r].op = "verify" =>
    /\ pc[r] = "device" => p \in Ids
    /\ outcome[r].status = 200 =>
         /\ p \in Ids
         /\ hasMaybeGroups(claimOf(p)) =>
              verifyGroups(claimOf(p).targetGroups, held[call[r].device])

VerifiedInv == \A r \in Requests : Verified(r)

HeldGrows == \A x \in Members : held[x] \subseteq held'[x]

LEMMA VerifiedStable ==
  ASSUME TypeInv, Grown, HeldGrows, NEW q \in Requests, Verified(q),
         UNCHANGED <<call[q], outcome[q]>>, pc'[q] = "device" => pc[q] = "device"
  PROVE  Verified(q)'
<1> DEFINE p == call[q].token
           d == call[q].device
<1> SUFFICES ASSUME call[q].op = "verify"
             PROVE  /\ pc'[q] = "device" => p \in Ids'
                    /\ outcome[q].status = 200 =>
                         /\ p \in Ids'
                         /\ hasMaybeGroups(claimOf(p))' =>
                              verifyGroups(claimOf(p).targetGroups, held[d])'
  BY DEF Verified
<1>1. d \in Members
  <2>1. call[q] \in Call BY DEF TypeInv, TypeOK
  <2>2. d \in Identities BY <2>1 DEF Call
  <2> QED BY <2>2 DEF Members
<1>2. p \in Ids => p \in Ids' /\ tokens'[p] = tokens[p] BY DEF Grown, Ids
<1> QED BY <1>1, <1>2, GroupsMonotone DEF Verified, HeldGrows, claimOf

LEMMA HeldMoved == TypeInv /\ [Next]_vars => HeldGrows
<1> SUFFICES ASSUME TypeInv, [Next]_vars PROVE HeldGrows OBVIOUS
<1>1. CASE UNCHANGED held BY <1>1 DEF HeldGrows
<1>2. ASSUME NEW r \in Requests, Arrive(r) PROVE UNCHANGED held
  BY <1>2, Arrival DEF Arrived, world
<1>3. ASSUME NEW r \in Requests, Step(r) \/ Timeout(r) PROVE UNCHANGED held
  BY <1>3, StepKinds DEF Mint, Respond, Continues, Ends, Timeout, Untouched, world
<1>4. CASE Environment
  <2>1. ASSUME NEW x \in Members, NEW g, Regroup(x, g) PROVE HeldGrows
    BY <2>1 DEF Regroup, HeldGrows, TypeInv, TypeOK
  <2>2. CASE UNCHANGED held BY <1>1, <2>2
  <2> QED
    BY <1>4, <2>1, <2>2
    DEF Environment, WriteLands, WriteLost, Settle, Register, Tick, Crash, world
<1>5. CASE UNCHANGED vars BY <1>1, <1>5 DEF vars
<1> QED BY <1>1, <1>2, <1>3, <1>4, <1>5 DEF Next

LEMMA VerifiedNext ==
  ASSUME TypeInv, SlotInv, TableInv, VerifiedInv, \A x \in Members : groups[x] \subseteq held[x],
         [Next]_vars
  PROVE  VerifiedInv'
<1> SUFFICES ASSUME NEW q \in Requests PROVE Verified(q)' BY DEF VerifiedInv
<1>0. Verified(q) /\ Slot(q) /\ Grown /\ HeldGrows
  BY Growth, HeldMoved DEF VerifiedInv, SlotInv
<1>s. ASSUME UNCHANGED <<call[q], outcome[q]>>, pc'[q] = "device" => pc[q] = "device"
      PROVE  Verified(q)'
  BY <1>0, <1>s, VerifiedStable
<1>1. ASSUME NEW r \in Requests, Arrive(r) PROVE Verified(q)'
  <2>1. Arrived(r) BY <1>1, Arrival
  <2>2. CASE q = r /\ call'[r].op = "verify"
    <3> DEFINE c == call'[r]
               p == c.token
    <3>1. /\ UNCHANGED <<now, tokens, held>>
          /\ pc'[r] = "device" => verifyStatus(c) = 0
          /\ outcome'[r].status = 200 => verifyStatus(c) = 200
      BY <2>1, <2>2 DEF Arrived, world
    <3>2. /\ verifyStatus(c) \in {0, 200} => decodingStatus(p) = 0
          /\ verifyStatus(c) = 200 => ~hasMaybeGroups(claimOf(p))
      BY DEF verifyStatus, decodingStatus, claimOf
    <3>3. p \in Ids \cup {Forged, Garbage}
      BY <2>1, <2>2 DEF Arrived, Presentable, TypeInv, TypeOK
    <3>4. decodingStatus(p) = 0 => p \in Ids BY <3>3, DecodedIsOurs
    <3> QED BY <2>2, <3>1, <3>2, <3>4 DEF Verified, claimOf, Ids
  <2>3. CASE q = r /\ call'[r].op # "verify" BY <2>3 DEF Verified
  <2> QED BY <1>s, <2>1, <2>2, <2>3 DEF Arrived
<1>2. ASSUME NEW r \in Requests, Step(r) PROVE Verified(q)'
  <2>1. CASE q # r BY <1>2, <1>s, <2>1, OthersStay
  <2>2. CASE q = r /\ Mint(r) BY <1>s, <2>2 DEF Mint, TypeInv, TypeOK
  <2>3. CASE q = r /\ Respond(r) BY <1>s, <2>3 DEF Respond, TypeInv, TypeOK
  <2>4. CASE q = r /\ Continues(r) BY <1>s, <2>4 DEF Continues
  <2>5. CASE q = r /\ Ends(r) /\ call[r].op = "verify"
    <3> DEFINE p == call[r].token
               d == call[r].device
    <3>1. UNCHANGED <<call, tokens, held>> /\ pc'[r] = "respond" BY <2>5 DEF Ends, world
    <3>2. ASSUME outcome'[r].status = 200
          PROVE  p \in Ids /\ verifyGroups(claimOf(p).targetGroups, held[d])
      <4>1. pc[r] \notin {"read", "erase"} BY <1>0, <2>5 DEF Slot, TableInv
      <4>2. call[r] \in Call BY DEF TypeInv, TypeOK
      <4>3. pc[r] # "insert"
        <5> SUFFICES ASSUME pc[r] = "insert" PROVE FALSE OBVIOUS
        <5>1. Len(made[r]) \in 1 .. needed(call[r]) BY DEF TypeInv, Shaped
        <5>2. needed(call[r]) \in Nat /\ needed(call[r]) # 0 BY <4>2, <5>1, NeededTokens
        <5> QED BY <2>5, <4>2, <5>2, NeededTokens
      <4>4. pc[r] = "device" /\ verifyGroups(claimOf(p).targetGroups, groups[d])
        BY <2>5, <3>2, <4>1, <4>3 DEF Ends, claimOf
      <4>5. d \in Members
        <5>1. d \in Identities BY <2>5, <4>2 DEF Call
        <5> QED BY <5>1 DEF Members
      <4> QED BY <1>0, <2>5, <4>4, <4>5, GroupsMonotone DEF Verified
    <3> QED BY <2>5, <3>1, <3>2 DEF Verified, claimOf, Ids
  <2>6. CASE q = r /\ Ends(r) /\ call[r].op # "verify" BY <2>6 DEF Ends, Verified
  <2> QED BY <1>2, <2>1, <2>2, <2>3, <2>4, <2>5, <2>6, StepKinds
<1>3. ASSUME NEW r \in Requests, Timeout(r) PROVE Verified(q)'
  BY <1>s, <1>3 DEF Timeout
<1>4. CASE Environment
  <2>1. CASE Crash BY <2>1 DEF Crash, Verified, NoCall
  <2>2. CASE ~Crash
    BY <1>4, <1>s, <2>2 DEF Environment, WriteLands, WriteLost, Settle, Regroup, Register, Tick, slots
  <2> QED BY <2>1, <2>2
<1>5. CASE UNCHANGED vars BY <1>5, <1>s DEF vars
<1> QED BY <1>1, <1>2, <1>3, <1>4, <1>5 DEF Next

(* Under the strict check, a device for which a token naming groups is         *)
(* verified has been in a group, named by the token, of the token's tenant:     *)
(* whatever changed between the creation, any bootstraps and the verification.  *)
THEOREM VerifiedDevicesShareGroups == StrictGroupCheck => (Spec => []VerifiedSharesGroup)
<1> SUFFICES ASSUME StrictGroupCheck PROVE Spec => []VerifiedSharesGroup OBVIOUS
<1>1. Init => VerifiedInv BY DEF Init, VerifiedInv, Verified, NoCall
<1>2. TypeInv /\ SlotInv /\ TableInv /\ VerifiedInv /\ VouchedInv /\ [Next]_vars => VerifiedInv'
  BY VerifiedNext DEF VouchedInv
<1>3. SlotInv /\ VerifiedInv /\ VouchedInv => VerifiedSharesGroup
  <2> SUFFICES ASSUME SlotInv, VerifiedInv, VouchedInv, NEW r \in Requests,
                      call[r].op = "verify", reply[r].status = 200,
                      tokens[call[r].token].vouched, NamesGroups(call[r].token)
               PROVE  LET p == call[r].token IN
                      \E x \in claimOf(p).targetGroups :
                        /\ x \in offered(claimOf(p).targetGroups, held[claimOf(p).tenantId])
                        /\ x \in offered(claimOf(p).targetGroups, held[call[r].device])
    BY DEF VerifiedSharesGroup
  <2> DEFINE p == call[r].token
  <2>1. outcome[r].status = 200 BY DEF SlotInv, Slot
  <2>2. /\ p \in Ids /\ hasMaybeGroups(claimOf(p))
        /\ verifyGroups(claimOf(p).targetGroups, held[call[r].device])
    BY <2>1 DEF VerifiedInv, Verified, NamesGroups
  <2>3. verifyGroups(claimOf(p).targetGroups, held[claimOf(p).tenantId])
    BY <2>2 DEF VouchedInv, VouchedGroups
  <2> QED BY <2>2, <2>3, StrictAgreement
<1> QED
  BY <1>1, <1>2, <1>3, SlotInit, SlotNext, TableInit, TableNext, TypeInvariant,
     VouchedInvariant, PTL
  DEF Spec

------------------------------------------------------------------------------
(* The course of a request                                                  *)

(* A task that is not at its end has a turn left, none has more than the       *)
(* signatures and inserts of a bootstrap and two attempts at the key.         *)
TurnsLeft ==
  \A r \in Requests :
    /\ courseLeft(r) \in 0 .. 10
    /\ pc[r] \notin {"idle", "done", "respond"} => courseLeft(r) > 0

LEMMA CourseTurns == TypeInv => TurnsLeft
<1> SUFFICES ASSUME TypeInv, NEW r \in Requests
             PROVE  /\ courseLeft(r) \in 0 .. 10
                    /\ pc[r] \notin {"idle", "done", "respond"} => courseLeft(r) > 0
  BY DEF TurnsLeft
<1> DEFINE n == needed(call[r])
           m == Len(made[r])
<1>1. /\ call[r] \in Call /\ made[r] \in Seq(Nat) /\ Shaped(r) /\ pc[r] \in Stages
  BY DEF TypeInv, TypeOK
<1>2. m \in Nat /\ (made[r] = <<>> => m = 0) BY <1>1
<1>3. /\ n \in {0, 1, 4}
      /\ pc[r] = "groups" => n = 1
      /\ pc[r] \in {"key", "keyAgain"} => n = 4
  BY <1>1, NeededTokens DEF Shaped, needed, BootstrapScopes
<1>4. /\ pc[r] \in {"groups", "key", "keyAgain"} => m = 0
      /\ pc[r] = "mint" => m < n
      /\ pc[r] = "insert" => m \in 1 .. n
  BY <1>1, <1>2 DEF Shaped
<1>5. missing(r) = n - m BY DEF missing
<1> HIDE DEF n, m
<1>6. pc[r] = "mint" => missing(r) \in 1 .. 4 BY <1>2, <1>3, <1>4, <1>5
<1>7. pc[r] = "insert" => missing(r) \in 0 .. 3 BY <1>2, <1>3, <1>4, <1>5
<1>8. /\ pc[r] = "groups" => missing(r) = 1
      /\ pc[r] \in {"key", "keyAgain"} => missing(r) = 4
  BY <1>2, <1>3, <1>4, <1>5
<1> QED BY <1>6, <1>7, <1>8 DEF courseLeft

(* A step of r leaves the courses of the others alone.                        *)
OnlyMoves(r) == \A q \in Requests \ {r} : UNCHANGED <<pc[q], call[q], made[q], reply[q]>>

LEMMA CourseMoves ==
  ASSUME NEW r \in Requests, OnlyMoves(r)
  PROVE  /\ \A P : coursePhase(r)' \in P => Course!Enters(r, P)
         /\ \A N : courseLeft(r)' \in N => Course!LeftWith(r, N)
         /\ \A a : courseAnswer(r)' = a => Course!Answered(r, a)
<1>1. \A q \in Requests \ {r} :
        /\ coursePhase(q)' = coursePhase(q) /\ courseLeft(q)' = courseLeft(q)
        /\ courseAnswer(q)' = courseAnswer(q)
  BY DEF OnlyMoves, coursePhase, courseLeft, missing, courseAnswer
<1> QED BY <1>1 DEF Course!Enters, Course!LeftWith, Course!Answered

(* Nothing moves when no slot does.                                          *)
LEMMA CourseStays ==
  ASSUME UNCHANGED <<pc, call, made, reply>>
  PROVE  UNCHANGED Course!course
BY DEF Course!course, coursePhase, courseLeft, missing, courseAnswer

LEMMA CourseStart == Init => Course!CourseInit
BY DEF Init, Course!CourseInit, coursePhase, courseLeft, courseAnswer, NoAnswer, Failed

(* A task that goes on, with less to do and not back to its thread, advances.  *)
LEMMA CourseAdvances ==
  ASSUME TypeInv, TypeInv', NEW r \in Requests, OnlyMoves(r),
         pc[r] \notin {"idle", "respond", "done"},
         coursePhase(r)' \in Course!Onward(coursePhase(r)),
         courseLeft(r)' < courseLeft(r), UNCHANGED reply
  PROVE  Course!Advance(r)
<1>1. courseLeft(r) \in 0 .. 10 BY CourseTurns DEF TurnsLeft
<1>2. TurnsLeft' BY CourseTurns, PTL
<1>3. courseLeft(r)' \in 0 .. 10 BY <1>2 DEF TurnsLeft
<1>4. courseLeft(r)' \in 0 .. courseLeft(r) - 1 BY <1>1, <1>3
<1>5. /\ Course!Enters(r, Course!Onward(coursePhase(r)))
      /\ Course!LeftWith(r, 0 .. courseLeft(r) - 1)
  BY <1>4, CourseMoves
<1>6. coursePhase(r) \in {"blocking", "deferred"}
  BY DEF coursePhase, TypeInv, TypeOK, Stages
<1>7. UNCHANGED [q \in Requests |-> courseAnswer(q)] BY DEF courseAnswer
<1> QED BY <1>5, <1>6, <1>7 DEF Course!Advance

LEMMA CourseStep ==
  ASSUME TypeInv, SlotInv, [Next]_vars
  PROVE  [Course!CourseNext]_(Course!course)
<1> DEFINE Goal == Course!CourseNext \/ UNCHANGED Course!course
<1> SUFFICES Goal OBVIOUS
<1>t. TypeInv' BY TypeNext
<1>c. TurnsLeft' BY <1>t, CourseTurns, PTL
<1>n. ASSUME NEW r \in Requests,
             \/ Course!Accept(r) \/ Course!Reject(r) \/ Course!Advance(r)
             \/ Course!Reply(r) \/ Course!TimeOut(r)
      PROVE  Goal
  BY <1>n DEF Course!CourseNext
<1> HIDE DEF Goal
<1>1. ASSUME NEW r \in Requests, Arrive(r) PROVE Goal
  <2>1. Arrived(r) BY <1>1, Arrival
  <2>2. OnlyMoves(r) BY <2>1 DEF Arrived, OnlyMoves
  <2>3. coursePhase(r) = "free" BY <2>1 DEF Arrived, coursePhase
  <2>4. CASE pc'[r] = "done"
    <3>1. coursePhase(r)' \in {"free"} /\ courseLeft(r)' \in {0} /\ courseAnswer(r)' = "manager"
      BY <2>1, <2>4 DEF Arrived, coursePhase, courseLeft, courseAnswer, NoAnswer, Failed
    <3>2. Course!Reject(r) BY <2>2, <2>3, <3>1, CourseMoves DEF Course!Reject, Course!Free
    <3> QED BY <1>n, <3>2
  <2>5. CASE pc'[r] # "done"
    <3>1. coursePhase(r)' \in {"blocking", "deferred", "ended"}
      BY <2>1, <2>5 DEF Arrived, coursePhase
    <3>2. courseAnswer(r)' = "nobody" BY <2>1, <2>5 DEF Arrived, courseAnswer, NoAnswer, Failed
    <3>3. courseLeft(r)' \in 0 .. 2 * Len(BootstrapScopes) + 2
      BY <1>c DEF TurnsLeft, BootstrapScopes
    <3>4. Course!Accept(r) BY <2>2, <2>3, <3>1, <3>2, <3>3, CourseMoves DEF Course!Accept
    <3> QED BY <1>n, <3>4
  <2> QED BY <2>4, <2>5
<1>2. ASSUME NEW r \in Requests, Step(r) PROVE Goal
  <2>1. OnlyMoves(r) BY <1>2, OthersStay DEF OnlyMoves
  <2>t. /\ Shaped(r) /\ Slot(r) /\ call[r] \in Call /\ made[r] \in Seq(Nat)
        /\ pc \in [Requests -> Stages] /\ made \in [Requests -> Seq(Nat)]
        /\ reply \in [Requests -> Answer]
    BY DEF TypeInv, TypeOK, SlotInv
  <2>m. missing(r) \in Int
    <3>1. Len(made[r]) \in Nat /\ needed(call[r]) \in Nat BY <2>t, NeededTokens
    <3> QED BY <3>1 DEF missing
  <2>2. CASE Mint(r)
    <3> DEFINE id == Len(tokens) + 1
    <3>1. /\ pc[r] = "mint" /\ pc'[r] = "insert" /\ made'[r] = Append(made[r], id)
          /\ UNCHANGED <<call, reply>> /\ tokens \in Seq(Token)
      BY <2>2, <2>t DEF Mint, TypeInv, TypeOK
    <3>2. Len(made'[r]) = Len(made[r]) + 1 BY <2>t, <3>1
    <3>3. missing(r)' = needed(call[r]) - (Len(made[r]) + 1) BY <3>1, <3>2 DEF missing, needed
    <3>4. Len(made[r]) \in Nat /\ needed(call[r]) \in Nat BY <2>t, NeededTokens
    <3>5. missing(r)' = missing(r) - 1 BY <3>3, <3>4 DEF missing
    <3>6. courseLeft(r) = 2 * missing(r) /\ courseLeft(r)' = 2 * missing(r)' + 1
      BY <3>1 DEF courseLeft
    <3>7. courseLeft(r)' < courseLeft(r) BY <2>m, <3>5, <3>6
    <3>8. coursePhase(r)' \in Course!Onward(coursePhase(r))
      BY <3>1 DEF coursePhase, Course!Onward
    <3>9. Course!Advance(r) BY <1>t, <2>1, <3>1, <3>7, <3>8, CourseAdvances
    <3> QED BY <1>n, <3>9
  <2>3. CASE Respond(r)
    <3>1. /\ pc[r] = "respond" /\ pc'[r] = "done"
          /\ reply'[r] = IF reply[r] = NoAnswer THEN outcome[r] ELSE reply[r]
          /\ outcome[r].status \in {200, 400, 500}
      BY <2>3, <2>t DEF Respond, Slot
    <3>2. /\ coursePhase(r) = "ended" /\ coursePhase(r)' \in {"free"}
          /\ courseLeft(r)' \in {0}
      BY <3>1 DEF coursePhase, courseLeft
    <3>3. courseAnswer(r)' = IF courseAnswer(r) = "nobody" THEN "manager" ELSE courseAnswer(r)
      BY <3>1 DEF courseAnswer, NoAnswer, Failed
    <3>4. Course!Reply(r) BY <2>1, <3>2, <3>3, CourseMoves DEF Course!Reply, Course!Free
    <3> QED BY <1>n, <3>4
  <2>4. CASE Continues(r)
    <3>1. /\ pc[r] \in {"groups", "key", "keyAgain", "insert"}
          /\ pc'[r] \in IF pc[r] = "key" THEN {"mint", "keyAgain"} ELSE {"mint"}
          /\ UNCHANGED <<call, made, reply>>
      BY <2>4 DEF Continues
    <3>2. missing(r)' = missing(r) BY <3>1 DEF missing, needed
    <3>3. courseLeft(r)' < courseLeft(r) BY <2>m, <3>1, <3>2 DEF courseLeft
    <3>4. pc[r] = "insert" => made[r] # <<>>
      <4>1. pc[r] = "insert" => Len(made[r]) >= 1
        BY <2>t, NeededTokens DEF Shaped
      <4> QED BY <4>1
    <3>5. coursePhase(r)' \in Course!Onward(coursePhase(r))
      BY <3>1, <3>4 DEF coursePhase, Course!Onward
    <3>6. Course!Advance(r) BY <1>t, <2>1, <3>1, <3>3, <3>5, CourseAdvances
    <3> QED BY <1>n, <3>6
  <2>5. CASE Ends(r)
    <3>1. pc[r] \notin {"idle", "respond", "done"} /\ pc'[r] = "respond" /\ UNCHANGED reply
      BY <2>5 DEF Ends
    <3>2. courseLeft(r)' = 0 /\ courseLeft(r) > 0 BY <3>1, CourseTurns DEF TurnsLeft, courseLeft
    <3>3. coursePhase(r)' \in Course!Onward(coursePhase(r))
      BY <3>1 DEF coursePhase, Course!Onward
    <3>4. Course!Advance(r) BY <1>t, <2>1, <3>1, <3>2, <3>3, CourseAdvances
    <3> QED BY <1>n, <3>4
  <2> QED BY <1>2, <2>2, <2>3, <2>4, <2>5, StepKinds
<1>3. ASSUME NEW r \in Requests, Timeout(r) PROVE Goal
  <2>1. OnlyMoves(r) BY <1>3, OthersStay DEF OnlyMoves
  <2>2. /\ Busy(r) /\ Timed(r) /\ reply[r] = NoAnswer /\ reply'[r] = Failed(504)
        /\ UNCHANGED <<pc, call, made>> /\ Shaped(r) /\ pc[r] \in Stages
    BY <1>3 DEF Timeout, TypeInv, TypeOK
  <2>3. coursePhase(r) \in {"deferred", "ended"}
    BY <2>2 DEF coursePhase, Busy, Timed, Shaped, Stages
  <2>4. courseAnswer(r) = "nobody" /\ courseAnswer(r)' = "container"
    BY <2>2 DEF courseAnswer, NoAnswer, Failed
  <2>5. UNCHANGED <<[q \in Requests |-> coursePhase(q)], [q \in Requests |-> courseLeft(q)]>>
    BY <2>2 DEF coursePhase, courseLeft, missing
  <2>6. Course!TimeOut(r) BY <2>1, <2>3, <2>4, <2>5, CourseMoves DEF Course!TimeOut
  <2> QED BY <1>n, <2>6
<1>4. CASE Environment
  <2>1. CASE Crash
    <3>1. Course!Die
      BY <2>1 DEF Crash, Course!Die, Course!CourseInit, coursePhase, courseLeft, courseAnswer,
                 NoAnswer, Failed
    <3> QED BY <3>1 DEF Goal, Course!CourseNext
  <2>2. CASE ~Crash
    <3>1. UNCHANGED <<pc, call, made, reply>>
      BY <1>4, <2>2 DEF Environment, WriteLands, WriteLost, Settle, Regroup, Register, Tick, slots
    <3> QED BY <3>1, CourseStays DEF Goal
  <2> QED BY <2>1, <2>2
<1>5. CASE UNCHANGED vars BY <1>5, CourseStays DEF Goal, vars
<1> QED BY <1>1, <1>2, <1>3, <1>4, <1>5 DEF Next

(* Whatever its endpoint, a request keeps the course of a request: over HTTP    *)
(* first, with less to do at each turn, answered once, and timed only off its   *)
(* thread; retries, timeouts, lost writes and crashes included.               *)
THEOREM ServiceKeepsCourse == Spec => ImplementsCourse
<1>1. TypeInv /\ SlotInv /\ [Next]_vars => [Course!CourseNext]_(Course!course)
  BY CourseStep
<1> QED
  BY <1>1, CourseStart, SlotInit, SlotNext, TypeInvariant, PTL
  DEF Spec, ImplementsCourse, Course!CourseSpec
=============================================================================
