----------------------------- MODULE RequestPoolProofs -----------------------------
(****************************************************************************)
(* For any number of requests, threads and connections: no connection is      *)
(* leaked, and the counters count every task that has ended once.             *)
(****************************************************************************)
EXTENDS RequestPool, FiniteSetTheorems, SequenceTheorems, TLAPS

(* A request that waits or calls has a service over HTTP to ask next, one that *)
(* stores has Cassandra: where a request is follows from what it has to do.   *)
Placed ==
  \A r \in Requests :
    /\ pc[r] \in {"waiting", "calling"} => todo[r] # <<>> /\ Head(todo[r]) \in Hosts
    /\ pc[r] = "storing" => todo[r] # <<>>

Ended == {r \in Requests : pc[r] \in {"ended", "done"} /\ reply[r] # "refused"}

(* Callbacks are pending only for tasks that have ended, and only a request    *)
(* that is done can have been refused.                                       *)
Pending ==
  /\ callbacks \subseteq Ended
  /\ \A r \in Requests : reply[r] = "refused" => pc[r] = "done"

PoolInv == TypeOK /\ Placed /\ ConnectionsAccounted

CountInv == Pending /\ CountersCountTasks

LEMMA TailType ==
  ASSUME NEW s \in Seq(Services), s # <<>>
  PROVE  Tail(s) \in Seq(Services) /\ Head(s) \in Services
OBVIOUS

(* Every task is a sequence of services.                                     *)
LEMMA TasksType == Tasks \subseteq Seq(Services)
<1> USE DEF Services, Hosts
<1>1. Inserts \in Seq(Services) BY DEF Inserts
<1>2. <<"identity">> \in Seq(Services) /\ <<"identity", "identity">> \in Seq(Services)
  OBVIOUS
<1>3. Bootstraps \subseteq Seq(Services)
  <2>1. <<"identity">> \o Inserts \in Seq(Services) BY <1>1, <1>2
  <2>2. <<"identity", "identity">> \o Inserts \in Seq(Services) BY <1>1, <1>2
  <2> QED BY <2>1, <2>2 DEF Bootstraps
<1>4. {<<>>, <<"cassandra">>, <<"console">>, <<"console", "cassandra">>} \subseteq Seq(Services)
  OBVIOUS
<1> QED BY <1>3, <1>4 DEF Tasks

(* Where a task goes, it finds what it expects.                              *)
LEMMA StageType ==
  ASSUME NEW s \in Seq(Services)
  PROVE  /\ stage(s) \in {"waiting", "storing", "ended"}
         /\ stage(s) = "waiting" => s # <<>> /\ Head(s) \in Hosts
         /\ stage(s) = "storing" => s # <<>>
         /\ stage(s) = "ended" <=> s = <<>>
BY TailType DEF stage, Services

LEMMA PoolInit == Init => PoolInv
BY LoadsAssumption, TasksType
DEF Init, PoolInv, TypeOK, Placed, ConnectionsAccounted, Stages, Hosts

(* A task that goes on keeps types and places, if its connection is settled.  *)
LEMMA ContinueKeeps ==
  ASSUME PoolInv, NEW r \in Requests, NEW calls \in Seq(Services), Continue(r, calls),
         UNCHANGED <<hung, reply, successes, failures>>,
         \/ pc[r] = "calling" /\ Released(r)
         \/ pc[r] # "calling" /\ UNCHANGED leased
  PROVE  PoolInv'
<1> USE DEF PoolInv, Continue
<1>1. stage(calls) \in Stages BY StageType DEF Stages
<1>2. TypeOK'
  BY <1>1 DEF TypeOK, Released, Hosts
<1>3. Placed'
  BY StageType DEF Placed, TypeOK
<1>4. ConnectionsAccounted'
  BY StageType DEF ConnectionsAccounted, Placed, TypeOK, Released
<1> QED BY <1>2, <1>3, <1>4

LEMMA PoolStep == PoolInv /\ [Next]_vars => PoolInv'
<1> SUFFICES ASSUME PoolInv, [Next]_vars PROVE PoolInv' OBVIOUS
<1>0. CASE UNCHANGED vars
  BY <1>0 DEF vars, PoolInv, TypeOK, Placed, ConnectionsAccounted
<1> SUFFICES ASSUME NEW r \in Requests,
                    \/ Arrive(r) \/ Refuse(r) \/ Start(r)
                    \/ Lease(r) \/ Answer(r) \/ Break(r) \/ Stored(r)
                    \/ Respond(r) \/ Timeout(r) \/ Count(r)
             PROVE  PoolInv'
  BY <1>0 DEF Next
<1>t. todo[r] \in Seq(Services) /\ <<>> \in Seq(Services) BY DEF PoolInv, TypeOK
<1>s. todo[r] # <<>> => Tail(todo[r]) \in Seq(Services) BY <1>t, TailType
<1>1. CASE Arrive(r)
  BY <1>1 DEF Arrive, PoolInv, TypeOK, Stages, Placed, ConnectionsAccounted
<1>2. CASE Refuse(r)
  BY <1>2 DEF Refuse, PoolInv, TypeOK, Stages, Placed, ConnectionsAccounted
<1>3. CASE Start(r)
  <2> PICK calls \in {todo[r], <<>>} : Continue(r, calls) BY <1>3 DEF Start
  <2> QED BY <1>3, <1>t, ContinueKeeps DEF Start
<1>4. CASE Lease(r)
  BY <1>4 DEF Lease, PoolInv, TypeOK, Stages, Placed, ConnectionsAccounted, Hosts
<1>5. CASE Answer(r)
  <2>1. todo[r] # <<>> BY <1>5 DEF Answer, PoolInv, Placed
  <2> PICK rest \in {Tail(todo[r]), <<>>} : Continue(r, rest) BY <1>5 DEF Answer
  <2> QED BY <1>5, <1>t, <1>s, <2>1, ContinueKeeps DEF Answer
<1>6. CASE Break(r)
  BY <1>6, <1>t, ContinueKeeps DEF Break
<1>7. CASE Stored(r)
  <2>1. todo[r] # <<>> BY <1>7 DEF Stored, PoolInv, Placed
  <2> PICK rest \in {Tail(todo[r]), <<>>} : Continue(r, rest) BY <1>7 DEF Stored
  <2> QED BY <1>7, <1>t, <1>s, <2>1, ContinueKeeps DEF Stored
<1>8. CASE Respond(r)
  BY <1>8 DEF Respond, PoolInv, TypeOK, Stages, Placed, ConnectionsAccounted
<1>9. CASE Timeout(r)
  BY <1>9 DEF Timeout, PoolInv, TypeOK, Placed, ConnectionsAccounted
<1>10. CASE Count(r)
  BY <1>10 DEF Count, PoolInv, TypeOK, Placed, ConnectionsAccounted
<1> QED
  BY <1>1, <1>2, <1>3, <1>4, <1>5, <1>6, <1>7, <1>8, <1>9, <1>10

LEMMA PoolHolds == Spec => []PoolInv
BY PoolInit, PoolStep, PTL DEF Spec

(* Types are correct.                                                        *)
THEOREM PoolTypes == Spec => []TypeOK
<1>1. PoolInv => TypeOK BY DEF PoolInv
<1> QED BY <1>1, PoolHolds, PTL

(* No connection is leaked: it is held exactly during a call over it.         *)
THEOREM NoConnectionLeaks == Spec => []ConnectionsAccounted
<1>1. PoolInv => ConnectionsAccounted BY DEF PoolInv
<1> QED BY <1>1, PoolHolds, PTL

------------------------------------------------------------------------------
(* The counters                                                             *)

LEMMA Finite ==
  ASSUME Pending
  PROVE  /\ IsFiniteSet(Ended) /\ IsFiniteSet(callbacks)
         /\ Cardinality(Ended) \in Nat /\ Cardinality(callbacks) \in Nat
<1>1. Ended \subseteq Requests BY DEF Ended
<1>2. callbacks \subseteq Requests BY <1>1 DEF Pending
<1> QED BY <1>1, <1>2, RequestsAssumption, FS_Subset, FS_CardinalityType

(* A step that ends no task and runs no callback counts nothing.              *)
LEMMA CountStable ==
  ASSUME CountInv, UNCHANGED <<callbacks, successes, failures>>, Ended' = Ended,
         \A r \in Requests : reply'[r] = "refused" => pc'[r] = "done"
  PROVE  CountInv'
BY DEF CountInv, Pending, CountersCountTasks, Ended

(* A task that goes on is counted when it has ended, and only then.           *)
LEMMA ContinueCounts ==
  ASSUME PoolInv, CountInv, NEW r \in Requests, NEW calls \in Seq(Services),
         pc[r] \notin {"ended", "done"}, Continue(r, calls),
         UNCHANGED <<reply, successes, failures>>
  PROVE  CountInv'
<1> USE DEF CountInv
<1>1. pc' = [pc EXCEPT ![r] = stage(calls)] /\ pc \in [Requests -> Stages]
  BY DEF Continue, PoolInv, TypeOK
<1>2. reply[r] # "refused" BY DEF Pending
<1>3. r \notin Ended /\ r \notin callbacks BY DEF Ended, Pending
<1>4. \A q \in Requests : reply'[q] = "refused" => pc'[q] = "done"
  BY <1>1, <1>2 DEF Pending
<1>5. CASE calls = <<>>
  <2>1. stage(calls) = "ended" BY <1>5, StageType
  <2>2. Ended' = Ended \cup {r}
    BY <1>1, <1>2, <2>1 DEF Ended
  <2>3. callbacks' = callbacks \cup {r} BY <1>5 DEF Continue
  <2>4. Cardinality(Ended') = Cardinality(Ended) + 1
    BY <2>2, <1>3, Finite, FS_AddElement
  <2>5. Cardinality(callbacks') = Cardinality(callbacks) + 1
    BY <2>3, <1>3, Finite, FS_AddElement
  <2>6. Pending' BY <2>2, <2>3, <1>4 DEF Pending
  <2>7. failures' = 0 /\ successes' + Cardinality(callbacks') = Cardinality(Ended')
    BY <2>4, <2>5, Finite DEF CountersCountTasks, Ended, PoolInv, TypeOK
  <2> QED BY <2>6, <2>7 DEF CountersCountTasks, Ended
<1>6. CASE calls # <<>>
  <2>1. stage(calls) \notin {"ended", "done"} BY <1>6, StageType
  <2>2. Ended' = Ended BY <1>1, <2>1 DEF Ended
  <2>3. callbacks' = callbacks BY <1>6 DEF Continue
  <2> QED BY <2>2, <2>3, <1>4, CountStable
<1> QED BY <1>5, <1>6

LEMMA CountInit == Init => CountInv
<1> SUFFICES ASSUME Init PROVE CountInv OBVIOUS
<1>1. Ended = {} BY DEF Init, Ended
<1>2. callbacks = {} BY DEF Init
<1>3. Cardinality({}) = 0 BY FS_EmptySet
<1>4. CountersCountTasks BY <1>1, <1>2, <1>3 DEF CountersCountTasks, Ended, Init
<1> QED BY <1>1, <1>4 DEF CountInv, Pending, Init

LEMMA CountStep == PoolInv /\ CountInv /\ [Next]_vars => CountInv'
<1> SUFFICES ASSUME PoolInv, CountInv, [Next]_vars PROVE CountInv' OBVIOUS
<1>0. CASE UNCHANGED vars
  BY <1>0, CountStable DEF vars, Ended, CountInv, Pending
<1> SUFFICES ASSUME NEW r \in Requests,
                    \/ Arrive(r) \/ Refuse(r) \/ Start(r)
                    \/ Lease(r) \/ Answer(r) \/ Break(r) \/ Stored(r)
                    \/ Respond(r) \/ Timeout(r) \/ Count(r)
             PROVE  CountInv'
  BY <1>0 DEF Next
<1>t. pc \in [Requests -> Stages] /\ reply \in [Requests -> {"none", "result", "refused", "timeout"}]
  BY DEF PoolInv, TypeOK
<1>p. Pending BY DEF CountInv
<1>c. /\ todo[r] \in Seq(Services) /\ <<>> \in Seq(Services)
      /\ todo[r] # <<>> => Tail(todo[r]) \in Seq(Services)
  BY TailType DEF PoolInv, TypeOK
<1>1. CASE Arrive(r)
  <2>1. Ended' = Ended /\ reply[r] # "refused" BY <1>1, <1>t, <1>p DEF Arrive, Ended, Pending
  <2> QED BY <1>1, <1>t, <1>p, <2>1, CountStable DEF Arrive, Pending
<1>2. CASE Refuse(r)
  <2>1. Ended' = Ended BY <1>2, <1>t DEF Refuse, Ended
  <2> QED BY <1>2, <1>t, <1>p, <2>1, CountStable DEF Refuse, Pending
<1>3. CASE Start(r)
  <2> PICK calls \in {todo[r], <<>>} : Continue(r, calls) BY <1>3 DEF Start
  <2> QED BY <1>3, <1>c, ContinueCounts DEF Start
<1>4. CASE Lease(r)
  <2>1. Ended' = Ended /\ reply[r] # "refused" BY <1>4, <1>t, <1>p DEF Lease, Ended, Pending
  <2> QED BY <1>4, <1>t, <1>p, <2>1, CountStable DEF Lease, Pending
<1>5. CASE Answer(r)
  <2>1. todo[r] # <<>> BY <1>5 DEF Answer, PoolInv, Placed
  <2> PICK rest \in {Tail(todo[r]), <<>>} : Continue(r, rest) BY <1>5 DEF Answer
  <2> QED BY <1>5, <1>c, <2>1, ContinueCounts DEF Answer
<1>6. CASE Break(r)
  BY <1>6, <1>c, ContinueCounts DEF Break
<1>7. CASE Stored(r)
  <2>1. todo[r] # <<>> BY <1>7 DEF Stored, PoolInv, Placed
  <2> PICK rest \in {Tail(todo[r]), <<>>} : Continue(r, rest) BY <1>7 DEF Stored
  <2> QED BY <1>7, <1>c, <2>1, ContinueCounts DEF Stored
<1>8. CASE Respond(r)
  <2>1. Ended' = Ended BY <1>8, <1>t, <1>p DEF Respond, Ended, Pending
  <2> QED BY <1>8, <1>t, <1>p, <2>1, CountStable DEF Respond, Pending
<1>9. CASE Timeout(r)
  <2>1. Ended' = Ended BY <1>9, <1>t DEF Timeout, Ended
  <2> QED BY <1>9, <1>t, <1>p, <2>1, CountStable DEF Timeout, Pending
<1>10. CASE Count(r)
  <2>1. Ended' = Ended BY <1>10 DEF Count, Ended
  <2>2. Cardinality(callbacks') = Cardinality(callbacks) - 1
    BY <1>10, <1>p, Finite, FS_RemoveElement DEF Count
  <2>3. Pending' BY <1>10, <1>p, <2>1 DEF Count, Pending
  <2>4. failures' = 0 /\ successes' + Cardinality(callbacks') = Cardinality(Ended')
    BY <1>10, <1>p, <2>1, <2>2, Finite
    DEF Count, CountInv, CountersCountTasks, Ended, PoolInv, TypeOK
  <2> QED BY <2>3, <2>4 DEF CountInv, CountersCountTasks, Ended
<1> QED
  BY <1>1, <1>2, <1>3, <1>4, <1>5, <1>6, <1>7, <1>8, <1>9, <1>10

(* The counter of successes counts every task that has ended once, and the    *)
(* counter of failures nothing.                                              *)
THEOREM CountersAreTasks == Spec => []CountersCountTasks
<1>1. PoolInv /\ CountInv /\ [Next]_vars => (PoolInv /\ CountInv)' BY PoolStep, CountStep
<1>2. Init => PoolInv /\ CountInv BY PoolInit, CountInit
<1>3. PoolInv /\ CountInv => CountersCountTasks BY DEF CountInv
<1> QED BY <1>1, <1>2, <1>3, PTL DEF Spec

------------------------------------------------------------------------------
(* No gridlock                                                              *)

(* Where the connections to a service are taken, one of those that hold them   *)
(* is waiting for its answer.                                                *)
LEMMA HeldByCaller ==
  ASSUME PoolInv, NEW s \in Hosts, ~(Cardinality(leased[s]) < Connections)
  PROVE  \E q \in Requests : pc[q] = "calling" /\ Head(todo[q]) = s
<1>1. IsFiniteSet(leased[s])
  BY RequestsAssumption, FS_Subset DEF PoolInv, TypeOK
<1>2. leased[s] # {}
  BY <1>1, SizesAssumption, FS_EmptySet
<1> QED BY <1>2 DEF PoolInv, ConnectionsAccounted

(* Who waits for a service that answers waits behind one it answers.          *)
LEMMA ConnectionComes ==
  ASSUME PoolInv, NEW r \in Requests, pc[r] = "waiting", Head(todo[r]) \notin hung
  PROVE  \E q \in OnThread : Head(todo[q]) = Head(todo[r]) /\ Unblocked(q)
<1>1. Head(todo[r]) \in Hosts BY DEF PoolInv, Placed
<1>2. CASE Cardinality(leased[Head(todo[r])]) < Connections
  BY <1>2 DEF Unblocked, OnThread
<1>3. CASE ~(Cardinality(leased[Head(todo[r])]) < Connections)
  BY <1>1, <1>3, HeldByCaller DEF Unblocked, OnThread
<1> QED BY <1>2, <1>3

(* A thread that is not stuck is on its way, or behind one that is.           *)
LEMMA ThreadComes ==
  ASSUME PoolInv, NEW q \in OnThread \ Stuck
  PROVE  \E p \in OnThread \ Stuck : Unblocked(p)
<1>1. q \in Requests /\ pc[q] \in {"waiting", "calling"} /\ Head(todo[q]) \notin hung
  BY DEF OnThread, Stuck
<1>2. CASE pc[q] = "calling"
  BY <1>1, <1>2 DEF Unblocked
<1>3. CASE pc[q] = "waiting"
  BY <1>1, <1>3, ConnectionComes DEF Stuck
<1> QED BY <1>1, <1>2, <1>3

LEMMA Gridlockless == PoolInv => NoGridlock
<1> SUFFICES ASSUME PoolInv, NEW r \in Requests
             PROVE  /\ pc[r] = "waiting" /\ Head(todo[r]) \notin hung =>
                         \E q \in OnThread : Head(todo[q]) = Head(todo[r]) /\ Unblocked(q)
                    /\ pc[r] = "queued" /\ Cardinality(Stuck) < Threads =>
                         Unblocked(r) \/ \E q \in OnThread \ Stuck : Unblocked(q)
  BY DEF NoGridlock
<1>1. ASSUME pc[r] = "queued", Cardinality(Stuck) < Threads, ~Unblocked(r)
      PROVE  \E q \in OnThread \ Stuck : Unblocked(q)
  <2>1. ~(Cardinality(OnThread) < Threads) BY <1>1 DEF Unblocked, ThreadFree
  <2>2. OnThread # Stuck BY <1>1, <2>1
  <2>3. PICK q \in OnThread : q \notin Stuck BY <2>2 DEF Stuck
  <2> QED BY <2>3, ThreadComes
<1> QED BY <1>1, ConnectionComes

(* Threads and connections never wait for each other in a circle, however     *)
(* many there are and whatever hangs.                                        *)
THEOREM PoolFlows == Spec => []NoGridlock
BY PoolHolds, Gridlockless, PTL

------------------------------------------------------------------------------
(* The course of a request                                                  *)

(* Nothing is asked over HTTP after Cassandra.                               *)
HttpFirst(calls) ==
  \A j, k \in DOMAIN calls : j < k /\ calls[j] = "cassandra" => calls[k] = "cassandra"

(* What a task may have to do: a task of Tasks, or the rest of one.           *)
Plan == {calls \in Seq(Services) : Len(calls) <= 6 /\ HttpFirst(calls)}

PlanInv ==
  \A r \in Requests :
    /\ todo[r] \in Plan
    /\ pc[r] = "storing" => Head(todo[r]) = "cassandra"
    /\ pc[r] = "away" => reply[r] = "none"

LEMMA InsertsFacts ==
  /\ Inserts \in Seq(Services) /\ Len(Inserts) = 4
  /\ \A k \in 1 .. 4 : Inserts[k] = "cassandra"
BY DEF Inserts, Services

LEMMA BootstrapPlan ==
  ASSUME NEW first \in Seq(Services), Len(first) <= 2,
         \A k \in DOMAIN first : first[k] = "identity"
  PROVE  first \o Inserts \in Plan
<1> DEFINE calls == first \o Inserts
<1>0. Inserts \in Seq(Services) /\ Len(Inserts) = 4 BY InsertsFacts
<1>1. calls \in Seq(Services) /\ Len(calls) = Len(first) + 4
  <2>1. calls \in Seq(Services) /\ Len(calls) = Len(first) + Len(Inserts)
    BY <1>0, ConcatProperties
  <2> QED BY <1>0, <2>1
<1>2. \A k \in 1 .. Len(calls) :
        calls[k] = IF k <= Len(first) THEN first[k] ELSE Inserts[k - Len(first)]
  BY <1>0, <1>1, ConcatProperties
<1>3. \A k \in 1 .. Len(calls) :
        calls[k] = IF k <= Len(first) THEN "identity" ELSE "cassandra"
  BY <1>1, <1>2, InsertsFacts
<1> HIDE DEF calls
<1>4. HttpFirst(calls)
  BY <1>1, <1>3 DEF HttpFirst
<1> QED BY <1>1, <1>4 DEF Plan, calls

LEMMA TasksArePlans == Tasks \subseteq Plan
<1>1. <<"identity">> \o Inserts \in Plan
  <2>1. /\ <<"identity">> \in Seq(Services) /\ Len(<<"identity">>) = 1
        /\ \A k \in DOMAIN <<"identity">> : <<"identity">>[k] = "identity"
    BY DEF Services, Hosts
  <2>2. Len(<<"identity">>) <= 2 BY <2>1
  <2> QED BY <2>1, <2>2, BootstrapPlan
<1>2. <<"identity", "identity">> \o Inserts \in Plan
  <2>1. /\ <<"identity", "identity">> \in Seq(Services)
        /\ Len(<<"identity", "identity">>) = 2
        /\ \A k \in DOMAIN <<"identity", "identity">> :
             <<"identity", "identity">>[k] = "identity"
    BY DEF Services, Hosts
  <2>2. Len(<<"identity", "identity">>) <= 2 BY <2>1
  <2> QED BY <2>1, <2>2, BootstrapPlan
<1>3. {<<>>, <<"cassandra">>, <<"console">>, <<"console", "cassandra">>} \subseteq Plan
  BY DEF Plan, HttpFirst, Services, Hosts
<1> QED BY <1>1, <1>2, <1>3 DEF Tasks, Bootstraps

(* What is left of a plan is one, and stays with Cassandra.                   *)
LEMMA PlanRest ==
  ASSUME NEW calls \in Plan
  PROVE  /\ <<>> \in Plan /\ calls \in Seq(Services) /\ Len(calls) \in 0 .. 6
         /\ calls # <<>> =>
              /\ Tail(calls) \in Plan /\ Len(Tail(calls)) < Len(calls)
              /\ Head(calls) = "cassandra" => stage(Tail(calls)) # "waiting"
<1>1. <<>> \in Plan /\ calls \in Seq(Services) /\ Len(calls) \in 0 .. 6
  <2>1. calls \in Seq(Services) /\ Len(calls) <= 6 BY DEF Plan
  <2>2. \A n \in Nat : n <= 6 => n \in 0 .. 6 OBVIOUS
  <2>3. Len(calls) \in 0 .. 6 BY <2>1, <2>2, LenProperties
  <2>4. <<>> \in Plan BY DEF Plan, HttpFirst
  <2> QED BY <2>1, <2>3, <2>4
<1>2. ASSUME calls # <<>>
      PROVE  /\ Tail(calls) \in Plan /\ Len(Tail(calls)) < Len(calls)
             /\ Head(calls) = "cassandra" => stage(Tail(calls)) # "waiting"
  <2>1. /\ Tail(calls) \in Seq(Services) /\ Len(Tail(calls)) = Len(calls) - 1
        /\ \A k \in 1 .. Len(calls) - 1 : Tail(calls)[k] = calls[k + 1]
        /\ Len(calls) > 0 /\ DOMAIN calls = 1 .. Len(calls)
    BY <1>1, <1>2
  <2>2. HttpFirst(Tail(calls))
    BY <1>1, <2>1 DEF Plan, HttpFirst
  <2>3. ASSUME Head(calls) = "cassandra", Tail(calls) # <<>>
        PROVE  Head(Tail(calls)) = "cassandra"
    <3>1. Len(calls) > 1 /\ Head(Tail(calls)) = calls[2] /\ calls[1] = "cassandra"
      BY <1>1, <2>1, <2>3
    <3> QED BY <1>1, <2>1, <3>1 DEF Plan, HttpFirst
  <2> QED BY <1>1, <2>1, <2>2, <2>3 DEF Plan, stage
<1> QED BY <1>1, <1>2

LEMMA PlanInit == Init => PlanInv
BY LoadsAssumption, TasksArePlans DEF Init, PlanInv

LEMMA PlanContinues ==
  ASSUME PoolInv, PlanInv, NEW r \in Requests, NEW calls \in Plan, Continue(r, calls),
         UNCHANGED reply
  PROVE  PlanInv'
<1>1. /\ pc' = [pc EXCEPT ![r] = stage(calls)] /\ todo' = [todo EXCEPT ![r] = calls]
      /\ pc \in [Requests -> Stages] /\ todo \in [Requests -> Seq(Services)]
  BY DEF Continue, PoolInv, TypeOK
<1>2. stage(calls) \in {"waiting", "storing", "ended"}
  BY PlanRest, StageType
<1>3. stage(calls) = "storing" => Head(calls) = "cassandra"
  BY DEF stage
<1> QED BY <1>1, <1>2, <1>3 DEF PlanInv

LEMMA PlanStep == PoolInv /\ PlanInv /\ [Next]_vars => PlanInv'
<1> SUFFICES ASSUME PoolInv, PlanInv, [Next]_vars PROVE PlanInv' OBVIOUS
<1>0. CASE UNCHANGED vars BY <1>0 DEF vars, PlanInv
<1> SUFFICES ASSUME NEW r \in Requests,
                    \/ Arrive(r) \/ Refuse(r) \/ Start(r)
                    \/ Lease(r) \/ Answer(r) \/ Break(r) \/ Stored(r)
                    \/ Respond(r) \/ Timeout(r) \/ Count(r)
             PROVE  PlanInv'
  BY <1>0 DEF Next
<1>t. /\ pc \in [Requests -> Stages] /\ todo[r] \in Plan /\ <<>> \in Plan
      /\ reply \in [Requests -> {"none", "result", "refused", "timeout"}]
  BY PlanRest DEF PoolInv, TypeOK, PlanInv
<1>1. CASE Start(r)
  <2> PICK calls \in {todo[r], <<>>} : Continue(r, calls) BY <1>1 DEF Start
  <2> QED BY <1>1, <1>t, PlanContinues DEF Start
<1>2. CASE Answer(r) \/ Stored(r)
  <2>1. todo[r] # <<>> BY <1>2 DEF Answer, Stored, PoolInv, Placed
  <2>2. Tail(todo[r]) \in Plan BY <1>t, <2>1, PlanRest
  <2> PICK rest \in {Tail(todo[r]), <<>>} : Continue(r, rest) BY <1>2 DEF Answer, Stored
  <2> QED BY <1>2, <1>t, <2>2, PlanContinues DEF Answer, Stored
<1>3. CASE Break(r)
  BY <1>3, <1>t, PlanContinues DEF Break
<1>4. CASE Arrive(r) \/ Refuse(r) \/ Lease(r) \/ Respond(r)
  BY <1>4, <1>t DEF Arrive, Refuse, Lease, Respond, PlanInv
<1>5. CASE Timeout(r) \/ Count(r)
  BY <1>5, <1>t DEF Timeout, Count, PlanInv
<1> QED BY <1>1, <1>2, <1>3, <1>4, <1>5

(* A step of r leaves the courses of the others alone.                        *)
OnlyMoves(r) ==
  \A q \in Requests \ {r} : UNCHANGED <<pc[q], todo[q], reply[q]>>

LEMMA CourseMoves ==
  ASSUME NEW r \in Requests, OnlyMoves(r)
  PROVE  /\ \A P : coursePhase(r)' \in P => Course!Enters(r, P)
         /\ \A N : courseLeft(r)' \in N => Course!LeftWith(r, N)
         /\ \A a : courseAnswer(r)' = a => Course!Answered(r, a)
<1>1. \A q \in Requests \ {r} :
        /\ coursePhase(q)' = coursePhase(q) /\ courseLeft(q)' = courseLeft(q)
        /\ courseAnswer(q)' = courseAnswer(q)
  BY DEF OnlyMoves, coursePhase, courseLeft, courseAnswer
<1> QED BY <1>1 DEF Course!Enters, Course!LeftWith, Course!Answered

LEMMA CourseStays ==
  ASSUME NEW r \in Requests, OnlyMoves(r),
         coursePhase(r)' = coursePhase(r), courseLeft(r)' = courseLeft(r),
         courseAnswer(r)' = courseAnswer(r)
  PROVE  UNCHANGED Course!course
<1>1. \A q \in Requests :
        /\ coursePhase(q)' = coursePhase(q) /\ courseLeft(q)' = courseLeft(q)
        /\ courseAnswer(q)' = courseAnswer(q)
  BY DEF OnlyMoves, coursePhase, courseLeft, courseAnswer
<1> QED BY <1>1 DEF Course!course

(* A task that goes on, with less to do and not back to its thread, advances.  *)
LEMMA CourseAdvances ==
  ASSUME PoolInv, PlanInv, NEW r \in Requests, NEW calls \in Plan, Continue(r, calls),
         pc[r] \in {"queued", "calling", "storing"}, Len(calls) < courseLeft(r),
         pc[r] = "storing" => stage(calls) # "waiting",
         UNCHANGED reply
  PROVE  Course!Advance(r)
<1>1. /\ pc' = [pc EXCEPT ![r] = stage(calls)] /\ todo' = [todo EXCEPT ![r] = calls]
      /\ pc \in [Requests -> Stages] /\ todo \in [Requests -> Seq(Services)]
  BY DEF Continue, PoolInv, TypeOK
<1>2. /\ stage(calls) \in {"waiting", "storing", "ended"}
      /\ stage(calls) = "ended" => calls = <<>>
      /\ Len(calls) \in 0 .. 6
  BY PlanRest, StageType
<1>3. OnlyMoves(r) BY <1>1 DEF OnlyMoves
<1>4. pc'[r] = stage(calls) /\ todo'[r] = calls BY <1>1
<1>5. coursePhase(r)' \in Course!Onward(coursePhase(r))
  BY <1>2, <1>4 DEF coursePhase, Course!Onward
<1>6. courseLeft(r)' = Len(calls)
  BY <1>2, <1>4 DEF courseLeft
<1>7. courseLeft(r) \in Int
  <2>1. Len(todo[r]) \in 0 .. 6 BY PlanRest DEF PlanInv
  <2> QED BY <2>1 DEF courseLeft
<1>8. courseLeft(r)' \in 0 .. courseLeft(r) - 1
  BY <1>2, <1>6, <1>7
<1>9. Course!Enters(r, Course!Onward(coursePhase(r))) /\ Course!LeftWith(r, 0 .. courseLeft(r) - 1)
  BY <1>3, <1>5, <1>8, CourseMoves
<1>10. coursePhase(r) \in {"blocking", "deferred"} BY DEF coursePhase
<1>11. UNCHANGED [q \in Requests |-> courseAnswer(q)] BY DEF courseAnswer
<1> QED BY <1>9, <1>10, <1>11 DEF Course!Advance

LEMMA CourseStart == Init => Course!CourseInit
BY DEF Init, Course!CourseInit, coursePhase, courseLeft, courseAnswer

LEMMA CourseStep ==
  ASSUME PoolInv, PlanInv, [Next]_vars
  PROVE  [Course!CourseNext]_(Course!course)
<1> DEFINE Goal == Course!CourseNext \/ UNCHANGED Course!course
<1> SUFFICES Goal OBVIOUS
<1>0. CASE UNCHANGED vars
  <2>1. UNCHANGED Course!course
    BY <1>0 DEF vars, Course!course, coursePhase, courseLeft, courseAnswer
  <2> QED BY <2>1
<1> SUFFICES ASSUME NEW r \in Requests,
                    \/ Arrive(r) \/ Refuse(r) \/ Start(r)
                    \/ Lease(r) \/ Answer(r) \/ Break(r) \/ Stored(r)
                    \/ Respond(r) \/ Timeout(r) \/ Count(r)
             PROVE  Goal
  BY <1>0 DEF Next
<1>t. /\ pc \in [Requests -> Stages] /\ todo[r] \in Plan /\ <<>> \in Plan
      /\ reply \in [Requests -> {"none", "result", "refused", "timeout"}]
      /\ Len(todo[r]) \in 0 .. 6 /\ Len(<<>>) = 0
      /\ pc[r] \in {"waiting", "calling", "storing"} => todo[r] # <<>>
      /\ pc[r] = "storing" => Head(todo[r]) = "cassandra"
  BY PlanRest DEF PoolInv, TypeOK, PlanInv, Placed
<1>e. todo[r] # <<>> => Len(todo[r]) > 0
  BY PlanRest DEF PlanInv
<1>n. \/ Course!Accept(r) \/ Course!Reject(r) \/ Course!Advance(r) \/ Course!Reply(r)
      \/ Course!TimeOut(r) \/ UNCHANGED Course!course
      => Goal
  BY DEF Course!CourseNext
<1> HIDE DEF Goal
<1>1. CASE Arrive(r)
  <2>1. OnlyMoves(r) BY <1>1, <1>t DEF Arrive, OnlyMoves
  <2>2. pc[r] = "away" /\ pc'[r] = "queued" /\ todo'[r] = todo[r] /\ reply'[r] = "none"
    BY <1>1, <1>t DEF Arrive, PlanInv
  <2>3. courseLeft(r)' \in 0 .. Len(Inserts) + 3
    <3>1. courseLeft(r)' = Len(todo[r]) + 1 BY <2>2 DEF courseLeft
    <3>2. Len(todo[r]) + 1 \in 0 .. 7
      <4>1. \A n \in 0 .. 6 : n + 1 \in 0 .. 7 OBVIOUS
      <4> QED BY <1>t, <4>1
    <3>3. Len(Inserts) + 3 = 7 BY InsertsFacts
    <3> QED BY <3>1, <3>2, <3>3
  <2>4. /\ coursePhase(r) = "free" /\ coursePhase(r)' \in {"blocking", "deferred", "ended"}
        /\ courseAnswer(r)' = "nobody"
    BY <2>2 DEF coursePhase, courseAnswer
  <2>5. Course!Accept(r) BY <2>1, <2>3, <2>4, CourseMoves DEF Course!Accept
  <2> QED BY <1>n, <2>5
<1>2. CASE Refuse(r)
  <2>1. OnlyMoves(r) BY <1>2, <1>t DEF Refuse, OnlyMoves
  <2>2. pc[r] = "queued" /\ pc'[r] = "done" /\ reply'[r] = "refused"
    BY <1>2, <1>t DEF Refuse
  <2>3. /\ coursePhase(r) = "blocking" /\ coursePhase(r)' \in {"free"}
        /\ courseLeft(r)' \in {0} /\ courseAnswer(r)' = "manager"
    BY <2>2 DEF coursePhase, courseLeft, courseAnswer
  <2>4. Course!Reject(r) BY <2>1, <2>3, CourseMoves DEF Course!Reject, Course!Free
  <2> QED BY <1>n, <2>4
<1>3. CASE Start(r)
  <2> PICK calls \in {todo[r], <<>>} : Continue(r, calls) BY <1>3 DEF Start
  <2>1. Len(calls) < courseLeft(r) /\ calls \in Plan /\ pc[r] = "queued"
    BY <1>3, <1>t DEF Start, courseLeft
  <2>2. Course!Advance(r) BY <1>3, <2>1, CourseAdvances DEF Start
  <2> QED BY <1>n, <2>2
<1>4. CASE Lease(r)
  <2>1. OnlyMoves(r) BY <1>4, <1>t DEF Lease, OnlyMoves
  <2>2. pc[r] = "waiting" /\ pc'[r] = "calling" /\ UNCHANGED <<todo, reply>>
    BY <1>4, <1>t DEF Lease
  <2>3. /\ coursePhase(r)' = coursePhase(r) /\ courseLeft(r)' = courseLeft(r)
        /\ courseAnswer(r)' = courseAnswer(r)
    BY <2>2 DEF coursePhase, courseLeft, courseAnswer
  <2> QED BY <1>n, <2>1, <2>3, CourseStays
<1>5. CASE Answer(r) \/ Stored(r)
  <2>1. pc[r] \in {"calling", "storing"} /\ todo[r] # <<>>
    BY <1>5, <1>t DEF Answer, Stored
  <2>2. /\ Tail(todo[r]) \in Plan /\ Len(Tail(todo[r])) < Len(todo[r])
        /\ pc[r] = "storing" => stage(Tail(todo[r])) # "waiting" /\ stage(<<>>) # "waiting"
    BY <1>t, <2>1, PlanRest DEF stage
  <2>3. courseLeft(r) = Len(todo[r]) BY <2>1 DEF courseLeft
  <2> PICK rest \in {Tail(todo[r]), <<>>} : Continue(r, rest) BY <1>5 DEF Answer, Stored
  <2>4. rest \in Plan /\ Len(rest) < courseLeft(r) /\ (pc[r] = "storing" => stage(rest) # "waiting")
    BY <1>t, <1>e, <2>1, <2>2, <2>3
  <2>5. Course!Advance(r) BY <1>5, <2>1, <2>4, CourseAdvances DEF Answer, Stored
  <2> QED BY <1>n, <2>5
<1>6. CASE Break(r)
  <2>1. Continue(r, <<>>) /\ pc[r] = "calling" /\ UNCHANGED reply BY <1>6 DEF Break
  <2>2. Len(<<>>) < courseLeft(r) BY <1>t, <1>e, <2>1 DEF courseLeft
  <2>3. Course!Advance(r) BY <1>t, <2>1, <2>2, CourseAdvances
  <2> QED BY <1>n, <2>3
<1>7. CASE Respond(r)
  <2>1. OnlyMoves(r) BY <1>7, <1>t DEF Respond, OnlyMoves
  <2>2. /\ pc[r] = "ended" /\ pc'[r] = "done"
        /\ reply'[r] = IF reply[r] = "none" THEN "result" ELSE reply[r]
    BY <1>7, <1>t DEF Respond
  <2>3. /\ coursePhase(r) = "ended" /\ coursePhase(r)' \in {"free"} /\ courseLeft(r)' \in {0}
        /\ courseAnswer(r)' = IF courseAnswer(r) = "nobody" THEN "manager" ELSE courseAnswer(r)
    BY <2>2 DEF coursePhase, courseLeft, courseAnswer
  <2>4. Course!Reply(r) BY <2>1, <2>3, CourseMoves DEF Course!Reply, Course!Free
  <2> QED BY <1>n, <2>4
<1>8. CASE Timeout(r)
  <2>1. OnlyMoves(r) BY <1>8, <1>t DEF Timeout, OnlyMoves
  <2>2. /\ pc[r] \in {"storing", "ended"} /\ reply[r] = "none" /\ reply'[r] = "timeout"
        /\ UNCHANGED <<pc, todo>>
    BY <1>8, <1>t DEF Timeout
  <2>3. /\ coursePhase(r) \in {"deferred", "ended"} /\ courseAnswer(r) = "nobody"
        /\ courseAnswer(r)' = "container"
    BY <2>2 DEF coursePhase, courseAnswer
  <2>4. UNCHANGED <<[q \in Requests |-> coursePhase(q)], [q \in Requests |-> courseLeft(q)]>>
    BY <2>2 DEF coursePhase, courseLeft
  <2>5. Course!TimeOut(r) BY <2>1, <2>3, <2>4, CourseMoves DEF Course!TimeOut
  <2> QED BY <1>n, <2>5
<1>9. CASE Count(r)
  <2>1. UNCHANGED Course!course
    BY <1>9 DEF Count, Course!course, coursePhase, courseLeft, courseAnswer
  <2> QED BY <1>n, <2>1
<1> QED BY <1>1, <1>2, <1>3, <1>4, <1>5, <1>6, <1>7, <1>8, <1>9

(* The requests of the pool keep the course of a request: over HTTP first,     *)
(* with less to do at each turn, answered once, timed only off their thread.   *)
THEOREM PoolKeepsCourse == Spec => ImplementsCourse
<1>1. PoolInv /\ PlanInv /\ [Next]_vars => (PoolInv /\ PlanInv)' BY PoolStep, PlanStep
<1>2. Init => PoolInv /\ PlanInv BY PoolInit, PlanInit
<1>3. PoolInv /\ PlanInv /\ [Next]_vars => [Course!CourseNext]_(Course!course)
  BY CourseStep
<1> QED
  BY <1>1, <1>2, <1>3, CourseStart, PTL DEF Spec, ImplementsCourse, Course!CourseSpec
=============================================================================
