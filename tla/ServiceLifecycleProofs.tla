------------------------- MODULE ServiceLifecycleProofs -------------------------
(****************************************************************************)
(* Proofs about the life cycle of the process, for any number of threads,    *)
(* clients and keys.                                                         *)
(****************************************************************************)
EXTENDS ServiceLifecycle, TLAPS

(* What has been loaded at each stage, and when the server can be open.       *)
LoadedInv ==
  /\ boot \in {"secretKeys", "http", "cassandra", "server", "hook", "started"} /\ steady
       => accepted = keycloak
  /\ boot \in {"http", "cassandra", "server", "hook", "started"}
       => secrets = keyPool(loaded(clients))
  /\ "rest" \in open => boot \in {"hook", "started"}

(* Before a shutdown no hook has been taken; the hook of the server is on top *)
(* once the start is complete, and until it has run it is the next to run.    *)
OrderInv ==
  /\ exit = "no" => chain = <<>> /\ ~broken /\ ~orderly
  /\ boot = "started" /\ exit = "no" => hooks # <<>> /\ Head(hooks) = "rest"
  /\ orderly => boot = "started"
  /\ orderly /\ "rest" \in open /\ ~broken =>
       /\ chain = <<>> => hooks # <<>> /\ Head(hooks) = "rest"
       /\ chain # <<>> => Head(chain) = "rest"

Inv == TypeOK /\ LoadedInv /\ OrderInv

USE ThreadsAssumption, ClientsAssumption

(* The pool of the clients that could be read is a pool.                     *)
LEMMA KeyPoolType ==
  ASSUME NEW cs \in SUBSET Clients
  PROVE  keyPool(loaded(cs)) \in [Pointers -> SUBSET Clients]
BY DEF keyPool, loaded

(* Among the clients read, one that shares its pointer with none is found.    *)
LEMMA KeyPoolKnows ==
  ASSUME NEW cs \in SUBSET Clients, NEW i \in cs, 1 .. i \subseteq cs,
         \A j \in cs \ {i} : PointerOf[j] # PointerOf[i]
  PROVE  keyPool(loaded(cs))[PointerOf[i]] = {i}
<1>1. i \in loaded(cs) /\ loaded(cs) \subseteq cs
  BY DEF loaded
<1>2. PointerOf[i] \in Pointers /\ i \in Nat
  OBVIOUS
<1>3. keyPool(loaded(cs))[PointerOf[i]] =
        {k \in loaded(cs) : /\ PointerOf[k] = PointerOf[i]
                            /\ \A j \in loaded(cs) : PointerOf[j] = PointerOf[i] => j <= k}
  BY <1>2 DEF keyPool
<1>4. \A j \in loaded(cs) : PointerOf[j] = PointerOf[i] => j = i
  BY <1>1
<1>5. i <= i
  BY <1>2
<1>6. QED
  BY <1>1, <1>3, <1>4, <1>5

(* The pool read from the same clients is the same.                          *)
LEMMA PoolKept ==
  ASSUME clients' = clients
  PROVE  keyPool(loaded(clients))' = keyPool(loaded(clients))
BY DEF keyPool, loaded

(* A hook pushed is on top of the deque.                                     *)
LEMMA PushType ==
  ASSUME hooks \in Seq(Components), NEW c \in Components
  PROVE  push(c) \in Seq(Components) /\ push(c) # <<>> /\ Head(push(c)) = c
BY DEF push

(* Appending to a queue leaves its head, or makes it the new element.        *)
LEMMA AppendFacts ==
  ASSUME NEW S, NEW s \in Seq(S), NEW x \in S
  PROVE  /\ Append(s, x) \in Seq(S) /\ Append(s, x) # <<>>
         /\ Head(Append(s, x)) = IF s = <<>> THEN x ELSE Head(s)
<1>1. CASE s = <<>>
  BY <1>1
<1>2. CASE s # <<>>
  BY <1>2
<1>3. QED
  BY <1>1, <1>2

(* A fresh process has the types of the variables.                           *)
LEMMA FreshType ==
  /\ Fresh.boot = "metrics" /\ Fresh.open = {} /\ Fresh.exit = "no"
  /\ Fresh.accepted \in KeyOrNone
  /\ Fresh.secrets \in [Pointers -> SUBSET Clients]
  /\ 0 \in 0 .. Threads /\ <<>> \in Seq(Components)
<1>1. [p \in Pointers |-> {}] \in [Pointers -> SUBSET Clients]
  OBVIOUS
<1>2. 0 \in 0 .. Threads /\ <<>> \in Seq(Components)
  OBVIOUS
<1>3. QED
  BY <1>1, <1>2 DEF Fresh, KeyOrNone

LEMMA InvInit == Init => Inv
<1> SUFFICES ASSUME Init PROVE Inv
  OBVIOUS
<1> USE FreshType DEF Init
<1>1. TypeOK
  BY DEF TypeOK, Stages
<1>2. LoadedInv
  BY DEF LoadedInv
<1>3. OrderInv
  BY DEF OrderInv
<1>4. QED
  BY <1>1, <1>2, <1>3 DEF Inv

(* Until the start is complete, a step of it leaves the shutdown alone, and   *)
(* no shutdown is orderly.                                                   *)
LEMMA OrderStart ==
  ASSUME Inv, boot # "started", boot' # "started", UNCHANGED shutdown
  PROVE  OrderInv'
BY DEF Inv, OrderInv, shutdown

(* A call of exit before the server is open.                                 *)
LEMMA InvExitFrom ==
  ASSUME Inv, NEW stage \in {"failed", "stuck"}, ExitFrom(stage),
         boot \notin {"hook", "started"}
  PROVE  Inv'
<1> USE DEF Inv, ExitFrom, surroundings, pools
<1>1. TypeOK'
  BY DEF TypeOK, Stages, StartTask
<1>2. LoadedInv'
  BY DEF LoadedInv
<1>3. OrderInv'
  BY DEF OrderInv
<1>4. QED
  BY <1>1, <1>2, <1>3

(* The steps of the start.                                                   *)
LEMMA InvStart ==
  ASSUME Inv, Start
  PROVE  Inv'
<1> USE DEF Continue, Opened
<1>1. CASE StartMetrics
  <2>1. CASE Opened("metrics") /\ Continue("service") /\ UNCHANGED pools
    <3>1. TypeOK'
      BY <1>1, <2>1, PushType DEF StartMetrics, Inv, TypeOK, Stages, Components, shutdown, surroundings, pools
    <3>2. LoadedInv'
      BY <1>1, <2>1 DEF StartMetrics, Inv, LoadedInv
    <3>3. OrderInv'
      BY <1>1, <2>1, OrderStart DEF StartMetrics
    <3>4. QED
      BY <3>1, <3>2, <3>3 DEF Inv
  <2>2. CASE ExitFrom("failed")
    BY <1>1, <2>2, InvExitFrom DEF StartMetrics
  <2>3. QED
    BY <1>1, <2>1, <2>2 DEF StartMetrics
<1>2. CASE InjectService
  <2>1. CASE Continue("publicKeys") /\ UNCHANGED <<open, hooks, pools>>
    <3>1. TypeOK'
      BY <2>1 DEF Inv, TypeOK, Stages, StartTask, shutdown, surroundings, pools
    <3>2. LoadedInv'
      BY <1>2, <2>1 DEF InjectService, Inv, LoadedInv
    <3>3. OrderInv'
      BY <1>2, <2>1, OrderStart DEF InjectService
    <3>4. QED
      BY <3>1, <3>2, <3>3 DEF Inv
  <2>2. CASE ExitFrom("failed")
    BY <1>2, <2>2, InvExitFrom DEF InjectService
  <2>3. QED
    BY <1>2, <2>1, <2>2 DEF InjectService
<1>3. CASE LoadPublicKeys
  <2>1. CASE /\ accepted' = keycloak
             /\ Continue("secretKeys") /\ UNCHANGED <<open, hooks, secrets>>
    <3>1. TypeOK'
      BY <2>1 DEF Inv, TypeOK, Stages, StartTask, shutdown, surroundings
    <3>2. LoadedInv'
      BY <1>3, <2>1 DEF LoadPublicKeys, Inv, LoadedInv, surroundings
    <3>3. OrderInv'
      BY <1>3, <2>1, OrderStart DEF LoadPublicKeys
    <3>4. QED
      BY <3>1, <3>2, <3>3 DEF Inv
  <2>2. CASE ExitFrom("stuck")
    BY <1>3, <2>2, InvExitFrom DEF LoadPublicKeys, DiscoveryFails
  <2>3. QED
    BY <1>3, <2>1, <2>2 DEF LoadPublicKeys, DiscoveryFails
<1>4. CASE LoadSecretKeys
  <2>1. CASE /\ secrets' = keyPool(loaded(clients))
             /\ Continue("http") /\ UNCHANGED <<open, hooks, accepted>>
    <3>1. keyPool(loaded(clients)) \in [Pointers -> SUBSET Clients]
      BY KeyPoolType DEF Inv, TypeOK
    <3>2. TypeOK'
      BY <2>1, <3>1 DEF Inv, TypeOK, Stages, StartTask, shutdown, surroundings
    <3>3. LoadedInv'
      <4>1. UNCHANGED <<clients, accepted, keycloak, steady, open>> /\ boot' = "http"
        BY <2>1 DEF surroundings
      <4>2. QED
        BY <1>4, <2>1, <4>1, PoolKept DEF LoadSecretKeys, Inv, LoadedInv
    <3>4. OrderInv'
      BY <1>4, <2>1, OrderStart DEF LoadSecretKeys
    <3>5. QED
      BY <3>2, <3>3, <3>4 DEF Inv
  <2>2. CASE ExitFrom("stuck")
    BY <1>4, <2>2, InvExitFrom DEF LoadSecretKeys
  <2>3. QED
    BY <1>4, <2>1, <2>2 DEF LoadSecretKeys
<1>5. CASE OpenHttpClient
  <2>1. TypeOK'
    BY <1>5, PushType DEF OpenHttpClient, Inv, TypeOK, Stages, StartTask, Components, shutdown, surroundings, pools
  <2>2. LoadedInv'
    BY <1>5, PoolKept DEF OpenHttpClient, Inv, LoadedInv, surroundings, pools
  <2>3. OrderInv'
    BY <1>5, OrderStart DEF OpenHttpClient
  <2>4. QED
    BY <2>1, <2>2, <2>3 DEF Inv
<1>6. CASE OpenSession
  <2>1. open' \in {open, open \cup {"cassandra"}} /\ hooks' \in {hooks, push("cassandra")}
    BY <1>6 DEF OpenSession
  <2>2. TypeOK'
    BY <1>6, <2>1, PushType DEF OpenSession, Inv, TypeOK, Stages, StartTask, Components, shutdown, surroundings, pools
  <2>3. LoadedInv'
    BY <1>6, <2>1, PoolKept DEF OpenSession, Inv, LoadedInv, surroundings, pools
  <2>4. OrderInv'
    BY <1>6, OrderStart DEF OpenSession
  <2>5. QED
    BY <2>2, <2>3, <2>4 DEF Inv
<1>7. CASE StartServer
  <2>1. CASE /\ open' = open \cup {"rest"}
             /\ Continue("hook") /\ UNCHANGED <<hooks, pools>>
    <3>1. TypeOK'
      BY <2>1 DEF Inv, TypeOK, Stages, StartTask, Components, shutdown, surroundings, pools
    <3>2. LoadedInv'
      BY <1>7, <2>1, PoolKept DEF StartServer, Inv, LoadedInv, surroundings, pools
    <3>3. OrderInv'
      BY <1>7, <2>1, OrderStart DEF StartServer
    <3>4. QED
      BY <3>1, <3>2, <3>3 DEF Inv
  <2>2. CASE ExitFrom("stuck")
    BY <1>7, <2>2, InvExitFrom DEF StartServer
  <2>3. QED
    BY <1>7, <2>1, <2>2 DEF StartServer
<1>8. CASE AddServerHook
  <2>1. TypeOK'
    BY <1>8, PushType DEF AddServerHook, Inv, TypeOK, Stages, Components, shutdown, surroundings, pools
  <2>2. LoadedInv'
    BY <1>8, PoolKept DEF AddServerHook, Inv, LoadedInv, surroundings, pools
  <2>3. OrderInv'
    <3>1. ~orderly /\ UNCHANGED <<orderly, exit, chain, broken>> /\ hooks' = push("rest")
      BY <1>8 DEF AddServerHook, Inv, OrderInv, shutdown
    <3>2. hooks' # <<>> /\ Head(hooks') = "rest"
      BY <3>1, PushType DEF Inv, TypeOK, Components
    <3>3. QED
      BY <3>1, <3>2 DEF Inv, OrderInv
  <2>4. QED
    BY <2>1, <2>2, <2>3 DEF Inv
<1>9. QED
  BY <1>1, <1>2, <1>3, <1>4, <1>5, <1>6, <1>7, <1>8 DEF Start

(* The steps of the shutdown.                                                *)
LEMMA InvShutdown ==
  ASSUME Inv, Shutdown
  PROVE  Inv'
<1> USE DEF Inv, TypeOK
<1>1. CASE Terminate
  <2>1. TypeOK' /\ LoadedInv'
    BY <1>1, PoolKept DEF Terminate, LoadedInv, surroundings, pools
  <2>2. OrderInv'
    BY <1>1 DEF Terminate, OrderInv
  <2>3. QED
    BY <2>1, <2>2
<1>2. CASE Poll
  <2>1. LoadedInv'
    BY <1>2, PoolKept DEF Poll, LoadedInv, surroundings, pools
  <2>2. CASE hooks = <<>>
    <3>1. TypeOK' /\ OrderInv'
      BY <1>2, <2>2 DEF Poll, OrderInv, surroundings, pools
    <3>2. QED
      BY <2>1, <3>1
  <2>3. CASE hooks # <<>>
    <3>1. Head(hooks) \in Components /\ Tail(hooks) \in Seq(Components)
      BY <2>3
    <3>2. /\ Append(chain, Head(hooks)) \in Seq(Components)
          /\ Append(chain, Head(hooks)) # <<>>
          /\ Head(Append(chain, Head(hooks))) = IF chain = <<>> THEN Head(hooks) ELSE Head(chain)
      BY <3>1, AppendFacts
    <3>3. TypeOK'
      BY <1>2, <2>3, <3>1, <3>2 DEF Poll, surroundings, pools
    <3>4. OrderInv'
      BY <1>2, <2>3, <3>2 DEF Poll, OrderInv
    <3>5. QED
      BY <2>1, <3>3, <3>4
  <2>4. QED
    BY <2>2, <2>3
<1>3. CASE RunHook
  <2>1. Tail(chain) \in Seq(Components) /\ open' \subseteq open
    BY <1>3 DEF RunHook
  <2>2. TypeOK'
    BY <1>3, <2>1 DEF RunHook, surroundings, pools
  <2>3. LoadedInv'
    BY <1>3, <2>1, PoolKept DEF RunHook, LoadedInv, surroundings, pools
  <2>4. OrderInv'
    BY <1>3, <2>1 DEF RunHook, OrderInv
  <2>5. QED
    BY <2>2, <2>3, <2>4
<1>4. CASE CountDown \/ LatchTimeout
  <2>1. /\ exit = "waiting" /\ exit' \in {"counted", "abandoned"}
        /\ UNCHANGED <<boot, open, hooks, chain, broken, orderly, busy, pools, surroundings>>
    BY <1>4 DEF CountDown, LatchTimeout, Latch
  <2>2. TypeOK'
    BY <2>1 DEF surroundings, pools
  <2>3. LoadedInv'
    BY <2>1, PoolKept DEF LoadedInv, surroundings, pools
  <2>4. OrderInv'
    BY <2>1 DEF OrderInv
  <2>5. QED
    BY <2>2, <2>3, <2>4
<1>5. CASE Halt
  <2>1. TypeOK' /\ LoadedInv'
    BY <1>5, PoolKept DEF Halt, LoadedInv, surroundings, pools
  <2>2. OrderInv'
    BY <1>5 DEF Halt, OrderInv
  <2>3. QED
    BY <2>1, <2>2
<1>6. QED
  BY <1>1, <1>2, <1>3, <1>4, <1>5 DEF Shutdown

(* Every step preserves the invariant.                                       *)
LEMMA InvNext == Inv /\ [Next]_vars => Inv'
<1> SUFFICES ASSUME Inv, [Next]_vars
             PROVE  Inv'
  OBVIOUS
<1>1. CASE Start
  BY <1>1, InvStart
<1>2. CASE Shutdown
  BY <1>2, InvShutdown
<1>3. CASE Resume \/ Release
  <2>1. busy' \in 0 .. Threads
    BY <1>3 DEF Resume, Release, ThreadFree, Held, Inv, TypeOK
  <2>2. UNCHANGED <<boot, open, hooks, shutdown, pools, surroundings>>
    BY <1>3 DEF Resume, Release
  <2>3. TypeOK'
    BY <2>1, <2>2 DEF Inv, TypeOK, shutdown, surroundings, pools
  <2>4. LoadedInv'
    BY <2>2, PoolKept DEF Inv, LoadedInv, surroundings, pools
  <2>5. OrderInv'
    BY <2>2 DEF Inv, OrderInv, shutdown
  <2>6. QED
    BY <2>3, <2>4, <2>5 DEF Inv
<1>4. CASE \E k \in KeyOrNone : Rotate(k)
  <2>1. /\ keycloak' \in KeyOrNone /\ steady' = FALSE
        /\ UNCHANGED <<boot, open, hooks, shutdown, busy, pools, clients>>
    BY <1>4 DEF Rotate
  <2>2. TypeOK' /\ LoadedInv'
    BY <2>1, PoolKept DEF Inv, TypeOK, LoadedInv, shutdown, pools
  <2>3. OrderInv'
    BY <2>1 DEF Inv, OrderInv, shutdown
  <2>4. QED
    BY <2>2, <2>3 DEF Inv
<1>5. CASE Restart
  <2>1. TypeOK'
    BY <1>5, FreshType DEF Restart, Inv, TypeOK, Stages
  <2>2. LoadedInv'
    BY <1>5, FreshType DEF Restart, LoadedInv
  <2>3. OrderInv'
    BY <1>5, FreshType DEF Restart, OrderInv
  <2>4. QED
    BY <2>1, <2>2, <2>3 DEF Inv
<1>6. CASE UNCHANGED vars
  <2>1. TypeOK' /\ LoadedInv' /\ OrderInv'
    BY <1>6, PoolKept DEF vars, Inv, TypeOK, LoadedInv, OrderInv, shutdown, surroundings, pools
  <2>2. QED
    BY <2>1 DEF Inv
<1>7. QED
  BY <1>1, <1>2, <1>3, <1>4, <1>5, <1>6 DEF Next

LEMMA InvHolds == Spec => []Inv
BY InvInit, InvNext, PTL DEF Spec

(* The variables have their types; in particular no more threads are occupied *)
(* than the pool has (Resume, ExecutionProvider).                            *)
THEOREM LifecycleTypes == Spec => []TypeOK
BY InvHolds, PTL DEF Inv

(* While the server is open, the key Keycloak has published since the start   *)
(* is the one that is accepted (Service.start).                              *)
THEOREM UsersAreAdmitted == Spec => []UsersAdmitted
<1>1. Inv => UsersAdmitted
  BY DEF Inv, LoadedInv, UsersAdmitted
<1>2. QED
  BY <1>1, InvHolds, PTL

(* While the server is open, the secrets of clients whose pointer is their    *)
(* own are known (SecretKeyPoolService.init, TokenClientsInfo).              *)
THEOREM ClientsAreAdmitted == Spec => []ClientsAdmitted
<1>1. Inv => ClientsAdmitted
  <2> SUFFICES ASSUME Inv, "rest" \in open, NEW i \in clients, 1 .. i \subseteq clients,
                      \A j \in clients \ {i} : PointerOf[j] # PointerOf[i]
               PROVE  secrets[PointerOf[i]] = {i}
    BY DEF ClientsAdmitted
  <2>1. secrets = keyPool(loaded(clients)) /\ clients \subseteq Clients
    BY DEF Inv, LoadedInv, TypeOK
  <2>2. QED
    BY <2>1, KeyPoolKnows
<1>2. QED
  BY <1>1, InvHolds, PTL

(* An orderly shutdown stops the server before what it uses, whichever stop   *)
(* hooks fail (DefaultLifecycle.stop).                                       *)
THEOREM ServerIsStoppedFirst == Spec => ServerStopsFirst
<1> DEFINE Step == orderly /\ exit' # "halted" /\ exit # "halted" =>
                     \A c \in {"http", "cassandra"} : c \in open \ open' => "rest" \notin open
<1>1. Inv /\ [Next]_vars => [Step]_vars
  <2> SUFFICES ASSUME Inv, Next, orderly, exit' # "halted", exit # "halted",
                      NEW c \in {"http", "cassandra"}, c \in open, c \notin open', "rest" \in open
               PROVE  FALSE
    BY DEF vars
  <2>1. CASE Start
    BY <2>1 DEF Start, StartMetrics, InjectService, LoadPublicKeys, LoadSecretKeys,
       OpenHttpClient, OpenSession, StartServer, AddServerHook, Inv, OrderInv
  <2>2. CASE RunHook
    BY <2>2 DEF RunHook, Inv, OrderInv
  <2>3. CASE Terminate \/ Poll \/ CountDown \/ LatchTimeout \/ Halt
    BY <2>3 DEF Terminate, Poll, CountDown, LatchTimeout, Latch, Halt
  <2>4. CASE Resume \/ Release \/ (\E k \in KeyOrNone : Rotate(k)) \/ Restart
    BY <2>4 DEF Resume, Release, Rotate, Restart
  <2>5. QED
    BY <2>1, <2>2, <2>3, <2>4 DEF Next, Shutdown
<1>2. QED
  BY <1>1, InvHolds, PTL DEF Spec, ServerStopsFirst

------------------------------------------------------------------------------
(* What a shutdown closes                                                   *)

Listed(c, s) == \E i \in DOMAIN s : s[i] = c

(* The first of a queue and the others are what it lists.                     *)
LEMMA ListedParts ==
  ASSUME NEW s \in Seq(Components), s # <<>>, NEW c
  PROVE  Listed(c, s) <=> c = Head(s) \/ Listed(c, Tail(s))
<1>1. ASSUME Listed(c, s) PROVE c = Head(s) \/ Listed(c, Tail(s))
  <2> PICK i \in DOMAIN s : s[i] = c BY <1>1 DEF Listed
  <2>1. CASE i = 1 BY <2>1
  <2>2. CASE i # 1
    <3>1. i - 1 \in DOMAIN Tail(s) /\ Tail(s)[i - 1] = c BY <2>2
    <3> QED BY <3>1 DEF Listed
  <2> QED BY <2>1, <2>2
<1>2. ASSUME c = Head(s) PROVE Listed(c, s)
  <2>1. 1 \in DOMAIN s /\ s[1] = c BY <1>2
  <2> QED BY <2>1 DEF Listed
<1>3. ASSUME Listed(c, Tail(s)) PROVE Listed(c, s)
  <2> PICK i \in DOMAIN Tail(s) : Tail(s)[i] = c BY <1>3 DEF Listed
  <2>1. i + 1 \in DOMAIN s /\ s[i + 1] = c OBVIOUS
  <2> QED BY <2>1 DEF Listed
<1> QED BY <1>1, <1>2, <1>3

LEMMA ListedAppended ==
  ASSUME NEW s \in Seq(Components), NEW x \in Components, NEW c
  PROVE  Listed(c, s) \/ c = x => Listed(c, Append(s, x))
<1>1. ASSUME NEW i \in DOMAIN s, s[i] = c PROVE Listed(c, Append(s, x))
  <2>1. i \in DOMAIN Append(s, x) /\ Append(s, x)[i] = c BY <1>1
  <2> QED BY <2>1 DEF Listed
<1>2. ASSUME c = x PROVE Listed(c, Append(s, x))
  <2>1. Len(s) + 1 \in DOMAIN Append(s, x) /\ Append(s, x)[Len(s) + 1] = c BY <1>2
  <2> QED BY <2>1 DEF Listed
<1> QED BY <1>1, <1>2 DEF Listed

(* A hook pushed is listed with the earlier ones.                             *)
LEMMA ListedPushed ==
  ASSUME hooks \in Seq(Components), NEW x \in Components, NEW c
  PROVE  Listed(c, push(x)) <=> c = x \/ Listed(c, hooks)
<1>1. push(x) \in Seq(Components) /\ push(x) # <<>> /\ Head(push(x)) = x BY PushType
<1>2. Tail(push(x)) = hooks BY DEF push
<1> QED BY <1>1, <1>2, ListedParts

(* What is open is going to be closed by a hook, unless one has thrown; only    *)
(* the server is open for a moment before its hook is added. The deque stays   *)
(* empty once an orderly shutdown has found it so.                            *)
CloseInv ==
  /\ ~broken => \A c \in open : \/ Listed(c, hooks) \/ Listed(c, chain)
                                \/ c = "rest" /\ boot = "hook"
  /\ orderly /\ exit \in {"waiting", "counted", "abandoned"} => hooks = <<>>
  /\ exit = "counted" /\ ~broken => chain = <<>>

LEMMA CloseNext == Inv /\ CloseInv /\ [Next]_vars => CloseInv'
<1> SUFFICES ASSUME Inv, CloseInv, [Next]_vars PROVE CloseInv' OBVIOUS
<1>t. /\ hooks \in Seq(Components) /\ chain \in Seq(Components)
      /\ orderly => boot = "started"
  BY DEF Inv, TypeOK, OrderInv
<1>s. ASSUME UNCHANGED <<hooks, exit, shutdown>>, open' \subseteq open,
             boot = "hook" => boot' = "hook"
      PROVE  CloseInv'
  BY <1>s DEF CloseInv, shutdown
<1>1. ASSUME NEW c \in Components, Opened(c) \/ (hooks' = push(c) /\ open' = open),
             boot \notin {"started", "hook"} \/ (boot = "hook" /\ c = "rest"),
             UNCHANGED shutdown
      PROVE  CloseInv'
  BY <1>1, <1>t, ListedPushed DEF CloseInv, Opened, shutdown
<1>2. ASSUME NEW stage, ExitFrom(stage), boot \notin {"started", "hook"} PROVE CloseInv'
  BY <1>2, <1>t DEF ExitFrom, CloseInv
<1>3. CASE Start
  <2>1. CASE StartMetrics
    BY <1>1, <1>2, <2>1 DEF StartMetrics, Continue, Components
  <2>2. CASE InjectService \/ LoadPublicKeys \/ LoadSecretKeys
    BY <1>2, <1>s, <2>2
    DEF InjectService, LoadPublicKeys, LoadSecretKeys, DiscoveryFails, Continue, shutdown
  <2>3. CASE OpenHttpClient
    BY <1>1, <2>3 DEF OpenHttpClient, Continue, Components
  <2>4. CASE OpenSession
    BY <1>1, <1>s, <2>4 DEF OpenSession, Continue, Components, shutdown
  <2>5. CASE StartServer
    <3>1. CASE open' = open \cup {"rest"} /\ Continue("hook") /\ UNCHANGED <<hooks, pools>>
      BY <1>t, <2>5, <3>1 DEF StartServer, Continue, CloseInv, shutdown
    <3>2. CASE ExitFrom("stuck") BY <1>2, <2>5, <3>2 DEF StartServer
    <3> QED BY <2>5, <3>1, <3>2 DEF StartServer
  <2>6. CASE AddServerHook
    BY <1>1, <2>6 DEF AddServerHook, Continue, Components
  <2> QED BY <1>3, <2>1, <2>2, <2>3, <2>4, <2>5, <2>6 DEF Start
<1>4. CASE Resume \/ Release \/ \E k \in KeyOrNone : Rotate(k)
  BY <1>4, <1>s DEF Resume, Release, Rotate, shutdown
<1>5. CASE Terminate BY <1>5 DEF Terminate, CloseInv
<1>6. CASE Poll
  <2>1. CASE hooks = <<>> BY <1>6, <2>1 DEF Poll, CloseInv
  <2>2. CASE hooks # <<>>
    <3>1. Head(hooks) \in Components /\ Tail(hooks) \in Seq(Components) BY <1>t, <2>2
    <3>2. \A c : Listed(c, hooks) \/ Listed(c, chain)
             => Listed(c, Tail(hooks)) \/ Listed(c, Append(chain, Head(hooks)))
      BY <1>t, <2>2, <3>1, ListedParts, ListedAppended
    <3>3. /\ chain' = Append(chain, Head(hooks)) /\ hooks' = Tail(hooks)
          /\ exit = "polling" /\ UNCHANGED <<exit, boot, open, broken>>
      BY <1>6, <2>2 DEF Poll
    <3> QED BY <3>2, <3>3 DEF CloseInv
  <2> QED BY <2>1, <2>2
<1>7. CASE RunHook
  <2>1. /\ chain # <<>> /\ ~broken /\ chain' = Tail(chain) /\ UNCHANGED <<boot, hooks, exit, orderly>>
        /\ ~broken' => open' = open \ {Head(chain)}
    BY <1>7 DEF RunHook
  <2>2. \A c : Listed(c, chain) => c = Head(chain) \/ Listed(c, Tail(chain))
    BY <1>t, <2>1, ListedParts
  <2> QED BY <2>1, <2>2 DEF CloseInv
<1>8. CASE CountDown \/ LatchTimeout
  BY <1>8 DEF CountDown, LatchTimeout, Latch, CloseInv
<1>9. CASE Halt BY <1>9 DEF Halt, CloseInv
<1>10. CASE Restart BY <1>10 DEF Restart, Fresh, CloseInv
<1>11. CASE UNCHANGED vars BY <1>11, <1>s DEF vars, shutdown
<1> QED
  BY <1>3, <1>4, <1>5, <1>6, <1>7, <1>8, <1>9, <1>10, <1>11 DEF Next, Shutdown

(* An orderly shutdown whose hooks have all run without throwing leaves       *)
(* nothing open (DefaultLifecycle.stop, DefaultJVMHook).                     *)
THEOREM OrderlyShutdownsClose == Spec => []OrderlyCloses
<1>1. Init => CloseInv BY DEF Init, Fresh, CloseInv
<1>2. Inv /\ CloseInv => OrderlyCloses
  <2> SUFFICES ASSUME Inv, CloseInv, orderly, exit = "counted", ~broken, NEW c \in open
               PROVE  FALSE
    BY DEF OrderlyCloses
  <2>1. boot = "started" BY DEF Inv, OrderInv
  <2>2. hooks = <<>> /\ chain = <<>> BY DEF CloseInv
  <2>3. ~Listed(c, <<>>) BY DEF Listed
  <2> QED BY <2>1, <2>2, <2>3 DEF CloseInv
<1> QED BY <1>1, <1>2, CloseNext, InvHolds, PTL DEF Spec

------------------------------------------------------------------------------
(* How a shutdown gets to its end                                           *)

(* The steps left are numbers; a hook that is pushed is one more.             *)
LEMMA LeftTypes ==
  ASSUME TypeOK
  PROVE  startLeft \in 0 .. 8 /\ exitLeft \in 0 .. 4 /\ Len(hooks) \in Nat
<1>1. startLeft \in 0 .. 8 BY DEF TypeOK, Stages, StartTask, startLeft
<1>2. exitLeft \in 0 .. 4 BY DEF TypeOK, exitLeft
<1> QED BY <1>1, <1>2 DEF TypeOK

LEMMA LenPushed ==
  ASSUME hooks \in Seq(Components), NEW c \in Components
  PROVE  Len(push(c)) = Len(hooks) + 1
BY DEF push

(* A step of the start is one less and leaves at most one hook more.          *)
LEMMA StartLeft ==
  ASSUME Inv, Start, exit \notin {"no", "halted"}
  PROVE  /\ startLeft' < startLeft /\ UNCHANGED <<exit, chain>>
         /\ Len(hooks') \in {Len(hooks), Len(hooks) + 1}
<1>1. \A c \in Components : Len(push(c)) = Len(hooks) + 1 BY LenPushed DEF Inv, TypeOK
<1>2. /\ boot' # boot /\ UNCHANGED <<exit, chain>>
      /\ hooks' = hooks \/ \E c \in Components : hooks' = push(c)
      /\ startLeft' < startLeft
  <2> USE DEF Continue, ExitFrom, Opened, shutdown, startLeft, Components
  <2>1. CASE StartMetrics BY <2>1 DEF StartMetrics
  <2>2. CASE InjectService BY <2>2 DEF InjectService
  <2>3. CASE LoadPublicKeys BY <2>3 DEF LoadPublicKeys, DiscoveryFails
  <2>4. CASE LoadSecretKeys BY <2>4 DEF LoadSecretKeys
  <2>5. CASE OpenHttpClient BY <2>5 DEF OpenHttpClient
  <2>6. CASE OpenSession BY <2>6 DEF OpenSession
  <2>7. CASE StartServer BY <2>7 DEF StartServer
  <2>8. CASE AddServerHook BY <2>8 DEF AddServerHook
  <2> QED BY <2>1, <2>2, <2>3, <2>4, <2>5, <2>6, <2>7, <2>8 DEF Start
<1> QED BY <1>1, <1>2

(* The thread that shuts down gets nearer to its end with every step, whatever *)
(* the start, the pool and the requests do meanwhile: the measure that, with   *)
(* the fairness of that thread, makes a shutdown end.                         *)
THEOREM ShutdownsAdvance == Spec => ShutdownAdvances
<1> DEFINE Onward == exit \notin {"no", "halted"} =>
                       /\ shutdownLeft' <= shutdownLeft
                       /\ exit' # exit \/ Len(chain') > Len(chain) => shutdownLeft' < shutdownLeft
<1>1. Inv /\ [Next]_vars => [Onward]_vars
  <2> SUFFICES ASSUME Inv, [Next]_vars, exit \notin {"no", "halted"}
               PROVE  /\ shutdownLeft' <= shutdownLeft
                      /\ exit' # exit \/ Len(chain') > Len(chain) => shutdownLeft' < shutdownLeft
    OBVIOUS
  <2>0. Inv' BY InvNext
  <2>1. startLeft \in 0 .. 8 /\ exitLeft \in 0 .. 4 /\ Len(hooks) \in Nat
    BY LeftTypes DEF Inv
  <2>2. startLeft' \in 0 .. 8 /\ exitLeft' \in 0 .. 4 /\ Len(hooks') \in Nat
    <3>1. TypeOK' BY <2>0 DEF Inv
    <3>2. /\ boot' \in Stages /\ hooks' \in Seq(Components)
          /\ exit' \in {"no", "polling", "waiting", "counted", "abandoned", "halted"}
      BY <3>1 DEF TypeOK
    <3>3. startLeft' \in 0 .. 8 BY <3>2 DEF Stages, StartTask, startLeft
    <3>4. exitLeft' \in 0 .. 4 BY <3>2 DEF exitLeft
    <3> QED BY <3>2, <3>3, <3>4
  <2>3. CASE Start
    <3>1. exitLeft' = exitLeft BY <2>3, StartLeft DEF exitLeft
    <3> QED BY <2>1, <2>2, <2>3, <3>1, StartLeft DEF shutdownLeft
  <2>4. CASE UNCHANGED <<boot, exit, hooks>> /\ Len(chain') <= Len(chain)
    <3>1. shutdownLeft' = shutdownLeft BY <2>4 DEF shutdownLeft, startLeft, exitLeft
    <3>2. Len(chain) \in Nat /\ Len(chain') \in Nat BY <2>0 DEF Inv, TypeOK
    <3>3. shutdownLeft \in Nat BY <2>1 DEF shutdownLeft
    <3> QED BY <2>4, <3>1, <3>2, <3>3
  <2>5. CASE Poll /\ hooks # <<>>
    <3>1. /\ Len(hooks') = Len(hooks) - 1 /\ UNCHANGED <<boot, exit>>
      BY <2>5 DEF Poll, Inv, TypeOK
    <3>2. startLeft' = startLeft /\ exitLeft' = exitLeft BY <3>1 DEF startLeft, exitLeft
    <3> QED BY <2>1, <2>2, <3>1, <3>2 DEF shutdownLeft
  <2>6. CASE (Poll /\ hooks = <<>>) \/ CountDown \/ LatchTimeout \/ Halt
    <3>1. UNCHANGED <<boot, hooks>> /\ exitLeft' < exitLeft
      BY <2>6 DEF Poll, CountDown, LatchTimeout, Latch, Halt, exitLeft
    <3>2. startLeft' = startLeft BY <3>1 DEF startLeft
    <3> QED BY <2>1, <2>2, <3>1, <3>2 DEF shutdownLeft
  <2>7. CASE RunHook
    <3>1. UNCHANGED <<boot, exit, hooks>> /\ Len(chain') = Len(chain) - 1 /\ Len(chain) \in Nat
      BY <2>7 DEF RunHook, Inv, TypeOK
    <3> QED BY <2>4, <3>1
  <2>8. CASE \/ Resume \/ Release \/ \E k \in KeyOrNone : Rotate(k)
             \/ UNCHANGED vars
    <3>1. UNCHANGED <<boot, exit, hooks, chain>>
      BY <2>8 DEF Resume, Release, Rotate, vars, shutdown
    <3>2. Len(chain) \in Nat BY DEF Inv, TypeOK
    <3> QED BY <2>4, <3>1, <3>2
  <2>9. CASE Terminate \/ Restart BY <2>9 DEF Terminate, Restart
  <2> QED BY <2>3, <2>5, <2>6, <2>7, <2>8, <2>9 DEF Next, Shutdown
<1> QED BY <1>1, InvHolds, PTL DEF Spec, ShutdownAdvances
=============================================================================
