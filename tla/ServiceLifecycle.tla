---------------------------- MODULE ServiceLifecycle ----------------------------
(****************************************************************************)
(* The process of the token manager from its start to its end: what is       *)
(* opened and loaded in which order, the stop hooks left behind, and the      *)
(* shutdown, which runs them one after the other on the same fixed pool of    *)
(* threads on which requests resume and, possibly, the start runs.            *)
(*                                                                          *)
(* Token clients are numbered by their position in the file or by the number *)
(* of their environment variables; a client stands for its secret.           *)
(****************************************************************************)
EXTENDS Naturals, Sequences

CONSTANTS
  Threads,        \* size of the pool, 5
  StartOnPool,    \* Monix has moved the start from the main thread to the pool
  PublicKeys,     \* keys Keycloak may sign with
  Clients,        \* numbers of token clients
  Pointers,       \* first parts of secrets
  PointerOf,      \* the pointer of each client
  Undecodable     \* clients whose secret is not Base64 or empty

ASSUME ThreadsAssumption == Threads \in Nat \ {0} /\ StartOnPool \in BOOLEAN
ASSUME ClientsAssumption == /\ Clients \subseteq Nat \ {0}
                            /\ PointerOf \in [Clients -> Pointers]
                            /\ Undecodable \subseteq Clients

VARIABLES
  boot,       \* how far the start is
  open,       \* what is in operation
  hooks,      \* the deque of stop hooks, the latest first
  chain,      \* stop hooks taken from the deque and not run yet
  broken,     \* a stop hook has thrown: the rest of the chain is skipped
  exit,       \* how far the shutdown is
  orderly,    \* the start was complete when the shutdown began
  busy,       \* threads that requests occupy
  keycloak,   \* the key published under the configured kid, or none
  steady,     \* history: keycloak has not changed since the process started
  accepted,   \* the key in the public key pool, or none
  clients,    \* the configured token clients
  secrets     \* the secret key pool: the client whose secret is kept per pointer

vars == <<boot, open, hooks, chain, broken, exit, orderly, busy, keycloak,
          steady, accepted, clients, secrets>>

shutdown == <<chain, broken, exit, orderly>>
pools == <<accepted, secrets>>
surroundings == <<keycloak, steady, clients>>

Components == {"metrics", "http", "cassandra", "rest"}

(* The stages from publicKeys to hook are one task. In stuck that task has    *)
(* called exit, in failed the main thread before it.                         *)
StartTask == {"publicKeys", "secretKeys", "http", "cassandra", "server", "hook", "stuck"}
Stages == StartTask \cup {"metrics", "service", "started", "failed"}

KeyOrNone == {{}} \cup {{k} : k \in PublicKeys}

TypeOK ==
  /\ boot \in Stages
  /\ open \subseteq Components
  /\ hooks \in Seq(Components) /\ chain \in Seq(Components)
  /\ broken \in BOOLEAN /\ orderly \in BOOLEAN /\ steady \in BOOLEAN
  /\ exit \in {"no", "polling", "waiting", "counted", "abandoned", "halted"}
  /\ busy \in 0 .. Threads
  /\ keycloak \in KeyOrNone /\ accepted \in KeyOrNone
  /\ clients \subseteq Clients
  /\ secrets \in [Pointers -> SUBSET Clients]

(* A process that has just been started, by hand or by a supervisor.          *)
Fresh ==
  [boot |-> "metrics", open |-> {}, exit |-> "no", accepted |-> {},
   secrets |-> [p \in Pointers |-> {}]]

Init ==
  /\ boot = Fresh.boot /\ open = Fresh.open /\ exit = Fresh.exit
  /\ hooks = <<>> /\ chain = <<>> /\ broken = FALSE /\ orderly = FALSE
  /\ busy = 0
  /\ keycloak \in KeyOrNone /\ steady = TRUE /\ accepted = Fresh.accepted
  /\ clients \in SUBSET Clients /\ secrets = Fresh.secrets

Held == busy + (IF StartOnPool /\ boot \in StartTask THEN 1 ELSE 0)
ThreadFree == Held < Threads

------------------------------------------------------------------------------
(* The start                                                                *)

(* Mutant of push: a stop hook is added behind the earlier ones.             *)
pushLast(c) == Append(hooks, c)

push(c) == <<c>> \o hooks

Opened(c) == open' = open \cup {c} /\ hooks' = push(c)

(* A call of exit: it never returns to the thread that made it.              *)
ExitFrom(stage) ==
  /\ boot' = stage
  /\ exit' = IF exit = "no" THEN "polling" ELSE exit
  /\ UNCHANGED <<open, hooks, chain, broken, orderly, busy, pools, surroundings>>

Continue(stage) ==
  /\ boot' = stage
  /\ UNCHANGED <<shutdown, busy, surroundings>>

(* The metrics server finds a free port in one of four attempts; else the     *)
(* main thread dies and the process ends, as nothing else runs.               *)
StartMetrics ==
  /\ boot = "metrics"
  /\ \/ Opened("metrics") /\ Continue("service") /\ UNCHANGED pools
     \/ ExitFrom("failed")

(* The service is injected: the clients are read, which may fail.             *)
InjectService ==
  /\ boot = "service"
  /\ \/ Continue("publicKeys") /\ UNCHANGED <<open, hooks, pools>>
     \/ ExitFrom("failed")

(* Mutant of LoadPublicKeys: a failing discovery is logged and forgotten.     *)
LoadPublicKeysOrNone ==
  /\ boot = "publicKeys"
  /\ accepted' \in {keycloak, {}}
  /\ Continue("secretKeys") /\ UNCHANGED <<open, hooks, secrets>>

(* One of the two documents of Keycloak is unreachable or unreadable, does    *)
(* not name the other, or holds a key that cannot be read.                   *)
DiscoveryFails == ExitFrom("stuck")

(* The key published under the configured kid is kept; a missing one is only *)
(* logged, a failing discovery ends the process.                             *)
LoadPublicKeys ==
  /\ boot = "publicKeys"
  /\ \/ /\ accepted' = keycloak
        /\ Continue("secretKeys") /\ UNCHANGED <<open, hooks, secrets>>
     \/ DiscoveryFails

(* Mutant of loaded: the numbering of the clients starts at 0.               *)
loadedFromZero(cs) == {i \in cs : 0 .. i \subseteq cs}

(* Clients are read in the order of their numbers up to the first gap.       *)
loaded(cs) == {i \in cs : 1 .. i \subseteq cs}

(* Of clients with one pointer, the last one replaces the others.            *)
keyPool(found) ==
  [p \in Pointers |-> {i \in found : /\ PointerOf[i] = p
                                     /\ \A j \in found : PointerOf[j] = p => j <= i}]

(* All secrets are decoded before the first is added.                        *)
LoadSecretKeys ==
  /\ boot = "secretKeys"
  /\ IF loaded(clients) \cap Undecodable = {}
       THEN /\ secrets' = keyPool(loaded(clients))
            /\ Continue("http") /\ UNCHANGED <<open, hooks, accepted>>
       ELSE ExitFrom("stuck")

(* Starting the server injects the controllers, and with them the HTTP client *)
(* and the session with Cassandra.                                           *)
OpenHttpClient ==
  /\ boot = "http"
  /\ Opened("http") /\ Continue("cassandra") /\ UNCHANGED pools

(* When Cassandra cannot be reached the application is unavailable, but the   *)
(* server starts.                                                            *)
OpenSession ==
  /\ boot = "cassandra"
  /\ \/ Opened("cassandra")
     \/ UNCHANGED <<open, hooks>>
  /\ Continue("server") /\ UNCHANGED pools

StartServer ==
  /\ boot = "server"
  /\ \/ /\ open' = open \cup {"rest"}
        /\ Continue("hook") /\ UNCHANGED <<hooks, pools>>
     \/ ExitFrom("stuck")

AddServerHook ==
  /\ boot = "hook"
  /\ hooks' = push("rest")
  /\ Continue("started") /\ UNCHANGED <<open, pools>>

------------------------------------------------------------------------------
(* Requests                                                                 *)

(* Mutant of Resume: a thread is started for every request.                  *)
ResumeAlways ==
  /\ boot \in {"hook", "started"}
  /\ busy' = busy + 1
  /\ UNCHANGED <<boot, open, hooks, shutdown, pools, surroundings>>

(* A request whose call to Cassandra has returned resumes on the pool, also   *)
(* when the server has been stopped meanwhile.                               *)
Resume ==
  /\ boot \in {"hook", "started"} /\ ThreadFree
  /\ busy' = busy + 1
  /\ UNCHANGED <<boot, open, hooks, shutdown, pools, surroundings>>

Release ==
  /\ busy > 0
  /\ busy' = busy - 1
  /\ UNCHANGED <<boot, open, hooks, shutdown, pools, surroundings>>

Rotate(k) ==
  /\ k # keycloak
  /\ keycloak' = k /\ steady' = FALSE
  /\ UNCHANGED <<boot, open, hooks, shutdown, busy, pools, clients>>

------------------------------------------------------------------------------
(* The shutdown                                                             *)

Terminate ==
  /\ exit = "no"
  /\ exit' = "polling" /\ orderly' = (boot = "started")
  /\ UNCHANGED <<boot, open, hooks, chain, broken, busy, pools, surroundings>>

(* Mutant of Poll: a hook is looked at and stays in the deque.               *)
PollPeeks ==
  /\ exit = "polling"
  /\ IF hooks = <<>>
       THEN exit' = "waiting" /\ UNCHANGED <<hooks, chain>>
       ELSE chain' = Append(chain, Head(hooks)) /\ UNCHANGED <<hooks, exit>>
  /\ UNCHANGED <<boot, open, broken, orderly, busy, pools, surroundings>>

(* The hooks are taken from the deque and chained until none is left.         *)
Poll ==
  /\ exit = "polling"
  /\ IF hooks = <<>>
       THEN exit' = "waiting" /\ UNCHANGED <<hooks, chain>>
       ELSE /\ chain' = Append(chain, Head(hooks)) /\ hooks' = Tail(hooks)
            /\ UNCHANGED exit
  /\ UNCHANGED <<boot, open, broken, orderly, busy, pools, surroundings>>

(* The next hook of the chain runs on the pool. It closes its component at    *)
(* once, so a failure is thrown before there is a future to recover from.     *)
RunHook ==
  /\ chain # <<>> /\ ~broken /\ ThreadFree
  /\ chain' = Tail(chain)
  /\ \/ open' = open \ {Head(chain)} /\ UNCHANGED broken
     \/ open' \in {open, open \ {Head(chain)}} /\ broken' = TRUE
  /\ UNCHANGED <<boot, hooks, exit, orderly, busy, pools, surroundings>>

Latch(result) ==
  /\ exit = "waiting" /\ exit' = result
  /\ UNCHANGED <<boot, open, hooks, chain, broken, orderly, busy, pools, surroundings>>

(* Mutant of CountDown: the latch does not wait for the chain.               *)
CountDownAtOnce == ThreadFree /\ Latch("counted")

(* The end of the chain, good or bad, counts the latch down, on the pool.     *)
CountDown == (chain = <<>> \/ broken) /\ ThreadFree /\ Latch("counted")

(* Mutant of LatchTimeout: the latch is awaited without a timeout.           *)
LatchNeverTimesOut == FALSE /\ Latch("abandoned")

(* Five seconds have passed.                                                *)
LatchTimeout == Latch("abandoned")

Halt ==
  /\ exit \in {"counted", "abandoned"}
  /\ exit' = "halted" /\ open' = {}
  /\ UNCHANGED <<boot, hooks, chain, broken, orderly, busy, pools, surroundings>>

Restart ==
  /\ exit = "halted"
  /\ boot' = Fresh.boot /\ open' = Fresh.open /\ exit' = Fresh.exit
  /\ hooks' = <<>> /\ chain' = <<>> /\ broken' = FALSE /\ orderly' = FALSE
  /\ busy' = 0
  /\ steady' = TRUE /\ accepted' = Fresh.accepted
  /\ clients' \in SUBSET Clients /\ secrets' = Fresh.secrets
  /\ UNCHANGED keycloak

Start ==
  \/ StartMetrics \/ InjectService \/ LoadPublicKeys \/ LoadSecretKeys
  \/ OpenHttpClient \/ OpenSession \/ StartServer \/ AddServerHook

Shutdown == Terminate \/ Poll \/ RunHook \/ CountDown \/ LatchTimeout \/ Halt

Next ==
  \/ exit # "halted" /\ (Start \/ Resume \/ Release \/ Shutdown)
  \/ \E k \in KeyOrNone : Rotate(k)
  \/ Restart

Spec == Init /\ [][Next]_vars

(* The thread of the shutdown hook runs, and its wait is limited. Nothing is  *)
(* assumed about the pool: its threads may be occupied for ever.             *)
ExitSpec == Spec /\ WF_vars(Poll) /\ WF_vars(LatchTimeout) /\ WF_vars(Halt)

------------------------------------------------------------------------------
(* Properties                                                               *)

(* A shutdown after a complete start never closes the Cassandra session or    *)
(* the HTTP client under a running server, also when a stop hook fails.       *)
ServerStopsFirst ==
  [][orderly /\ exit' # "halted" /\ exit # "halted" =>
       \A c \in {"http", "cassandra"} : c \in open \ open' => "rest" \notin open]_vars

(* While the server is open, users can log in unless Keycloak did not publish *)
(* the configured key or changed it since the process started.                *)
UsersAdmitted == "rest" \in open /\ steady => accepted = keycloak

(* While the server is open, the secret of every client that is configured    *)
(* without a gap before it and shares its pointer with no other is known.     *)
ClientsAdmitted ==
  "rest" \in open =>
    \A i \in clients :
      /\ 1 .. i \subseteq clients
      /\ \A j \in clients \ {i} : PointerOf[j] # PointerOf[i]
      => secrets[PointerOf[i]] = {i}

(* A shutdown after a complete start that ends in time, without a stop hook    *)
(* that throws, has closed all that was opened, with Cassandra or without.     *)
OrderlyCloses == orderly /\ exit = "counted" /\ ~broken => open = {}

(* What a shutdown may still have to wait for: the steps of a start that goes   *)
(* on beside it, each of which may leave one more hook, the hooks, and its own  *)
(* stages.                                                                  *)
startLeft ==
  [metrics |-> 8, service |-> 7, publicKeys |-> 6, secretKeys |-> 5, http |-> 4,
   cassandra |-> 3, server |-> 2, hook |-> 1, started |-> 0, stuck |-> 0, failed |-> 0][boot]

exitLeft ==
  [no |-> 4, polling |-> 3, waiting |-> 2, counted |-> 1, abandoned |-> 1, halted |-> 0][exit]

shutdownLeft == 2 * startLeft + Len(hooks) + exitLeft

(* A shutdown gets nearer to its end with every step of the thread that shuts   *)
(* down, and no step of the start, of a hook or of a request takes it back: a   *)
(* start that keeps adding hooks cannot keep it polling.                      *)
ShutdownAdvances ==
  [][exit \notin {"no", "halted"} =>
       /\ shutdownLeft' <= shutdownLeft
       /\ exit' # exit \/ Len(chain') > Len(chain) => shutdownLeft' < shutdownLeft]_vars

(* A shutdown that has begun ends, also when it was requested by a task that  *)
(* occupies the only thread the stop hooks could run on.                     *)
ShutdownEnds == exit # "no" ~> exit = "halted"

(* The lifecycle says of itself that it executes the stop hooks, and it       *)
(* recovers from failing ones: when its stop has ended, all have been run.    *)
HooksExecuted == exit = "counted" => chain = <<>>
=============================================================================
