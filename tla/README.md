# The token manager in TLA+

Models, model-checked properties and proofs about the ubirch token manager, the
service that issues JWTs to the users of Keycloak, keeps a row of each in
Cassandra, verifies them for other services and exchanges bootstrap tokens of
devices for working tokens. Paths are relative to the repository (`src/` here).

## 1. The system

Requests come in through two Scalatra controllers. A handler authenticates the
caller, reads the body and starts a Monix task; the task calls `TokenService`,
which may ask the console (groups of a user or of a device), the identity
service (public key of a device) and Cassandra, and ends in one answer. The task
runs on the thread of the servlet, blocking it for calls over HTTP, until it
first waits for Cassandra; from then on it runs on a pool of five threads, and the
servlet has made the request asynchronous and started its timer. At each call
other tasks run.

| component | state | operations | talks to |
|---|---|---|---|
| Token service (`services/jwt/TokenService.scala`) | none of its own; the tokens it has signed are in the hands of clients | create, generic create, list, get, delete, verify, bootstrap | state verifier, token store, encoding, decoding, HMAC |
| State verifier (`services/state/StateVerifier.scala`) | none; reads groups and keys kept elsewhere | group check of a tenant and of a device, signature check in two attempts | console and identity service by blocking HTTP without timeouts |
| Token store (`models/TokenDAO.scala`) | table `tokens`, primary key `(owner_id, id)` | insert, select by owner, select by owner and id, delete | Cassandra, `LOCAL_ONE` |
| Claims (`models/Token*Claim.scala`, `Scope.scala`) | none | validation, conversion to the signed form | |
| Encoding, decoding (`services/jwt/Token{En,De}codingService.scala`, `TokenKeyService.scala`) | the signing key | sign with ES256; check the signature, `exp`, `nbf` | jwt-core |
| Token controller, `ControllerBase` | one asynchronous context per request, with a timer | endpoints, mapping of failures to statuses | token service |
| Authentication (`controllers/concerns/*Bearer*`) | the pool of Keycloak keys | who is calling, is it a user or an administrator | public key pool |
| HMAC (`services/key/HMACVerifier.scala`) | the pool of client secrets | signature and age of a verification request | secret key pool |
| Key pools and discovery (`services/key/KeyPoolService.scala`, `services/jwt/PublicKey*.scala`, `services/state/SecretKeyPoolService.scala`) | two maps, filled at startup | load, lookup | Keycloak |
| Token clients (`services/state/TokenClientsInfo.scala`) | clients read from a file or numbered environment variables | read, check | |
| Lifecycle, startup (`services/lifeCycle`, `Service.scala`, `Boot.scala`, `services/rest`, `services/execution`) | deque of stop hooks, the pool of threads | start in order, stop in a chain, exit | all |
| Metrics (`services/metrics`, `controllers/concerns/ServiceMetrics.scala`) | counters, a server on a port | count, retry for a port | |
| Client SDK (`sdk/`) | none | decode and check a token, ask the token manager about groups | `/v2/verify` |
| Wiring, formats, information endpoints, utilities | none | | |

### What is hard in it, and what makes it correct

- *Interleaving.* The console is asked first and the token signed later, and the
  tenant may have changed groups in between; the identity key may be replaced
  between the two attempts of a signature check; the presented token of a
  bootstrap may expire between the tokens derived from it.
  Correct: nobody gets a token about groups he never was in, or for a device
  whose keys did not sign the request (`VouchedGroups`, `BootstrapSigned`), and
  what is derived stems from a token valid at that moment (`DerivedTokens`).
- *Partial failure.* A bootstrap is four signings and four inserts in sequence;
  each can fail. Correct: a 200 means all four (`BootstrapComplete`). A failing signing
  is answered as a refusal and may leave some of them behind, all recorded and only while the presented
  token reads; any other refusal leaves none (`RefusedLeavesRecorded`). A 500 may leave some as well.
- *Unreliable storage.* An insert can fail and still land, land late or never; a
  delete can overtake an insert; one replica answers a query while the others
  know better. Correct: a token a client holds is in the table until its owner
  deletes it (`DeliveredTokensAreKept`, `OnlyOwnerErases`), and queries show what
  had settled (`QueriesAccurate`).
- *Timeouts and crashes.* The container answers 504 while the task goes on; the
  process can die with a row written and no client answered. Correct: one reply
  per request, an answer even if Cassandra never gives one (`ClientsAreAnswered`),
  and an end of every task whose services answer (`TasksEnd`). Whatever it asks for, a request
  has a bounded number of turns and gives its thread back for good before the timer
  runs (`ImplementsCourse`).
- *Information flow over time.* Groups are carried over from a token to those
  derived from it, owners and tenants pass through a claim, a JWT and a row
  (`VouchedOwners`, `VerifiedSharesGroup`).
- *Clocks and networks.* A verification request is stamped by one clock and judged by
  another, its answer may be somebody else's page or never come, and the token may expire
  and the device move before it does. Correct: a confirmation was true at some moment of
  the call (`ConfirmedDuringCall`), a refusal has one of a few causes
  (`RefusedForCause`), and a call ends unless it hangs (`CallsEnd`):
  the client of the SDK has no timeout, so that nothing ends a call whose reply is lost.
- *Two readers of one token.* The manager and the SDK each parse what the manager has
  written, text or list, UUIDs or a wildcard, ids or names. Correct: both read what was asked for
  (`ReadAsAsked`, `ListsMatchSets`).
- *Shared threads and connections.* Calls over HTTP block a thread each, over two
  connections per service and without timeouts. Correct: connections come back on every
  path (`ConnectionsAccounted`), threads and connections never wait for each other in
  a circle (`NoGridlock`), and a service that hangs harms only those who ask it
  until it has all threads (`ServedUnlessStarved`).
- *Start and end of the process.* A start has eight steps, most of which can fail,
  each leaving stop hooks behind; a shutdown runs these on the pool that may be
  held by the very task that asked for the exit, and a hook may throw. Correct:
  an open server has the keys it needs (`UsersAdmitted`, `ClientsAdmitted`), is closed
  before what it uses (`ServerStopsFirst`), an orderly end leaves nothing open
  (`OrderlyCloses`), and a shutdown ends (`ShutdownEnds`), also beside a start that
  still adds hooks (`ShutdownAdvances`).

The full list, with lines, is under `hazards` in `PROJECT.json`.

## 2. The modules

| module | models | by |
|---|---|---|
| `TokenClaims` | claims, their checks, `toTokenClaim`, encoding and decoding of a JWT, the comparison of groups | operators |
| `TokenService` | all seven operations as concurrent requests over a replicated table, changing groups and keys, a clock, timeouts and crashes | a state machine |
| `TokenLedger` | the abstract promise: tokens are issued, recorded, revoked and disclosed | a state machine of four actions |
| `RequestCourse` | the abstract course of a request: on a thread over HTTP first, off it to Cassandra, fewer turns left with each, one answer | a state machine of five actions and a restart |
| `TokenServiceRefinement` | the mappings of the service to the ledger and to the course | `INSTANCE ... WITH` |
| `VerificationExchange` | the way of a token: signed by the manager, read by a service with the SDK, verified by the manager on the service's request, over a network and with clocks that differ | a state machine |
| `RequestPool` | threads of the servlet container, connections of the HTTP client, the timer of a request, the counters | a state machine |
| `ServiceLifecycle` | the process: start, key pools, requests as holders of threads, exit, stop hooks, restart | a state machine |
| `TokenClaimsProofs`, `TokenServiceProofs`, `TokenLedgerProofs`, `TokenBootstrapProofs`, `TokenAnswerProofs` | theorems about `TokenService`, each module extending the one before | TLAPS |
| `VerificationExchangeProofs`, `RequestPoolProofs`, `ServiceLifecycleProofs` | theorems about the other three | TLAPS |
| `MCTokenService`, `MCVerificationExchange`, `MCRequestPool`, `MCServiceLifecycle` | instances for TLC | definitions for the `.cfg` files |

`TokenClaims` is shared by `TokenService` and `VerificationExchange`. The two overlap in
the creation and the verification of a token: the former has every step of both and
everything that runs beside them, the latter takes a creation as one step and follows
the token outside of the manager. `RequestPool` has the same tasks as `TokenService`, as the mere
sequence of services they ask. The two do not share variables; what they have in common is that both implement
`RequestCourse`: in the one its turns are the stages of a task, in the other the services it has yet to ask. The
mapping of the first is in `TokenServiceRefinement`, that of the second at the end of `RequestPool`.

### State and code

`TokenService` has, besides what the code keeps, the state of everything the
code talks to.

| variable | in the code |
|---|---|
| `tokens` | the JWTs signed by `TokenEncodingService.encode`, with the columns `owner_id` and `category` of the row built at `TokenService.scala:155`; a token's id (a random UUID, never drawn twice) is its position. `parent`, `askedBy` and `vouched` are ghosts |
| `writes`, `rows`, `erased`, `unsettled` | inserts on their way, the rows of the table, the rows deleted, the ids some replica has not yet heard about |
| `groups`, `keys` | what the console and the identity service would answer now |
| `held`, `used` | history of the two |
| `pc`, `call`, `made`, `outcome` | where the Monix task of a request is, its input, the tokens it has signed, its result |
| `reply`, `delivered` | what the client received, and all token ids in replies so far |
| `now` | the system clock in seconds |

A request arrives by one of `Create`, `CreateGeneric`, `List`, `Get`, `Delete`,
`Verify`, `Bootstrap`, `Unauthorized` or `Malformed`: everything the handler does
before its first asynchronous call, early returns included. From there each
action is what happens between two calls: `TenantGroups`, `DeviceGroups`,
`GroupsFail` (console), `IdentityKey`, `IdentityKeyFails` (identity service; the
second attempt reads the key again), `MintRefused`, `MintFails` (the encoding fails: 400), `Mint` (check the owner or
decode the presented token, build the claim, sign, send the insert),
`InsertDone`, `InsertFails`, `RowsRead`, `RowDeleted`, `StorageFails`
(Cassandra), `Respond` (the result completes the request unless it was timed
out) and `Timeout`. The surroundings act through `WriteLands`, `WriteLost`,
`Settle`, `Regroup`, `Register`, `Tick` and `Crash`.

A presented token is decoded when the code decodes it: once for a verification,
and anew for each of the four tokens of a bootstrap (`mintStatus`), since
`createClaim` runs inside each of the four tasks. The statuses are those of the error
handlers: a forged token is 400, a token that is expired, not yet valid or not
a JWT is 500, because jwt-core's exceptions for these are not subtypes of the
one the decoding service maps.

`Timeout` is possible only once the request is asynchronous (`Timed`): the servlet starts
its timer after the call that created the task has returned, and that call
includes the questions asked over HTTP.

`ServiceLifecycle` has the process:

| variable | in the code |
|---|---|
| `boot` | how far the constructor of `Boot`, then `Service.start`, have got; `failed` and `stuck` are threads inside of `sys.exit` |
| `open` | which of metrics server, HTTP client, Cassandra session and Jetty are in operation |
| `hooks` | the deque of `DefaultLifecycle` |
| `chain`, `broken` | the closures `clearHooks` has chained with `flatMap` and that have not run, and whether an earlier future of the chain has failed |
| `exit`, `orderly` | the thread of `DefaultJVMHook` and its latch; whether the start was complete when it began (history) |
| `busy` | threads of the pool on which requests resume |
| `keycloak`, `accepted`, `steady` | the key Keycloak publishes under the configured kid, the one in the public key pool, and whether the former has stayed since the process started (history) |
| `clients`, `secrets` | the configured clients by number, the secret key pool by pointer |

The start is `StartMetrics`, `InjectService` (reads the clients), `LoadPublicKeys`,
`LoadSecretKeys`, then, while Jetty starts and injects the controllers,
`OpenHttpClient`, `OpenSession` and `StartServer`, and `AddServerHook`. A failure
is `ExitFrom`; a Cassandra that cannot be reached is not one. `Terminate` is a signal from outside.
`Poll` takes one hook from the deque and chains it, while `RunHook` already runs
the first ones on the pool; `CountDown`, `LatchTimeout` and `Halt` end the process, and
`Restart` starts the next one. A hook that throws may have closed its component
or not.

`VerificationExchange` has the manager, the services and what is between:

| variable | in the code |
|---|---|
| `now`, `skew` | the clock of the manager, and by how much that of each service is ahead |
| `secrets` | the secret key pool: whose secret is found under a pointer |
| `tokens` | the JWTs signed, here with issuer and audiences; `asked` is a ghost, the request |
| `groups` | what the console would answer now |
| `pc`, `call` | where `externalStateVerify` of each service is, its input, and the history of the call: its beginning and end, the groups the device was in, whether the console failed |
| `reply`, `result` | the HTTP response on its way back, and what the call returned: true, false or an exception |
| `verdict` | what `decodeAndVerify` and `validateIdentity` have last told each service |

The manager acts by `Create`, `CreateGeneric` (one step each, with all their checks), `Receive` (the HMAC, the
token, the claim), `DeviceGroups` and `ConsoleFails`. `Hang` loses a request or its reply, or has the manager
or the console answer never: the call stays at the stage `hanging` until a gateway or a broken connection ends it, which need not happen. A service acts by `Read`, `Ask` (stamps and signs the request), `Return`
(`isResponseOK` and the status) and `Break` (an exception). `GatewayAnswers` is a 504 from in between, `Regroup` the console, `Tick` the clock.
The secret of each service is in the pool or not; a request with a wrong secret is the latter.

`RequestPool` has, for each request, its stage (`pc`), the services its task has yet to ask (`todo`),
the answer its client has (`reply`) and whether its callback for the counters is still to run (`callbacks`);
for each service the requests that hold a connection to it (`leased`), and whether it hangs (`hung`);
and the counters `successes` and `failures`. `Arrive` queues a request at the container. A free thread refuses it (`Refuse`) or runs the task up to the
first wait (`Start`): for a connection (`Lease`), for the answer over it (`Answer`, `Break`) or for Cassandra (`Stored`).
The thread is given back when the task first waits for Cassandra or ends; only then the timer runs (`Timeout`).

### What stands for what

Lists are sets, an `Option` is a set of at most one element, a purpose is its
length, a text of scopes is the set of the known scopes in it. An `Either` of
UUIDs and texts is the set, read as UUIDs when all are. The outcome of the HMAC
comparison is a Boolean (`sealed`) in `TokenService` and a look-up of the secret in `VerificationExchange`, where the list of claimed groups is a bag as well. The bearer authentication yields a tenant, an
administrator, or one of its refusals.

Assumed about code that is not in the repository:

- jwt-core accepts a token when `nbf <= now < exp`; its exceptions for an expired
  and a not-yet-valid token are siblings of `JwtValidationException`.
- ES256 signatures are not forged; random UUIDs do not repeat.
- BouncyCastle throws `SignatureException` on an ECDSA signature in the other
  encoding, which is what triggers the second attempt.
- json4s tries the `Left` of an `Either` first.
- jwt-scala writes one audience as a text and several as a list.
- Apache's default HTTP client keeps two connections per route, hands them out in no order
  that can be relied on, gives them back when the response handler has returned or thrown, and waits without limit.
- A request occupies a thread of Jetty until the servlet returns.
- Quill's `run` of an action emits one `Unit`, so that delete finds "one result"
  whether or not there was a row.
- Scalatra completes an asynchronous request once, with the result or after its
  timeout with 504, and the task runs on after a timeout.
- Monix runs a task on the thread that starts it up to the first asynchronous
  boundary. Whether reading from Keycloak is one depends on Monix's readers, so that the
  rest of the start runs on the pool or on the main thread: both are allowed
  (`StartOnPool`).
- Guice creates the HTTP client before the Cassandra session when the controllers
  are injected; Jetty starts although a web application of it failed.
- The JVM runs its shutdown hooks once, on threads of their own, also when the main
  thread dies of an exception; `exit` does not return to its caller.
- Cassandra resolves by timestamp: a delete shadows an insert sent before it,
  also one that lands later. With replication factor 3 and `LOCAL_ONE` a read
  may miss what is not yet on every replica (`Lagging`).

## 3. What is checked

`tlc -config <run>.cfg <module>`: `MCTokenService` for the first four, `revocation`, `listing` and
`parsing`; `MCVerificationExchange` for `exchange` and `origins`; `MCRequestPool` for `pool`;
`MCServiceLifecycle` for `lifecycle` and `stophooks`. The instances of the service use at most two tenants, one device,
two groups and two keys.

| run | question | bounds and why they are enough |
|---|---|---|
| `records` | Do concurrent creates, queries and deletes of two users over lagging replicas keep delivered tokens, answer queries accurately and delete only for the owner, and does all this implement the ledger? `TypeOK`, `DeliveredTokensAreKept`, `QueriesAccurate`, `OnlyOwnerErases`, `ImplementsLedger` | One token suffices as each property speaks of one row, and a step of the ledger touches one; two requests give every race of create, query and delete on it, two tenants the wrong owner. The proofs cover more tokens |
| `bootstrap` | What does a bootstrap sign, store and answer at each stage? `DerivedTokens`, `BootstrapSigned`, `BootstrapComplete`, `RefusedLeavesRecorded`; and do the groups of derived tokens go back to the check at creation when the tenant has left them, under the lenient check? `VouchedGroups` | Five tokens, the presented one and the four derived; two keys, one of them ECDSA, changing at any time; any of the signings and inserts fails; the presented token lives one second and the clock ticks once, the tenant leaves its group, between any two steps; the device is in another group than the tenant |
| `groups` | Are groups and owners of created tokens vouched for while tenants and devices change groups, and do the strict checks at creation and at verification fit together? `VouchedGroups`, `VouchedOwners`, `VerifiedSharesGroup` | Claims by id, by name, partly not the tenant's, and one that fails the local check; an administrator's generic tokens alongside, also ones that look like purposed ones; stamps missing, at the edge and inside of the window; tenants and devices move between groups between any two steps of a request |
| `progress` | Does every task end, and is every client answered although Cassandra need not answer? `TasksEnd`, `ClientsAreAnswered` under `TimerSpec`; and does a request keep its course? `ImplementsCourse` | Creates, lists, bootstraps and refused requests, with every stage but that of a delete and a device; one request, as requests wait for nothing of each other in this model (in `pool` they do); the retry of the signature, the loop of four inserts, crashes |
| `exchange` | What are a confirmation, a refusal and a reading of a token worth, and which calls end? `TypeOK`, `ConfirmedDuringCall`, `RefusedForCause`, `ReadAsAsked`, `ListsMatchSets`, and `CallsEnd` under `FairSpec` | One service and one token, as calls share nothing but what surrounds them; a clock behind, ahead and at the edge of a window of two; a life that ends during a call; tokens by device, wildcard, id, shared name, double claims, one and two audiences, another issuer, no purposed claim; a device that moves between none, one and both groups; a secret the manager has or has not |
| `pool` | Do shared threads and connections come back, who is harmed by a service that hangs, and what do the counters count? `TypeOK`, `ConnectionsAccounted`, `CountersCountTasks`, `NoGridlock`, `ImplementsCourse`, and `ServedUnlessStarved` under `FairSpec` | A verification, a creation, a bootstrap with the retry and a list, or a rush of three on the console beside a request that asks nobody; three threads and two connections, fewer of either than requests, and either or both services hanging |
| `lifecycle` | Does an open server have its keys, does it close first, and does a shutdown end, whatever fails and whenever the process is told to end? `TypeOK`, `UsersAdmitted`, `ClientsAdmitted`, `ServerStopsFirst`, `OrderlyCloses`, `ShutdownAdvances`, and `ShutdownEnds` under `ExitSpec` | Three clients in all eight configurations: gaps, one undecodable secret, two that share a pointer; a key that appears and disappears at any time; one thread, held by the start or by a request for ever: the worst pool there is |
| `revocation`, `listing`, `parsing`, `origins`, `stophooks` | violated statements of the documentation, see 5 | the smallest instance that shows it |

`RequestSymmetry` permutes the request slots in runs of safety properties only.
Deadlock is checked in all of them but `pool`: a service with a free slot always accepts a
request, a process can always be told to end, and one that has ended is started again.
In `pool` each request arrives once, and the state in which all are answered, or hang with their service, is final.

*Bounds.* `MaxTokens` bounds the tokens ever signed (a request that could exceed
it does not arrive, so no task is cut off half-way), `MaxTime` the clock. `Operations` selects
the endpoints an instance uses; `"rejected"` stands for requests refused before their handler (`Unauthorized`, `Malformed`).

*Fairness.* `TasksEnd` has its fairness as an antecedent, `TasksProgress`: weak fairness of `Step(r)`. The scheduler
runs a ready task, and a call to a service returns or fails. This holds of Cassandra, whose
driver times out; for the HTTP clients, which have no timeout, it is an
assumption about the services. `TimerSpec` keeps it only for the steps on the thread of the servlet, where the timer does
not run yet, and adds the timer: `ClientsAreAnswered` depends on the services asked over HTTP,
which hold a client for ever if they hang, and not on Cassandra or the pool.
`RequestPool` is where they may hang: its `FairSpec` lets free threads take requests, free connections be leased, services that do not hang
answer and the driver of Cassandra give up, each for the request at hand; it assumes weak fairness only, so that a request
may be overtaken at a connection as long as others keep taking it (each request arrives once, so it is not for ever).
In `VerificationExchange`, `FairSpec` has weak fairness of `Proceed(c)`: a call that is not hanging goes on. That it does not hang is not assumed:
`Hang` is possible until the service has read its reply, and gateways and broken connections are never fair. So `CallsEnd` says that a call ends or hangs, and,
with the fairness of `GatewayAnswers` as an antecedent, that only a call whose page from the gateway is lost too can hang for ever.
`ExitSpec` has weak fairness of `Poll`, `LatchTimeout` and `Halt`, the steps of the thread of the
shutdown hook, whose only wait is limited to five seconds; no thread of the pool is ever assumed to be free. Writes landing,
clock, membership changes and requests are never fair.

*Mutants.* Each property of a passing run has a mutant of the code it is about
(`mutants` in `PROJECT.json`), an operator beside the original that changes it
as a plausible bug would, for which TLC finds the property violated.

## 4. What is proved

Every safety property of the passing runs is a theorem, for every value of the constants that satisfies the named assumptions. These
are about types, finiteness (`Groups` in the exchange, the requests of the pool) and texts that are no ids or numbers; a bound is
only assumed to be a number. `tlapm <module>.tla` checks a module.

### The token service

For any sets of requests, tenants, devices, groups, keys and claims, any times, and both settings of `Lagging` and,
but for one theorem, of the strict check:

| module | theorem | says |
|---|---|---|
| `TokenServiceProofs` | `TypeCorrect` | `Spec => []TypeOK` |
| | `TokensAreKept` | `Spec => []DeliveredTokensAreKept` |
| | `GroupsAreVouched` | `Spec => []VouchedGroups` |
| | `OwnersAreVouched` | `Spec => []VouchedOwners` |
| `TokenLedgerProofs` | `OnlyOwnersErase` | `Spec => OnlyOwnerErases` |
| | `LedgerImplemented` | `Spec => ImplementsLedger` |
| `TokenBootstrapProofs` | `BootstrapsAreSigned` | `Spec => []BootstrapSigned` |
| | `RefusalsLeaveRecorded` | `Spec => RefusedLeavesRecorded` |
| | `BootstrapsDerive` | `Spec => []DerivedTokens` |
| | `BootstrapsAreComplete` | `Spec => []BootstrapComplete` |
| `TokenAnswerProofs` | `QueriesAreAccurate` | `Spec => []QueriesAccurate` |
| | `VerifiedDevicesShareGroups` | `StrictGroupCheck => (Spec => []VerifiedSharesGroup)` |
| | `ServiceKeepsCourse` | `Spec => ImplementsCourse` |

`TokenClaimsProofs` has the facts about claims they rest on: types of what is encoded and decoded, the monotony of
the group check (`GroupsMonotone`), that two strict checks of one claim have a group in common (`StrictAgreement`), and that a
claim is read back as it was signed (`ReadBack`, `CheckedBack`).

*Argument.* None of the properties is inductive alone.

1. `TypeInv` adds to `TypeOK` the shape of a request (`Shaped`): which call can
   be at which stage, that a request about to sign has tokens left to sign, and
   that the ids it carries are of signed tokens. Without it `Mint` could apply to a call with no claim.
2. `KeptInv` adds to `DeliveredTokensAreKept` that all tokens of a request but the one
   being inserted have reached the table (`Stored`), hence all of a result have; rows only move
   to `erased` (`StoredStable`).
3. `VouchedInv` adds that current groups are part of the history, and that a
   claim about to be signed has passed the check (`Checked`). The check is
   monotone in the groups, strict or not (`GroupsMonotone`): that carries it
   over any change of membership between check and signing. For a derived token,
   `bootstrapClaim` keeps tenant and groups (`BootstrapClaimType`), so it inherits
   from its parent what holds of that.
4. `TableInv` says that a token is on its way, in the table, erased or lost, no two of these, and that only a delete is at the stage
   of erasing: a row that goes is then one its owner selected. `SoleInv` says that the tokens of one request are of one owner, also those of its
   result, which is what lets every answer be one `Disclose` of the ledger. With these, each step maps to a step of the ledger or to none.
5. `SlotInv` ties stages, results and replies: a success the client has is the result of the ended task. On it rest
   `SignedInv` (past the key check, the key was one of the device), `RefusedInv` (the token of a bootstrap that has signed is no forgery, so that only a failure to sign is still a refusal; that what
   it has signed is recorded is `Stored`), `DerivedInv`
   (parents are signed tokens) and `CompleteInv` (the k-th token of a bootstrap has the k-th scope and the owner of the presented one, and all
   but the last are stored).
6. `QueryInv` says that what a query owes stays settled in the table or is erased, and that what must not be shown stays erased everywhere.
7. `VerifiedInv` carries the two group checks of a token, at creation and at verification, over the growth of the history. The strict setting is needed:
   two lenient checks may each be satisfied by another group of the claim.
8. For the course, `CourseTurns` bounds the turns a request has left, by what `Shaped` says of its stage: at most ten, two attempts at the key and
   two turns for each of four tokens. An advance has less left because the second attempt at the key is made only after the first, and each
   insert is followed by a signing only while tokens are missing. A task that returns from Cassandra to sign has signed before, which keeps it
   off its thread; `SlotInv` says that a result is never a timeout, so that an answer tells who gave it.

Each is proved to hold initially and to be preserved action by action; the
later ones use the earlier.

### The exchange

For any services, scopes, audiences, pointers, skews, window, claims and groups:

| theorem | says |
|---|---|
| `ExchangeTypes` | `Spec => []TypeOK` |
| `ListsAreSets` | `Spec => []ListsMatchSets` |
| `ReadsAsAsked` | `Spec => []ReadAsAsked` |
| `ConfirmationsAreFounded` | `Spec => []ConfirmedDuringCall` |
| `RefusalsAreFounded` | `Spec => []RefusedForCause` |

*Argument.* `TypeInv` adds to the types that the stamp of a call in progress is its beginning plus the skew, and that the current groups of its device are
part of what was seen (`Pending`). `HonestInv` says of every token what its request asked for: the check before signing, the content, the issuer
and the audiences. What a service was told stays what the token says, as tokens only are added
(`ToldInv`); with `HonestReading` and `IdentitiesAsAsked` this is `ReadAsAsked`. `CallInv` says at each stage of a call what is founded: past `Receive`
the token was valid at some moment (`Good`), a positive reply means also that the device was in the groups (`Placed`), a negative one that
there was a cause (`Excused`). All three grow with time, signed tokens and what was seen (`ReasonsStay`), so only the steps of the service
concerned matter. `ListedAsSets` connects the comparison of lists, which counts, with the one of sets.

### The pool

For any finite set of requests, any loads, threads and connections:

| theorem | says |
|---|---|
| `PoolTypes` | `Spec => []TypeOK` |
| `NoConnectionLeaks` | `Spec => []ConnectionsAccounted` |
| `CountersAreTasks` | `Spec => []CountersCountTasks` |
| `PoolFlows` | `Spec => []NoGridlock` |
| `PoolKeepsCourse` | `Spec => ImplementsCourse` |

*Argument.* `PoolInv` adds that the stage of a request fits the next service it asks: without it a connection could be
given back to another service than it was leased from. `CountInv` adds that a callback is due only for a task that has ended.
`NoGridlock` follows from `PoolInv` by counting: all connections to a service are held by requests on threads that wait for its answer, and
among as many requests as there are threads one is not stuck if fewer are. For the course, `PlanInv` says that what a task has yet to ask is
a task or the rest of one, of at most six services, and has those over HTTP first.

### The life cycle

`tlapm ServiceLifecycleProofs.tla` proves, for any size of the pool, any clients, pointers and keys:

| theorem | says |
|---|---|
| `LifecycleTypes` | `Spec => []TypeOK` |
| `UsersAreAdmitted` | `Spec => []UsersAdmitted` |
| `ClientsAreAdmitted` | `Spec => []ClientsAdmitted` |
| `ServerIsStoppedFirst` | `Spec => ServerStopsFirst` |
| `OrderlyShutdownsClose` | `Spec => []OrderlyCloses` |
| `ShutdownsAdvance` | `Spec => ShutdownAdvances` |

*Argument.* The inductive invariant is `TypeOK` with two parts. `LoadedInv` says what
each stage of the start has loaded, and that the server is open only in the last stages, since a
failed start never reaches them. `OrderInv` says that no hook has been taken before a
shutdown, that the hook of the server is on top of the deque once the start is
complete, and that until it has run it is the next to run: on top of an untouched
deque, or first in the chain. The last is what makes `ServerStopsFirst` hold when a hook
throws, as the rest of the chain is then skipped. `KeyPoolKnows` is about the pool:
a client read in order, with a pointer of its own, is found under it.

`CloseInv` says, of an unbroken chain, that what is open is listed in the deque or the chain, but for the server between its start and the
registration of its hook. This is where `orderly` is needed: a start that goes on beside the polling leaves hooks that nobody takes.
`ShutdownsAdvance` has a measure that counts twice the steps the start may still take, the hooks in the deque and the stages of the shutdown: a step
of the start adds one hook at most and so lowers it, as does everything the thread of the shutdown does.

### Not proved

*Only model-checked*: liveness (`TasksEnd`, `ClientsAreAnswered`, `CallsEnd`, `ServedUnlessStarved`, `ShutdownEnds`), which under fairness is
outside of the prover's reach. What is proved of it is the part that is safety: turns are bounded and decrease (`ServiceKeepsCourse`,
`PoolKeepsCourse`, `ShutdownsAdvance`), and someone can always go on (`PoolFlows`); that he does is fairness and left to TLC.
The violations of 5 are counterexamples.

## 5. Where code and documentation disagree

- `revocation`: the documentation of the SDK calls external verification useful
  for revocation claims (`README.md:532`); `verify` never reads the table, and a
  deleted token is verified until it expires.
- `listing`: the list endpoint is summarised as "all currently valid tokens"
  (`TokenController.scala:224`); it lists every row of the owner.
- `stophooks`: the life cycle says that it executes the stop hooks
  (`LifecycleBase.scala:28`) and recovers from failing ones. Each hook closes its component as
  the argument of `Future.successful`, so a failure is thrown before there is a
  future to recover from: it fails the chain, and the later hooks are polled and never run.
- `parsing`: 400 is promised for unparsable data (`README.md:455`); ids of get and
  delete, and some bodies of verify and bootstrap, give 500.

- `origins`: the origin domains of a token are "domains from which the calls will be accepted"
  (`README.md:52`); `validateOrigin` of the SDK (`TokenManager.scala:128`) wants every one of them to be the
  origin of the call, so that a token with two is accepted from neither.

Not a statement of the documentation, but to be known: the counter of failures never moves
(`CountersCountTasks`), as errors have become answers before a future is counted.

## 6. Not modelled

Cut from modelled parts:

- the bytes that are authenticated by HMAC: each side signs the body it has, and a request altered on its way is refused like one with a wrong secret;
- a request that is delivered twice: verification changes nothing, so a second answer is that of a second call;
- the timeout of `externalStateVerifySync`: it does not reach the blocking HTTP call, and adds no step to one that is not blocked;
- the instants between the reading of the clock when a presented token is decoded (`TokenService.scala:183`) and when a derived one is
  issued and given its life (`TokenEncodingService.scala:51,54`): `Mint` reads it once, so the bounds of `DerivedTokens` are exact up to the seconds that begin in between;
- the overflow of a large expiration, in seconds, beyond 64 bits: time is unbounded in the model;
- a delete that lands after it was reported as failed; `selectAll` (no caller);
- the tokens the manager signs for itself to ask the console, and the split of the `Authorization` header;
- in `TokenService`, threads and connections (every ready task may run): these are in `RequestPool`, and the timer is in both;
- the names and secrets of clients as texts, the retries of the metrics server for a port, texts of errors, logging.

`ServerStopsFirst` says nothing of a shutdown before the start is complete: between the
start of Jetty and the registration of its hook it does not hold. `UsersAdmitted` says nothing of a key that
Keycloak replaces while the process runs: nothing fetches it again.
`MalformedIsBadRequest` is about ids and bodies: a presented token that raises a `MatchError` is modelled (500), but not under it. `/jwk`, `/scopes`, information endpoints, wiring and
formats have no behaviour beyond constants and library calls.

## 7. Plan

The core, the life cycle, the exchange with the SDK and the pool are modelled, checked and, as far as they are safety, proved. Left, in
order of importance:

1. A composition of `RequestPool` with the stages of `ServiceLifecycle`: a shutdown that meets requests on blocked threads.
2. The file and the environment variables of the token clients as texts, with the checks on names and secrets; the text of scopes.
3. A lifetime modulo 2^64, and what jwt-core does with it.
