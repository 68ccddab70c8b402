------------------------------- MODULE RequestPool -------------------------------
(****************************************************************************)
(* The threads and connections that requests share. A request runs on a       *)
(* thread of the servlet container up to the first time it waits for           *)
(* Cassandra. The calls over HTTP before that block the thread: each needs    *)
(* one of the few connections the HTTP client keeps per service, and neither  *)
(* the wait for a connection nor the call itself is limited in time. From      *)
(* there on the pool of the application carries the task, and nothing blocks.  *)
(*                                                                          *)
(* What the calls are about is in TokenService; here a task is the sequence   *)
(* of services it has yet to ask.                                            *)
(****************************************************************************)
EXTENDS Naturals, Sequences, FiniteSets

CONSTANTS
  Requests,     \* the requests that will arrive, each of them once
  Loads,        \* what they may be: functions from Requests to Tasks
  Protected,    \* those to endpoints that authenticate the caller
  Threads,      \* threads of the servlet container
  Connections   \* connections per service, two by default

(* The services asked over HTTP: the console and the identity service.        *)
Hosts == {"console", "identity"}
Services == Hosts \cup {"cassandra"}

(* The key and, if the signature is unreadable, the key again; four inserts.  *)
Inserts == <<"cassandra", "cassandra", "cassandra", "cassandra">>
Bootstraps == {<<"identity">> \o Inserts, <<"identity", "identity">> \o Inserts}

(* Groups are asked for when a claim names some. A request for a constant like *)
(* the scopes asks nobody.                                                   *)
Tasks == {<<>>, <<"cassandra">>, <<"console">>, <<"console", "cassandra">>} \cup Bootstraps

ASSUME RequestsAssumption == IsFiniteSet(Requests) /\ Protected \subseteq Requests
ASSUME LoadsAssumption == Loads \subseteq [Requests -> Tasks]
ASSUME SizesAssumption == Threads \in Nat \ {0} /\ Connections \in Nat \ {0}

VARIABLES
  hung,       \* services that accept connections and never answer
  pc,         \* where each request is
  todo,       \* the services its task has yet to ask, in order
  leased,     \* the requests that hold a connection to each service
  reply,      \* what the client of each request has received
  callbacks,  \* requests whose callback of the metrics has not run
  successes,  \* token_management_success
  failures    \* token_management_failures

vars == <<hung, pc, todo, leased, reply, callbacks, successes, failures>>

(* away, queued by the container; waiting for a connection or for an answer    *)
(* on a thread of the servlet; waiting for Cassandra; the task has ended, and  *)
(* the request.                                                             *)
Stages == {"away", "queued", "waiting", "calling", "storing", "ended", "done"}

TypeOK ==
  /\ hung \subseteq Hosts
  /\ pc \in [Requests -> Stages]
  /\ todo \in [Requests -> Seq(Services)]
  /\ leased \in [Hosts -> SUBSET Requests]
  /\ reply \in [Requests -> {"none", "result", "refused", "timeout"}]
  /\ callbacks \subseteq Requests
  /\ successes \in Nat /\ failures \in Nat

Init ==
  /\ hung \in SUBSET Hosts
  /\ pc = [r \in Requests |-> "away"]
  /\ todo \in Loads
  /\ leased = [s \in Hosts |-> {}]
  /\ reply = [r \in Requests |-> "none"]
  /\ callbacks = {}
  /\ successes = 0 /\ failures = 0

------------------------------------------------------------------------------

OnThread == {r \in Requests : pc[r] \in {"waiting", "calling"}}

ThreadFree == Cardinality(OnThread) < Threads

(* Where a task goes that has these services to ask. It runs without a pause  *)
(* up to there.                                                             *)
stage(calls) ==
  IF calls = <<>> THEN "ended"
  ELSE IF Head(calls) = "cassandra" THEN "storing" ELSE "waiting"

(* A future is counted by a callback, whatever completes it.                  *)
Continue(r, calls) ==
  /\ pc' = [pc EXCEPT ![r] = stage(calls)]
  /\ todo' = [todo EXCEPT ![r] = calls]
  /\ callbacks' = IF calls = <<>> THEN callbacks \cup {r} ELSE callbacks

Arrive(r) ==
  /\ pc[r] = "away"
  /\ pc' = [pc EXCEPT ![r] = "queued"]
  /\ UNCHANGED <<hung, todo, leased, reply, callbacks, successes, failures>>

Refuse(r) ==
  /\ pc[r] = "queued" /\ ThreadFree /\ r \in Protected
  /\ pc' = [pc EXCEPT ![r] = "done"]
  /\ reply' = [reply EXCEPT ![r] = "refused"]
  /\ UNCHANGED <<hung, todo, leased, callbacks, successes, failures>>

(* The task may end before it has asked anyone.                              *)
Start(r) ==
  /\ pc[r] = "queued" /\ ThreadFree
  /\ \E calls \in {todo[r], <<>>} : Continue(r, calls)
  /\ UNCHANGED <<hung, leased, reply, successes, failures>>

(* Mutant of Lease: the connections are limited over all services together.   *)
LeaseOfTotal(r) ==
  /\ pc[r] = "waiting"
  /\ Cardinality(UNION {leased[s] : s \in Hosts}) < Connections
  /\ leased' = [leased EXCEPT ![Head(todo[r])] = @ \cup {r}]
  /\ pc' = [pc EXCEPT ![r] = "calling"]
  /\ UNCHANGED <<hung, todo, reply, callbacks, successes, failures>>

(* Any of those that wait gets a connection that is free: a newcomer may       *)
(* overtake.                                                                *)
Lease(r) ==
  LET service == Head(todo[r]) IN
  /\ pc[r] = "waiting" /\ Cardinality(leased[service]) < Connections
  /\ leased' = [leased EXCEPT ![service] = @ \cup {r}]
  /\ pc' = [pc EXCEPT ![r] = "calling"]
  /\ UNCHANGED <<hung, todo, reply, callbacks, successes, failures>>

Released(r) == leased' = [leased EXCEPT ![Head(todo[r])] = @ \ {r}]

(* The service answers: the task goes on, or the answer ends it.              *)
Answer(r) ==
  /\ pc[r] = "calling" /\ Head(todo[r]) \notin hung
  /\ \E rest \in {Tail(todo[r]), <<>>} : Continue(r, rest)
  /\ Released(r)
  /\ UNCHANGED <<hung, reply, successes, failures>>

(* Mutant of Break: the connection is not given back.                        *)
BreakLeaks(r) ==
  /\ pc[r] = "calling"
  /\ Continue(r, <<>>)
  /\ UNCHANGED <<hung, leased, reply, successes, failures>>

(* Mutant of Break: the exception reaches the container.                      *)
BreakRaised(r) ==
  /\ pc[r] = "calling"
  /\ pc' = [pc EXCEPT ![r] = "done"]
  /\ reply' = [reply EXCEPT ![r] = "error"]
  /\ Released(r)
  /\ UNCHANGED <<hung, todo, callbacks, successes, failures>>

(* The connection breaks: an exception, which becomes an answer.              *)
Break(r) ==
  /\ pc[r] = "calling"
  /\ Continue(r, <<>>)
  /\ Released(r)
  /\ UNCHANGED <<hung, reply, successes, failures>>

(* Cassandra answers, or its driver gives up.                                *)
Stored(r) ==
  /\ pc[r] = "storing"
  /\ \E rest \in {Tail(todo[r]), <<>>} : Continue(r, rest)
  /\ UNCHANGED <<hung, leased, reply, successes, failures>>

(* Mutant of Respond: the result is written also after a timeout.             *)
RespondAgain(r) ==
  /\ pc[r] = "ended"
  /\ pc' = [pc EXCEPT ![r] = "done"]
  /\ reply' = [reply EXCEPT ![r] = "result"]
  /\ UNCHANGED <<hung, todo, leased, callbacks, successes, failures>>

Respond(r) ==
  /\ pc[r] = "ended"
  /\ pc' = [pc EXCEPT ![r] = "done"]
  /\ reply' = [reply EXCEPT ![r] = IF @ = "none" THEN "result" ELSE @]
  /\ UNCHANGED <<hung, todo, leased, callbacks, successes, failures>>

(* Only an asynchronous request is timed.                                    *)
Timeout(r) ==
  /\ pc[r] \in {"storing", "ended"} /\ reply[r] = "none"
  /\ reply' = [reply EXCEPT ![r] = "timeout"]
  /\ UNCHANGED <<hung, pc, todo, leased, callbacks, successes, failures>>

(* Mutant of Count: a request that was timed out is not counted.              *)
CountReplied(r) ==
  /\ r \in callbacks
  /\ callbacks' = callbacks \ {r}
  /\ successes' = IF reply[r] = "timeout" THEN successes ELSE successes + 1
  /\ UNCHANGED <<hung, pc, todo, leased, reply, failures>>

(* By now every error has become an answer, so that the future has succeeded. *)
Count(r) ==
  /\ r \in callbacks
  /\ callbacks' = callbacks \ {r}
  /\ successes' = successes + 1
  /\ UNCHANGED <<hung, pc, todo, leased, reply, failures>>

Next ==
  \E r \in Requests :
    \/ Arrive(r) \/ Refuse(r) \/ Start(r)
    \/ Lease(r) \/ Answer(r) \/ Break(r) \/ Stored(r)
    \/ Respond(r) \/ Timeout(r) \/ Count(r)

Spec == Init /\ [][Next]_vars

(* Threads that are free take work, services that are not hung answer, the     *)
(* driver of Cassandra gives up in the end.                                  *)
FairSpec ==
  Spec /\ \A r \in Requests : /\ WF_vars(Start(r)) /\ WF_vars(Lease(r))
                              /\ WF_vars(Answer(r)) /\ WF_vars(Stored(r))
                              /\ WF_vars(Respond(r))

------------------------------------------------------------------------------
(* Properties                                                               *)

Asks(r, s) == \E k \in DOMAIN todo[r] : todo[r][k] = s

(* Requests on a thread that wait for, or on, a service that is hung.         *)
Stuck == {r \in OnThread : Head(todo[r]) \in hung}

(* A connection is held by exactly the requests that wait for an answer over  *)
(* it: on no path, also when a call fails or a key is asked for again, is one  *)
(* kept or given back early.                                                 *)
ConnectionsAccounted ==
  \A s \in Hosts : leased[s] = {r \in Requests : pc[r] = "calling" /\ Head(todo[r]) = s}

(* What r waits for is there.                                               *)
Unblocked(r) ==
  \/ pc[r] = "queued" /\ ThreadFree
  \/ pc[r] = "waiting" /\ Cardinality(leased[Head(todo[r])]) < Connections
  \/ pc[r] = "calling" /\ Head(todo[r]) \notin hung
  \/ pc[r] \in {"storing", "ended"}

(* Threads and connections never wait for each other in a circle: behind every *)
(* request that waits for a connection to a service that is not hung is one    *)
(* to the same service that can go on, and behind every request in the queue,  *)
(* as long as not all threads are stuck, one whose thread can.                *)
NoGridlock ==
  \A r \in Requests :
    /\ pc[r] = "waiting" /\ Head(todo[r]) \notin hung =>
         \E q \in OnThread : Head(todo[q]) = Head(todo[r]) /\ Unblocked(q)
    /\ pc[r] = "queued" /\ Cardinality(Stuck) < Threads =>
         Unblocked(r) \/ \E q \in OnThread \ Stuck : Unblocked(q)

(* A service that hangs harms nobody who does not ask it, as long as it has   *)
(* not taken all threads; if no service hangs, everyone is answered.          *)
ServedUnlessStarved ==
  \A r \in Requests :
    pc[r] = "queued" /\ ~(\E s \in hung : Asks(r, s))
      ~> reply[r] # "none" \/ Cardinality(Stuck) = Threads

(* The counter of successes counts tasks that have ended, in whatever way,    *)
(* each once, also one whose client has been told of a timeout, and no caller  *)
(* that was refused; the counter of failures counts nothing.                  *)
CountersCountTasks ==
  /\ failures = 0
  /\ successes + Cardinality(callbacks)
       = Cardinality({r \in Requests : pc[r] \in {"ended", "done"} /\ reply[r] # "refused"})

------------------------------------------------------------------------------
(* The course of a request; one that is queued has all of it before it.       *)

coursePhase(r) ==
  CASE pc[r] \in {"away", "done"} -> "free"
    [] pc[r] \in {"queued", "waiting", "calling"} -> "blocking"
    [] pc[r] = "storing" -> "deferred"
    [] OTHER -> "ended"

courseLeft(r) ==
  CASE pc[r] = "queued" -> Len(todo[r]) + 1
    [] pc[r] \in {"waiting", "calling", "storing"} -> Len(todo[r])
    [] OTHER -> 0

courseAnswer(r) ==
  CASE reply[r] = "none" -> "nobody"
    [] reply[r] = "timeout" -> "container"
    [] OTHER -> "manager"

Course == INSTANCE RequestCourse WITH
            Slots    <- Requests,
            MaxTurns <- Len(Inserts) + 3,
            phase    <- [r \in Requests |-> coursePhase(r)],
            left     <- [r \in Requests |-> courseLeft(r)],
            answer   <- [r \in Requests |-> courseAnswer(r)]

(* Requests that share threads and connections keep the course TokenService    *)
(* gives them: none asks over HTTP once Cassandra has called it back, so that  *)
(* only threads of the servlet block, and none is answered twice.              *)
ImplementsCourse == Course!CourseSpec
=============================================================================
