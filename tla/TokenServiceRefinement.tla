------------------------- MODULE TokenServiceRefinement ------------------------
(****************************************************************************)
(* The token service keeps two promises. The ledger is about tokens: a       *)
(* signed token is issued, a row in the table recorded, a deleted one        *)
(* revoked, and what a reply contained disclosed. The course is about         *)
(* requests: what waits for a service asked over HTTP blocks its thread, what  *)
(* waits for Cassandra does not.                                             *)
(****************************************************************************)
EXTENDS TokenService

Ledger == INSTANCE TokenLedger WITH
            Owners    <- Tenants,
            issued    <- [i \in Ids |-> tokens[i].ownerId],
            recorded  <- rows,
            revoked   <- erased,
            disclosed <- delivered

(* The service with its replicas, retries, timeouts and crashes implements   *)
(* the ledger.                                                               *)
ImplementsLedger == Ledger!LedgerSpec

------------------------------------------------------------------------------
(* Between two inserts a task goes on where Cassandra has called it back.     *)
coursePhase(r) ==
  CASE pc[r] \in {"idle", "done"} -> "free"
    [] pc[r] \in {"groups", "key", "keyAgain", "device"} -> "blocking"
    [] pc[r] = "mint" -> IF made[r] = <<>> THEN "blocking" ELSE "deferred"
    [] pc[r] \in {"insert", "read", "erase"} -> "deferred"
    [] OTHER -> "ended"

(* A token is signed and inserted in two turns; the first attempt at a key     *)
(* may be followed by a second.                                              *)
missing(r) == needed(call[r]) - Len(made[r])

courseLeft(r) ==
  CASE pc[r] \in {"idle", "done", "respond"} -> 0
    [] pc[r] = "insert" -> 2 * missing(r) + 1
    [] pc[r] = "mint" -> 2 * missing(r)
    [] pc[r] \in {"groups", "keyAgain"} -> 2 * missing(r) + 1
    [] pc[r] = "key" -> 2 * missing(r) + 2
    [] OTHER -> 1

courseAnswer(r) ==
  CASE reply[r] = NoAnswer -> "nobody"
    [] reply[r].status = 504 -> "container"
    [] OTHER -> "manager"

Course == INSTANCE RequestCourse WITH
            Slots    <- Requests,
            MaxTurns <- 2 * Len(BootstrapScopes) + 2,
            phase    <- [r \in Requests |-> coursePhase(r)],
            left     <- [r \in Requests |-> courseLeft(r)],
            answer   <- [r \in Requests |-> courseAnswer(r)]

(* Whatever its endpoint, a request asks over HTTP before it asks Cassandra    *)
(* and never again, has a bounded number of turns, also when a signature is    *)
(* checked twice, and is answered once, by the manager or by the container,    *)
(* whose timer runs only once the thread is given back.                       *)
ImplementsCourse == Course!CourseSpec
=============================================================================
