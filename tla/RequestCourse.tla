----------------------------- MODULE RequestCourse -----------------------------
(****************************************************************************)
(* What every request to the token manager goes through, whatever it asks     *)
(* for and however many run beside it. It first holds a thread, on which it    *)
(* asks services over HTTP; then it gives the thread back and Cassandra is     *)
(* asked. It does not return from the second part to the first, the turns it   *)
(* has left only get fewer, and its client is answered once. The timer of the  *)
(* container runs only when the thread has been given back.                   *)
(*                                                                          *)
(* TokenService and RequestPool are two views of the same requests: one has    *)
(* what they do, the other what they share. Both are courses of this kind.     *)
(****************************************************************************)
EXTENDS Integers

CONSTANTS
  Slots,      \* requests that may be in progress together
  MaxTurns    \* turns the longest task takes

VARIABLES
  phase,      \* where each request is
  left,       \* turns its task has left at most
  answer      \* who has answered its client

course == <<phase, left, answer>>

CourseInit ==
  /\ phase = [r \in Slots |-> "free"]
  /\ left = [r \in Slots |-> 0]
  /\ answer = [r \in Slots |-> "nobody"]

Enters(r, phases) == \E p \in phases : phase' = [phase EXCEPT ![r] = p]
LeftWith(r, turns) == \E n \in turns : left' = [left EXCEPT ![r] = n]
Answered(r, by) == answer' = [answer EXCEPT ![r] = by]

Free(r, by) == Enters(r, {"free"}) /\ LeftWith(r, {0}) /\ Answered(r, by)

(* A request is accepted, with a task or with its result already.             *)
Accept(r) ==
  /\ phase[r] = "free"
  /\ Enters(r, {"blocking", "deferred", "ended"})
  /\ LeftWith(r, 0 .. MaxTurns)
  /\ Answered(r, "nobody")

(* The servlet refuses a request before there is a task.                      *)
Reject(r) == phase[r] \in {"free", "blocking"} /\ Free(r, "manager")

(* The phases a task may be in after one it is in.                           *)
Onward(p) == IF p = "blocking" THEN {"blocking", "deferred", "ended"} ELSE {"deferred", "ended"}

Advance(r) ==
  /\ phase[r] \in {"blocking", "deferred"}
  /\ Enters(r, Onward(phase[r]))
  /\ LeftWith(r, 0 .. left[r] - 1)
  /\ UNCHANGED answer

Reply(r) ==
  /\ phase[r] = "ended"
  /\ Free(r, IF answer[r] = "nobody" THEN "manager" ELSE answer[r])

TimeOut(r) ==
  /\ phase[r] \in {"deferred", "ended"} /\ answer[r] = "nobody"
  /\ Answered(r, "container")
  /\ UNCHANGED <<phase, left>>

(* The process dies, and is started again.                                   *)
Die == CourseInit'

CourseNext ==
  \/ \E r \in Slots : Accept(r) \/ Reject(r) \/ Advance(r) \/ Reply(r) \/ TimeOut(r)
  \/ Die

CourseSpec == CourseInit /\ [][CourseNext]_course
=============================================================================
