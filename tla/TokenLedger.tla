------------------------------ MODULE TokenLedger ------------------------------
(****************************************************************************)
(* What the token manager promises about tokens, whatever happens inside: a  *)
(* token is issued to an owner, recorded at most once, revoked only with its *)
(* owner's consent and then for good, and disclosed only after it was        *)
(* recorded. It abstracts from requests, replicas, services and time.        *)
(****************************************************************************)
EXTENDS Naturals, Sequences

CONSTANT Owners

VARIABLES
  issued,     \* the owner of each token, in the order of issuing
  recorded,   \* tokens in the owner's list
  revoked,    \* tokens the owner has withdrawn
  disclosed   \* tokens some client has seen

ledger == <<issued, recorded, revoked, disclosed>>

LedgerInit == issued = <<>> /\ recorded = {} /\ revoked = {} /\ disclosed = {}

Issue(o) ==
  /\ issued' = Append(issued, o)
  /\ UNCHANGED <<recorded, revoked, disclosed>>

Record(i) ==
  /\ i \in DOMAIN issued \ (recorded \cup revoked)
  /\ recorded' = recorded \cup {i}
  /\ UNCHANGED <<issued, revoked, disclosed>>

(* The owner may revoke a token before it is recorded; it then never is.     *)
Revoke(i) ==
  /\ i \in DOMAIN issued \ revoked
  /\ recorded' = recorded \ {i}
  /\ revoked' = revoked \cup {i}
  /\ UNCHANGED <<issued, disclosed>>

(* A client sees tokens of one owner at a time.                             *)
Disclose(S) ==
  /\ S \subseteq recorded \cup revoked
  /\ \A i, j \in S : issued[i] = issued[j]
  /\ disclosed' = disclosed \cup S
  /\ UNCHANGED <<issued, recorded, revoked>>

LedgerNext ==
  \/ \E o \in Owners : Issue(o)
  \/ \E i \in DOMAIN issued : Record(i) \/ Revoke(i)
  \/ \E S \in SUBSET DOMAIN issued : Disclose(S)

LedgerSpec == LedgerInit /\ [][LedgerNext]_ledger
=============================================================================
