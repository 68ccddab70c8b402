------------------------------ MODULE MCRequestPool ------------------------------
(* A small instance of the threads and connections.                          *)
EXTENDS RequestPool, TLC

CONSTANTS v1, c1, b1, l1

(* A verification, a creation, a bootstrap whose signature needs a second      *)
(* attempt, and a list.                                                      *)
OneOfEach ==
  {(v1 :> <<"console">>) @@ (c1 :> <<"console", "cassandra">>)
     @@ (b1 :> <<"identity", "identity">> \o Inserts) @@ (l1 :> <<"cassandra">>)}

(* Or a rush on the console: more verifications and creations than there are   *)
(* connections, beside a request that asks nobody.                           *)
Rush ==
  {(v1 :> <<"console">>) @@ (c1 :> <<"console", "cassandra">>)
     @@ (b1 :> <<"console">>) @@ (l1 :> <<>>)}

Mixed == OneOfEach \cup Rush

Authenticating == {c1, l1}
=============================================================================
