--------------------------- MODULE MCServiceLifecycle ---------------------------
(* Instances of the life cycle for TLC.                                       *)
EXTENDS ServiceLifecycle

CONSTANTS p1, p2

(* All clients but the second have secrets with one pointer.                 *)
SharedPointer == [i \in Clients |-> IF i = 2 THEN p2 ELSE p1]
OwnPointer == [i \in Clients |-> p1]
=============================================================================
