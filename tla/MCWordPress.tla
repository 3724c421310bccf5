---------------------------- MODULE MCWordPress ----------------------------
(* WordPress for TLC.  Two domains, for which sanitizeName gives the same   *)
(* user and two databases, as for two long names with one beginning: what   *)
(* befalls the one domain's user befalls the other's, while the tables of   *)
(* each can outlive the user.  Any two requests and the deletions of the    *)
(* domains overlap (Parallel = 2), and a third request comes after either.  *)
EXTENDS WordPress, TLC

CONSTANT Shared  \* the user

OwnDb == [d \in Domains |-> d]
SharedUser == [d \in Domains |-> Shared]

AllFaults == FaultKinds

\* Bound: an Install whose count has failed, so that it overlooks a row, is the
\* last request to be sent.
LastOverlooks ==
  \A r \in Requests : op[r] = "install" /\ seen[r] # None => \A q \in Requests : pc[q] # "idle"

Symmetric == Permutations(Requests) \cup Permutations(Domains)
=============================================================================
