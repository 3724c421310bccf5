-------------------------- MODULE MCMailAccounts ---------------------------
(* MailAccounts for TLC: two addresses of one domain, so that each is the   *)
(* other's neighbour in every file, in tables that already hold any rows:   *)
(* two requests are then two edits, two appends or one of each, on files    *)
(* with lines to lose.                                                      *)
EXTENDS MailAccounts, TLC

CONSTANT d1
MCDomains == {d1}
MCDomainOf == [a \in Addresses |-> d1]
AllFaults == FaultKinds
Symmetric == Permutations(Addresses) \cup Permutations(Values) \cup Permutations(Requests)
=============================================================================
