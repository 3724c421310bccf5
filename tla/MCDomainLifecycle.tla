------------------------- MODULE MCDomainLifecycle -------------------------
(* DomainLifecycle for TLC: one name (names share nothing but proxy.type)  *)
(* and three requests, every fault and setting change allowed.             *)
EXTENDS DomainLifecycle, TLC

AllFaults == FaultKinds
ProxySettings == {"", "nginx", "apache"}
RequestSymmetry == Permutations(Requests)
=============================================================================
