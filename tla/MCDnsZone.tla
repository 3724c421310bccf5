----------------------------- MODULE MCDnsZone -----------------------------
(* DnsZone for TLC.  Three requests are a sync and two that meet it, or a   *)
(* create, a change of the record and a sync; two domains share the zone.   *)
(* The payloads differ in everything a row can get wrong: the content, the  *)
(* proxy flag and a priority that is given or left out.                     *)
EXTENDS DnsZone, TLC

CONSTANTS c1, c2
MCContents == {c1, c2}
MCPayloads == {[content |-> c1, proxied |-> FALSE, priority |-> 10],
               [content |-> c2, proxied |-> TRUE, priority |-> 0]}
AllFaults == FaultKinds
Symmetric == Permutations(Requests) \cup Permutations(Domains)
=============================================================================
