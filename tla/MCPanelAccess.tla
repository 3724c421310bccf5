--------------------------- MODULE MCPanelAccess ---------------------------
(* PanelAccess for TLC.  Three wizard requests are two rival step 2's and   *)
(* the request that ends the setup; steps 3 to 7 differ only in their       *)
(* number, so one of them stands for all.  Two accounts delete and demote   *)
(* one another.  A token lives one tick and a login may straddle one, so    *)
(* that a token can be issued, and used, for a row that is already gone.    *)
EXTENDS PanelAccess, TLC

Symmetric == Permutations(Accounts) \cup Permutations(Wizards)
=============================================================================
