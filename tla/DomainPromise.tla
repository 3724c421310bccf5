--------------------------- MODULE DomainPromise ---------------------------
(***************************************************************************)
(* What domain.Service promises its callers: a site is absent or live, one *)
(* request at a time builds or dismantles it, a build that fails leaves    *)
(* nothing, and nothing stays half-built.                                  *)
(***************************************************************************)
CONSTANT Names

VARIABLE site

TypeOK == site \in [Names -> {"absent", "building", "live", "dismantling"}]

Init == site = [n \in Names |-> "absent"]

Move(n, from, to) == site[n] = from /\ site' = [site EXCEPT ![n] = to]

Build(n) == Move(n, "absent", "building")
Built(n) == Move(n, "building", "live")
BuildFailed(n) == Move(n, "building", "absent")
Dismantle(n) == Move(n, "live", "dismantling")
Dismantled(n) == Move(n, "dismantling", "absent")

Finish(n) == Built(n) \/ BuildFailed(n) \/ Dismantled(n)
Next == \E n \in Names : Build(n) \/ Dismantle(n) \/ Finish(n)

Safety == Init /\ [][Next]_site
Spec == Safety /\ \A n \in Names : WF_site(Finish(n))
=============================================================================
