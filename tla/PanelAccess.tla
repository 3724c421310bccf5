---------------------------- MODULE PanelAccess ----------------------------
(***************************************************************************)
(* Who may administer the panel: the setup wizard (internal/setup), the    *)
(* users table (internal/users), login and JWT (internal/auth) and the     *)
(* middleware chain that internal/router puts before them.                 *)
(*                                                                         *)
(* A wizard request passes SetupNotCompleteMiddleware and then takes a few *)
(* statements; other requests interleave with it.  The users routes check  *)
(* the claims of the token only and then run one statement, which reads    *)
(* nothing: they are one step.                                             *)
(*                                                                         *)
(* An account is its id, used once.  Its username and email are not        *)
(* modelled: a creation may always find them taken if an account exists.   *)
(***************************************************************************)
EXTENDS Integers, FiniteSets

CONSTANTS
  Accounts,  \* ids of the rows users will ever have
  Wizards,   \* every request ever sent to POST /setup/step/:n
  Steps,     \* the values of n they are sent with
  None,      \* no row with this id
  Life,      \* jwt expiryHrs, in ticks
  MaxLogin,  \* bound on the ticks between Login's read of the user and the token
  QueryFails \* whether statements on setup_state and users may fail

\* The other roles differ from viewer only in routes outside this module.
Roles == {"super_admin", "viewer"}

ASSUME AccessAssumption ==
  /\ None \notin Roles
  /\ Life \in Nat \ {0}
  /\ MaxLogin \in Nat
  /\ Steps \subseteq 1 .. 8
  /\ QueryFails \in BOOLEAN

VARIABLES
  role,      \* users: the role of each id, or None
  born,      \* users: ids ever handed out
  active,    \* users: ids with is_active
  complete,  \* setup_state: is_complete
  step,      \* setup_state: current_step
  session,   \* time left of the newest super_admin token of an id, Expired if none
  login,     \* logins that have read a super_admin row: <<id, ticks since>>
  pc,        \* the next statement of each wizard request, or "done"
  nth,       \* the step each wizard request is for, 0 before it is admitted
  made,      \* history: accounts created by the wizard
  raced,     \* history: step 2 was under way together with another step 2, with
             \* the end of the setup, or when a read failed
  afterglow  \* history: ticks since an id was an active super admin, up to Fade + 1

users == <<role, born, active>>
setup == <<complete, step>>
vars == <<users, setup, session, login, pc, nth, made, raced, afterglow>>

Expired == -1
Fade == Life + MaxLogin
InFlight == {"check", "create", "advance", "finalize"}

Exists(a) == role[a] # None
SuperAdmins == {a \in Accounts : role[a] = "super_admin"}
InPower == SuperAdmins \cap active
InStep2(w) == pc[w] \in {"check", "create"}

TypeOK ==
  /\ role \in [Accounts -> Roles \cup {None}]
  /\ born \subseteq Accounts
  /\ active \subseteq Accounts
  /\ complete \in BOOLEAN
  /\ step \in 0 .. 7
  /\ session \in [Accounts -> Expired .. Life]
  /\ login \subseteq Accounts \X (0 .. MaxLogin)
  /\ pc \in [Wizards -> {"idle", "done"} \cup InFlight]
  /\ nth \in [Wizards -> Steps \cup {0}]
  /\ made \subseteq Accounts
  /\ raced \in BOOLEAN
  /\ afterglow \in [Accounts -> 0 .. Fade + 1]

Init ==
  /\ role = [a \in Accounts |-> None]
  /\ born = {}
  /\ active = {}
  /\ complete = FALSE
  /\ step = 0
  /\ session = [a \in Accounts |-> Expired]
  /\ login = {}
  /\ pc = [w \in Wizards |-> "idle"]
  /\ nth = [w \in Wizards |-> 0]
  /\ made = {}
  /\ raced = FALSE
  /\ afterglow = [a \in Accounts |-> Fade + 1]

-----------------------------------------------------------------------------
(* The setup wizard                                                        *)

Goto(w, l) == pc' = [pc EXCEPT ![w] = l]
Return(w) == Goto(w, "done") /\ nth' = [nth EXCEPT ![w] = 0]
FirstStatement(n) == IF n = 2 THEN "check" ELSE IF n = 8 THEN "finalize" ELSE "advance"

\* SetupNotCompleteMiddleware and the switch of Step.  IsComplete answers false
\* when its query fails.
Admit(w, n) ==
  /\ pc[w] = "idle"
  /\ ~complete \/ QueryFails
  /\ nth' = [nth EXCEPT ![w] = n]
  /\ Goto(w, FirstStatement(n))
  /\ raced' = (raced \/ (n = 2 /\ (complete \/ \E q \in Wizards : InStep2(q))))
  /\ UNCHANGED <<users, setup, session, login, made, afterglow>>

TurnAway(w) ==
  /\ pc[w] = "idle"
  /\ complete
  /\ Goto(w, "done")
  /\ UNCHANGED <<users, setup, session, login, nth, made, raced, afterglow>>

\* A body that does not bind, or passwords that differ.
Invalid(w) ==
  /\ pc[w] \in {"check", "advance"}
  /\ nth[w] \notin {1, 8}
  /\ nth[w] = 2 => pc[w] = "check"
  /\ Return(w)
  /\ UNCHANGED <<users, setup, session, login, made, raced, afterglow>>

\* Step 2 goes on to create the account if ok holds.
NextIf(w, ok) == IF ok THEN Goto(w, "create") /\ UNCHANGED nth ELSE Return(w)

\* The wizard's own progress decides whether an account is to be made.
CheckProgress(w) ==
  /\ pc[w] = "check"
  /\ NextIf(w, step < 2)
  /\ UNCHANGED <<users, setup, session, login, made, raced, afterglow>>

\* CountSuperAdmins; the error of the query is dropped and leaves count = 0.
CheckNoSuperAdmin(w) ==
  /\ pc[w] = "check"
  /\ \/ NextIf(w, SuperAdmins = {}) /\ UNCHANGED raced
     \/ QueryFails /\ NextIf(w, TRUE) /\ raced' = TRUE
  /\ UNCHANGED <<users, setup, session, login, made, afterglow>>

\* usersSvc.Create: a new active row, or a name that is taken.
NewRow(a, r) ==
  /\ a \notin born
  /\ born' = born \cup {a}
  /\ role' = [role EXCEPT ![a] = r]
  /\ active' = active \cup {a}

CreateSuperAdmin(w) ==
  /\ pc[w] = "create"
  /\ \/ /\ \E a \in Accounts :
             /\ NewRow(a, "super_admin")
             /\ made' = made \cup {a}
             /\ afterglow' = [afterglow EXCEPT ![a] = 0]
        /\ Goto(w, "advance") /\ UNCHANGED nth
     \/ /\ QueryFails \/ \E a \in Accounts : Exists(a)
        /\ Return(w)
        /\ UNCHANGED <<users, made, afterglow>>
  /\ UNCHANGED <<setup, session, login, raced>>

\* current_step is taken for the step to do next.
AdvanceToNext(w) ==
  /\ pc[w] = "advance"
  /\ step' = IF step <= nth[w] THEN nth[w] + 1 ELSE step
  /\ Return(w)
  /\ UNCHANGED <<users, complete, session, login, made, raced, afterglow>>

\* AdvanceStep: current_step only grows.  A failure is reported or dropped.
Advance(w) ==
  /\ pc[w] = "advance"
  /\ \/ step' = IF step < nth[w] THEN nth[w] ELSE step
     \/ QueryFails /\ UNCHANGED step
  /\ Return(w)
  /\ UNCHANGED <<users, complete, session, login, made, raced, afterglow>>

\* Step 8 asks for none of the others to be done.
Finalize(w) ==
  /\ pc[w] = "finalize"
  /\ complete' = TRUE \/ (QueryFails /\ UNCHANGED complete)
  /\ Return(w)
  /\ raced' = (raced \/ \E q \in Wizards : InStep2(q))
  /\ UNCHANGED <<users, step, session, login, made, afterglow>>

-----------------------------------------------------------------------------
(* Login                                                                   *)

\* FindByUsername, for the accounts whose token will open the users routes.
LoginRead(a) ==
  /\ role[a] = "super_admin"
  /\ a \in active
  /\ login' = login \cup {<<a, 0>>}
  /\ UNCHANGED <<users, setup, session, pc, nth, made, raced, afterglow>>

\* The password was right: GenerateToken with the role that was read.
LoginIssue(l) ==
  /\ login' = login \ {l}
  /\ session' = [session EXCEPT ![l[1]] = Life]
  /\ UNCHANGED <<users, setup, pc, nth, made, raced, afterglow>>

LoginFails(l) ==
  /\ login' = login \ {l}
  /\ UNCHANGED <<users, setup, session, pc, nth, made, raced, afterglow>>

-----------------------------------------------------------------------------
(* The users routes: SetupRequiredMiddleware, JWTMiddleware, RequireRole    *)

\* The token is enough.
AuthorisedByToken(t) == session[t] # Expired

\* The setup is done and the token of t names it a super admin.
Authorised(t) == complete /\ session[t] # Expired

\* The token is renewed by every use.
SaveUsersRenewing(t, r, on) ==
  /\ role' = r
  /\ active' = on
  /\ afterglow' = [a \in Accounts |-> IF a \in InPower' THEN 0 ELSE afterglow[a]]
  /\ session' = [session EXCEPT ![t] = Life]

\* A change of roles and of is_active by t.
SaveUsers(t, r, on) ==
  /\ role' = r
  /\ active' = on
  /\ afterglow' = [a \in Accounts |-> IF a \in InPower' THEN 0 ELSE afterglow[a]]
  /\ UNCHANGED session

AddUser(t, a, r) ==
  /\ Authorised(t)
  /\ a \notin born
  /\ born' = born \cup {a}
  /\ SaveUsers(t, [role EXCEPT ![a] = r], active \cup {a})
  /\ UNCHANGED <<setup, login, pc, nth, made, raced>>

\* Update of role and is_active, of one's own row too; existing tokens stay good.
UpdateUser(t, a, r, on) ==
  /\ Authorised(t)
  /\ Exists(a)
  /\ SaveUsers(t, [role EXCEPT ![a] = r], IF on THEN active \cup {a} ELSE active \ {a})
  /\ UNCHANGED <<born, setup, login, pc, nth, made, raced>>

\* An id as the token has it, or as uuid.Parse also accepts it: in capitals, in
\* braces, without dashes or as an urn.
Texts == {"canonical", "other"}

\* Delete of any account.  The id is compared with one's own as a text.
DeleteUser(t, a, text) ==
  /\ Authorised(t)
  /\ Exists(a)
  /\ <<a, text>> # <<t, "canonical">>
  /\ SaveUsers(t, [role EXCEPT ![a] = None], active \ {a})
  /\ UNCHANGED <<born, setup, login, pc, nth, made, raced>>

-----------------------------------------------------------------------------
(* The environment                                                         *)

\* Time passes; no login takes more than MaxLogin ticks.
Tick ==
  /\ \A l \in login : l[2] < MaxLogin
  /\ login' = {<<l[1], l[2] + 1>> : l \in login}
  /\ session' = [a \in Accounts |-> IF session[a] = Expired THEN Expired ELSE session[a] - 1]
  /\ afterglow' = [a \in Accounts |-> IF a \in InPower \/ afterglow[a] > Fade
                                      THEN afterglow[a] ELSE afterglow[a] + 1]
  /\ UNCHANGED <<users, setup, pc, nth, made, raced>>

\* The server restarts: tokens outlive it, requests do not.
Restart ==
  /\ pc' = [w \in Wizards |-> IF pc[w] \in InFlight THEN "done" ELSE pc[w]]
  /\ nth' = [w \in Wizards |-> 0]
  /\ login' = {}
  /\ UNCHANGED <<users, setup, session, made, raced, afterglow>>

Wizard(w) ==
  \/ \E n \in Steps : Admit(w, n)
  \/ TurnAway(w) \/ Invalid(w) \/ CheckNoSuperAdmin(w) \/ CreateSuperAdmin(w)
  \/ Advance(w) \/ Finalize(w)

Login ==
  \/ \E a \in Accounts : LoginRead(a)
  \/ \E l \in login : LoginIssue(l) \/ LoginFails(l)

Users(t) ==
  \E a \in Accounts :
    \/ \E r \in Roles : AddUser(t, a, r) \/ \E on \in BOOLEAN : UpdateUser(t, a, r, on)
    \/ \E text \in Texts : DeleteUser(t, a, text)

Next ==
  \/ \E w \in Wizards : Wizard(w)
  \/ Login
  \/ \E t \in Accounts : Users(t)
  \/ Tick
  \/ Restart

Spec == Init /\ [][Next]_vars

-----------------------------------------------------------------------------
(* Properties                                                              *)

\* Until the setup is done the wizard is the only way in: every account is an
\* active super admin that it made, although one can log in before
\* (router.go:59-89, middleware.go:57-78).
OnlyTheWizardBefore ==
  ~complete => \A a \in Accounts : Exists(a) => /\ a \in made
                                                /\ a \in active
                                                /\ role[a] = "super_admin"

\* The wizard makes one super admin at most, unless two step 2 overlap, one
\* overlaps the end of the setup, or a read fails: stopping and resuming the
\* wizard, in any order of its steps, makes no second one (handler.go:79-117).
OneWizardAdmin == Cardinality(made) <= 1 \/ raced

\* Tokens are not revoked, but an account that was demoted, disabled or deleted
\* acts as a super admin for no longer than a token lives and a login takes:
\* claims are read from the row once and their time runs out
\* (auth/service.go:43-61, auth/handler.go:39-66).
PowerFades ==
  \A a \in Accounts : session[a] # Expired => afterglow[a] <= Fade - session[a]
=============================================================================
