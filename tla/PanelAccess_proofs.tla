------------------------- MODULE PanelAccess_proofs -------------------------
(***************************************************************************)
(* For every set of accounts and wizard requests, every token lifetime and *)
(* every bound on a login: the four invariants of PanelAccess.             *)
(***************************************************************************)
EXTENDS PanelAccess, FiniteSetTheorems, TLAPS

\* Only step 2 makes an account, and step 8 never reaches AdvanceStep.
Labels ==
  \A w \in Wizards :
    /\ pc[w] \in {"check", "create"} => nth[w] = 2
    /\ pc[w] = "advance" => nth[w] \in 1 .. 7

\* Whoever is an active super admin now has no afterglow, and a login that is under way
\* holds a role no older than the login.
Glow ==
  /\ \A a \in Accounts : a \in InPower => afterglow[a] = 0
  /\ \A l \in login : afterglow[l[1]] <= l[2]
  /\ PowerFades

\* Before the end of the setup nobody can change a role, so what the wizard made
\* is still a super admin.
Before ==
  /\ OnlyTheWizardBefore
  /\ ~complete => \A a \in made : role[a] = "super_admin"

\* Unless raced, one request at a time is in step 2, none after the end of the
\* setup, and it goes on to create only if nothing was created.
Alone ==
  /\ \A v, w \in Wizards : InStep2(v) /\ InStep2(w) => v = w
  /\ \A w \in Wizards : InStep2(w) => ~complete
  /\ \A w \in Wizards : pc[w] = "create" => made = {}
  /\ \A a, b \in made : a = b
Single == raced \/ Alone

IInv == TypeOK /\ Labels /\ Glow /\ Before /\ Single

-----------------------------------------------------------------------------

\* An empty users table, a wizard at its start and nobody logged in.
LEMMA InitHolds == Init => IInv
<1> SUFFICES ASSUME Init PROVE IInv
  OBVIOUS
<1> USE AccessAssumption
    DEF AccessAssumption, Init, Roles, Fade, Expired
<1>1. TypeOK
  <2>1. session \in [Accounts -> Expired .. Life] /\ afterglow \in [Accounts -> 0 .. Fade + 1]
    OBVIOUS
  <2>2. role \in [Accounts -> Roles \cup {None}] /\ complete \in BOOLEAN /\ raced \in BOOLEAN
    OBVIOUS
  <2>3. pc \in [Wizards -> {"idle", "done"} \cup InFlight] /\ nth \in [Wizards -> Steps \cup {0}]
    OBVIOUS
  <2>4. QED
    BY <2>1, <2>2, <2>3 DEF TypeOK
<1>2. Labels /\ Glow /\ Before
  BY DEF Labels, Glow, InPower, SuperAdmins, PowerFades, Before, OnlyTheWizardBefore, Exists
<1>3. Single
  BY DEF Single, Alone, InStep2
<1>4. QED
  BY <1>1, <1>2, <1>3 DEF IInv

\* The step of a request is 1 to 8, and only 1 to 7 reach AdvanceStep.
LEMMA TypeStep == ASSUME TypeOK, Labels, [Next]_vars PROVE TypeOK' /\ Labels'
<1> USE AccessAssumption
    DEF AccessAssumption, TypeOK, Labels, users, setup, Goto, Return, InFlight
<1>1. ASSUME NEW w \in Wizards, NEW n \in Steps, Admit(w, n) PROVE TypeOK' /\ Labels'
  BY <1>1 DEF Admit, FirstStatement
<1>2. ASSUME NEW w \in Wizards, TurnAway(w) \/ Invalid(w) PROVE TypeOK' /\ Labels'
  BY <1>2 DEF TurnAway, Invalid
<1>3. ASSUME NEW w \in Wizards, CheckNoSuperAdmin(w) PROVE TypeOK' /\ Labels'
  BY <1>3, ZenonT(60) DEF CheckNoSuperAdmin, NextIf
<1>4. ASSUME NEW w \in Wizards, CreateSuperAdmin(w) PROVE TypeOK' /\ Labels'
  BY <1>4 DEF CreateSuperAdmin, NewRow, Fade, Roles
<1>5. ASSUME NEW w \in Wizards, Advance(w) PROVE TypeOK' /\ Labels'
  BY <1>5 DEF Advance
<1>6. ASSUME NEW w \in Wizards, Finalize(w) PROVE TypeOK' /\ Labels'
  BY <1>6 DEF Finalize
<1>7. CASE Login
  BY <1>7 DEF Login, LoginRead, LoginIssue, LoginFails, Expired
<1>8. ASSUME NEW t \in Accounts, Users(t) PROVE TypeOK' /\ Labels'
  BY <1>8 DEF Users, AddUser, UpdateUser, DeleteUser, SaveUsers, InPower, Roles, Fade
<1>9. CASE Tick
  BY <1>9 DEF Tick, Fade, Expired
<1>10. CASE Restart
  BY <1>10 DEF Restart
<1>11. CASE UNCHANGED vars
  BY <1>11 DEF vars
<1>12. QED
  BY <1>1, <1>2, <1>3, <1>4, <1>5, <1>6, <1>7, <1>8, <1>9, <1>10, <1>11 DEF Next, Wizard

\* A token carries a role that was read at most MaxLogin ticks before it was
\* issued, and its time runs out while the afterglow grows.
LEMMA GlowStep == ASSUME TypeOK, Glow, [Next]_vars PROVE Glow'
<1> USE AccessAssumption
    DEF AccessAssumption, TypeOK, Glow, InPower, SuperAdmins, PowerFades, users, setup, Fade, Expired
<1>1. CASE UNCHANGED <<users, session, login, afterglow>>
  BY <1>1
<1>2. ASSUME NEW w \in Wizards, CreateSuperAdmin(w) PROVE Glow'
  BY <1>2 DEF CreateSuperAdmin, NewRow
<1>3. ASSUME NEW a \in Accounts, LoginRead(a) PROVE Glow'
  BY <1>3 DEF LoginRead
<1>4. ASSUME NEW l \in login, LoginIssue(l) \/ LoginFails(l) PROVE Glow'
  BY <1>4 DEF LoginIssue, LoginFails
<1>5. ASSUME NEW t \in Accounts, Users(t) PROVE Glow'
  <2>1. PICK a \in Accounts :
          \/ \E r \in Roles : AddUser(t, a, r) \/ \E on \in BOOLEAN : UpdateUser(t, a, r, on)
          \/ \E text \in Texts : DeleteUser(t, a, text)
    BY <1>5 DEF Users
  <2>2. ASSUME NEW r \in Roles, AddUser(t, a, r) PROVE Glow'
    BY <2>2 DEF AddUser, SaveUsers
  <2>3. ASSUME NEW r \in Roles, NEW on \in BOOLEAN, UpdateUser(t, a, r, on) PROVE Glow'
    BY <2>3 DEF UpdateUser, SaveUsers
  <2>4. ASSUME NEW text \in Texts, DeleteUser(t, a, text) PROVE Glow'
    BY <2>4 DEF DeleteUser, SaveUsers
  <2>5. QED
    BY <2>1, <2>2, <2>3, <2>4
<1>6. CASE Tick
  BY <1>6 DEF Tick
<1>7. CASE Restart
  BY <1>7 DEF Restart
<1>8. QED
  BY <1>1, <1>2, <1>3, <1>4, <1>5, <1>6, <1>7
     DEF Next, Wizard, Login, Admit, TurnAway, Invalid, CheckNoSuperAdmin, Advance,
         Finalize, vars

\* The users routes are closed until the setup is done.
LEMMA BeforeStep == ASSUME TypeOK, Before, [Next]_vars PROVE Before'
<1> USE DEF TypeOK, Before, OnlyTheWizardBefore, Exists, users, setup
<1>1. CASE UNCHANGED <<users, complete, made>>
  BY <1>1
<1>2. ASSUME NEW w \in Wizards, CreateSuperAdmin(w) PROVE Before'
  BY <1>2 DEF CreateSuperAdmin, NewRow
<1>3. ASSUME NEW w \in Wizards, Finalize(w) PROVE Before'
  BY <1>3 DEF Finalize
<1>4. ASSUME NEW t \in Accounts, Users(t) PROVE Before'
  <2>1. complete /\ UNCHANGED complete
    BY <1>4 DEF Users, AddUser, UpdateUser, DeleteUser, Authorised
  <2>2. QED
    BY <2>1
<1>5. QED
  BY <1>1, <1>2, <1>3, <1>4
     DEF Next, Wizard, Admit, TurnAway, Invalid, CheckNoSuperAdmin, Advance, Login,
         LoginRead, LoginIssue, LoginFails, Tick, Restart, vars

\* A rival of a step 2 sets raced when it enters; what one made before the end
\* of the setup is still there for the next to find.
LEMMA SingleStep == ASSUME TypeOK, Labels, Before, Single, [Next]_vars PROVE Single'
<1> SUFFICES ASSUME ~raced' PROVE Alone'
  BY DEF Single
<1> USE DEF TypeOK, Alone, Goto, Return, InStep2, users, setup
<1>1. ~raced /\ Alone
  BY DEF Single, Next, Wizard, Admit, TurnAway, Invalid, CheckNoSuperAdmin,
         CreateSuperAdmin, Advance, Finalize, Login, LoginRead, LoginIssue, LoginFails,
         Users, AddUser, UpdateUser, DeleteUser, Tick, Restart, vars
<1>2. ASSUME NEW w \in Wizards, NEW n \in Steps, Admit(w, n) PROVE Alone'
  BY <1>1, <1>2 DEF Admit, FirstStatement
<1>3. ASSUME NEW w \in Wizards, TurnAway(w) \/ Invalid(w) \/ Advance(w) PROVE Alone'
  BY <1>1, <1>3 DEF TurnAway, Invalid, Advance
<1>4. ASSUME NEW w \in Wizards, CheckNoSuperAdmin(w) PROVE Alone'
  BY <1>1, <1>4 DEF CheckNoSuperAdmin, NextIf, SuperAdmins, Before
<1>5. ASSUME NEW w \in Wizards, CreateSuperAdmin(w) PROVE Alone'
  BY <1>1, <1>5 DEF CreateSuperAdmin, NewRow
<1>6. ASSUME NEW w \in Wizards, Finalize(w) PROVE Alone'
  BY <1>1, <1>6 DEF Finalize
<1>7. CASE Restart
  BY <1>1, <1>7 DEF Restart, InFlight
<1>8. CASE UNCHANGED <<complete, pc, made>>
  BY <1>1, <1>8
<1>9. QED
  BY <1>2, <1>3, <1>4, <1>5, <1>6, <1>7, <1>8
     DEF Next, Wizard, Login, LoginRead, LoginIssue, LoginFails, Users, AddUser,
         UpdateUser, DeleteUser, Tick, vars

\* The inductive invariant holds always.
LEMMA Invariance == Spec => []IInv
<1>1. IInv /\ [Next]_vars => IInv'
  BY TypeStep, GlowStep, BeforeStep, SingleStep DEF IInv
<1>2. QED
  BY InitHolds, <1>1, PTL DEF Spec

-----------------------------------------------------------------------------

\* The wizard, the accounts, the tokens and the clocks keep their ranges
\* (setup/service.go:42-51, users/service.go:20-86).
THEOREM AccessTypeCorrect == Spec => []TypeOK
<1>1. IInv => TypeOK
  BY DEF IInv
<1>2. QED
  BY <1>1, Invariance, PTL

\* Until the setup is done, every account is an active super admin that the
\* wizard made (router.go:59-89).
THEOREM OnlyTheWizardBeforeHolds == Spec => []OnlyTheWizardBefore
<1>1. IInv => OnlyTheWizardBefore
  BY DEF IInv, Before
<1>2. QED
  BY <1>1, Invariance, PTL

\* However its steps are stopped, repeated and reordered, the wizard makes one
\* super admin, unless two step 2 overlap, one overlaps the end of the setup, or
\* a read fails (setup/handler.go:79-117).
THEOREM OneWizardAdminHolds == Spec => []OneWizardAdmin
<1>1. IInv => OneWizardAdmin
  <2>1. CASE made = {}
    BY <2>1, FS_EmptySet DEF OneWizardAdmin
  <2>2. ASSUME IInv, ~raced, NEW a \in made PROVE OneWizardAdmin
    <3>1. made = {a}
      BY <2>2 DEF IInv, Single, Alone
    <3>2. QED
      BY <3>1, FS_Singleton DEF OneWizardAdmin
  <2>3. QED
    BY <2>1, <2>2 DEF OneWizardAdmin
<1>2. QED
  BY <1>1, Invariance, PTL

\* A demoted, disabled or deleted super admin acts as one for no longer than a token lives
\* and a login takes (auth/service.go:43-61, auth/handler.go:39-66).
THEOREM PowerFadesHolds == Spec => []PowerFades
<1>1. IInv => PowerFades
  BY DEF IInv, Glow
<1>2. QED
  BY <1>1, Invariance, PTL
=============================================================================
