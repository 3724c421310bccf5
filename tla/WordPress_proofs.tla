-------------------------- MODULE WordPress_proofs --------------------------
(***************************************************************************)
(* For any domains, whatever names they share, any number of requests and  *)
(* every fault: the types of WordPress; that a site works unless a rival   *)
(* took something from it, and its row tells what it is unless a rival or  *)
(* a fault misled it; that databases and users are left behind only where  *)
(* NothingLeftBehind says so.                                              *)
(***************************************************************************)
EXTENDS WordPress, TLAPS

\* What a request keeps from its first command to its last.
kept == <<op, at, seen, want>>

\* The labels of each kind of request.
May(o) ==
  CASE o = "install" -> {"createdb"} \cup AfterDb \cup Dropping
    [] o = "uninstall" -> Dropping \cup {"rmfiles", "rmconfig", "delrow"}
    [] o = "update" -> {"update", "version", "storeversion"}
    [] o = "toggle" -> {"setdebug", "storedebug"}
    [] OTHER -> {"idle", "done"}

Labels ==
  \A r \in Requests :
    /\ pc[r] \in May(op[r])
    /\ op[r] # "none" => at[r] \in Domains
    /\ op[r] \in {"uninstall", "update", "toggle"} => seen[r] \in Ids

\* A row is stored by the last step of its Install, so no request that has read
\* a row will store it.
RowIds ==
  /\ \A d \in Domains : HasRow(d) /\ row[d].id \in Requests => pc[row[d].id] = "done"
  /\ \A r \in Requests : seen[r] \in Requests => pc[seen[r]] = "done"

\* The row of d counts until its Uninstall has come to one of the labels L.
Counts(d, L) ==
  /\ HasRow(d)
  /\ \A r \in Requests : op[r] = "uninstall" /\ at[r] = d /\ pc[r] \in L => seen[r] # row[d].id

HoldsDb == AfterDb \cup {"dropdb"}
HoldsUser == AfterUser \cup Dropping
PastUser == {"rmfiles", "rmconfig", "delrow"}
PastDb == PastUser \cup {"dropuser"}

\* Stronger than NothingLeftBehind, which lets a request answer for what it has
\* already dropped: somebody who will still drop it, or a row that counts.
DbHeld ==
  \A x \in Dbs : db[x] # None /\ x \notin strewn =>
    \/ \E r \in Requests : op[r] = "install" /\ pc[r] \in HoldsDb /\ DbOf[at[r]] = x
    \/ \E d \in Domains : DbOf[d] = x /\ Counts(d, PastDb)
UserHeld ==
  \A x \in Users : user[x] # None /\ x \notin strewn =>
    \/ \E r \in Requests : op[r] = "install" /\ pc[r] \in HoldsUser /\ UserOf[at[r]] = x
    \/ \E d \in Domains : UserOf[d] = x /\ Counts(d, PastUser)

\* An Install has seen a row only when the count of rows failed, and then the site
\* of that row counts as harmed.
Overlooked == \A r \in Requests : op[r] = "install" /\ seen[r] # None => seen[r] \in harmed

\* An Install that no rival has harmed finds what it has made, and unless one
\* misled it, has been told the release that is there.
AfterTables == {"readversion", "insert"}
Configured == {"install"} \cup AfterTables
Makes(r) ==
  /\ pc[r] \in AfterDb => db[Db(r)] # None
  /\ pc[r] \in AfterUser => user[User(r)] # None
  /\ pc[r] \in AfterFiles => core[at[r]] # 0
  /\ pc[r] \in Configured =>
       /\ user[User(r)] = r
       /\ config[at[r]] # None
       /\ config[at[r]].pass = r
       /\ r \notin unsure => ~config[at[r]].debug
  /\ pc[r] \in AfterTables =>
       /\ db[Db(r)] \in Ids
       /\ Db(r) \notin strewn => db[Db(r)] = r
  /\ pc[r] = "insert" /\ r \notin unsure => told[r] = core[at[r]]
Making == \A r \in Requests : op[r] = "install" /\ r \notin harmed => Makes(r)

\* A site that no rival has harmed has its own user and configuration.
Works(d) ==
  /\ core[d] # 0
  /\ user[UserOf[d]] = row[d].id
  /\ config[d] # None
  /\ config[d].pass = row[d].id
  /\ db[DbOf[d]] \in Ids
  /\ DbOf[d] \notin strewn => db[DbOf[d]] = row[d].id
Working == \A d \in Domains : HasRow(d) /\ row[d].id \notin harmed => Works(d)

\* Tables are those of an Install that will still drop them, or of a row that counts.
Owned ==
  \A x \in Dbs : db[x] \in Ids /\ x \notin strewn =>
    \/ \E r \in Requests : op[r] = "install" /\ pc[r] \in HoldsDb /\ DbOf[at[r]] = x /\ db[x] = r
    \/ \E d \in Domains : DbOf[d] = x /\ Counts(d, PastDb) /\ db[x] = row[d].id

\* A row's id is that of one domain, and so is what a request has read of it.
Places ==
  /\ \A d, e \in Domains : HasRow(d) /\ HasRow(e) /\ row[d].id = row[e].id => d = e
  /\ \A d \in Domains, r \in Requests : HasRow(d) /\ seen[r] = row[d].id => at[r] = d
  /\ \A d \in Domains, r \in Requests :
       HasRow(d) /\ row[d].id = First /\ at[r] = d /\ seen[r] # None => seen[r] = First

Sure(d) == HasRow(d) /\ row[d].id \notin harmed \cup unsure
VersionAgrees ==
  \A d \in Domains : Sure(d) =>
    /\ \A r \in Requests : pc[r] = "storeversion" /\ seen[r] = row[d].id => told[r] = core[d]
    /\ (~\E r \in Requests : pc[r] \in {"version", "storeversion"} /\ seen[r] = row[d].id)
         => row[d].version = core[d]
DebugAgrees ==
  \A d \in Domains : Sure(d) =>
    /\ \A r \in Requests : pc[r] = "storedebug" /\ seen[r] = row[d].id => config[d].debug = want[r]
    /\ (~\E r \in Requests : pc[r] = "storedebug" /\ seen[r] = row[d].id) => row[d].debug = config[d].debug

IInv ==
  /\ TypeOK /\ Labels /\ RowIds /\ DbHeld /\ UserHeld
  /\ Overlooked /\ Making /\ Working /\ Owned
  /\ Places /\ VersionAgrees /\ DebugAgrees

Assumptions ==
  /\ DOMAIN DbOf = Domains /\ DOMAIN UserOf = Domains
  /\ First \notin Requests /\ None \notin Ids
  /\ None \notin Rows /\ None \notin Configs /\ None \notin Domains
  /\ Empty \notin Ids /\ Empty # None

LEMMA Assumed == Assumptions
BY NameAssumption, IdAssumption, ValueAssumption
   DEF NameAssumption, IdAssumption, ValueAssumption, Assumptions

\* A domain's database and user have names.
LEMMA Names == \A d \in Domains : DbOf[d] \in Dbs /\ UserOf[d] \in Users
BY DEF Dbs, Users

-----------------------------------------------------------------------------
(* Control                                                                 *)

Control ==
  /\ pc \in [Requests -> {"idle", "done"} \cup InFlight]
  /\ op \in [Requests -> Ops]
  /\ at \in [Requests -> Domains \cup {None}]
  /\ seen \in [Requests -> Ids \cup {None}]
  /\ Labels

\* A command that comes next in the same request.
LEMMA GotoControl ==
  ASSUME Control, NEW r \in Requests, NEW l \in May(op[r]) \cap InFlight, Goto(r, l), UNCHANGED kept
  PROVE  Control'
BY DEF Control, Labels, Goto, locals, kept

LEMMA ReturnControl ==
  ASSUME Control, NEW r \in Requests, Return(r)
  PROVE  Control'
BY Assumed DEF Assumptions, Control, Labels, Return, Goto, May, Ops

\* Each command goes on to one of the same kind of request, or ends it.
LEMMA Onwards ==
  ASSUME Control, NEW r \in Requests,
         \/ Refused(r) \/ CreateDb(r) \/ CreateUser(r) \/ Grant(r) \/ Download(r) \/ Config(r)
         \/ CoreInstall(r) \/ InstallVersion(r) \/ Insert(r) \/ DropDb(r) \/ DropUser(r) \/ RemoveFiles(r)
         \/ RemoveConfig(r) \/ DeleteRow(r) \/ Upgrade(r) \/ ReadVersion(r) \/ StoreVersion(r) \/ SetDebug(r)
         \/ StoreDebug(r)
  PROVE  \/ Return(r)
         \/ \E l \in May(op[r]) \cap InFlight : Goto(r, l) /\ UNCHANGED kept
<1> DEFINE Goal == \/ Return(r)
                   \/ \E l \in May(op[r]) \cap InFlight : Goto(r, l) /\ UNCHANGED kept
<1>1. op[r] \in Ops /\ pc[r] \in May(op[r])
  BY DEF Control, Labels
<1> USE <1>1 DEF May, Ops, InFlight, AfterDb, AfterUser, AfterFiles, Dropping, Others, locals, kept
<1>2. CASE Refused(r) \/ Insert(r) \/ DeleteRow(r) \/ StoreVersion(r) \/ StoreDebug(r)
  BY <1>2 DEF Refused, Insert, DeleteRow, StoreVersion, StoreDebug
<1>3. CASE CreateDb(r)
  BY <1>3 DEF CreateDb
<1>4. CASE CreateUser(r)
  BY <1>4 DEF CreateUser
<1>5. CASE Grant(r)
  BY <1>5 DEF Grant
<1>6. CASE Download(r)
  BY <1>6 DEF Download, locals, kept
<1>7. CASE Config(r)
  BY <1>7 DEF Config
<1>8. CASE CoreInstall(r) \/ InstallVersion(r)
  BY <1>8 DEF CoreInstall, InstallVersion
<1>9. CASE DropDb(r)
  BY <1>9 DEF DropDb
<1>10. CASE DropUser(r)
  BY <1>10 DEF DropUser
<1>11. CASE RemoveFiles(r)
  BY <1>11 DEF RemoveFiles
<1>12. CASE RemoveConfig(r)
  BY <1>12 DEF RemoveConfig
<1>13. CASE Upgrade(r) \/ ReadVersion(r)
  BY <1>13 DEF Upgrade, ReadVersion
<1>14. CASE SetDebug(r)
  BY <1>14 DEF SetDebug
<1>15. QED
  BY <1>2, <1>3, <1>4, <1>5, <1>6, <1>7, <1>8, <1>9, <1>10, <1>11, <1>12, <1>13, <1>14

\* A request begins with the row that it has read.
LEMMA BeginControl ==
  ASSUME TypeOK, Control, NEW r \in Requests, NEW d \in Domains,
         \/ Install(r, d) \/ Uninstall(r, d) \/ UpdateCore(r, d)
         \/ \E w \in BOOLEAN : ToggleDebug(r, d, w)
  PROVE  Control'
<1>1. HasRow(d) => row[d].id \in Ids
  BY DEF TypeOK, HasRow, Rows
<1>2. PICK o \in {"install", "uninstall", "update", "toggle"}, l \in InFlight, i \in Ids \cup {None} :
        /\ l \in May(o)
        /\ o # "install" => i # None
        /\ Goto(r, l)
        /\ op' = [op EXCEPT ![r] = o]
        /\ at' = [at EXCEPT ![r] = d]
        /\ seen' = [seen EXCEPT ![r] = i]
  BY <1>1, Assumed
     DEF Assumptions, Install, InstallOpen, Uninstall, UpdateCore, ToggleDebug, Begin, May, InFlight,
              AfterDb, AfterUser, AfterFiles, Dropping, Others
<1>3. QED
  BY <1>2 DEF Control, Labels, Goto, Ops

\* A crash ends what is in flight; deletions do not touch the requests.
LEMMA ControlStep == ASSUME TypeOK, Control, [Next]_vars PROVE Control'
<1>1. CASE UNCHANGED <<pc, locals>>
  BY <1>1 DEF Control, Labels, locals, kept
<1>2. ASSUME NEW r \in Requests, Step(r) PROVE Control'
  BY <1>2, BeginControl, Onwards, GotoControl, ReturnControl DEF Step
<1>3. CASE Crash
  BY <1>3, Assumed DEF Crash, Control, Labels, Running, Assumptions, May, Ops
<1>4. QED
  BY <1>1, <1>2, <1>3 DEF Next, RemoveDomain, DropDomain, Quiet, vars

\* The value for WP_DEBUG.
LEMMA WantType ==
  ASSUME Control, want \in [Requests -> BOOLEAN], [Next]_vars
  PROVE  want' \in [Requests -> BOOLEAN]
<1> DEFINE Shape == \/ want' = want
                    \/ want' = [r \in Requests |-> FALSE]
                    \/ \E r \in Requests, w \in BOOLEAN : want' = [want EXCEPT ![r] = w]
<1>1. Shape
  <2>1. ASSUME NEW r \in Requests, Step(r) PROVE Shape
    <3>1. ASSUME Return(r) \/ UNCHANGED kept PROVE Shape
      BY <3>1 DEF Return, locals, kept
    <3>2. ASSUME NEW d \in Domains, NEW w \in BOOLEAN,
                 Install(r, d) \/ Uninstall(r, d) \/ UpdateCore(r, d) \/ ToggleDebug(r, d, w)
          PROVE Shape
      BY <3>2 DEF Install, InstallOpen, Uninstall, UpdateCore, ToggleDebug, Begin
    <3>3. QED
      BY <2>1, <3>1, <3>2, Onwards DEF Step
  <2>2. QED
    BY <2>1 DEF Next, RemoveDomain, DropDomain, Crash, Quiet, locals, kept, vars
<1>2. QED
  BY <1>1, Zenon

\* A request that is at work knows its domain, and the names that go with it.
LEMMA AtWork ==
  ASSUME Control, NEW r \in Requests, pc[r] \in InFlight
  PROVE  at[r] \in Domains /\ Db(r) \in Dbs /\ User(r) \in Users
<1>1. op[r] # "none"
  BY DEF Control, Labels, May, InFlight, AfterDb, AfterUser, AfterFiles, Dropping, Others
<1>2. at[r] \in Domains
  BY <1>1 DEF Control, Labels
<1>3. QED
  BY <1>2, Names DEF Db, User

\* The version that was told: the release in a web root.
LEMMA ToldType ==
  ASSUME TypeOK, Control, [Next]_vars
  PROVE  told' \in [Requests -> Releases]
<1> DEFINE Shape == \/ told' = told
                    \/ told' = [r \in Requests |-> 0]
                    \/ \E r \in Requests, v \in Releases : told' = [told EXCEPT ![r] = v]
<1>0. 0 \in Releases
  BY DEF Releases, Latest
<1>1. Shape
  <2>1. ASSUME NEW r \in Requests, Step(r) PROVE Shape
    <3>1. CASE InstallVersion(r) \/ ReadVersion(r)
      <4>1. at[r] \in Domains
        BY <3>1, AtWork DEF InstallVersion, ReadVersion, InFlight, AfterDb, AfterUser, AfterFiles, Others
      <4>2. core[at[r]] \in Releases
        BY <4>1 DEF TypeOK
      <4>3. QED
        BY <1>0, <3>1, <4>2 DEF InstallVersion, ReadVersion, Return
    <3>2. ASSUME Return(r) \/ UNCHANGED locals PROVE Shape
      BY <1>0, <3>2 DEF Return, locals
    <3>3. ASSUME NEW d \in Domains, NEW w \in BOOLEAN,
                 Install(r, d) \/ Uninstall(r, d) \/ UpdateCore(r, d) \/ ToggleDebug(r, d, w)
          PROVE Shape
      BY <3>3 DEF Install, InstallOpen, Uninstall, UpdateCore, ToggleDebug, Begin
    <3>4. ASSUME Refused(r) \/ CreateDb(r) \/ CreateUser(r) \/ Grant(r) \/ Download(r) \/ Config(r)
                 \/ CoreInstall(r) \/ Insert(r) \/ DropDb(r)
          PROVE Return(r) \/ UNCHANGED locals
      BY <3>4 DEF Refused, CreateDb, CreateUser, Grant, Download, Config, CoreInstall, Insert, DropDb
    <3>5. ASSUME DropUser(r) \/ RemoveFiles(r) \/ RemoveConfig(r) \/ DeleteRow(r) \/ Upgrade(r)
                 \/ StoreVersion(r) \/ SetDebug(r) \/ StoreDebug(r)
          PROVE Return(r) \/ UNCHANGED locals
      BY <3>5 DEF DropUser, RemoveFiles, RemoveConfig, DeleteRow, Upgrade, StoreVersion, SetDebug, StoreDebug
    <3>6. QED
      BY <2>1, <3>1, <3>2, <3>3, <3>4, <3>5 DEF Step
  <2>2. QED
    BY <2>1 DEF Next, RemoveDomain, DropDomain, Crash, Quiet, locals, vars
<1>2. told \in [Requests -> Releases]
  BY DEF TypeOK
<1>3. QED
  BY <1>0, <1>1, <1>2, Zenon

-----------------------------------------------------------------------------
(* The rows and the host                                                   *)

\* Which commands write what.
LEMMA Frames ==
  ASSUME NEW r \in Requests, Step(r)
  PROVE  /\ domain' = domain
         /\ row' = row \/ Insert(r) \/ DeleteRow(r) \/ StoreVersion(r) \/ StoreDebug(r)
         /\ core' = core \/ Download(r) \/ RemoveFiles(r) \/ Upgrade(r)
         /\ config' = config \/ Config(r) \/ RemoveFiles(r) \/ RemoveConfig(r) \/ SetDebug(r)
         /\ db' = db \/ CreateDb(r) \/ CoreInstall(r) \/ DropDb(r)
         /\ user' = user \/ CreateUser(r) \/ DropUser(r)
<1> DEFINE Goal == /\ domain' = domain
                   /\ row' = row \/ Insert(r) \/ DeleteRow(r) \/ StoreVersion(r) \/ StoreDebug(r)
                   /\ core' = core \/ Download(r) \/ RemoveFiles(r) \/ Upgrade(r)
                   /\ config' = config \/ Config(r) \/ RemoveFiles(r) \/ RemoveConfig(r) \/ SetDebug(r)
                   /\ db' = db \/ CreateDb(r) \/ CoreInstall(r) \/ DropDb(r)
                   /\ user' = user \/ CreateUser(r) \/ DropUser(r)
<1> USE DEF host
<1>1. ASSUME NEW d \in Domains, NEW w \in BOOLEAN,
             Install(r, d) \/ Uninstall(r, d) \/ UpdateCore(r, d) \/ ToggleDebug(r, d, w)
      PROVE Goal
  BY <1>1 DEF Install, InstallOpen, Uninstall, UpdateCore, ToggleDebug, Begin
<1>2. CASE Refused(r) \/ CreateDb(r) \/ CreateUser(r) \/ Grant(r)
  BY <1>2 DEF Refused, CreateDb, CreateUser, Grant
<1>3. CASE Download(r) \/ Config(r)
  BY <1>3 DEF Download, Config
<1>4. CASE CoreInstall(r) \/ InstallVersion(r) \/ Insert(r)
  BY <1>4 DEF CoreInstall, InstallVersion, Insert
<1>5. CASE DropDb(r) \/ DropUser(r) \/ RemoveFiles(r) \/ RemoveConfig(r)
  BY <1>5 DEF DropDb, DropUser, RemoveFiles, RemoveConfig
<1>6. CASE DeleteRow(r) \/ Upgrade(r) \/ ReadVersion(r) \/ StoreVersion(r)
  BY <1>6 DEF DeleteRow, Upgrade, ReadVersion, StoreVersion
<1>7. CASE SetDebug(r) \/ StoreDebug(r)
  BY <1>7 DEF SetDebug, StoreDebug
<1>8. QED
  BY <1>1, <1>2, <1>3, <1>4, <1>5, <1>6, <1>7 DEF Step

\* Rows are stored by Insert, changed by id, and deleted.
LEMMA RowType ==
  ASSUME TypeOK, Control, [Next]_vars
  PROVE  row' \in [Domains -> Rows \cup {None}]
<1> DEFINE Shape == row' = row \/ \E d \in Domains, x \in Rows \cup {None} : row' = [row EXCEPT ![d] = x]
<1>1. Shape
  <2>1. ASSUME NEW r \in Requests, Insert(r) PROVE Shape
    <3>1. at[r] \in Domains /\ told[r] \in Releases
      BY <2>1, AtWork DEF Insert, InFlight, AfterDb, AfterUser, AfterFiles, TypeOK
    <3>2. [id |-> r, debug |-> FALSE, version |-> told[r]] \in Rows
      BY <3>1 DEF Rows, Ids
    <3>3. QED
      BY <2>1, <3>1, <3>2 DEF Insert
  <2>2. ASSUME NEW r \in Requests, DeleteRow(r) PROVE Shape
    <3>1. at[r] \in Domains
      BY <2>2, AtWork DEF DeleteRow, InFlight, Others
    <3>2. QED
      BY <2>2, <3>1 DEF DeleteRow, TypeOK
  <2>3. ASSUME NEW r \in Requests, StoreVersion(r) PROVE Shape
    <3>1. at[r] \in Domains /\ told[r] \in Releases
      BY <2>3, AtWork DEF StoreVersion, InFlight, Others, TypeOK
    <3>2. HasRow(at[r]) => [row[at[r]] EXCEPT !.version = told[r]] \in Rows
      BY <3>1 DEF HasRow, TypeOK, Rows
    <3>3. QED
      BY <2>3, <3>1, <3>2 DEF StoreVersion, Changed, TypeOK
  <2>4. ASSUME NEW r \in Requests, StoreDebug(r) PROVE Shape
    <3>1. at[r] \in Domains /\ want[r] \in BOOLEAN
      BY <2>4, AtWork DEF StoreDebug, InFlight, Others, TypeOK
    <3>2. HasRow(at[r]) => [row[at[r]] EXCEPT !.debug = want[r]] \in Rows
      BY <3>1 DEF HasRow, TypeOK, Rows
    <3>3. QED
      BY <2>4, <3>1, <3>2 DEF StoreDebug, Changed, TypeOK
  <2>5. ASSUME NEW d \in Domains, RemoveDomain(d) \/ DropDomain(d) PROVE Shape
    BY <2>5 DEF RemoveDomain, DropDomain
  <2>6. QED
    BY <2>1, <2>2, <2>3, <2>4, <2>5, Frames DEF Next, Crash, Quiet, host, vars
<1>2. QED
  BY <1>1 DEF TypeOK

\* The domains, and what is in their web roots and in MySQL.
LEMMA HostType ==
  ASSUME TypeOK, Control, [Next]_vars
  PROVE  /\ domain' \in [Domains -> {"there", "going", "gone"}]
         /\ core' \in [Domains -> Releases]
         /\ config' \in [Domains -> Configs \cup {None}]
         /\ db' \in [Dbs -> Ids \cup {Empty, None}]
         /\ user' \in [Users -> Ids \cup {None}]
<1> USE DEF host
<1>1. domain' \in [Domains -> {"there", "going", "gone"}]
  BY Frames DEF TypeOK, Next, RemoveDomain, DropDomain, Crash, Quiet, vars
<1>2. core' \in [Domains -> Releases]
  <2>0. 0 \in Releases
    BY DEF Releases, Latest
  <2>1. ASSUME NEW r \in Requests, Step(r)
        PROVE  core' = core \/ \E d \in Domains, v \in Releases : core' = [core EXCEPT ![d] = v]
    <3>1. core' # core => at[r] \in Domains
      BY <2>1, Frames, AtWork
         DEF Download, RemoveFiles, Upgrade, InFlight, AfterDb, AfterUser, Others
    <3>2. core' = core \/ \E v \in Releases : core' = [core EXCEPT ![at[r]] = v]
      BY <2>0, <2>1, Frames DEF Download, RemoveFiles, Upgrade, Newest
    <3>3. QED
      BY <3>1, <3>2, <2>0
  <2>2. \A d \in Domains : RemoveDomain(d) \/ DropDomain(d) => core' = core \/ core' = [core EXCEPT ![d] = 0]
    BY DEF RemoveDomain, DropDomain
  <2>3. core' = core \/ \E d \in Domains, v \in Releases : core' = [core EXCEPT ![d] = v]
    BY <2>0, <2>1, <2>2 DEF Next, Crash, Quiet, vars
  <2>4. QED
    BY <2>3 DEF TypeOK
<1>3. config' \in [Domains -> Configs \cup {None}]
  <2>1. ASSUME NEW r \in Requests, Step(r)
        PROVE config' = config \/ \E d \in Domains, x \in Configs \cup {None} : config' = [config EXCEPT ![d] = x]
    <3>1. config' # config => at[r] \in Domains
      BY <2>1, Frames, AtWork DEF Config, RemoveFiles, RemoveConfig, SetDebug, InFlight, AfterDb,
         AfterUser, AfterFiles, Others
    <3>2. [pass |-> r, debug |-> FALSE] \in Configs
      BY DEF Configs, Ids
    <3>3. at[r] \in Domains /\ config[at[r]] # None => [config[at[r]] EXCEPT !.debug = want[r]] \in Configs
      BY DEF TypeOK, Configs
    <3>4. config' = config \/ \E x \in Configs \cup {None} : config' = [config EXCEPT ![at[r]] = x]
      BY <2>1, <3>1, <3>2, <3>3, Frames DEF Config, RemoveFiles, RemoveConfig, SetDebug
    <3>5. QED
      BY <3>1, <3>4
  <2>2. QED
    BY <2>1 DEF TypeOK, Next, RemoveDomain, DropDomain, Crash, Quiet, vars
<1>4. db' \in [Dbs -> Ids \cup {Empty, None}]
  <2>1. ASSUME NEW r \in Requests, Step(r) PROVE db' \in [Dbs -> Ids \cup {Empty, None}]
    <3>1. db' # db => Db(r) \in Dbs
      BY <2>1, Frames, AtWork
         DEF CreateDb, CoreInstall, DropDb, InFlight, AfterDb, AfterUser, AfterFiles, Dropping
    <3>2. db' = db \/ \E x \in Ids \cup {Empty, None} : db' = [db EXCEPT ![Db(r)] = x]
      BY <2>1, <3>1, Frames DEF TypeOK, CreateDb, CoreInstall, DropDb, Ids
    <3>3. QED
      BY <3>2 DEF TypeOK
  <2>2. QED
    BY <2>1 DEF TypeOK, Next, RemoveDomain, DropDomain, Crash, Quiet, vars
<1>5. user' \in [Users -> Ids \cup {None}]
  <2>1. ASSUME NEW r \in Requests, Step(r) PROVE user' \in [Users -> Ids \cup {None}]
    <3>1. user' # user => User(r) \in Users
      BY <2>1, Frames, AtWork DEF CreateUser, DropUser, InFlight, AfterDb, Dropping
    <3>2. user' = user \/ \E x \in Ids \cup {None} : user' = [user EXCEPT ![User(r)] = x]
      BY <2>1, <3>1, Frames DEF TypeOK, CreateUser, DropUser, Ids
    <3>3. QED
      BY <3>2 DEF TypeOK
  <2>2. QED
    BY <2>1 DEF TypeOK, Next, RemoveDomain, DropDomain, Crash, Quiet, vars
<1>6. QED
  BY <1>1, <1>2, <1>3, <1>4, <1>5

\* The stakes are installations.
LEMMA StakesType ==
  ASSUME TypeOK, NEW D \in SUBSET Domains, NEW L
  PROVE  Stakes(D, L) \in SUBSET Ids
<1>1. Installed(D) \in SUBSET Ids
  BY DEF TypeOK, Installed, HasRow, Rows
<1>2. Installing(D, L) \in SUBSET Ids
  BY DEF Installing, Ids
<1>3. QED
  BY <1>1, <1>2 DEF Stakes

\* The histories name installations, databases and users.
LEMMA HarmedType == ASSUME TypeOK, Control, [Next]_vars PROVE harmed' \subseteq Ids
<1> USE DEF Harms, history
<1>1. ASSUME NEW r \in Requests, Step(r)
      PROVE  \E I \in SUBSET Ids : harmed' \in {harmed, harmed \cup I}
  <2>1. ASSUME NEW d \in Domains, Install(r, d)
        PROVE  \E I \in SUBSET Ids : harmed' \in {harmed, harmed \cup I}
    <3>1. HasRow(d) => row[d].id \in Ids
      BY DEF TypeOK, HasRow, Rows
    <3>2. QED
      BY <2>1, <3>1 DEF Install
  <2>2. CASE DropDb(r)
    <3>1. Bereaved(r, {d \in Domains : DbOf[d] = Db(r)}, AfterDb) \in SUBSET Ids
      BY StakesType DEF Bereaved
    <3>2. QED
      BY <2>2, <3>1 DEF DropDb
  <2>3. CASE DropUser(r)
    <3>1. Bereaved(r, {d \in Domains : UserOf[d] = User(r)}, AfterUser) \in SUBSET Ids
      BY StakesType DEF Bereaved
    <3>2. QED
      BY <2>3, <3>1 DEF DropUser
  <2>4. CASE RemoveFiles(r) \/ RemoveConfig(r)
    <3>1. at[r] \in Domains
      BY <2>4, AtWork DEF RemoveFiles, RemoveConfig, InFlight, Others
    <3>2. Stakes({at[r]}, AfterFiles) \in SUBSET Ids
      BY <3>1, StakesType
    <3>3. QED
      BY <2>4, <3>2 DEF RemoveFiles, RemoveConfig
  <2>5. CASE CoreInstall(r)
    BY <2>5 DEF CoreInstall, Ids
  <2>6. CASE UNCHANGED harmed
    BY <2>6
  <2>7. ASSUME NEW d \in Domains, NEW w \in BOOLEAN,
               Uninstall(r, d) \/ UpdateCore(r, d) \/ ToggleDebug(r, d, w)
        PROVE UNCHANGED harmed
    BY <2>7 DEF Uninstall, UpdateCore, ToggleDebug, Begin
  <2>8. ASSUME Refused(r) \/ CreateDb(r) \/ CreateUser(r) \/ Grant(r) \/ Download(r) \/ Config(r) \/ Insert(r)
               \/ InstallVersion(r)
               \/ DeleteRow(r) \/ Upgrade(r) \/ ReadVersion(r) \/ StoreVersion(r) \/ SetDebug(r) \/ StoreDebug(r)
        PROVE UNCHANGED harmed
    BY <2>8 DEF Refused, CreateDb, CreateUser, Grant, Download, Config, InstallVersion, Insert, DeleteRow,
       Upgrade, ReadVersion, StoreVersion, SetDebug, StoreDebug
  <2>9. QED
    BY <1>1, <2>1, <2>2, <2>3, <2>4, <2>5, <2>6, <2>7, <2>8 DEF Step
<1>2. ASSUME NEW d \in Domains, RemoveDomain(d) \/ DropDomain(d) PROVE harmed' \subseteq Ids
  <2>1. Stakes({d}, AfterFiles) \in SUBSET Ids
    BY StakesType
  <2>2. QED
    BY <1>2, <2>1 DEF RemoveDomain, DropDomain, TypeOK
<1>3. QED
  BY <1>1, <1>2 DEF Next, Crash, Quiet, vars, TypeOK

\* A request that changes a site and then its row has read the row's id.
LEMMA SeenIds ==
  ASSUME Control, NEW r \in Requests, pc[r] \in {"update", "setdebug"} \cup Storing
  PROVE  seen[r] \in Ids
BY DEF Control, Labels, May, Storing, AfterDb, AfterUser, AfterFiles, Dropping

LEMMA UnsureType == ASSUME TypeOK, Control, [Next]_vars PROVE unsure' \subseteq Ids
<1> USE DEF Misleads, history
<1>1. ASSUME NEW r \in Requests, Step(r)
      PROVE  \E I \in SUBSET Ids : unsure' \in {unsure, unsure \cup I}
  <2>1. ASSUME NEW d \in Domains, NEW w \in BOOLEAN,
               Install(r, d) \/ Uninstall(r, d) \/ UpdateCore(r, d) \/ ToggleDebug(r, d, w)
        PROVE \E I \in SUBSET Ids : unsure' \in {unsure, unsure \cup I}
    <3>1. HasRow(d) => row[d].id \in Ids
      BY DEF TypeOK, HasRow, Rows
    <3>2. QED
      BY <2>1, <3>1 DEF Install, InstallOpen, Uninstall, UpdateCore, ToggleDebug, Begin
  <2>2. CASE Download(r) \/ SetDebug(r) \/ Upgrade(r)
    <3>1. at[r] \in Domains
      BY <2>2, AtWork DEF Download, SetDebug, Upgrade, InFlight, AfterDb, AfterUser, Others
    <3>2. \A q \in Requests : pc[q] \in {"update", "setdebug"} \cup Storing => seen[q] \in Ids
      BY SeenIds
    <3>3. Stakes({at[r]}, AfterFiles) \in SUBSET Ids /\ Installed({at[r]}) \in SUBSET Ids
      BY <3>1, StakesType DEF Stakes
    <3>4. Pending(at[r]) \in SUBSET Ids
      BY <3>2 DEF Pending, Installing, Storing, Ids
    <3>5. CASE Download(r)
      BY <3>3, <3>4, <3>5 DEF Download
    <3>6. CASE SetDebug(r)
      <4>1. {seen[q] : q \in {p \in Requests : pc[p] = "storedebug" /\ at[p] = at[r] /\ want[p] # want[r]}}
              \in SUBSET Ids
        BY <3>2 DEF Storing
      <4>2. seen[r] \in Ids
        BY <3>2, <3>6 DEF SetDebug
      <4>3. QED
        BY <3>3, <3>6, <4>1, <4>2 DEF SetDebug, Overruled
    <3>7. CASE Upgrade(r)
      <4>1. seen[r] \in Ids
        BY <3>2, <3>7 DEF Upgrade
      <4>2. Crossed(r) \in SUBSET Ids
        BY <3>3, <3>4 DEF Crossed
      <4>3. QED
        BY <3>7, <4>1, <4>2 DEF Upgrade
    <3>8. QED
      BY <2>2, <3>5, <3>6, <3>7
  <2>3. CASE ReadVersion(r) \/ StoreVersion(r) \/ StoreDebug(r)
    <3>1. seen[r] \in Ids
      BY <2>3, SeenIds DEF ReadVersion, StoreVersion, StoreDebug, Storing
    <3>2. QED
      BY <2>3, <3>1 DEF ReadVersion, StoreVersion, StoreDebug
  <2>4. CASE InstallVersion(r)
    BY <2>4 DEF InstallVersion, Ids
  <2>5. CASE UNCHANGED unsure
    BY <2>5
  <2>6. ASSUME Refused(r) \/ CreateDb(r) \/ CreateUser(r) \/ Grant(r) \/ Config(r) \/ CoreInstall(r)
               \/ Insert(r) \/ DropDb(r) \/ DropUser(r) \/ RemoveFiles(r) \/ RemoveConfig(r) \/ DeleteRow(r)
        PROVE UNCHANGED unsure
    BY <2>6 DEF Refused, CreateDb, CreateUser, Grant, Config, CoreInstall, Insert, DropDb, DropUser,
       RemoveFiles, RemoveConfig, DeleteRow
  <2>7. QED
    BY <1>1, <2>1, <2>2, <2>3, <2>4, <2>5, <2>6 DEF Step
<1>2. ASSUME Crash PROVE unsure' \subseteq Ids
  <2>1. \A r \in Requests : pc[r] \in Storing => seen[r] \in Ids
    BY SeenIds
  <2>2. QED
    BY <1>2, <2>1 DEF Crash, TypeOK
<1>3. QED
  BY <1>1, <1>2 DEF Next, RemoveDomain, DropDomain, Quiet, vars, TypeOK

LEMMA StrewnType == ASSUME TypeOK, Control, [Next]_vars PROVE strewn' \subseteq Dbs \cup Users
<1> USE DEF Strews, history
<1>1. ASSUME NEW r \in Requests, Step(r)
      PROVE  strewn' \subseteq strewn \/ (pc[r] \in InFlight /\ strewn' \subseteq strewn \cup {Db(r), User(r)})
  <2>1. ASSUME NEW d \in Domains, NEW w \in BOOLEAN,
               Install(r, d) \/ Uninstall(r, d) \/ UpdateCore(r, d) \/ ToggleDebug(r, d, w)
        PROVE strewn' = strewn
    BY <2>1 DEF Install, InstallOpen, Uninstall, UpdateCore, ToggleDebug, Begin
  <2>2. CASE CreateDb(r) \/ CreateUser(r) \/ Grant(r) \/ Insert(r) \/ DropDb(r) \/ DropUser(r)
    BY <2>2 DEF CreateDb, CreateUser, Grant, Insert, DropDb, DropUser, InFlight, AfterDb, AfterUser,
       AfterFiles, Dropping
  <2>3. ASSUME Refused(r) \/ Download(r) \/ Config(r) \/ CoreInstall(r) \/ RemoveFiles(r) \/ RemoveConfig(r)
               \/ InstallVersion(r) \/ DeleteRow(r) \/ Upgrade(r) \/ ReadVersion(r) \/ StoreVersion(r) \/ SetDebug(r) \/ StoreDebug(r)
        PROVE strewn' = strewn
    BY <2>3 DEF Refused, Download, Config, CoreInstall, InstallVersion, RemoveFiles, RemoveConfig, DeleteRow,
       Upgrade, ReadVersion, StoreVersion, SetDebug, StoreDebug
  <2>4. QED
    BY <1>1, <2>1, <2>2, <2>3 DEF Step
<1>2. ASSUME NEW r \in Requests, Step(r) PROVE strewn' \subseteq Dbs \cup Users
  BY <1>1, <1>2, AtWork DEF TypeOK
<1>3. ASSUME NEW d \in Domains, RemoveDomain(d) \/ DropDomain(d)
      PROVE  strewn' \subseteq Dbs \cup Users
  BY <1>3, Names DEF RemoveDomain, DropDomain, TypeOK
<1>4. ASSUME Crash PROVE strewn' \subseteq Dbs \cup Users
  <2>1. \A r \in Requests : Abandoned(r) \subseteq Dbs \cup Users
    BY AtWork DEF Abandoned, InFlight
  <2>2. QED
    BY <1>4, <2>1 DEF Crash, TypeOK
<1>5. QED
  BY <1>2, <1>3, <1>4 DEF Next, Quiet, vars, TypeOK

\* Types and labels together.
LEMMA TypeStep == ASSUME TypeOK, Labels, [Next]_vars PROVE TypeOK' /\ Labels'
<1>1. Control
  BY DEF Control, TypeOK
<1>2. Control'
  BY <1>1, ControlStep
<1>3. want' \in [Requests -> BOOLEAN] /\ told' \in [Requests -> Releases]
  BY <1>1, WantType, ToldType DEF TypeOK
<1>4. harmed' \subseteq Ids /\ unsure' \subseteq Ids /\ strewn' \subseteq Dbs \cup Users
  BY <1>1, HarmedType, UnsureType, StrewnType
<1>5. QED
  BY <1>1, <1>2, <1>3, <1>4, RowType, HostType DEF TypeOK, Control

-----------------------------------------------------------------------------
(* Who answers for a database or a user                                    *)

\* A row is new, by an Insert, or keeps its id.
LEMMA RowChange ==
  ASSUME TypeOK, Control, [Next]_vars, NEW d \in Domains, row'[d] # None
  PROVE  \/ row[d] # None /\ row'[d].id = row[d].id
         \/ /\ row[d] = None
            /\ \E r \in Requests : Insert(r) /\ at[r] = d /\ row'[d].id = r
<1> USE Assumed DEF Assumptions, HasRow
<1>1. row \in [Domains -> Rows \cup {None}]
  BY DEF TypeOK
<1>2. CASE row' = row
  BY <1>2
<1>3. ASSUME NEW r \in Requests, Insert(r)
      PROVE  row' = row \/ (row[d] = None /\ at[r] = d /\ row'[d].id = r) \/ row'[d] = row[d]
  <2>1. at[r] \in Domains
    BY <1>3, AtWork DEF Insert, InFlight, AfterDb, AfterUser, AfterFiles
  <2>2. QED
    BY <1>1, <1>3, <2>1 DEF Insert
<1>4. ASSUME NEW r \in Requests, DeleteRow(r) PROVE row'[d] = row[d]
  BY <1>1, <1>4 DEF DeleteRow
<1>5. ASSUME NEW r \in Requests, StoreVersion(r) \/ StoreDebug(r)
      PROVE  row[d] # None /\ row'[d].id = row[d].id
  BY <1>1, <1>5 DEF StoreVersion, StoreDebug, Changed, Rows
<1>6. ASSUME NEW e \in Domains, RemoveDomain(e) \/ DropDomain(e) PROVE row'[d] = row[d]
  BY <1>1, <1>6 DEF RemoveDomain, DropDomain
<1>7. QED
  BY <1>2, <1>3, <1>4, <1>5, <1>6, Frames DEF Next, Crash, Quiet, host, vars

\* A request reads the id of a row when it begins, and keeps it to its end.
LEMMA SeenChange ==
  ASSUME Control, [Next]_vars, NEW r \in Requests
  PROVE  seen'[r] \in {seen[r], None} \/ \E d \in Domains : HasRow(d) /\ seen'[r] = row[d].id
<1>1. seen \in [Requests -> Ids \cup {None}]
  BY DEF Control
<1>2. ASSUME NEW q \in Requests, NEW d \in Domains, NEW w \in BOOLEAN,
             Install(q, d) \/ Uninstall(q, d) \/ UpdateCore(q, d) \/ ToggleDebug(q, d, w)
      PROVE  seen'[r] \in {seen[r], None} \/ (HasRow(d) /\ seen'[r] = row[d].id)
  BY <1>1, <1>2 DEF Install, InstallOpen, Uninstall, UpdateCore, ToggleDebug, Begin
<1>3. ASSUME NEW q \in Requests, Return(q) \/ UNCHANGED kept PROVE seen'[r] \in {seen[r], None}
  BY <1>1, <1>3 DEF Return, locals, kept
<1>4. ASSUME NEW q \in Requests, Step(q)
      PROVE  seen'[r] \in {seen[r], None} \/ \E d \in Domains : HasRow(d) /\ seen'[r] = row[d].id
  BY <1>2, <1>3, <1>4, Onwards DEF Step
<1>5. QED
  BY <1>4 DEF Next, RemoveDomain, DropDomain, Crash, Quiet, locals, kept, vars

\* The id of a row is that of a request which is done.
LEMMA RowIdsStep == ASSUME TypeOK, Labels, RowIds, [Next]_vars PROVE RowIds'
<1>1. Control
  BY DEF Control, TypeOK
<1>2. \A r \in Requests : pc[r] = "done" => pc'[r] = "done"
  <2>1. ASSUME NEW q \in Requests, Step(q) PROVE pc[q] # "done" /\ \E l : pc' = [pc EXCEPT ![q] = l]
    <3>1. ASSUME NEW d \in Domains, NEW w \in BOOLEAN,
                 Install(q, d) \/ Uninstall(q, d) \/ UpdateCore(q, d) \/ ToggleDebug(q, d, w)
          PROVE pc[q] # "done" /\ \E l : pc' = [pc EXCEPT ![q] = l]
      BY <3>1 DEF Install, InstallOpen, Uninstall, UpdateCore, ToggleDebug, Begin, MayStart, Goto
    <3>2. ASSUME \A d \in Domains, w \in BOOLEAN :
                   ~(Install(q, d) \/ Uninstall(q, d) \/ UpdateCore(q, d) \/ ToggleDebug(q, d, w))
          PROVE pc[q] # "done" /\ \E l : pc' = [pc EXCEPT ![q] = l]
      <4>1. Return(q) \/ \E l \in May(op[q]) \cap InFlight : Goto(q, l)
        BY <1>1, <2>1, <3>2, Onwards DEF Step
      <4>2. pc[q] # "done"
        BY <2>1, <3>2 DEF Step, Refused, CreateDb, CreateUser, Grant, Download, Config, CoreInstall, InstallVersion,
          Insert, DropDb, DropUser, RemoveFiles, RemoveConfig, DeleteRow, Upgrade, ReadVersion, StoreVersion,
          SetDebug, StoreDebug
      <4>3. QED
        BY <4>1, <4>2 DEF Return, Goto
    <3>3. QED
      BY <3>1, <3>2
  <2>2. QED
    BY <1>1, <2>1 DEF Next, Control, RemoveDomain, DropDomain, Crash, Quiet, vars
<1>3. ASSUME NEW d \in Domains, row'[d] # None, row'[d].id \in Requests
      PROVE  pc'[row'[d].id] = "done"
  <2>1. CASE row[d] # None /\ row'[d].id = row[d].id
    BY <1>2, <1>3, <2>1 DEF RowIds, HasRow
  <2>2. ASSUME NEW r \in Requests, Insert(r), row'[d].id = r PROVE pc'[r] = "done"
    BY <1>1, <2>2 DEF Insert, Return, Goto, Control
  <2>3. QED
    BY <1>1, <1>3, <2>1, <2>2, RowChange
<1>4. ASSUME NEW r \in Requests, seen'[r] \in Requests PROVE pc'[seen'[r]] = "done"
  <2>1. pc[seen'[r]] = "done"
    BY <1>1, <1>4, SeenChange, Assumed DEF RowIds, Assumptions, Ids
  <2>2. QED
    BY <1>2, <1>4, <2>1
<1>5. QED
  BY <1>3, <1>4 DEF RowIds, HasRow

\* A row goes by the DELETE of an Uninstall that has read it, or with its domain.
LEMMA RowGone ==
  ASSUME TypeOK, Labels, [Next]_vars, NEW d \in Domains, row[d] # None, row'[d] = None
  PROVE  \/ {DbOf[d], UserOf[d]} \subseteq strewn'
         \/ \E r \in Requests : DeleteRow(r) /\ at[r] = d /\ seen[r] = row[d].id
<1> USE Assumed DEF Assumptions, HasRow
<1>1. row \in [Domains -> Rows \cup {None}] /\ Control
  BY DEF TypeOK, Control
<1>2. ASSUME NEW r \in Requests, Insert(r) PROVE FALSE
  <2>1. at[r] \in Domains
    BY <1>1, <1>2, AtWork DEF Insert, InFlight, AfterDb, AfterUser, AfterFiles
  <2>2. told[r] \in Releases
    BY DEF TypeOK
  <2>3. [id |-> r, debug |-> FALSE, version |-> told[r]] # None
    <3>1. [id |-> r, debug |-> FALSE, version |-> told[r]] \in Rows
      BY <2>2 DEF Rows, Ids
    <3>2. QED
      BY <3>1, Zenon
  <2>4. QED
    BY <1>1, <1>2, <2>1, <2>2, <2>3 DEF Insert
<1>3. ASSUME NEW r \in Requests, StoreVersion(r) PROVE FALSE
  <2>1. at[r] \in Domains /\ told[r] \in Releases
    BY <1>1, <1>3, AtWork DEF StoreVersion, InFlight, Others, TypeOK
  <2>2. row[at[r]] # None => [row[at[r]] EXCEPT !.version = told[r]] # None
    BY <1>1, <2>1 DEF Rows
  <2>3. QED
    BY <1>1, <1>3, <2>1, <2>2 DEF StoreVersion, Changed
<1>4. ASSUME NEW r \in Requests, StoreDebug(r) PROVE FALSE
  <2>1. at[r] \in Domains /\ want[r] \in BOOLEAN
    BY <1>1, <1>4, AtWork DEF StoreDebug, InFlight, Others, TypeOK
  <2>2. row[at[r]] # None => [row[at[r]] EXCEPT !.debug = want[r]] # None
    BY <1>1, <2>1 DEF Rows
  <2>3. QED
    BY <1>1, <1>4, <2>1, <2>2 DEF StoreDebug, Changed
<1>5. ASSUME NEW r \in Requests, DeleteRow(r) PROVE at[r] = d /\ seen[r] = row[d].id
  <2>1. at[r] \in Domains
    BY <1>1, <1>5, AtWork DEF DeleteRow, InFlight, Others
  <2>2. QED
    BY <1>1, <1>5, <2>1 DEF DeleteRow
<1>6. ASSUME NEW e \in Domains, RemoveDomain(e) \/ DropDomain(e)
      PROVE  {DbOf[d], UserOf[d]} \subseteq strewn'
  BY <1>1, <1>6 DEF RemoveDomain, DropDomain, Strews
<1>7. QED
  BY <1>2, <1>3, <1>4, <1>5, <1>6, Frames DEF Next, Crash, Quiet, host, vars

\* A step of one request leaves the others where they are.
LEMMA Alone ==
  ASSUME Control, NEW q \in Requests, Step(q), NEW r \in Requests, r # q
  PROVE  pc'[r] = pc[r] /\ op'[r] = op[r] /\ at'[r] = at[r] /\ seen'[r] = seen[r]
<1>1. ASSUME NEW d \in Domains, NEW w \in BOOLEAN,
             Install(q, d) \/ Uninstall(q, d) \/ UpdateCore(q, d) \/ ToggleDebug(q, d, w)
      PROVE  pc'[r] = pc[r] /\ op'[r] = op[r] /\ at'[r] = at[r] /\ seen'[r] = seen[r]
  BY <1>1 DEF Control, Install, InstallOpen, Uninstall, UpdateCore, ToggleDebug, Begin, Goto
<1>2. ASSUME Return(q) \/ \E l \in May(op[q]) \cap InFlight : Goto(q, l) /\ UNCHANGED kept
      PROVE  pc'[r] = pc[r] /\ op'[r] = op[r] /\ at'[r] = at[r] /\ seen'[r] = seen[r]
  BY <1>2 DEF Control, Return, Goto, locals, kept
<1>3. QED
  BY <1>1, <1>2, Onwards DEF Step

\* How an Uninstall comes to have dropped the database, and the user.
LEMMA UninstallStep ==
  ASSUME Control, [Next]_vars, NEW r \in Requests, op'[r] = "uninstall", pc'[r] \in PastDb
  PROVE  /\ op[r] = "uninstall" /\ at'[r] = at[r] /\ seen'[r] = seen[r]
         /\ \/ pc[r] \in PastDb
            \/ DropDb(r)
         /\ \/ pc[r] \in PastUser \/ pc'[r] = "dropuser"
            \/ DropUser(r)
<1> DEFINE Goal == /\ op[r] = "uninstall" /\ at'[r] = at[r] /\ seen'[r] = seen[r]
                   /\ pc[r] \in PastDb \/ DropDb(r)
                   /\ pc[r] \in PastUser \/ pc'[r] = "dropuser" \/ DropUser(r)
<1> USE DEF PastDb, PastUser
<1>1. CASE UNCHANGED <<pc, locals>>
  BY <1>1 DEF locals, kept
<1>2. ASSUME NEW q \in Requests, Step(q), q # r PROVE Goal
  BY <1>2, Alone
<1>3. CASE Step(r)
  <2>1. ASSUME NEW d \in Domains, NEW w \in BOOLEAN,
               Install(r, d) \/ Uninstall(r, d) \/ UpdateCore(r, d) \/ ToggleDebug(r, d, w)
        PROVE  FALSE
    BY <2>1 DEF Control, Install, InstallOpen, Uninstall, UpdateCore, ToggleDebug, Begin, Goto
  <2>2. ~Return(r)
    BY DEF Return, Goto, Control
  <2>3. CASE \E l \in May(op[r]) \cap InFlight : Goto(r, l) /\ UNCHANGED kept
    <3>1. op[r] = "uninstall" /\ at'[r] = at[r] /\ seen'[r] = seen[r]
      BY <2>3 DEF locals, kept
    <3>2. pc[r] \in PastDb \cup {"dropdb"}
      BY <3>1 DEF Control, Labels, May, Dropping
    <3>3. pc[r] = "dropdb" => DropDb(r)
      BY <1>3, <2>1, <2>2
         DEF Step, Refused, CreateDb, CreateUser, Grant, Download, Config, CoreInstall, InstallVersion,
         Insert, DropUser, RemoveFiles, RemoveConfig, DeleteRow, Upgrade, ReadVersion, StoreVersion, SetDebug, StoreDebug
    <3>4. pc[r] = "dropuser" => DropUser(r)
      BY <1>3, <2>1, <2>2
         DEF Step, Refused, CreateDb, CreateUser, Grant, Download, Config, CoreInstall, InstallVersion,
         Insert, DropDb, RemoveFiles, RemoveConfig, DeleteRow, Upgrade, ReadVersion, StoreVersion, SetDebug, StoreDebug
    <3>5. DropDb(r) => pc'[r] = "dropuser"
      BY DEF DropDb, Goto, Control
    <3>6. QED
      BY <3>1, <3>2, <3>3, <3>4, <3>5
  <2>4. QED
    BY <1>3, <2>1, <2>2, <2>3, Onwards DEF Step
<1>4. ~Crash
  BY DEF Crash
<1>5. QED
  BY <1>1, <1>2, <1>3, <1>4 DEF Next, RemoveDomain, DropDomain, Quiet, vars

\* A row counts until its Uninstall drops, or its domain goes.
LEMMA CountsStep ==
  ASSUME TypeOK, Labels, RowIds, [Next]_vars, NEW d \in Domains,
         NEW L \in {PastDb, PastUser}, Counts(d, L)
  PROVE  \/ Counts(d, L)'
         \/ {DbOf[d], UserOf[d]} \subseteq strewn'
         \/ L = PastDb /\ \E r \in Requests : DropDb(r) /\ at[r] = d
         \/ L = PastUser /\ \E r \in Requests : DropUser(r) /\ at[r] = d
<1>1. Control
  BY DEF Control, TypeOK
<1>2. CASE row'[d] = None
  <2>1. ASSUME NEW r \in Requests, DeleteRow(r), at[r] = d, seen[r] = row[d].id PROVE FALSE
    <3>1. op[r] = "uninstall"
      BY <2>1 DEF DeleteRow, Labels, May, AfterDb, AfterUser, AfterFiles, Dropping
    <3>2. pc[r] \in L
      BY <2>1 DEF DeleteRow, PastDb, PastUser
    <3>3. QED
      BY <2>1, <3>1, <3>2 DEF Counts
  <2>2. QED
    BY <1>2, <2>1, RowGone DEF Counts, HasRow
<1>3. CASE row'[d] # None
  <2>1. row'[d].id = row[d].id
    BY <1>1, <1>3, RowChange DEF Counts, HasRow
  <2>2. ASSUME NEW r \in Requests, op'[r] = "uninstall", at'[r] = d, pc'[r] \in L, seen'[r] = row[d].id
        PROVE  at[r] = d /\ IF L = PastDb THEN DropDb(r) ELSE DropUser(r)
    <3>1. pc'[r] \in PastDb
      BY <2>2 DEF PastDb
    <3>2. op[r] = "uninstall" /\ at[r] = d /\ seen[r] = row[d].id
      BY <1>1, <2>2, <3>1, UninstallStep
    <3>3. pc[r] \notin L
      BY <3>2 DEF Counts
    <3>4. CASE L = PastDb
      BY <1>1, <2>2, <3>1, <3>2, <3>3, <3>4, UninstallStep
    <3>5. CASE L = PastUser /\ L # PastDb
      <4>1. pc[r] \notin PastUser /\ pc'[r] # "dropuser"
        BY <2>2, <3>3, <3>5 DEF PastUser
      <4>2. QED
        BY <1>1, <2>2, <3>1, <3>2, <3>5, <4>1, UninstallStep
    <3>6. QED
      BY <3>4, <3>5
  <2>3. QED
    BY <1>3, <2>1, <2>2 DEF Counts, HasRow
<1>4. QED
  BY <1>2, <1>3

\* The last INSERT stores the row, or fails and leaves database and user.
LEMMA InsertStep ==
  ASSUME TypeOK, Control, NEW r \in Requests, Insert(r)
  PROVE  \/ {Db(r), User(r)} \subseteq strewn'
         \/ row'[at[r]] # None /\ row'[at[r]].id = r
<1>1. at[r] \in Domains /\ told[r] \in Releases
  BY AtWork DEF Insert, InFlight, AfterDb, AfterUser, AfterFiles, TypeOK
<1>2. ASSUME row' = [row EXCEPT ![at[r]] = [id |-> r, debug |-> FALSE, version |-> told[r]]]
      PROVE  row'[at[r]] # None /\ row'[at[r]].id = r
  <2>1. row'[at[r]] = [id |-> r, debug |-> FALSE, version |-> told[r]]
    BY <1>1, <1>2 DEF TypeOK
  <2>2. row'[at[r]] \in Rows
    BY <1>1, <2>1 DEF Rows, Ids
  <2>3. row'[at[r]].id = r
    BY <2>1
  <2>4. QED
    BY <2>2, <2>3, Assumed DEF Assumptions
<1>3. QED
  BY <1>1, <1>2 DEF Insert, Strews

\* An Install holds on to its database until it drops it, abandons it, or hands
\* it to the row that it stores.
LEMMA HolderDbStep ==
  ASSUME TypeOK, Labels, [Next]_vars, NEW r \in Requests, op[r] = "install", pc[r] \in HoldsDb
  PROVE  \/ op'[r] = "install" /\ at'[r] = at[r] /\ pc'[r] \in HoldsDb
         \/ DropDb(r)
         \/ Db(r) \in strewn'
         \/ Insert(r) /\ row'[at[r]] # None /\ row'[at[r]].id = r
<1> DEFINE Goal == \/ op'[r] = "install" /\ at'[r] = at[r] /\ pc'[r] \in HoldsDb
                   \/ DropDb(r)
                   \/ Db(r) \in strewn'
                   \/ Insert(r) /\ row'[at[r]] # None /\ row'[at[r]].id = r
<1> USE DEF HoldsDb, AfterDb, AfterUser, AfterFiles
<1>1. Control
  BY DEF Control, TypeOK
<1>2. CASE UNCHANGED <<pc, locals>>
  BY <1>2 DEF locals, kept
<1>3. ASSUME NEW q \in Requests, Step(q), q # r PROVE Goal
  BY <1>1, <1>3, Alone
<1>4. CASE Step(r)
  <2> USE <1>1 DEF Control, Goto, locals, kept, Strews
  <2>1. CASE CreateUser(r)
    BY <2>1 DEF CreateUser
  <2>2. CASE Grant(r)
    BY <2>2 DEF Grant
  <2>3. CASE Download(r)
    BY <2>3 DEF Download
  <2>4. CASE Config(r)
    BY <2>4 DEF Config
  <2>5. CASE CoreInstall(r) \/ InstallVersion(r)
    BY <2>5 DEF CoreInstall, InstallVersion
  <2>6. CASE Insert(r)
    BY <2>6, InsertStep
  <2>7. ASSUME ~CreateUser(r), ~Grant(r), ~Download(r), ~Config(r), ~CoreInstall(r), ~InstallVersion(r), ~Insert(r),
                ~DropDb(r)
        PROVE  FALSE
    BY <1>4, <2>7
       DEF Step, Install, InstallOpen, Uninstall, UpdateCore, ToggleDebug, Begin, MayStart,
       Refused, CreateDb, DropUser, RemoveFiles, RemoveConfig, DeleteRow, Upgrade, ReadVersion, StoreVersion,
       SetDebug, StoreDebug
  <2>8. QED
    BY <2>1, <2>2, <2>3, <2>4, <2>5, <2>6, <2>7
<1>5. CASE Crash
  <2>1. Abandoned(r) = {Db(r), User(r)}
    <3>1. op[r] = "install" /\ pc[r] \in AfterDb \cup Dropping
      BY DEF Dropping
    <3>2. QED
      BY <3>1, Zenon DEF Abandoned
  <2>2. strewn' = strewn \cup UNION {Abandoned(q) : q \in Requests}
    BY <1>5 DEF Crash, Strews
  <2>3. QED
    BY <2>1, <2>2
<1>6. QED
  BY <1>2, <1>3, <1>4, <1>5 DEF Next, RemoveDomain, DropDomain, Quiet, vars

\* Likewise the user, which a rollback drops after the database.
LEMMA HolderUserStep ==
  ASSUME TypeOK, Labels, [Next]_vars, NEW r \in Requests, op[r] = "install", pc[r] \in HoldsUser
  PROVE  \/ op'[r] = "install" /\ at'[r] = at[r] /\ pc'[r] \in HoldsUser
         \/ DropUser(r)
         \/ User(r) \in strewn'
         \/ Insert(r) /\ row'[at[r]] # None /\ row'[at[r]].id = r
<1> DEFINE Goal == \/ op'[r] = "install" /\ at'[r] = at[r] /\ pc'[r] \in HoldsUser
                   \/ DropUser(r)
                   \/ User(r) \in strewn'
                   \/ Insert(r) /\ row'[at[r]] # None /\ row'[at[r]].id = r
<1> USE DEF HoldsUser, AfterUser, AfterFiles, Dropping
<1>1. Control
  BY DEF Control, TypeOK
<1>2. CASE UNCHANGED <<pc, locals>>
  BY <1>2 DEF locals, kept
<1>3. ASSUME NEW q \in Requests, Step(q), q # r PROVE Goal
  BY <1>1, <1>3, Alone
<1>4. CASE Step(r)
  <2> USE <1>1 DEF Control, Goto, locals, kept, Strews
  <2>1. CASE DropDb(r)
    BY <2>1 DEF DropDb
  <2>2. CASE Grant(r)
    BY <2>2 DEF Grant
  <2>3. CASE Download(r)
    BY <2>3 DEF Download
  <2>4. CASE Config(r)
    BY <2>4 DEF Config
  <2>5. CASE CoreInstall(r) \/ InstallVersion(r)
    BY <2>5 DEF CoreInstall, InstallVersion
  <2>6. CASE Insert(r)
    BY <2>6, InsertStep
  <2>7. ASSUME ~DropDb(r), ~Grant(r), ~Download(r), ~Config(r), ~CoreInstall(r), ~InstallVersion(r), ~Insert(r),
                ~DropUser(r)
        PROVE  FALSE
    BY <1>4, <2>7
       DEF Step, Install, InstallOpen, Uninstall, UpdateCore, ToggleDebug, Begin, MayStart,
       Refused, CreateDb, CreateUser, RemoveFiles, RemoveConfig, DeleteRow, Upgrade, ReadVersion, StoreVersion,
       SetDebug, StoreDebug
  <2>8. QED
    BY <2>1, <2>2, <2>3, <2>4, <2>5, <2>6, <2>7
<1>5. CASE Crash
  <2>1. Abandoned(r) = {Db(r), User(r)}
    <3>1. op[r] = "install" /\ pc[r] \in AfterDb \cup Dropping
      BY DEF AfterDb
    <3>2. QED
      BY <3>1, Zenon DEF Abandoned
  <2>2. strewn' = strewn \cup UNION {Abandoned(q) : q \in Requests}
    BY <1>5 DEF Crash, Strews
  <2>3. QED
    BY <2>1, <2>2
<1>6. QED
  BY <1>2, <1>3, <1>4, <1>5 DEF Next, RemoveDomain, DropDomain, Quiet, vars

\* What a request has abandoned is gone only when somebody drops it.
LEMMA StrewnStep ==
  ASSUME Control, [Next]_vars, NEW x, x \in strewn, x \notin strewn'
  PROVE  \E r \in Requests : (DropDb(r) /\ x = Db(r)) \/ (DropUser(r) /\ x = User(r))
<1> USE DEF Strews, history
<1>1. ASSUME NEW r \in Requests, Step(r)
      PROVE  strewn \subseteq strewn' \/ (DropDb(r) /\ x = Db(r)) \/ (DropUser(r) /\ x = User(r))
  <2>1. ASSUME NEW d \in Domains, NEW w \in BOOLEAN,
               Install(r, d) \/ Uninstall(r, d) \/ UpdateCore(r, d) \/ ToggleDebug(r, d, w)
        PROVE strewn' = strewn
    BY <2>1 DEF Install, InstallOpen, Uninstall, UpdateCore, ToggleDebug, Begin
  <2>2. CASE CreateDb(r) \/ CreateUser(r) \/ Grant(r) \/ Insert(r)
    BY <2>2 DEF CreateDb, CreateUser, Grant, Insert
  <2>3. CASE DropDb(r) \/ DropUser(r)
    BY <2>3 DEF DropDb, DropUser
  <2>4. ASSUME Refused(r) \/ Download(r) \/ Config(r) \/ CoreInstall(r) \/ RemoveFiles(r) \/ RemoveConfig(r)
               \/ InstallVersion(r) \/ DeleteRow(r) \/ Upgrade(r) \/ ReadVersion(r) \/ StoreVersion(r) \/ SetDebug(r) \/ StoreDebug(r)
        PROVE strewn' = strewn
    BY <2>4 DEF Refused, Download, Config, CoreInstall, InstallVersion, RemoveFiles, RemoveConfig, DeleteRow,
       Upgrade, ReadVersion, StoreVersion, SetDebug, StoreDebug
  <2>5. QED
    BY <1>1, <2>1, <2>2, <2>3, <2>4 DEF Step
<1>2. Crash => strewn \subseteq strewn'
  BY DEF Crash
<1>3. \A d \in Domains : RemoveDomain(d) \/ DropDomain(d) => strewn \subseteq strewn'
  BY DEF RemoveDomain, DropDomain
<1>4. Quiet \/ UNCHANGED vars => strewn' = strewn
  BY DEF Quiet, vars
<1>5. PICK r \in Requests : Step(r)
  BY <1>2, <1>3, <1>4 DEF Next
<1>6. QED
  BY <1>1, <1>5

\* A row that is new counts: nobody who began earlier can have read it.
LEMMA NewRowCounts ==
  ASSUME TypeOK, RowIds, Control, NEW r \in Requests, Insert(r),
         NEW d, at[r] = d, row'[d] # None, row'[d].id = r, NEW L
  PROVE  Counts(d, L)'
<1>1. ASSUME NEW q \in Requests PROVE seen'[q] # r
  <2>1. pc[r] # "done" /\ seen' = [seen EXCEPT ![r] = None]
    BY DEF Insert, Return
  <2>2. seen[q] # r
    BY <2>1 DEF RowIds
  <2>3. QED
    BY <2>1, <2>2, Assumed DEF Control, Assumptions, Ids
<1>2. QED
  BY <1>1 DEF Counts, HasRow

\* Somebody still answers for every database.
LEMMA DbHeldStep == ASSUME TypeOK, Labels, RowIds, DbHeld, [Next]_vars PROVE DbHeld'
<1>1. Control
  BY DEF Control, TypeOK
<1> DEFINE Held(x) == \/ \E r \in Requests : op[r] = "install" /\ pc[r] \in HoldsDb /\ DbOf[at[r]] = x
                      \/ \E d \in Domains : DbOf[d] = x /\ Counts(d, PastDb)
<1>2. SUFFICES ASSUME NEW x \in Dbs, db'[x] # None, x \notin strewn' PROVE Held(x)'
  BY DEF DbHeld
<1>3. \A r \in Requests : DropDb(r) => Db(r) # x
  BY <1>2 DEF DropDb, Strews, TypeOK
<1>4. x \notin strewn
  <2>1. \A r \in Requests : DropUser(r) => User(r) # x
    BY <1>1, AtWork, NameAssumption DEF DropUser, NameAssumption, InFlight, Dropping
  <2>2. QED
    BY <1>1, <1>2, <1>3, <2>1, StrewnStep
<1>5. ASSUME NEW r \in Requests, op[r] = "install", pc[r] \in HoldsDb, DbOf[at[r]] = x
      PROVE  Held(x)'
  <2>1. CASE op'[r] = "install" /\ at'[r] = at[r] /\ pc'[r] \in HoldsDb
    BY <1>5, <2>1
  <2>2. CASE Insert(r) /\ row'[at[r]] # None /\ row'[at[r]].id = r
    <3>1. at[r] \in Domains
      BY <1>5 DEF Labels
    <3>2. PICK d \in Domains : d = at[r]
      BY <3>1
    <3>3. Counts(d, PastDb)'
      BY <1>1, <2>2, <3>2, NewRowCounts
    <3>4. QED
      BY <1>5, <3>2, <3>3
  <2>3. QED
    BY <1>2, <1>3, <1>5, <2>1, <2>2, HolderDbStep DEF Db
<1>6. ASSUME NEW d \in Domains, DbOf[d] = x, Counts(d, PastDb) PROVE Held(x)'
  <2>1. \A r \in Requests : DropDb(r) => at[r] # d
    BY <1>3, <1>6 DEF Db
  <2>2. DbOf[d] \notin strewn'
    BY <1>2, <1>6
  <2>3. PastDb # PastUser
    BY DEF PastDb, PastUser
  <2>4. Counts(d, PastDb)'
    BY <2>1, <2>2, <2>3, <1>6, CountsStep
  <2>5. QED
    BY <1>6, <2>4
<1>7. CASE db[x] # None
  BY <1>4, <1>5, <1>6, <1>7 DEF DbHeld
<1>8. CASE db[x] = None
  <2>1. PICK r \in Requests : CreateDb(r) \/ CoreInstall(r) \/ DropDb(r)
    BY <1>2, <1>8, Frames DEF Next, RemoveDomain, DropDomain, Crash, Quiet, host, vars
  <2>2. (pc[r] \in InFlight /\ Db(r) \in Dbs /\ op[r] = "install") \/ DropDb(r)
    <3>1. (pc[r] \in InFlight /\ pc[r] \in {"createdb", "install"}) \/ DropDb(r)
      BY <2>1 DEF CreateDb, CoreInstall, InFlight, AfterDb, AfterUser, AfterFiles
    <3>2. QED
      BY <1>1, <3>1, AtWork DEF Labels, May, Dropping
  <2>3. db'[x] = db[x] \/ (CreateDb(r) /\ Db(r) = x)
    BY <1>2, <1>3, <1>8, <2>1, <2>2, Assumed DEF CreateDb, CoreInstall, DropDb, TypeOK, Assumptions
  <2>4. CreateDb(r) /\ Db(r) = x /\ op[r] = "install"
    BY <1>2, <1>8, <2>2, <2>3 DEF CreateDb, DropDb
  <2>5. op'[r] = "install" /\ pc'[r] = "createuser" /\ DbOf[at'[r]] = x
    BY <1>2, <2>4 DEF CreateDb, Goto, Strews, locals, kept, Db, TypeOK
  <2>6. QED
    BY <2>5 DEF HoldsDb, AfterDb
<1>9. QED
  BY <1>7, <1>8

\* And for every user.
LEMMA UserHeldStep == ASSUME TypeOK, Labels, RowIds, UserHeld, [Next]_vars PROVE UserHeld'
<1>1. Control
  BY DEF Control, TypeOK
<1> DEFINE Held(x) == \/ \E r \in Requests : op[r] = "install" /\ pc[r] \in HoldsUser /\ UserOf[at[r]] = x
                      \/ \E d \in Domains : UserOf[d] = x /\ Counts(d, PastUser)
<1>2. SUFFICES ASSUME NEW x \in Users, user'[x] # None, x \notin strewn' PROVE Held(x)'
  BY DEF UserHeld
<1>3. \A r \in Requests : DropUser(r) => User(r) # x
  BY <1>2 DEF DropUser, Strews, TypeOK
<1>4. x \notin strewn
  <2>1. \A r \in Requests : DropDb(r) => Db(r) # x
    BY <1>1, AtWork, NameAssumption DEF DropDb, NameAssumption, InFlight, Dropping
  <2>2. QED
    BY <1>1, <1>2, <1>3, <2>1, StrewnStep
<1>5. ASSUME NEW r \in Requests, op[r] = "install", pc[r] \in HoldsUser, UserOf[at[r]] = x
      PROVE  Held(x)'
  <2>1. CASE op'[r] = "install" /\ at'[r] = at[r] /\ pc'[r] \in HoldsUser
    BY <1>5, <2>1
  <2>2. CASE Insert(r) /\ row'[at[r]] # None /\ row'[at[r]].id = r
    <3>1. PICK d \in Domains : d = at[r]
      BY <1>5 DEF Labels
    <3>2. Counts(d, PastUser)'
      BY <1>1, <2>2, <3>1, NewRowCounts
    <3>3. QED
      BY <1>5, <3>1, <3>2
  <2>3. QED
    BY <1>2, <1>3, <1>5, <2>1, <2>2, HolderUserStep DEF User
<1>6. ASSUME NEW d \in Domains, UserOf[d] = x, Counts(d, PastUser) PROVE Held(x)'
  <2>1. \A r \in Requests : DropUser(r) => at[r] # d
    BY <1>3, <1>6 DEF User
  <2>2. UserOf[d] \notin strewn'
    BY <1>2, <1>6
  <2>3. PastDb # PastUser
    BY DEF PastDb, PastUser
  <2>4. Counts(d, PastUser)'
    BY <2>1, <2>2, <2>3, <1>6, CountsStep
  <2>5. QED
    BY <1>6, <2>4
<1>7. CASE user[x] # None
  BY <1>4, <1>5, <1>6, <1>7 DEF UserHeld
<1>8. CASE user[x] = None
  <2>1. PICK r \in Requests : CreateUser(r) \/ DropUser(r)
    BY <1>2, <1>8, Frames DEF Next, RemoveDomain, DropDomain, Crash, Quiet, host, vars
  <2>2. CreateUser(r) /\ User(r) = x
    BY <1>2, <1>3, <1>8, <2>1 DEF CreateUser, DropUser, TypeOK
  <2>3. op[r] = "install"
    BY <2>2 DEF CreateUser, Labels, May, Dropping
  <2>4. op'[r] = "install" /\ pc'[r] = "grant" /\ UserOf[at'[r]] = x
    BY <1>2, <1>8, <2>2, <2>3 DEF CreateUser, Goto, Strews, locals, kept, User, TypeOK
  <2>5. QED
    BY <2>4 DEF HoldsUser, AfterUser
<1>9. QED
  BY <1>7, <1>8

-----------------------------------------------------------------------------
(* What a rival can take from an installation                              *)

\* The histories only grow.
LEMMA Grows ==
  ASSUME Control, [Next]_vars
  PROVE  harmed \subseteq harmed' /\ unsure \subseteq unsure'
<1> USE DEF Harms, Misleads, history
<1>1. ASSUME NEW r \in Requests, NEW d \in Domains, NEW w \in BOOLEAN,
             Install(r, d) \/ Uninstall(r, d) \/ UpdateCore(r, d) \/ ToggleDebug(r, d, w)
      PROVE  harmed \subseteq harmed' /\ unsure \subseteq unsure'
  BY <1>1 DEF Install, InstallOpen, Uninstall, UpdateCore, ToggleDebug, Begin
<1>2. ASSUME NEW r \in Requests,
             Refused(r) \/ CreateDb(r) \/ CreateUser(r) \/ Grant(r) \/ Download(r) \/ Config(r)
      PROVE  harmed \subseteq harmed' /\ unsure \subseteq unsure'
  BY <1>2 DEF Refused, CreateDb, CreateUser, Grant, Download, Config
<1>3. ASSUME NEW r \in Requests,
             CoreInstall(r) \/ InstallVersion(r) \/ Insert(r) \/ DropDb(r) \/ DropUser(r) \/ RemoveFiles(r) \/ RemoveConfig(r)
      PROVE  harmed \subseteq harmed' /\ unsure \subseteq unsure'
  BY <1>3 DEF CoreInstall, InstallVersion, Insert, DropDb, DropUser, RemoveFiles, RemoveConfig
<1>4. ASSUME NEW r \in Requests,
             DeleteRow(r) \/ Upgrade(r) \/ ReadVersion(r) \/ StoreVersion(r) \/ SetDebug(r) \/ StoreDebug(r)
      PROVE  harmed \subseteq harmed' /\ unsure \subseteq unsure'
  BY <1>4 DEF DeleteRow, Upgrade, ReadVersion, StoreVersion, SetDebug, StoreDebug
<1>5. ASSUME NEW d \in Domains, RemoveDomain(d) \/ DropDomain(d)
      PROVE  harmed \subseteq harmed' /\ unsure \subseteq unsure'
  BY <1>5 DEF RemoveDomain, DropDomain
<1>6. QED
  BY <1>1, <1>2, <1>3, <1>4, <1>5 DEF Next, Step, Crash, Quiet, vars

\* Who removes what is in a web root harms those who have a stake in it.
LEMMA RootStep ==
  ASSUME TypeOK, Control, [Next]_vars, NEW d \in Domains, NEW i \in Stakes({d}, AfterFiles), i \notin harmed'
  PROVE  /\ \/ core'[d] = core[d]
            \/ \E r \in Requests : (Download(r) \/ Upgrade(r)) /\ at[r] = d /\ core'[d] # 0
         /\ \/ config'[d] = config[d]
            \/ \E r \in Requests : /\ Config(r) /\ at[r] = d /\ user[UserOf[d]] = r
                                   /\ config'[d] = [pass |-> r, debug |-> FALSE]
            \/ \E r \in Requests : /\ SetDebug(r) /\ at[r] = d /\ config[d] # None
                                   /\ config'[d] = [config[d] EXCEPT !.debug = want[r]]
<1> DEFINE Core == \/ core'[d] = core[d]
                   \/ \E r \in Requests : (Download(r) \/ Upgrade(r)) /\ at[r] = d /\ core'[d] # 0
           Conf == \/ config'[d] = config[d]
                   \/ \E r \in Requests : /\ Config(r) /\ at[r] = d /\ user[UserOf[d]] = r
                                          /\ config'[d] = [pass |-> r, debug |-> FALSE]
                   \/ \E r \in Requests : /\ SetDebug(r) /\ at[r] = d /\ config[d] # None
                                          /\ config'[d] = [config[d] EXCEPT !.debug = want[r]]
<1>1. core \in [Domains -> Releases] /\ config \in [Domains -> Configs \cup {None}]
  BY DEF TypeOK
<1>2. ASSUME NEW r \in Requests, RemoveFiles(r) \/ RemoveConfig(r)
      PROVE  core'[d] = core[d] /\ config'[d] = config[d]
  BY <1>1, <1>2 DEF RemoveFiles, RemoveConfig, Harms
<1>3. ASSUME NEW e \in Domains, RemoveDomain(e) \/ DropDomain(e)
      PROVE  core'[d] = core[d] /\ config'[d] = config[d]
  BY <1>1, <1>3 DEF RemoveDomain, DropDomain, Harms, host
<1>4. ASSUME NEW r \in Requests, Step(r) PROVE Core
  BY <1>1, <1>2, <1>4, Frames DEF Download, Upgrade, Newest
<1>5. ASSUME NEW r \in Requests, Step(r) PROVE Conf
  <2>1. CASE Config(r)
    BY <1>1, <2>1 DEF Config, User
  <2>2. CASE SetDebug(r)
    BY <1>1, <2>2 DEF SetDebug
  <2>3. QED
    BY <1>2, <1>5, <2>1, <2>2, Frames
<1>6. QED
  BY <1>3, <1>4, <1>5 DEF Next, Crash, Quiet, host, vars

\* And so does who drops a user ...
LEMMA UserStep ==
  ASSUME TypeOK, Control, RowIds, Overlooked, [Next]_vars, NEW x \in Users, user[x] # None,
         NEW i \in Stakes({d \in Domains : UserOf[d] = x}, AfterUser), i \notin harmed'
  PROVE  user'[x] = user[x]
<1>1. user \in [Users -> Ids \cup {None}]
  BY DEF TypeOK
<1>2. ASSUME NEW r \in Requests, DropUser(r), User(r) = x PROVE user' = user
  <2>1. i # r
    BY <1>2 DEF Stakes, Installed, Installing, RowIds, DropUser, AfterUser, AfterFiles, HasRow
  <2>2. ~(op[r] = "install" /\ i = seen[r])
    <3>1. i \notin harmed
      BY Grows
    <3>2. i # None
      BY StakesType, Assumed DEF Assumptions
    <3>3. QED
      BY <3>1, <3>2 DEF Overlooked
  <2>3. i \in Bereaved(r, {d \in Domains : UserOf[d] = User(r)}, AfterUser)
    BY <1>2, <2>1, <2>2 DEF Bereaved
  <2>4. QED
    BY <1>2, <2>3 DEF DropUser, Harms
<1>3. ASSUME NEW r \in Requests, CreateUser(r) \/ (DropUser(r) /\ User(r) # x) PROVE user'[x] = user[x]
  BY <1>1, <1>3 DEF CreateUser, DropUser
<1>4. QED
  BY <1>2, <1>3, Frames DEF Next, RemoveDomain, DropDomain, Crash, Quiet, host, vars

\* ... or a database, in which only the first makes tables.
LEMMA DbStep ==
  ASSUME TypeOK, Control, RowIds, Overlooked, [Next]_vars, NEW x \in Dbs, db[x] # None,
         NEW i \in Stakes({d \in Domains : DbOf[d] = x}, AfterDb), i \notin harmed'
  PROVE  /\ \/ db'[x] = db[x]
            \/ \E r \in Requests : CoreInstall(r) /\ Db(r) = x /\ db[x] = Empty /\ db'[x] = r
         /\ x \in strewn => x \in strewn'
<1>1. db \in [Dbs -> Ids \cup {Empty, None}]
  BY DEF TypeOK
<1>2. ASSUME NEW r \in Requests, DropDb(r), Db(r) = x PROVE db' = db /\ strewn \subseteq strewn'
  <2>1. i # r
    BY <1>2 DEF Stakes, Installed, Installing, RowIds, DropDb, AfterDb, AfterUser, AfterFiles, HasRow
  <2>2. ~(op[r] = "install" /\ i = seen[r])
    <3>1. i \notin harmed
      BY Grows
    <3>2. i # None
      BY StakesType, Assumed DEF Assumptions
    <3>3. QED
      BY <3>1, <3>2 DEF Overlooked
  <2>3. i \in Bereaved(r, {d \in Domains : DbOf[d] = Db(r)}, AfterDb)
    BY <1>2, <2>1, <2>2 DEF Bereaved
  <2>4. QED
    BY <1>2, <2>3 DEF DropDb, Harms, Strews
<1>3. ASSUME NEW r \in Requests, CreateDb(r) \/ CoreInstall(r) \/ (DropDb(r) /\ Db(r) # x)
      PROVE  db'[x] = db[x] \/ (CoreInstall(r) /\ Db(r) = x /\ db[x] = Empty /\ db'[x] = r)
  BY <1>1, <1>3 DEF CreateDb, CoreInstall, DropDb
<1>4. \A r \in Requests : DropUser(r) => User(r) # x
  BY AtWork, NameAssumption DEF DropUser, NameAssumption, InFlight, Dropping
<1>5. x \in strewn => x \in strewn'
  BY <1>2, <1>4, StrewnStep
<1>6. QED
  BY <1>2, <1>3, <1>5, Frames DEF Next, RemoveDomain, DropDomain, Crash, Quiet, host, vars

-----------------------------------------------------------------------------
(* An Install on its way                                                   *)

\* Which command brings an Install to which label.
LEMMA InstallStep ==
  ASSUME Control, [Next]_vars, NEW r \in Requests, op'[r] = "install"
  PROVE  \/ pc'[r] = "createdb" /\ \E d \in Domains : Install(r, d)
         \/ /\ op[r] = "install" /\ at'[r] = at[r] /\ seen'[r] = seen[r]
            /\ \/ pc'[r] = pc[r]
               \/ pc'[r] = "createuser" /\ CreateDb(r)
               \/ pc'[r] = "grant" /\ CreateUser(r)
               \/ pc'[r] = "download" /\ Grant(r)
               \/ pc'[r] = "config" /\ Download(r)
               \/ pc'[r] = "install" /\ Config(r)
               \/ pc'[r] = "readversion" /\ CoreInstall(r)
               \/ pc'[r] = "insert" /\ InstallVersion(r)
               \/ pc'[r] \in Dropping
<1> DEFINE Moves == \/ pc'[r] = pc[r]
                    \/ pc'[r] = "createuser" /\ CreateDb(r)
                    \/ pc'[r] = "grant" /\ CreateUser(r)
                    \/ pc'[r] = "download" /\ Grant(r)
                    \/ pc'[r] = "config" /\ Download(r)
                    \/ pc'[r] = "install" /\ Config(r)
                    \/ pc'[r] = "readversion" /\ CoreInstall(r)
                    \/ pc'[r] = "insert" /\ InstallVersion(r)
                    \/ pc'[r] \in Dropping
           Goal == \/ pc'[r] = "createdb" /\ \E d \in Domains : Install(r, d)
                   \/ op[r] = "install" /\ at'[r] = at[r] /\ seen'[r] = seen[r] /\ Moves
<1>1. CASE UNCHANGED <<pc, locals>>
  BY <1>1 DEF locals, kept
<1>2. ASSUME NEW q \in Requests, Step(q), q # r PROVE Goal
  BY <1>2, Alone
<1>3. CASE Step(r)
  <2>1. ASSUME NEW d \in Domains, Install(r, d) PROVE Goal
    BY <2>1 DEF Install, InstallOpen, Goto, Control
  <2>2. ASSUME NEW d \in Domains, NEW w \in BOOLEAN,
               Uninstall(r, d) \/ UpdateCore(r, d) \/ ToggleDebug(r, d, w)
        PROVE  FALSE
    BY <2>2 DEF Control, Uninstall, UpdateCore, ToggleDebug, Begin
  <2>3. ~Return(r)
    BY DEF Return, Control
  <2>4. ASSUME NEW l \in May(op[r]) \cap InFlight, Goto(r, l), UNCHANGED kept,
               \A d \in Domains : ~Install(r, d)
        PROVE  Goal
    <3>1. op[r] = "install" /\ at'[r] = at[r] /\ seen'[r] = seen[r]
      BY <2>4 DEF locals, kept
    <3>2. pc[r] \in May("install") /\ pc \in [Requests -> {"idle", "done"} \cup InFlight]
      BY <3>1 DEF Control, Labels
    <3>3. Moves
      <4> USE <2>3, <2>4, <3>1, <3>2 DEF Goto, Dropping
      <4>1. CASE CreateDb(r) \/ CreateUser(r) \/ Grant(r)
        BY <4>1 DEF CreateDb, CreateUser, Grant
      <4>2. CASE Download(r) \/ Config(r) \/ CoreInstall(r) \/ InstallVersion(r)
        BY <4>2 DEF Download, Config, CoreInstall, InstallVersion
      <4>3. CASE DropDb(r) \/ DropUser(r)
        BY <4>3 DEF DropDb, DropUser
      <4>4. CASE Refused(r) \/ Insert(r) \/ DeleteRow(r) \/ StoreVersion(r) \/ StoreDebug(r)
        BY <4>4 DEF Refused, Insert, DeleteRow, StoreVersion, StoreDebug
      <4>5. CASE RemoveFiles(r) \/ RemoveConfig(r) \/ Upgrade(r) \/ ReadVersion(r) \/ SetDebug(r)
        BY <4>5 DEF RemoveFiles, RemoveConfig, Upgrade, ReadVersion, SetDebug, May, AfterDb, AfterUser, AfterFiles
      <4>6. QED
        BY <1>3, <2>2, <4>1, <4>2, <4>3, <4>4, <4>5 DEF Step
    <3>4. QED
      BY <3>1, <3>3
  <2>5. QED
    BY <1>3, <2>1, <2>2, <2>3, <2>4, Onwards DEF Step
<1>4. ~Crash
  BY DEF Crash
<1>5. QED
  BY <1>1, <1>2, <1>3, <1>4 DEF Next, RemoveDomain, DropDomain, Quiet, vars

\* What a request was told stays with it until it goes on.
LEMMA ToldKept ==
  ASSUME TypeOK, Control, [Next]_vars, NEW r \in Requests,
         pc[r] \in {"insert", "storeversion"}, pc'[r] = pc[r]
  PROVE  told'[r] = told[r]
<1>1. told \in [Requests -> Releases] /\ pc \in [Requests -> {"idle", "done"} \cup InFlight]
  BY DEF TypeOK
<1>2. ASSUME NEW q \in Requests, InstallVersion(q) \/ ReadVersion(q) PROVE told'[r] = told[r]
  <2>1. q # r
    BY <1>2 DEF InstallVersion, ReadVersion
  <2>2. QED
    BY <1>1, <1>2, <2>1 DEF InstallVersion, ReadVersion, Return
<1>3. ASSUME NEW q \in Requests, Return(q) PROVE told'[r] = told[r]
  BY <1>1, <1>3 DEF Return, Goto
<1>4. ASSUME NEW q \in Requests, Step(q), ~InstallVersion(q), ~ReadVersion(q) PROVE told' = told \/ Return(q)
  <2>1. ASSUME NEW d \in Domains, NEW w \in BOOLEAN,
               Install(q, d) \/ Uninstall(q, d) \/ UpdateCore(q, d) \/ ToggleDebug(q, d, w)
        PROVE told' = told
    BY <2>1 DEF Install, InstallOpen, Uninstall, UpdateCore, ToggleDebug, Begin
  <2>2. ASSUME Refused(q) \/ CreateDb(q) \/ CreateUser(q) \/ Grant(q) \/ Download(q) \/ Config(q)
               \/ CoreInstall(q) \/ Insert(q) \/ DropDb(q)
        PROVE told' = told \/ Return(q)
    BY <2>2 DEF Refused, CreateDb, CreateUser, Grant, Download, Config, CoreInstall, Insert, DropDb, locals
  <2>3. ASSUME DropUser(q) \/ RemoveFiles(q) \/ RemoveConfig(q) \/ DeleteRow(q) \/ Upgrade(q)
               \/ StoreVersion(q) \/ SetDebug(q) \/ StoreDebug(q)
        PROVE told' = told \/ Return(q)
    BY <2>3 DEF DropUser, RemoveFiles, RemoveConfig, DeleteRow, Upgrade, StoreVersion, SetDebug, StoreDebug, locals
  <2>4. QED
    BY <1>4, <2>1, <2>2, <2>3 DEF Step
<1>5. CASE Crash
  BY <1>1, <1>5 DEF Crash, Running, InFlight, AfterDb, AfterUser, AfterFiles, Others
<1>6. QED
  BY <1>2, <1>3, <1>4, <1>5 DEF Next, RemoveDomain, DropDomain, Quiet, locals, vars

LEMMA OverlookedStep == ASSUME TypeOK, Labels, Overlooked, [Next]_vars PROVE Overlooked'
<1>1. Control
  BY DEF Control, TypeOK
<1>2. SUFFICES ASSUME NEW r \in Requests, op'[r] = "install", seen'[r] # None PROVE seen'[r] \in harmed'
  BY DEF Overlooked
<1>3. ASSUME NEW d \in Domains, Install(r, d) PROVE seen'[r] \in harmed'
  BY <1>1, <1>2, <1>3 DEF Install, InstallOpen, Harms, Control
<1>4. ASSUME op[r] = "install", seen'[r] = seen[r] PROVE seen'[r] \in harmed'
  BY <1>1, <1>2, <1>4, Grows DEF Overlooked
<1>5. QED
  BY <1>1, <1>2, <1>3, <1>4, InstallStep

\* wp-config.php, where only its Install writes it, and only a ToggleDebug that
\* is about it changes it without misleading.
LEMMA ConfigStep ==
  ASSUME TypeOK, Labels, RowIds, [Next]_vars, NEW d \in Domains,
         NEW i \in Stakes({d}, AfterFiles), i \notin harmed', user[UserOf[d]] = i, config[d] # None, config[d].pass = i
  PROVE  /\ config'[d] # None /\ config'[d].pass = i
         /\ i \notin unsure' /\ config'[d].debug # config[d].debug =>
              \/ i \in Requests /\ Config(i) /\ ~config'[d].debug
              \/ \E r \in Requests : seen[r] = i /\ SetDebug(r) /\ at[r] = d
<1>1. Control
  BY DEF Control, TypeOK
<1>2. config[d] \in Configs
  BY DEF TypeOK
<1>3. CASE config'[d] = config[d]
  BY <1>3
<1>4. ASSUME NEW r \in Requests, Config(r), user[UserOf[d]] = r, config'[d] = [pass |-> r, debug |-> FALSE]
      PROVE  config'[d] # None /\ config'[d].pass = i /\ ~config'[d].debug /\ i \in Requests /\ Config(i)
  <2>1. config'[d] \in Configs
    BY <1>4 DEF Configs, Ids
  <2>2. config'[d] # None
    BY <2>1, Assumed, Zenon DEF Assumptions
  <2>3. config'[d].pass = r /\ config'[d].debug = FALSE
    BY <1>4
  <2>4. r = i
    BY <1>4
  <2>5. QED
    BY <1>4, <2>2, <2>3, <2>4
<1>5. ASSUME NEW r \in Requests, SetDebug(r), at[r] = d, config'[d] = [config[d] EXCEPT !.debug = want[r]]
      PROVE  config'[d] # None /\ config'[d].pass = i /\ (seen[r] = i \/ i \in unsure')
  <2>1. want[r] \in BOOLEAN
    BY DEF TypeOK
  <2>2. config'[d] \in Configs /\ config'[d].pass = config[d].pass
    BY <1>2, <1>5, <2>1 DEF Configs
  <2>3. seen[r] = i \/ i \in unsure'
    BY <1>5, RootStep DEF SetDebug, Overruled, Misleads
  <2>4. QED
    BY <2>2, <2>3, Assumed DEF Assumptions
<1>6. QED
  BY <1>1, <1>3, <1>4, <1>5, RootStep

\* The stakes of an Install, and of a row.
LEMMA InstallStakes ==
  ASSUME NEW r \in Requests, op[r] = "install", at[r] \in Domains, NEW L, pc[r] \in L
  PROVE  /\ r \in Stakes({at[r]}, L)
         /\ r \in Stakes({d \in Domains : DbOf[d] = Db(r)}, L)
         /\ r \in Stakes({d \in Domains : UserOf[d] = User(r)}, L)
BY DEF Stakes, Installing, Db, User

LEMMA RowStakes ==
  ASSUME NEW d \in Domains, HasRow(d), NEW L
  PROVE  /\ row[d].id \in Stakes({d}, L)
         /\ row[d].id \in Stakes({e \in Domains : DbOf[e] = DbOf[d]}, L)
         /\ row[d].id \in Stakes({e \in Domains : UserOf[e] = UserOf[d]}, L)
BY DEF Stakes, Installed

\* The tables are of the Install that finds the database empty.  Tables of others
\* are contested, or left behind.
LEMMA TablesMade ==
  ASSUME TypeOK, Control, Owned, NEW r \in Requests, CoreInstall(r), pc'[r] = "readversion", r \notin harmed'
  PROVE  /\ db'[Db(r)] \in Ids
         /\ Db(r) \notin strewn' => db'[Db(r)] = r
<1>1. at[r] \in Domains /\ Db(r) \in Dbs
  BY AtWork DEF CoreInstall, InFlight, AfterDb, AfterUser, AfterFiles
<1>2. db[Db(r)] \in Ids \cup {Empty, None} /\ pc \in [Requests -> {"idle", "done"} \cup InFlight]
  BY <1>1 DEF TypeOK
<1>3. /\ Connects(at[r])
      /\ db' = [db EXCEPT ![Db(r)] = IF @ = Empty THEN r ELSE @]
      /\ Harms(IF Contested(r) THEN {r} ELSE {})
      /\ strewn' = strewn
  BY <1>2 DEF CoreInstall, Goto
<1>4. db'[Db(r)] = IF db[Db(r)] = Empty THEN r ELSE db[Db(r)]
  BY <1>1, <1>3 DEF TypeOK
<1>5. db[Db(r)] # None
  BY <1>3 DEF Connects, Db
<1>6. ~Contested(r)
  BY <1>3 DEF Harms
<1>7. ASSUME db[Db(r)] \in Ids, Db(r) \notin strewn PROVE FALSE
  <2>1. CASE \E q \in Requests : op[q] = "install" /\ pc[q] \in HoldsDb /\ DbOf[at[q]] = Db(r) /\ db[Db(r)] = q
    <3>1. PICK q \in Requests : op[q] = "install" /\ pc[q] \in HoldsDb /\ DbOf[at[q]] = Db(r) /\ db[Db(r)] = q
      BY <2>1
    <3>2. at[q] \in Domains /\ pc[q] \in AfterDb \cup Dropping
      BY <3>1 DEF Control, Labels, HoldsDb, Dropping
    <3>3. QED
      BY <1>6, <3>1, <3>2 DEF Contested, Stakes, Installing
  <2>2. CASE \E d \in Domains : DbOf[d] = Db(r) /\ Counts(d, PastDb) /\ db[Db(r)] = row[d].id
    BY <1>6, <2>2 DEF Contested, Stakes, Installed, Counts
  <2>3. QED
    BY <1>1, <1>7, <2>1, <2>2 DEF Owned
<1>8. QED
  BY <1>2, <1>3, <1>4, <1>5, <1>7 DEF Ids

LEMMA MakingStep ==
  ASSUME TypeOK, Labels, RowIds, Overlooked, Making, Owned, [Next]_vars
  PROVE  Making'
<1>1. Control
  BY DEF Control, TypeOK
<1>2. SUFFICES ASSUME NEW r \in Requests, op'[r] = "install", r \notin harmed' PROVE Makes(r)'
  BY DEF Making
<1>3. CASE pc'[r] = "createdb"
  BY <1>3 DEF Makes, AfterDb, AfterUser, AfterFiles, Configured, AfterTables
<1>4. CASE pc'[r] \in Dropping
  BY <1>4 DEF Makes, AfterDb, AfterUser, AfterFiles, Configured, AfterTables, Dropping
<1>5. CASE /\ pc'[r] # "createdb" /\ pc'[r] \notin Dropping
           /\ op[r] = "install" /\ at'[r] = at[r]
  <2>1. Makes(r)
    BY <1>1, <1>2, <1>5, Grows DEF Making
  <2>2. at[r] \in Domains /\ Db(r)' = Db(r) /\ User(r)' = User(r)
    BY <1>5 DEF Labels, Db, User
  <2>3. Db(r) \in Dbs /\ User(r) \in Users
    BY <2>2, Names DEF Db, User
  <2>4. \/ pc'[r] = pc[r]
        \/ pc'[r] = "createuser" /\ CreateDb(r)
        \/ pc'[r] = "grant" /\ CreateUser(r)
        \/ pc'[r] = "download" /\ Grant(r)
        \/ pc'[r] = "config" /\ Download(r)
        \/ pc'[r] = "install" /\ Config(r)
        \/ pc'[r] = "readversion" /\ CoreInstall(r)
        \/ pc'[r] = "insert" /\ InstallVersion(r)
    BY <1>1, <1>2, <1>5, InstallStep
  <2> USE DEF AfterDb, AfterUser, AfterFiles, Configured, AfterTables
  <2>5. pc'[r] \in AfterDb => db'[Db(r)] # None
    <3>1. CASE CreateDb(r)
      BY <2>3, <3>1, Assumed DEF CreateDb, TypeOK, Assumptions
    <3>2. CASE pc[r] \in AfterDb
      BY <1>1, <1>2, <1>5, <2>1, <2>2, <2>3, <3>2, InstallStakes, DbStep, Assumed
         DEF Makes, Assumptions, Ids
    <3>3. QED
      BY <2>4, <3>1, <3>2 DEF CreateUser, Grant, Download, Config, CoreInstall, InstallVersion
  <2>6. pc'[r] \in AfterUser => user'[User(r)] # None
    <3>1. CASE CreateUser(r) /\ pc'[r] = "grant"
      <4>1. user' = [user EXCEPT ![User(r)] = IF @ = None THEN r ELSE @]
        BY <1>1, <3>1 DEF CreateUser, Return, Goto, Control
      <4>2. QED
        BY <2>3, <4>1, Assumed DEF TypeOK, Assumptions, Ids
    <3>2. CASE pc[r] \in AfterUser
      BY <1>1, <1>2, <1>5, <2>1, <2>2, <2>3, <3>2, InstallStakes, UserStep DEF Makes
    <3>3. QED
      BY <2>4, <3>1, <3>2 DEF Grant, Download, Config, CoreInstall, InstallVersion
  <2>7. pc'[r] \in AfterFiles => core'[at[r]] # 0
    <3>1. CASE Download(r) /\ pc'[r] = "config"
      BY <1>1, <2>2, <3>1 DEF Download, Newest, Goto, Control, TypeOK
    <3>2. CASE pc[r] \in AfterFiles
      BY <1>1, <1>2, <1>5, <2>1, <2>2, <3>2, InstallStakes, RootStep DEF Makes
    <3>3. QED
      BY <2>4, <3>1, <3>2 DEF Config, CoreInstall, InstallVersion
  <2>8. pc'[r] \in Configured =>
          /\ user'[User(r)] = r
          /\ config'[at[r]] # None
          /\ config'[at[r]].pass = r
          /\ r \notin unsure' => ~config'[at[r]].debug
    <3>1. CASE Config(r) /\ pc'[r] = "install"
      <4>1. user[User(r)] = r /\ user' = user /\ config' = [config EXCEPT ![at[r]] = [pass |-> r, debug |-> FALSE]]
        BY <1>1, <3>1 DEF Config, Goto, Control
      <4>2. config'[at[r]] = [pass |-> r, debug |-> FALSE]
        BY <2>2, <4>1 DEF TypeOK
      <4>3. config'[at[r]] \in Configs
        BY <4>2 DEF Configs, Ids
      <4>4. config'[at[r]] # None
        BY <4>3, Assumed, Zenon DEF Assumptions
      <4>5. QED
        BY <4>1, <4>2, <4>4
    <3>2. CASE pc[r] \in Configured
      <4>1. user'[User(r)] = user[User(r)]
        BY <1>1, <1>2, <1>5, <2>1, <2>2, <2>3, <3>2, InstallStakes, UserStep DEF Makes
      <4>2. r \in Stakes({at[r]}, AfterFiles)
        BY <1>5, <2>2, <3>2, InstallStakes
      <4>3. /\ config'[at[r]] # None /\ config'[at[r]].pass = r
            /\ r \notin unsure' /\ config'[at[r]].debug # config[at[r]].debug =>
                 (Config(r) /\ ~config'[at[r]].debug) \/ \E q \in Requests : seen[q] = r /\ SetDebug(q) /\ at[q] = at[r]
        BY <1>2, <2>1, <2>2, <3>2, <4>2, ConfigStep DEF Makes, User
      <4>4. \A q \in Requests : seen[q] # r
        BY <3>2 DEF RowIds
      <4>5. r \notin unsure' => ~config[at[r]].debug
        BY <1>1, <2>1, <3>2, Grows DEF Makes
      <4>6. QED
        BY <2>1, <3>2, <4>1, <4>3, <4>4, <4>5 DEF Makes
    <3>3. QED
      BY <2>4, <3>1, <3>2 DEF CoreInstall, InstallVersion
  <2>9. pc'[r] \in AfterTables => /\ db'[Db(r)] \in Ids
                                  /\ Db(r) \notin strewn' => db'[Db(r)] = r
    <3>1. CASE pc[r] \in AfterTables
      BY <1>1, <1>2, <1>5, <2>1, <2>2, <2>3, <3>1, InstallStakes, DbStep, Assumed DEF Makes, Assumptions
    <3>2. QED
      BY <1>1, <1>2, <2>4, <3>1, TablesMade DEF InstallVersion
  <2>10. pc'[r] = "insert" /\ r \notin unsure' => told'[r] = core'[at[r]]
    <3>1. CASE pc[r] # "insert"
      BY <2>4, <3>1 DEF InstallVersion, Misleads, host, TypeOK
    <3>2. ASSUME pc[r] = "insert", pc'[r] = "insert", r \notin unsure' PROVE told'[r] = core'[at[r]]
      <4>1. told[r] = core[at[r]]
        BY <1>1, <2>1, <3>2, Grows DEF Makes
      <4>2. told'[r] = told[r]
        BY <1>1, <1>2, <3>2, ToldKept
      <4>3. r \in Stakes({at[r]}, AfterFiles) /\ r \in Pending(at[r])
        BY <1>5, <2>2, <3>2, InstallStakes DEF Pending, Installing
      <4>4. ASSUME NEW q \in Requests, Download(q) \/ Upgrade(q), at[q] = at[r] PROVE core' = core
        BY <3>2, <4>3, <4>4 DEF Download, Upgrade, Crossed, Misleads
      <4>5. core'[at[r]] = core[at[r]]
        BY <1>1, <1>2, <2>2, <4>3, <4>4, RootStep
      <4>6. QED
        BY <4>1, <4>2, <4>5
    <3>3. QED
      BY <3>1, <3>2
  <2>11. QED
    BY <1>5, <2>2, <2>5, <2>6, <2>7, <2>8, <2>9, <2>10 DEF Makes
<1>6. QED
  BY <1>1, <1>2, <1>3, <1>4, <1>5, InstallStep

\* Whose tables a database has.
LEMMA OwnedStep == ASSUME TypeOK, Labels, RowIds, Owned, [Next]_vars PROVE Owned'
<1>1. Control
  BY DEF Control, TypeOK
<1> DEFINE Held(x) ==
      \/ \E r \in Requests : op[r] = "install" /\ pc[r] \in HoldsDb /\ DbOf[at[r]] = x /\ db[x] = r
      \/ \E d \in Domains : DbOf[d] = x /\ Counts(d, PastDb) /\ db[x] = row[d].id
<1>2. SUFFICES ASSUME NEW x \in Dbs, db'[x] \in Ids, x \notin strewn' PROVE Held(x)'
  BY DEF Owned
<1>3. \A r \in Requests : DropDb(r) => Db(r) # x
  BY <1>2, Assumed DEF DropDb, Strews, TypeOK, Assumptions
<1>4. x \notin strewn
  <2>1. \A r \in Requests : DropUser(r) => User(r) # x
    BY <1>1, AtWork, NameAssumption DEF DropUser, NameAssumption, InFlight, Dropping
  <2>2. QED
    BY <1>1, <1>2, <1>3, <2>1, StrewnStep
<1>5. ASSUME NEW r \in Requests, op[r] = "install", pc[r] \in HoldsDb, DbOf[at[r]] = x, db'[x] = r
      PROVE  Held(x)'
  <2>1. CASE op'[r] = "install" /\ at'[r] = at[r] /\ pc'[r] \in HoldsDb
    BY <1>5, <2>1
  <2>2. CASE Insert(r) /\ row'[at[r]] # None /\ row'[at[r]].id = r
    <3>1. PICK d \in Domains : d = at[r]
      BY <1>5 DEF Labels
    <3>2. Counts(d, PastDb)'
      BY <1>1, <2>2, <3>1, NewRowCounts
    <3>3. QED
      BY <1>5, <2>2, <3>1, <3>2
  <2>3. QED
    BY <1>2, <1>3, <1>5, <2>1, <2>2, HolderDbStep DEF Db
<1>6. ASSUME NEW d \in Domains, DbOf[d] = x, Counts(d, PastDb), db'[x] = row[d].id PROVE Held(x)'
  <2>1. \A r \in Requests : DropDb(r) => at[r] # d
    BY <1>3, <1>6 DEF Db
  <2>2. DbOf[d] \notin strewn' /\ PastDb # PastUser
    BY <1>2, <1>6 DEF PastDb, PastUser
  <2>3. Counts(d, PastDb)'
    BY <2>1, <2>2, <1>6, CountsStep
  <2>4. row'[d].id = row[d].id
    BY <1>1, <1>6, <2>3, RowChange DEF Counts, HasRow
  <2>5. QED
    BY <1>6, <2>3, <2>4
<1>7. ASSUME NEW r \in Requests, CoreInstall(r), Db(r) = x, db'[x] = r PROVE Held(x)'
  <2>1. op[r] = "install"
    BY <1>7 DEF CoreInstall, Labels, May, Dropping
  <2>2. op'[r] = "install" /\ at'[r] = at[r] /\ pc'[r] \in HoldsDb
    BY <1>1, <1>7, <2>1 DEF CoreInstall, Goto, Control, locals, kept, HoldsDb, AfterDb, AfterUser, AfterFiles
  <2>3. QED
    BY <1>7, <2>2 DEF Db
<1>8. db'[x] = db[x] \/ \E r \in Requests : CoreInstall(r) /\ Db(r) = x /\ db'[x] = r
  <2>1. db \in [Dbs -> Ids \cup {Empty, None}]
    BY DEF TypeOK
  <2>2. ASSUME NEW r \in Requests, CreateDb(r) \/ CoreInstall(r) \/ DropDb(r)
        PROVE  db'[x] = db[x] \/ (CoreInstall(r) /\ Db(r) = x /\ db'[x] = r)
    BY <1>2, <1>3, <2>1, <2>2, Assumed DEF CreateDb, CoreInstall, DropDb, Assumptions
  <2>3. QED
    BY <2>2, Frames DEF Next, RemoveDomain, DropDomain, Crash, Quiet, host, vars
<1>9. CASE db'[x] = db[x]
  BY <1>2, <1>4, <1>5, <1>6, <1>9 DEF Owned
<1>10. QED
  BY <1>7, <1>8, <1>9

\* The last INSERT keeps the host as it is.
LEMMA InsertKeeps ==
  ASSUME TypeOK, Labels, NEW r \in Requests, Insert(r), NEW d \in Domains, at[r] = d,
         row[d] = None, row'[d] # None
  PROVE  /\ op[r] = "install"
         /\ UNCHANGED <<core, config, db, user, harmed, unsure, strewn>>
         /\ row'[d].debug = FALSE
         /\ row'[d].version = told[r]
<1>1. op[r] = "install"
  BY DEF Insert, Labels, May, Dropping
<1>2. /\ row' = [row EXCEPT ![d] = [id |-> r, debug |-> FALSE, version |-> told[r]]]
      /\ strewn' = strewn
  BY DEF Insert, TypeOK
<1>3. row'[d] = [id |-> r, debug |-> FALSE, version |-> told[r]]
  BY <1>2 DEF TypeOK
<1>4. QED
  BY <1>1, <1>2, <1>3 DEF Insert, host

LEMMA WorkingStep ==
  ASSUME TypeOK, Labels, RowIds, Overlooked, Making, Working, [Next]_vars
  PROVE  Working'
<1>1. Control
  BY DEF Control, TypeOK
<1>2. SUFFICES ASSUME NEW d \in Domains, row'[d] # None, row'[d].id \notin harmed' PROVE Works(d)'
  BY DEF Working, HasRow
<1>3. UserOf[d] \in Users /\ DbOf[d] \in Dbs
  BY Names
<1>4. CASE row[d] # None /\ row'[d].id = row[d].id
  <2>1. Works(d)
    BY <1>1, <1>2, <1>4, Grows DEF Working, HasRow
  <2> DEFINE i == row[d].id
  <2>2. /\ i \in Stakes({d}, AfterFiles)
        /\ i \in Stakes({e \in Domains : DbOf[e] = DbOf[d]}, AfterDb)
        /\ i \in Stakes({e \in Domains : UserOf[e] = UserOf[d]}, AfterUser)
        /\ i \notin harmed' /\ i \in Ids
    BY <1>2, <1>4, RowStakes DEF HasRow, TypeOK, Rows
  <2> HIDE DEF i
  <2>3. user'[UserOf[d]] = i
    <3>1. user[UserOf[d]] # None /\ user[UserOf[d]] = i
      BY <2>1, <2>2, Assumed DEF Works, Assumptions, i
    <3>2. QED
      BY <1>1, <1>3, <2>2, <3>1, UserStep
  <2>4. core'[d] # 0
    BY <1>1, <2>1, <2>2, RootStep DEF Works, i
  <2>5. config'[d] # None /\ config'[d].pass = i
    BY <2>1, <2>2, ConfigStep DEF Works, i
  <2>6. db'[DbOf[d]] \in Ids /\ (DbOf[d] \notin strewn' => db'[DbOf[d]] = i)
    <3>1. db[DbOf[d]] # None /\ db[DbOf[d]] # Empty
      BY <2>1, Assumed DEF Works, Assumptions
    <3>2. db'[DbOf[d]] = db[DbOf[d]] /\ (DbOf[d] \in strewn => DbOf[d] \in strewn')
      BY <1>1, <1>3, <2>2, <3>1, DbStep
    <3>3. QED
      BY <2>1, <3>2 DEF Works, i
  <2>7. QED
    BY <1>4, <2>3, <2>4, <2>5, <2>6 DEF Works, i
<1>5. ASSUME NEW r \in Requests, Insert(r), at[r] = d, row[d] = None, row'[d].id = r PROVE Works(d)'
  <2>1. op[r] = "install" /\ UNCHANGED <<core, config, db, user, harmed, strewn>>
    BY <1>2, <1>5, InsertKeeps
  <2>2. Makes(r)
    BY <1>2, <1>5, <2>1 DEF Making
  <2>3. pc[r] = "insert"
    BY <1>5 DEF Insert
  <2>4. QED
    BY <1>5, <2>1, <2>2, <2>3 DEF Makes, Works, AfterFiles, Configured, AfterTables, Db, User
<1>6. QED
  BY <1>1, <1>2, <1>4, <1>5, RowChange

-----------------------------------------------------------------------------
(* What the rows tell                                                      *)

\* What a request has read, and of which domain.
LEMMA SeenStep ==
  ASSUME Control, [Next]_vars, NEW r \in Requests
  PROVE  \/ seen'[r] = None
         \/ seen'[r] = seen[r] /\ at'[r] = at[r]
         \/ \E d \in Domains : HasRow(d) /\ seen'[r] = row[d].id /\ at'[r] = d
<1> DEFINE Goal == \/ seen'[r] = None
                   \/ seen'[r] = seen[r] /\ at'[r] = at[r]
                   \/ \E d \in Domains : HasRow(d) /\ seen'[r] = row[d].id /\ at'[r] = d
<1>1. CASE UNCHANGED <<pc, locals>>
  BY <1>1 DEF locals, kept
<1>2. ASSUME NEW q \in Requests, Step(q), q # r PROVE Goal
  BY <1>2, Alone
<1>3. CASE Step(r)
  <2>1. ASSUME NEW d \in Domains, NEW w \in BOOLEAN,
               Install(r, d) \/ Uninstall(r, d) \/ UpdateCore(r, d) \/ ToggleDebug(r, d, w)
        PROVE  Goal
    BY <2>1 DEF Control, Install, InstallOpen, Uninstall, UpdateCore, ToggleDebug, Begin
  <2>2. CASE Return(r)
    BY <2>2 DEF Return, Control
  <2>3. QED
    BY <1>3, <2>1, <2>2, Onwards DEF Step, locals, kept
<1>4. CASE Crash
  BY <1>4 DEF Crash
<1>5. QED
  BY <1>1, <1>2, <1>3, <1>4 DEF Next, RemoveDomain, DropDomain, Quiet, vars

\* Nobody has read a row that is new.
LEMMA Unread ==
  ASSUME RowIds, Control, NEW r \in Requests, Insert(r)
  PROVE  \A q \in Requests : seen[q] # r /\ seen'[q] # r
<1>1. pc[r] # "done" /\ seen' = [seen EXCEPT ![r] = None]
  BY DEF Insert, Return
<1>2. \A q \in Requests : seen[q] # r
  BY <1>1 DEF RowIds
<1>3. QED
  BY <1>1, <1>2, Assumed DEF Control, Assumptions, Ids

LEMMA PlacesStep == ASSUME TypeOK, Labels, RowIds, Places, [Next]_vars PROVE Places'
<1>1. Control
  BY DEF Control, TypeOK
<1> USE DEF HasRow
<1>2. ASSUME NEW d \in Domains, row'[d] # None
      PROVE  \/ row[d] # None /\ row'[d].id = row[d].id
             \/ \E r \in Requests : row[d] = None /\ Insert(r) /\ at[r] = d /\ row'[d].id = r
  BY <1>1, <1>2, RowChange
<1>3. ASSUME NEW r \in Requests, Insert(r), NEW e \in Domains, row[e] # None PROVE row[e].id # r
  BY <1>3 DEF RowIds, Insert
<1>4. \A q, r \in Requests : Insert(q) /\ Insert(r) => q = r
  <2>1. SUFFICES ASSUME NEW q \in Requests, NEW r \in Requests, Insert(q), Insert(r), q # r PROVE FALSE
    OBVIOUS
  <2>2. pc' = [pc EXCEPT ![q] = "done"] /\ pc' = [pc EXCEPT ![r] = "done"] /\ pc[q] = "insert"
    BY <2>1 DEF Insert, Return, Goto
  <2>3. QED
    BY <1>1, <2>1, <2>2 DEF Control
<1>5. ASSUME NEW d \in Domains, NEW e \in Domains, row'[d] # None, row'[e] # None, row'[d].id = row'[e].id
      PROVE  d = e
  BY <1>2, <1>3, <1>4, <1>5 DEF Places
<1>6. ASSUME NEW d \in Domains, NEW r \in Requests, row'[d] # None, seen'[r] = row'[d].id
      PROVE  at'[r] = d
  <2>1. row'[d].id # None
    BY <1>1, <1>6, RowType, Assumed DEF Rows, Assumptions
  <2>2. CASE row[d] # None /\ row'[d].id = row[d].id
    BY <1>1, <1>6, <2>1, <2>2, SeenStep DEF Places
  <2>3. QED
    BY <1>1, <1>2, <1>6, <2>2, Unread
<1>7. ASSUME NEW d \in Domains, NEW r \in Requests, row'[d] # None, row'[d].id = First, at'[r] = d, seen'[r] # None
      PROVE  seen'[r] = First
  <2>1. row[d] # None /\ row[d].id = First
    BY <1>2, <1>7, Assumed DEF Assumptions
  <2>2. QED
    BY <1>1, <1>7, <2>1, SeenStep DEF Places
<1>8. QED
  BY <1>5, <1>6, <1>7 DEF Places

\* How a ToggleDebug goes on.
LEMMA ToggleStep ==
  ASSUME TypeOK, Labels, [Next]_vars, NEW r \in Requests, op'[r] = "toggle"
  PROVE  \/ pc'[r] = "setdebug" /\ \E d \in Domains, w \in BOOLEAN : ToggleDebug(r, d, w)
         \/ /\ op[r] = "toggle" /\ at'[r] = at[r] /\ seen'[r] = seen[r] /\ want'[r] = want[r]
            /\ pc'[r] = pc[r] \/ (pc'[r] = "storedebug" /\ SetDebug(r))
<1> DEFINE Goal == \/ pc'[r] = "setdebug" /\ \E d \in Domains, w \in BOOLEAN : ToggleDebug(r, d, w)
                   \/ /\ op[r] = "toggle" /\ at'[r] = at[r] /\ seen'[r] = seen[r] /\ want'[r] = want[r]
                      /\ pc'[r] = pc[r] \/ (pc'[r] = "storedebug" /\ SetDebug(r))
<1>0. Control /\ want \in [Requests -> BOOLEAN]
  BY DEF Control, TypeOK
<1>1. CASE UNCHANGED <<pc, locals>>
  BY <1>1 DEF locals, kept
<1>2. ASSUME NEW q \in Requests, Step(q), q # r PROVE Goal
  <2>1. ASSUME NEW d \in Domains, NEW w \in BOOLEAN,
               Install(q, d) \/ Uninstall(q, d) \/ UpdateCore(q, d) \/ ToggleDebug(q, d, w)
        PROVE  want'[r] = want[r]
    BY <1>0, <1>2, <2>1 DEF Install, InstallOpen, Uninstall, UpdateCore, ToggleDebug, Begin
  <2>2. ASSUME Return(q) \/ UNCHANGED kept PROVE want'[r] = want[r]
    BY <1>0, <1>2, <2>2 DEF Return, locals, kept
  <2>3. want'[r] = want[r]
    BY <1>0, <1>2, <2>1, <2>2, Onwards DEF Step
  <2>4. QED
    BY <1>0, <1>2, <2>3, Alone
<1>3. CASE Step(r)
  <2>1. ASSUME NEW d \in Domains, NEW w \in BOOLEAN, ToggleDebug(r, d, w) PROVE Goal
    BY <1>0, <2>1 DEF ToggleDebug, Begin, Goto, Control
  <2>2. ASSUME NEW d \in Domains, Install(r, d) \/ Uninstall(r, d) \/ UpdateCore(r, d) PROVE FALSE
    BY <1>0, <2>2 DEF Control, Install, InstallOpen, Uninstall, UpdateCore, Begin
  <2>3. ~Return(r)
    BY <1>0 DEF Return, Control
  <2>4. ASSUME NEW l \in May(op[r]) \cap InFlight, Goto(r, l), UNCHANGED kept,
               \A d \in Domains, w \in BOOLEAN : ~ToggleDebug(r, d, w)
        PROVE  Goal
    <3>1. op[r] = "toggle" /\ at'[r] = at[r] /\ seen'[r] = seen[r] /\ want'[r] = want[r]
      BY <2>4 DEF locals, kept
    <3>2. pc[r] \in {"setdebug", "storedebug"}
      BY <3>1 DEF Labels, May
    <3>3. pc'[r] = l /\ l \in {"setdebug", "storedebug"}
      BY <1>0, <2>4, <3>1 DEF Goto, Control, May
    <3>4. pc[r] = "setdebug" => SetDebug(r)
      BY <1>3, <2>2, <2>3, <2>4
         DEF Step, Refused, CreateDb, CreateUser, Grant, Download, Config, CoreInstall, InstallVersion, Insert, DropDb,
         DropUser, RemoveFiles, RemoveConfig, DeleteRow, Upgrade, ReadVersion, StoreVersion, StoreDebug
    <3>5. pc[r] = "storedebug" => FALSE
      BY <1>3, <2>2, <2>3, <2>4
         DEF Step, Refused, CreateDb, CreateUser, Grant, Download, Config, CoreInstall, InstallVersion, Insert, DropDb,
         DropUser, RemoveFiles, RemoveConfig, DeleteRow, Upgrade, ReadVersion, StoreVersion, SetDebug, StoreDebug
    <3>6. QED
      BY <3>1, <3>2, <3>3, <3>4, <3>5
  <2>5. QED
    BY <1>0, <1>3, <2>1, <2>2, <2>3, <2>4, Onwards DEF Step
<1>4. ~Crash
  BY DEF Crash
<1>5. QED
  BY <1>1, <1>2, <1>3, <1>4 DEF Next, RemoveDomain, DropDomain, Quiet, vars

\* How an UpdateCore goes on once wp has updated the site.
LEMMA UpdateStep ==
  ASSUME TypeOK, Labels, [Next]_vars, NEW r \in Requests, pc'[r] = "storeversion"
  PROVE  /\ seen'[r] = seen[r] /\ at'[r] = at[r]
         /\ \/ pc[r] = "storeversion" /\ told'[r] = told[r]
            \/ /\ pc[r] = "version" /\ ReadVersion(r)
               /\ core' = core /\ told'[r] = core[at[r]]
<1> DEFINE Goal == /\ seen'[r] = seen[r] /\ at'[r] = at[r]
                   /\ pc[r] = "storeversion" \/ (ReadVersion(r) /\ told'[r] = core[at[r]])
<1>1. Control
  BY DEF Control, TypeOK
<1>2. CASE UNCHANGED <<pc, locals>>
  BY <1>2 DEF locals
<1>3. ASSUME NEW q \in Requests, Step(q), q # r PROVE Goal
  BY <1>1, <1>3, Alone
<1>4. ASSUME Step(r) PROVE Goal
  <2>1. ASSUME NEW d \in Domains, NEW w \in BOOLEAN,
               Install(r, d) \/ Uninstall(r, d) \/ UpdateCore(r, d) \/ ToggleDebug(r, d, w)
        PROVE  FALSE
    BY <1>1, <2>1 DEF Control, Install, InstallOpen, Uninstall, UpdateCore, ToggleDebug, Begin, Goto
  <2>2. ~Return(r)
    BY <1>1 DEF Return, Goto, Control
  <2>3. ReadVersion(r)
    <3>1. ~(Refused(r) \/ CreateDb(r) \/ CreateUser(r) \/ Grant(r) \/ Download(r) \/ Config(r))
      BY <1>1, <2>2 DEF Refused, CreateDb, CreateUser, Grant, Download, Config, Goto, Control
    <3>2. ~(CoreInstall(r) \/ InstallVersion(r) \/ Insert(r) \/ DropDb(r) \/ DropUser(r) \/ RemoveFiles(r))
      BY <1>1, <2>2 DEF CoreInstall, InstallVersion, Insert, DropDb, DropUser, RemoveFiles, Goto, Control
    <3>3. ~(RemoveConfig(r) \/ DeleteRow(r) \/ Upgrade(r) \/ StoreVersion(r) \/ SetDebug(r) \/ StoreDebug(r))
      BY <1>1, <2>2 DEF RemoveConfig, DeleteRow, Upgrade, StoreVersion, SetDebug, StoreDebug, Goto, Control
    <3>4. QED
      BY <1>4, <2>1, <3>1, <3>2, <3>3 DEF Step
  <2>4. told \in [Requests -> Releases]
    BY DEF TypeOK
  <2>5. UNCHANGED <<op, at, seen, want>> /\ told' = [told EXCEPT ![r] = core[at[r]]]
    BY <2>2, <2>3 DEF ReadVersion
  <2>6. QED
    BY <2>3, <2>4, <2>5
<1>5. CASE Crash
  BY <1>5 DEF Crash, Running, InFlight, Others
<1>6. Goal
  BY <1>2, <1>3, <1>4, <1>5 DEF Next, RemoveDomain, DropDomain, Quiet, vars
<1>7. pc[r] = "storeversion" => told'[r] = told[r]
  BY <1>1, ToldKept
<1>8. QED
  BY <1>6, <1>7 DEF ReadVersion, host

\* A request that has changed the site stores that in the row, or a fault has
\* misled the site.
LEMMA Leaves ==
  ASSUME TypeOK, Labels, [Next]_vars, NEW r \in Requests, pc[r] \in Storing
  PROVE  \/ pc'[r] = pc[r] /\ seen'[r] = seen[r]
         \/ pc[r] = "version" /\ pc'[r] = "storeversion" /\ seen'[r] = seen[r]
         \/ pc[r] = "version" /\ core[at[r]] = 0
         \/ pc[r] = "storeversion" /\ StoreVersion(r)
         \/ pc[r] = "storedebug" /\ StoreDebug(r)
         \/ seen[r] \in unsure'
<1>1. Control
  BY DEF Control, TypeOK
<1>2. CASE UNCHANGED <<pc, locals>>
  BY <1>2 DEF locals
<1>3. ASSUME NEW q \in Requests, Step(q), q # r PROVE pc'[r] = pc[r] /\ seen'[r] = seen[r]
  BY <1>1, <1>3, Alone
<1>4. CASE Step(r)
  <2>1. ReadVersion(r) \/ StoreVersion(r) \/ StoreDebug(r)
    BY <1>4 DEF Step, Install, InstallOpen, Uninstall, UpdateCore, ToggleDebug, Begin, MayStart, Refused,
       CreateDb, CreateUser, Grant, Download, Config, CoreInstall, InstallVersion, Insert, DropDb, DropUser,
       RemoveFiles, RemoveConfig, DeleteRow, Upgrade, SetDebug, Storing
  <2>2. CASE ReadVersion(r)
    BY <1>1, <2>2 DEF ReadVersion, Goto, Misleads, Control
  <2>3. QED
    BY <2>1, <2>2 DEF StoreVersion, StoreDebug
<1>5. CASE Crash
  BY <1>5 DEF Crash, Misleads
<1>6. QED
  BY <1>2, <1>3, <1>4, <1>5 DEF Next, RemoveDomain, DropDomain, Quiet, vars

\* The two statements that change a row, by the id that was read.
LEMMA StoresVersion ==
  ASSUME TypeOK, NEW r \in Requests, StoreVersion(r), NEW d \in Domains, at[r] = d, row[d] # None
  PROVE  /\ row'[d].debug = row[d].debug
         /\ seen[r] # row[d].id => row'[d].version = row[d].version
         /\ seen[r] = row[d].id /\ seen[r] \notin unsure' => row'[d].version = told[r]
<1>1. row[d] \in Rows /\ told[r] \in Releases
  BY DEF TypeOK
<1>2. CASE row' = row /\ seen[r] \in unsure'
  BY <1>2
<1>3. CASE seen[r] = row[d].id /\ row'[d] = [row[d] EXCEPT !.version = told[r]]
  BY <1>1, <1>3 DEF Rows
<1>4. \/ row' = row /\ seen[r] \in unsure'
      \/ seen[r] = row[d].id /\ row'[d] = [row[d] EXCEPT !.version = told[r]]
      \/ seen[r] # row[d].id /\ row'[d] = row[d]
  BY DEF StoreVersion, Changed, HasRow, TypeOK, Misleads
<1>5. QED
  BY <1>2, <1>3, <1>4

LEMMA StoresDebug ==
  ASSUME TypeOK, NEW r \in Requests, StoreDebug(r), NEW d \in Domains, at[r] = d, row[d] # None
  PROVE  /\ row'[d].version = row[d].version
         /\ seen[r] # row[d].id => row'[d].debug = row[d].debug
         /\ seen[r] = row[d].id /\ seen[r] \notin unsure' => row'[d].debug = want[r]
<1>1. row[d] \in Rows /\ want[r] \in BOOLEAN
  BY DEF TypeOK
<1>2. CASE row' = row /\ seen[r] \in unsure'
  BY <1>2
<1>3. CASE seen[r] = row[d].id /\ row'[d] = [row[d] EXCEPT !.debug = want[r]]
  BY <1>1, <1>3 DEF Rows
<1>4. \/ row' = row /\ seen[r] \in unsure'
      \/ seen[r] = row[d].id /\ row'[d] = [row[d] EXCEPT !.debug = want[r]]
      \/ seen[r] # row[d].id /\ row'[d] = row[d]
  BY DEF StoreDebug, Changed, HasRow, TypeOK, Misleads
<1>5. QED
  BY <1>2, <1>3, <1>4

\* Nothing else does.
LEMMA RecordStep ==
  ASSUME TypeOK, Labels, [Next]_vars, NEW d \in Domains, row[d] # None, row'[d] # None
  PROVE  \/ row'[d] = row[d]
         \/ \E r \in Requests : at[r] = d /\ (StoreVersion(r) \/ StoreDebug(r))
<1>1. Control /\ row \in [Domains -> Rows \cup {None}]
  BY DEF Control, TypeOK
<1>2. ASSUME NEW r \in Requests, Insert(r) PROVE row'[d] = row[d]
  BY <1>1, <1>2 DEF Insert, HasRow
<1>3. ASSUME NEW r \in Requests, DeleteRow(r) PROVE row'[d] = row[d]
  BY <1>1, <1>3 DEF DeleteRow
<1>4. ASSUME NEW r \in Requests, StoreVersion(r) \/ StoreDebug(r) PROVE row'[d] = row[d] \/ at[r] = d
  BY <1>1, <1>4 DEF StoreVersion, StoreDebug, Changed
<1>5. ASSUME NEW e \in Domains, RemoveDomain(e) \/ DropDomain(e) PROVE row'[d] = row[d]
  BY <1>1, <1>5 DEF RemoveDomain, DropDomain
<1>6. QED
  BY <1>2, <1>3, <1>4, <1>5, Frames DEF Next, Crash, Quiet, host, vars

\* An Upgrade that changes the files of a site which it does not mislead is by a
\* request that has read its row, while no other is about to store a version.
LEMMA CoreStep ==
  ASSUME TypeOK, Labels, [Next]_vars, NEW d \in Domains, NEW i \in Installed({d}),
         i \notin harmed' \cup unsure', \A r \in Requests : seen[r] = i => at[r] = d
  PROVE  \/ core'[d] = core[d]
         \/ /\ \E r \in Requests : pc'[r] = "version" /\ seen'[r] = i
            /\ \A r \in Requests : pc[r] = "storeversion" => seen[r] # i
<1>1. Control
  BY DEF Control, TypeOK
<1>2. i \in Stakes({d}, AfterFiles)
  BY DEF Stakes
<1>3. ASSUME NEW r \in Requests, Download(r), at[r] = d PROVE core' = core
  BY <1>3 DEF Download, Misleads
<1>4. ASSUME NEW r \in Requests, Upgrade(r), at[r] = d, core' # core
      PROVE  /\ pc'[r] = "version" /\ seen'[r] = i
             /\ i \notin Pending(d)
  <2>1. Crossed(r) = (Installed({d}) \ {seen[r]}) \cup Pending(d)
    BY <1>4 DEF Crossed
  <2>2. Crossed(r) \subseteq unsure' /\ (seen[r] \in unsure' \/ (Goto(r, "version") /\ UNCHANGED locals))
    BY <1>4 DEF Upgrade, Misleads
  <2>3. seen[r] = i /\ i \notin Pending(d)
    BY <2>1, <2>2
  <2>4. QED
    BY <1>1, <2>2, <2>3 DEF Goto, Control, locals
<1>5. i \notin Pending(d) => \A r \in Requests : pc[r] = "storeversion" => seen[r] # i
  BY DEF Pending
<1>6. QED
  BY <1>1, <1>2, <1>3, <1>4, <1>5, RootStep

LEMMA VersionAgreesStep ==
  ASSUME TypeOK, Labels, RowIds, Making, Working, Places, VersionAgrees, [Next]_vars
  PROVE  VersionAgrees'
<1>1. Control
  BY DEF Control, TypeOK
<1>2. SUFFICES ASSUME NEW d \in Domains, row'[d] # None, row'[d].id \notin harmed' \cup unsure'
               PROVE  /\ \A r \in Requests : pc'[r] = "storeversion" /\ seen'[r] = row'[d].id =>
                           told'[r] = core'[d]
                      /\ (\A r \in Requests : pc'[r] \in {"version", "storeversion"} => seen'[r] # row'[d].id) =>
                           row'[d].version = core'[d]
  BY DEF VersionAgrees, Sure, HasRow
<1>3. harmed \subseteq harmed' /\ unsure \subseteq unsure'
  BY <1>1, Grows
<1>4. ASSUME NEW q \in Requests, Insert(q), at[q] = d, row[d] = None, row'[d].id = q
      PROVE  /\ row'[d].version = core'[d]
             /\ \A r \in Requests : seen'[r] # row'[d].id
  <2>1. op[q] = "install" /\ UNCHANGED <<core, harmed, unsure>> /\ row'[d].version = told[q]
    BY <1>2, <1>4, InsertKeeps
  <2>2. pc[q] = "insert"
    BY <1>4 DEF Insert
  <2>3. told[q] = core[d]
    BY <1>2, <1>4, <2>1, <2>2 DEF Making, Makes
  <2>4. QED
    BY <1>1, <1>4, <2>1, <2>3, Unread
<1>5. CASE row[d] # None /\ row'[d].id = row[d].id
  <2> DEFINE i == row[d].id
  <2>1. i \notin harmed' \cup unsure' /\ i \in Installed({d})
    BY <1>2, <1>5 DEF HasRow, Installed
  <2>2. core[d] # 0
    BY <1>3, <1>5, <2>1 DEF Working, Works, HasRow
  <2>3. \A r \in Requests : seen[r] = i => at[r] = d
    BY <1>5 DEF Places, HasRow
  <2>4. \A r \in Requests : pc[r] = "storeversion" /\ seen[r] = i => told[r] = core[d]
    BY <1>3, <1>5, <2>1 DEF VersionAgrees, Sure, HasRow
  <2>5. (\A r \in Requests : pc[r] \in {"version", "storeversion"} => seen[r] # i) => row[d].version = core[d]
    BY <1>3, <1>5, <2>1 DEF VersionAgrees, Sure, HasRow
  <2>6. \A r \in Requests : seen[r] = i /\ seen[r] \notin unsure' /\ StoreVersion(r) => row'[d].version = told[r]
    BY <1>5, <2>3, StoresVersion
  <2>7. \A r \in Requests : at[r] = d /\ (StoreVersion(r) \/ StoreDebug(r)) =>
                              row'[d].version = row[d].version \/ (seen[r] = i /\ StoreVersion(r))
    BY <1>5, StoresVersion, StoresDebug
  <2>8. row'[d].id = i
    BY <1>5
  <2> HIDE DEF i
  <2>9. \/ core'[d] = core[d]
        \/ /\ \E r \in Requests : pc'[r] = "version" /\ seen'[r] = i
           /\ \A r \in Requests : pc[r] = "storeversion" => seen[r] # i
    BY <2>1, <2>3, CoreStep
  <2>10. ASSUME NEW r \in Requests, pc'[r] = "storeversion", seen'[r] = i PROVE told'[r] = core'[d]
    <3>1. seen[r] = i /\ at[r] = d
      BY <2>3, <2>10, UpdateStep
    <3>2. QED
      BY <2>4, <2>9, <2>10, <3>1, UpdateStep
  <2>11. ASSUME \A r \in Requests : pc'[r] \in {"version", "storeversion"} => seen'[r] # i
         PROVE  row'[d].version = core'[d]
    <3>1. core'[d] = core[d]
      BY <2>9, <2>11
    <3>2. CASE \A r \in Requests : pc[r] \in {"version", "storeversion"} => seen[r] # i
      BY <1>2, <1>5, <2>5, <2>7, <3>1, <3>2, RecordStep DEF StoreVersion
    <3>3. ASSUME NEW r \in Requests, pc[r] \in {"version", "storeversion"}, seen[r] = i
          PROVE  row'[d].version = core[d]
      <4>1. pc[r] = "storeversion" /\ StoreVersion(r)
        BY <2>1, <2>2, <2>3, <2>11, <3>3, Leaves DEF Storing
      <4>2. QED
        BY <2>1, <2>4, <2>6, <3>3, <4>1
    <3>4. QED
      BY <3>1, <3>2, <3>3
  <2>12. QED
    BY <2>8, <2>10, <2>11
<1>6. QED
  BY <1>1, <1>2, <1>4, <1>5, RowChange

LEMMA DebugAgreesStep ==
  ASSUME TypeOK, Labels, RowIds, Making, Working, Places, DebugAgrees, [Next]_vars
  PROVE  DebugAgrees'
<1>1. Control
  BY DEF Control, TypeOK
<1>2. SUFFICES ASSUME NEW d \in Domains, row'[d] # None, row'[d].id \notin harmed' \cup unsure'
               PROVE  /\ \A r \in Requests : pc'[r] = "storedebug" /\ seen'[r] = row'[d].id =>
                           config'[d].debug = want'[r]
                      /\ (\A r \in Requests : pc'[r] = "storedebug" => seen'[r] # row'[d].id) =>
                           row'[d].debug = config'[d].debug
  BY DEF DebugAgrees, Sure, HasRow
<1>3. harmed \subseteq harmed' /\ unsure \subseteq unsure'
  BY <1>1, Grows
<1>4. ASSUME NEW q \in Requests, Insert(q), at[q] = d, row[d] = None, row'[d].id = q
      PROVE  /\ row'[d].debug = config'[d].debug
             /\ \A r \in Requests : seen'[r] # q
  <2>1. op[q] = "install" /\ config' = config /\ row'[d].debug = FALSE
    BY <1>2, <1>4, InsertKeeps
  <2>2. config[d] # None /\ ~config[d].debug
    BY <1>2, <1>3, <1>4, <2>1 DEF Making, Makes, Insert, Configured, AfterTables
  <2>3. config[d].debug = FALSE
    BY <2>2 DEF TypeOK, Configs
  <2>4. QED
    BY <1>1, <1>4, <2>1, <2>3, Unread
<1>5. CASE row[d] # None /\ row'[d].id = row[d].id
  <2> DEFINE i == row[d].id
  <2>1. i \notin harmed' \cup unsure' /\ i \in Stakes({d}, AfterFiles) /\ i \in Ids
    BY <1>2, <1>5, RowStakes DEF HasRow, TypeOK, Rows
  <2>2. user[UserOf[d]] = i /\ config[d] # None /\ config[d].pass = i
    BY <1>3, <1>5, <2>1 DEF Working, Works, HasRow
  <2>3. \A r \in Requests : seen[r] = i => at[r] = d
    BY <1>5 DEF Places, HasRow
  <2>4. \A r \in Requests : pc[r] = "storedebug" /\ seen[r] = i => config[d].debug = want[r]
    BY <1>3, <1>5, <2>1 DEF DebugAgrees, Sure, HasRow
  <2>5. (\A r \in Requests : pc[r] = "storedebug" => seen[r] # i) => row[d].debug = config[d].debug
    BY <1>3, <1>5, <2>1 DEF DebugAgrees, Sure, HasRow
  <2>6. i \in Requests => pc[i] = "done"
    BY <1>5 DEF RowIds, HasRow
  <2>7. \A r \in Requests : seen[r] = i /\ seen[r] \notin unsure' /\ StoreDebug(r) => row'[d].debug = want[r]
    BY <1>5, <2>3, StoresDebug
  <2>8. \A r \in Requests : at[r] = d /\ (StoreVersion(r) \/ StoreDebug(r)) =>
                              row'[d].debug = row[d].debug \/ (seen[r] = i /\ StoreDebug(r))
    BY <1>5, StoresVersion, StoresDebug
  <2>9. row'[d].id = i
    BY <1>5
  <2> HIDE DEF i
  <2>10. config'[d].debug = config[d].debug \/ \E r \in Requests : seen[r] = i /\ SetDebug(r) /\ at[r] = d
    BY <2>1, <2>2, <2>6, ConfigStep DEF Config
  <2>11. ASSUME NEW r \in Requests, SetDebug(r), seen[r] = i
         PROVE  /\ pc'[r] = "storedebug" /\ seen'[r] = i
                /\ config'[d].debug = want[r] /\ want'[r] = want[r]
    <3>1. at[r] = d
      BY <2>3, <2>11
    <3>2. /\ config' = [config EXCEPT ![d].debug = want[r]]
          /\ Goto(r, "storedebug") /\ UNCHANGED locals
      BY <2>1, <2>2, <2>11, <3>1 DEF SetDebug, Overruled, Misleads
    <3>3. config'[d] = [config[d] EXCEPT !.debug = want[r]] /\ config[d] \in Configs
      BY <2>2, <3>2 DEF TypeOK
    <3>4. config'[d].debug = want[r]
      BY <3>3 DEF Configs
    <3>5. QED
      BY <1>1, <2>11, <3>2, <3>4 DEF Goto, Control, locals, kept
  <2>12. ASSUME NEW r \in Requests, pc'[r] = "storedebug", seen'[r] = i PROVE config'[d].debug = want'[r]
    <3>1. Control'
      BY <1>1, ControlStep
    <3>2. op'[r] = "toggle"
      BY <2>12, <3>1 DEF Control, Labels, May, Ops, AfterDb, AfterUser, AfterFiles, Dropping
    <3>3. CASE SetDebug(r) /\ seen[r] = i
      BY <2>11, <3>3
    <3>4. CASE op[r] = "toggle" /\ pc[r] = "storedebug" /\ seen[r] = i /\ want'[r] = want[r]
      <4>1. ASSUME NEW q \in Requests, seen[q] = i, SetDebug(q) PROVE config'[d].debug = want[r]
        <5>1. at[q] = d /\ at[r] = d
          BY <2>3, <3>4, <4>1
        <5>2. want[q] # want[r] => i \in unsure'
          BY <2>2, <3>4, <4>1, <5>1 DEF SetDebug, Overruled, Misleads
        <5>3. QED
          BY <2>1, <2>11, <4>1, <5>2
      <4>2. QED
        BY <2>4, <2>10, <3>4, <4>1
    <3>5. QED
      BY <2>12, <3>2, <3>3, <3>4, ToggleStep
  <2>13. ASSUME \A r \in Requests : pc'[r] = "storedebug" => seen'[r] # i PROVE row'[d].debug = config'[d].debug
    <3>1. config'[d].debug = config[d].debug
      BY <2>10, <2>11, <2>13
    <3>2. CASE \A r \in Requests : pc[r] = "storedebug" => seen[r] # i
      BY <1>2, <1>5, <2>5, <2>8, <3>1, <3>2, RecordStep DEF StoreDebug
    <3>3. ASSUME NEW r \in Requests, pc[r] = "storedebug", seen[r] = i PROVE row'[d].debug = config[d].debug
      <4>1. StoreDebug(r)
        BY <2>1, <2>13, <3>3, Leaves DEF Storing
      <4>2. QED
        BY <2>1, <2>4, <2>7, <3>3, <4>1
    <3>4. QED
      BY <3>1, <3>2, <3>3
  <2>14. QED
    BY <2>9, <2>12, <2>13
<1>6. ASSUME NEW q \in Requests, Insert(q), at[q] = d, row[d] = None, row'[d].id = q
      PROVE  /\ \A r \in Requests : pc'[r] = "storedebug" /\ seen'[r] = row'[d].id => config'[d].debug = want'[r]
             /\ row'[d].debug = config'[d].debug
  BY <1>4, <1>6
<1>7. QED
  BY <1>1, <1>2, <1>5, <1>6, RowChange

-----------------------------------------------------------------------------
(* The theorems                                                            *)

\* At first no request is under way, and a site's database has its row.
LEMMA InitHolds == Init => IInv
<1> SUFFICES ASSUME Init PROVE IInv
  OBVIOUS
<1>1. PICK D \in SUBSET Domains :
        /\ \A d, e \in D : d = e
        /\ domain = [d \in Domains |-> "there"]
        /\ row = [d \in Domains |->
                    IF d \in D THEN [id |-> First, debug |-> FALSE, version |-> 1] ELSE None]
        /\ core = [d \in Domains |-> IF d \in D THEN 1 ELSE 0]
        /\ config = [d \in Domains |-> IF d \in D THEN [pass |-> First, debug |-> FALSE] ELSE None]
        /\ db = [x \in Dbs |-> IF \E d \in D : x = DbOf[d] THEN First ELSE None]
        /\ user = [x \in Users |-> IF \E d \in D : x = UserOf[d] THEN First ELSE None]
  BY DEF Init
<1>2. /\ pc = [r \in Requests |-> "idle"]
      /\ op = [r \in Requests |-> "none"]
      /\ at = [r \in Requests |-> None]
      /\ seen = [r \in Requests |-> None]
      /\ want = [r \in Requests |-> FALSE]
      /\ told = [r \in Requests |-> 0]
      /\ harmed = {} /\ unsure = {} /\ strewn = {}
  BY DEF Init
<1>3. 0 \in Releases /\ 1 \in Releases
  BY DEF Releases, Latest
<1>4. TypeOK
  <2>1. row \in [Domains -> Rows \cup {None}]
    BY <1>1, <1>3 DEF Rows, Ids
  <2>2. config \in [Domains -> Configs \cup {None}]
    BY <1>1 DEF Configs, Ids
  <2>3. db \in [Dbs -> Ids \cup {Empty, None}] /\ user \in [Users -> Ids \cup {None}]
    BY <1>1 DEF Ids
  <2>4. domain \in [Domains -> {"there", "going", "gone"}] /\ core \in [Domains -> Releases]
    BY <1>1, <1>3
  <2>5. QED
    BY <1>2, <1>3, <2>1, <2>2, <2>3, <2>4 DEF TypeOK, Ops
<1>5. Labels
  BY <1>2 DEF Labels, May
<1>6. \A d \in Domains : HasRow(d) => d \in D /\ row[d].id = First
  BY <1>1 DEF HasRow
<1>7. RowIds
  BY <1>2, <1>6, Assumed DEF RowIds, Assumptions, Ids
<1>8. \A d \in D, L \in {PastDb, PastUser} : Counts(d, L)
  <2>1. TAKE d \in D, L \in {PastDb, PastUser}
  <2>2. row[d] = [id |-> First, debug |-> FALSE, version |-> 1]
    BY <1>1
  <2>3. row[d] \in Rows
    BY <1>3, <2>2 DEF Rows, Ids
  <2>4. QED
    BY <1>2, <2>3, Assumed DEF Counts, HasRow, Assumptions
<1>9. DbHeld
  BY <1>1, <1>8 DEF DbHeld
<1>10. UserHeld
  BY <1>1, <1>8 DEF UserHeld
<1>11. Overlooked /\ Making
  BY <1>2 DEF Overlooked, Making
<1>12. ASSUME NEW d \in D
       PROVE  /\ row[d].id = First /\ row[d].version = core[d] /\ row[d].debug = config[d].debug
              /\ core[d] # 0 /\ config[d] # None /\ config[d].pass = First
              /\ db[DbOf[d]] = First /\ user[UserOf[d]] = First
  <2>1. row[d] = [id |-> First, debug |-> FALSE, version |-> 1] /\ core[d] = 1
    BY <1>1, <1>12
  <2>2. config[d] = [pass |-> First, debug |-> FALSE]
    BY <1>1, <1>12
  <2>3. config[d] \in Configs
    BY <2>2 DEF Configs, Ids
  <2>4. config[d] # None
    BY <2>3, Assumed, Zenon DEF Assumptions
  <2>5. DbOf[d] \in Dbs /\ UserOf[d] \in Users
    BY <1>12, Names
  <2>6. db[DbOf[d]] = First /\ user[UserOf[d]] = First
    BY <1>1, <1>12, <2>5
  <2>7. QED
    BY <2>1, <2>2, <2>4, <2>6
<1>13. Working
  BY <1>6, <1>12 DEF Working, Works, Ids
<1>14. Owned
  <2>1. ASSUME NEW x \in Dbs, db[x] \in Ids PROVE \E d \in D : DbOf[d] = x
    BY <1>1, <2>1, Assumed DEF Assumptions
  <2>2. \A d \in D : Counts(d, PastDb)
    BY <1>8
  <2>3. QED
    BY <1>12, <2>1, <2>2 DEF Owned
<1>15. Places
  BY <1>1, <1>2, <1>6, Assumed DEF Places, Assumptions, Ids
<1>16. VersionAgrees /\ DebugAgrees
  BY <1>2, <1>6, <1>12 DEF VersionAgrees, DebugAgrees, Sure
<1>17. QED
  BY <1>4, <1>5, <1>7, <1>9, <1>10, <1>11, <1>13, <1>14, <1>15, <1>16 DEF IInv

LEMMA Invariance == IInv /\ [Next]_vars => IInv'
BY TypeStep, RowIdsStep, DbHeldStep, UserHeldStep, OverlookedStep, MakingStep, WorkingStep, OwnedStep,
   PlacesStep, VersionAgreesStep, DebugAgreesStep DEF IInv

LEMMA Inductive == Spec => []IInv
BY InitHolds, Invariance, PTL DEF Spec

\* The types, for any domains and any number of requests.
THEOREM WordPressTypeCorrect == Spec => []TypeOK
<1>1. IInv => TypeOK
  BY DEF IInv
<1>2. QED
  BY <1>1, Inductive, PTL

\* Whatever requests, deletions, faults and crashes come together, and whatever
\* names the domains share, a database or a user that nobody answers for is one
\* of those that NothingLeftBehind excuses.
THEOREM NothingLeftBehindHolds == Spec => []NothingLeftBehind
<1>1. IInv => NothingLeftBehind
  <2> SUFFICES ASSUME IInv PROVE NothingLeftBehind
    OBVIOUS
  <2> USE DEF IInv, Stakes, Installed, Installing, AfterDb, Dropping
  <2>1. \A r \in Requests : op[r] = "install" /\ pc[r] \in HoldsDb \cup HoldsUser =>
          at[r] \in Domains /\ pc[r] \in AfterDb \cup Dropping
    BY DEF Labels, HoldsDb, HoldsUser
  <2>2. ASSUME NEW x \in Dbs, db[x] # None, x \notin strewn
        PROVE  Stakes({d \in Domains : DbOf[d] = x}, AfterDb \cup Dropping) # {}
    BY <2>1, <2>2 DEF DbHeld, Counts
  <2>3. ASSUME NEW x \in Users, user[x] # None, x \notin strewn
        PROVE  Stakes({d \in Domains : UserOf[d] = x}, AfterDb \cup Dropping) # {}
    BY <2>1, <2>3 DEF UserHeld, Counts
  <2>4. QED
    BY <2>2, <2>3 DEF NothingLeftBehind
<1>2. QED
  BY <1>1, Inductive, PTL

\* A site that no rival has harmed works, whatever else went on, and a database
\* that nobody has abandoned has the tables of its own Install.
THEOREM SitesWorkHolds == Spec => []SitesWork
<1>1. IInv => SitesWork
  BY DEF IInv, Working, Works, Loads, SitesWork
<1>2. QED
  BY <1>1, Inductive, PTL

\* A row that no rival and no fault has misled tells the release and the debug
\* mode of its site, but while a request is about to store them.
THEOREM RecordAgreesHolds == Spec => []RecordAgrees
<1>1. IInv => RecordAgrees
  <2> SUFFICES ASSUME IInv PROVE RecordAgrees
    OBVIOUS
  <2>1. VersionAgrees /\ DebugAgrees
    BY DEF IInv
  <2>2. QED
    BY <2>1 DEF VersionAgrees, DebugAgrees, Sure, RecordAgrees, Storing
<1>2. QED
  BY <1>1, Inductive, PTL
=============================================================================
