----------------------------- MODULE WordPress -----------------------------
(***************************************************************************)
(* wordpress.Service (internal/wordpress/service.go): one HTTP request is  *)
(* one goroutine that works through commands on the managed host and       *)
(* statements on wordpress_installs, with no lock around them.  Requests   *)
(* interleave between any two commands, and so does the deletion of a      *)
(* domain (internal/domain/service.go).                                    *)
(*                                                                         *)
(* The names of database and user come from the domain's name, and two     *)
(* domains may get the same ones: a-b.com and a.b.com both, long names     *)
(* with one beginning the user.  A request runs once, so Requests is the   *)
(* set of all requests ever sent; the id of a row, the password that an    *)
(* Install generates and the administrator it was sent are all named by    *)
(* the request.  Plugins are not modelled.                                 *)
(***************************************************************************)
EXTENDS Naturals, FiniteSets

CONSTANTS
  Domains,   \* domains by their names
  DbOf,      \* the database name that sanitizeName makes of a domain's
  UserOf,    \* and the user name
  Requests,  \* every request ever sent to the wordpress routes
  First,     \* the installation that some domain may have from earlier times
  None,      \* no row, no file, no database, no user
  Parallel,  \* bound: a request or deletion begins only while fewer run
  Faults     \* which faults of the environment happen, see FaultKinds

\* "refused": no executor, or a command whose error the code checks has no
\*            effect.
\* "lost":    such a command has its effect and still reports an error.
\* "ignored": a command whose error the code drops has no effect.
\* "uncounted": the query that counts rows fails, and its error is dropped.
\* "db":      a statement on wordpress_installs fails.
\* "crash":   the process dies and is restarted; nothing resumes a request.
FaultKinds == {"refused", "lost", "ignored", "uncounted", "db", "crash"}

Ids == Requests \cup {First}
Dbs == {DbOf[d] : d \in Domains}
Users == {UserOf[d] : d \in Domains}

ASSUME NameAssumption ==
  /\ DOMAIN DbOf = Domains
  /\ DOMAIN UserOf = Domains
  /\ Dbs \cap Users = {}
ASSUME IdAssumption == First \notin Requests /\ None \notin Ids
ASSUME FaultAssumption == Faults \subseteq FaultKinds
ASSUME BoundAssumption == Parallel \in Nat

VARIABLES
  domain,    \* each domain: "there", "going" while it is deleted, or "gone"
  row,       \* wordpress_installs: the row of each domain
  core,      \* host: the release of the WordPress files in its web root
  config,    \* host: its wp-config.php
  db,        \* MySQL: for each database, who made the tables in it
  user,      \* MySQL: for each user, whose password it has
  pc,        \* the next command of each request
  op,        \* what each request asks for
  at,        \* the domain that it is about
  seen,      \* the id of the row that the domain had when it began, if any
  want,      \* the value for WP_DEBUG
  told,      \* what wp core version has told it
  harmed,    \* history: installations that lost something to a rival, found its
             \* tables, or met an Install that could not count
  unsure,    \* history: installations whose row a fault or a rival's command on
             \* the same site misled
  strewn     \* history: databases and users that a request has abandoned

host == <<core, config, db, user>>
locals == <<op, at, seen, want, told>>
history == <<harmed, unsure, strewn>>
vars == <<domain, row, host, pc, locals, history>>

\* The releases of WordPress, which come out while requests run; 0 is no files,
\* or a version that could not be read.
Latest == 2
Releases == 0 .. Latest
Rows == [id : Ids, debug : BOOLEAN, version : Releases]
Configs == [pass : Ids, debug : BOOLEAN]

\* A database without tables.
Empty == "empty"

ASSUME ValueAssumption ==
  /\ None \notin Rows \cup Configs
  /\ Empty \notin Ids \cup {None}
  /\ None \notin Domains

\* The labels of an Install, those where it has made the database, the user and
\* the files, and those where it undoes them.
AfterFiles == {"config", "install", "readversion", "insert"}
AfterUser == {"grant", "download"} \cup AfterFiles
AfterDb == {"createuser"} \cup AfterUser
Dropping == {"dropdb", "dropuser"}
Others == {"rmfiles", "rmconfig", "delrow", "update", "version", "storeversion",
           "setdebug", "storedebug"}
\* Those between a change of the site and the UPDATE of its row.
Storing == {"version", "storeversion", "storedebug"}
InFlight == {"createdb"} \cup AfterDb \cup Dropping \cup Others

Ops == {"none", "install", "uninstall", "update", "toggle"}
Running(r) == pc[r] \in InFlight
HasRow(d) == row[d] # None

TypeOK ==
  /\ domain \in [Domains -> {"there", "going", "gone"}]
  /\ row \in [Domains -> Rows \cup {None}]
  /\ core \in [Domains -> Releases]
  /\ config \in [Domains -> Configs \cup {None}]
  /\ db \in [Dbs -> Ids \cup {Empty, None}]
  /\ user \in [Users -> Ids \cup {None}]
  /\ pc \in [Requests -> {"idle", "done"} \cup InFlight]
  /\ op \in [Requests -> Ops]
  /\ at \in [Requests -> Domains \cup {None}]
  /\ seen \in [Requests -> Ids \cup {None}]
  /\ want \in [Requests -> BOOLEAN]
  /\ told \in [Requests -> Releases]
  /\ harmed \subseteq Ids
  /\ unsure \subseteq Ids
  /\ strewn \subseteq Dbs \cup Users

\* One domain may have a site.
Init ==
  \E D \in SUBSET Domains :
    /\ \A d, e \in D : d = e
    /\ domain = [d \in Domains |-> "there"]
    /\ row = [d \in Domains |->
                IF d \in D THEN [id |-> First, debug |-> FALSE, version |-> 1] ELSE None]
    /\ core = [d \in Domains |-> IF d \in D THEN 1 ELSE 0]
    /\ config = [d \in Domains |-> IF d \in D THEN [pass |-> First, debug |-> FALSE] ELSE None]
    /\ db = [x \in Dbs |-> IF \E d \in D : x = DbOf[d] THEN First ELSE None]
    /\ user = [x \in Users |-> IF \E d \in D : x = UserOf[d] THEN First ELSE None]
    /\ pc = [r \in Requests |-> "idle"]
    /\ op = [r \in Requests |-> "none"]
    /\ at = [r \in Requests |-> None]
    /\ seen = [r \in Requests |-> None]
    /\ want = [r \in Requests |-> FALSE]
    /\ told = [r \in Requests |-> 0]
    /\ harmed = {}
    /\ unsure = {}
    /\ strewn = {}

-----------------------------------------------------------------------------
(* Helpers                                                                 *)

Goto(r, l) == pc' = [pc EXCEPT ![r] = l]

\* A request ends, and its locals with it.
Return(r) ==
  /\ Goto(r, "done")
  /\ op' = [op EXCEPT ![r] = "none"]
  /\ at' = [at EXCEPT ![r] = None]
  /\ seen' = [seen EXCEPT ![r] = None]
  /\ want' = [want EXCEPT ![r] = FALSE]
  /\ told' = [told EXCEPT ![r] = 0]

Db(r) == DbOf[at[r]]
User(r) == UserOf[at[r]]

\* The installations of the domains D: those with a row, and those of the
\* Installs that have come to one of the labels L.
Installed(D) == {row[d].id : d \in {e \in D : HasRow(e)}}
Installing(D, L) == {r \in Requests : op[r] = "install" /\ at[r] \in D /\ pc[r] \in L}
Stakes(D, L) == Installed(D) \cup Installing(D, L)

Harms(I) == harmed' = harmed \cup I
Misleads(I) == unsure' = unsure \cup I
Strews(X) == strewn' = strewn \cup X

\* wp finds WordPress, its configuration, and the tables it names.
Loads(d) ==
  /\ core[d] # 0
  /\ config[d] # None
  /\ user[UserOf[d]] = config[d].pass
  /\ db[DbOf[d]] \in Ids

\* The release that wp fetches: the newest by now, never older than the files.
Newest(d) == {v \in Releases \ {0} : v >= core[d]}

\* The installations whose row is about to tell what wp core version said of d.
Pending(d) ==
  {seen[q] : q \in {p \in Requests : pc[p] = "storeversion" /\ at[p] = d}}
    \cup Installing({d}, {"insert"})

\* Bound: see Parallel.
MayStart(r) ==
  /\ pc[r] = "idle"
  /\ Cardinality({q \in Requests : Running(q)})
       + Cardinality({d \in Domains : domain[d] = "going"}) < Parallel

-----------------------------------------------------------------------------
(* Install                                                                 *)

InstallOpen(r, d) ==
  /\ MayStart(r)
  /\ domain[d] # "gone"
  /\ Goto(r, "createdb")
  /\ op' = [op EXCEPT ![r] = "install"]
  /\ at' = [at EXCEPT ![r] = d]
  /\ seen' = [seen EXCEPT ![r] = IF HasRow(d) THEN row[d].id ELSE None]
  /\ UNCHANGED <<domain, row, host, want, told, unsure, strewn>>

\* Whatever rows there are.
InstallTwice(r, d) == InstallOpen(r, d) /\ UNCHANGED harmed

\* The domain's name, then the count of its rows; an error of the count leaves
\* count = 0.
Install(r, d) ==
  /\ InstallOpen(r, d)
  /\ \/ ~HasRow(d) /\ UNCHANGED harmed
     \/ HasRow(d) /\ "uncounted" \in Faults /\ Harms({row[d].id})

\* No executor, or no wp-cli; also for the other requests.  Nothing happened.
Refused(r) ==
  /\ "refused" \in Faults
  /\ \/ pc[r] \in {"createdb", "update", "setdebug"}
     \/ pc[r] = "dropdb" /\ op[r] = "uninstall"
  /\ Return(r)
  /\ UNCHANGED <<domain, row, host, history>>

\* A failure of createDatabase ends the Install, and nothing is dropped.
CreateDb(r) ==
  /\ pc[r] = "createdb"
  /\ db' = [db EXCEPT ![Db(r)] = IF @ = None THEN Empty ELSE @]
  /\ \/ Goto(r, "createuser") /\ UNCHANGED <<locals, strewn>>
     \/ "lost" \in Faults /\ Return(r) /\ Strews({Db(r)})
  /\ UNCHANGED <<domain, row, core, config, user, harmed, unsure>>

\* CREATE USER IF NOT EXISTS keeps the password of a user there is.
CreateUser(r) ==
  /\ pc[r] = "createuser"
  /\ \/ /\ user' = [user EXCEPT ![User(r)] = IF @ = None THEN r ELSE @]
        /\ \/ Goto(r, "grant") /\ UNCHANGED <<locals, strewn>>
           \/ "lost" \in Faults /\ Return(r) /\ Strews({Db(r), User(r)})
     \/ "refused" \in Faults /\ Return(r) /\ Strews({Db(r)}) /\ UNCHANGED user
  /\ UNCHANGED <<domain, row, core, config, db, harmed, unsure>>

\* GRANT needs the user, and FLUSH PRIVILEGES follows.
Grant(r) ==
  /\ pc[r] = "grant"
  /\ \/ user[User(r)] # None /\ Goto(r, "download") /\ UNCHANGED <<locals, strewn>>
     \/ /\ user[User(r)] = None \/ Faults \cap {"refused", "lost"} # {}
        /\ Return(r)
        /\ Strews({Db(r), User(r)})
  /\ UNCHANGED <<domain, row, host, harmed, unsure>>

\* wp core download --force; from here on a failure drops database and user,
\* and leaves the files.
Download(r) ==
  /\ pc[r] = "download"
  /\ \/ /\ \E v \in Newest(at[r]) : core' = [core EXCEPT ![at[r]] = v]
        /\ Misleads(IF core' # core THEN Installed({at[r]}) \cup Pending(at[r]) ELSE {})
        /\ \/ Goto(r, "config")
           \/ "lost" \in Faults /\ Goto(r, "dropdb")
     \/ "refused" \in Faults /\ Goto(r, "dropdb") /\ UNCHANGED <<core, unsure>>
  /\ UNCHANGED <<domain, row, config, db, user, locals, harmed, strewn>>

\* Like Config, which returns without dropping anything when it fails.
ConfigNoCleanup(r) ==
  /\ pc[r] = "config"
  /\ \/ /\ core[at[r]] # 0 /\ user[User(r)] = r
        /\ config' = [config EXCEPT ![at[r]] = [pass |-> r, debug |-> FALSE]]
        /\ Goto(r, "install")
        /\ UNCHANGED locals
     \/ /\ core[at[r]] = 0 \/ user[User(r)] # r \/ "refused" \in Faults
        /\ Return(r)
        /\ UNCHANGED config
  /\ UNCHANGED <<domain, row, core, db, user, history>>

\* wp config create connects to MySQL before it writes the file.
Config(r) ==
  /\ pc[r] = "config"
  /\ \/ /\ core[at[r]] # 0
        /\ user[User(r)] = r
        /\ config' = [config EXCEPT ![at[r]] = [pass |-> r, debug |-> FALSE]]
        /\ \/ Goto(r, "install")
           \/ "lost" \in Faults /\ Goto(r, "dropdb")
     \/ /\ core[at[r]] = 0 \/ user[User(r)] # r \/ "refused" \in Faults
        /\ Goto(r, "dropdb")
        /\ UNCHANGED config
  /\ UNCHANGED <<domain, row, core, db, user, locals, history>>

\* wp core install can reach what its configuration names.
Connects(d) ==
  /\ core[d] # 0
  /\ config[d] # None
  /\ user[UserOf[d]] = config[d].pass
  /\ db[DbOf[d]] # None

\* The tables are those of an installation that is still there or under way.
Contested(r) == db[Db(r)] \in Stakes({d \in Domains : DbOf[d] = Db(r)}, AfterDb \cup Dropping)

\* wp core install makes the tables and the administrator; tables there are
\* stay as they are, and it reports success.
CoreInstall(r) ==
  /\ pc[r] = "install"
  /\ \/ /\ Connects(at[r])
        /\ db' = [db EXCEPT ![Db(r)] = IF @ = Empty THEN r ELSE @]
        /\ Harms(IF Contested(r) THEN {r} ELSE {})
        /\ \/ Goto(r, "readversion")
           \/ "lost" \in Faults /\ Goto(r, "dropdb")
     \/ /\ ~Connects(at[r]) \/ "refused" \in Faults
        /\ Goto(r, "dropdb")
        /\ UNCHANGED <<db, harmed>>
  /\ UNCHANGED <<domain, row, core, config, user, locals, unsure, strewn>>

\* wp core version; its error is dropped.
InstallVersion(r) ==
  /\ pc[r] = "readversion"
  /\ Goto(r, "insert")
  /\ \/ told' = [told EXCEPT ![r] = core[at[r]]] /\ UNCHANGED unsure
     \/ "ignored" \in Faults /\ Misleads({r}) /\ UNCHANGED told
  /\ UNCHANGED <<domain, row, host, op, at, seen, want, harmed, strewn>>

\* The domain must still exist, and not have a row.  After an error nothing is
\* undone.
Insert(r) ==
  LET d == at[r]
  IN /\ pc[r] = "insert"
     /\ \/ /\ domain[d] # "gone" /\ ~HasRow(d)
           /\ row' = [row EXCEPT ![d] = [id |-> r, debug |-> FALSE, version |-> told[r]]]
           /\ UNCHANGED strewn
        \/ /\ domain[d] = "gone" \/ HasRow(d) \/ "db" \in Faults
           /\ Strews({Db(r), User(r)})
           /\ UNCHANGED row
     /\ Return(r)
     /\ UNCHANGED <<domain, host, harmed, unsure>>

-----------------------------------------------------------------------------
(* dropDatabase: the rollback of Install, and the beginning of Uninstall.  *)
(* Its errors are dropped.                                                 *)

\* Whom r may bereave: everybody else, but an Install no site that had its row
\* when it began.
Bereaved(r, D, L) == Stakes(D, L) \ ({r} \cup IF op[r] = "install" THEN {seen[r]} ELSE {})

DropDb(r) ==
  /\ pc[r] = "dropdb"
  /\ Goto(r, "dropuser")
  /\ \/ /\ db' = [db EXCEPT ![Db(r)] = None]
        /\ Harms(Bereaved(r, {d \in Domains : DbOf[d] = Db(r)}, AfterDb))
        /\ strewn' = strewn \ {Db(r)}
     \/ "ignored" \in Faults /\ Strews({Db(r)}) /\ UNCHANGED <<db, harmed>>
  /\ UNCHANGED <<domain, row, core, config, user, locals, unsure>>

DropUser(r) ==
  /\ pc[r] = "dropuser"
  /\ \/ /\ user' = [user EXCEPT ![User(r)] = None]
        /\ Harms(Bereaved(r, {d \in Domains : UserOf[d] = User(r)}, AfterUser))
        /\ strewn' = strewn \ {User(r)}
     \/ "ignored" \in Faults /\ Strews({User(r)}) /\ UNCHANGED <<user, harmed>>
  /\ IF op[r] = "install" THEN Return(r) ELSE Goto(r, "rmfiles") /\ UNCHANGED locals
  /\ UNCHANGED <<domain, row, core, config, db, unsure>>

-----------------------------------------------------------------------------
(* Uninstall, UpdateCore and ToggleDebug                                   *)

\* GetByDomainID, which all three begin with.
Begin(r, o, d, w) ==
  /\ MayStart(r)
  /\ HasRow(d)
  /\ Goto(r, CASE o = "uninstall" -> "dropdb" [] o = "update" -> "update"
               [] o = "toggle" -> "setdebug")
  /\ op' = [op EXCEPT ![r] = o]
  /\ at' = [at EXCEPT ![r] = d]
  /\ seen' = [seen EXCEPT ![r] = row[d].id]
  /\ want' = [want EXCEPT ![r] = w]
  /\ UNCHANGED <<domain, row, host, told, history>>

Uninstall(r, d) == Begin(r, "uninstall", d, FALSE)
UpdateCore(r, d) == Begin(r, "update", d, FALSE)
ToggleDebug(r, d, w) == Begin(r, "toggle", d, w)

\* rm -rf <root>/*
RemoveFiles(r) ==
  /\ pc[r] = "rmfiles"
  /\ Goto(r, "rmconfig")
  /\ \/ /\ core' = [core EXCEPT ![at[r]] = 0]
        /\ config' = [config EXCEPT ![at[r]] = None]
        /\ Harms(Stakes({at[r]}, AfterFiles))
     \/ "ignored" \in Faults /\ UNCHANGED <<core, config, harmed>>
  /\ UNCHANGED <<domain, row, db, user, locals, unsure, strewn>>

\* rm -rf .htaccess wp-config.php, and the placeholder.
RemoveConfig(r) ==
  /\ pc[r] = "rmconfig"
  /\ Goto(r, "delrow")
  /\ \/ config' = [config EXCEPT ![at[r]] = None] /\ Harms(Stakes({at[r]}, AfterFiles))
     \/ "ignored" \in Faults /\ UNCHANGED <<config, harmed>>
  /\ UNCHANGED <<domain, row, core, db, user, locals, unsure, strewn>>

\* DELETE by the id of the row that was read.
DeleteRow(r) ==
  /\ pc[r] = "delrow"
  /\ \/ row' = [row EXCEPT ![at[r]] = IF HasRow(at[r]) /\ @.id = seen[r] THEN None ELSE @]
     \/ "db" \in Faults /\ UNCHANGED row
  /\ Return(r)
  /\ UNCHANGED <<domain, host, history>>

\* Those whose row tells of the files that r replaces, or is about to.
Crossed(r) ==
  IF core' # core THEN (Installed({at[r]}) \ {seen[r]}) \cup Pending(at[r]) ELSE {}

\* wp core update, which loads WordPress.
Upgrade(r) ==
  /\ pc[r] = "update"
  /\ \/ /\ Loads(at[r])
        /\ \E v \in Newest(at[r]) : core' = [core EXCEPT ![at[r]] = v]
        /\ \/ Goto(r, "version") /\ UNCHANGED locals /\ Misleads(Crossed(r))
           \/ "lost" \in Faults /\ Return(r) /\ Misleads({seen[r]} \cup Crossed(r))
     \/ ~Loads(at[r]) /\ Return(r) /\ UNCHANGED <<core, unsure>>
  /\ UNCHANGED <<domain, row, config, db, user, harmed, strewn>>

\* wp core version; an error of it is dropped, and ends the request.
ReadVersion(r) ==
  /\ pc[r] = "version"
  /\ \/ /\ core[at[r]] # 0
        /\ told' = [told EXCEPT ![r] = core[at[r]]]
        /\ Goto(r, "storeversion")
        /\ UNCHANGED <<op, at, seen, want, unsure>>
     \/ core[at[r]] = 0 /\ Return(r) /\ UNCHANGED unsure
     \/ "ignored" \in Faults /\ Return(r) /\ Misleads({seen[r]})
  /\ UNCHANGED <<domain, row, host, harmed, strewn>>

\* An UPDATE by the id of the row that was read.
Changed(r, new) == row' = [row EXCEPT ![at[r]] = IF HasRow(at[r]) /\ @.id = seen[r] THEN new ELSE @]

\* What wp core version prints, with the newline: no release.
StoreVersionAsPrinted(r) ==
  /\ pc[r] = "storeversion"
  /\ Changed(r, [row[at[r]] EXCEPT !.version = Latest + told[r]])
  /\ Return(r)
  /\ UNCHANGED <<domain, host, history>>

\* The error of the UPDATE is dropped too.
StoreVersion(r) ==
  /\ pc[r] = "storeversion"
  /\ \/ Changed(r, [row[at[r]] EXCEPT !.version = told[r]]) /\ UNCHANGED unsure
     \/ "db" \in Faults /\ Misleads({seen[r]}) /\ UNCHANGED row
  /\ Return(r)
  /\ UNCHANGED <<domain, host, harmed, strewn>>

\* Whom r misleads when it sets WP_DEBUG: the other installations there, and its
\* own if a toggle the other way has still to store what it set.
Overruled(r) ==
  LET late == {q \in Requests : pc[q] = "storedebug" /\ at[q] = at[r] /\ want[q] # want[r]}
  IN (Stakes({at[r]}, AfterFiles) \ {seen[r]}) \cup {seen[q] : q \in late}

\* Whether or not wp config set succeeds.
SetDebugUnchecked(r) ==
  /\ pc[r] = "setdebug"
  /\ \/ config[at[r]] # None /\ config' = [config EXCEPT ![at[r]].debug = want[r]]
     \/ UNCHANGED config
  /\ Goto(r, "storedebug")
  /\ Misleads(Overruled(r))
  /\ UNCHANGED <<domain, row, core, db, user, locals, harmed, strewn>>

\* wp config set WP_DEBUG, in whatever wp-config.php there is by now.
SetDebug(r) ==
  /\ pc[r] = "setdebug"
  /\ \/ /\ config[at[r]] # None
        /\ config' = [config EXCEPT ![at[r]].debug = want[r]]
        /\ \/ Goto(r, "storedebug") /\ Misleads(Overruled(r)) /\ UNCHANGED locals
           \/ "lost" \in Faults /\ Return(r) /\ Misleads(Overruled(r) \cup {seen[r]})
     \/ config[at[r]] = None /\ Return(r) /\ UNCHANGED <<config, unsure>>
  /\ UNCHANGED <<domain, row, core, db, user, harmed, strewn>>

StoreDebug(r) ==
  /\ pc[r] = "storedebug"
  /\ \/ Changed(r, [row[at[r]] EXCEPT !.debug = want[r]]) /\ UNCHANGED unsure
     \/ "db" \in Faults /\ Misleads({seen[r]}) /\ UNCHANGED row
  /\ Return(r)
  /\ UNCHANGED <<domain, host, harmed, strewn>>

-----------------------------------------------------------------------------
(* The environment                                                         *)

\* domain.Service.Delete removes the web root ...
RemoveDomain(d) ==
  /\ domain[d] = "there"
  /\ Cardinality({q \in Requests : Running(q)})
       + Cardinality({e \in Domains : domain[e] = "going"}) < Parallel
  /\ domain' = [domain EXCEPT ![d] = "going"]
  /\ \/ /\ core' = [core EXCEPT ![d] = 0]
        /\ config' = [config EXCEPT ![d] = None]
        /\ Harms(Stakes({d}, AfterFiles))
     \/ "ignored" \in Faults /\ UNCHANGED <<core, config, harmed>>
  /\ UNCHANGED <<row, db, user, pc, locals, unsure, strewn>>

\* ... and at last its row; that of wordpress_installs goes with it, database
\* and user stay.
DropDomain(d) ==
  /\ domain[d] = "going"
  /\ \/ /\ domain' = [domain EXCEPT ![d] = "gone"]
        /\ row' = [row EXCEPT ![d] = None]
        /\ Strews(IF HasRow(d) THEN {DbOf[d], UserOf[d]} ELSE {})
     \/ "db" \in Faults /\ domain' = [domain EXCEPT ![d] = "there"] /\ UNCHANGED <<row, strewn>>
  /\ UNCHANGED <<host, pc, locals, harmed, unsure>>

\* What an Install abandons that stops here.
Abandoned(r) ==
  CASE op[r] = "install" /\ pc[r] \in AfterDb \cup Dropping -> {Db(r), User(r)}
    [] OTHER -> {}

\* The process dies; every request stops where it is, a deletion too.
Crash ==
  /\ "crash" \in Faults
  /\ (\E r \in Requests : Running(r)) \/ \E d \in Domains : domain[d] = "going"
  /\ pc' = [r \in Requests |-> IF Running(r) THEN "done" ELSE pc[r]]
  /\ op' = [r \in Requests |-> "none"]
  /\ at' = [r \in Requests |-> None]
  /\ seen' = [r \in Requests |-> None]
  /\ want' = [r \in Requests |-> FALSE]
  /\ told' = [r \in Requests |-> 0]
  /\ domain' = [d \in Domains |-> IF domain[d] = "going" THEN "there" ELSE domain[d]]
  /\ Misleads({seen[r] : r \in {q \in Requests : pc[q] \in Storing}})
  /\ Strews(UNION {Abandoned(r) : r \in Requests})
  /\ UNCHANGED <<row, host, harmed>>

\* Nobody asks anything: the server idles.
Quiet ==
  /\ \A r \in Requests : ~Running(r)
  /\ UNCHANGED vars

Step(r) ==
  \/ \E d \in Domains : \/ Install(r, d) \/ Uninstall(r, d) \/ UpdateCore(r, d)
                        \/ \E w \in BOOLEAN : ToggleDebug(r, d, w)
  \/ Refused(r) \/ CreateDb(r) \/ CreateUser(r) \/ Grant(r) \/ Download(r) \/ Config(r)
  \/ CoreInstall(r) \/ InstallVersion(r) \/ Insert(r) \/ DropDb(r) \/ DropUser(r)
  \/ RemoveFiles(r) \/ RemoveConfig(r) \/ DeleteRow(r) \/ Upgrade(r) \/ ReadVersion(r)
  \/ StoreVersion(r) \/ SetDebug(r) \/ StoreDebug(r)

Next ==
  \/ \E r \in Requests : Step(r)
  \/ \E d \in Domains : RemoveDomain(d) \/ DropDomain(d)
  \/ Crash
  \/ Quiet

Spec == Init /\ [][Next]_vars

-----------------------------------------------------------------------------
(* Properties                                                              *)

\* The site of a row works, whatever else went on: WordPress connects with the
\* password in its configuration, and the administrator of the row is the one
\* in its tables.  Only what a rival or the deletion of the domain took away,
\* and a database left behind by an abandoned request, excuse it
\* (service.go:90-198).
SitesWork ==
  \A d \in Domains :
    HasRow(d) /\ row[d].id \notin harmed =>
      /\ Loads(d)
      /\ DbOf[d] \notin strewn => db[DbOf[d]] = row[d].id

\* When nobody is changing it, the row tells the release and the debug mode of
\* the site, unless a fault or a rival came between (service.go:232-309).
RecordAgrees ==
  \A d \in Domains :
    /\ HasRow(d)
    /\ row[d].id \notin harmed \cup unsure
    /\ ~\E r \in Requests : pc[r] \in Storing /\ seen[r] = row[d].id
    => row[d].version = core[d] /\ row[d].debug = config[d].debug

\* Every database and every user belongs to an installation, or to a request
\* that is still at work: they are left behind only by a crash, a failed DROP,
\* a failure inside createDatabase or of the last INSERT, and by the deletion
\* of a domain (service.go:126-229, 326-350).
NothingLeftBehind ==
  /\ \A x \in Dbs : db[x] # None /\ x \notin strewn =>
       Stakes({d \in Domains : DbOf[d] = x}, AfterDb \cup Dropping) # {}
  /\ \A x \in Users : user[x] # None /\ x \notin strewn =>
       Stakes({d \in Domains : UserOf[d] = x}, AfterDb \cup Dropping) # {}
=============================================================================
