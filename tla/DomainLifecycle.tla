-------------------------- MODULE DomainLifecycle --------------------------
(***************************************************************************)
(* domain.Service.Create and Delete (internal/domain/service.go): one HTTP *)
(* request is one goroutine that works through commands on the managed     *)
(* host and statements on the database, with no lock and no transaction    *)
(* around them.  Requests interleave between any two commands.             *)
(*                                                                         *)
(* A request runs once and ends, so Requests is the set of all requests    *)
(* ever sent, and the id of a row (a fresh UUID) is the request that       *)
(* inserted it.                                                            *)
(***************************************************************************)
EXTENDS FiniteSets

CONSTANTS
  Names,      \* domain names, already trimmed, lower-cased and valid
  Requests,   \* every request ever sent to POST /domains and DELETE /domains/:id
  NoRow,      \* no row of the domains table has this name
  Settings,   \* values of the setting proxy.type; "" stands for an absent one
  Faults,     \* which faults of the environment happen, see FaultKinds
  Switching,  \* whether the administrator changes proxy.type meanwhile
  Serial      \* whether clients wait: at most one request per name at a time

\* "refused": a command whose error the code checks fails without effect.
\* "lost":    such a command has its effect and still reports an error
\*            (a dropped SSH session, a disk that fills while tee writes).
\* "ignored": a command or query whose error the code drops fails silently.
\* "delrow":  the final DELETE statement of Delete fails.
\* "crash":   the process dies and is restarted; nothing resumes a request.
FaultKinds == {"refused", "lost", "ignored", "delrow", "crash"}
Proxies == {"nginx", "apache"}

ASSUME RowAssumption == NoRow \notin Requests
ASSUME FaultAssumption == Faults \subseteq FaultKinds

VARIABLES
  row,        \* domains table: the id of the row with a name, or NoRow
  webRoot,    \* host: the names whose directory /var/www/<name> exists
  conf,       \* host: pairs <<name, proxy>>: name has a file in sites-available
  link,       \* host: pairs <<name, proxy>>: name is in sites-enabled
  setting,    \* settings table: the value of proxy.type
  job,        \* what each request asks for
  pc,         \* the next command of each request, or how it ended
  target,     \* the row id a Delete was asked to remove
  proxy,      \* the local proxyType of each request, "" until read
  blind       \* history: requests with a command that did not do what it reported

host == <<webRoot, conf, link>>
vars == <<row, webRoot, conf, link, setting, job, pc, target, proxy, blind>>

InCreate == {"mkdir", "write", "enable", "insert"}
InFlight == InCreate \cup {"proxy", "unlink", "unconf", "rmroot", "delrow"}
Ended == {"ok", "failed", "crashed"}

IsCreate(r) == job[r].op = "create"
Name(r) == job[r].name
Touching(n) == {r \in Requests : Name(r) = n}

TypeOK ==
  /\ row \in [Names -> Requests \cup {NoRow}]
  /\ webRoot \subseteq Names
  /\ conf \subseteq Names \X Proxies
  /\ link \subseteq Names \X Proxies
  /\ setting \in Settings
  /\ job \in [Requests -> [op : {"create", "delete"}, name : Names]]
  /\ pc \in [Requests -> {"idle"} \cup InFlight \cup Ended]
  /\ target \in [Requests -> Requests \cup {NoRow}]
  /\ proxy \in [Requests -> Proxies \cup {""}]
  /\ blind \subseteq Requests

Init ==
  /\ row = [n \in Names |-> NoRow]
  /\ webRoot = {}
  /\ conf = {}
  /\ link = {}
  /\ setting \in Settings
  /\ job \in [Requests -> [op : {"create", "delete"}, name : Names]]
  /\ pc = [r \in Requests |-> "idle"]
  /\ target = [r \in Requests |-> NoRow]
  /\ proxy = [r \in Requests |-> ""]
  /\ blind = {}

-----------------------------------------------------------------------------
(* Local steps.                                                            *)

Goto(r, l) == pc' = [pc EXCEPT ![r] = l]
Vhost(r) == <<Name(r), proxy[r]>>
Misled(r) == blind' = blind \cup {r}

\* With Serial a client sends a request for a name only when none is in flight.
MayStart(r) ==
  /\ pc[r] = "idle"
  /\ Serial => \A q \in Touching(Name(r)) : pc[q] \notin InFlight

\* getProxyType, and the switch of createVhost and removeVhost on its result:
\* everything but "apache", the absent setting included, means nginx.
RawProxyType == setting
ProxyType == IF setting = "apache" THEN "apache" ELSE "nginx"

-----------------------------------------------------------------------------
(* Create                                                                  *)

\* The uniqueness check.  An error of the count query leaves count = 0.
CreateBegin(r) ==
  /\ MayStart(r)
  /\ IsCreate(r)
  /\ \/ row[Name(r)] = NoRow /\ Goto(r, "mkdir")
     \/ row[Name(r)] # NoRow /\ Goto(r, "failed")
     \/ "ignored" \in Faults /\ Goto(r, "mkdir")
  /\ UNCHANGED <<row, host, setting, job, target, proxy, blind>>

\* NewExecutor fails, in Create or in Delete, or mkdir is refused: the request
\* ends before it changed anything.
OpenFails(r) ==
  /\ "refused" \in Faults
  /\ \/ pc[r] = "mkdir"
     \/ pc[r] = "proxy" /\ ~IsCreate(r)
  /\ Goto(r, "failed")
  /\ UNCHANGED <<row, host, setting, job, target, proxy, blind>>

\* mkdir -p; a reported failure ends the request without an rmdir.
MakeRoot(r) ==
  /\ pc[r] = "mkdir"
  /\ webRoot' = webRoot \cup {Name(r)}
  /\ \/ Goto(r, "proxy") /\ UNCHANGED blind
     \/ "lost" \in Faults /\ Goto(r, "failed") /\ Misled(r)
  /\ UNCHANGED <<row, conf, link, setting, job, target, proxy>>

\* Ownership, mode and placeholder page, all unchecked, then getProxyType; in
\* Delete only getProxyType, where a failed query reads as an absent setting.
ReadProxy(r) ==
  /\ pc[r] = "proxy"
  /\ \/ proxy' = [proxy EXCEPT ![r] = ProxyType]
     \/ "ignored" \in Faults /\ proxy' = [proxy EXCEPT ![r] = "nginx"]
  /\ Goto(r, IF IsCreate(r) THEN "write" ELSE "unlink")
  /\ UNCHANGED <<row, host, setting, job, target, blind>>

\* A failure of this step goes unnoticed.
WriteVhostUnchecked(r) ==
  /\ pc[r] = "write"
  /\ Goto(r, "enable")
  /\ \/ conf' = conf \cup {Vhost(r)}
     \/ "refused" \in Faults /\ UNCHANGED conf
  /\ UNCHANGED <<row, webRoot, link, setting, job, target, proxy, blind>>

\* A failed write returns at once and keeps the web root.
WriteVhostNoCleanup(r) ==
  /\ pc[r] = "write"
  /\ \/ /\ conf' = conf \cup {Vhost(r)}
        /\ Goto(r, "enable")
     \/ "refused" \in Faults /\ UNCHANGED conf /\ Goto(r, "failed")
  /\ UNCHANGED <<row, webRoot, link, setting, job, target, proxy, blind>>

\* createVhost up to tee.  After a reported failure Create removes the web
\* root only.
WriteVhost(r) ==
  /\ pc[r] = "write"
  /\ \/ /\ conf' = conf \cup {Vhost(r)}
        /\ \/ Goto(r, "enable") /\ UNCHANGED blind
           \/ "lost" \in Faults /\ Goto(r, "rmroot") /\ Misled(r)
     \/ "refused" \in Faults /\ Goto(r, "rmroot") /\ UNCHANGED <<conf, blind>>
  /\ UNCHANGED <<row, webRoot, link, setting, job, target, proxy>>

\* ln -sf or a2ensite, and the reload: no error is checked.
EnableVhost(r) ==
  /\ pc[r] = "enable"
  /\ Goto(r, "insert")
  /\ \/ link' = link \cup {Vhost(r)} /\ UNCHANGED blind
     \/ "ignored" \in Faults /\ Misled(r) /\ UNCHANGED link
  /\ UNCHANGED <<row, webRoot, conf, setting, job, target, proxy>>

\* A failed insert removes the web root and forgets the virtual host.
InsertRowHalfUndone(r) ==
  /\ pc[r] = "insert"
  /\ \/ row[Name(r)] = NoRow /\ row' = [row EXCEPT ![Name(r)] = r] /\ Goto(r, "ok")
     \/ row[Name(r)] # NoRow /\ Goto(r, "rmroot") /\ UNCHANGED row
  /\ UNCHANGED <<host, setting, job, target, proxy, blind>>

\* An upsert: a rival's row of the name is replaced.
InsertRowOver(r) ==
  /\ pc[r] = "insert"
  /\ row' = [row EXCEPT ![Name(r)] = r]
  /\ Goto(r, "ok")
  /\ UNCHANGED <<host, setting, job, target, proxy, blind>>

\* db.Create under the UNIQUE constraint on the name.  Every error is followed
\* by removeVhost and rm -rf, also when a rival owns what they remove.
InsertRow(r) ==
  /\ pc[r] = "insert"
  /\ \/ /\ row[Name(r)] = NoRow
        /\ row' = [row EXCEPT ![Name(r)] = r]
        /\ \/ Goto(r, "ok") /\ UNCHANGED blind
           \/ "lost" \in Faults /\ Goto(r, "unlink") /\ Misled(r)
     \/ /\ row[Name(r)] # NoRow \/ "refused" \in Faults
        /\ Goto(r, "unlink")
        /\ UNCHANGED <<row, blind>>
  /\ UNCHANGED <<host, setting, job, target, proxy>>

-----------------------------------------------------------------------------
(* Delete, and the commands it shares with the rollback of Create          *)

\* GetByID.  The id may be that of no row, or of a row long gone.
DeleteBegin(r) ==
  /\ MayStart(r)
  /\ ~IsCreate(r)
  /\ \/ /\ row[Name(r)] # NoRow
        /\ target' = [target EXCEPT ![r] = row[Name(r)]]
        /\ Goto(r, "proxy")
     \/ Goto(r, "failed") /\ UNCHANGED target
  /\ UNCHANGED <<row, host, setting, job, proxy, blind>>

\* The effect of an unchecked command, or nothing when it fails silently.
Unchecked(r, Effect, unchanged) ==
  \/ Effect /\ UNCHANGED blind
  \/ "ignored" \in Faults /\ unchanged /\ Misled(r)

\* removeVhost disables the site first.
RemoveLink(r) ==
  /\ pc[r] = "unlink"
  /\ Goto(r, "unconf")
  /\ Unchecked(r, link' = link \ {Vhost(r)}, link' = link)
  /\ UNCHANGED <<row, webRoot, conf, setting, job, target, proxy>>

RemoveConf(r) ==
  /\ pc[r] = "unconf"
  /\ Goto(r, "rmroot")
  /\ Unchecked(r, conf' = conf \ {Vhost(r)}, conf' = conf)
  /\ UNCHANGED <<row, webRoot, link, setting, job, target, proxy>>

\* rm -rf /var/www/<name>
RemoveRoot(r) ==
  /\ pc[r] = "rmroot"
  /\ Goto(r, IF IsCreate(r) THEN "failed" ELSE "delrow")
  /\ Unchecked(r, webRoot' = webRoot \ {Name(r)}, webRoot' = webRoot)
  /\ UNCHANGED <<row, conf, link, setting, job, target, proxy>>

\* DELETE ... WHERE id = ?: no error when the row is gone already.
DeleteRow(r) ==
  /\ pc[r] = "delrow"
  /\ \/ /\ row' = [row EXCEPT ![Name(r)] = IF @ = target[r] THEN NoRow ELSE @]
        /\ Goto(r, "ok")
     \/ "delrow" \in Faults /\ UNCHANGED row /\ Goto(r, "failed")
  /\ UNCHANGED <<host, setting, job, target, proxy, blind>>

-----------------------------------------------------------------------------
(* The environment                                                         *)

\* The process dies; every request in flight stops where it is.
Crash ==
  /\ "crash" \in Faults
  /\ \E r \in Requests : pc[r] \in InFlight
  /\ pc' = [r \in Requests |-> IF pc[r] \in InFlight THEN "crashed" ELSE pc[r]]
  /\ UNCHANGED <<row, host, setting, job, target, proxy, blind>>

\* PUT /settings with the key proxy.type; existing domains are not migrated.
SetProxyType(v) ==
  /\ Switching
  /\ v # setting
  /\ setting' = v
  /\ UNCHANGED <<row, host, job, pc, target, proxy, blind>>

\* Every request was answered or lost: the server idles.
Quiet ==
  /\ \A r \in Requests : pc[r] \in Ended
  /\ UNCHANGED vars

Step(r) ==
  \/ CreateBegin(r) \/ OpenFails(r) \/ MakeRoot(r) \/ ReadProxy(r)
  \/ WriteVhost(r) \/ EnableVhost(r) \/ InsertRow(r) \/ DeleteBegin(r)
  \/ RemoveLink(r) \/ RemoveConf(r) \/ RemoveRoot(r) \/ DeleteRow(r)

Next ==
  \/ \E r \in Requests : Step(r)
  \/ Crash
  \/ \E v \in Settings : SetProxyType(v)
  \/ Quiet

Spec == Init /\ [][Next]_vars

\* A goroutine that has begun is scheduled, and the host answers its commands.
\* Nobody has to send a request.
Progress(r) == pc[r] \in InFlight /\ Step(r)
Fairness == \A r \in Requests : WF_vars(Progress(r))
FairSpec == Spec /\ Fairness

-----------------------------------------------------------------------------
(* Properties                                                              *)

\* The proxies for which vs, which is conf or link, has n.
Served(vs, n) == {p \in Proxies : <<n, p>> \in vs}

Trace(n) == n \in webRoot \/ Served(conf, n) # {} \/ Served(link, n) # {}

\* Some request for n was cut short, or a command of it did not do what it
\* reported.
Disturbed(n) == \E r \in Touching(n) : pc[r] = "crashed" \/ r \in blind

\* Two requests for n read different values of proxy.type.
Mixed(n) ==
  \E p, q \in Touching(n) : proxy[p] # "" /\ proxy[q] # "" /\ proxy[p] # proxy[q]

\* Whatever the interleaving of Creates and Deletes of one name, and also when
\* checked commands fail: once no request for the name is in flight, a name
\* without a row has nothing on the host.  Only a crash, a command that lies
\* about its effect and a change of proxy.type leave something behind
\* (service.go:84-97 and 115-119).
NoOrphans ==
  \A n \in Names :
    Trace(n) /\ row[n] = NoRow /\ ~Disturbed(n) /\ ~Mixed(n)
      => \E r \in Touching(n) : pc[r] \in InFlight

(* Why: what is on the host is still in some request's hands.              *)

ReadBefore == {"idle", "mkdir", "proxy"}
ReadAfter == {"write", "enable", "insert", "unlink", "unconf", "rmroot", "delrow"}

\* What its label says of a request.
Labels ==
  \A r \in Requests : /\ pc[r] \in ReadBefore => proxy[r] = ""
                      /\ pc[r] \in ReadAfter => proxy[r] # ""
                      /\ pc[r] \in InCreate => IsCreate(r)
                      /\ pc[r] = "delrow" => ~IsCreate(r)

\* r inserted a row of name n, as far as anybody can tell.
Inserted(r, n) == IsCreate(r) /\ Name(r) = n /\ (pc[r] = "ok" \/ r \in blind)

RowOwner ==
  /\ \A n \in Names : row[n] # NoRow => Inserted(row[n], n)
  /\ \A d \in Requests : target[d] # NoRow => Inserted(target[d], Name(d))

\* Virtual hosts are those of proxies that some request for n has read.
VhostsRead ==
  \A n \in Names : \A p \in Proxies :
    <<n, p>> \in conf \cup link => \E r \in Touching(n) : proxy[r] = p

\* Some Create of n stands at one of the labels ls.
HeldAt(n, ls) == \E r \in Touching(n) : IsCreate(r) /\ pc[r] \in ls

\* n has no row, or a Delete of its row stands at one of the labels ls.
DoomedAt(n, ls) ==
  \/ row[n] = NoRow
  \/ \E d \in Touching(n) : ~IsCreate(d) /\ pc[d] \in ls /\ target[d] = row[n]

\* Where a Create still answers for the thing it made, and where a Delete has
\* already removed it.
RootHeld == {"proxy", "write", "enable", "insert", "unlink", "unconf", "rmroot"}
ConfHeld == {"enable", "insert", "unlink", "unconf"}
LinkHeld == {"insert", "unlink"}
RootGone == {"delrow"}
ConfGone == {"rmroot", "delrow"}
LinkGone == {"unconf", "rmroot", "delrow"}

\* Whatever a name without a row has on the host, or a name whose row is about
\* to go has there behind the back of the Delete, is held by a Create that is
\* yet to insert its row or to roll back (service.go:71-97).
HeldOrOwned ==
  \A n \in Names : ~Disturbed(n) /\ ~Mixed(n) =>
    /\ n \in webRoot /\ DoomedAt(n, RootGone) => HeldAt(n, RootHeld)
    /\ Served(conf, n) # {} /\ DoomedAt(n, ConfGone) => HeldAt(n, ConfHeld)
    /\ Served(link, n) # {} /\ DoomedAt(n, LinkGone) => HeldAt(n, LinkHeld)

\* A request other than c has come as far as removing something of n: a Delete
\* that found the row, a Create that failed or stopped behind its virtual host.
Harmed(n, c) ==
  \E r \in Touching(n) \ {c} :
    /\ proxy[r] # ""
    /\ IsCreate(r) => pc[r] \in {"unlink", "unconf", "rmroot", "failed", "crashed"}

\* A domain with a row is fully provisioned (web root, virtual host, enabled)
\* unless another request for its name removed something: no failure that
\* Create itself runs into is mistaken for success (service.go:71-99).
ProvisionedUnlessHarmed ==
  \A n \in Names :
    row[n] # NoRow /\ row[n] \notin blind /\ ~Harmed(n, row[n])
      => n \in webRoot /\ <<n, proxy[row[n]]>> \in conf \cap link

\* c stands at one of the labels ls, or is done and still owns its row.
Made(c, ls) == pc[c] \in ls \/ (pc[c] = "ok" /\ row[Name(c)] = c)

\* The same promise from the moment each part is made.
MadeUnlessHarmed ==
  \A c \in Requests : IsCreate(c) /\ c \notin blind /\ ~Harmed(Name(c), c) =>
    /\ Made(c, {"proxy", "write", "enable", "insert"}) => Name(c) \in webRoot
    /\ Made(c, {"enable", "insert"}) => Vhost(c) \in conf
    /\ Made(c, {"insert"}) => Vhost(c) \in link

\* The inductive invariant behind NoOrphans and ProvisionedUnlessHarmed.
Accounting == Labels /\ RowOwner /\ VhostsRead /\ HeldOrOwned /\ MadeUnlessHarmed

\* The row of n, if this step takes it away, goes by a Delete of that very row.
RemovedByItsDelete(n) ==
  row[n] # NoRow /\ row'[n] # row[n]
    => \E d \in Touching(n) : target[d] = row[n] /\ pc[d] = "delrow" /\ pc'[d] = "ok"

\* A row disappears only at the hands of a Delete that was asked for exactly
\* this row: neither the rollback of a losing Create nor a Delete of an earlier
\* domain of the same name takes it away (service.go:94-98 and 119).
OnlyItsDeleteRemovesRow == [][\A n \in Names : RemovedByItsDelete(n)]_vars

-----------------------------------------------------------------------------
(* The promise, kept when clients wait for one another                     *)

\* What a client sees of the site n.  A request counts from its first command
\* on the host on: mkdir in Create, removeVhost in Delete.
Site(n) ==
  LET by(rs) == \E r \in rs : Name(r) = n /\ pc[r] \in InFlight /\ pc[r] # "mkdir"
      creates == {r \in Requests : IsCreate(r)}
      deletes == {r \in Requests : ~IsCreate(r) /\ pc[r] # "proxy"}
  IN IF by(creates) THEN "building"
     ELSE IF by(deletes) THEN "dismantling"
     ELSE IF row[n] = NoRow /\ ~Trace(n) THEN "absent"
     ELSE IF row[n] # NoRow /\ n \in webRoot /\ Served(conf \cap link, n) # {} THEN "live"
     ELSE "broken"

Sites == [n \in Names |-> Site(n)]
Promise == INSTANCE DomainPromise WITH site <- Sites

\* With one request per name at a time, a settled proxy.type and a host that
\* means what it reports, Create and Delete are all-or-nothing and always
\* finish, whichever checked command fails (service.go:50-120).
KeepsPromise == Promise!Spec
=============================================================================
