---------------------------- MODULE MailAccounts ----------------------------
(***************************************************************************)
(* email.Service (internal/email/service.go): the tables email_accounts    *)
(* and email_forwarders and the files by which Dovecot and Postfix serve   *)
(* them.  A row and its lines are written by a list of commands, and the   *)
(* files are shared: a new line is appended, while sed -i copies a whole   *)
(* file, edits the copy and renames it over the file.                      *)
(*                                                                         *)
(* A slot is an address in one of the two tables.  A request runs once;    *)
(* the key of a row (a fresh UUID) is the request that inserted it, or     *)
(* Older for a row of the initial state.                                   *)
(***************************************************************************)
EXTENDS FiniteSets

CONSTANTS
  Addresses,  \* addresses of accounts and sources of forwarders
  Domains,    \* mail domains
  DomainOf,   \* the domain of each address
  Values,     \* passwords of accounts, destinations of forwarders
  Home,       \* the line of an address in virtual_mailbox_maps
  Requests,   \* the requests sent to the email routes
  Older,      \* a request of the past
  None,       \* no row, no line, no value of a local
  Faults      \* which faults of the environment happen, see FaultKinds

\* "refused": a command fails without effect, or the host cannot be reached.
\* "lost":    a command takes effect and is reported as failed.
\* "db":      a statement fails.
\* "crash":   the process dies and is restarted; nothing resumes a request.
\* "cascade": the domain is deleted, and with it the rows that refer to it.
FaultKinds == {"refused", "lost", "db", "crash", "cascade"}

ASSUME MailAssumption ==
  /\ DomainOf \in [Addresses -> Domains]
  /\ Faults \subseteq FaultKinds
  /\ Home \notin Values
  /\ Older \notin Requests

Kinds == {"account", "forwarder"}
Slots == Kinds \X Addresses
Rows == [key : Requests \cup {Older}, value : Values]

\* /etc/dovecot/users, virtual_mailbox_maps and virtual_alias_maps.  Postfix
\* reads the last two in the form that postmap has compiled.
Files == {"users", "maps", "aliases"}
Compiled == {"maps", "aliases"}
Contents == [Addresses -> Values \cup {Home, None}]

ASSUME NoneAssumption == None \notin Values \cup {Home} \cup Rows \cup Slots \cup Contents

VARIABLES
  rows,       \* the row of each slot: email and source are unique columns
  files,      \* the line of each address in each file; of several the first counts
  compiled,   \* the files as postmap last compiled them
  registered, \* virtual_mailbox_domains
  mail,       \* the addresses that have a directory under /var/mail/vhosts
  pc,         \* the next command or statement of each request, or how it ended
  at,         \* the slot a request is about
  cur,        \* the row it has inserted or read, with the password it brings
  copy,       \* the copy that its sed is working on
  odd,        \* history: slots that a fault or a race has touched
  lone        \* history: requests that nothing has met since they began

host == <<files, compiled, registered, mail>>
locals == <<pc, at, cur, copy>>
history == <<odd, lone>>
vars == <<rows, host, locals, history>>

Provisioning == {"maildir", "login", "domain", "mailbox", "alias", "postmap"}
Edits == {"unlogin", "unmap", "unalias", "relogin"}
Rest == {"undo", "unpostmap", "unmail", "unrow", "repass"}
InFlight == Provisioning \cup Edits \cup Rest
Ended == {"ok", "failed", "crashed"}

TypeOK ==
  /\ rows \in [Slots -> Rows \cup {None}]
  /\ files \in [Files -> Contents]
  /\ compiled \in [Compiled -> Contents]
  /\ registered \subseteq Domains
  /\ mail \subseteq Addresses
  /\ pc \in [Requests -> {"idle"} \cup InFlight \cup Ended]
  /\ at \in [Requests -> Slots \cup {None}]
  /\ cur \in [Requests -> Rows \cup {None}]
  /\ copy \in [Requests -> Contents \cup {None}]
  /\ odd \subseteq Slots
  /\ lone \subseteq Requests

\* The tables hold any rows, and the host serves them.
Init ==
  LET Line(k, a, line) == IF rows[<<k, a>>] = None THEN None ELSE line
      Lines(f) == [a \in Addresses |->
        IF f = "aliases" THEN Line("forwarder", a, rows[<<"forwarder", a>>].value)
        ELSE Line("account", a, IF f = "maps" THEN Home ELSE rows[<<"account", a>>].value)]
      held == {a \in Addresses : rows[<<"account", a>>] # None}
  IN /\ rows \in [Slots -> [key : {Older}, value : Values] \cup {None}]
     /\ files = [f \in Files |-> Lines(f)]
     /\ compiled = [f \in Compiled |-> Lines(f)]
     /\ registered = {DomainOf[a] : a \in held}
     /\ mail = held
     /\ pc = [r \in Requests |-> "idle"]
     /\ at = [r \in Requests |-> None]
     /\ cur = [r \in Requests |-> None]
     /\ copy = [r \in Requests |-> None]
     /\ odd = {}
     /\ lone = {}

-----------------------------------------------------------------------------
(* Local steps.                                                            *)

Address(r) == at[r][2]
IsAccount(r) == at[r][1] = "account"
Holds(r, s) == pc[r] \in InFlight /\ at[r] = s
Idle == \A r \in Requests : pc[r] \notin InFlight

Goto(r, l) == pc' = [pc EXCEPT ![r] = l]

Begin(r, s, row, l) ==
  /\ pc[r] = "idle"
  /\ Goto(r, l)
  /\ at' = [at EXCEPT ![r] = s]
  /\ cur' = [cur EXCEPT ![r] = row]
  /\ odd' = IF \E q \in Requests : Holds(q, s) THEN odd \cup {s} ELSE odd
  /\ lone' = IF Idle THEN {r} ELSE {}

Return(r, l) ==
  /\ Goto(r, l)
  /\ at' = [at EXCEPT ![r] = None]
  /\ cur' = [cur EXCEPT ![r] = None]

\* A fault strikes r and leaves its slot in disorder.
Harm(r, fault) ==
  /\ fault \in Faults
  /\ odd' = odd \cup {at[r]}
  /\ lone' = lone \ {r}

Unharmed == UNCHANGED history

\* The file of each sed, and what comes after it.
Edited == [unlogin |-> "users", unmap |-> "maps", unalias |-> "aliases", relogin |-> "users"]
After == [unlogin |-> "unmap", unmap |-> "unpostmap", unalias |-> "unpostmap",
          relogin |-> "repass"]

\* What r writes to f is lost when another sed renames its copy over f.
Overtaken(r, f) ==
  \E q \in Requests \ {r} : pc[q] \in Edits /\ copy[q] # None /\ Edited[pc[q]] = f

Write(r, f) ==
  /\ odd' = IF Overtaken(r, f) THEN odd \cup {at[r]} ELSE odd
  /\ UNCHANGED lone

\* No such domain or row, an invalid payload, no hash or, in ChangePassword, no
\* executor: the request ends and has changed nothing.
Refused(r) ==
  /\ pc[r] = "idle"
  /\ Goto(r, "failed")
  /\ UNCHANGED <<rows, host, at, cur, copy, history>>

\* DELETE by primary key.
Dropped(r) ==
  [rows EXCEPT ![at[r]] = IF @ # None /\ @.key = cur[r].key THEN None ELSE @]

-----------------------------------------------------------------------------
(* CreateAccount and CreateForwarder                                       *)

\* The INSERT comes first, and the unique index lets one request through.
Insert(r, s, v) ==
  LET row == [key |-> r, value |-> v]
  IN /\ rows[s] = None
     /\ Begin(r, s, row, IF s[1] = "account" THEN "maildir" ELSE "alias")
     /\ rows' = [rows EXCEPT ![s] = row]
     /\ UNCHANGED <<host, copy>>

\* A checked command fails, or the host cannot be reached: only the row is
\* taken back.
CommandRefused(r) ==
  /\ pc[r] \in Provisioning
  /\ pc[r] = "postmap" => IsAccount(r)
  /\ Harm(r, "refused")
  /\ Goto(r, "undo")
  /\ UNCHANGED <<rows, host, at, cur, copy>>

Outcome(r, next) ==
  \/ Goto(r, next) /\ Unharmed
  \/ Goto(r, "undo") /\ Harm(r, "lost")

MakeMaildir(r) ==
  /\ pc[r] = "maildir"
  /\ mail' = mail \cup {Address(r)}
  /\ Outcome(r, "login")
  /\ UNCHANGED <<rows, files, compiled, registered, at, cur, copy>>

\* echo >> f
Append(r, f, line, next) ==
  /\ files' = [files EXCEPT ![f][Address(r)] = IF @ = None THEN line ELSE @]
  /\ \/ Goto(r, next) /\ Write(r, f)
     \/ Goto(r, "undo") /\ Harm(r, "lost")
  /\ UNCHANGED <<rows, compiled, registered, mail, at, cur, copy>>

AddLogin(r) == pc[r] = "login" /\ Append(r, "users", cur[r].value, "domain")
AddMailbox(r) == pc[r] = "mailbox" /\ Append(r, "maps", Home, "postmap")
AddAlias(r) == pc[r] = "alias" /\ Append(r, "aliases", cur[r].value, "postmap")

\* The address goes where its domain belongs.
RegisterAddress(r) ==
  /\ pc[r] = "domain"
  /\ registered' = registered \cup {Address(r)}
  /\ Outcome(r, "mailbox")
  /\ UNCHANGED <<rows, files, compiled, mail, at, cur, copy>>

\* grep || echo >>: virtual_mailbox_domains only ever grows.
RegisterDomain(r) ==
  /\ pc[r] = "domain"
  /\ registered' = registered \cup {DomainOf[Address(r)]}
  /\ Outcome(r, "mailbox")
  /\ UNCHANGED <<rows, files, compiled, mail, at, cur, copy>>

Recompile(r) ==
  LET f == IF IsAccount(r) THEN "maps" ELSE "aliases"
  IN compiled' = [compiled EXCEPT ![f] = files[f]]

\* "postmap ... || true": only a connection that fails is noticed, and only for
\* an account.
Postmap(r) ==
  /\ pc[r] = "postmap"
  /\ \/ Recompile(r) /\ Return(r, "ok") /\ Unharmed
     \/ IsAccount(r) /\ Recompile(r) /\ Goto(r, "undo") /\ Harm(r, "lost") /\ UNCHANGED <<at, cur>>
     \/ Return(r, "ok") /\ Harm(r, "refused") /\ UNCHANGED compiled
  /\ UNCHANGED <<rows, files, registered, mail, copy>>

\* db.Delete, its error dropped; nothing on the host is undone.
Undo(r) ==
  /\ pc[r] = "undo"
  /\ Return(r, "failed")
  /\ \/ rows' = Dropped(r) /\ Unharmed
     \/ Harm(r, "db") /\ UNCHANGED rows
  /\ UNCHANGED <<host, copy>>

-----------------------------------------------------------------------------
(* DeleteAccount, DeleteForwarder and ChangePassword                       *)

\* All three read the row first.
Delete(r, s) ==
  /\ rows[s] # None
  /\ Begin(r, s, rows[s], IF s[1] = "account" THEN "unlogin" ELSE "unalias")
  /\ UNCHANGED <<rows, host, copy>>

ChangePassword(r, a, v) ==
  LET s == <<"account", a>>
  IN /\ rows[s] # None
     /\ Begin(r, s, [rows[s] EXCEPT !.value = v], "relogin")
     /\ UNCHANGED <<rows, host, copy>>

\* No executor: a deletion skips the host.
Unreachable(r) ==
  /\ pc[r] \in {"unlogin", "unalias"}
  /\ copy[r] = None
  /\ Harm(r, "refused")
  /\ Goto(r, "unrow")
  /\ UNCHANGED <<rows, host, at, cur, copy>>

\* sed -i reads the file ...
EditCopy(r) ==
  /\ pc[r] \in Edits
  /\ copy[r] = None
  /\ copy' = [copy EXCEPT ![r] = files[Edited[pc[r]]]]
  /\ UNCHANGED <<rows, host, pc, at, cur, history>>

\* The address is left out of the pattern.
EditRenameDomain(r) ==
  LET f == Edited[pc[r]]
      mine == {a \in Addresses : DomainOf[a] = DomainOf[Address(r)]}
  IN /\ pc[r] \in Edits
     /\ copy[r] # None
     /\ files' = [files EXCEPT ![f] = [a \in Addresses |->
          IF a \notin mine THEN copy[r][a]
          ELSE IF pc[r] = "relogin" /\ copy[r][a] # None THEN cur[r].value ELSE None]]
     /\ copy' = [copy EXCEPT ![r] = None]
     /\ Goto(r, After[pc[r]])
     /\ Write(r, f)
     /\ UNCHANGED <<rows, compiled, registered, mail, at, cur>>

\* The pattern for the users file ends in the blank of the mailbox maps.
EditRenameMismatched(r) ==
  LET f == Edited[pc[r]]
  IN /\ pc[r] \in Edits
     /\ copy[r] # None
     /\ files' = [files EXCEPT ![f] = IF f = "users" THEN copy[r]
                                      ELSE [copy[r] EXCEPT ![Address(r)] = None]]
     /\ copy' = [copy EXCEPT ![r] = None]
     /\ Goto(r, After[pc[r]])
     /\ Write(r, f)
     /\ UNCHANGED <<rows, compiled, registered, mail, at, cur>>

\* ... and renames the edited copy over it: without the lines of the address,
\* or with the new hash in them.
EditRename(r) ==
  LET f == Edited[pc[r]]
      keeps == pc[r] = "relogin" /\ copy[r][Address(r)] # None
  IN /\ pc[r] \in Edits
     /\ copy[r] # None
     /\ files' = [files EXCEPT ![f] =
          [copy[r] EXCEPT ![Address(r)] = IF keeps THEN cur[r].value ELSE None]]
     /\ copy' = [copy EXCEPT ![r] = None]
     /\ Goto(r, After[pc[r]])
     /\ Write(r, f)
     /\ UNCHANGED <<rows, compiled, registered, mail, at, cur>>

\* The error of a sed is dropped.
EditRefused(r) ==
  /\ pc[r] \in Edits
  /\ Harm(r, "refused")
  /\ copy' = [copy EXCEPT ![r] = None]
  /\ Goto(r, After[pc[r]])
  /\ UNCHANGED <<rows, host, at, cur>>

\* The map is edited and not compiled.
UnpostmapForgotten(r) ==
  /\ pc[r] = "unpostmap"
  /\ Goto(r, IF IsAccount(r) THEN "unmail" ELSE "unrow")
  /\ Unharmed
  /\ UNCHANGED <<rows, files, compiled, registered, mail, at, cur, copy>>

Unpostmap(r) ==
  /\ pc[r] = "unpostmap"
  /\ Goto(r, IF IsAccount(r) THEN "unmail" ELSE "unrow")
  /\ \/ Recompile(r) /\ Unharmed
     \/ Harm(r, "refused") /\ UNCHANGED compiled
  /\ UNCHANGED <<rows, files, registered, mail, at, cur, copy>>

\* The path stops at the domain.
RemoveMaildirOfDomain(r) ==
  /\ pc[r] = "unmail"
  /\ mail' = {a \in mail : DomainOf[a] # DomainOf[Address(r)]}
  /\ Goto(r, "unrow")
  /\ Unharmed
  /\ UNCHANGED <<rows, files, compiled, registered, at, cur, copy>>

RemoveMaildir(r) ==
  /\ pc[r] = "unmail"
  /\ Goto(r, "unrow")
  /\ \/ mail' = mail \ {Address(r)} /\ Unharmed
     \/ Harm(r, "refused") /\ UNCHANGED mail
  /\ UNCHANGED <<rows, files, compiled, registered, at, cur, copy>>

DeleteRow(r) ==
  /\ pc[r] = "unrow"
  /\ \/ rows' = Dropped(r) /\ Return(r, "ok") /\ Unharmed
     \/ Return(r, "failed") /\ Harm(r, "db") /\ UNCHANGED rows
  /\ UNCHANGED <<host, copy>>

\* UPDATE by primary key, which may find nothing.
StorePassword(r) ==
  LET s == at[r]
  IN /\ pc[r] = "repass"
     /\ \/ /\ rows' = [rows EXCEPT ![s] = IF @ # None /\ @.key = cur[r].key THEN cur[r] ELSE @]
           /\ Return(r, "ok")
           /\ Unharmed
        \/ Return(r, "failed") /\ Harm(r, "db") /\ UNCHANGED rows
     /\ UNCHANGED <<host, copy>>

-----------------------------------------------------------------------------
(* The environment                                                         *)

Crash ==
  LET dead == {r \in Requests : pc[r] \in InFlight}
      Lost(f, null) == [r \in Requests |-> IF r \in dead THEN null ELSE f[r]]
  IN /\ "crash" \in Faults
     /\ dead # {}
     /\ pc' = Lost(pc, "crashed")
     /\ at' = Lost(at, None)
     /\ cur' = Lost(cur, None)
     /\ copy' = Lost(copy, None)
     /\ odd' = odd \cup {at[r] : r \in dead}
     /\ lone' = {}
     /\ UNCHANGED <<rows, host>>

\* domain.Service deletes the domain's row; ON DELETE CASCADE takes the rows of
\* its addresses and leaves the host as it is.
Cascade(d) ==
  LET gone == {s \in Slots : DomainOf[s[2]] = d /\ rows[s] # None}
  IN /\ "cascade" \in Faults
     /\ gone # {}
     /\ rows' = [s \in Slots |-> IF s \in gone THEN None ELSE rows[s]]
     /\ odd' = odd \cup gone
     /\ lone' = {}
     /\ UNCHANGED <<host, locals>>

Quiet == (\A r \in Requests : pc[r] \in Ended) /\ UNCHANGED vars

Start(r) ==
  \/ \E s \in Slots : Delete(r, s) \/ \E v \in Values : Insert(r, s, v)
  \/ \E a \in Addresses, v \in Values : ChangePassword(r, a, v)

Provision(r) ==
  MakeMaildir(r) \/ AddLogin(r) \/ RegisterDomain(r) \/ AddMailbox(r) \/ AddAlias(r)
  \/ Postmap(r) \/ CommandRefused(r) \/ Undo(r)

Edit(r) == EditCopy(r) \/ EditRename(r) \/ EditRefused(r)

Deprovision(r) == Unreachable(r) \/ Unpostmap(r) \/ RemoveMaildir(r) \/ DeleteRow(r)

Next ==
  \/ \E r \in Requests : \/ Start(r) \/ Refused(r) \/ Provision(r)
                         \/ Edit(r) \/ Deprovision(r) \/ StorePassword(r)
  \/ Crash
  \/ \E d \in Domains : Cascade(d)
  \/ Quiet

Spec == Init /\ [][Next]_vars

-----------------------------------------------------------------------------
(* Properties                                                              *)

\* A slot that no request is working on and that no fault or race has touched.
Settled(s) == s \notin odd /\ \A r \in Requests : ~Holds(r, s)

\* Dovecot lets the address in with the password of its row, and Postfix knows
\* its domain and where to deliver; a forwarder forwards to its destination.
Served(s, v) ==
  LET a == s[2]
  IN IF s[1] = "account"
     THEN /\ files["users"][a] = v
          /\ compiled["maps"][a] = Home
          /\ a \in mail
          /\ DomainOf[a] \in registered
     ELSE compiled["aliases"][a] = v

\* Nothing of the slot is left on the host.
Bare(s) ==
  LET a == s[2]
  IN IF s[1] = "account"
     THEN /\ files["users"][a] = None
          /\ files["maps"][a] = None
          /\ compiled["maps"][a] = None
          /\ a \notin mail
     ELSE files["aliases"][a] = None /\ compiled["aliases"][a] = None

\* Whatever other requests do to their own addresses in the shared files, even
\* when they fail or are cut off, a settled row is served (service.go:316-448).
RowsAreServed ==
  \A s \in Slots : Settled(s) /\ rows[s] # None => Served(s, rows[s].value)

\* Nobody logs in, receives or forwards mail by a settled slot without a row: an
\* edit never brings a deleted line back unless it raced (service.go:367-401).
NothingUnasked ==
  \A s \in Slots : Settled(s) /\ rows[s] = None => Bare(s)

\* Whatever failed before, a deletion that meets nobody and no fault takes the
\* whole slot from the host: leftovers of an address that still has a row are
\* always within the reach of another Delete (service.go:367-401, 500-518).
DeleteHeals ==
  [][\A r \in lone : pc[r] = "unrow" /\ pc'[r] = "ok"
       => rows'[at[r]] = None /\ Bare(at[r])]_vars

\* The mail of an address that has a row is destroyed only by the deletion of
\* this very row, unless two requests met over the address (service.go:397-398).
MailKept ==
  [][\A a \in mail \ mail' : LET s == <<"account", a>> IN
       rows[s] # None => \/ s \in odd
                         \/ \E r \in Requests : Holds(r, s) /\ cur[r].key = rows[s].key]_vars
=============================================================================
