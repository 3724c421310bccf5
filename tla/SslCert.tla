------------------------------ MODULE SslCert ------------------------------
(***************************************************************************)
(* ssl.Service (internal/ssl/service.go) and the daily job CheckSSLExpiry  *)
(* (internal/notifications/service.go) for one domain: the row of          *)
(* ssl_certs, the certificate that certbot keeps on the host, and the      *)
(* domain's virtual host.  Requests and the two nightly jobs interleave    *)
(* between any two commands and statements.                                *)
(*                                                                         *)
(* Time is counted in days left, so that it needs no bound; the days of    *)
(* the certificate and those in the row run down together.  The setting    *)
(* proxy.type does not change here (DomainLifecycle has it).               *)
(***************************************************************************)
EXTENDS Integers, FiniteSets

CONSTANTS
  Slots,     \* requests to the ssl routes that may be in flight together
  Parallel,  \* bound: a request starts only while fewer run, the
             \* nightly jobs and the Delete of the domain included
  NoRow,     \* ssl_certs has no row for the domain
  Life,      \* days a new certificate lasts
  Soon,      \* 30 days: certbot renews, computeStatus says expiring_soon
  Faults     \* which faults of the environment happen, see FaultKinds

\* "refused": the executor cannot be built, or certbot fails without effect.
\* "lost":    certbot succeeds, and the SSH session drops before it says so.
\* "ignored": a command whose error the code drops has no effect.
\* "db":      a statement on ssl_certs or notifications fails.
\* "crash":   the process dies and is restarted; nothing resumes what it did.
FaultKinds == {"refused", "lost", "ignored", "db", "crash"}

ASSUME CertAssumption ==
  /\ Soon \in Nat \ {0}
  /\ Life \in Nat
  /\ Soon < Life
  /\ Parallel \in Nat
  /\ Faults \subseteq FaultKinds

RenewDue == "RenewDue"
CheckExpiry == "CheckSSLExpiry"
Jobs == {RenewDue, CheckExpiry}
Procs == Slots \cup Jobs

ASSUME ProcAssumption == Slots \cap Jobs = {}

VARIABLES
  disk,     \* host: days left of the certificate in /etc/letsencrypt/live
  vhost,    \* host: the file in sites-available, see Vhosts
  domain,   \* the domain: "there", "going" while Delete works, or "gone"
  row,      \* the row of ssl_certs
  pc,       \* the next call of each request and job, "idle" if none
  op,       \* the operation of each request
  draft,    \* the vhost that each request will write
  date,     \* the local expiresAt of each request and of RenewDue
  warned,   \* notifications: a warning for the certificate has today's date
  muddled,  \* history: a vhost was being written by two requests at once, or
            \* while the domain went, or a fault struck meanwhile
  adopted,  \* history: a renewal has made a row active that has no cert_path
  quiet,    \* history: nothing but RenewDue has run, and no fault, since it began
  misses    \* history: nights in a row, up to Soon, the renewal was due and failed

host == <<disk, vhost>>
locals == <<op, draft, date>>
history == <<muddled, adopted, quiet, misses>>
vars == <<host, domain, row, pc, locals, warned, history>>

Absent == -1  \* no certificate, no date
Days == Absent .. Life
Statuses == {"pending", "failed", "valid", "expiring_soon", "expired"}
Rows == [status : Statuses, expires : Days, path : BOOLEAN, redirect : BOOLEAN]

ASSUME RowAssumption == NoRow \notin Rows

\* "both": HTTP and HTTPS; "redirect": HTTPS only.  named: the file names a
\* certificate.
Vhosts == [kind : {"none", "plain", "both", "redirect"}, named : BOOLEAN]
Plain == [kind |-> "plain", named |-> FALSE]
Gone == [kind |-> "none", named |-> FALSE]
IsSSL(v) == v.kind \in {"both", "redirect"}

\* What updateVhostSSL writes.
SSLVhost(named, redirect) ==
  [kind |-> IF redirect THEN "redirect" ELSE "both", named |-> named]

Running(p) == pc[p] # "idle"
Writers == {s \in Slots : Running(s) /\ op[s] \in {"provision", "toggle"}}

TypeOK ==
  /\ disk \in Days
  /\ vhost \in Vhosts
  /\ domain \in {"there", "going", "gone"}
  /\ row \in Rows \cup {NoRow}
  /\ pc \in [Procs -> {"idle", "insert", "certbot", "list", "mark", "read", "store",
                       "vhost", "flag", "select"}]
  /\ op \in [Slots -> {"none", "provision", "renew", "toggle"}]
  /\ draft \in [Slots -> Vhosts]
  /\ date \in [Slots \cup {RenewDue} -> Days]
  /\ warned \in BOOLEAN
  /\ muddled \in BOOLEAN
  /\ adopted \in BOOLEAN
  /\ quiet \in BOOLEAN
  /\ misses \in 0 .. Soon

\* Deleting a domain leaves its certificate, which certbot goes on renewing: a
\* domain of the same name may find it.
Init ==
  /\ disk \in {Absent} \cup (Soon + 1) .. Life
  /\ vhost = Plain
  /\ domain = "there"
  /\ row = NoRow
  /\ pc = [p \in Procs |-> "idle"]
  /\ op = [s \in Slots |-> "none"]
  /\ draft = [s \in Slots |-> Gone]
  /\ date = [p \in Slots \cup {RenewDue} |-> Absent]
  /\ warned = FALSE
  /\ muddled = FALSE
  /\ adopted = FALSE
  /\ quiet = FALSE
  /\ misses = 0

-----------------------------------------------------------------------------
(* Helpers                                                                 *)

Goto(p, l) == pc' = [pc EXCEPT ![p] = l]

\* A request ends, and its locals with it.
Return(s) ==
  /\ Goto(s, "idle")
  /\ op' = [op EXCEPT ![s] = "none"]
  /\ draft' = [draft EXCEPT ![s] = Gone]
  /\ date' = [date EXCEPT ![s] = Absent]

\* A status that the rest of the code does not know.
StatusOfUnread(t) ==
  IF t = Absent THEN "" ELSE IF t = 0 THEN "expired"
  ELSE IF t <= Soon THEN "expiring_soon" ELSE "valid"

\* computeStatus: the date that could not be read counts as pending.
StatusOf(t) ==
  IF t = Absent THEN "pending" ELSE IF t = 0 THEN "expired"
  ELSE IF t <= Soon THEN "expiring_soon" ELSE "valid"

\* An UPDATE of the row by its id: none if it is gone.
Updated(new) == row' = IF row = NoRow THEN NoRow ELSE new

\* certbot with an order for a new certificate: done, or not, and said to be
\* done, or not.
Certbot(s, done) ==
  \/ disk' = Life /\ Goto(s, done)
  \/ "refused" \in Faults /\ Goto(s, "mark") /\ UNCHANGED disk
  \/ "lost" \in Faults /\ Goto(s, "mark") /\ disk' = Life

\* A request that writes the vhost begins.
Writes(s) == muddled' = (muddled \/ Writers # {} \/ domain = "going")

\* Bound: see Parallel.
MayStart(s) ==
  /\ pc[s] = "idle"
  /\ Cardinality({p \in Procs : Running(p)}) + (IF domain = "going" THEN 1 ELSE 0) < Parallel

\* The request fails before its first command, or cannot find what it is for.
Refused(s) ==
  /\ "refused" \in Faults
  /\ pc[s] = "certbot" \/ (pc[s] = "vhost" /\ op[s] = "toggle")
  /\ Return(s)
  /\ UNCHANGED <<host, domain, row, warned, history>>

-----------------------------------------------------------------------------
(* Provision                                                               *)

\* The domain's name, then the row if there is one; its flag is kept for the
\* vhost, whose certificate has a path that the domain's name gives.
Provision(s) ==
  /\ MayStart(s)
  /\ domain # "gone"
  /\ op' = [op EXCEPT ![s] = "provision"]
  /\ \/ /\ Goto(s, IF row = NoRow THEN "insert" ELSE "certbot")
        /\ draft' = [draft EXCEPT ![s] = SSLVhost(TRUE, row # NoRow /\ row.redirect)]
     \/ "db" \in Faults /\ Goto(s, "insert") /\ UNCHANGED draft
  /\ Writes(s)
  /\ quiet' = FALSE
  /\ UNCHANGED <<host, domain, row, date, warned, adopted, misses>>

\* The pending row; an error if there is one by now, or no domain.
Insert(s) ==
  LET new == [status |-> "pending", expires |-> Absent, path |-> FALSE, redirect |-> FALSE]
  IN /\ pc[s] = "insert"
     /\ \/ /\ row = NoRow
           /\ domain # "gone"
           /\ row' = new
           /\ draft' = [draft EXCEPT ![s] = SSLVhost(TRUE, FALSE)]
           /\ Goto(s, "certbot")
           /\ UNCHANGED <<op, date>>
        \/ /\ row # NoRow \/ domain = "gone" \/ "db" \in Faults
           /\ Return(s)
           /\ UNCHANGED row
     /\ UNCHANGED <<host, domain, warned, history>>

\* certbot certonly issues a certificate or keeps one that is not yet due.
Issue(s) ==
  /\ pc[s] = "certbot"
  /\ op[s] = "provision"
  /\ \/ Certbot(s, "read")
     \/ disk > Soon /\ Goto(s, "read") /\ UNCHANGED disk
  /\ UNCHANGED <<vhost, domain, row, locals, warned, history>>

\* Status and last_error of a certbot that reported an error.
Mark(s) ==
  /\ pc[s] = "mark"
  /\ \/ Updated([row EXCEPT !.status = "failed"])
     \/ "db" \in Faults /\ UNCHANGED row
  /\ Return(s)
  /\ UNCHANGED <<host, domain, warned, history>>

\* A date that cannot be read is taken for a new certificate's.
ReadDatesHopeful(p) ==
  /\ pc[p] = "read"
  /\ \/ date' = [date EXCEPT ![p] = disk] /\ UNCHANGED quiet
     \/ "ignored" \in Faults /\ date' = [date EXCEPT ![p] = Life] /\ quiet' = FALSE
  /\ Goto(p, "store")
  /\ UNCHANGED <<host, domain, row, op, draft, warned, muddled, adopted, misses>>

\* readCertDates: nil if openssl fails.
ReadDates(p) ==
  /\ pc[p] = "read"
  /\ \/ date' = [date EXCEPT ![p] = disk] /\ UNCHANGED quiet
     \/ "ignored" \in Faults /\ date' = [date EXCEPT ![p] = Absent] /\ quiet' = FALSE
  /\ Goto(p, "store")
  /\ UNCHANGED <<host, domain, row, op, draft, warned, muddled, adopted, misses>>

\* Everything about the new certificate, its path included.
StoreIssued(s) ==
  /\ pc[s] = "store"
  /\ op[s] = "provision"
  /\ \/ Updated([row EXCEPT !.status = StatusOf(date[s]), !.expires = date[s], !.path = TRUE])
     \/ "db" \in Faults /\ UNCHANGED row
  /\ Goto(s, "vhost")
  /\ date' = [date EXCEPT ![s] = Absent]
  /\ UNCHANGED <<host, domain, op, draft, warned, history>>

\* A new certificate starts without the redirect.
WriteVhostFresh(s) ==
  /\ pc[s] = "vhost"
  /\ vhost' = IF op[s] = "toggle" THEN draft[s] ELSE SSLVhost(TRUE, FALSE)
  /\ IF op[s] = "toggle" THEN Goto(s, "flag") /\ UNCHANGED locals ELSE Return(s)
  /\ UNCHANGED <<disk, domain, row, warned, history>>

\* updateVhostSSL, with the flag as it was when the request began; its errors
\* are dropped.
WriteVhost(s) ==
  /\ pc[s] = "vhost"
  /\ \/ vhost' = draft[s] /\ UNCHANGED muddled
     \/ "ignored" \in Faults /\ muddled' = TRUE /\ UNCHANGED vhost
  /\ IF op[s] = "toggle" THEN Goto(s, "flag") /\ UNCHANGED locals ELSE Return(s)
  /\ UNCHANGED <<disk, domain, row, warned, adopted, quiet, misses>>

-----------------------------------------------------------------------------
(* Renew and ToggleRedirect                                                *)

Renew(s) ==
  /\ MayStart(s)
  /\ row # NoRow
  /\ op' = [op EXCEPT ![s] = "renew"]
  /\ Goto(s, "certbot")
  /\ quiet' = FALSE
  /\ UNCHANGED <<host, domain, row, draft, date, warned, muddled, adopted, misses>>

\* certbot renew --cert-name --force-renewal knows only what it once issued.
ForceRenewal(s) ==
  /\ pc[s] = "certbot"
  /\ op[s] = "renew"
  /\ \/ disk # Absent /\ Certbot(s, "read")
     \/ disk = Absent /\ Goto(s, "mark") /\ UNCHANGED disk
  /\ UNCHANGED <<vhost, domain, row, locals, warned, history>>

\* Everything but the path.
StoreRenewed(s) ==
  /\ pc[s] = "store"
  /\ op[s] = "renew"
  /\ \/ /\ Updated([row EXCEPT !.status = StatusOf(date[s]), !.expires = date[s]])
        /\ adopted' = (adopted \/ (row # NoRow /\ ~row.path))
     \/ "db" \in Faults /\ UNCHANGED <<row, adopted>>
  /\ Return(s)
  /\ UNCHANGED <<host, domain, warned, muddled, quiet, misses>>

\* Any row will do.
ToggleUnchecked(s, enable) ==
  /\ MayStart(s)
  /\ row # NoRow
  /\ op' = [op EXCEPT ![s] = "toggle"]
  /\ draft' = [draft EXCEPT ![s] = SSLVhost(row.path, enable)]
  /\ Goto(s, "vhost")
  /\ Writes(s)
  /\ quiet' = FALSE
  /\ UNCHANGED <<host, domain, row, date, warned, adopted, misses>>

\* The certificate must be active.
Toggle(s, enable) ==
  /\ MayStart(s)
  /\ row # NoRow
  /\ row.status \in {"valid", "expiring_soon"}
  /\ op' = [op EXCEPT ![s] = "toggle"]
  /\ draft' = [draft EXCEPT ![s] = SSLVhost(row.path, enable)]
  /\ Goto(s, "vhost")
  /\ Writes(s)
  /\ quiet' = FALSE
  /\ UNCHANGED <<host, domain, row, date, warned, adopted, misses>>

StoreFlag(s) ==
  /\ pc[s] = "flag"
  /\ \/ Updated([row EXCEPT !.redirect = draft[s].kind = "redirect"]) /\ UNCHANGED muddled
     \/ "db" \in Faults /\ muddled' = TRUE /\ UNCHANGED row
  /\ Return(s)
  /\ UNCHANGED <<host, domain, warned, adopted, quiet, misses>>

-----------------------------------------------------------------------------
(* The nightly jobs                                                        *)

Missed == IF misses < Soon THEN misses + 1 ELSE misses
Due == disk # Absent /\ disk <= Soon

\* The rows decide whether there is anything to renew.
RunRenewalListed ==
  /\ pc[RenewDue] = "certbot"
  /\ IF Due /\ row # NoRow /\ row.path THEN disk' = Life /\ misses' = 0
     ELSE UNCHANGED <<disk, misses>>
  /\ Goto(RenewDue, "list")
  /\ UNCHANGED <<vhost, domain, row, locals, warned, muddled, adopted, quiet>>

\* RenewDue: certbot renews what is due; its error is dropped.
RunRenewal ==
  /\ pc[RenewDue] = "certbot"
  /\ \/ Due /\ disk' = Life /\ misses' = 0 /\ Goto(RenewDue, "list")
     \/ ~Due /\ misses' = 0 /\ Goto(RenewDue, "list") /\ UNCHANGED disk
     \/ /\ "refused" \in Faults
        /\ Due
        /\ misses' = Missed
        /\ Goto(RenewDue, "list")
        /\ UNCHANGED disk
  /\ UNCHANGED <<vhost, domain, row, locals, warned, muddled, adopted, quiet>>

\* No executor, and the night is lost.
SkipRenewal ==
  /\ "refused" \in Faults
  /\ pc[RenewDue] = "certbot"
  /\ misses' = IF Due THEN Missed ELSE 0
  /\ Goto(RenewDue, "idle")
  /\ quiet' = FALSE
  /\ UNCHANGED <<host, domain, row, locals, warned, muddled, adopted>>

\* Only a certificate that looks active is refreshed.
ListActive ==
  /\ pc[RenewDue] = "list"
  /\ Goto(RenewDue, IF row # NoRow /\ row.status = "valid" THEN "read" ELSE "idle")
  /\ UNCHANGED <<host, domain, row, locals, warned, history>>

\* refreshAllStatuses: the rows with a cert_path.
List ==
  /\ pc[RenewDue] = "list"
  /\ \/ /\ Goto(RenewDue, IF row # NoRow /\ row.path THEN "read" ELSE "idle")
        /\ UNCHANGED quiet
     \/ "db" \in Faults /\ Goto(RenewDue, "idle") /\ quiet' = FALSE
  /\ UNCHANGED <<host, domain, row, locals, warned, muddled, adopted, misses>>

\* A date that could be read replaces what the row says.
Refresh ==
  LET t == date[RenewDue]
  IN /\ pc[RenewDue] = "store"
     /\ \/ /\ t # Absent
           /\ Updated([row EXCEPT !.status = StatusOf(t), !.expires = t])
           /\ UNCHANGED quiet
        \/ t = Absent /\ UNCHANGED <<row, quiet>>
        \/ "db" \in Faults /\ quiet' = FALSE /\ UNCHANGED row
     /\ Goto(RenewDue, "idle")
     /\ date' = [date EXCEPT ![RenewDue] = Absent]
     /\ UNCHANGED <<host, domain, op, draft, warned, muddled, adopted, misses>>

\* CheckSSLExpiry: a notification for the certificates that expire soon and are
\* still valid, unless today has one.  It reads the row once.
Check ==
  /\ pc[CheckExpiry] = "select"
  /\ \/ warned' = (warned \/ (/\ row # NoRow
                              /\ row.expires \in 0 .. Soon
                              /\ row.status = "valid"))
     \/ "db" \in Faults /\ UNCHANGED warned
  /\ Goto(CheckExpiry, "idle")
  /\ UNCHANGED <<host, domain, row, locals, history>>

-----------------------------------------------------------------------------
(* The environment                                                         *)

DayLater(t) == IF t > 0 THEN t - 1 ELSE t

\* Midnight.  Bound: requests and jobs take less than a day.
Midnight ==
  /\ \A p \in Procs : ~Running(p)
  /\ domain # "going"
  /\ disk' = DayLater(disk)
  /\ row' = IF row = NoRow THEN NoRow ELSE [row EXCEPT !.expires = DayLater(@)]
  /\ pc' = [pc EXCEPT ![RenewDue] = "certbot", ![CheckExpiry] = "select"]
  /\ warned' = FALSE
  /\ quiet' = TRUE
  /\ UNCHANGED <<vhost, domain, locals, muddled, adopted, misses>>

\* domain.Service.Delete removes the vhost, and drops what rm says of it ...
RemoveVhost ==
  /\ domain = "there"
  /\ domain' = "going"
  /\ \/ vhost' = Gone /\ muddled' = (muddled \/ Writers # {})
     \/ "ignored" \in Faults /\ muddled' = TRUE /\ UNCHANGED vhost
  /\ UNCHANGED <<disk, row, pc, locals, warned, adopted, quiet, misses>>

\* ... and at last the domain's row, with which the row of ssl_certs goes; the
\* certificate stays.
DropRow ==
  /\ domain = "going"
  /\ \/ domain' = "gone" /\ row' = NoRow /\ UNCHANGED muddled
     \/ "db" \in Faults /\ domain' = "there" /\ muddled' = TRUE /\ UNCHANGED row
  /\ UNCHANGED <<host, pc, locals, warned, adopted, quiet, misses>>

\* A renewal that had yet to run is missed tonight; a Delete leaves its domain.
Crash ==
  /\ "crash" \in Faults
  /\ domain = "going" \/ \E p \in Procs : Running(p)
  /\ domain' = IF domain = "going" THEN "there" ELSE domain
  /\ pc' = [p \in Procs |-> "idle"]
  /\ op' = [s \in Slots |-> "none"]
  /\ draft' = [s \in Slots |-> Gone]
  /\ date' = [p \in Slots \cup {RenewDue} |-> Absent]
  /\ muddled' = (muddled \/ Writers # {} \/ domain = "going")
  /\ quiet' = FALSE
  /\ misses' = IF pc[RenewDue] = "certbot" /\ Due THEN Missed ELSE misses
  /\ UNCHANGED <<host, row, warned, adopted>>

Request(s) ==
  \/ Provision(s) \/ Insert(s) \/ Issue(s) \/ Mark(s) \/ ReadDates(s) \/ StoreIssued(s)
  \/ WriteVhost(s) \/ Renew(s) \/ ForceRenewal(s) \/ StoreRenewed(s)
  \/ (\E enable \in BOOLEAN : Toggle(s, enable)) \/ StoreFlag(s) \/ Refused(s)

Nightly ==
  \/ RunRenewal \/ SkipRenewal \/ List \/ ReadDates(RenewDue) \/ Refresh \/ Check

Next == (\E s \in Slots : Request(s)) \/ Nightly \/ Midnight
        \/ RemoveVhost \/ DropRow \/ Crash

Spec == Init /\ [][Next]_vars

-----------------------------------------------------------------------------
(* Properties                                                              *)

\* When nobody is writing it, the virtual host redirects exactly if the row says
\* so, and a deleted domain has none, unless two requests wrote it at once, one
\* met the deletion, or a fault struck (service.go:135, 204-223, 315-331).
VhostAgrees ==
  Writers = {} /\ ~muddled =>
    /\ domain = "there" /\ row # NoRow => (row.redirect <=> vhost.kind = "redirect")
    /\ domain # "there" => vhost = Gone

\* The web server is never told to serve HTTPS without a certificate on the
\* host, and its file names one, unless a renewal made a row active that was
\* never provisioned (service.go:103-135, 175-183, 209).
ServesACert ==
  IsSSL(vhost) => disk # Absent /\ (vhost.named \/ adopted)

\* The row never promises more days than the certificate has, whichever
\* provisioning, renewal or refresh stored them last (service.go:116-131,
\* 175-183, 243-251).
NeverOverpromises == row # NoRow => row.expires <= disk

\* A night that only RenewDue was up, and in which nothing failed but certbot,
\* ends with the truth in the row, however wrong it was (service.go:189-255).
NightlyRefreshHeals ==
  [][quiet /\ pc[RenewDue] # "idle" /\ pc'[RenewDue] = "idle" /\ quiet'
       /\ row' # NoRow /\ row'.path
     => row'.expires = disk' /\ row'.status = StatusOf(disk')]_vars

\* A certificate expires only after the renewal failed on each of its last
\* nights, whatever the rows say of it (service.go:189-201).
ExpiresOnlyUnattended == disk = 0 => misses = Soon

\* notifications/service.go:217-218 says the job "looks for SSL certs expiring
\* within 30 days and creates an in-app/delivery notification for each".
ExpiryWarned ==
  [][pc[CheckExpiry] # "idle" /\ pc'[CheckExpiry] = "idle"
       /\ row # NoRow /\ row.expires \in 0 .. Soon
     => warned']_vars
=============================================================================
