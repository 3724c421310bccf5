# webhostmanager-api: models, checks and proofs

webhostmanager-api is the backend of a hosting panel: a Go HTTP server (gin, gorm on
PostgreSQL) that manages one host through commands, run locally or over SSH, and DNS
through Cloudflare. It is almost entirely *orchestration*: a request is a goroutine that
works through a list of shell commands, API calls and SQL statements. There is no lock or
transaction around any of these lists, no queue and no recovery, and many errors are
dropped. What can go wrong therefore lies between the steps: another request, a command
that fails or reports a failure after it took effect, a restart. That is what the modules
here are about. The repository has no tests.

Paths below are relative to `src/`.

## 1. Inventory

| component | state it keeps | operations that change it | talks to |
|---|---|---|---|
| domain (`internal/domain`) | table `domains`; on the host `/var/www/<name>`, `sites-available`, `sites-enabled` | Create, Delete | executor, settings (`proxy.type`) |
| ssl (`internal/ssl`) | table `ssl_certs`; on the host `/etc/letsencrypt`, the same `sites-available` file as domain | Provision, Renew, ToggleRedirect, RenewDue (nightly) | executor, certbot, domain's rows, settings, users (admin email) |
| dns (`internal/dns`) | table `dns_records`; the Cloudflare zone | SyncFromCloudflare, Create/Update/DeleteRecord, ToggleProxy | Cloudflare, settings (token) |
| setup (`internal/setup`) | table `setup_state` | eight wizard steps | users, settings |
| users, auth (`internal/users`, `internal/auth`) | table `users`; tokens held by clients | Create, Update, Delete, Login | login limiter, middleware of `internal/router` |
| login limiter (`pkg/ratelimit`) | a map in memory, under a mutex | Middleware, RecordFailure, RecordSuccess, janitor | Login |
| notifications (`internal/notifications`) | tables `notifications`, `notification_channel_configs` | CheckSSLExpiry (nightly), Create, mark read, channel switches | `ssl_certs`; email, Slack, Discord |
| email (`internal/email`) | tables of accounts and forwarders; Postfix and Dovecot files; install state in memory | InstallMailServer (background), accounts, forwarders | executor |
| wordpress (`internal/wordpress`) | table of sites; MySQL database, files in the web root | Install, Uninstall, updates, ToggleDebug | executor, domain's rows |
| server (`internal/server`) | table of the connection; metrics cache | UpdateConfig, CollectAndCache (every 30 s) | the host |
| settings (`internal/settings`) | table `settings` | Update | read by nearly all |
| audit (`internal/audit`) | append-only table | Write, in a goroutine of its own | - |
| scheduler, main | three cron entries | starts the jobs | server, ssl, notifications |

**How they interact.** Components share the database and the host, nothing else. The
domain's row is the parent of the rows of ssl, wordpress, email and dns (`ON DELETE
CASCADE`). domain and ssl both write the virtual host. The settings are read anew by each
request. RenewDue and CheckSSLExpiry start at the same midnight, and one writes the column
that the other selects by. Setup and users share the users table, and the router decides
which of the two may be reached.

**What is hard.** Check-then-act over two statements (Create, step 2, Provision, Install);
rows read before a slow command and used after it (Provision's redirect flag, DNS rows,
Login's role); undo lists that differ at each error exit; removal errors that are dropped;
SSH sessions that fail after the effect; requests that a restart cuts off; periodic jobs
that meet requests. `PROJECT.json` lists each of these hazards at its line.

**What makes each component correct.**

- *domain*: a site is absent or fully there; nothing on the host without a row; a row goes
  only by its own Delete.
- *ssl*: HTTPS is served only with a certificate; the row never claims more days than the
  certificate has; vhost and row agree on the redirect; certificates do not expire while
  renewals could succeed, and somebody is warned when they cannot.
- *dns*: rows and records agree, one for one; a sync repairs what has drifted.
- *setup, users, auth*: before the setup is done only the wizard makes accounts, and it
  makes one; power that was taken away fades.
- *login limiter*: a full streak is locked out for a full period, guesses are bounded, and
  a lockout ends.
- *email*: as domain, for mailboxes; an installation that reports success has happened,
  and asking for one does not end the process.
- *wordpress*: a site with a row works; the row tells its release and debug mode; no
  database or user without somebody who answers for it.
- *server*: the stored key is lost to no update; cached numbers are young and come from
  the server that is configured.

## 2. Modules

Each component has a module `M`, a module `MCM` with what TLC needs beyond it, one `.cfg`
per run, and a module `M_proofs`. An action is one command, call or statement of the code
together with the local computation up to the next; `pc` names the next one. History
variables (`blind`, `troubled`, `raced`, `streak`, `harmed`, `strewn`, ...) are only
written, never guards.

### DomainLifecycle, DomainPromise

`internal/domain/service.go`, Create and Delete. Variables: `row` (the domains table, by
name), `webRoot`, `conf`, `link` (the host), `setting` (`proxy.type`), and `job`, `pc`,
`target`, `proxy` (each request's locals). CreateBegin is the count at line 57; MakeRoot,
ReadProxy, WriteVhost, EnableVhost and InsertRow are the commands of Create, with their
undo paths RemoveLink, RemoveConf, RemoveRoot; DeleteBegin, the same three removals and
DeleteRow are Delete. `Faults` says which faults happen: a checked command is refused,
takes effect and reports an error, or (its error dropped) does nothing; the DELETE fails;
the process crashes. `Switching` lets the administrator change `proxy.type`.

*DomainPromise* is the abstract specification: a site moves between absent, building, live
and dismantling, and never stays half-built. `Promise == INSTANCE DomainPromise WITH site
<- ...` maps the rows and files to it; `KeepsPromise` is the refinement.

### LoginLimiter

`pkg/ratelimit/ratelimit.go` and the path of `auth.Handler.Login` through it, for one
address (addresses share only the mutex, under which each method is one step). Time is
kept as the time *left* of window and lockout, so it needs no bound; `inFlight` counts the
requests between the check in the middleware and the recording of the outcome.

### DnsZone

`internal/dns/service.go`: `zone` is Cloudflare, `rows` the table by record id, and `pc`,
`at`, `cur`, `owner`, `offset`, `fetched`, `todo`, `doomed` are the locals of a request. A
sync reads the zone page by page (SyncBegin, SyncPage, SyncRefused), upserts record by
record (SyncLook, SyncStore) and deletes what its query found stale (SyncFind, SyncPrune). A
page is the next `Page` records of those that live *when it is asked for*, so a deletion
between two pages moves records to a page that the sync has behind it: `slipped` keeps them.
Create, Update, Toggle and Delete are a call and a statement each. Calls are refused or lose
their answer, statements fail, the process crashes, and records change in Cloudflare's
dashboard. That Cloudflare lists in a fixed order, that of the ids here, is an assumption
about it; the code asks for none.

### PanelAccess

`internal/setup`, `internal/users`, `internal/auth` and the middleware of
`internal/router`. `role`, `born`, `active` are the users table, `complete`, `step` the
row of setup_state, `session` and `login` the tokens and the logins under way. A wizard
request is admitted by the gate and then takes its statements; a users route checks the
claims of the token and runs one statement. DeleteUser compares the id in the path with
one's own as a text, and then parses it: `Texts` are the spelling of the token and all
others that uuid.Parse accepts. `afterglow` is the time since an account lost its power, by
a demotion, by being disabled (`is_active`) or by its deletion (`InPower`).

### SslCert

`internal/ssl/service.go` and `notifications.CheckSSLExpiry`, for one domain: `disk` (days
left of the certificate), `vhost`, `domain`, `row`, and `pc`, `op`, `draft`, `date` of the
requests and the two nightly jobs. Provision is Provision, Insert, Issue, ReadDates,
StoreIssued, WriteVhost (or Mark on failure); Renew is Renew, ForceRenewal, ReadDates,
StoreRenewed; ToggleRedirect is Toggle, WriteVhost, StoreFlag; RenewDue is RunRenewal,
List, ReadDates, Refresh; CheckSSLExpiry is Check. Midnight moves the days on and starts
both jobs. The deletion of the domain comes in from domain.Service.

### MailAccounts

`internal/email/service.go` without the installation: CreateAccount, CreateForwarder,
DeleteAccount, DeleteForwarder, ChangePassword. A *slot* is an address in one of the two
tables; `rows` holds the row of each. `files` are the line of each address in
`/etc/dovecot/users`, `virtual_mailbox_maps` and `virtual_alias_maps` (of several lines the
first counts, as for Dovecot), `compiled` what postmap last made of the last two,
`registered` is `virtual_mailbox_domains`, `mail` the directories under `/var/mail/vhosts`.
A request's locals are `pc`, `at` (its slot), `cur` (the row it inserted or read) and
`copy`. A creation is Insert, then MakeMaildir, AddLogin, RegisterDomain, AddMailbox (or
AddAlias) and Postmap, with Undo when one fails. A deletion is Delete, a `sed -i` per file,
Unpostmap, RemoveMaildir, DeleteRow; a change of password is ChangePassword, one `sed -i`
and StorePassword. An append is one step; `sed -i` is two, EditCopy and EditRename, for it
edits a copy of the whole file and renames it over the file. The shell of postmap is one
step. `odd` records the slots that a fault or a race has touched, `lone` the requests that
nothing has met. The tables may hold rows when a behaviour starts.

### WordPress

`internal/wordpress/service.go`: Install, Uninstall, UpdateCore, ToggleDebug. `row` is
wordpress_installs; `core` (the release of the files in the web root) and `config`
(wp-config.php: password and WP_DEBUG), `db` (whose tables a database has) and `user` (whose
password a user has) are the host; `domain` is what the deletion of a domain, an action pair
of the environment here, does to it. Install is InstallOpen with its count, CreateDb,
CreateUser, Grant, Download, Config, CoreInstall, Insert, and the rollback DropDb, DropUser
where the code has one: not inside createDatabase, nor after the INSERT. Between CoreInstall
and Insert is ReadVersion, which asks wp-cli for the release. Uninstall is DropDb, DropUser,
RemoveFiles, RemoveConfig, DeleteRow. UpdateCore is Upgrade, ReadVersion and StoreVersion
(`told` is what was read), ToggleDebug is SetDebug and StoreDebug. `DbOf` and `UserOf` are
what sanitizeName makes of a domain's name; they need not be injective, for it flattens and
cuts off (`a-b.com` and `a.b.com` get the same names). MySQL and wp-cli are modelled by what
the commands do: `IF NOT EXISTS` keeps a user's old password, `wp config create` connects
before it writes, `wp core install` leaves tables there are alone and reports success.
wp-cli fetches the newest release, and releases come out while requests run: `Newest` is any
that is not older than the files. `harmed` are the installations that lost something to a
rival, `unsure` those whose row a fault or a rival misled, `strewn` the databases and users
that some request has abandoned.

### MailInstall, ServerService, PanelProcess

*MailInstall* is InstallMailServer and GetInstallProgress of `internal/email/service.go`
at the level of the mutex: `locked` is `install.mu`, `running`, `done`, `failed` its
fields, `at` what each goroutine does next, `stage` and `verdict` the locals of the
installer, `host` what has taken effect. Accept is what follows a Check that finds no
installation running: line 109 replaces the struct while its mutex is locked. The mutex is
then unlocked, and goroutines that slept in Lock are forgotten (`asleep`). Since from then
on the mutex keeps nobody out, the fields are assigned one by one: `unset` is what a
goroutine at line 109 or in finish has yet to assign, and Assign is any one of these,
`install.mu` among them, for the race leaves their order open. Fatal is Go's `unlock of
unlocked mutex`, which ends the process; Restart is the supervisor. The commands are
gathered in three stages (checked, logged only, checked). `crossed` records that a request
was accepted while another request or an installer was assigning fields; it ends with the
process, or when a request is accepted and nobody else is at work.

*ServerService* is `internal/server/service.go`: `conf`, the single row of server_config,
as the server that it names and the key that it keeps; `cache`, the single row of
metrics_cache, as the server measured and the age. UpdateConfig and Save are its two
statements with Merge between them; a collector (job or reader) does Dial, which opens the
executor, and Store; a reader does GetMetrics, perhaps collects, then Reread and Answer.
Dial falls back on the panel's own machine when the configuration cannot be read, as
newExecutor does, and Store stores zeros as fresh when commands fail, as collectMetrics
does. Ages stop at TTL + 1, and the clock stands still while a reader answers.

*PanelProcess* composes both into the process of `cmd/server/main.go`. They share no
variable but the fate of the process: MailStep and ServerStep interleave, Death is Fatal of
the one and Killed of the other, Rebirth is Restart and the job that main starts to seed
the cache. Every step of it is a step of each component or leaves it alone, by the shape of
Next, so what is proved of one of them holds in the whole (PanelInstalls).

## 3. What TLC checks

| run | shows | distinct states |
|---|---|---|
| domain_concurrent | three Creates and Deletes of one name, every fault, changing proxy: NoOrphans, ProvisionedUnlessHarmed, the inductive Accounting, OnlyItsDeleteRemovesRow | 609,000 |
| domain_serial | the refinement KeepsPromise, with fairness, three requests on two names | 39,000 |
| login_limiter | StreakIsLocked, GuessBudget, LockoutEnds | 336 |
| dns_zone | InStep, SyncHeals, NoLiveRowLost under every fault, a page for each record | 442,000 |
| dns_stale | **violation** of `SyncRefreshes` | - |
| panel_access | OnlyTheWizardBefore, OneWizardAdmin, PowerFades | 361,000 |
| ssl_cert | VhostAgrees, ServesACert, NeverOverpromises, ExpiresOnlyUnattended, NightlyRefreshHeals | 1,972,000 |
| ssl_expiry | **violation** of `ExpiryWarned` | - |
| mail_accounts | RowsAreServed, NothingUnasked, DeleteHeals, MailKept under every fault | 890,000 |
| wordpress | SitesWork, RecordAgrees, NothingLeftBehind under every fault | 3,419,000 |
| panel_process | OneInstallation, DoneIsInstalled, MeasuredWhereConfigured, FreshUnlessFailed, KeyKept | 1,253,000 |
| mail_install | **violation** of `InstallLaunches` | - |

Each passing run also checks its module's `TypeOK` (domain_serial excepted, which checks
the refinement alone). Each property is broken by a mutant of the code's model, listed in
`PROJECT.json`; the mutated operators stand beside the ones they replace (for example
`WriteVhostNoCleanup` before `WriteVhost`) and no specification uses them.

**Disagreements found**, each a run that TLC refutes. (1) An accepted installation of the
mail server ends the process before it launches anything, unless another request happens
to hold the new mutex (`internal/email/service.go:109`). (2) A DNS sync never changes the
content of a row it already has (`internal/dns/service.go:112`). (3) CheckSSLExpiry misses
the certificates it is for, because RenewDue has turned them `expiring_soon`
(`internal/notifications/service.go:229`).

**Known weaknesses that the properties allow for**, in their premises or their histories:

- Two concurrent Creates of one name: the loser's rollback removes the winner's site
  (`internal/domain/service.go:94`); the exception `Unless Harmed`.
- Two step 2 requests make two super admins, although "only one can be created"
  (`internal/setup/handler.go:91`); the exception `raced` of OneWizardAdmin.
- Nothing guards the last super admin: two who delete each other leave none, as does a
  demotion or a disabling. The guard against the deletion of oneself compares texts, so that
  another spelling of one's own id, which uuid.Parse accepts, gets past it
  (`internal/users/handler.go:104`); DeleteUser has that step.
- DNS: a record that nobody touched is missing from the listing of a sync when one on an
  earlier page is deleted between two pages (`internal/dns/service.go:69`), and then loses
  its row (`slipped`); so does one that is created while a sync is under way (`troubled`).
- WordPress: overlapping Installs, and domains whose names share a database or a user,
  take each other's databases and passwords; a failure inside createDatabase or of the
  last INSERT, and the deletion of a domain, leave databases behind. Of two updates
  that cross, the one that read the older release may store it last
  (`internal/wordpress/service.go:255`), and of two toggles of opposite kinds the one that
  lost on the host: the row then tells of another release or mode (`unsure`).
- A poll that is let in while finish or line 109 assigns the fields of the installation
  reads a mixture: done without an error, of one that has failed
  (`internal/email/service.go:42`). And a request accepted in the midst of it may overwrite
  the outcome (`crossed`).
- Updates of the connection: the later of two that overlap wins whole, and one whose read
  fails, an error that is dropped, wipes the stored key (`internal/server/service.go:41`);
  the last disjunct of KeyKept.
- collectMetrics never fails: where commands do, zeros are stored as fresh, although
  GetMetrics means to return stale data then (`internal/server/service.go:128`).

**Bounds, and why they are enough.**

- *Domains*: names share nothing but `proxy.type`, so one name shows every conflict; three
  requests are what it takes for a Delete to meet a Create that another Create or Delete
  has already met. (A Delete that outlives its row and meets the next domain of the name
  takes a fourth request: for that case OnlyItsDelete is proved, not checked.)
  domain_serial has two names, so that requests do run side by side.
- *Limiter*: the real limit of five, six requests at once so that those in flight reach it
  alone, and a window of four ticks so that a failure falls anywhere in a running window.
- *DNS*: three requests on two records: a sync and two that meet it, or a create, a change
  and a sync. A page holds one record, so that two records are two pages and the deletion
  of the first moves the second. Contents differ in all that a row can get wrong.
- *Panel*: three wizard requests (two rivals and one that ends the setup), two accounts
  (one acts on the other), a token of one tick and a login that may straddle one.
- *SSL*: any two of two requests, the jobs and a deletion overlap, any number one after
  another, since a slot is used again; three days of life, two of them within the
  threshold, so that both sides of each comparison of days occur. What happens between
  *more* than two overlapping requests is covered by the theorems.
- *Mail*: two requests on two addresses of one domain, so that each address is the other's
  neighbour in every file and its directory lies beside the other's, in tables that hold
  any rows at the start: two edits, two appends, or one of each, on files with lines to
  lose. More requests at a time, and more domains, are covered by the theorems.

- *WordPress*: two domains with databases of their own and one user, so that a rival's user
  goes and comes while the tables stay (two domains that share both are two Installs of
  one domain, as far as MySQL can tell); two of three requests at a time, so that the
  third comes after whatever two have left. Two releases, for a row that is right, behind
  or about to be overtaken. An Install that cannot count the rows of its domain, and so
  installs over a site, is the last request to be sent (`LastOverlooks`). More at a time, and all other ways to share
  names, are covered by the theorems.
- *Process*: two goroutines beside each other, among them two installing requests, an
  installer and a poll, two updates, two jobs, a job and a reader, across deaths of the
  process; two servers beside the local one, so that the connection moves from server to
  server and back; ages on both sides of the limit. Of a behaviour in which the installation
  has already had an effect, only the beginning up to the end of an update of the connection
  is followed (`Beside`), for the two have nothing to do with each other. Requests cross and
  fail all the same: without the exception `crossed`, TLC finds both OneInstallation and
  DoneIsInstalled violated within these bounds. What more goroutines do is proved.

Symmetry is declared over requests, accounts, addresses, values, domains, slots and the
goroutines of one kind, and only in runs without liveness.

**Fairness.** domain_serial assumes weak fairness of each request's next command: a
goroutine that has been started runs, and its commands end (`ssh_client.go` has no timeout,
so a command that hangs is outside the model). It has no crashes. login_limiter assumes
weak fairness of Tick: time passes. No other run needs fairness.

## 4. What TLAPS proves

For every value of the constants that satisfies the named ASSUMEs (`CertAssumption`,
`AccessAssumption`, ...: positive limits, model values that are not data values, faults
among those listed):

| module | theorems |
|---|---|
| DomainLifecycle_proofs | TypeCorrect, AccountingHolds, NoOrphansHolds, ProvisionedHolds, OnlyItsDelete, PromiseKept |
| LoginLimiter_proofs | LimiterTypeCorrect, StreakIsLockedHolds, GuessBudgetHolds |
| DnsZone_proofs | DnsTypeCorrect, InStepHolds, SyncHealsHolds, NoLiveRowLostHolds |
| PanelAccess_proofs | AccessTypeCorrect, OnlyTheWizardBeforeHolds, OneWizardAdminHolds, PowerFadesHolds |
| SslCert_proofs | SslTypeCorrect, NeverOverpromisesHolds, ServesACertHolds, ExpiresOnlyUnattendedHolds, VhostAgreesHolds, NightlyRefreshHealsHolds |
| MailAccounts_proofs | MailTypeCorrect, MailKeptHolds, HostHolds, RowsAreServedHolds, NothingUnaskedHolds, DeleteHealsHolds |
| WordPress_proofs | WordPressTypeCorrect, NothingLeftBehindHolds, SitesWorkHolds, RecordAgreesHolds |
| PanelProcess_proofs | PanelTypeCorrect, OneInstallationHolds, DoneIsInstalledHolds, MeasuredWhereConfiguredHolds, FreshUnlessFailedHolds, KeyKeptHolds |

PromiseKept has a further hypothesis, `Orderly`: clients wait for one another, `proxy.type`
stays as it is, and of the faults only checked commands that are refused. These are the
conditions under which domain_serial checks the refinement, for what the concurrent case
does to a site is what Accounting is about. It proves `Promise!Safety`: the initial state
and every step, not the fairness of the promise.

**The arguments.** All proofs have the same shape: an inductive invariant, one lemma that
`Init` implies it, lemmas that each action preserves its parts, PTL for the rest.

- *Domain.* NoOrphans speaks of names that no request is working on, and so says nothing
  of the states in between. `Accounting` does: whatever a name without a row (or whose row
  is about to go) has on the host is *held* by a Create at a label where it will still
  insert the row or undo (`HeldOrOwned`), and what a Create has made is there as long as
  no other request harmed it (`MadeUnlessHarmed`). `Labels`, `RowOwner` and `VhostsRead`
  tie labels, rows and virtual hosts to the requests they came from.
- *The promise.* What a client sees of a name is a function of all requests, so a step can
  only be mapped when it is known whose it is. `Orderliness` says so: one request works on
  a name (`OneAtATime`), all of them with the same proxy type (`OneProxy`), and while it is
  at a label the host holds exactly what that label says (`Staged`); between requests a
  name has all or nothing (`AllOrNothing`). Hence `SitesKnown`, what is seen label by label,
  and from it that each step moves one site as the promise allows or leaves all alone.
- *Limiter.* The two clocks run together from the last failure (`Clocks`); a locked entry
  has the whole streak (`Counting`); while the lockout runs nobody is let in, so failures
  plus requests in flight no longer grow (`Budget`).
- *DNS.* InStep speaks of records that nothing has troubled. `Calm` adds what happens to
  such a record meanwhile: it is in step, or one request holds it and has come as far as
  its label says (`Undisturbed`), a sync with a listing that Cloudflare would still give. While
  the pages are read, that is: every such record on a page that the sync has behind it was
  read (`Listed`), for one that moves there later has `slipped`; `ListedOn` is that a page
  keeps this up, and `LastPlaces` that after the last page no live record is ahead.
  For SyncHeals, which allows any disorder before, `Lone` says what a sync that met nobody
  *knows* (`Knows`): the listing is current, what it has upserted has a row, and what it
  must still delete is on its list. Ids not handed out are nowhere (`Unused`).
- *Panel.* A login holds a role no older than itself (`Glow`); before the end of the setup
  nobody can change a role (`Before`); unless raced, one request at a time is in step 2
  and it goes on only if nothing was created (`Single`).
- *SSL.* A date is held only between reading and storing, and the certificate can only
  have been replaced by a longer one (`Dates`); whoever is about to write the vhost has
  seen a certificate, and an active row without a path was made so by a renewal (`Seen`);
  only a deletion takes the row from under RenewDue, and then no other can replace it
  (`Listed`); each of the last nights was missed, but for tonight's (`Nights`).
  VhostAgrees is about the quiet between requests; `Agreed` carries it through the work of
  one: the vhost agrees with the row until it is rewritten, and afterwards with what the
  request has in hand and will store. Whoever meets another is out of its premise. `Kinds`
  and `Rowless` say who stores what. In a quiet night the date in hand is the certificate's
  (`Peace`), which gives NightlyRefreshHeals.
- *Mail*: RowsAreServed and NothingUnasked speak of settled slots. `Tracked` says what the
  host holds of a clean slot at each label of the one request that works on it
  (`OneHolder`, `OwnRow` of KeepInv: two requests at one slot make it odd, and whoever
  holds a clean slot holds its present row). Since the files are shared, one request's
  `sed` could undo another's line: `FreshCopies` says that a pending copy differs from its
  file only in odd slots, for whoever writes to a file that is being edited becomes odd by
  it. The lemmas `...Others` show that a step leaves the other slots alone, the lemmas
  `...Own` that it takes its own slot from one label to the next. MailKept needs only
  KeepInv, and that a request at `unmail` is about an account (`UnmailLabel`). DeleteHeals
  is about slots in any disorder, of which `Tracked` says nothing; there it counts that
  nobody else is in flight while a request is lone (`Alone`), and that what its commands
  should have removed by its label is gone (`Clearing`), since any that did not take
  effect would have ended its being lone.
- *WordPress*: NothingLeftBehind lets a request answer for what it has already dropped, so
  it is not inductive. `DbHeld` and `UserHeld` are: a database is held by an Install at a
  label where it will still drop it or store its row, or by a row that *counts*, for no
  Uninstall of it is past the DROP (`Counts`); the two differ in the labels, for the
  database is dropped first. A row that is new counts because nobody can have read its id
  (`RowIds`); one that counts goes only with its domain (`RowGone`); what a request
  abandons is `strewn` until somebody drops it.
  SitesWork and RecordAgrees speak of sites that no rival has harmed, and who is harmed only
  grows. A site starts as an Install, so `Making` says what an unharmed Install has made by
  each label; its last step turns that into `Working`, what an unharmed row has. Tables may
  outlive their user, so `Owned` says whose they are. For the record, an id stands for one
  domain (`Places`). `VersionAgrees` says that what a request was told is still the release
  in the files, for an update that replaces them misleads everybody who has a version to
  store (`Crossed`); `DebugAgrees` says likewise that what is about to be stored is what is
  set, for a toggle the other way misleads (`Overruled`).
- *Process*: each component's invariant is proved for the component alone and carried over
  to the process, of which every step is one of each component or leaves it alone.
  OneInstallation is not inductive, for it does not say why a second request is refused.
  `Sole` does: unless installations have crossed, whoever is at work is alone, the struct
  says that an installation is running from the moment that its handler has assigned the
  field, and what it has assigned is still there, in whatever order. So the last field that
  an installer assigns leaves its own outcome, which gives DoneIsInstalled with what an
  installer without an error has behind it (`Progress`). The mutex plays no part in it.
  MeasuredWhereConfigured says of every open executor what it says of the cache (`Current`).

**Only model-checked.** LockoutEnds, and of KeepsPromise that what is begun is finished
(liveness under fairness is out of the prover's reach; the safety of KeepsPromise is
proved). The three violations are TLC's. Every other property of a run is proved.

## 5. What is abstracted or left out

- Names, contents, credentials and messages are model values; validation of input is
  assumed to have passed. Formatting, logging and the audit trail are left out.
- A request of the users routes checks its claims and runs its statement in one step: the
  check reads only the token.
- DnsZone has one zone, and no deletion of domains; total_pages is that of the page it came
  with. SslCert has a fixed `proxy.type`, one deletion at a time and jobs that end
  before the next midnight.
- MailAccounts takes `grep || echo` and postmap as one step each, and leaves out the quota
  (a column that nothing reads) and the settings page of the mail server.
- WordPress leaves out plugins, the administrator's account beyond whose it is, and the
  text of the errors. A crash stops a request between two commands, never within one.
- MailInstall leaves out the text of the log and the optional packages; ServerService what
  is measured, and the requests that keep nothing (server info, summary, test of a
  connection, status and restart of the proxy). A password is treated like a key.
- Not modelled: settings beyond `proxy.type`, delivery of notifications, audit (no other
  component reads it), start-up, configuration, crypto and response formatting (no state
  of their own).

## 6. Plan

Done, in this order: DomainLifecycle with DomainPromise (the pattern of the whole system),
LoginLimiter (the one component with a lock and a clock), DnsZone (two stores that must
agree), PanelAccess (who may do anything at all), SslCert (periodic jobs), MailAccounts
(files that all requests share), WordPress (names that domains share), MailInstall and
ServerService with their composition PanelProcess (one process, one fate).

Next, most important first:

1. *Hosting*: domain deletion with the rows that cascade from it and what they leave on
   the host and in Cloudflare, composed from the modules above at the level of whole
   operations. MailAccounts, SslCert and WordPress each have their own half of it.
2. Proofs: the promise under more faults, against an abstract specification that admits what
   a failed undo leaves, and promises of the same kind for the other components, MailAccounts
   first.
3. Notifications: channel switches and the delivery of what CheckSSLExpiry finds.
