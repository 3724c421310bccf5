------------------------------ MODULE DnsZone ------------------------------
(***************************************************************************)
(* dns.Service (internal/dns/service.go): the table dns_records and the    *)
(* Cloudflare zone it mirrors.  Every operation is a Cloudflare call       *)
(* followed or preceded by statements on the table, without a lock or a    *)
(* transaction around them; requests interleave between any two.           *)
(*                                                                         *)
(* The domains of Domains share one zone (zoneIDForDomain cuts the name to *)
(* its apex).  Cloudflare lists the zone page by page, in an order of ids  *)
(* that does not change.  A request runs once; the key of a row (a fresh   *)
(* UUID) is the request that inserted it.                                  *)
(***************************************************************************)
EXTENDS Naturals, FiniteSets

CONSTANTS
  Domains,    \* domains of the table domains whose apex is this zone
  Ids,        \* record ids Cloudflare hands out, each at most once, numbered
              \* in the order in which it lists them
  Page,       \* records per page of a listing (per_page)
  Contents,   \* type, name, content and ttl of a record, taken together
  Payloads,   \* the values that clients and the dashboard ask for
  Requests,   \* every request ever sent to the dns routes
  None,       \* no record of an id, no row with it, no value of a local
  Faults,     \* which faults of the environment happen, see FaultKinds
  Dashboard   \* whether records are also changed in Cloudflare's dashboard

\* "refused": a Cloudflare call fails without effect.
\* "lost":    Cloudflare acts, and the answer does not arrive.
\* "db":      a statement on dns_records fails.
\* "crash":   the process dies and is restarted; nothing resumes a request.
FaultKinds == {"refused", "lost", "db", "crash"}

ASSUME DnsAssumption ==
  /\ Faults \subseteq FaultKinds
  /\ Dashboard \in BOOLEAN
  /\ Ids \subseteq Nat /\ IsFiniteSet(Ids)
  /\ Page \in Nat \ {0}

\* priority is 0 for "none given".
Values == [content : Contents, proxied : BOOLEAN, priority : {0, 10}]
Rows == [key : Requests, domain : Domains, value : Values]

ASSUME PayloadAssumption == Payloads \subseteq Values
ASSUME NoneAssumption == None \notin Values \cup Rows \cup Ids \cup Domains

VARIABLES
  zone,     \* Cloudflare: the record of each id
  used,     \* Cloudflare: the ids it has handed out
  rows,     \* dns_records: the row of each cloudflare_record_id, a unique column
  pc,       \* the next call of each request, or how it ended
  at,       \* the record a request is about, for a sync the one in its loop
  cur,      \* the row a request has read or is about to store
  owner,    \* the domain of a sync
  offset,   \* how many records the pages that a sync has read make up
  fetched,  \* the records a sync has read
  todo,     \* what a sync has yet to upsert
  doomed,   \* the rows, as <<id, key>>, a sync has yet to delete
  troubled, \* history: ids that a fault, the dashboard or two requests at once
            \* have touched
  slipped,  \* history: records that moved to a page which a sync had behind it
  lone      \* history: syncs that nothing has met since their listing

table == <<zone, used, rows>>
loop == <<owner, offset, fetched, todo, doomed>>
history == <<troubled, slipped, lone>>
vars == <<table, pc, at, cur, loop, history>>

Ended == {"ok", "failed", "crashed"}
Syncing == {"list", "upsert", "store", "prune"}
Single == {"insert", "patch", "toggle", "save", "erase", "unrow"}

Nothing == [i \in Ids |-> None]

TypeOK ==
  /\ zone \in [Ids -> Values \cup {None}]
  /\ used \subseteq Ids
  /\ rows \in [Ids -> Rows \cup {None}]
  /\ pc \in [Requests -> {"idle"} \cup Syncing \cup Single \cup Ended]
  /\ at \in [Requests -> Ids \cup {None}]
  /\ cur \in [Requests -> Rows \cup {None}]
  /\ owner \in [Requests -> Domains \cup {None}]
  /\ offset \in [Requests -> Nat]
  /\ fetched \in [Requests -> [Ids -> Values \cup {None}]]
  /\ todo \in [Requests -> SUBSET Ids]
  /\ doomed \in [Requests -> SUBSET (Ids \X Requests)]
  /\ troubled \subseteq Ids
  /\ slipped \subseteq Ids
  /\ lone \subseteq Requests

Init ==
  /\ zone = Nothing
  /\ used = {}
  /\ rows = Nothing
  /\ pc = [r \in Requests |-> "idle"]
  /\ at = [r \in Requests |-> None]
  /\ cur = [r \in Requests |-> None]
  /\ owner = [r \in Requests |-> None]
  /\ offset = [r \in Requests |-> 0]
  /\ fetched = [r \in Requests |-> Nothing]
  /\ todo = [r \in Requests |-> {}]
  /\ doomed = [r \in Requests |-> {}]
  /\ troubled = {}
  /\ slipped = {}
  /\ lone = {}

-----------------------------------------------------------------------------
(* Local steps.                                                            *)

Goto(r, l) == pc' = [pc EXCEPT ![r] = l]

\* A request for one record ends and its locals with it.
Return(r, l) ==
  /\ Goto(r, l)
  /\ at' = [at EXCEPT ![r] = None]
  /\ cur' = [cur EXCEPT ![r] = None]

\* r works on the record i; a sync works on all of them.
Holds(r, i) == pc[r] \in Syncing \/ (pc[r] \in Single /\ at[r] = i)
Meets(r, i) == \E q \in Requests \ {r} : Holds(q, i)
Idle == \A r \in Requests : pc[r] \notin Syncing \cup Single

\* A request for one record starts; whoever holds the record meets it.
Begin(r, i) ==
  /\ pc[r] = "idle"
  /\ at' = [at EXCEPT ![r] = i]
  /\ troubled' = IF Meets(r, i) THEN troubled \cup {i} ELSE troubled
  /\ lone' = {}

\* The records of the zone z, and those on its first n places.
Live(z) == {i \in Ids : z[i] # None}
Passed(z, n) == {i \in Live(z) : Cardinality({j \in Live(z) : j <= i}) <= n}

\* When the zone becomes z, some records move forward to places that a sync
\* has read already, and it has not seen them.
Slips(z) ==
  {i \in Live(zone) \cap Live(z) : \E r \in Requests :
     /\ pc[r] = "list"
     /\ fetched[r][i] = None
     /\ i \in Passed(z, offset[r]) \ Passed(zone, offset[r])}

Rezone(z) == zone' = z /\ slipped' = slipped \cup Slips(z)

\* The answer to r is an error and its record may be in disorder.
Fail(r, fault) ==
  /\ fault \in Faults
  /\ Return(r, "failed")
  /\ troubled' = troubled \cup {at[r]}

\* No such domain or row, no token, no zone, or Cloudflare refuses: the request
\* ends and has changed nothing.
Refused(r) ==
  /\ "refused" \in Faults
  /\ pc[r] \in {"idle", "patch", "toggle", "erase"}
  /\ Return(r, "failed")
  /\ UNCHANGED <<table, loop, history>>

-----------------------------------------------------------------------------
(* SyncFromCloudflare                                                      *)

\* The domain, its token and its zone are known; the listing begins.
SyncBegin(r, d) ==
  /\ pc[r] = "idle"
  /\ Goto(r, "list")
  /\ owner' = [owner EXCEPT ![r] = d]
  /\ troubled' = troubled \cup {i \in Ids : Meets(r, i)}
  /\ lone' = IF Idle THEN {r} ELSE {}
  /\ UNCHANGED <<table, at, cur, offset, fetched, todo, doomed, slipped>>

\* Another page is read.  A record that comes a second time, for it has moved
\* on, is stored from its first copy.
Read(r) == [i \in Ids |-> IF fetched[r][i] = None /\ i \in Passed(zone, offset[r] + Page)
                                                         \ Passed(zone, offset[r])
                          THEN zone[i] ELSE fetched[r][i]]

\* page >= total_pages, the number that came with the page.
IsLast(r) == offset[r] + Page >= Cardinality(Live(zone))

SyncPageAlone(r) ==
  /\ pc[r] = "list"
  /\ fetched' = [fetched EXCEPT ![r] = Read(r)]
  /\ Goto(r, "upsert")
  /\ todo' = [todo EXCEPT ![r] = {i \in Ids : fetched'[r][i] # None}]
  /\ UNCHANGED <<table, at, cur, owner, offset, doomed, history>>

\* A page of the listing; the last one makes up the records to upsert.
SyncPage(r) ==
  /\ pc[r] = "list"
  /\ fetched' = [fetched EXCEPT ![r] = Read(r)]
  /\ \/ /\ ~IsLast(r)
        /\ offset' = [offset EXCEPT ![r] = @ + Page]
        /\ UNCHANGED <<pc, todo>>
     \/ /\ IsLast(r)
        /\ Goto(r, "upsert")
        /\ offset' = [offset EXCEPT ![r] = 0]
        /\ todo' = [todo EXCEPT ![r] = {i \in Ids : fetched'[r][i] # None}]
  /\ UNCHANGED <<table, at, cur, owner, doomed, history>>

\* A page is refused or its answer lost: the sync ends, having stored nothing.
SyncRefused(r) ==
  /\ {"refused", "lost"} \cap Faults # {}
  /\ pc[r] = "list"
  /\ Goto(r, "failed")
  /\ owner' = [owner EXCEPT ![r] = None]
  /\ offset' = [offset EXCEPT ![r] = 0]
  /\ fetched' = [fetched EXCEPT ![r] = Nothing]
  /\ UNCHANGED <<table, at, cur, todo, doomed, history>>

\* First(&record): a row that is found replaces what was fetched.  A failed
\* query looks like no row.
SyncLook(r, i) ==
  /\ pc[r] = "upsert"
  /\ i \in todo[r]
  /\ Goto(r, "store")
  /\ at' = [at EXCEPT ![r] = i]
  /\ \/ cur' = [cur EXCEPT ![r] = rows[i]]
     \/ "db" \in Faults /\ cur' = [cur EXCEPT ![r] = None]
  /\ UNCHANGED <<table, loop, history>>

\* Updates writes a row back if it is still there.
WriteBack(i, row) == IF rows[i] # None /\ rows[i].key = row.key THEN row ELSE rows[i]

\* Create inserts a row unless the column cloudflare_record_id has it.
Insert(i, row) == IF rows[i] = None THEN row ELSE rows[i]

\* The new row is built before its domain is known.
SyncStoreAnonymous(r) ==
  LET i == at[r]
      new == [key |-> r, domain |-> None, value |-> fetched[r][i]]
  IN /\ pc[r] = "store"
     /\ Goto(r, "upsert")
     /\ todo' = [todo EXCEPT ![r] = @ \ {i}]
     /\ at' = [at EXCEPT ![r] = None]
     /\ cur' = [cur EXCEPT ![r] = None]
     /\ rows' = [rows EXCEPT ![i] = IF cur[r] = None THEN Insert(i, new)
                                    ELSE WriteBack(i, cur[r])]
     /\ UNCHANGED <<zone, used, owner, offset, fetched, doomed, history>>

\* The insert, or the update with the values that First has just read.
SyncStore(r) ==
  LET i == at[r]
      new == [key |-> r, domain |-> owner[r], value |-> fetched[r][i]]
  IN /\ pc[r] = "store"
     /\ Goto(r, "upsert")
     /\ todo' = [todo EXCEPT ![r] = @ \ {i}]
     /\ at' = [at EXCEPT ![r] = None]
     /\ cur' = [cur EXCEPT ![r] = None]
     /\ \/ /\ rows' = [rows EXCEPT ![i] = IF cur[r] = None THEN Insert(i, new)
                                          ELSE WriteBack(i, cur[r])]
           /\ UNCHANGED lone
        \/ "db" \in Faults /\ lone' = lone \ {r} /\ UNCHANGED rows
     /\ UNCHANGED <<zone, used, owner, offset, fetched, doomed, troubled, slipped>>

\* The test against the listing is the wrong way round.
SyncFindInverted(r) ==
  /\ pc[r] = "upsert"
  /\ todo[r] = {}
  /\ Goto(r, "prune")
  /\ doomed' = [doomed EXCEPT ![r] =
        {<<i, rows[i].key>> : i \in {j \in Ids : /\ rows[j] # None
                                                 /\ rows[j].domain = owner[r]
                                                 /\ fetched[r][j] # None}}]
  /\ UNCHANGED <<table, at, cur, owner, offset, fetched, todo, history>>

\* The rows of this domain whose record was not in the listing.
SyncFind(r) ==
  /\ pc[r] = "upsert"
  /\ todo[r] = {}
  /\ Goto(r, "prune")
  /\ \/ /\ doomed' = [doomed EXCEPT ![r] =
             {<<i, rows[i].key>> : i \in {j \in Ids : /\ rows[j] # None
                                                      /\ rows[j].domain = owner[r]
                                                      /\ fetched[r][j] = None}}]
        /\ UNCHANGED lone
     \/ "db" \in Faults /\ lone' = lone \ {r} /\ UNCHANGED doomed
  /\ UNCHANGED <<table, at, cur, owner, offset, fetched, todo, troubled, slipped>>

\* DELETE by primary key.
Remove(i, key) ==
  [rows EXCEPT ![i] = IF @ # None /\ @.key = key THEN None ELSE @]

SyncPrune(r) ==
  /\ pc[r] = "prune"
  /\ \E d \in doomed[r] :
       /\ doomed' = [doomed EXCEPT ![r] = @ \ {d}]
       /\ \/ rows' = Remove(d[1], d[2]) /\ UNCHANGED lone
          \/ "db" \in Faults /\ lone' = lone \ {r} /\ UNCHANGED rows
  /\ UNCHANGED <<zone, used, pc, at, cur, owner, offset, fetched, todo, troubled, slipped>>

SyncEnd(r) ==
  /\ pc[r] = "prune"
  /\ doomed[r] = {}
  /\ Goto(r, "ok")
  /\ owner' = [owner EXCEPT ![r] = None]
  /\ fetched' = [fetched EXCEPT ![r] = Nothing]
  /\ UNCHANGED <<table, at, cur, offset, todo, doomed, history>>

-----------------------------------------------------------------------------
(* CreateRecord                                                            *)

\* POST: Cloudflare chooses a fresh id, which is all the request waits for.
CreatePost(r, d, v) ==
  \E i \in Ids \ used :
    /\ Begin(r, i)
    /\ Rezone([zone EXCEPT ![i] = v])
    /\ used' = used \cup {i}
    /\ cur' = [cur EXCEPT ![r] = [key |-> r, domain |-> d, value |-> v]]
    /\ Goto(r, "insert")
    /\ UNCHANGED <<rows, loop>>

\* The answer is lost on the way, or the row cannot be stored: the record stays
\* in Cloudflare without a row.
CreateInsert(r) ==
  /\ pc[r] = "insert"
  /\ \/ /\ rows' = [rows EXCEPT ![at[r]] = Insert(at[r], cur[r])]
        /\ Return(r, IF rows[at[r]] = None THEN "ok" ELSE "failed")
        /\ UNCHANGED troubled
     \/ (Fail(r, "lost") \/ Fail(r, "db")) /\ UNCHANGED rows
  /\ UNCHANGED <<zone, used, loop, slipped, lone>>

-----------------------------------------------------------------------------
(* UpdateRecord, ToggleProxy, DeleteRecord                                 *)

\* All three read the row first.
ReadRow(r, i, next) ==
  /\ rows[i] # None
  /\ Begin(r, i)
  /\ cur' = [cur EXCEPT ![r] = rows[i]]
  /\ Goto(r, next)
  /\ UNCHANGED <<table, loop, slipped>>

\* Cloudflare changes the record of r, or answers with an error when it has none.
Call(r, new, row, next) ==
  \/ /\ zone[at[r]] = None
     /\ Return(r, "failed")
     /\ UNCHANGED <<zone, troubled, slipped>>
  \/ /\ zone[at[r]] # None
     /\ Rezone([zone EXCEPT ![at[r]] = new])
     /\ \/ /\ Goto(r, next)
           /\ cur' = [cur EXCEPT ![r] = row]
           /\ UNCHANGED <<at, troubled>>
        \/ Fail(r, "lost")

\* What a PATCH that leaves the priority out makes of the record i.
KeepPriority(i, v) == [v EXCEPT !.priority = IF zone[i] = None THEN @ ELSE zone[i].priority]

\* The row keeps the value it was read with.
PatchNotRow(r, v) ==
  /\ pc[r] = "patch"
  /\ Call(r, IF v.priority = 0 THEN KeepPriority(at[r], v) ELSE v, cur[r], "save")
  /\ UNCHANGED <<used, rows, loop, lone>>

\* UpdateRecord leaves a priority of 0 out of the PATCH and puts it in the row.
Patch(r, v) ==
  /\ pc[r] = "patch"
  /\ Call(r, IF v.priority = 0 THEN KeepPriority(at[r], v) ELSE v,
          [cur[r] EXCEPT !.value = v], "save")
  /\ UNCHANGED <<used, rows, loop, lone>>

\* ToggleProxy sends the content of the row along, but no priority.
Toggle(r, on) ==
  LET v == [cur[r].value EXCEPT !.proxied = on]
  IN /\ pc[r] = "toggle"
     /\ Call(r, KeepPriority(at[r], v), [cur[r] EXCEPT !.value = v], "save")
     /\ UNCHANGED <<used, rows, loop, lone>>

\* Save updates the whole row by its key and inserts it when it is gone, which
\* fails when the record meanwhile has another row.
Save(r) ==
  LET i == at[r]
      mine == rows[i] = None \/ rows[i].key = cur[r].key
  IN /\ pc[r] = "save"
     /\ \/ /\ rows' = [rows EXCEPT ![i] = IF mine THEN cur[r] ELSE @]
           /\ Return(r, IF mine THEN "ok" ELSE "failed")
           /\ UNCHANGED troubled
        \/ Fail(r, "db") /\ UNCHANGED rows
     /\ UNCHANGED <<zone, used, loop, slipped, lone>>

Erase(r) ==
  /\ pc[r] = "erase"
  /\ Call(r, None, cur[r], "unrow")
  /\ UNCHANGED <<used, rows, loop, lone>>

Unrow(r) ==
  /\ pc[r] = "unrow"
  /\ \/ rows' = Remove(at[r], cur[r].key) /\ Return(r, "ok") /\ UNCHANGED troubled
     \/ Fail(r, "db") /\ UNCHANGED rows
  /\ UNCHANGED <<zone, used, loop, slipped, lone>>

-----------------------------------------------------------------------------
(* The environment                                                         *)

\* Bound: the dashboard touches only records that nothing has troubled yet.
DashboardBound(i) == i \notin troubled

\* Somebody adds, changes or removes a record in Cloudflare's own dashboard.
EditZone(i, v) ==
  /\ Dashboard
  /\ DashboardBound(i)
  /\ v # zone[i]
  /\ zone[i] = None => i \notin used
  /\ Rezone([zone EXCEPT ![i] = v])
  /\ used' = used \cup {i}
  /\ troubled' = troubled \cup {i}
  /\ lone' = {}
  /\ UNCHANGED <<rows, pc, at, cur, loop>>

Crash ==
  LET dead == {r \in Requests : pc[r] \in Syncing \cup Single}
      Lost(f, null) == [r \in Requests |-> IF r \in dead THEN null ELSE f[r]]
  IN /\ "crash" \in Faults
     /\ dead # {}
     /\ pc' = Lost(pc, "crashed")
     /\ at' = Lost(at, None)
     /\ cur' = Lost(cur, None)
     /\ owner' = Lost(owner, None)
     /\ offset' = Lost(offset, 0)
     /\ fetched' = Lost(fetched, Nothing)
     /\ todo' = Lost(todo, {})
     /\ doomed' = Lost(doomed, {})
     /\ troubled' = troubled \cup {i \in Ids : \E r \in Requests : Holds(r, i)}
     /\ lone' = {}
     /\ UNCHANGED <<table, slipped>>

Quiet == (\A r \in Requests : pc[r] \in Ended) /\ UNCHANGED vars

Start(r) ==
  \/ \E d \in Domains : SyncBegin(r, d) \/ \E v \in Payloads : CreatePost(r, d, v)
  \/ \E i \in Ids, next \in {"patch", "toggle", "erase"} : ReadRow(r, i, next)

Sync(r) == SyncPage(r) \/ SyncRefused(r) \/ (\E i \in Ids : SyncLook(r, i)) \/ SyncStore(r)
           \/ SyncFind(r) \/ SyncPrune(r) \/ SyncEnd(r)
Change(r) == (\E v \in Payloads : Patch(r, v)) \/ (\E on \in BOOLEAN : Toggle(r, on)) \/ Erase(r)
Finish(r) == CreateInsert(r) \/ Save(r) \/ Unrow(r)

Next ==
  \/ \E r \in Requests : Start(r) \/ Refused(r) \/ Sync(r) \/ Change(r) \/ Finish(r)
  \/ \E i \in Ids, v \in Payloads \cup {None} : EditZone(i, v)
  \/ Crash
  \/ Quiet

Spec == Init /\ [][Next]_vars

-----------------------------------------------------------------------------
(* Properties                                                              *)

\* The row of a record says what the record says.  A priority of 0 in the row
\* may stand for any in Cloudflare (service.go:226-239).
Agrees(row, record) ==
  /\ row.value.content = record.content
  /\ row.value.proxied = record.proxied
  /\ row.value.priority \in {0, record.priority}

\* A record that no request is working on, that never met a fault, the dashboard
\* or two requests at once, and that never slipped past a sync's listing, is in
\* the table exactly when it is in Cloudflare, and with the same content:
\* whatever other requests do, a sync included, they do it no harm
\* (service.go:45-299).
InStep ==
  \A i \in Ids \ (troubled \cup slipped) : (\A r \in Requests : ~Holds(r, i)) =>
    /\ rows[i] = None <=> zone[i] = None
    /\ rows[i] # None => Agrees(rows[i], zone[i])

\* A sync that met nobody ends in this step.
LoneSyncEnds(r) == r \in lone /\ pc[r] = "prune" /\ pc'[r] = "ok"

\* However far table and zone had drifted apart, a sync that met nobody leaves a
\* row for every record of the zone and no row of its own domain without one
\* (service.go:89-134).
SyncHeals ==
  [][\A r \in Requests : LoneSyncEnds(r) => \A i \in Ids :
       /\ zone[i] # None => rows[i] # None
       /\ rows[i] # None /\ rows[i].domain = owner[r] => zone[i] # None]_vars

\* A row whose record lives in Cloudflare is lost only if its record was created
\* while another request was under way, or had been troubled otherwise, or if it
\* moved to another page while a sync was listing: nothing else makes a sync
\* delete the row of a live record (service.go:66-87, 127-134 and 263).
NoLiveRowLost ==
  [][\A i \in Ids : rows[i] # None /\ rows'[i] = None /\ zone[i] # None
       => i \in troubled \cup slipped]_vars

\* service.go:43-44 says a sync "upserts them into dns_records, removes stale
\* records, and returns the updated list": the rows a lone sync leaves have the
\* content of their records.
SyncRefreshes ==
  [][\A r \in Requests : LoneSyncEnds(r) => \A i \in Ids :
       zone[i] # None /\ rows[i] # None => rows[i].value = zone[i]]_vars
=============================================================================
