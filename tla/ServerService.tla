--------------------------- MODULE ServerService ---------------------------
(***************************************************************************)
(* server.Service (internal/server/service.go): the connection             *)
(* configuration, a single row that UpdateConfig reads, changes and saves  *)
(* whole, and the metrics cache, a single row that a job writes every 30   *)
(* seconds and that GetMetrics renews when it is too old.  Jobs and        *)
(* requests are goroutines without a lock, and an earlier job may still be *)
(* at work when the next one starts.                                       *)
(*                                                                         *)
(* The numbers measured are abstracted to the server that they come from.  *)
(* Of host, port, user and authentication the configuration keeps the      *)
(* server and the private key; a password is treated like the key.         *)
(***************************************************************************)
EXTENDS Naturals

CONSTANTS
  Servers,      \* the machines that can be managed over SSH
  Local,        \* the panel's own
  Updates,      \* every POST /server/connection ever sent; each brings its key
  FirstKey,     \* the key that was stored earlier
  NoKey,        \* the empty string
  Jobs,         \* goroutines of the scheduler, and the one that seeds the cache
  Getters,      \* goroutines for GET /server/metrics
  None,         \* no row, no draft, no connection, nothing measured
  TTL,          \* metricsTTL, in ticks of the clock
  ServerFaults  \* "refused": a dial fails
                \* "db":      a write fails
                \* "misread": a query fails; most of these errors are dropped
                \* "ignored": commands of collectMetrics fail, also dropped

Collectors == Jobs \cup Getters
Machines == Servers \cup {Local}
Keys == Updates \cup {FirstKey}

ASSUME ServerAssumption == Local \notin Servers /\ None \notin Machines
ASSUME KeyAssumption == FirstKey \notin Updates /\ NoKey \notin Updates \cup {FirstKey}
ASSUME CollectorAssumption == Jobs \cap Getters = {} /\ Updates \cap Collectors = {}
ASSUME TTLAssumption == TTL \in Nat

VARIABLES
  conf,    \* server_config: the server, and the key that is stored
  cache,   \* metrics_cache: the server measured, and the age
  step,    \* what each goroutine does next
  ask,     \* the server and the key, or none, that each update wants
  draft,   \* the row that it has read
  link,    \* the machine that each collector runs its commands on
  kept,    \* the row of metrics_cache that each getter holds
  stray,   \* history: collectors whose machine the configuration does not name
           \* any more, or that could not read it; and the cache, likewise
  excused  \* history: getters whose own collection or second read has failed

server == <<conf, cache, step, ask, draft, link, kept, stray, excused>>

Configs == [on : Machines, key : Keys \cup {NoKey}]
Stale == TTL + 1
Metrics == [of : Machines \cup {None}, age : 0 .. Stale]
Wants == [on : Machines, key : BOOLEAN]
Blank == [on |-> Local, key |-> NoKey]

ASSUME NoneAssumption == None \notin Configs \cup Metrics \cup Wants \cup Collectors

\* The last three conjuncts tie what a goroutine holds to what it does: the
\* draft, the open executor, the row.
ServerTypeOK ==
  /\ conf \in Configs
  /\ cache \in Metrics \cup {None}
  /\ step \in [Updates \cup Collectors ->
                 {"rest", "over", "save", "dial", "measure", "reread", "answer"}]
  /\ ask \in [Updates -> Wants \cup {None}]
  /\ draft \in [Updates -> Configs \cup {None}]
  /\ link \in [Collectors -> Machines \cup {None}]
  /\ kept \in [Getters -> Metrics \cup {None}]
  /\ stray \subseteq Collectors \cup {None}
  /\ excused \subseteq Getters
  /\ \A u \in Updates :
       /\ ask[u] # None <=> step[u] = "save"
       /\ draft[u] # None <=> step[u] = "save"
  /\ \A c \in Collectors : link[c] # None <=> step[c] = "measure"
  /\ \A g \in Getters :
       /\ step[g] = "rest" => kept[g] = None
       /\ step[g] = "answer" => kept[g] # None

AllRest == [g \in Updates \cup Collectors |-> "rest"]
NoLinks == [c \in Collectors |-> None]

\* In stray, None stands for the cache.  The job that seeds the cache begins.
ServerInit ==
  /\ conf \in {Blank} \cup [on : Servers, key : {FirstKey}]
  /\ cache = None
  /\ \E j \in Jobs : step = [AllRest EXCEPT ![j] = "dial"]
  /\ ask = [u \in Updates |-> None]
  /\ draft = [u \in Updates |-> None]
  /\ link = NoLinks
  /\ kept = [g \in Getters |-> None]
  /\ stray = {}
  /\ excused = {}

Move(g, l) == step' = [step EXCEPT ![g] = l]

-----------------------------------------------------------------------------
(* UpdateConfig                                                            *)

\* FirstOrCreate; its error is dropped, and leaves the draft blank.
UpdateConfig(u) ==
  /\ step[u] = "rest"
  /\ Move(u, "save")
  /\ \E w \in Wants : ask' = [ask EXCEPT ![u] = w]
  /\ \/ draft' = [draft EXCEPT ![u] = conf]
     \/ "misread" \in ServerFaults /\ draft' = [draft EXCEPT ![u] = Blank]
  /\ UNCHANGED <<conf, cache, link, kept, stray, excused>>

\* Whatever key was sent, also none.
MergeAnyKey(u) ==
  [on |-> ask[u].on,
   key |-> IF ask[u].on = Local THEN draft[u].key ELSE IF ask[u].key THEN u ELSE NoKey]

\* A key is taken over with the mode ssh only, and only if there is one.
Merge(u) ==
  [on |-> ask[u].on,
   key |-> IF ask[u].on # Local /\ ask[u].key THEN u ELSE draft[u].key]

\* Save of all columns, or an error; either ends the request.
Save(u) ==
  /\ step[u] = "save"
  /\ \/ /\ conf' = Merge(u)
        /\ stray' = stray
             \cup {c \in Collectors : link[c] \notin {None, ask[u].on}}
             \cup (IF cache # None /\ cache.of \notin {None, ask[u].on} THEN {None} ELSE {})
     \/ "db" \in ServerFaults /\ UNCHANGED <<conf, stray>>
  /\ Move(u, "over")
  /\ ask' = [ask EXCEPT ![u] = None]
  /\ draft' = [draft EXCEPT ![u] = None]
  /\ UNCHANGED <<cache, link, kept, excused>>

-----------------------------------------------------------------------------
(* CollectAndCache                                                         *)

\* The scheduler starts a job, or main the one that seeds the cache.
StartJob(j) ==
  /\ step[j] = "rest"
  /\ Move(j, "dial")
  /\ UNCHANGED <<conf, cache, ask, draft, link, kept, stray, excused>>

Connected(c, m) ==
  /\ link' = [link EXCEPT ![c] = m]
  /\ Move(c, "measure")

\* Like GiveUp, but the executor stays open.
GiveUpUnclosed(c) ==
  /\ UNCHANGED link
  /\ stray' = stray \ {c}
  /\ Move(c, IF c \in Jobs \/ kept[c] = None THEN "rest" ELSE "answer")
  /\ excused' = IF c \in Getters /\ kept[c] # None THEN excused \cup {c} ELSE excused

\* A collection that failed: the job ends, and a request answers with the row
\* it has, or with the error.
GiveUp(c) ==
  /\ link' = [link EXCEPT ![c] = None]
  /\ stray' = stray \ {c}
  /\ Move(c, IF c \in Jobs \/ kept[c] = None THEN "rest" ELSE "answer")
  /\ excused' = IF c \in Getters /\ kept[c] # None THEN excused \cup {c} ELSE excused

\* Where the server cannot be reached, the panel's own machine.
DialOrLocal(c) ==
  /\ step[c] = "dial"
  /\ \/ Connected(c, conf.on)
     \/ conf.on # Local /\ Connected(c, Local)
  /\ UNCHANGED <<conf, cache, ask, draft, kept, stray, excused>>

\* newExecutor: if the configuration cannot be read, commands run locally;
\* without a key there is no connection.
Dial(c) ==
  /\ step[c] = "dial"
  /\ \/ /\ conf.on # Local => conf.key # NoKey
        /\ Connected(c, conf.on)
        /\ UNCHANGED <<stray, excused>>
     \/ /\ "misread" \in ServerFaults
        /\ Connected(c, Local)
        /\ stray' = IF conf.on # Local THEN stray \cup {c} ELSE stray
        /\ UNCHANGED excused
     \/ /\ conf.on # Local
        /\ conf.key = NoKey \/ "refused" \in ServerFaults
        /\ GiveUp(c)
  /\ UNCHANGED <<conf, cache, ask, draft, kept>>

\* collectMetrics never fails: of commands that do, it reports zeros, and they
\* are stored like measurements.
Store(c) ==
  /\ step[c] = "measure"
  /\ \/ /\ \/ cache' = [of |-> link[c], age |-> 0]
           \/ "ignored" \in ServerFaults /\ cache' = [of |-> None, age |-> 0]
        /\ stray' = IF c \in stray /\ cache'.of # None
                    THEN (stray \ {c}) \cup {None} ELSE stray \ {c, None}
        /\ link' = [link EXCEPT ![c] = None]
        /\ Move(c, IF c \in Jobs THEN "rest" ELSE "reread")
        /\ UNCHANGED excused
     \/ "db" \in ServerFaults /\ GiveUp(c) /\ UNCHANGED cache
  /\ UNCHANGED <<conf, ask, draft, kept>>

-----------------------------------------------------------------------------
(* GetMetrics                                                              *)

\* A row that is young enough is the answer; a query that fails is treated
\* like a row that is not there.
GetMetrics(g) ==
  /\ step[g] = "rest"
  /\ \/ /\ cache # None
        /\ kept' = [kept EXCEPT ![g] = cache]
        /\ Move(g, IF cache.age > TTL THEN "dial" ELSE "answer")
     \/ /\ cache = None \/ "misread" \in ServerFaults
        /\ Move(g, "dial")
        /\ UNCHANGED kept
  /\ UNCHANGED <<conf, cache, ask, draft, link, stray, excused>>

\* The row that was read first is the answer.
RereadNothing(g) ==
  /\ step[g] = "reread"
  /\ Move(g, IF kept[g] = None THEN "rest" ELSE "answer")
  /\ UNCHANGED <<conf, cache, ask, draft, link, kept, stray, excused>>

\* The row again; when that fails, the one read first is the answer, and with
\* none the request ends with an error.
Reread(g) ==
  /\ step[g] = "reread"
  /\ \/ /\ kept' = [kept EXCEPT ![g] = cache]
        /\ Move(g, "answer")
        /\ UNCHANGED excused
     \/ /\ "misread" \in ServerFaults
        /\ Move(g, IF kept[g] = None THEN "rest" ELSE "answer")
        /\ excused' = IF kept[g] = None THEN excused ELSE excused \cup {g}
        /\ UNCHANGED kept
  /\ UNCHANGED <<conf, cache, ask, draft, link, stray>>

Answer(g) ==
  /\ step[g] = "answer"
  /\ Move(g, "rest")
  /\ kept' = [kept EXCEPT ![g] = None]
  /\ excused' = excused \ {g}
  /\ UNCHANGED <<conf, cache, ask, draft, link, stray>>

-----------------------------------------------------------------------------
(* The environment                                                         *)

\* The clock.  Bound: it does not tick while a request reads the row again, or
\* writes its answer.
Tick ==
  /\ \A g \in Getters : step[g] \notin {"reread", "answer"}
  /\ cache # None /\ cache.age < Stale
  /\ cache' = [cache EXCEPT !.age = @ + 1]
  /\ UNCHANGED <<conf, step, ask, draft, link, kept, stray, excused>>

\* The process dies, and every goroutine with it.
Killed ==
  /\ step' = [g \in Updates \cup Collectors |->
                IF g \in Updates /\ step[g] # "rest" THEN "over" ELSE "rest"]
  /\ ask' = [u \in Updates |-> None]
  /\ draft' = [u \in Updates |-> None]
  /\ link' = NoLinks
  /\ kept' = [g \in Getters |-> None]
  /\ stray' = stray \cap {None}
  /\ excused' = {}
  /\ UNCHANGED <<conf, cache>>

ServerWork ==
  \/ \E u \in Updates : UpdateConfig(u) \/ Save(u)
  \/ \E j \in Jobs : StartJob(j)
  \/ \E c \in Collectors : Dial(c) \/ Store(c)
  \/ \E g \in Getters : GetMetrics(g) \/ Reread(g) \/ Answer(g)

ServerNext == ServerWork \/ Tick \/ Killed

ServerSpec == ServerInit /\ [][ServerNext]_server

-----------------------------------------------------------------------------
(* Properties                                                              *)

\* The stored key changes only to one that was sent with the mode ssh, however
\* often the mode changes to local and back; other updates lose it only when
\* the row was changed after they read it, or could not be read
\* (service.go:38-68).
KeyKept ==
  [][conf'.key # conf.key =>
       \E u \in Updates :
         /\ step[u] = "save"
         /\ \/ conf'.key = u /\ ask[u].key /\ ask[u].on # Local
            \/ draft[u] # conf]_server

\* Cached numbers come from the server that is configured, unless it changed,
\* or could not be read, after the collector that stored them had begun
\* (service.go:91-116, 257-276).
MeasuredWhereConfigured ==
  cache # None /\ cache.of # None /\ None \notin stray => cache.of = conf.on

\* Nobody is told numbers older than the limit, unless the collection that the
\* request itself made has failed, or its second reading
\* (service.go:118-139).
FreshUnlessFailed ==
  \A g \in Getters : step[g] = "answer" /\ kept[g].age > TTL => g \in excused
=============================================================================
