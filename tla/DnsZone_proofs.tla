--------------------------- MODULE DnsZone_proofs ---------------------------
(***************************************************************************)
(* For any number of requests, records and domains, and every fault: the   *)
(* types of DnsZone, InStep, SyncHeals and NoLiveRowLost.                  *)
(***************************************************************************)
EXTENDS DnsZone, FiniteSetTheorems, TLAPS

\* What a request holds at each label: a record, a row, a domain, and a listing of
\* ids that Cloudflare has handed out.
Locals ==
  \A r \in Requests :
    /\ pc[r] \in Single \cup {"store"} => at[r] \in Ids
    /\ pc[r] \in Single => at[r] \in used /\ cur[r] \in Rows
    /\ pc[r] = "insert" => cur[r].key = r
    /\ pc[r] = "store" => at[r] \in todo[r]
    /\ pc[r] \in Syncing => owner[r] \in Domains
    /\ pc[r] \notin {"upsert", "store"} => todo[r] = {}
    /\ pc[r] \notin Syncing => fetched[r] = Nothing
    /\ pc[r] # "list" => offset[r] = 0
    /\ \A i \in todo[r] : fetched[r][i] # None
    /\ pc[r] # "prune" => doomed[r] = {}
    /\ \A d \in doomed[r] : fetched[r][d[1]] = None

\* An id that Cloudflare has not handed out is nowhere.
Unused ==
  \A i \in Ids \ used :
    /\ zone[i] = None
    /\ rows[i] = None
    /\ \A r \in Requests : fetched[r][i] = None

\* What InStep says of the record i.
Same(i) ==
  /\ rows[i] = None <=> zone[i] = None
  /\ rows[i] # None => Agrees(rows[i], zone[i])

\* What the sync r has read of i while it lists the zone is what i still is, and
\* r has read it if i is on a page that r has behind it.
Listed(r, i) ==
  /\ fetched[r][i] \in {None, zone[i]}
  /\ i \in Passed(zone, offset[r]) => fetched[r][i] = zone[i]

\* How far r has come with the record i, if nobody disturbs it: a sync holds the
\* listing that Cloudflare would still give; the others are on their way.
Undisturbed(r, i) ==
  /\ pc[r] = "list" => Same(i) /\ Listed(r, i)
  /\ pc[r] \in Syncing \ {"list"} =>
       /\ Same(i)
       /\ fetched[r][i] = zone[i]
       /\ pc[r] = "store" /\ at[r] = i => cur[r] \in {None, rows[i]}
  /\ pc[r] = "insert" => rows[i] = None /\ zone[i] = cur[r].value
  /\ pc[r] \in {"patch", "toggle", "erase"} =>
       zone[i] # None /\ rows[i] = cur[r] /\ Agrees(cur[r], zone[i])
  /\ pc[r] \in {"save", "unrow"} => rows[i] # None /\ rows[i].key = cur[r].key
  /\ pc[r] = "save" => zone[i] # None /\ Agrees(cur[r], zone[i])
  /\ pc[r] = "unrow" => zone[i] = None

\* A record that nothing has troubled and no listing has missed is in step, or
\* held by one request.
Calm ==
  \A i \in Ids \ (troubled \cup slipped) :
    /\ (\A r \in Requests : ~Holds(r, i)) => Same(i)
    /\ \A r \in Requests : Holds(r, i) => Undisturbed(r, i) /\ ~Meets(r, i)

\* What a sync that met nobody knows: the listing is what Cloudflare would still
\* give, what it has upserted has a row, and the rows it must delete are listed.
Knows(r) ==
  /\ \A q \in Requests \ {r} : pc[q] \notin Syncing \cup Single
  /\ pc[r] = "list" => \A i \in Ids : Listed(r, i)
  /\ pc[r] \in Syncing \ {"list"} =>
       /\ fetched[r] = zone
       /\ \A i \in Ids : zone[i] # None /\ i \notin todo[r] => rows[i] # None
  /\ pc[r] = "store" /\ cur[r] # None => rows[at[r]] # None
  /\ pc[r] = "prune" =>
       \A i \in Ids : rows[i] # None /\ rows[i].domain = owner[r] /\ zone[i] = None
                        => <<i, rows[i].key>> \in doomed[r]

Lone == \A r \in lone : pc[r] \in Syncing => Knows(r)

TypedLocals == TypeOK /\ Locals /\ Unused
IInv == TypedLocals /\ Calm /\ Lone

Assumptions ==
  /\ None \notin Values /\ None \notin Rows /\ None \notin Ids /\ None \notin Domains
  /\ Payloads \subseteq Values
  /\ Ids \subseteq Nat /\ IsFiniteSet(Ids) /\ Page \in Nat \ {0}

LEMMA Assumed == Assumptions
BY NoneAssumption, PayloadAssumption, DnsAssumption
   DEF NoneAssumption, PayloadAssumption, DnsAssumption, Assumptions

-----------------------------------------------------------------------------
(* Pages                                                                   *)

LEMMA Places ==
  ASSUME NEW z, NEW i \in Live(z)
  PROVE  LET n == Cardinality({j \in Live(z) : j <= i})
         IN n \in Nat /\ n # 0 /\ n <= Cardinality(Live(z)) /\ Cardinality(Live(z)) \in Nat
<1> DEFINE S == {j \in Live(z) : j <= i}
<1>1. IsFiniteSet(Live(z))
  <2>1. Live(z) \subseteq Ids
    BY DEF Live
  <2>2. QED
    BY <2>1, Assumed, FS_Subset DEF Assumptions
<1>2. S \in SUBSET Live(z) /\ i \in S
  BY Assumed DEF Assumptions, Live
<1> HIDE DEF S
<1>3. IsFiniteSet(S) /\ Cardinality(S) <= Cardinality(Live(z))
  BY <1>1, <1>2, FS_Subset
<1>4. Cardinality(S) \in Nat /\ Cardinality(Live(z)) \in Nat
  BY <1>1, <1>3, FS_CardinalityType
<1>5. Cardinality(S) # 0
  BY <1>2, <1>3, FS_EmptySet
<1>6. QED
  BY <1>3, <1>4, <1>5 DEF S

\* Before the first page a sync has nothing behind it, after the last everything.
LEMMA FirstPlaces == ASSUME NEW z PROVE Passed(z, 0) = {}
BY Places DEF Passed

LEMMA LastPlaces ==
  ASSUME NEW r \in Requests, offset[r] \in Nat, IsLast(r)
  PROVE  Passed(zone, offset[r] + Page) = Live(zone)
<1>1. ASSUME NEW i \in Live(zone) PROVE i \in Passed(zone, offset[r] + Page)
  <2> DEFINE n == Cardinality({j \in Live(zone) : j <= i})
  <2>1. n \in Nat /\ n <= Cardinality(Live(zone)) /\ Cardinality(Live(zone)) \in Nat
    BY Places
  <2> HIDE DEF n
  <2>2. n <= offset[r] + Page
    BY <2>1, Assumed DEF IsLast, Assumptions
  <2>3. QED
    BY <2>2 DEF Passed, n
<1>2. QED
  BY <1>1 DEF Passed

\* Another page: what is read is what Cloudflare has, and includes the places
\* that r has now behind it.
LEMMA PageRead ==
  ASSUME TypeOK, NEW r \in Requests, NEW i \in Ids, Listed(r, i)
  PROVE  /\ Read(r)[i] \in {None, zone[i]}
         /\ i \in Passed(zone, offset[r] + Page) => Read(r)[i] = zone[i]
         /\ IsLast(r) => Read(r)[i] = zone[i]
<1>1. i \in Passed(zone, offset[r] + Page) => Read(r)[i] = zone[i]
  BY DEF Listed, Read
<1>2. IsLast(r) => zone[i] = None \/ i \in Passed(zone, offset[r] + Page)
  BY LastPlaces DEF TypeOK, Live
<1>3. zone[i] = None => Read(r)[i] = None
  BY DEF Read, Listed, Passed, Live
<1>4. QED
  BY <1>1, <1>2, <1>3 DEF Read, Listed

-----------------------------------------------------------------------------
(* Types                                                                   *)

LEMMA InitHolds == Init => IInv
<1> SUFFICES ASSUME Init PROVE IInv
  OBVIOUS
<1> USE DEF Init, Nothing
<1>1. TypeOK
  BY DEF TypeOK
<1>2. Locals
  BY DEF Locals, Single, Syncing
<1>3. Unused /\ Lone
  BY DEF Unused, Lone
<1>4. Calm
  BY DEF Calm, Same, Holds, Single, Syncing
<1>5. QED
  BY <1>1, <1>2, <1>3, <1>4 DEF IInv, TypedLocals

\* What Toggle and a PATCH make of a value.
LEMMA ValueType ==
  ASSUME TypeOK, NEW v \in Values
  PROVE  /\ \A i \in Ids : KeepPriority(i, v) \in Values
         /\ \A on \in BOOLEAN : [v EXCEPT !.proxied = on] \in Values
BY Assumed DEF TypeOK, Assumptions, KeepPriority, Values

LEMMA RowType ==
  ASSUME NEW row \in Rows
  PROVE  /\ row.key \in Requests /\ row.domain \in Domains /\ row.value \in Values
         /\ \A v \in Values : /\ [row EXCEPT !.value = v] \in Rows
                              /\ [row EXCEPT !.value = v].key = row.key
                              /\ [row EXCEPT !.value = v].value = v
BY DEF Rows

\* A request for one record comes back, having written at most a row and a history.
LEMMA EndedType ==
  ASSUME TypeOK, Locals, NEW r \in Requests, NEW l \in Ended, Return(r, l),
         pc[r] \notin Syncing, UNCHANGED <<used, loop>>
  PROVE  Locals' /\ pc' \in [Requests -> {"idle"} \cup Syncing \cup Single \cup Ended]
         /\ at' \in [Requests -> Ids \cup {None}] /\ cur' \in [Requests -> Rows \cup {None}]
BY DEF TypeOK, Locals, Return, Goto, Ended, Single, Syncing, loop, Nothing

\* A step of the request r.
Moves(r) == Start(r) \/ Refused(r) \/ Sync(r) \/ Change(r) \/ Finish(r)

LEMMA SyncType ==
  ASSUME TypedLocals, NEW r \in Requests, Sync(r)
  PROVE  TypedLocals'
<1> USE DEF TypedLocals, TypeOK, Goto, Syncing, loop, table, history
<1>1. ASSUME NEW i \in Ids, SyncLook(r, i) PROVE TypedLocals'
  <2>1. TypeOK'
    <3>1. cur' \in [Requests -> Rows \cup {None}] /\ at' \in [Requests -> Ids \cup {None}]
      BY <1>1 DEF SyncLook
    <3>2. QED
      BY <1>1, <3>1 DEF SyncLook
  <2>2. Locals'
    BY <1>1 DEF SyncLook, Locals, Single
  <2>3. QED
    BY <1>1, <2>1, <2>2 DEF SyncLook, Unused
<1>7. CASE SyncPage(r)
  <2>1. fetched'[r] = Read(r) /\ \A q \in Requests \ {r} : fetched'[q] = fetched[q]
    BY <1>7 DEF SyncPage
  <2>2. /\ Read(r) \in [Ids -> Values \cup {None}]
        /\ \A i \in Ids : zone[i] = None /\ fetched[r][i] = None => Read(r)[i] = None
    BY DEF Read
  <2>3. offset' \in [Requests -> Nat]
    BY <1>7, Assumed DEF SyncPage, Assumptions
  <2>4. todo' \in [Requests -> SUBSET Ids]
    BY <1>7 DEF SyncPage
  <2>5. TypeOK'
    BY <1>7, <2>2, <2>3, <2>4 DEF SyncPage
  <2>6. Locals'
    BY <1>7 DEF SyncPage, Locals, Single
  <2>7. Unused'
    BY <1>7, <2>1, <2>2 DEF SyncPage, Unused
  <2>8. QED
    BY <2>5, <2>6, <2>7
<1>8. CASE SyncRefused(r)
  <2>1. TypeOK'
    BY <1>8 DEF SyncRefused, Nothing, Ended
  <2>2. Locals'
    BY <1>8 DEF SyncRefused, Locals, Single, Nothing
  <2>3. QED
    BY <1>8, <2>1, <2>2 DEF SyncRefused, Unused, Nothing
<1>2. CASE SyncStore(r)
  <2>1. at[r] \in Ids /\ cur[r] \in Rows \cup {None} /\ fetched[r][at[r]] \in Values /\ owner[r] \in Domains
    BY <1>2 DEF SyncStore, Locals
  <2> DEFINE new == [key |-> r, domain |-> owner[r], value |-> fetched[r][at[r]]]
  <2>2. new \in Rows
    BY <2>1 DEF Rows
  <2>3. rows' \in [Ids -> Rows \cup {None}] /\ at[r] \in used
    BY <1>2, <2>1, <2>2, Assumed DEF SyncStore, WriteBack, Insert, Unused, Assumptions
  <2>4. TypeOK'
    BY <1>2, <2>3 DEF SyncStore
  <2>5. Locals'
    BY <1>2, <2>1 DEF SyncStore, Locals, Single
  <2>6. Unused'
    BY <1>2, <2>3 DEF SyncStore, Unused
  <2>7. QED
    BY <2>4, <2>5, <2>6
<1>3. CASE SyncFind(r)
  <2>1. \A j \in Ids : rows[j] # None => rows[j].key \in Requests
    BY DEF Rows
  <2>2. TypeOK'
    BY <1>3, <2>1 DEF SyncFind
  <2>3. Locals'
    BY <1>3 DEF SyncFind, Locals, Single
  <2>4. QED
    BY <1>3, <2>2, <2>3 DEF SyncFind, Unused
<1>4. CASE SyncPrune(r)
  <2>1. PICK d \in doomed[r] :
          /\ doomed' = [doomed EXCEPT ![r] = @ \ {d}]
          /\ \/ rows' = Remove(d[1], d[2]) /\ UNCHANGED lone
             \/ "db" \in Faults /\ lone' = lone \ {r} /\ UNCHANGED rows
    BY <1>4 DEF SyncPrune
  <2>2. TypeOK'
    <3>1. rows' \in [Ids -> Rows \cup {None}]
      BY <2>1 DEF Remove
    <3>2. doomed' \in [Requests -> SUBSET (Ids \X Requests)]
      BY <2>1
    <3>3. QED
      BY <1>4, <2>1, <3>1, <3>2 DEF SyncPrune
  <2>3. Locals'
    BY <1>4, <2>1 DEF SyncPrune, Locals, Single
  <2>4. Unused'
    BY <1>4, <2>1 DEF SyncPrune, Unused, Remove
  <2>5. QED
    BY <2>2, <2>3, <2>4
<1>5. CASE SyncEnd(r)
  BY <1>5 DEF SyncEnd, Locals, Unused, Single, Ended, Nothing
<1>6. QED
  BY <1>1, <1>2, <1>3, <1>4, <1>5, <1>7, <1>8 DEF Sync

LEMMA StartType ==
  ASSUME TypedLocals, NEW r \in Requests, Start(r) \/ Refused(r)
  PROVE  TypedLocals'
<1> USE DEF TypedLocals, TypeOK, Goto, Syncing, Single, loop, table, history
<1>1. ASSUME NEW d \in Domains, SyncBegin(r, d) PROVE TypedLocals'
  <2>1. TypeOK'
    BY <1>1 DEF SyncBegin
  <2>2. Locals'
    BY <1>1 DEF SyncBegin, Locals
  <2>3. Unused'
    BY <1>1 DEF SyncBegin, Unused
  <2>4. QED
    BY <2>1, <2>2, <2>3
<1>2. ASSUME NEW d \in Domains, NEW v \in Payloads, CreatePost(r, d, v) PROVE TypedLocals'
  <2>1. PICK i \in Ids \ used :
          /\ Begin(r, i)
          /\ Rezone([zone EXCEPT ![i] = v])
          /\ used' = used \cup {i}
          /\ cur' = [cur EXCEPT ![r] = [key |-> r, domain |-> d, value |-> v]]
          /\ Goto(r, "insert")
          /\ UNCHANGED <<rows, loop>>
    BY <1>2 DEF CreatePost
  <2> USE DEF Rezone, Slips, Live
  <2>2. [key |-> r, domain |-> d, value |-> v] \in Rows /\ v \in Values
    BY Assumed DEF Assumptions, Rows
  <2>3. TypeOK'
    BY <2>1, <2>2 DEF Begin
  <2>4. Locals'
    BY <2>1, <2>2 DEF Begin, Locals
  <2>5. Unused'
    BY <2>1 DEF Unused
  <2>6. QED
    BY <2>3, <2>4, <2>5
<1>3. ASSUME NEW i \in Ids, NEW l \in {"patch", "toggle", "erase"}, ReadRow(r, i, l) PROVE TypedLocals'
  BY <1>3 DEF ReadRow, Begin, Locals, Unused
<1>4. CASE Refused(r)
  <2>1. Locals' /\ pc' \in [Requests -> {"idle"} \cup Syncing \cup Single \cup Ended]
         /\ at' \in [Requests -> Ids \cup {None}] /\ cur' \in [Requests -> Rows \cup {None}]
    BY <1>4, EndedType DEF Refused, Ended
  <2>2. QED
    BY <1>4, <2>1 DEF Refused, Unused
<1>5. QED
  BY <1>1, <1>2, <1>3, <1>4 DEF Start

\* Cloudflare's answer: the record is changed to new, or nothing is.
LEMMA CallType ==
  ASSUME TypedLocals, NEW r \in Requests, pc[r] \in Single, NEW new \in Values \cup {None},
         NEW row \in Rows, NEW l \in Single \ {"insert"},
         Call(r, new, row, l), UNCHANGED <<used, rows, loop, lone>>
  PROVE  TypedLocals'
<1> USE DEF TypedLocals, TypeOK
<1>1. at[r] \in Ids /\ at[r] \in used
  BY DEF Locals
<1>2. zone' \in [Ids -> Values \cup {None}] /\ troubled' \subseteq Ids /\ slipped' \subseteq Ids
  BY <1>1 DEF Call, Fail, Rezone, Slips, Live
<1>3. Unused'
  BY <1>1 DEF Call, Unused, loop, Rezone
<1>4. CASE Goto(r, l) /\ cur' = [cur EXCEPT ![r] = row] /\ UNCHANGED at
  BY <1>1, <1>2, <1>3, <1>4 DEF Goto, Locals, loop, Single, Syncing
<1>5. CASE Return(r, "failed")
  <2>1. Locals' /\ pc' \in [Requests -> {"idle"} \cup Syncing \cup Single \cup Ended]
         /\ at' \in [Requests -> Ids \cup {None}] /\ cur' \in [Requests -> Rows \cup {None}]
    BY <1>5, EndedType DEF Ended, Single, Syncing
  <2>2. QED
    BY <1>2, <1>3, <2>1 DEF loop
<1>6. QED
  BY <1>4, <1>5 DEF Call, Fail

LEMMA ChangeType ==
  ASSUME TypedLocals, NEW r \in Requests, Change(r) \/ Finish(r)
  PROVE  TypedLocals'
<1>1. pc[r] \in Single /\ at[r] \in Ids /\ at[r] \in used /\ cur[r] \in Rows
  BY DEF TypedLocals, Locals, Change, Finish, Patch, Toggle, Erase, CreateInsert, Save, Unrow, Single
<1>2. ASSUME NEW v \in Payloads, Patch(r, v) PROVE TypedLocals'
  <2>1. v \in Values
    BY Assumed DEF Assumptions
  <2> DEFINE new == IF v.priority = 0 THEN KeepPriority(at[r], v) ELSE v
             row == [cur[r] EXCEPT !.value = v]
  <2>2. new \in Values \cup {None} /\ row \in Rows
    <3>1. KeepPriority(at[r], v) \in Values
      BY <1>1, <2>1, ValueType DEF TypedLocals
    <3>2. row \in Rows
      BY <1>1, <2>1, RowType
    <3>3. QED
      BY <2>1, <3>1, <3>2
  <2>3. Call(r, new, row, "save") /\ UNCHANGED <<used, rows, loop, lone>>
    BY <1>2 DEF Patch
  <2>4. "save" \in Single \ {"insert"}
    BY DEF Single
  <2> HIDE DEF new, row
  <2>5. QED
    BY <1>1, <2>2, <2>3, <2>4, CallType
<1>3. ASSUME NEW on \in BOOLEAN, Toggle(r, on) PROVE TypedLocals'
  <2> DEFINE v == [cur[r].value EXCEPT !.proxied = on]
             new == KeepPriority(at[r], v)
             row == [cur[r] EXCEPT !.value = v]
  <2>1. v \in Values
    <3>1. cur[r].value \in Values
      BY <1>1, RowType
    <3>2. QED
      BY <3>1, ValueType DEF TypedLocals
  <2>2. new \in Values \cup {None} /\ row \in Rows
    <3> HIDE DEF v
    <3> QED
      BY <1>1, <2>1, ValueType, RowType DEF TypedLocals
  <2>3. Call(r, new, row, "save") /\ UNCHANGED <<used, rows, loop, lone>>
    BY <1>3 DEF Toggle
  <2>4. "save" \in Single \ {"insert"}
    BY DEF Single
  <2> HIDE DEF new, row
  <2>5. QED
    BY <1>1, <2>2, <2>3, <2>4, CallType
<1>4. CASE Erase(r)
  <2>1. Call(r, None, cur[r], "unrow") /\ UNCHANGED <<used, rows, loop, lone>>
    BY <1>4 DEF Erase
  <2>2. "unrow" \in Single \ {"insert"}
    BY DEF Single
  <2>3. QED
    BY <1>1, <2>1, <2>2, CallType
<1>5. CASE Finish(r)
  <2>1. PICK l \in Ended : Return(r, l)
    BY <1>5 DEF Finish, CreateInsert, Save, Unrow, Fail, Ended
  <2>2. UNCHANGED <<zone, used, loop, slipped, lone>>
    BY <1>5 DEF Finish, CreateInsert, Save, Unrow
  <2>3. Locals' /\ pc' \in [Requests -> {"idle"} \cup Syncing \cup Single \cup Ended]
        /\ at' \in [Requests -> Ids \cup {None}] /\ cur' \in [Requests -> Rows \cup {None}]
    BY <1>1, <2>1, <2>2, EndedType DEF TypedLocals, Single, Syncing
  <2>4. rows' \in [Ids -> Rows \cup {None}]
    BY <1>1, <1>5 DEF TypedLocals, TypeOK, Finish, CreateInsert, Save, Unrow, Insert, Remove
  <2>5. troubled' \subseteq Ids
    BY <1>1, <1>5 DEF TypedLocals, TypeOK, Finish, CreateInsert, Save, Unrow, Fail
  <2>6. Unused'
    BY <1>1, <1>5, <2>2
       DEF TypedLocals, TypeOK, Unused, Finish, CreateInsert, Save, Unrow, Insert, Remove, loop
  <2>7. QED
    BY <2>2, <2>3, <2>4, <2>5, <2>6 DEF TypedLocals, TypeOK, loop
<1>6. QED
  BY <1>2, <1>3, <1>4, <1>5 DEF Change

LEMMA TypedStep == ASSUME TypedLocals, [Next]_vars PROVE TypedLocals'
<1>1. ASSUME NEW r \in Requests, Moves(r) PROVE TypedLocals'
  BY <1>1, SyncType, StartType, ChangeType DEF Moves
<1>2. ASSUME NEW i \in Ids, NEW v \in Payloads \cup {None}, EditZone(i, v) PROVE TypedLocals'
  <2>1. v \in Values \cup {None}
    BY Assumed DEF Assumptions
  <2>2. zone' = [zone EXCEPT ![i] = v] /\ slipped' \subseteq slipped \cup Ids
    BY <1>2 DEF EditZone, Rezone, Slips, Live
  <2>3. TypeOK'
    BY <1>2, <2>1, <2>2 DEF EditZone, TypedLocals, TypeOK, loop
  <2>4. Locals'
    BY <1>2 DEF EditZone, TypedLocals, Locals, loop
  <2>5. Unused'
    BY <1>2, <2>2 DEF EditZone, TypedLocals, TypeOK, Unused, loop
  <2>6. QED
    BY <2>3, <2>4, <2>5 DEF TypedLocals
<1>3. CASE Crash
  <2>1. TypeOK'
    BY <1>3 DEF Crash, TypedLocals, TypeOK, Nothing, Ended, table
  <2>2. Locals'
    BY <1>3 DEF Crash, TypedLocals, TypeOK, Locals, Nothing, Syncing, Single, table
  <2>3. Unused'
    BY <1>3 DEF Crash, TypedLocals, TypeOK, Unused, Nothing, table
  <2>4. QED
    BY <2>1, <2>2, <2>3 DEF TypedLocals
<1>4. CASE UNCHANGED vars
  BY <1>4 DEF vars, table, loop, history, TypedLocals, TypeOK, Locals, Unused
<1>5. QED
  BY <1>1, <1>2, <1>3, <1>4 DEF Next, Moves, Quiet

-----------------------------------------------------------------------------
(* InStep: a record that nothing has troubled is in step, or one request   *)
(* is on its way to bring it there.                                        *)

\* Whoever moves records to other pages notes those that a sync then misses.
Moved == (UNCHANGED <<zone, slipped>>) \/ Rezone(zone')

\* What a command writes in table and zone, its request works on.
LEMMA Touches ==
  ASSUME TypedLocals, NEW r \in Requests, Moves(r)
  PROVE  /\ \A q \in Requests \ {r} :
              /\ pc'[q] = pc[q] /\ at'[q] = at[q] /\ cur'[q] = cur[q]
              /\ fetched'[q] = fetched[q] /\ offset'[q] = offset[q]
         /\ Moved
         /\ \A i \in Ids : (rows'[i] = rows[i] /\ zone'[i] = zone[i]) \/ Holds(r, i) \/ Holds(r, i)'
         /\ troubled \subseteq troubled' /\ slipped \subseteq slipped'
<1> DEFINE Goal ==
      /\ \A q \in Requests \ {r} :
              /\ pc'[q] = pc[q] /\ at'[q] = at[q] /\ cur'[q] = cur[q]
              /\ fetched'[q] = fetched[q] /\ offset'[q] = offset[q]
      /\ Moved
      /\ \A i \in Ids : (rows'[i] = rows[i] /\ zone'[i] = zone[i]) \/ Holds(r, i) \/ Holds(r, i)'
      /\ troubled \subseteq troubled' /\ slipped \subseteq slipped'
<1> USE DEF TypedLocals, TypeOK, Goto, Holds, Syncing, Single, loop, table, history, Moved
<1>1. ASSUME NEW i \in Ids, SyncLook(r, i) PROVE Goal
  BY <1>1 DEF SyncLook
<1>2. CASE SyncStore(r)
  BY <1>2 DEF SyncStore
<1>3. CASE SyncPage(r) \/ SyncRefused(r) \/ SyncFind(r) \/ SyncPrune(r) \/ SyncEnd(r)
  BY <1>3 DEF SyncPage, SyncRefused, SyncFind, SyncPrune, SyncEnd
<1>4. ASSUME NEW d \in Domains, SyncBegin(r, d) PROVE Goal
  BY <1>4 DEF SyncBegin
<1>5. ASSUME NEW d \in Domains, NEW v \in Payloads, CreatePost(r, d, v) PROVE Goal
  BY <1>5 DEF CreatePost, Begin, Rezone
<1>6. ASSUME NEW i \in Ids, NEW l \in {"patch", "toggle", "erase"}, ReadRow(r, i, l) PROVE Goal
  BY <1>6 DEF ReadRow, Begin
<1>7. CASE Refused(r)
  BY <1>7 DEF Refused, Return
<1>8. ASSUME NEW new, NEW row, NEW l, pc[r] \in Single, Call(r, new, row, l), UNCHANGED <<used, rows, loop, lone>>
      PROVE Goal
  BY <1>8 DEF Call, Return, Fail, Rezone
<1>9. CASE Change(r)
  BY <1>8, <1>9 DEF Change, Patch, Toggle, Erase
<1>10. CASE Finish(r)
  BY <1>10 DEF Finish, CreateInsert, Save, Unrow, Insert, Remove, Return, Fail
<1>11. QED
  BY <1>1, <1>2, <1>3, <1>4, <1>5, <1>6, <1>7, <1>9, <1>10 DEF Moves, Start, Sync

\* How r leaves a record, held or not.
Fine(r, i) ==
  /\ Holds(r, i) => Undisturbed(r, i)
  /\ ~Holds(r, i) => Same(i)

LEMMA SyncFine ==
  ASSUME TypedLocals, NEW r \in Requests, Sync(r), NEW i \in Ids, Undisturbed(r, i)
  PROVE  Fine(r, i)'
<1> USE DEF TypedLocals, TypeOK, Goto, Holds, Syncing, Single, Fine, Undisturbed, Same, loop, table
<1>1. ASSUME NEW j \in Ids, SyncLook(r, j) PROVE Fine(r, i)'
  BY <1>1 DEF SyncLook
<1>2. CASE SyncStore(r)
  <2>1. at[r] \in Ids /\ fetched[r][at[r]] # None
    BY <1>2 DEF SyncStore, Locals
  <2>2. rows'[i] = rows[i] /\ zone'[i] = zone[i]
    BY <1>2, <2>1 DEF SyncStore, Insert, WriteBack
  <2>3. QED
    BY <1>2, <2>2 DEF SyncStore
<1>3. CASE SyncFind(r)
  BY <1>3 DEF SyncFind
<1>4. CASE SyncPrune(r)
  <2>1. rows'[i] = rows[i]
    BY <1>4 DEF SyncPrune, Remove, Locals
  <2>2. QED
    BY <1>4, <2>1 DEF SyncPrune
<1>5. CASE SyncEnd(r)
  BY <1>5 DEF SyncEnd
<1>6. CASE SyncPage(r)
  <2>1. fetched'[r] = Read(r) /\ pc[r] = "list" /\ rows' = rows /\ zone' = zone
    BY <1>6 DEF SyncPage
  <2>2. Same(i) /\ Listed(r, i)
    BY <2>1
  <2>3. /\ Read(r)[i] \in {None, zone[i]}
        /\ i \in Passed(zone, offset[r] + Page) => Read(r)[i] = zone[i]
        /\ IsLast(r) => Read(r)[i] = zone[i]
    BY <2>2, PageRead
  <2>4. CASE ~IsLast(r)
    <3>1. offset'[r] = offset[r] + Page /\ pc'[r] = "list"
      BY <1>6, <2>1, <2>4 DEF SyncPage
    <3>2. Listed(r, i)'
      BY <2>1, <2>3, <3>1 DEF Listed
    <3>3. QED
      BY <2>1, <2>2, <3>1, <3>2
  <2>5. CASE IsLast(r)
    <3>1. pc'[r] = "upsert"
      BY <1>6, <2>5 DEF SyncPage
    <3>2. QED
      BY <2>1, <2>2, <2>3, <2>5, <3>1
  <2>6. QED
    BY <2>4, <2>5
<1>7. CASE SyncRefused(r)
  BY <1>7 DEF SyncRefused
<1>8. QED
  BY <1>1, <1>2, <1>3, <1>4, <1>5, <1>6, <1>7 DEF Sync

\* What a sync has read of a record that nobody changes, and that does not slip
\* past it, stays what it should have read.
LEMMA ListedOn ==
  ASSUME TypedLocals, Moved, NEW q \in Requests, NEW i \in Ids \ slipped', pc[q] = "list",
         pc'[q] = pc[q], fetched'[q] = fetched[q], offset'[q] = offset[q], zone'[i] = zone[i],
         Listed(q, i)
  PROVE  Listed(q, i)'
<1>1. i \in Passed(zone', offset[q]) => fetched[q][i] = zone[i]
  <2>1. CASE zone' = zone
    BY <2>1 DEF Listed
  <2>2. CASE Rezone(zone')
    <3>1. SUFFICES ASSUME i \in Passed(zone', offset[q]), fetched[q][i] = None, i \notin Passed(zone, offset[q])
                   PROVE  FALSE
      BY DEF Listed
    <3>2. zone[i] # None /\ i \in Live(zone) /\ i \in Live(zone')
      BY <3>1 DEF Passed, Live
    <3>3. QED
      BY <2>2, <3>1, <3>2 DEF Rezone, Slips
  <2>3. QED
    BY <2>1, <2>2 DEF Moved
<1>2. QED
  BY <1>1 DEF Listed

\* A request that begins with a record which nobody else works on finds it in step.
LEMMA StartFine ==
  ASSUME TypedLocals, NEW r \in Requests, Start(r), NEW i \in Ids \ (troubled \cup slipped)', Holds(r, i)',
         (\A q \in Requests : ~Holds(q, i)) => Same(i)
  PROVE  Undisturbed(r, i)' /\ ~Meets(r, i)
<1> USE DEF TypedLocals, TypeOK, Goto, Holds, Syncing, Single, Undisturbed, Same, loop, table
<1>1. ASSUME NEW d \in Domains, SyncBegin(r, d) PROVE Undisturbed(r, i)' /\ ~Meets(r, i)
  <2>1. ~Meets(r, i)
    BY <1>1 DEF SyncBegin
  <2>2. Same(i)
    BY <1>1, <2>1 DEF SyncBegin, Meets
  <2>3. pc'[r] = "list" /\ fetched'[r][i] = None /\ offset'[r] = 0 /\ rows' = rows /\ zone' = zone
    BY <1>1 DEF SyncBegin, Locals, Nothing
  <2>4. Listed(r, i)'
    BY <2>3, FirstPlaces DEF Listed
  <2>5. QED
    BY <2>1, <2>2, <2>3, <2>4
<1>2. ASSUME NEW d \in Domains, NEW v \in Payloads, CreatePost(r, d, v)
      PROVE  Undisturbed(r, i)' /\ ~Meets(r, i)
  <2>1. i \notin used /\ ~Meets(r, i)
    BY <1>2 DEF CreatePost, Begin
  <2>2. rows[i] = None
    BY <2>1 DEF Unused
  <2>3. QED
    BY <1>2, <2>1, <2>2 DEF CreatePost, Begin, Rezone
<1>3. ASSUME NEW j \in Ids, NEW l \in {"patch", "toggle", "erase"}, ReadRow(r, j, l)
      PROVE  Undisturbed(r, i)' /\ ~Meets(r, i)
  <2>1. i = j /\ ~Meets(r, i)
    BY <1>3 DEF ReadRow, Begin
  <2>2. Same(i)
    BY <1>3, <2>1 DEF ReadRow, Begin, Meets
  <2>3. QED
    BY <1>3, <2>1, <2>2 DEF ReadRow, Begin
<1>4. QED
  BY <1>1, <1>2, <1>3 DEF Start

\* A PATCH may keep Cloudflare's priority; it changes all the rest.
LEMMA PatchAgrees ==
  ASSUME TypeOK, NEW i \in Ids, zone[i] # None, NEW row \in Rows, NEW v \in Values
  PROVE  /\ Agrees([row EXCEPT !.value = v], v)
         /\ v.priority \in {0, zone[i].priority} => Agrees([row EXCEPT !.value = v], KeepPriority(i, v))
<1>1. zone[i] \in Values
  BY DEF TypeOK
<1>2. [row EXCEPT !.value = v].value = v
  BY RowType
<1>3. /\ KeepPriority(i, v).content = v.content
      /\ KeepPriority(i, v).proxied = v.proxied
      /\ KeepPriority(i, v).priority = zone[i].priority
  BY <1>1 DEF KeepPriority, Values
<1>4. QED
  BY <1>2, <1>3 DEF Agrees

\* A call leaves the record disturbed, or the request is on its way to match it.
LEMMA CallFine ==
  ASSUME TypedLocals, NEW r \in Requests, pc[r] \in {"patch", "toggle", "erase"},
         NEW i \in Ids \ (troubled \cup slipped)', i = at[r], Undisturbed(r, i), NEW new \in Values \cup {None}, NEW row \in Rows,
         row.key = cur[r].key, NEW l \in {"save", "unrow"},
         l = "save" => new # None /\ Agrees(row, new),
         l = "unrow" => new = None,
         Call(r, new, row, l), UNCHANGED <<used, rows, loop, lone>>
  PROVE  Fine(r, i)'
<1>1. at[r] \in Ids /\ zone[at[r]] # None /\ cur[r] \in Rows /\ rows[at[r]] = cur[r]
  BY DEF TypedLocals, Locals, Undisturbed, Single
<1>2. /\ zone' = [zone EXCEPT ![at[r]] = new]
      /\ Goto(r, l)
      /\ cur' = [cur EXCEPT ![r] = row]
      /\ UNCHANGED at
  BY <1>1 DEF Call, Fail, Rezone
<1>3. zone'[at[r]] = new /\ pc'[r] = l /\ cur'[r] = row /\ at' = at
  BY <1>1, <1>2 DEF TypedLocals, TypeOK, Goto
<1>4. rows[at[r]] # None
  BY <1>1, Assumed DEF Assumptions
<1>5. Holds(r, i)'
  BY <1>3 DEF Holds, Single
<1>6. Undisturbed(r, i)'
  BY <1>1, <1>3, <1>4 DEF Undisturbed, Syncing, Agrees
<1>7. QED
  BY <1>5, <1>6 DEF Fine

LEMMA ChangeFine ==
  ASSUME TypedLocals, NEW r \in Requests, Change(r), NEW i \in Ids \ (troubled \cup slipped)', i = at[r],
         Undisturbed(r, i)
  PROVE  Fine(r, i)'
<1>1. /\ pc[r] \in {"patch", "toggle", "erase"}
      /\ at[r] \in Ids /\ cur[r] \in Rows
      /\ zone[at[r]] # None /\ Agrees(cur[r], zone[at[r]])
  BY DEF TypedLocals, Locals, Single, Change, Patch, Toggle, Erase, Undisturbed
<1>2. ASSUME NEW v \in Payloads, Patch(r, v) PROVE Fine(r, i)'
  <2> DEFINE new == IF v.priority = 0 THEN KeepPriority(at[r], v) ELSE v
             row == [cur[r] EXCEPT !.value = v]
  <2>1. v \in Values
    BY Assumed DEF Assumptions
  <2>2. row \in Rows /\ row.key = cur[r].key
    BY <1>1, <2>1, RowType
  <2>3. new \in Values
    <3>1. KeepPriority(at[r], v) \in Values
      BY <1>1, <2>1, ValueType DEF TypedLocals
    <3>2. QED
      BY <2>1, <3>1
  <2>4. Agrees(row, new)
    <3>1. /\ Agrees(row, v)
          /\ v.priority \in {0, zone[at[r]].priority} => Agrees(row, KeepPriority(at[r], v))
      BY <1>1, <2>1, PatchAgrees DEF TypedLocals
    <3>2. QED
      BY <3>1
  <2>5. Call(r, new, row, "save") /\ UNCHANGED <<used, rows, loop, lone>>
    BY <1>2 DEF Patch
  <2> HIDE DEF new, row
  <2>6. new # None
    BY <2>3, Assumed DEF Assumptions
  <2>7. QED
    BY <1>1, <2>2, <2>3, <2>4, <2>5, <2>6, CallFine
<1>3. ASSUME NEW on \in BOOLEAN, Toggle(r, on) PROVE Fine(r, i)'
  <2> DEFINE v == [cur[r].value EXCEPT !.proxied = on]
             new == KeepPriority(at[r], v)
             row == [cur[r] EXCEPT !.value = v]
  <2>1. cur[r].value \in Values
    BY <1>1, RowType
  <2>2. v \in Values /\ v.priority = cur[r].value.priority
    BY <2>1 DEF Values
  <2>3. Call(r, new, row, "save") /\ UNCHANGED <<used, rows, loop, lone>>
    BY <1>3 DEF Toggle
  <2>4. v.priority \in {0, zone[at[r]].priority}
    BY <1>1, <2>2 DEF Agrees
  <2> HIDE DEF v
  <2>5. row \in Rows /\ row.key = cur[r].key
    BY <1>1, <2>2, RowType
  <2>6. new \in Values
    BY <1>1, <2>2, ValueType DEF TypedLocals
  <2>7. Agrees(row, new)
    BY <1>1, <2>2, <2>4, PatchAgrees DEF TypedLocals
  <2> HIDE DEF new, row
  <2>8. new # None
    BY <2>6, Assumed DEF Assumptions
  <2>9. QED
    BY <1>1, <2>3, <2>5, <2>6, <2>7, <2>8, CallFine
<1>4. CASE Erase(r)
  <2>1. Call(r, None, cur[r], "unrow") /\ UNCHANGED <<used, rows, loop, lone>>
    BY <1>4 DEF Erase
  <2>2. QED
    BY <1>1, <2>1, CallFine
<1>5. QED
  BY <1>2, <1>3, <1>4 DEF Change

LEMMA FinishFine ==
  ASSUME TypedLocals, NEW r \in Requests, Finish(r), NEW i \in Ids \ (troubled \cup slipped)', i = at[r],
         Undisturbed(r, i)
  PROVE  Fine(r, i)'
<1>1. at[r] \in Ids /\ cur[r] \in Rows /\ cur[r] # None
  BY Assumed DEF Assumptions, TypedLocals, Locals, Single, Finish, CreateInsert, Save, Unrow
<1>2. PICK l \in Ended : Return(r, l)
  BY DEF Finish, CreateInsert, Save, Unrow, Fail, Ended
<1>3. ~Holds(r, i)'
  BY <1>2 DEF Return, Goto, Holds, Ended, Syncing, Single, TypedLocals, TypeOK
<1>4. zone' = zone /\ ~\E f \in FaultKinds : Fail(r, f)
  BY DEF Finish, CreateInsert, Save, Unrow, Fail
<1> USE DEF TypedLocals, TypeOK, Fine, Same, Undisturbed, Agrees, FaultKinds
<1>5. CASE CreateInsert(r)
  <2>1. rows[i] = None /\ zone[i] = cur[r].value /\ zone[i] # None
    BY <1>1, <1>5, RowType, Assumed DEF CreateInsert, Assumptions
  <2>2. rows' = [rows EXCEPT ![i] = cur[r]]
    BY <1>4, <1>5, <2>1 DEF CreateInsert, Insert
  <2>3. QED
    BY <1>1, <1>3, <1>4, <2>1, <2>2
<1>6. CASE Save(r)
  BY <1>1, <1>3, <1>4, <1>6 DEF Save
<1>7. CASE Unrow(r)
  BY <1>1, <1>3, <1>4, <1>7 DEF Unrow, Remove
<1>8. QED
  BY <1>5, <1>6, <1>7 DEF Finish

LEMMA CalmStep == ASSUME TypedLocals, Calm, [Next]_vars PROVE Calm'
<1>1. ASSUME NEW r \in Requests, Moves(r), NEW i \in Ids \ (troubled \cup slipped)',
             Holds(r, i) \/ Holds(r, i)'
      PROVE  Fine(r, i)' /\ ~Meets(r, i)
  <2>1. i \notin troubled \cup slipped
    BY <1>1, Touches
  <2>2. CASE Holds(r, i)
    <3>1. Undisturbed(r, i) /\ ~Meets(r, i)
      BY <2>1, <2>2 DEF Calm
    <3>2. CASE Sync(r)
      BY <3>1, <3>2, SyncFine
    <3>3. CASE Change(r) \/ Finish(r)
      <4>1. i = at[r]
        BY <2>2, <3>3 DEF Holds, Change, Patch, Toggle, Erase, Finish, CreateInsert, Save, Unrow, Syncing
      <4>2. QED
        BY <1>1, <3>1, <3>3, <4>1, ChangeFine, FinishFine
    <3>4. CASE Refused(r)
      <4>1. pc[r] \in {"patch", "toggle", "erase"}
        BY <2>2, <3>4 DEF Refused, Holds, Syncing, Single
      <4>2. Same(i) /\ rows' = rows /\ zone' = zone
        BY <3>1, <3>4, <4>1, Assumed
           DEF Undisturbed, Same, Refused, table, TypedLocals, Locals, Single, Assumptions
      <4>3. ~Holds(r, i)'
        BY <3>4 DEF Refused, Return, Goto, Holds, Syncing, Single, TypedLocals, TypeOK
      <4>4. QED
        BY <3>1, <4>2, <4>3 DEF Fine, Same
    <3>5. CASE Start(r)
      BY <2>2, <3>5 DEF Start, SyncBegin, CreatePost, ReadRow, Begin, Holds, Syncing, Single
    <3>6. QED
      BY <1>1, <3>2, <3>3, <3>4, <3>5 DEF Moves
  <2>3. CASE ~Holds(r, i)
    <3>1. Start(r)
      BY <1>1, <2>3 DEF Moves, Sync, SyncPage, SyncRefused, SyncLook, SyncStore, SyncFind, SyncPrune, SyncEnd, Change, Patch,
                        Toggle, Erase, Finish, CreateInsert, Save, Unrow, Refused, Return, Call, Fail,
                        Holds, Syncing, Single, Goto, TypedLocals, TypeOK
    <3>2. QED
      BY <1>1, <2>1, <2>3, <3>1, StartFine DEF Calm, Fine
  <2>4. QED
    BY <2>2, <2>3
<1>2. ASSUME NEW r \in Requests, Moves(r) PROVE Calm'
  <2> SUFFICES ASSUME NEW i \in Ids \ (troubled \cup slipped)'
               PROVE  /\ (\A q \in Requests : ~Holds(q, i)') => Same(i)'
                      /\ \A q \in Requests : Holds(q, i)' => Undisturbed(q, i)' /\ ~Meets(q, i)'
    BY DEF Calm
  <2>1. \A q \in Requests \ {r} : /\ pc'[q] = pc[q] /\ at'[q] = at[q] /\ cur'[q] = cur[q]
                                  /\ fetched'[q] = fetched[q] /\ offset'[q] = offset[q]
    BY <1>2, Touches
  <2>2. \A q \in Requests \ {r} : Holds(q, i)' <=> Holds(q, i)
    BY <2>1 DEF Holds
  <2>3. i \notin troubled \cup slipped
    BY <1>2, Touches
  <2>4. CASE Holds(r, i) \/ Holds(r, i)'
    <3>1. \A q \in Requests \ {r} : ~Holds(q, i)'
      BY <1>1, <1>2, <2>2, <2>4 DEF Meets
    <3>2. QED
      BY <1>1, <1>2, <2>4, <3>1 DEF Meets, Fine
  <2>5. CASE ~Holds(r, i) /\ ~Holds(r, i)'
    <3>1. rows'[i] = rows[i] /\ zone'[i] = zone[i]
      BY <1>2, <2>5, Touches
    <3>2. \A q \in Requests : Holds(q, i)' <=> Holds(q, i)
      BY <2>2, <2>5
    <3>3. \A q \in Requests : Meets(q, i)' <=> Meets(q, i)
      BY <3>2 DEF Meets
    <3>4. ASSUME NEW q \in Requests \ {r}, Undisturbed(q, i) PROVE Undisturbed(q, i)'
      <4>1. pc[q] = "list" => Listed(q, i)'
        BY <1>2, <2>1, <3>1, <3>4, Touches, ListedOn DEF Undisturbed
      <4>2. QED
        BY <2>1, <3>1, <3>4, <4>1 DEF Undisturbed, Same
    <3>5. QED
      BY <2>3, <2>5, <3>1, <3>2, <3>3, <3>4 DEF Calm, Same
  <2>6. QED
    BY <2>4, <2>5
<1>3. ASSUME NEW j \in Ids, NEW v \in Payloads \cup {None}, EditZone(j, v) PROVE Calm'
  <2>1. /\ UNCHANGED <<rows, pc, at, cur, loop>> /\ Moved /\ slipped \subseteq slipped'
        /\ troubled' = troubled \cup {j}
        /\ \A i \in Ids \ {j} : zone'[i] = zone[i]
    BY <1>3 DEF EditZone, Rezone, Moved, TypedLocals, TypeOK
  <2>2. ASSUME NEW i \in Ids \ (troubled \cup slipped)', NEW q \in Requests, Undisturbed(q, i)
        PROVE  Undisturbed(q, i)'
    <3>1. pc[q] = "list" => Listed(q, i)'
      BY <2>1, <2>2, ListedOn DEF Undisturbed, loop
    <3>2. QED
      BY <2>1, <2>2, <3>1 DEF Undisturbed, Same, loop
  <2>3. QED
    BY <2>1, <2>2 DEF Calm, Holds, Meets, Same
<1>4. CASE Crash
  <2>1. /\ rows' = rows /\ zone' = zone /\ slipped' = slipped
        /\ \A r \in Requests, i \in Ids : ~Holds(r, i)'
    BY <1>4 DEF Crash, table, Holds, Syncing, Single
  <2>2. troubled' = troubled \cup {i \in Ids : \E r \in Requests : Holds(r, i)}
    BY <1>4 DEF Crash
  <2>3. QED
    BY <2>1, <2>2 DEF Calm, Same
<1>5. CASE UNCHANGED vars
  BY <1>5 DEF vars, table, loop, history, Calm, Holds, Meets, Same, Undisturbed, Listed
<1>6. QED
  BY <1>2, <1>3, <1>4, <1>5 DEF Next, Moves, Quiet

-----------------------------------------------------------------------------
(* SyncHeals: what a sync that met nobody knows.                           *)

LEMMA KnowsSync ==
  ASSUME TypedLocals, NEW r \in Requests, Knows(r), r \in lone', Sync(r), pc'[r] \in Syncing
  PROVE  Knows(r)'
<1> USE DEF TypedLocals, TypeOK, Goto, Syncing, Single, loop, table, history
<1>1. (\A q \in Requests \ {r} : pc[q] \notin Syncing \cup Single)'
  BY Touches DEF Moves, Knows
<1>2. ASSUME NEW j \in Ids, SyncLook(r, j) PROVE Knows(r)'
  BY <1>1, <1>2 DEF SyncLook, Knows
<1>3. CASE SyncStore(r)
  <2>1. at[r] \in Ids /\ fetched[r][at[r]] \in Values /\ owner[r] \in Domains
    BY <1>3 DEF SyncStore, Locals
  <2> DEFINE new == [key |-> r, domain |-> owner[r], value |-> fetched[r][at[r]]]
  <2>2. new # None
    <3>1. new \in Rows
      BY <2>1 DEF Rows
    <3>2. QED
      BY <3>1, Assumed DEF Assumptions
  <2>3. rows' = [rows EXCEPT ![at[r]] = IF cur[r] = None THEN Insert(at[r], new) ELSE WriteBack(at[r], cur[r])]
    BY <1>3 DEF SyncStore
  <2>4. rows'[at[r]] # None /\ \A i \in Ids : rows[i] # None => rows'[i] # None
    BY <1>3, <2>1, <2>2, <2>3 DEF SyncStore, Knows, Insert, WriteBack
  <2>5. QED
    BY <1>1, <1>3, <2>1, <2>4 DEF SyncStore, Knows
<1>4. CASE SyncFind(r)
  BY <1>1, <1>4 DEF SyncFind, Knows
<1>5. CASE SyncPrune(r)
  <2>1. PICK d \in doomed[r] :
          /\ doomed' = [doomed EXCEPT ![r] = @ \ {d}]
          /\ rows' = Remove(d[1], d[2])
    BY <1>5 DEF SyncPrune
  <2>2. d \in Ids \X Requests /\ zone[d[1]] = None
    BY DEF Locals, Knows
  <2>3. \A i \in Ids : rows'[i] = rows[i] \/ (i = d[1] /\ rows'[i] = None)
    BY <2>1 DEF Remove
  <2>4. \A i \in Ids : rows'[i] # None => rows'[i] = rows[i] /\ <<i, rows[i].key>> # d
    BY <2>1, <2>2 DEF Remove
  <2>5. QED
    BY <1>1, <1>5, <2>1, <2>2, <2>3, <2>4 DEF SyncPrune, Knows
<1>6. CASE SyncEnd(r) \/ SyncRefused(r)
  BY <1>6 DEF SyncEnd, SyncRefused
<1>7. CASE SyncPage(r)
  <2>1. /\ fetched'[r] = Read(r) /\ pc[r] = "list" /\ rows' = rows /\ zone' = zone
        /\ Read(r) \in [Ids -> Values \cup {None}]
    BY <1>7 DEF SyncPage, Read
  <2>2. \A i \in Ids : /\ Read(r)[i] \in {None, zone[i]}
                       /\ i \in Passed(zone, offset[r] + Page) => Read(r)[i] = zone[i]
                       /\ IsLast(r) => Read(r)[i] = zone[i]
    BY <2>1, PageRead DEF Knows
  <2>3. CASE ~IsLast(r)
    <3>1. offset'[r] = offset[r] + Page /\ pc'[r] = "list"
      BY <1>7, <2>1, <2>3 DEF SyncPage
    <3>2. \A i \in Ids : Listed(r, i)'
      BY <2>1, <2>2, <3>1 DEF Listed
    <3>3. QED
      BY <1>1, <3>1, <3>2 DEF Knows
  <2>4. CASE IsLast(r)
    <3>1. pc'[r] = "upsert" /\ todo'[r] = {i \in Ids : Read(r)[i] # None}
      BY <1>7, <2>1, <2>4 DEF SyncPage
    <3>2. Read(r) = zone
      BY <2>1, <2>2, <2>4
    <3>3. QED
      BY <1>1, <2>1, <3>1, <3>2 DEF Knows
  <2>5. QED
    BY <2>3, <2>4
<1>8. QED
  BY <1>2, <1>3, <1>4, <1>5, <1>6, <1>7 DEF Sync

LEMMA LoneStep == ASSUME TypedLocals, Lone, [Next]_vars PROVE Lone'
<1> SUFFICES ASSUME NEW r \in lone', pc'[r] \in Syncing PROVE Knows(r)'
  BY DEF Lone, Knows
<1>1. ASSUME NEW s \in Requests, Moves(s) PROVE Knows(r)'
  <2>1. CASE Start(s)
    <3>1. PICK d \in Domains : SyncBegin(s, d) /\ Idle /\ r = s
      BY <2>1 DEF Start, SyncBegin, CreatePost, ReadRow, Begin
    <3>2. pc' = [pc EXCEPT ![r] = "list"] /\ rows' = rows /\ zone' = zone
      BY <3>1 DEF SyncBegin, Goto, table
    <3>3. fetched'[r] = Nothing /\ offset'[r] = 0
      BY <3>1 DEF SyncBegin, TypedLocals, Locals, Syncing
    <3>4. \A i \in Ids : Listed(r, i)'
      BY <3>2, <3>3, FirstPlaces DEF Listed, Nothing
    <3>5. QED
      BY <3>1, <3>2, <3>3, <3>4 DEF Knows, Idle, TypedLocals, TypeOK
  <2>2. CASE ~Start(s)
    <3>1. r \in lone /\ r \in Requests
      BY <1>1, <2>2 DEF Moves, Refused, Sync, SyncPage, SyncRefused, SyncLook, SyncStore, SyncFind, SyncPrune, SyncEnd, Change,
                        Patch, Toggle, Erase, Finish, CreateInsert, Save, Unrow, history, TypedLocals, TypeOK
    <3>2. CASE r = s
      <4>1. Sync(r)
        BY <1>1, <2>2, <3>2
           DEF Moves, Refused, Change, Patch, Toggle, Erase, Call, Finish, CreateInsert, Save, Unrow,
               Return, Fail, Goto, Syncing, TypedLocals, TypeOK
      <4>2. Knows(r)
        BY <3>1, <4>1 DEF Lone, Knows, Listed, Sync, SyncPage, SyncRefused, SyncLook, SyncStore, SyncFind, SyncPrune, SyncEnd, Syncing
      <4>3. QED
        BY <3>1, <4>1, <4>2, KnowsSync
    <3>3. CASE r # s
      <4>1. pc[r] = pc'[r] /\ at'[r] = at[r] /\ cur'[r] = cur[r] /\ fetched'[r] = fetched[r] /\ offset'[r] = offset[r]
        BY <1>1, <3>1, <3>3, Touches
      <4>2. Knows(r)
        BY <3>1, <4>1 DEF Lone, Knows
      <4>3. pc[s] \notin Syncing \cup Single
        BY <3>3, <4>2 DEF Knows
      <4>4. Refused(s)
        BY <1>1, <2>2, <4>3 DEF Moves, Sync, SyncPage, SyncRefused, SyncLook, SyncStore, SyncFind, SyncPrune, SyncEnd, Change,
                        Patch, Toggle, Erase, Finish, CreateInsert, Save, Unrow, Syncing, Single
      <4>5. \A q \in Requests \ {r} : pc'[q] \notin Syncing \cup Single
        BY <4>2, <4>4 DEF Knows, Refused, Return, Goto, Syncing, Single, TypedLocals, TypeOK
      <4>6. QED
        BY <4>1, <4>2, <4>4, <4>5 DEF Knows, Listed, Refused, table, loop
    <3>4. QED
      BY <3>2, <3>3
  <2>3. QED
    BY <2>1, <2>2
<1>2. CASE UNCHANGED vars
  BY <1>2 DEF vars, table, loop, history, Lone, Knows, Listed
<1>3. QED
  BY <1>1, <1>2 DEF Next, Moves, EditZone, Crash, Quiet

LEMMA Invariance == Spec => []IInv
<1>1. IInv /\ [Next]_vars => IInv'
  BY TypedStep, CalmStep, LoneStep DEF IInv
<1>2. QED
  BY InitHolds, <1>1, PTL DEF Spec

-----------------------------------------------------------------------------
(* The results                                                             *)

\* Table, zone and locals keep their types.
THEOREM DnsTypeCorrect == Spec => []TypeOK
<1>1. IInv => TypeOK
  BY DEF IInv, TypedLocals
<1>2. QED
  BY Invariance, <1>1, PTL

\* However many requests and syncs interleave, and whatever fails, a record
\* that nothing has troubled, that slipped past no listing and that nobody is
\* working on has its row.
THEOREM InStepHolds == Spec => []InStep
<1>1. IInv => InStep
  BY DEF IInv, Calm, Same, InStep
<1>2. QED
  BY Invariance, <1>1, PTL

\* From whatever disorder it starts, a sync that met nobody leaves a row for
\* every record, and no row of its domain without one.
THEOREM SyncHealsHolds == Spec => SyncHeals
<1> DEFINE Healed(r) ==
      \A i \in Ids : /\ zone[i] # None => rows[i] # None
                     /\ rows[i] # None /\ rows[i].domain = owner[r] => zone[i] # None
<1>1. ASSUME IInv, [Next]_vars, NEW r \in Requests, LoneSyncEnds(r) PROVE Healed(r)
  <2>1. pc[r] = "prune" /\ pc'[r] = "ok" /\ r \in lone
    BY <1>1 DEF LoneSyncEnds
  <2>2. pc \in [Requests -> {"idle"} \cup Syncing \cup Single \cup Ended] /\ Locals /\ Lone
    BY <1>1 DEF IInv, TypedLocals, TypeOK
  <2>3. SyncEnd(r)
    <3>1. ASSUME NEW s \in Requests, Moves(s) PROVE SyncEnd(r)
      <4>1. r = s
        BY <1>1, <2>1, <3>1, Touches DEF IInv, TypedLocals
      <4>2. QED
        BY <2>1, <2>2, <3>1, <4>1
           DEF Moves, Start, SyncBegin, CreatePost, ReadRow, Begin, Refused, Sync, SyncPage, SyncRefused, SyncLook, SyncStore,
               SyncFind, SyncPrune, Change, Patch, Toggle, Erase, Finish, CreateInsert, Save, Unrow, Goto
    <3>2. QED
      BY <1>1, <2>1, <2>2, <3>1
         DEF Next, Moves, EditZone, Crash, Quiet, vars, Syncing, Single
  <2>4. todo[r] = {} /\ doomed[r] = {}
    BY <2>1, <2>2, <2>3 DEF SyncEnd, Locals
  <2>5. QED
    BY <2>1, <2>2, <2>4 DEF Lone, Knows, Syncing
<1>2. IInv /\ [Next]_vars => [\A r \in Requests : LoneSyncEnds(r) => Healed(r)]_vars
  BY <1>1
<1>3. QED
  BY Invariance, <1>2, PTL DEF Spec, SyncHeals

\* Only a record that a fault, the dashboard or two requests at once have
\* touched, or that moved to another page while a sync was listing, can lose its
\* row while it lives.
THEOREM NoLiveRowLostHolds == Spec => NoLiveRowLost
<1> DEFINE Kept == \A i \in Ids : rows[i] # None /\ rows'[i] = None /\ zone[i] # None => i \in troubled \cup slipped
<1>1. ASSUME IInv, [Next]_vars PROVE Kept
  <2> SUFFICES ASSUME NEW i \in Ids \ (troubled \cup slipped), zone[i] # None, rows[i] # None PROVE rows'[i] # None
    OBVIOUS
  <2>1. \A r \in Requests : Holds(r, i) => Undisturbed(r, i)
    BY <1>1 DEF IInv, Calm
  <2> USE DEF IInv, TypedLocals, TypeOK
  <2>2. ASSUME NEW r \in Requests, SyncStore(r) PROVE rows'[i] # None
    <3>1. Undisturbed(r, i)
      BY <2>1, <2>2 DEF SyncStore, Holds, Syncing
    <3>2. QED
      BY <1>1, <2>2, <3>1 DEF SyncStore, Insert, WriteBack, Undisturbed, Syncing
  <2>3. ASSUME NEW r \in Requests, SyncPrune(r) PROVE rows'[i] # None
    <3>1. Undisturbed(r, i)
      BY <2>1, <2>3 DEF SyncPrune, Holds, Syncing
    <3>2. QED
      BY <1>1, <2>3, <3>1 DEF SyncPrune, Remove, Undisturbed, Syncing, Locals
  <2>4. ASSUME NEW r \in Requests, Finish(r) PROVE rows'[i] # None
    <3>1. cur[r] \in Rows /\ pc[r] \in {"insert", "save", "unrow"} /\ (at[r] = i => Undisturbed(r, i))
      BY <1>1, <2>1, <2>4 DEF Locals, Holds, Finish, CreateInsert, Save, Unrow, Single
    <3>2. QED
      BY <1>1, <2>4, <3>1, Assumed
         DEF Finish, CreateInsert, Insert, Save, Unrow, Remove, Undisturbed, Assumptions
  <2>5. rows' = rows \/ \E r \in Requests : SyncStore(r) \/ SyncPrune(r) \/ Finish(r)
    BY <1>1 DEF Next, Start, SyncBegin, CreatePost, ReadRow, Refused, Sync, SyncPage, SyncRefused, SyncLook, SyncFind, SyncEnd,
                Change, Patch, Toggle, Erase, EditZone, Crash, Quiet, vars, table
  <2>6. QED
    BY <2>2, <2>3, <2>4, <2>5
<1>2. IInv /\ [Next]_vars => [Kept]_vars
  BY <1>1
<1>3. QED
  BY Invariance, <1>2, PTL DEF Spec, NoLiveRowLost
=============================================================================
