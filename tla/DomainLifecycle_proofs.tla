----------------------- MODULE DomainLifecycle_proofs -----------------------
(***************************************************************************)
(* For any sets of names, requests, settings and faults: the type          *)
(* invariant, Accounting, and from it NoOrphans, ProvisionedUnlessHarmed   *)
(* and OnlyItsDeleteRemovesRow.  For requests that wait for one another,   *)
(* step by step, the safety of DomainPromise.                              *)
(***************************************************************************)
EXTENDS DomainLifecycle, TLAPS

\* A request writes and removes virtual hosts only with a proxy type it has
\* read, so TypeOK is inductive only together with Labels.
Typed == TypeOK /\ Labels

\* The name a request is about is one of Names.
LEMMA NameType == ASSUME TypeOK, NEW r \in Requests
                  PROVE Name(r) \in Names
BY DEF TypeOK, Name

\* Nothing exists and nobody has started: Typed holds at the start.
LEMMA TypedInit == Init => Typed
BY DEF Init, Typed, TypeOK, Labels, ReadBefore, ReadAfter, InCreate

\* One step per action: each keeps Typed.
LEMMA TypedStep == ASSUME Typed, [Next]_vars PROVE Typed'
<1> USE DEF Typed, TypeOK, Labels, ReadBefore, ReadAfter, InFlight, InCreate,
            Ended, Proxies, host, Goto, Misled, IsCreate
<1>1. ASSUME NEW r \in Requests, CreateBegin(r) PROVE Typed'
  BY <1>1, ZenonT(60) DEF CreateBegin, MayStart
<1>2. ASSUME NEW r \in Requests, OpenFails(r) PROVE Typed'
  BY <1>2 DEF OpenFails
<1>3. ASSUME NEW r \in Requests, MakeRoot(r) PROVE Typed'
  BY <1>3, NameType, ZenonT(60) DEF MakeRoot
<1>4. ASSUME NEW r \in Requests, ReadProxy(r) PROVE Typed'
  BY <1>4 DEF ReadProxy, ProxyType
<1>5. ASSUME NEW r \in Requests, WriteVhost(r) PROVE Typed'
  <2>1. Vhost(r) \in Names \X Proxies
    BY <1>5, NameType DEF WriteVhost, Vhost
  <2>2. QED
    BY <1>5, <2>1, ZenonT(60) DEF WriteVhost
<1>6. ASSUME NEW r \in Requests, EnableVhost(r) PROVE Typed'
  <2>1. Vhost(r) \in Names \X Proxies
    BY <1>6, NameType DEF EnableVhost, Vhost
  <2>2. QED
    BY <1>6, <2>1 DEF EnableVhost
<1>7. ASSUME NEW r \in Requests, InsertRow(r) PROVE Typed'
  <2>1. Name(r) \in Names
    BY NameType
  <2>2. row' \in [Names -> Requests \cup {NoRow}]
    <3>1. CASE row' = [row EXCEPT ![Name(r)] = r]
      BY <2>1, <3>1
    <3>2. CASE row' = row
      BY <3>2
    <3>3. QED
      BY <1>7, <3>1, <3>2 DEF InsertRow
  <2>3. QED
    BY <1>7, <2>2, ZenonT(60) DEF InsertRow
<1>8. ASSUME NEW r \in Requests, DeleteBegin(r) PROVE Typed'
  BY <1>8, NameType, ZenonT(60) DEF DeleteBegin, MayStart
<1>9. ASSUME NEW r \in Requests, RemoveLink(r) PROVE Typed'
  BY <1>9 DEF RemoveLink, Unchecked
<1>10. ASSUME NEW r \in Requests, RemoveConf(r) PROVE Typed'
  BY <1>10 DEF RemoveConf, Unchecked
<1>11. ASSUME NEW r \in Requests, RemoveRoot(r) PROVE Typed'
  BY <1>11, NameType DEF RemoveRoot, Unchecked
<1>12. ASSUME NEW r \in Requests, DeleteRow(r) PROVE Typed'
  <2>1. row' \in [Names -> Requests \cup {NoRow}]
    <3>1. CASE row' = [row EXCEPT ![Name(r)] = IF @ = target[r] THEN NoRow ELSE @]
      BY NameType, <3>1
    <3>2. CASE row' = row
      BY <3>2
    <3>3. QED
      BY <1>12, <3>1, <3>2 DEF DeleteRow
  <2>2. QED
    BY <1>12, <2>1, ZenonT(60) DEF DeleteRow
<1>13. CASE Crash
  BY <1>13 DEF Crash
<1>14. ASSUME NEW v \in Settings, SetProxyType(v) PROVE Typed'
  BY <1>14 DEF SetProxyType
<1>15. CASE UNCHANGED vars
  BY <1>15 DEF vars
<1>16. QED
  BY <1>1, <1>2, <1>3, <1>4, <1>5, <1>6, <1>7, <1>8, <1>9, <1>10, <1>11, <1>12,
     <1>13, <1>14, <1>15 DEF Next, Step, Quiet

\* Typed is an invariant of the specification.
LEMMA TypedAlways == Spec => []Typed
BY TypedInit, TypedStep, PTL DEF Spec

\* Every variable of DomainLifecycle keeps its type, whatever the interleaving.
THEOREM TypeCorrect == Spec => []TypeOK
<1>1. Typed => TypeOK
  BY DEF Typed
<1>2. QED
  BY <1>1, TypedAlways, PTL

-----------------------------------------------------------------------------
(* What a step of one request leaves alone.                                *)

\* A request keeps its job, moves no other request and touches the row and the
\* host of its own name only.
LEMMA StepFrame ==
  ASSUME Typed, NEW r \in Requests, Step(r)
  PROVE  /\ job' = job
         /\ pc[r] \in {"idle"} \cup InFlight
         /\ pc'[r] \in InFlight \cup {"ok", "failed"}
         /\ \A q \in Requests \ {r} : /\ pc'[q] = pc[q]
                                     /\ target'[q] = target[q]
                                     /\ proxy'[q] = proxy[q]
         /\ blind \subseteq blind' /\ blind' \subseteq blind \cup {r}
         /\ proxy[r] # "" => proxy'[r] = proxy[r]
         /\ \A n \in Names \ {Name(r)} :
              /\ row'[n] = row[n]
              /\ n \in webRoot' <=> n \in webRoot
              /\ \A p : /\ <<n, p>> \in conf' <=> <<n, p>> \in conf
                        /\ <<n, p>> \in link' <=> <<n, p>> \in link
<1> USE DEF Typed, TypeOK, Labels, ReadBefore, ReadAfter, InFlight, InCreate,
            Ended, host, Goto, Misled, Vhost
<1>1. CASE CreateBegin(r)
  BY <1>1 DEF CreateBegin, MayStart
<1>2. CASE OpenFails(r)
  BY <1>2 DEF OpenFails
<1>3. CASE MakeRoot(r)
  BY <1>3 DEF MakeRoot
<1>4. CASE ReadProxy(r)
  BY <1>4 DEF ReadProxy
<1>5. CASE WriteVhost(r)
  BY <1>5 DEF WriteVhost
<1>6. CASE EnableVhost(r)
  BY <1>6 DEF EnableVhost
<1>7. CASE InsertRow(r)
  BY <1>7 DEF InsertRow
<1>8. CASE DeleteBegin(r)
  BY <1>8 DEF DeleteBegin, MayStart
<1>9. CASE RemoveLink(r)
  BY <1>9 DEF RemoveLink, Unchecked
<1>10. CASE RemoveConf(r)
  BY <1>10 DEF RemoveConf, Unchecked
<1>11. CASE RemoveRoot(r)
  BY <1>11 DEF RemoveRoot, Unchecked
<1>12. CASE DeleteRow(r)
  BY <1>12 DEF DeleteRow
<1>13. QED
  BY <1>1, <1>2, <1>3, <1>4, <1>5, <1>6, <1>7, <1>8, <1>9, <1>10, <1>11, <1>12
     DEF Step

-----------------------------------------------------------------------------
(* A row belongs to the Create that inserted it.                           *)

\* No step takes away what Inserted says of a request.
LEMMA InsertedStable ==
  ASSUME Typed, NEW r \in Requests, Step(r), NEW c \in Requests, NEW n \in Names,
         Inserted(c, n)
  PROVE  job'[c].op = "create" /\ job'[c].name = n /\ (pc'[c] = "ok" \/ c \in blind')
<1>1. job' = job /\ blind \subseteq blind'
  BY StepFrame
<1>2. pc[c] = "ok" => pc'[c] = "ok"
  BY StepFrame DEF InFlight, InCreate
<1>3. QED
  BY <1>1, <1>2 DEF Inserted, IsCreate, Name

\* The row of a name is always one a Create for that name inserted, and what
\* a Delete looked up was once inserted: one case per writer of the row.
LEMMA RowOwnerStep == ASSUME Typed, RowOwner, [Next]_vars PROVE RowOwner'
<1> USE DEF IsCreate, Name
<1>1. ASSUME NEW r \in Requests, Step(r) PROVE RowOwner'
  <2>1. ASSUME NEW n \in Names, row'[n] # NoRow PROVE Inserted(row[n], n)'
    <3>1. CASE row'[n] = row[n]
      <4>1. row[n] \in Requests /\ Inserted(row[n], n)
        BY <2>1, <3>1 DEF RowOwner, Typed, TypeOK
      <4>2. QED
        BY <1>1, <3>1, <4>1, InsertedStable DEF Inserted
    <3>2. CASE row'[n] # row[n]
      <4>1. InsertRow(r) /\ row'[n] = r /\ n = Name(r)
        BY <1>1, <2>1, <3>2 DEF Step, Typed, TypeOK, host, CreateBegin, OpenFails,
          MakeRoot, ReadProxy, WriteVhost, EnableVhost, InsertRow, DeleteBegin,
          RemoveLink, RemoveConf, RemoveRoot, DeleteRow
      <4>2. IsCreate(r) /\ job' = job /\ (pc'[r] = "ok" \/ r \in blind')
        BY <2>1, <3>2, <4>1 DEF InsertRow, Goto, Misled, Typed, TypeOK, Labels, InCreate
      <4>3. QED
        BY <4>1, <4>2 DEF Inserted
    <3>3. QED
      BY <3>1, <3>2
  <2>2. ASSUME NEW d \in Requests, target'[d] # NoRow PROVE Inserted(target[d], Name(d))'
    <3>1. Name(d) \in Names /\ job' = job
      BY <1>1, StepFrame, NameType DEF Typed
    <3>2. CASE target'[d] = target[d]
      <4>1. target[d] \in Requests /\ Inserted(target[d], Name(d))
        BY <2>2, <3>2 DEF RowOwner, Typed, TypeOK
      <4>2. QED
        BY <1>1, <3>1, <3>2, <4>1, InsertedStable DEF Inserted
    <3>3. CASE target'[d] # target[d]
      <4>1. target'[d] = row[Name(d)]
        <5>1. UNCHANGED target \/ DeleteBegin(r)
          BY <1>1, Zenon DEF Step, CreateBegin, OpenFails, MakeRoot, ReadProxy,
             WriteVhost, EnableVhost, InsertRow, RemoveLink, RemoveConf, RemoveRoot, DeleteRow
        <5>2. target' = [target EXCEPT ![r] = row[Name(r)]]
          BY <3>3, <5>1 DEF DeleteBegin
        <5>3. QED
          BY <3>3, <5>2 DEF Typed, TypeOK
      <4>2. row[Name(d)] \in Requests /\ Inserted(row[Name(d)], Name(d))
        BY <2>2, <3>1, <4>1 DEF RowOwner, Typed, TypeOK
      <4>3. QED
        BY <1>1, <3>1, <4>1, <4>2, InsertedStable DEF Inserted
    <3>4. QED
      BY <3>2, <3>3
  <2>3. QED
    BY <2>1, <2>2 DEF RowOwner
<1>2. CASE Crash
  <2>1. UNCHANGED <<row, job, target, blind>>
    BY <1>2 DEF Crash
  <2>2. \A r \in Requests : pc[r] = "ok" => pc'[r] = "ok"
    BY <1>2 DEF Crash, InFlight, InCreate, Typed, TypeOK
  <2>3. ASSUME NEW c \in Requests, NEW n \in Names, Inserted(c, n)
        PROVE job'[c].op = "create" /\ job'[c].name = n /\ (pc'[c] = "ok" \/ c \in blind')
    BY <2>1, <2>2, <2>3 DEF Inserted
  <2>4. ASSUME NEW n \in Names, row'[n] # NoRow PROVE Inserted(row[n], n)'
    <3>1. row'[n] = row[n] /\ row[n] \in Requests /\ Inserted(row[n], n)
      BY <2>1, <2>4 DEF RowOwner, Typed, TypeOK
    <3>2. QED
      BY <2>3, <3>1 DEF Inserted
  <2>5. ASSUME NEW d \in Requests, target'[d] # NoRow PROVE Inserted(target[d], Name(d))'
    <3>1. target'[d] = target[d] /\ target[d] \in Requests
      BY <2>1, <2>5 DEF Typed, TypeOK
    <3>2. Name(d) \in Names /\ Inserted(target[d], Name(d))
      BY <2>5, <3>1, NameType DEF RowOwner, Typed
    <3>3. QED
      BY <2>1, <2>3, <3>1, <3>2 DEF Inserted
  <2>6. QED
    BY <2>4, <2>5 DEF RowOwner
<1>3. ASSUME NEW v \in Settings, SetProxyType(v) PROVE RowOwner'
  BY <1>3 DEF SetProxyType, RowOwner, Inserted, host
<1>4. CASE UNCHANGED vars
  BY <1>4 DEF vars, RowOwner, Inserted
<1>5. QED
  BY <1>1, <1>2, <1>3, <1>4 DEF Next, Quiet

-----------------------------------------------------------------------------
(* What is on the host stays in some request's hands.                      *)

\* A virtual host that appears is that of the request that takes the step.
LEMMA NewVhost ==
  ASSUME Typed, NEW r \in Requests, Step(r), NEW n \in Names, NEW p \in Proxies
  PROVE  /\ <<n, p>> \in conf' => \/ <<n, p>> \in conf
                                  \/ WriteVhost(r) /\ n = Name(r) /\ p = proxy[r]
         /\ <<n, p>> \in link' => \/ <<n, p>> \in link
                                  \/ EnableVhost(r) /\ n = Name(r) /\ p = proxy[r]
BY DEF Step, Typed, TypeOK, host, Vhost, Unchecked, CreateBegin, OpenFails, MakeRoot,
  ReadProxy, WriteVhost, EnableVhost, InsertRow, DeleteBegin, RemoveLink, RemoveConf,
  RemoveRoot, DeleteRow

\* Every vhost on the host has a proxy type that some Create for the name
\* has read: no step makes one from nothing and none forgets it has read.
LEMMA VhostsReadStep == ASSUME Typed, VhostsRead, [Next]_vars PROVE VhostsRead'
<1> USE DEF Touching, Name
<1>1. ASSUME NEW r \in Requests, Step(r) PROVE VhostsRead'
  <2> SUFFICES ASSUME NEW n \in Names, NEW p \in Proxies, <<n, p>> \in conf' \cup link'
               PROVE  \E q \in Touching(n)' : proxy'[q] = p
    BY DEF VhostsRead
  <2>1. CASE <<n, p>> \in conf \cup link
    <3>1. PICK q \in Touching(n) : proxy[q] = p
      BY <2>1 DEF VhostsRead
    <3>2. proxy'[q] = p /\ q \in Touching(n)'
      BY <1>1, <3>1, StepFrame DEF Proxies
    <3>3. QED
      BY <3>2
  <2>2. CASE <<n, p>> \notin conf \cup link
    <3>1. n = Name(r) /\ p = proxy[r]
      BY <1>1, <2>2, NewVhost
    <3>2. proxy'[r] = p /\ r \in Touching(n)'
      BY <1>1, <3>1, StepFrame DEF Proxies
    <3>3. QED
      BY <3>2
  <2>3. QED
    BY <2>1, <2>2
<1>2. CASE Crash
  BY <1>2 DEF Crash, VhostsRead, host
<1>3. ASSUME NEW v \in Settings, SetProxyType(v) PROVE VhostsRead'
  BY <1>3 DEF SetProxyType, VhostsRead, host
<1>4. CASE UNCHANGED vars
  BY <1>4 DEF vars, VhostsRead
<1>5. QED
  BY <1>1, <1>2, <1>3, <1>4 DEF Next, Quiet

\* Disturbed and Mixed, once true, stay true.
LEMMA CalmBefore ==
  ASSUME Typed, NEW r \in Requests, Step(r), NEW n \in Names,
         ~Disturbed(n)', ~Mixed(n)'
  PROVE  ~Disturbed(n) /\ ~Mixed(n)
<1>1. Touching(n)' = Touching(n)
  BY StepFrame DEF Touching, Name
<1>2. ~Disturbed(n)
  <2>1. SUFFICES ASSUME NEW q \in Touching(n), pc[q] = "crashed" \/ q \in blind
                 PROVE  FALSE
    BY DEF Disturbed
  <2>2. q \in Requests /\ (pc'[q] = "crashed" \/ q \in blind')
    BY <2>1, StepFrame DEF Touching, InFlight, InCreate
  <2>3. QED
    BY <1>1, <2>1, <2>2 DEF Disturbed
<1>3. ~Mixed(n)
  <2>1. SUFFICES ASSUME NEW p \in Touching(n), NEW q \in Touching(n),
                        proxy[p] # "", proxy[q] # "", proxy[p] # proxy[q]
                 PROVE  FALSE
    BY DEF Mixed
  <2>2. p \in Requests /\ proxy'[p] = proxy[p]
    BY <2>1, StepFrame DEF Touching
  <2>3. q \in Requests /\ proxy'[q] = proxy[q]
    BY <2>1, StepFrame DEF Touching
  <2>4. QED
    BY <1>1, <2>1, <2>2, <2>3 DEF Mixed
<1>4. QED
  BY <1>2, <1>3

\* The argument shared by the web root and both halves of a virtual host: no
\* name becomes doomed and no holder lets go, provided that the request that
\* moves neither leaves held, except by inserting its row, nor enters gone.
LEMMA HoldOn ==
  ASSUME Typed, RowOwner, NEW r \in Requests, Step(r), NEW n \in Names,
         ~Disturbed(n), NEW held, NEW gone, "delrow" \in gone,
         IsCreate(r) /\ Name(r) = n /\ pc[r] \in held
           => pc'[r] \in held \/ (pc[r] = "insert" /\ row'[n] = r),
         ~IsCreate(r) /\ Name(r) = n /\ pc'[r] \in gone
           => pc[r] \in gone /\ target'[r] = target[r],
         DoomedAt(n, gone)'
  PROVE  DoomedAt(n, gone) /\ (HeldAt(n, held) => HeldAt(n, held)')
<1>0. job' = job
  BY StepFrame
<1>1. Touching(n)' = Touching(n) /\ job' = job
  BY <1>0 DEF Touching, Name
<1>2. CASE row'[n] = row[n]
  <2>1. DoomedAt(n, gone)
    <3>1. CASE row[n] = NoRow
      BY <3>1 DEF DoomedAt
    <3>2. CASE row[n] # NoRow
      <4>1. PICK d \in Touching(n) : ~IsCreate(d) /\ pc'[d] \in gone /\ target'[d] = row[n]
        BY <1>1, <1>2, <3>2 DEF DoomedAt, Touching, IsCreate
      <4>2. d \in Requests /\ Name(d) = n
        BY DEF Touching
      <4>3. pc[d] \in gone /\ target[d] = row[n]
        BY <4>1, <4>2, StepFrame
      <4>4. QED
        BY <4>1, <4>3 DEF DoomedAt
    <3>3. QED
      BY <3>1, <3>2
  <2>2. ASSUME HeldAt(n, held) PROVE HeldAt(n, held)'
    <3>1. PICK q \in Touching(n) : IsCreate(q) /\ pc[q] \in held
      BY <2>2 DEF HeldAt
    <3>2. q \in Requests /\ Name(q) = n
      BY DEF Touching
    <3>3. ~(pc[r] = "insert" /\ row'[n] = r /\ q = r)
      <4>1. SUFFICES ASSUME pc[r] = "insert", row[n] = r, q = r PROVE FALSE
        BY <1>2
      <4>2. r \in blind
        BY <4>1, <3>2, RowAssumption DEF RowOwner, Inserted, Typed, TypeOK
      <4>3. QED
        BY <4>1, <4>2, <3>1 DEF Disturbed
    <3>4. pc'[q] \in held
      BY <3>1, <3>2, <3>3, StepFrame
    <3>5. QED
      BY <1>1, <3>1, <3>4, <3>2 DEF HeldAt, IsCreate
  <2>3. QED
    BY <2>1, <2>2
<1>3. CASE row'[n] # row[n] /\ row'[n] = NoRow
  <2>1. DeleteRow(r) /\ n = Name(r) /\ target[r] = row[n] /\ pc[r] = "delrow"
    BY <1>3 DEF Step, Typed, TypeOK, host, CreateBegin, OpenFails, MakeRoot, ReadProxy,
      WriteVhost, EnableVhost, InsertRow, DeleteBegin, RemoveLink, RemoveConf,
      RemoveRoot, DeleteRow
  <2>2. ~IsCreate(r) /\ r \in Touching(n)
    BY <2>1 DEF Typed, Labels, Touching
  <2>3. DoomedAt(n, gone)
    BY <2>1, <2>2 DEF DoomedAt
  <2>4. ASSUME NEW q \in Touching(n), IsCreate(q), pc[q] \in held
        PROVE  HeldAt(n, held)'
    BY <1>1, <2>2, <2>4, StepFrame DEF HeldAt, Touching, IsCreate
  <2>5. QED
    BY <2>3, <2>4 DEF HeldAt
<1>4. CASE row'[n] # row[n] /\ row'[n] # NoRow
  <2>1. row'[n] = r /\ pc[r] = "insert" /\ Name(r) = n
    BY <1>4 DEF Step, Typed, TypeOK, host, CreateBegin, OpenFails, MakeRoot, ReadProxy,
      WriteVhost, EnableVhost, InsertRow, DeleteBegin, RemoveLink, RemoveConf,
      RemoveRoot, DeleteRow
  <2>2. PICK d \in Touching(n) : ~IsCreate(d) /\ target'[d] = r
    BY <1>1, <1>4, <2>1 DEF DoomedAt, Touching, IsCreate
  <2>3. d \in Requests /\ Name(d) = n /\ r \in Touching(n)
    BY <2>1 DEF Touching
  <2>4. d # r
    BY <2>1, <2>2 DEF Typed, Labels, InCreate
  <2>5. target[d] = r
    BY <2>2, <2>3, <2>4, StepFrame
  <2>6. r # NoRow
    BY RowAssumption
  <2>7. pc[r] = "ok" \/ r \in blind
    BY <2>3, <2>5, <2>6 DEF RowOwner, Inserted
  <2>8. QED
    BY <2>1, <2>3, <2>7 DEF Disturbed
<1>5. QED
  BY <1>2, <1>3, <1>4

\* HeldOrOwned for the web root.
LEMMA RootStep ==
  ASSUME Typed, RowOwner, NEW r \in Requests, Step(r), NEW n \in Names,
         ~Disturbed(n), ~Disturbed(n)',
         n \in webRoot /\ DoomedAt(n, RootGone) => HeldAt(n, RootHeld),
         n \in webRoot', DoomedAt(n, RootGone)'
  PROVE  HeldAt(n, RootHeld)'
<1>1. job' = job
  BY StepFrame
<1>2. Name(r) = n => r \notin blind'
  BY <1>1 DEF Disturbed, Touching, Name
<1>3. CASE n \notin webRoot
  <2>1. MakeRoot(r) /\ Name(r) = n
    BY <1>3 DEF Step, Typed, TypeOK, host, Unchecked, CreateBegin, OpenFails, MakeRoot,
      ReadProxy, WriteVhost, EnableVhost, InsertRow, DeleteBegin, RemoveLink,
      RemoveConf, RemoveRoot, DeleteRow
  <2>2. IsCreate(r) /\ pc'[r] = "proxy"
    BY <1>2, <2>1 DEF MakeRoot, Goto, Misled, Typed, TypeOK, Labels, InCreate
  <2>3. QED
    BY <1>1, <2>1, <2>2 DEF HeldAt, RootHeld, Touching, IsCreate, Name
<1>4. CASE n \in webRoot
  <2>1. ASSUME IsCreate(r), Name(r) = n, pc[r] \in RootHeld
        PROVE  pc'[r] \in RootHeld \/ (pc[r] = "insert" /\ row'[n] = r)
    BY <1>2, <2>1 DEF RootHeld, Step, Typed, TypeOK, host, Goto, Misled, Unchecked,
      CreateBegin, OpenFails, MakeRoot, ReadProxy, WriteVhost, EnableVhost, InsertRow,
      DeleteBegin, RemoveLink, RemoveConf, RemoveRoot, DeleteRow, MayStart
  <2>2. ASSUME ~IsCreate(r), Name(r) = n, pc'[r] \in RootGone
        PROVE  pc[r] \in RootGone /\ target'[r] = target[r]
    BY <1>2, <2>2 DEF RootGone, Step, Typed, TypeOK, host, Goto, Misled, Unchecked,
      CreateBegin, OpenFails, MakeRoot, ReadProxy, WriteVhost, EnableVhost, InsertRow,
      DeleteBegin, RemoveLink, RemoveConf, RemoveRoot, DeleteRow, MayStart
  <2>3. QED
    BY <1>4, <2>1, <2>2, HoldOn DEF RootGone
<1>5. QED
  BY <1>3, <1>4

\* HeldOrOwned for the file in sites-available: without Mixed, the proxy type of the
\* request that removes it is the one it was made with.
LEMMA ConfStep ==
  ASSUME Typed, RowOwner, VhostsRead, NEW r \in Requests, Step(r), NEW n \in Names,
         ~Disturbed(n), ~Disturbed(n)', ~Mixed(n),
         Served(conf, n) # {} /\ DoomedAt(n, ConfGone) => HeldAt(n, ConfHeld),
         Served(conf, n)' # {}, DoomedAt(n, ConfGone)'
  PROVE  HeldAt(n, ConfHeld)'
<1>1. job' = job
  BY StepFrame
<1>2. Name(r) = n => r \notin blind'
  BY <1>1 DEF Disturbed, Touching, Name
<1>3. PICK p \in Proxies : <<n, p>> \in conf'
  BY DEF Served
<1>4. CASE <<n, p>> \notin conf
  <2>1. WriteVhost(r) /\ Name(r) = n
    BY <1>3, <1>4, NewVhost
  <2>2. IsCreate(r) /\ pc'[r] = "enable"
    BY <1>2, <1>3, <1>4, <2>1 DEF WriteVhost, Goto, Misled, Typed, TypeOK, Labels, InCreate
  <2>3. QED
    BY <1>1, <2>1, <2>2 DEF HeldAt, ConfHeld, Touching, IsCreate, Name
<1>5. CASE <<n, p>> \in conf
  <2>1. ASSUME Name(r) = n, proxy[r] # "" PROVE proxy[r] = p
    <3>1. PICK q \in Touching(n) : proxy[q] = p
      BY <1>5 DEF VhostsRead
    <3>2. r \in Touching(n) /\ proxy[q] # ""
      BY <2>1, <3>1 DEF Touching, Proxies
    <3>3. QED
      BY <2>1, <3>1, <3>2 DEF Mixed
  <2>2. Name(r) = n => ~RemoveConf(r)
    BY <1>2, <1>3, <2>1 DEF RemoveConf, Unchecked, Vhost, Misled, Typed, Labels, ReadAfter
  <2>3. ASSUME IsCreate(r), Name(r) = n, pc[r] \in ConfHeld
        PROVE  pc'[r] \in ConfHeld \/ (pc[r] = "insert" /\ row'[n] = r)
    BY <2>2, <2>3 DEF ConfHeld, Step, Typed, TypeOK, host, Goto, Misled, Unchecked,
      CreateBegin, OpenFails, MakeRoot, ReadProxy, WriteVhost, EnableVhost, InsertRow,
      DeleteBegin, RemoveLink, RemoveConf, RemoveRoot, DeleteRow, MayStart
  <2>4. ASSUME ~IsCreate(r), Name(r) = n, pc'[r] \in ConfGone
        PROVE  pc[r] \in ConfGone /\ target'[r] = target[r]
    BY <1>2, <2>2, <2>4 DEF ConfGone, Labels, InCreate, Step, Typed, TypeOK, host, Goto, Misled, Unchecked,
      CreateBegin, OpenFails, MakeRoot, ReadProxy, WriteVhost, EnableVhost, InsertRow,
      DeleteBegin, RemoveLink, RemoveConf, RemoveRoot, DeleteRow, MayStart
  <2>5. Served(conf, n) # {}
    BY <1>5 DEF Served
  <2>6. QED
    BY <2>3, <2>4, <2>5, HoldOn DEF ConfGone
<1>6. QED
  BY <1>4, <1>5

\* HeldOrOwned for the link in sites-enabled: without Mixed, the proxy type of the
\* request that removes it is the one it was made with.
LEMMA LinkStep ==
  ASSUME Typed, RowOwner, VhostsRead, NEW r \in Requests, Step(r), NEW n \in Names,
         ~Disturbed(n), ~Disturbed(n)', ~Mixed(n),
         Served(link, n) # {} /\ DoomedAt(n, LinkGone) => HeldAt(n, LinkHeld),
         Served(link, n)' # {}, DoomedAt(n, LinkGone)'
  PROVE  HeldAt(n, LinkHeld)'
<1>1. job' = job
  BY StepFrame
<1>2. Name(r) = n => r \notin blind'
  BY <1>1 DEF Disturbed, Touching, Name
<1>3. PICK p \in Proxies : <<n, p>> \in link'
  BY DEF Served
<1>4. CASE <<n, p>> \notin link
  <2>1. EnableVhost(r) /\ Name(r) = n
    BY <1>3, <1>4, NewVhost
  <2>2. IsCreate(r) /\ pc'[r] = "insert"
    BY <1>2, <1>3, <1>4, <2>1 DEF EnableVhost, Goto, Misled, Typed, TypeOK, Labels, InCreate
  <2>3. QED
    BY <1>1, <2>1, <2>2 DEF HeldAt, LinkHeld, Touching, IsCreate, Name
<1>5. CASE <<n, p>> \in link
  <2>1. ASSUME Name(r) = n, proxy[r] # "" PROVE proxy[r] = p
    <3>1. PICK q \in Touching(n) : proxy[q] = p
      BY <1>5 DEF VhostsRead
    <3>2. r \in Touching(n) /\ proxy[q] # ""
      BY <2>1, <3>1 DEF Touching, Proxies
    <3>3. QED
      BY <2>1, <3>1, <3>2 DEF Mixed
  <2>2. Name(r) = n => ~RemoveLink(r)
    BY <1>2, <1>3, <2>1 DEF RemoveLink, Unchecked, Vhost, Misled, Typed, Labels, ReadAfter
  <2>3. ASSUME IsCreate(r), Name(r) = n, pc[r] \in LinkHeld
        PROVE  pc'[r] \in LinkHeld \/ (pc[r] = "insert" /\ row'[n] = r)
    BY <2>2, <2>3 DEF LinkHeld, Step, Typed, TypeOK, host, Goto, Misled, Unchecked,
      CreateBegin, OpenFails, MakeRoot, ReadProxy, WriteVhost, EnableVhost, InsertRow,
      DeleteBegin, RemoveLink, RemoveConf, RemoveRoot, DeleteRow, MayStart
  <2>4. ASSUME ~IsCreate(r), Name(r) = n, pc'[r] \in LinkGone
        PROVE  pc[r] \in LinkGone /\ target'[r] = target[r]
    BY <1>2, <2>2, <2>4 DEF LinkGone, Labels, InCreate, Step, Typed, TypeOK, host, Goto, Misled, Unchecked,
      CreateBegin, OpenFails, MakeRoot, ReadProxy, WriteVhost, EnableVhost, InsertRow,
      DeleteBegin, RemoveLink, RemoveConf, RemoveRoot, DeleteRow, MayStart
  <2>5. Served(link, n) # {}
    BY <1>5 DEF Served
  <2>6. QED
    BY <2>3, <2>4, <2>5, HoldOn DEF LinkGone
<1>6. QED
  BY <1>4, <1>5

\* What is on the host without a row is held by a request that will remove or
\* own it: directory, file and link have a lemma each.
LEMMA HeldOrOwnedStep ==
  ASSUME Typed, RowOwner, VhostsRead, HeldOrOwned, [Next]_vars
  PROVE  HeldOrOwned'
<1>1. ASSUME NEW r \in Requests, Step(r) PROVE HeldOrOwned'
  <2> SUFFICES ASSUME NEW n \in Names, ~Disturbed(n)', ~Mixed(n)'
               PROVE  /\ n \in webRoot' /\ DoomedAt(n, RootGone)' => HeldAt(n, RootHeld)'
                      /\ Served(conf, n)' # {} /\ DoomedAt(n, ConfGone)'
                           => HeldAt(n, ConfHeld)'
                      /\ Served(link, n)' # {} /\ DoomedAt(n, LinkGone)'
                           => HeldAt(n, LinkHeld)'
    BY DEF HeldOrOwned
  <2>1. ~Disturbed(n) /\ ~Mixed(n)
    BY <1>1, CalmBefore
  <2>2. /\ n \in webRoot /\ DoomedAt(n, RootGone) => HeldAt(n, RootHeld)
        /\ Served(conf, n) # {} /\ DoomedAt(n, ConfGone) => HeldAt(n, ConfHeld)
        /\ Served(link, n) # {} /\ DoomedAt(n, LinkGone) => HeldAt(n, LinkHeld)
    BY <2>1 DEF HeldOrOwned
  <2>3. n \in webRoot' /\ DoomedAt(n, RootGone)' => HeldAt(n, RootHeld)'
    BY <1>1, <2>1, <2>2, RootStep
  <2>4. Served(conf, n)' # {} /\ DoomedAt(n, ConfGone)' => HeldAt(n, ConfHeld)'
    BY <1>1, <2>1, <2>2, ConfStep
  <2>5. Served(link, n)' # {} /\ DoomedAt(n, LinkGone)' => HeldAt(n, LinkHeld)'
    BY <1>1, <2>1, <2>2, LinkStep
  <2>6. QED
    BY <2>3, <2>4, <2>5
<1>2. CASE Crash \/ (\E v \in Settings : SetProxyType(v)) \/ UNCHANGED vars
  <2> SUFFICES ASSUME NEW n \in Names, ~Disturbed(n)', ~Mixed(n)'
               PROVE  /\ n \in webRoot' /\ DoomedAt(n, RootGone)' => HeldAt(n, RootHeld)'
                      /\ Served(conf, n)' # {} /\ DoomedAt(n, ConfGone)'
                           => HeldAt(n, ConfHeld)'
                      /\ Served(link, n)' # {} /\ DoomedAt(n, LinkGone)'
                           => HeldAt(n, LinkHeld)'
    BY DEF HeldOrOwned
  <2>1. UNCHANGED <<row, webRoot, conf, link, job, target, proxy, blind>>
    BY <1>2 DEF Crash, SetProxyType, host, vars
  <2>2. Touching(n)' = Touching(n)
    BY <2>1 DEF Touching, Name
  <2>3. \A q \in Touching(n) : pc'[q] = pc[q]
    BY <1>2, <2>2 DEF Crash, SetProxyType, vars, Disturbed, Touching
  <2>4. ~Disturbed(n) /\ ~Mixed(n)
    BY <2>1, <2>2, <2>3 DEF Disturbed, Mixed
  <2>5. ASSUME NEW ls PROVE /\ HeldAt(n, ls) => HeldAt(n, ls)'
                            /\ DoomedAt(n, ls)' => DoomedAt(n, ls)
    BY <2>1, <2>2, <2>3 DEF HeldAt, DoomedAt, IsCreate
  <2>6. QED
    BY <2>1, <2>4, <2>5 DEF HeldOrOwned, Served
<1>3. QED
  BY <1>1, <1>2 DEF Next, Quiet

-----------------------------------------------------------------------------
(* A domain nobody harmed is complete.                                     *)

\* A rival that has come as far as removing something stays a rival.
LEMMA UnharmedBefore ==
  ASSUME Typed, NEW r \in Requests, Step(r), NEW n \in Names, NEW c \in Requests,
         ~Harmed(n, c)'
  PROVE  ~Harmed(n, c)
<1>1. SUFFICES ASSUME NEW q \in Touching(n) \ {c}, proxy[q] # "",
                      IsCreate(q) => pc[q] \in {"unlink", "unconf", "rmroot", "failed", "crashed"}
               PROVE  Harmed(n, c)'
  BY DEF Harmed
<1>2. job' = job /\ q \in Requests
  BY StepFrame DEF Touching
<1>3. q \in Touching(n)' \ {c}
  BY <1>1, <1>2 DEF Touching, Name
<1>4. proxy'[q] # ""
  BY <1>1, <1>2, StepFrame
<1>5. IsCreate(q) => pc'[q] \in {"unlink", "unconf", "rmroot", "failed", "crashed"}
  <2>1. CASE q # r
    BY <1>1, <1>2, <2>1, StepFrame
  <2>2. CASE q = r
    BY <1>1, <1>2, <2>2 DEF Step, Typed, TypeOK, host, Goto, Misled, Unchecked,
      CreateBegin, OpenFails, MakeRoot, ReadProxy, WriteVhost, EnableVhost, InsertRow,
      DeleteBegin, RemoveLink, RemoveConf, RemoveRoot, DeleteRow, MayStart
  <2>3. QED
    BY <2>1, <2>2
<1>6. QED
  BY <1>2, <1>3, <1>4, <1>5 DEF Harmed, IsCreate

\* A step of a request that did not harm n removes nothing of it.
LEMMA NoHarm ==
  ASSUME Typed, NEW r \in Requests, Step(r), NEW n \in Names, NEW c \in Requests,
         ~Harmed(n, c), r # c, NEW p
  PROVE  /\ n \in webRoot => n \in webRoot'
         /\ <<n, p>> \in conf => <<n, p>> \in conf'
         /\ <<n, p>> \in link => <<n, p>> \in link'
         /\ row'[n] = c => row[n] = c
<1>1. CASE Name(r) # n
  BY <1>1, StepFrame
<1>2. CASE Name(r) = n
  <2>1. ~RemoveLink(r) /\ ~RemoveConf(r) /\ ~RemoveRoot(r)
    <3>1. r \in Touching(n) \ {c}
      BY <1>2 DEF Touching
    <3>2. ~(proxy[r] # "" /\ (IsCreate(r) => pc[r] \in {"unlink", "unconf", "rmroot", "failed", "crashed"}))
      BY <3>1 DEF Harmed
    <3>3. QED
      BY <3>2 DEF RemoveLink, RemoveConf, RemoveRoot, Typed, Labels, ReadAfter
  <2>2. n \in webRoot => n \in webRoot'
    BY <2>1 DEF Step, Typed, TypeOK, host, Goto, Misled, Unchecked,
      CreateBegin, OpenFails, MakeRoot, ReadProxy, WriteVhost, EnableVhost, InsertRow,
      DeleteBegin, RemoveLink, RemoveConf, RemoveRoot, DeleteRow, MayStart
  <2>3. (<<n, p>> \in conf => <<n, p>> \in conf') /\ (<<n, p>> \in link => <<n, p>> \in link')
    BY <2>1 DEF Step, Typed, TypeOK, host, Goto, Misled, Unchecked,
      CreateBegin, OpenFails, MakeRoot, ReadProxy, WriteVhost, EnableVhost, InsertRow,
      DeleteBegin, RemoveLink, RemoveConf, RemoveRoot, DeleteRow, MayStart
  <2>4. row'[n] = c => row[n] = c
    BY <2>1, RowAssumption DEF Step, Typed, TypeOK, host, Goto, Misled, Unchecked,
      CreateBegin, OpenFails, MakeRoot, ReadProxy, WriteVhost, EnableVhost, InsertRow,
      DeleteBegin, RemoveLink, RemoveConf, RemoveRoot, DeleteRow, MayStart
  <2>5. QED
    BY <2>2, <2>3, <2>4
<1>3. QED
  BY <1>1, <1>2

\* A Create that nobody harmed finds what it made: MadeUnlessHarmed is kept by
\* every step.
LEMMA MadeStep == ASSUME Typed, RowOwner, MadeUnlessHarmed, [Next]_vars PROVE MadeUnlessHarmed'
<1>1. ASSUME NEW r \in Requests, Step(r) PROVE MadeUnlessHarmed'
  <2> SUFFICES ASSUME NEW c \in Requests, IsCreate(c)', c \notin blind',
                      ~Harmed(Name(c), c)'
               PROVE  /\ Made(c, {"proxy", "write", "enable", "insert"})' => Name(c)' \in webRoot'
                      /\ Made(c, {"enable", "insert"})' => Vhost(c)' \in conf'
                      /\ Made(c, {"insert"})' => Vhost(c)' \in link'
    BY DEF MadeUnlessHarmed
  <2>0. /\ job' = job /\ c \notin blind /\ IsCreate(c)
        /\ Name(c) \in Names /\ Name(c)' = Name(c)
    <3>1. job' = job /\ c \notin blind
      BY <1>1, StepFrame
    <3>2. QED
      BY <3>1, NameType DEF Typed, IsCreate, Name
  <2>1. ~Harmed(Name(c), c)
    <3>1. ~Harmed(Name(c), c)' => \A n \in Names : n = Name(c) => ~Harmed(n, c)'
      BY <2>0 DEF Harmed, Touching, Name
    <3>2. QED
      BY <1>1, <2>0, <3>1, UnharmedBefore
  <2>2. /\ Made(c, {"proxy", "write", "enable", "insert"}) => Name(c) \in webRoot
        /\ Made(c, {"enable", "insert"}) => Vhost(c) \in conf
        /\ Made(c, {"insert"}) => Vhost(c) \in link
    BY <2>0, <2>1 DEF MadeUnlessHarmed
  <2>3. CASE r # c
    <3>1. pc'[c] = pc[c] /\ proxy'[c] = proxy[c]
      BY <1>1, <2>3, StepFrame, ZenonT(60)
    <3>2. /\ Name(c) \in webRoot => Name(c) \in webRoot'
          /\ Vhost(c) \in conf => Vhost(c) \in conf'
          /\ Vhost(c) \in link => Vhost(c) \in link'
          /\ row'[Name(c)] = c => row[Name(c)] = c
      BY <1>1, <2>0, <2>1, <2>3, NoHarm DEF Vhost
    <3>3. QED
      BY <2>0, <2>2, <3>1, <3>2 DEF Made, Vhost
  <2>4. CASE r = c
    <3> USE DEF Made, Goto, Misled, host, Typed, TypeOK
    <3>1. pc'[c] = "ok" => InsertRow(c)
      BY <1>1, <2>0, <2>4 DEF Step, CreateBegin, OpenFails, MakeRoot, ReadProxy, WriteVhost,
        EnableVhost, DeleteBegin, RemoveLink, RemoveConf, RemoveRoot, DeleteRow, Labels
    <3>2. CASE MakeRoot(c)
      BY <2>0, <3>2 DEF MakeRoot
    <3>3. CASE ReadProxy(c)
      BY <2>0, <2>2, <3>3 DEF ReadProxy
    <3>4. CASE WriteVhost(c)
      BY <2>0, <2>2, <3>4 DEF WriteVhost, Vhost
    <3>5. CASE EnableVhost(c)
      BY <2>0, <2>2, <3>5 DEF EnableVhost, Vhost
    <3>6. CASE InsertRow(c)
      BY <2>0, <2>2, <3>6 DEF InsertRow, Vhost
    <3>7. CASE CreateBegin(c) \/ OpenFails(c) \/ DeleteBegin(c) \/ RemoveLink(c)
               \/ RemoveConf(c) \/ RemoveRoot(c) \/ DeleteRow(c)
      <4>1. pc'[c] \in {"mkdir", "failed", "unconf", "rmroot", "delrow"} \/ pc'[c] = "ok"
        BY <2>0, <3>7 DEF CreateBegin, OpenFails, DeleteBegin, RemoveLink, RemoveConf,
          RemoveRoot, DeleteRow
      <4>2. pc'[c] # "ok"
        BY <3>1, <3>7 DEF InsertRow, CreateBegin, OpenFails, DeleteBegin, RemoveLink,
          RemoveConf, RemoveRoot, DeleteRow, MayStart
      <4>3. QED
        BY <4>1, <4>2
    <3>8. QED
      BY <1>1, <2>4, <3>2, <3>3, <3>4, <3>5, <3>6, <3>7 DEF Step
  <2>5. QED
    BY <2>3, <2>4
<1>2. CASE Crash \/ (\E v \in Settings : SetProxyType(v)) \/ UNCHANGED vars
  <2> SUFFICES ASSUME NEW c \in Requests, IsCreate(c)', c \notin blind',
                      ~Harmed(Name(c), c)'
               PROVE  /\ Made(c, {"proxy", "write", "enable", "insert"})' => Name(c)' \in webRoot'
                      /\ Made(c, {"enable", "insert"})' => Vhost(c)' \in conf'
                      /\ Made(c, {"insert"})' => Vhost(c)' \in link'
    BY DEF MadeUnlessHarmed
  <2>1. UNCHANGED <<row, webRoot, conf, link, job, target, proxy, blind>>
    BY <1>2 DEF Crash, SetProxyType, host, vars
  <2>2. \A q \in Requests : pc'[q] = pc[q] \/ (pc[q] \in InFlight /\ pc'[q] = "crashed")
    BY <1>2 DEF Crash, SetProxyType, vars
  <2>3. ~Harmed(Name(c), c)
    BY <2>1, <2>2 DEF Harmed, Touching, Name, IsCreate
  <2>4. ASSUME NEW ls, "crashed" \notin ls, Made(c, ls)' PROVE Made(c, ls)
    BY <2>1, <2>2, <2>4 DEF Made, Name
  <2>5. QED
    BY <2>1, <2>3, <2>4 DEF MadeUnlessHarmed, IsCreate, Name, Vhost
<1>3. QED
  BY <1>1, <1>2 DEF Next, Quiet

-----------------------------------------------------------------------------
(* The theorems.                                                           *)

\* At the start there is nothing to account for.
LEMMA AccountingInit == Init => Accounting
<1> SUFFICES ASSUME Init PROVE Accounting
  OBVIOUS
<1>1. Labels /\ RowOwner
  BY TypedInit DEF Init, Typed, RowOwner
<1>2. VhostsRead /\ HeldOrOwned
  BY DEF Init, VhostsRead, HeldOrOwned, Served
<1>3. MadeUnlessHarmed
  BY DEF Init, MadeUnlessHarmed, Made
<1>4. QED
  BY <1>1, <1>2, <1>3 DEF Accounting

\* The conjuncts of Accounting are kept together, each by its own lemma.
LEMMA AccountingStep == ASSUME TypeOK, Accounting, [Next]_vars
                        PROVE TypeOK' /\ Accounting'
<1>1. Typed /\ RowOwner /\ VhostsRead /\ HeldOrOwned /\ MadeUnlessHarmed
  BY DEF Typed, Accounting
<1>2. Typed'
  BY <1>1, TypedStep
<1>3. RowOwner' /\ VhostsRead'
  BY <1>1, RowOwnerStep, VhostsReadStep
<1>4. HeldOrOwned' /\ MadeUnlessHarmed'
  BY <1>1, HeldOrOwnedStep, MadeStep
<1>5. QED
  BY <1>2, <1>3, <1>4 DEF Typed, Accounting

\* Every trace of a name on the host is accounted for at every moment: it
\* belongs to a row, or to a request that is still at work on it.
THEOREM AccountingHolds == Spec => []Accounting
<1>1. Init => TypeOK /\ Accounting
  BY AccountingInit, TypedInit DEF Typed
<1>2. TypeOK /\ Accounting /\ [Next]_vars => (TypeOK /\ Accounting)'
  BY AccountingStep
<1>3. QED
  BY <1>1, <1>2, PTL DEF Spec

\* No interleaving of Creates and Deletes leaves anything of a name without a
\* row on the host, once its requests are answered.
THEOREM NoOrphansHolds == Spec => []NoOrphans
<1>1. Accounting => NoOrphans
  <2> SUFFICES ASSUME Accounting, NEW n \in Names, Trace(n), row[n] = NoRow,
                      ~Disturbed(n), ~Mixed(n)
               PROVE  \E r \in Touching(n) : pc[r] \in InFlight
    BY DEF NoOrphans
  <2>1. HeldAt(n, RootHeld) \/ HeldAt(n, ConfHeld) \/ HeldAt(n, LinkHeld)
    BY DEF Accounting, HeldOrOwned, DoomedAt, Trace
  <2>2. QED
    BY <2>1 DEF HeldAt, RootHeld, ConfHeld, LinkHeld, InFlight, InCreate
<1>2. QED
  BY <1>1, AccountingHolds, PTL

\* A row comes with its web root and virtual host as long as no rival request
\* for its name has removed anything.
THEOREM ProvisionedHolds == Spec => []ProvisionedUnlessHarmed
<1>1. TypeOK /\ Accounting => ProvisionedUnlessHarmed
  <2> SUFFICES ASSUME TypeOK, Accounting, NEW n \in Names, row[n] # NoRow,
                      row[n] \notin blind, ~Harmed(n, row[n])
               PROVE  n \in webRoot /\ <<n, proxy[row[n]]>> \in conf \cap link
    BY DEF ProvisionedUnlessHarmed
  <2>1. PICK c \in Requests : c = row[n]
    BY DEF TypeOK
  <2>2. IsCreate(c) /\ Name(c) = n /\ pc[c] = "ok"
    BY <2>1 DEF Accounting, RowOwner, Inserted
  <2>3. QED
    BY <2>1, <2>2 DEF Accounting, MadeUnlessHarmed, Made, Vhost
<1>2. QED
  BY <1>1, TypeCorrect, AccountingHolds, PTL

\* A row goes only when a Delete asked for exactly this row.
THEOREM OnlyItsDelete == Spec => OnlyItsDeleteRemovesRow
<1>1. ASSUME Typed, Accounting, Next, NEW n \in Names, row[n] # NoRow, row'[n] # row[n]
      PROVE  \E d \in Touching(n) : target[d] = row[n] /\ pc[d] = "delrow" /\ pc'[d] = "ok"
  <2>1. PICK r \in Requests : DeleteRow(r)
    BY <1>1 DEF Next, Step, Typed, TypeOK, host, vars, Crash, SetProxyType, Quiet, CreateBegin,
      OpenFails, MakeRoot, ReadProxy, WriteVhost, EnableVhost, InsertRow, DeleteBegin,
      RemoveLink, RemoveConf, RemoveRoot
  <2>2. Name(r) = n /\ target[r] = row[n] /\ pc[r] = "delrow" /\ pc'[r] = "ok"
    BY <1>1, <2>1 DEF DeleteRow, Goto, Typed, TypeOK
  <2>3. QED
    BY <2>2 DEF Touching
<1>2. Typed /\ Accounting /\ [Next]_vars => [\A n \in Names : RemovedByItsDelete(n)]_vars
  BY <1>1 DEF RemovedByItsDelete
<1>3. QED
  BY <1>2, TypedAlways, AccountingHolds, PTL DEF Spec, OnlyItsDeleteRemovesRow

-----------------------------------------------------------------------------
(* The promise, one request per name at a time.                            *)

\* Clients wait, proxy.type stays as it is, and the host means what it reports:
\* what the run of KeepsPromise chooses for these constants.
Orderly == Serial /\ ~Switching /\ Faults \subseteq {"refused"}

\* Then one request at a time works on a name, all read the same proxy type, and
\* a name has exactly what the label of that request says.
OneAtATime ==
  \A q, r \in Requests : Name(q) = Name(r) /\ pc[q] \in InFlight /\ pc[r] \in InFlight => q = r

OneProxy ==
  /\ \A r \in Requests : proxy[r] \in {"", ProxyType}
  /\ \A n \in Names, p \in Proxies : <<n, p>> \in conf \cup link => p = ProxyType

Has(n, root, file, enabled) ==
  /\ n \in webRoot <=> root
  /\ <<n, ProxyType>> \in conf <=> file
  /\ <<n, ProxyType>> \in link <=> enabled

CreateStage(r, n) ==
  /\ row[n] = NoRow
  /\ Has(n, pc[r] # "mkdir", pc[r] \in ConfHeld, pc[r] \in LinkHeld)

DeleteStage(r, n) ==
  /\ row[n] # NoRow /\ target[r] = row[n]
  /\ Has(n, pc[r] \notin RootGone, pc[r] \notin ConfGone, pc[r] \notin LinkGone)

Staged ==
  \A r \in Requests : pc[r] \in InFlight =>
    IF IsCreate(r) THEN CreateStage(r, Name(r)) ELSE DeleteStage(r, Name(r))

\* Between requests a name has all or nothing.
AllOrNothing ==
  \A n \in Names : (\A r \in Touching(n) : pc[r] \notin InFlight) =>
    Has(n, row[n] # NoRow, row[n] # NoRow, row[n] # NoRow)

Orderliness == OneAtATime /\ OneProxy /\ Staged /\ AllOrNothing

\* Then there are only steps of requests.
LEMMA OnlySteps ==
  ASSUME Orderly, [Next]_vars
  PROVE  (\E r \in Requests : Step(r)) \/ UNCHANGED vars
BY DEF Orderly, Next, Crash, SetProxyType, Quiet

\* A request that begins finds no other at work on its name.
LEMMA Begins ==
  ASSUME Orderly, Typed, NEW r \in Requests, Step(r), pc[r] \notin InFlight
  PROVE  \A q \in Requests : Name(q) = Name(r) => pc[q] \notin InFlight
<1>1. MayStart(r)
  BY DEF Step, CreateBegin, DeleteBegin, OpenFails, MakeRoot, ReadProxy, WriteVhost, EnableVhost,
     InsertRow, RemoveLink, RemoveConf, RemoveRoot, DeleteRow, InFlight, InCreate
<1>2. QED
  BY <1>1 DEF MayStart, Orderly, Touching

LEMMA OneAtATimeStep ==
  ASSUME Orderly, Typed, OneAtATime, NEW r \in Requests, Step(r)
  PROVE  OneAtATime'
<1>1. job' = job /\ \A q \in Requests \ {r} : pc'[q] = pc[q]
  BY StepFrame
<1>2. SUFFICES ASSUME NEW p \in Requests, NEW q \in Requests, Name(p) = Name(q),
                      pc'[p] \in InFlight, pc'[q] \in InFlight, p # q
               PROVE  FALSE
  BY <1>1 DEF OneAtATime, Name
<1>3. ASSUME NEW o \in Requests, o # r, Name(o) = Name(r), pc'[o] \in InFlight PROVE FALSE
  <2>1. pc[o] \in InFlight
    BY <1>1, <1>3
  <2>2. pc[r] \in InFlight
    BY <1>3, <2>1, Begins
  <2>3. QED
    BY <1>3, <2>1, <2>2 DEF OneAtATime
<1>4. QED
  BY <1>1, <1>2, <1>3 DEF OneAtATime

\* Nobody reads another proxy type, or leaves a virtual host of another.
LEMMA OneProxyStep ==
  ASSUME Orderly, Typed, OneProxy, NEW r \in Requests, Step(r)
  PROVE  OneProxy' /\ setting' = setting
<1>1. setting' = setting
  BY DEF Step, CreateBegin, DeleteBegin, OpenFails, MakeRoot, ReadProxy, WriteVhost, EnableVhost,
     InsertRow, RemoveLink, RemoveConf, RemoveRoot, DeleteRow
<1>2. ProxyType' = ProxyType
  BY <1>1 DEF ProxyType
<1>3. proxy' = proxy \/ proxy' = [proxy EXCEPT ![r] = ProxyType]
  BY DEF Orderly, Step, CreateBegin, DeleteBegin, OpenFails, MakeRoot, ReadProxy, WriteVhost, EnableVhost,
     InsertRow, RemoveLink, RemoveConf, RemoveRoot, DeleteRow
<1>4. \A q \in Requests : proxy'[q] \in {"", ProxyType}
  BY <1>3 DEF OneProxy, Typed, TypeOK
<1>5. ASSUME NEW n \in Names, NEW p \in Proxies, <<n, p>> \in conf' \cup link' PROVE p = ProxyType
  <2>1. CASE <<n, p>> \in conf \cup link
    BY <2>1 DEF OneProxy
  <2>2. CASE (WriteVhost(r) \/ EnableVhost(r)) /\ p = proxy[r]
    BY <1>5, <2>2 DEF OneProxy, Proxies
  <2>3. QED
    BY <1>5, <2>1, <2>2, NewVhost
<1>6. QED
  BY <1>1, <1>2, <1>4, <1>5 DEF OneProxy

\* The name that a request works on: exactly what its next label says, or all or
\* nothing when it has ended.
LEMMA ServeStep ==
  ASSUME Orderly, Typed, Orderliness, NEW r \in Requests, Step(r), NEW n \in Names, n = Name(r)
  PROVE  /\ pc'[r] \in InFlight => IF IsCreate(r) THEN CreateStage(r, n)' ELSE DeleteStage(r, n)'
         /\ pc'[r] \notin InFlight =>
              /\ n \in webRoot' <=> row'[n] # NoRow
              /\ <<n, ProxyType>> \in conf' <=> row'[n] # NoRow
              /\ <<n, ProxyType>> \in link' <=> row'[n] # NoRow
<1> DEFINE Goal ==
      /\ pc'[r] \in InFlight => IF IsCreate(r) THEN CreateStage(r, n)' ELSE DeleteStage(r, n)'
      /\ pc'[r] \notin InFlight =>
           /\ n \in webRoot' <=> row'[n] # NoRow
           /\ <<n, ProxyType>> \in conf' <=> row'[n] # NoRow
           /\ <<n, ProxyType>> \in link' <=> row'[n] # NoRow
<1>1. ProxyType' = ProxyType /\ job' = job
  BY OneProxyStep, StepFrame DEF ProxyType, Orderliness
<1>2. /\ pc \in [Requests -> {"idle"} \cup InFlight \cup Ended]
      /\ row \in [Names -> Requests \cup {NoRow}]
      /\ target \in [Requests -> Requests \cup {NoRow}]
  BY DEF Typed, TypeOK
<1>3. pc[r] \in InFlight => IF IsCreate(r) THEN CreateStage(r, n) ELSE DeleteStage(r, n)
  BY DEF Orderliness, Staged
<1>4. pc[r] \notin InFlight => Has(n, row[n] # NoRow, row[n] # NoRow, row[n] # NoRow)
  BY Begins DEF Orderliness, AllOrNothing, Touching
<1>5. pc[r] \in ReadAfter => Vhost(r) = <<n, ProxyType>>
  BY DEF Orderliness, OneProxy, Typed, Labels, Vhost
<1> USE <1>1, <1>2, RowAssumption DEF CreateStage, DeleteStage, Has, Goto, InFlight, InCreate, RootGone, ConfGone,
        LinkGone, ConfHeld, LinkHeld, IsCreate, Name, host, Orderly
<1>6. CASE CreateBegin(r)
  BY <1>4, <1>6 DEF CreateBegin, MayStart
<1>7. CASE OpenFails(r)
  BY <1>3, <1>7 DEF OpenFails
<1>8. CASE MakeRoot(r)
  BY <1>3, <1>8 DEF MakeRoot, Typed, Labels
<1>9. CASE ReadProxy(r)
  BY <1>3, <1>9 DEF ReadProxy
<1>10. CASE WriteVhost(r)
  BY <1>3, <1>5, <1>10 DEF WriteVhost, ReadAfter, Typed, Labels
<1>11. CASE EnableVhost(r)
  BY <1>3, <1>5, <1>11 DEF EnableVhost, ReadAfter, Typed, Labels
<1>12. CASE InsertRow(r)
  BY <1>3, <1>5, <1>12 DEF InsertRow, ReadAfter, Typed, Labels
<1>13. CASE DeleteBegin(r)
  BY <1>4, <1>13 DEF DeleteBegin, MayStart
<1>14. CASE RemoveLink(r)
  BY <1>3, <1>5, <1>14 DEF RemoveLink, Unchecked, ReadAfter
<1>15. CASE RemoveConf(r)
  BY <1>3, <1>5, <1>15 DEF RemoveConf, Unchecked, ReadAfter
<1>16. CASE RemoveRoot(r)
  BY <1>3, <1>5, <1>16 DEF RemoveRoot, Unchecked, ReadAfter
<1>17. CASE DeleteRow(r)
  BY <1>3, <1>5, <1>17 DEF DeleteRow, ReadAfter, Typed, Labels
<1>18. QED
  BY <1>6, <1>7, <1>8, <1>9, <1>10, <1>11, <1>12, <1>13, <1>14, <1>15, <1>16, <1>17 DEF Step

LEMMA OrderlinessStep == ASSUME Orderly, Typed, Orderliness, [Next]_vars PROVE Orderliness'
<1>1. CASE UNCHANGED vars
  BY <1>1 DEF vars, Orderliness, OneAtATime, OneProxy, ProxyType, Staged, AllOrNothing, CreateStage,
     DeleteStage, Has, Touching, IsCreate, Name
<1>2. ASSUME NEW r \in Requests, Step(r) PROVE Orderliness'
  <2>1. OneAtATime' /\ OneProxy' /\ setting' = setting /\ ProxyType' = ProxyType
    BY <1>2, OneAtATimeStep, OneProxyStep DEF Orderliness, ProxyType
  <2>2. /\ job' = job
        /\ \A q \in Requests \ {r} : pc'[q] = pc[q] /\ target'[q] = target[q]
        /\ \A m \in Names \ {Name(r)} :
             /\ row'[m] = row[m]
             /\ m \in webRoot' <=> m \in webRoot
             /\ \A p : /\ <<m, p>> \in conf' <=> <<m, p>> \in conf
                       /\ <<m, p>> \in link' <=> <<m, p>> \in link
    BY <1>2, StepFrame
  <2>3. \A q \in Requests : Name(q)' = Name(q) /\ IsCreate(q)' = IsCreate(q) /\ Name(q) \in Names
    BY <2>2, NameType DEF Name, IsCreate, Typed
  <2>4. PICK n \in Names : n = Name(r)
    BY <2>3
  <2>5. ASSUME NEW q \in Requests, pc'[q] \in InFlight
        PROVE  IF IsCreate(q) THEN CreateStage(q, Name(q))' ELSE DeleteStage(q, Name(q))'
    <3>1. CASE q = r
      BY <1>2, <2>3, <2>4, <2>5, <3>1, ServeStep DEF CreateStage, DeleteStage, Has
    <3>2. CASE q # r
      <4>1. pc[q] \in InFlight /\ pc'[q] = pc[q] /\ target'[q] = target[q]
        BY <2>2, <2>5, <3>2
      <4>2. Name(q) # Name(r)
        <5>1. Name(q) = Name(r) => pc[r] \in InFlight
          BY <1>2, <4>1, Begins
        <5>2. QED
          BY <3>2, <4>1, <5>1 DEF Orderliness, OneAtATime
      <4>3. IF IsCreate(q) THEN CreateStage(q, Name(q)) ELSE DeleteStage(q, Name(q))
        BY <4>1 DEF Orderliness, Staged
      <4>4. Name(q) \in Names \ {Name(r)}
        BY <2>3, <4>2
      <4>5. QED
        BY <2>1, <2>2, <2>3, <4>1, <4>3, <4>4 DEF CreateStage, DeleteStage, Has
    <3>3. QED
      BY <3>1, <3>2
  <2>6. ASSUME NEW m \in Names, \A q \in Touching(m)' : pc'[q] \notin InFlight
        PROVE  /\ m \in webRoot' <=> row'[m] # NoRow
               /\ <<m, ProxyType>> \in conf' <=> row'[m] # NoRow
               /\ <<m, ProxyType>> \in link' <=> row'[m] # NoRow
    <3>1. CASE m = n
      <4>1. pc'[r] \notin InFlight
        BY <2>3, <2>4, <2>6, <3>1 DEF Touching
      <4>2. QED
        BY <1>2, <2>4, <3>1, <4>1, ServeStep
    <3>2. CASE m # n
      <4>1. \A q \in Touching(m) : pc[q] \notin InFlight
        BY <2>2, <2>3, <2>4, <2>6, <3>2 DEF Touching
      <4>2. QED
        BY <2>2, <2>4, <3>2, <4>1 DEF Orderliness, AllOrNothing, Has
    <3>3. QED
      BY <3>1, <3>2
  <2>7. Staged'
    BY <2>3, <2>5 DEF Staged
  <2>8. AllOrNothing'
    BY <2>1, <2>6 DEF AllOrNothing, Has
  <2>9. QED
    BY <2>1, <2>7, <2>8 DEF Orderliness
<1>3. QED
  BY <1>1, <1>2, OnlySteps

\* What a client sees, label by label: never a broken site.
Seen(r) ==
  IF IsCreate(r) THEN IF pc[r] = "mkdir" THEN "absent" ELSE "building"
                 ELSE IF pc[r] = "proxy" THEN "live" ELSE "dismantling"
SitesKnown ==
  \A n \in Names :
    /\ \A r \in Touching(n) : pc[r] \in InFlight => Sites[n] = Seen(r)
    /\ (\A r \in Touching(n) : pc[r] \notin InFlight) => Sites[n] = IF row[n] = NoRow THEN "absent" ELSE "live"

LEMMA Known == Typed /\ Orderliness => SitesKnown
<1> SUFFICES ASSUME Typed, Orderliness, NEW n \in Names
             PROVE  /\ \A r \in Touching(n) : pc[r] \in InFlight => Site(n) = Seen(r)
                    /\ (\A r \in Touching(n) : pc[r] \notin InFlight) =>
                         Site(n) = IF row[n] = NoRow THEN "absent" ELSE "live"
  BY DEF SitesKnown, Sites
<1> DEFINE by(rs) == \E r \in rs : Name(r) = n /\ pc[r] \in InFlight /\ pc[r] # "mkdir"
           creates == {r \in Requests : IsCreate(r)}
           deletes == {r \in Requests : ~IsCreate(r) /\ pc[r] # "proxy"}
<1>1. ProxyType \in Proxies
  BY DEF ProxyType, Proxies
<1>2. Has(n, FALSE, FALSE, FALSE) => ~Trace(n)
  BY DEF Has, Trace, Served, Orderliness, OneProxy
<1>3. Has(n, TRUE, TRUE, TRUE) => n \in webRoot /\ Served(conf \cap link, n) # {}
  BY <1>1 DEF Has, Served
<1>4. ASSUME NEW r \in Touching(n), pc[r] \in InFlight PROVE Site(n) = Seen(r)
  <2>1. r \in Requests /\ Name(r) = n
    BY DEF Touching
  <2>2. \A q \in Requests : Name(q) = n /\ pc[q] \in InFlight => q = r
    BY <1>4, <2>1 DEF Orderliness, OneAtATime
  <2>3. IF IsCreate(r) THEN CreateStage(r, n) ELSE DeleteStage(r, n)
    BY <1>4, <2>1 DEF Orderliness, Staged
  <2>4. by(creates) <=> IsCreate(r) /\ pc[r] # "mkdir"
    BY <1>4, <2>1, <2>2
  <2>5. by(deletes) <=> ~IsCreate(r) /\ pc[r] # "proxy"
    <3>1. ~IsCreate(r) => pc[r] # "mkdir"
      BY <2>1 DEF Typed, Labels, InCreate
    <3>2. QED
      BY <1>4, <2>1, <2>2, <3>1
  <2>6. CASE IsCreate(r) /\ pc[r] = "mkdir"
    <3>1. row[n] = NoRow /\ Has(n, FALSE, FALSE, FALSE)
      BY <2>3, <2>6 DEF CreateStage, ConfHeld, LinkHeld, Has
    <3>2. QED
      BY <1>2, <2>4, <2>5, <2>6, <3>1 DEF Site, Seen
  <2>7. CASE ~IsCreate(r) /\ pc[r] = "proxy"
    <3>1. row[n] # NoRow /\ Has(n, TRUE, TRUE, TRUE)
      BY <2>3, <2>7 DEF DeleteStage, RootGone, ConfGone, LinkGone, Has
    <3>2. QED
      BY <1>3, <2>4, <2>5, <2>7, <3>1 DEF Site, Seen
  <2>8. QED
    BY <2>4, <2>5, <2>6, <2>7 DEF Site, Seen
<1>5. ASSUME \A r \in Touching(n) : pc[r] \notin InFlight
      PROVE  Site(n) = IF row[n] = NoRow THEN "absent" ELSE "live"
  <2>1. ~by(creates) /\ ~by(deletes)
    BY <1>5 DEF Touching
  <2>2. Has(n, row[n] # NoRow, row[n] # NoRow, row[n] # NoRow)
    BY <1>5 DEF Orderliness, AllOrNothing
  <2>3. row[n] = NoRow => ~Trace(n)
    BY <1>2, <2>2 DEF Has
  <2>4. row[n] # NoRow => n \in webRoot /\ Served(conf \cap link, n) # {}
    BY <1>3, <2>2 DEF Has
  <2>5. QED
    BY <2>1, <2>3, <2>4 DEF Site
<1>6. QED
  BY <1>4, <1>5

\* Each step of a request moves the site of its name, or nothing.
LEMMA PromiseStep ==
  ASSUME Orderly, Typed, Orderliness, SitesKnown, SitesKnown', [Next]_vars
  PROVE  Promise!Next \/ UNCHANGED Sites
<1>1. CASE UNCHANGED vars
  BY <1>1 DEF vars, Sites, Site, Trace, Served, IsCreate, Name
<1>2. ASSUME NEW r \in Requests, Step(r) PROVE Promise!Next \/ UNCHANGED Sites
  <2>1. /\ job' = job
        /\ \A q \in Requests \ {r} : pc'[q] = pc[q]
        /\ \A m \in Names \ {Name(r)} : row'[m] = row[m]
    BY <1>2, StepFrame
  <2>2. PICK n \in Names : n = Name(r)
    BY NameType DEF Typed
  <2>3. \A q \in Requests : Name(q)' = Name(q) /\ IsCreate(q)' = IsCreate(q)
    BY <2>1 DEF Name, IsCreate
  <2>4. Sites = [m \in Names |-> Sites[m]] /\ Sites' = [m \in Names |-> Sites'[m]]
    BY DEF Sites
  <2>5. ASSUME NEW m \in Names, m # n PROVE Sites'[m] = Sites[m]
    <3>1. \A q \in Touching(m)' : q \in Touching(m) /\ q # r /\ q \in Requests
      BY <2>2, <2>3, <2>5 DEF Touching
    <3>2. \A q \in Touching(m) : q \in Touching(m)' /\ q # r /\ q \in Requests
      BY <2>2, <2>3, <2>5 DEF Touching
    <3>3. CASE \E q \in Touching(m) : pc[q] \in InFlight
      <4>1. PICK q \in Touching(m) : pc[q] \in InFlight
        BY <3>3
      <4>2. pc'[q] = pc[q] /\ q \in Touching(m)' /\ IsCreate(q)' = IsCreate(q)
        BY <2>1, <2>3, <3>2
      <4>3. Sites[m] = Seen(q)
        BY <4>1 DEF SitesKnown
      <4>4. Sites'[m] = Seen(q)'
        BY <4>1, <4>2 DEF SitesKnown
      <4>5. QED
        BY <4>2, <4>3, <4>4 DEF Seen
    <3>4. CASE \A q \in Touching(m) : pc[q] \notin InFlight
      <4>1. \A q \in Touching(m)' : pc'[q] \notin InFlight
        BY <2>1, <3>1, <3>4
      <4>2. row'[m] = row[m]
        BY <2>1, <2>2, <2>5
      <4>3. QED
        BY <3>4, <4>1, <4>2 DEF SitesKnown
    <3>5. QED
      BY <3>3, <3>4
  <2>6. Sites' = [Sites EXCEPT ![n] = Sites'[n]]
    BY <2>4, <2>5
  <2>7. r \in Touching(n) /\ r \in Touching(n)'
    BY <2>2, <2>3 DEF Touching
  <2>8. Sites[n] = IF pc[r] \in InFlight THEN Seen(r) ELSE IF row[n] = NoRow THEN "absent" ELSE "live"
    <3>1. CASE pc[r] \in InFlight
      BY <2>7, <3>1 DEF SitesKnown
    <3>2. CASE pc[r] \notin InFlight
      <4>1. \A q \in Touching(n) : pc[q] \notin InFlight
        BY <1>2, <2>2, <3>2, Begins DEF Touching
      <4>2. QED
        BY <3>2, <4>1 DEF SitesKnown
    <3>3. QED
      BY <3>1, <3>2
  <2>9. Sites'[n] = IF pc'[r] \in InFlight THEN Seen(r)' ELSE IF row'[n] = NoRow THEN "absent" ELSE "live"
    <3>1. CASE pc'[r] \in InFlight
      BY <2>7, <3>1 DEF SitesKnown
    <3>2. CASE pc'[r] \notin InFlight
      <4>1. ASSUME NEW q \in Touching(n)' PROVE pc'[q] \notin InFlight
        <5>1. q \in Requests /\ Name(q) = Name(r)
          BY <2>2, <2>3 DEF Touching
        <5>2. CASE q # r
          <6>1. pc[q] \in InFlight => pc[r] \in InFlight
            BY <1>2, <5>1, Begins
          <6>2. pc[q] \notin InFlight
            BY <5>1, <5>2, <6>1 DEF Orderliness, OneAtATime
          <6>3. QED
            BY <2>1, <5>1, <5>2, <6>2
        <5>3. QED
          BY <3>2, <5>2
      <4>2. QED
        BY <3>2, <4>1 DEF SitesKnown
    <3>3. QED
      BY <3>1, <3>2
  <2>10. pc[r] \in InFlight => IF IsCreate(r) THEN CreateStage(r, n) ELSE DeleteStage(r, n)
    BY <2>2 DEF Orderliness, Staged
  <2> DEFINE Moved(from, to) == Sites[n] = from /\ Sites'[n] = to
  <2>11. \/ Sites'[n] = Sites[n]
         \/ Moved("absent", "building") \/ Moved("building", "live") \/ Moved("building", "absent")
         \/ Moved("live", "dismantling") \/ Moved("dismantling", "absent")
    <3>1. /\ pc \in [Requests -> {"idle"} \cup InFlight \cup Ended]
          /\ row \in [Names -> Requests \cup {NoRow}]
      BY DEF Typed, TypeOK
    <3> USE <2>1, <2>2, <2>3, <2>8, <2>9, <2>10, <3>1 DEF Seen, Goto, InFlight, InCreate, Orderly, CreateStage,
            DeleteStage
    <3>2. CASE CreateBegin(r) \/ OpenFails(r) \/ DeleteBegin(r)
      <4>1. row'[n] = row[n]
        BY <3>2 DEF CreateBegin, OpenFails, DeleteBegin
      <4>2. CASE CreateBegin(r)
        BY <4>1, <4>2 DEF CreateBegin, MayStart
      <4>3. CASE OpenFails(r)
        BY <4>1, <4>3 DEF OpenFails, Typed, Labels
      <4>4. CASE DeleteBegin(r)
        BY <4>1, <4>4 DEF DeleteBegin, MayStart
      <4>5. QED
        BY <3>2, <4>2, <4>3, <4>4
    <3>3. CASE MakeRoot(r) \/ ReadProxy(r)
      BY <3>3 DEF MakeRoot, ReadProxy, Typed, Labels
    <3>4. CASE WriteVhost(r) \/ EnableVhost(r)
      BY <3>4 DEF WriteVhost, EnableVhost, Typed, Labels
    <3>5. CASE InsertRow(r)
      BY <3>5, RowAssumption DEF InsertRow, Typed, Labels
    <3>6. CASE RemoveLink(r) \/ RemoveConf(r) \/ RemoveRoot(r)
      BY <3>6 DEF RemoveLink, RemoveConf, RemoveRoot
    <3>7. CASE DeleteRow(r)
      BY <3>7 DEF DeleteRow, Typed, Labels
    <3>8. QED
      BY <1>2, <3>2, <3>3, <3>4, <3>5, <3>6, <3>7 DEF Step
  <2>12. CASE Sites'[n] = Sites[n]
    BY <2>4, <2>5, <2>12
  <2>13. CASE Sites'[n] # Sites[n]
    BY <2>6, <2>11, <2>13
       DEF Promise!Next, Promise!Build, Promise!Dismantle, Promise!Finish, Promise!Built, Promise!BuildFailed,
       Promise!Dismantled, Promise!Move
  <2>14. QED
    BY <2>12, <2>13
<1>3. QED
  BY <1>1, <1>2, OnlySteps

LEMMA OrderlinessInit == Init => Orderliness /\ Promise!Init
<1> SUFFICES ASSUME Init PROVE Orderliness /\ Promise!Init
  OBVIOUS
<1>1. Orderliness
  BY DEF Init, Orderliness, OneAtATime, OneProxy, Staged, AllOrNothing, Has, InFlight, InCreate, Touching
<1>2. \A n \in Names : Site(n) = "absent"
  <2>1. \A r \in Requests : pc[r] \notin InFlight
    BY DEF Init, InFlight, InCreate
  <2>2. \A n \in Names : row[n] = NoRow /\ ~Trace(n)
    BY DEF Init, Trace, Served
  <2>3. QED
    BY <2>1, <2>2 DEF Site
<1>3. QED
  BY <1>1, <1>2 DEF Promise!Init, Sites

\* Where clients wait for one another, proxy.type stays as it is and the host
\* means what it reports, Create and Delete implement the safety of
\* DomainPromise, whichever checked commands are refused, for any number of names
\* and requests.
THEOREM PromiseKept ==
  ASSUME Orderly
  PROVE  Spec => Promise!Safety
<1>1. Init => Typed /\ Orderliness /\ Promise!Init
  BY TypedInit, OrderlinessInit
<1>2. Typed /\ Orderliness /\ [Next]_vars => Typed' /\ Orderliness'
  BY TypedStep, OrderlinessStep
<1>3. Typed /\ Orderliness => SitesKnown
  BY Known
<1>4. Orderly
  OBVIOUS
<1>5. Typed /\ Orderliness /\ SitesKnown /\ SitesKnown' /\ [Next]_vars => [Promise!Next]_Sites
  BY <1>4, PromiseStep
<1>6. QED
  BY <1>1, <1>2, <1>3, <1>5, PTL DEF Spec, Promise!Safety
=============================================================================
