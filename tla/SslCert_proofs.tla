--------------------------- MODULE SslCert_proofs ---------------------------
(***************************************************************************)
(* For every lifetime, threshold and number of requests: the type          *)
(* invariant and every property of SslCert.                                *)
(***************************************************************************)
EXTENDS SslCert, TLAPS

\* A date is held only between reading and storing it, and the certificate it
\* was read from can only have been replaced by a longer one since.
Dates ==
  /\ NeverOverpromises
  /\ \A p \in Slots \cup {RenewDue} :
       /\ date[p] <= disk
       /\ pc[p] # "store" => date[p] = Absent

\* Whoever is about to write a vhost has seen a certificate, and an active row
\* without a path was made so by a renewal.
Active == {"valid", "expiring_soon"}
Seen ==
  /\ ServesACert
  /\ row # NoRow /\ row.status \in Active => disk # Absent /\ (row.path \/ adopted)
  /\ \A s \in Slots :
       /\ pc[s] \in {"read", "store", "vhost", "flag"} => disk # Absent
       /\ op[s] = "provision" /\ pc[s] # "insert" => draft[s].named
       /\ pc[s] = "vhost" => draft[s].named \/ adopted

\* RenewDue refreshes a row that has a path; no other row can take its place.
Listed ==
  /\ row # NoRow /\ row.path => disk # Absent
  /\ pc[RenewDue] \in {"read", "store"} /\ row # NoRow => row.path
  /\ pc[RenewDue] \in {"read", "store"} /\ row = NoRow => domain = "gone"

\* Every night of the last Soon has been missed, but for tonight's.
Nights ==
  /\ disk \in 0 .. Soon => misses >= Soon - disk
  /\ disk \in 1 .. Soon /\ pc[RenewDue] # "certbot" => misses >= Soon - disk + 1

\* A deleted domain has no row.
Rowless == domain = "gone" => row = NoRow

\* Only a provisioning inserts, and only a toggle stores the flag, after the vhost.
Kinds ==
  \A s \in Slots :
    /\ pc[s] = "insert" => op[s] = "provision"
    /\ pc[s] = "vhost" => op[s] \in {"provision", "toggle"}
    /\ pc[s] = "flag" => op[s] = "toggle"
    /\ op[s] = "toggle" => pc[s] \in {"vhost", "flag"}

Redirects(v) == v.kind = "redirect"

\* What VhostAgrees leaves open while somebody writes: one request, in a domain
\* that is there, whose vhost agrees with the row until it is rewritten, and will
\* agree again with what it has in hand.
Agreed ==
  ~muddled =>
    /\ \A s, t \in Writers : s = t
    /\ domain # "there" => Writers = {} /\ vhost = Gone
    /\ domain = "there" /\ row = NoRow =>
         ~Redirects(vhost) /\ \A s \in Writers : pc[s] = "insert"
    /\ domain = "there" /\ row # NoRow =>
         /\ (\A s \in Slots : pc[s] # "flag") => (row.redirect <=> Redirects(vhost))
         /\ \A s \in Writers :
              /\ pc[s] = "flag" => vhost = draft[s]
              /\ op[s] = "provision" /\ pc[s] # "insert" => (row.redirect <=> Redirects(draft[s]))

\* In a quiet night no request runs, and the date in hand is the certificate's.
Peace ==
  quiet =>
    /\ \A s \in Slots : pc[s] = "idle"
    /\ pc[RenewDue] = "store" => date[RenewDue] = disk

IInv ==
  /\ TypeOK /\ Dates /\ Seen /\ Listed /\ Nights
  /\ Rowless /\ Kinds /\ Agreed /\ Peace

-----------------------------------------------------------------------------

\* A domain without a row, with or without a certificate from an earlier one.
LEMMA InitHolds == Init => IInv
<1> SUFFICES ASSUME Init PROVE IInv
  OBVIOUS
<1> USE CertAssumption, ProcAssumption
    DEF CertAssumption, ProcAssumption, Init, Absent, Days, Procs, Jobs, RenewDue, CheckExpiry
<1>1. TypeOK
  <2>1. vhost \in Vhosts /\ \A s \in Slots : draft[s] \in Vhosts
    BY DEF Vhosts, Plain, Gone
  <2>2. draft \in [Slots -> Vhosts]
    BY <2>1
  <2>3. date \in [Slots \cup {RenewDue} -> Days]
    OBVIOUS
  <2>4. disk \in Days /\ misses \in 0 .. Soon
    OBVIOUS
  <2>5. QED
    BY <2>1, <2>2, <2>3, <2>4 DEF TypeOK
<1>2. Dates /\ Nights
  BY DEF Dates, NeverOverpromises, Nights
<1>3. Seen /\ Listed
  BY DEF Seen, ServesACert, IsSSL, Plain, Listed
<1>4. Rowless /\ Kinds /\ Peace
  BY DEF Rowless, Kinds, Peace
<1>5. Agreed
  BY DEF Agreed, Redirects, Writers, Running, Plain
<1>6. QED
  BY <1>1, <1>2, <1>3, <1>4, <1>5 DEF IInv

\* What computeStatus answers.
LEMMA StatusType == ASSUME NEW t \in Days
                    PROVE  /\ StatusOf(t) \in Statuses
                           /\ StatusOf(t) \in Active => t # Absent
BY CertAssumption DEF CertAssumption, StatusOf, Statuses, Active, Days, Absent

\* Every update of the row leaves a row of the table, or none.
LEMMA RowType ==
  ASSUME TypeOK
  PROVE  /\ row \in Rows \/ row = NoRow
         /\ row # NoRow =>
              /\ \A x \in Statuses : [row EXCEPT !.status = x] \in Rows
              /\ \A x \in Statuses, t \in Days :
                   /\ [row EXCEPT !.status = x, !.expires = t] \in Rows
                   /\ [row EXCEPT !.status = x, !.expires = t, !.path = TRUE] \in Rows
              /\ \A b \in BOOLEAN : [row EXCEPT !.redirect = b] \in Rows
              /\ [row EXCEPT !.expires = DayLater(@)] \in Rows
<1>1. row \in Rows \/ row = NoRow
  BY DEF TypeOK
<1>2. ASSUME row \in Rows, NEW x \in Statuses PROVE [row EXCEPT !.status = x] \in Rows
  BY <1>2 DEF Rows
<1>3. ASSUME row \in Rows, NEW x \in Statuses, NEW t \in Days
      PROVE  /\ [row EXCEPT !.status = x, !.expires = t] \in Rows
             /\ [row EXCEPT !.status = x, !.expires = t, !.path = TRUE] \in Rows
  BY <1>3 DEF Rows
<1>4. ASSUME row \in Rows, NEW b \in BOOLEAN PROVE [row EXCEPT !.redirect = b] \in Rows
  BY <1>4 DEF Rows
<1>5. ASSUME row \in Rows PROVE [row EXCEPT !.expires = DayLater(@)] \in Rows
  <2>1. row.expires \in Days
    BY <1>5 DEF Rows
  <2>2. DayLater(row.expires) \in Days
    BY <2>1, CertAssumption DEF CertAssumption, Days, Absent, DayLater
  <2>3. QED
    BY <1>5, <2>2 DEF Rows
<1>6. QED
  BY <1>1, <1>2, <1>3, <1>4, <1>5

\* The file that a request is to write has the form of one.
LEMMA DraftType == ASSUME NEW n \in BOOLEAN, NEW b \in BOOLEAN
                   PROVE  SSLVhost(n, b) \in Vhosts /\ SSLVhost(n, b).named = n
BY DEF SSLVhost, Vhosts

\* An update by id leaves a row of the table or none.
LEMMA UpdatedType == ASSUME TypeOK, NEW new, Updated(new), row # NoRow => new \in Rows
                     PROVE  /\ row' \in Rows \cup {NoRow}
                            /\ row' = NoRow => row = NoRow
BY RowAssumption DEF RowAssumption, Updated, TypeOK

\* ... in which only what was set has changed.
LEMMA Marked ==
  ASSUME TypeOK, NEW x, Updated([row EXCEPT !.status = x])
  PROVE  row' # NoRow =>
           /\ row # NoRow /\ row'.status = x
           /\ row'.expires = row.expires /\ row'.path = row.path
BY DEF Updated, TypeOK, Rows

LEMMA Flagged ==
  ASSUME TypeOK, NEW x, Updated([row EXCEPT !.redirect = x])
  PROVE  row' # NoRow =>
           /\ row # NoRow /\ row'.status = row.status
           /\ row'.expires = row.expires /\ row'.path = row.path
BY DEF Updated, TypeOK, Rows

LEMMA Dated ==
  ASSUME TypeOK, NEW x, NEW t, Updated([row EXCEPT !.status = x, !.expires = t])
  PROVE  row' # NoRow =>
           /\ row # NoRow /\ row'.status = x
           /\ row'.expires = t /\ row'.path = row.path
BY DEF Updated, TypeOK, Rows

LEMMA Issued ==
  ASSUME TypeOK, NEW x, NEW t, Updated([row EXCEPT !.status = x, !.expires = t, !.path = TRUE])
  PROVE  row' # NoRow =>
           /\ row # NoRow /\ row'.status = x
           /\ row'.expires = t /\ row'.path
BY DEF Updated, TypeOK, Rows

\* The row that Insert adds promises nothing.
LEMMA Inserted ==
  ASSUME NEW s, Insert(s), row' # row
  PROVE  row = NoRow /\ domain # "gone"
         /\ row'.status = "pending" /\ row'.expires = Absent /\ row'.path = FALSE
<1> DEFINE new == [status |-> "pending", expires |-> Absent, path |-> FALSE, redirect |-> FALSE]
<1>1. row = NoRow /\ domain # "gone" /\ row' = new
  BY Zenon DEF Insert
<1>2. new.status = "pending" /\ new.expires = Absent /\ new.path = FALSE
  OBVIOUS
<1>3. QED
  BY <1>1, <1>2, Zenon

\* One step per action of a request.
LEMMA RequestType == ASSUME TypeOK, NEW s \in Slots, Request(s) PROVE TypeOK'
<1> USE CertAssumption, ProcAssumption
    DEF CertAssumption, ProcAssumption, TypeOK, Procs, Jobs, host, locals, history,
        Goto, Return, Writes, MayStart
<1>a. Gone \in Vhosts /\ Absent \in Days /\ Life \in Days
  BY DEF Gone, Vhosts, Absent, Days
<1>b. row # NoRow => row \in Rows /\ row.redirect \in BOOLEAN /\ row.path \in BOOLEAN
  BY DEF Rows
<1>1. CASE Provision(s)
  <2>1. SSLVhost(TRUE, row # NoRow /\ row.redirect) \in Vhosts
    BY <1>b, DraftType
  <2>2. draft' \in [Slots -> Vhosts]
    <3> DEFINE v == SSLVhost(TRUE, row # NoRow /\ row.redirect)
    <3>1. draft' = [draft EXCEPT ![s] = v] \/ draft' = draft
      BY <1>1 DEF Provision
    <3>2. v \in Vhosts
      BY <2>1
    <3> HIDE DEF v
    <3>3. QED
      BY <3>1, <3>2
  <2>3. pc' = [pc EXCEPT ![s] = "insert"] \/ pc' = [pc EXCEPT ![s] = "certbot"]
    BY <1>1 DEF Provision
  <2>4. muddled' \in BOOLEAN
    BY <1>1, Zenon DEF Provision
  <2>5. op' = [op EXCEPT ![s] = "provision"] /\ quiet' = FALSE
        /\ UNCHANGED <<host, domain, row, date, warned, adopted, misses>>
    BY <1>1 DEF Provision
  <2>6. QED
    BY <2>2, <2>3, <2>4, <2>5
<1>2. CASE Insert(s)
  <2>1. SSLVhost(TRUE, FALSE) \in Vhosts
    BY DraftType
  <2>2. [status |-> "pending", expires |-> Absent, path |-> FALSE, redirect |-> FALSE] \in Rows
    BY <1>a DEF Rows, Statuses
  <2>3. row' \in Rows \cup {NoRow}
    BY <1>2, <2>2 DEF Insert
  <2>4. CASE Return(s)
    BY <1>2, <2>3, <2>4, <1>a DEF Insert
  <2>5. CASE /\ draft' = [draft EXCEPT ![s] = SSLVhost(TRUE, FALSE)]
             /\ Goto(s, "certbot")
             /\ UNCHANGED <<op, date>>
    <3>1. draft' \in [Slots -> Vhosts]
      BY <2>1, <2>5
    <3>2. QED
      BY <1>2, <2>3, <2>5, <3>1 DEF Insert
  <2>6. QED
    BY <1>2, <2>4, <2>5 DEF Insert
<1>3. CASE Issue(s) \/ ForceRenewal(s)
  <2>1. disk' \in Days
    BY <1>3, <1>a DEF Issue, ForceRenewal, Certbot
  <2>2. pc' = [pc EXCEPT ![s] = "read"] \/ pc' = [pc EXCEPT ![s] = "mark"]
    BY <1>3 DEF Issue, ForceRenewal, Certbot
  <2>3. QED
    BY <1>3, <2>1, <2>2 DEF Issue, ForceRenewal
<1>4. CASE Mark(s)
  <2>1. row' \in Rows \cup {NoRow}
    BY <1>4, RowType, UpdatedType DEF Mark, Statuses
  <2>2. QED
    BY <1>4, <1>a, <2>1 DEF Mark
<1>5. CASE ReadDates(s)
  <2>1. date' \in [Slots \cup {RenewDue} -> Days] /\ quiet' \in BOOLEAN
    BY <1>5, <1>a, ZenonT(60) DEF ReadDates
  <2>2. pc' = [pc EXCEPT ![s] = "store"]
        /\ UNCHANGED <<host, domain, row, op, draft, warned, muddled, adopted, misses>>
    BY <1>5 DEF ReadDates
  <2>3. QED
    BY <2>1, <2>2
<1>6. CASE StoreIssued(s) \/ StoreRenewed(s)
  <2>1. row' \in Rows \cup {NoRow}
    BY <1>6, RowType, StatusType, UpdatedType DEF StoreIssued, StoreRenewed
  <2>2. CASE StoreIssued(s)
    BY <2>2, <1>a, <2>1 DEF StoreIssued
  <2>3. CASE StoreRenewed(s)
    BY <2>3, <1>a, <2>1 DEF StoreRenewed
  <2>4. QED
    BY <1>6, <2>2, <2>3
<1>7. CASE WriteVhost(s)
  <2>1. vhost' \in Vhosts /\ muddled' \in BOOLEAN
    <3>1. draft[s] \in Vhosts
      OBVIOUS
    <3>2. QED
      BY <1>7, <3>1, Zenon DEF WriteVhost
  <2>2. CASE Return(s)
    BY <1>7, <1>a, <2>1, <2>2 DEF WriteVhost
  <2>3. CASE Goto(s, "flag") /\ UNCHANGED locals
    BY <1>7, <2>1, <2>3 DEF WriteVhost
  <2>4. QED
    BY <1>7, <2>2, <2>3 DEF WriteVhost
<1>8. CASE Renew(s)
  BY <1>8 DEF Renew
<1>9. ASSUME NEW enable \in BOOLEAN, Toggle(s, enable) PROVE TypeOK'
  <2>1. SSLVhost(row.path, enable) \in Vhosts
    BY <1>b, <1>9, DraftType DEF Toggle
  <2>2. QED
    BY <1>9, <2>1 DEF Toggle
<1>10. CASE StoreFlag(s)
  <2>1. row' \in Rows \cup {NoRow}
    BY <1>10, RowType, UpdatedType DEF StoreFlag
  <2>2. QED
    BY <1>10, <1>a, <2>1 DEF StoreFlag
<1>11. CASE Refused(s)
  BY <1>11, <1>a DEF Refused
<1>12. QED
  BY <1>1, <1>2, <1>3, <1>4, <1>5, <1>6, <1>7, <1>8, <1>9, <1>10, <1>11 DEF Request

\* The nightly jobs, the environment and stuttering.
LEMMA TypeStep == ASSUME TypeOK, [Next]_vars PROVE TypeOK'
<1> USE CertAssumption, ProcAssumption
    DEF CertAssumption, ProcAssumption, TypeOK, Procs, Jobs, host, locals, history, Goto
<1>a. Gone \in Vhosts /\ Absent \in Days /\ Life \in Days
  BY DEF Gone, Vhosts, Absent, Days
<1>b. Missed \in 0 .. Soon
  BY DEF Missed
<1>1. CASE RunRenewal \/ SkipRenewal
  <2>1. disk' \in Days /\ misses' \in 0 .. Soon
    BY <1>1, <1>a, <1>b DEF RunRenewal, SkipRenewal
  <2>2. pc' = [pc EXCEPT ![RenewDue] = "list"] \/ pc' = [pc EXCEPT ![RenewDue] = "idle"]
    BY <1>1 DEF RunRenewal, SkipRenewal
  <2>3. quiet' \in BOOLEAN
    BY <1>1, Zenon DEF RunRenewal, SkipRenewal
  <2>4. UNCHANGED <<vhost, domain, row, locals, warned, muddled, adopted>>
    BY <1>1 DEF RunRenewal, SkipRenewal
  <2>5. QED
    BY <2>1, <2>2, <2>3, <2>4
<1>2. CASE List \/ Check
  BY <1>2 DEF List, Check
<1>3. CASE ReadDates(RenewDue)
  <2>1. date' \in [Slots \cup {RenewDue} -> Days] /\ quiet' \in BOOLEAN
    BY <1>3, <1>a, ZenonT(60) DEF ReadDates
  <2>2. pc' = [pc EXCEPT ![RenewDue] = "store"]
        /\ UNCHANGED <<host, domain, row, op, draft, warned, muddled, adopted, misses>>
    BY <1>3 DEF ReadDates
  <2>3. QED
    BY <2>1, <2>2
<1>4. CASE Refresh
  <2>1. row' \in Rows \cup {NoRow}
    BY <1>4, RowType, StatusType, UpdatedType DEF Refresh
  <2>2. QED
    BY <1>4, <1>a, <2>1 DEF Refresh
<1>5. CASE Midnight
  <2>1. disk' \in Days
    BY <1>5 DEF Midnight, DayLater, Days, Absent
  <2>2. row' \in Rows \cup {NoRow}
    BY <1>5, RowType DEF Midnight
  <2>3. QED
    BY <1>5, <2>1, <2>2 DEF Midnight
<1>6. CASE RemoveVhost \/ DropRow
  BY <1>6, <1>a DEF RemoveVhost, DropRow
<1>7. CASE Crash
  BY <1>7, <1>a, <1>b DEF Crash
<1>8. CASE UNCHANGED vars
  BY <1>8 DEF vars
<1>9. QED
  BY <1>1, <1>2, <1>3, <1>4, <1>5, <1>6, <1>7, <1>8, RequestType DEF Next, Nightly

-----------------------------------------------------------------------------

\* What a request may do to the certificate, to the row's date and to its own.
LEMMA RequestDates ==
  ASSUME TypeOK, Dates, NEW s \in Slots, Request(s)
  PROVE  /\ disk' = disk \/ disk' = Life
         /\ row' # NoRow => row'.expires <= disk
         /\ date'[s] <= disk /\ (pc'[s] # "store" => date'[s] = Absent)
         /\ \A p \in Procs \ {s} : pc'[p] = pc[p]
         /\ \A p \in (Slots \cup {RenewDue}) \ {s} : date'[p] = date[p]
<1> USE CertAssumption, ProcAssumption
    DEF CertAssumption, ProcAssumption, TypeOK, Procs, Jobs, host, locals, history,
        Goto, Return, MayStart, Days, Absent, Dates, NeverOverpromises
<1>a. row # NoRow => row \in Rows /\ row.expires \in Days
  BY DEF Rows
<1>b. disk \in Int /\ disk >= -1 /\ disk <= Life
  OBVIOUS
<1>1. CASE Provision(s)
  BY <1>1 DEF Provision
<1>2. CASE Insert(s)
  <2>1. pc[s] = "insert" /\ disk' = disk
    BY <1>2 DEF Insert
  <2>2. row' # NoRow => row'.expires <= disk
    BY <1>2, <1>a, <1>b, Inserted
  <2>3. CASE Return(s)
    BY <2>1, <2>2, <2>3
  <2>4. CASE Goto(s, "certbot") /\ UNCHANGED <<op, date>>
    BY <2>1, <2>2, <2>4
  <2>5. QED
    BY <1>2, <2>3, <2>4 DEF Insert
<1>3. CASE Issue(s) \/ ForceRenewal(s)
  <2>1. disk' = disk \/ disk' = Life
    BY <1>3 DEF Issue, ForceRenewal, Certbot
  <2>2. pc[s] = "certbot"
    BY <1>3 DEF Issue, ForceRenewal
  <2>3. pc' = [pc EXCEPT ![s] = "read"] \/ pc' = [pc EXCEPT ![s] = "mark"]
    BY <1>3 DEF Issue, ForceRenewal, Certbot
  <2>4. row' = row /\ date' = date
    BY <1>3 DEF Issue, ForceRenewal
  <2>5. QED
    BY <2>1, <2>2, <2>3, <2>4
<1>4. CASE Mark(s)
  <2>1. row' # NoRow => row'.expires <= disk
    <3>1. CASE Updated([row EXCEPT !.status = "failed"])
      BY <1>a, <3>1, Marked
    <3>2. CASE row' = row
      BY <1>a, <3>2
    <3>3. QED
      BY <1>4, <3>1, <3>2 DEF Mark
  <2>2. QED
    BY <1>4, <2>1 DEF Mark
<1>5. CASE ReadDates(s)
  BY <1>5 DEF ReadDates
<1>6. CASE StoreIssued(s) \/ StoreRenewed(s)
  <2>1. row' # NoRow => row'.expires <= disk
    <3>1. CASE Updated([row EXCEPT !.status = StatusOf(date[s]), !.expires = date[s]])
      BY <3>1, Dated
    <3>2. CASE Updated([row EXCEPT !.status = StatusOf(date[s]), !.expires = date[s],
                                   !.path = TRUE])
      BY <3>2, Issued
    <3>3. CASE row' = row
      BY <1>a, <3>3
    <3>4. QED
      BY <1>6, <3>1, <3>2, <3>3 DEF StoreIssued, StoreRenewed
  <2>2. CASE StoreIssued(s)
    BY <2>2, <2>1 DEF StoreIssued
  <2>3. CASE StoreRenewed(s)
    BY <2>3, <2>1 DEF StoreRenewed
  <2>4. QED
    BY <1>6, <2>2, <2>3
<1>7. CASE WriteVhost(s)
  BY <1>7 DEF WriteVhost
<1>8. CASE Renew(s)
  BY <1>8 DEF Renew
<1>9. ASSUME NEW enable \in BOOLEAN, Toggle(s, enable)
      PROVE  /\ disk' = disk /\ row' = row /\ date' = date
             /\ pc[s] = "idle" /\ pc' = [pc EXCEPT ![s] = "vhost"]
  BY <1>9 DEF Toggle
<1>10. CASE StoreFlag(s)
  <2>1. row' # NoRow => row'.expires <= disk
    <3>1. CASE Updated([row EXCEPT !.redirect = draft[s].kind = "redirect"])
      BY <1>a, <3>1, Flagged
    <3>2. CASE row' = row
      BY <1>a, <3>2
    <3>3. QED
      BY <1>10, <3>1, <3>2 DEF StoreFlag
  <2>2. QED
    BY <1>10, <2>1 DEF StoreFlag
<1>11. CASE Refused(s)
  BY <1>11 DEF Refused
<1>12. CASE \E enable \in BOOLEAN : Toggle(s, enable)
  BY <1>9, <1>12
<1>13. QED
  BY <1>1, <1>2, <1>3, <1>4, <1>5, <1>6, <1>7, <1>8, <1>10, <1>11, <1>12 DEF Request

\* The certificate only ages at midnight, when nobody holds a date and the row's
\* ages with it.
LEMMA DatesStep == ASSUME TypeOK, Dates, [Next]_vars PROVE Dates'
<1> USE CertAssumption, ProcAssumption
    DEF CertAssumption, ProcAssumption, TypeOK, Procs, Jobs, host, locals, history,
        Goto, Days, Absent, Dates, NeverOverpromises
<1>a. row # NoRow => row \in Rows /\ row.expires \in Days
  BY DEF Rows
<1>b. disk \in Int /\ disk >= -1 /\ disk <= Life
  OBVIOUS
<1>1. ASSUME NEW s \in Slots, Request(s) PROVE Dates'
  <2>1. \A p \in Slots \cup {RenewDue} :
          date'[p] <= disk /\ (pc'[p] # "store" => date'[p] = Absent)
    BY <1>1, RequestDates
  <2>2. disk' \in Int /\ disk <= disk'
    BY <1>1, RequestDates
  <2>3. TypeOK'
    BY <1>1, RequestType
  <2>4. row' # NoRow => row'.expires \in Int
    BY <2>3 DEF Rows
  <2>5. \A p \in Slots \cup {RenewDue} : date'[p] \in Int
    BY <2>3
  <2>6. row' # NoRow => row'.expires <= disk
    BY <1>1, RequestDates
  <2>7. QED
    BY <1>b, <2>1, <2>2, <2>4, <2>5, <2>6
<1>2. CASE RunRenewal \/ SkipRenewal
  <2>1. disk' = disk \/ disk' = Life
    BY <1>2 DEF RunRenewal, SkipRenewal
  <2>2. row' = row /\ date' = date
    BY <1>2 DEF RunRenewal, SkipRenewal
  <2>3. pc[RenewDue] = "certbot" /\ \A p \in Slots : pc'[p] = pc[p]
    BY <1>2 DEF RunRenewal, SkipRenewal
  <2>4. pc'[RenewDue] # "store"
    BY <1>2 DEF RunRenewal, SkipRenewal
  <2>5. QED
    BY <1>a, <1>b, <2>1, <2>2, <2>3, <2>4
<1>3. CASE List \/ Check
  BY <1>3 DEF List, Check
<1>4. CASE ReadDates(RenewDue)
  BY <1>4 DEF ReadDates
<1>5. CASE Refresh
  <2>1. row' # NoRow => row'.expires <= disk
    <3>1. CASE Updated([row EXCEPT !.status = StatusOf(date[RenewDue]),
                                   !.expires = date[RenewDue]])
      BY <3>1, Dated
    <3>2. CASE row' = row
      BY <1>a, <3>2
    <3>3. QED
      BY <1>5, <3>1, <3>2 DEF Refresh
  <2>2. QED
    BY <1>5, <2>1 DEF Refresh
<1>6. CASE Midnight
  <2>1. row # NoRow => [row EXCEPT !.expires = DayLater(@)].expires = DayLater(row.expires)
    BY <1>a DEF Rows
  <2>2. row' # NoRow => row'.expires <= disk'
    BY <1>6, <1>a, <1>b, <2>1 DEF Midnight, DayLater
  <2>3. \A p \in Slots \cup {RenewDue} : date'[p] = -1
    BY <1>6 DEF Midnight, Running
  <2>4. disk' >= -1
    BY <1>6, <1>b DEF Midnight, DayLater
  <2>5. QED
    BY <2>2, <2>3, <2>4
<1>7. CASE RemoveVhost \/ DropRow
  BY <1>7 DEF RemoveVhost, DropRow
<1>8. CASE Crash
  BY <1>8 DEF Crash
<1>9. CASE UNCHANGED vars
  BY <1>9 DEF vars
<1>10. QED
  BY <1>1, <1>2, <1>3, <1>4, <1>5, <1>6, <1>7, <1>8, <1>9 DEF Next, Nightly

-----------------------------------------------------------------------------

\* What a request may do to the row.
LEMMA RequestRow ==
  ASSUME TypeOK, NEW s \in Slots, Request(s)
  PROVE  /\ row' = NoRow => row = NoRow
         /\ adopted => adopted'
         /\ row' # NoRow =>
              \/ row' = row
              \/ /\ row = NoRow /\ domain # "gone"
                 /\ row'.status = "pending" /\ row'.path = FALSE
              \/ /\ row # NoRow /\ row'.status \in {"failed", row.status}
                 /\ row'.path = row.path
              \/ /\ row # NoRow /\ pc[s] = "store"
                 /\ row'.status = StatusOf(date[s]) /\ row'.path
              \/ /\ row # NoRow /\ pc[s] = "store"
                 /\ row'.status = StatusOf(date[s]) /\ row'.path = row.path
                 /\ row.path \/ adopted'
<1> USE DEF host, locals, history
<1>a. date[s] \in Days /\ draft[s] \in Vhosts
  BY DEF TypeOK
<1>1. CASE /\ UNCHANGED <<row, adopted>>
  BY <1>1
<1>2. CASE Insert(s)
  <2>1. row' = row \/ row = NoRow
    BY <1>2, Inserted
  <2>2. row' = NoRow => row = NoRow
    BY <2>1
  <2>3. UNCHANGED adopted
    BY <1>2 DEF Insert
  <2>4. QED
    BY <1>2, <2>2, <2>3, Inserted
<1>3. CASE Mark(s)
  <2>1. UNCHANGED adopted
    BY <1>3 DEF Mark
  <2>2. CASE Updated([row EXCEPT !.status = "failed"])
    BY <2>1, <2>2, Marked, RowType, UpdatedType DEF Statuses
  <2>3. CASE UNCHANGED row
    BY <1>1, <2>1, <2>3
  <2>4. QED
    BY <1>3, <2>2, <2>3, Zenon DEF Mark
<1>4. CASE StoreIssued(s)
  <2>1. UNCHANGED adopted /\ pc[s] = "store"
    BY <1>4 DEF StoreIssued
  <2>2. CASE Updated([row EXCEPT !.status = StatusOf(date[s]), !.expires = date[s],
                                 !.path = TRUE])
    BY <1>a, <2>1, <2>2, Issued, RowType, StatusType, UpdatedType
  <2>3. CASE UNCHANGED row
    BY <1>1, <2>1, <2>3
  <2>4. QED
    BY <1>4, <2>2, <2>3, Zenon DEF StoreIssued
<1>5. CASE StoreRenewed(s)
  <2>1. pc[s] = "store"
    BY <1>5 DEF StoreRenewed
  <2>2. CASE /\ Updated([row EXCEPT !.status = StatusOf(date[s]), !.expires = date[s]])
             /\ adopted' = (adopted \/ (row # NoRow /\ ~row.path))
    <3>1. row # NoRow => row.path \/ adopted'
      BY <2>2, Zenon
    <3>2. adopted => adopted'
      BY <2>2, Zenon
    <3>3. row' = NoRow => row = NoRow
      BY <1>a, <2>2, RowType, StatusType, UpdatedType
    <3>4. row' # NoRow =>
            row # NoRow /\ row'.status = StatusOf(date[s]) /\ row'.path = row.path
      BY <2>2, Dated
    <3>5. QED
      BY <2>1, <3>1, <3>2, <3>3, <3>4
  <2>3. QED
    BY <1>1, <1>5, <2>2 DEF StoreRenewed
<1>6. CASE StoreFlag(s)
  <2>1. UNCHANGED adopted
    BY <1>6 DEF StoreFlag
  <2>2. CASE Updated([row EXCEPT !.redirect = draft[s].kind = "redirect"])
    BY <2>1, <2>2, Flagged, RowType, UpdatedType
  <2>3. CASE UNCHANGED row
    BY <1>1, <2>1, <2>3
  <2>4. QED
    BY <1>6, <2>2, <2>3, Zenon DEF StoreFlag
<1>7. CASE \/ Provision(s) \/ Issue(s) \/ ReadDates(s) \/ WriteVhost(s) \/ Renew(s)
           \/ ForceRenewal(s) \/ (\E enable \in BOOLEAN : Toggle(s, enable)) \/ Refused(s)
  <2>1. UNCHANGED <<row, adopted>>
    BY <1>7 DEF Provision, Issue, ReadDates, WriteVhost, Renew, ForceRenewal, Toggle, Refused
  <2>2. QED
    BY <1>1, <2>1
<1>8. QED
  BY <1>2, <1>3, <1>4, <1>5, <1>6, <1>7 DEF Request

\* A request comes to its vhost with a certificate on the host, and names it in
\* the file unless it toggles a row without a path.
LEMMA RequestWrites ==
  ASSUME TypeOK, Dates, Seen, NEW s \in Slots, Request(s)
  PROVE  /\ pc'[s] \in {"read", "store", "vhost", "flag"} => disk' # Absent
         /\ op'[s] = "provision" /\ pc'[s] # "insert" => draft'[s].named
         /\ pc'[s] = "vhost" => draft'[s].named \/ adopted'
         /\ vhost' = vhost \/ (pc[s] = "vhost" /\ vhost' = draft[s])
         /\ \A q \in Slots \ {s} : op'[q] = op[q] /\ draft'[q] = draft[q]
         /\ domain' = domain
<1> USE DEF host, locals, history, Goto, Return, MayStart
<1>a. /\ s \in Procs
      /\ pc[s] \in {"read", "store", "vhost", "flag"} => disk # Absent
      /\ op[s] = "provision" /\ pc[s] # "insert" => draft[s].named
      /\ pc[s] = "vhost" => draft[s].named \/ adopted
  BY DEF Seen, Procs
<1>b. Life # Absent /\ Soon \in Nat /\ Absent < 0 /\ disk \in Int
  BY CertAssumption DEF CertAssumption, Absent, TypeOK, Days
<1>c. /\ pc \in [Procs -> {"idle", "insert", "certbot", "list", "mark", "read", "store",
                          "vhost", "flag", "select"}]
      /\ op \in [Slots -> {"none", "provision", "renew", "toggle"}]
      /\ draft \in [Slots -> Vhosts]
  BY DEF TypeOK
<1>d. adopted => adopted'
  BY RequestRow
<1>1. CASE Provision(s)
  <2> DEFINE v == SSLVhost(TRUE, row # NoRow /\ row.redirect)
  <2>1. v.named
    BY DEF SSLVhost
  <2>2. /\ op' = [op EXCEPT ![s] = "provision"]
        /\ \/ pc' = [pc EXCEPT ![s] = "insert"]
           \/ pc' = [pc EXCEPT ![s] = "certbot"] /\ draft' = [draft EXCEPT ![s] = v]
        /\ draft' = draft \/ draft' = [draft EXCEPT ![s] = v]
        /\ UNCHANGED <<vhost, domain>>
    BY <1>1 DEF Provision
  <2> HIDE DEF v
  <2>3. QED
    BY <1>a, <1>c, <2>1, <2>2
<1>2. CASE Insert(s)
  <2> DEFINE v == SSLVhost(TRUE, FALSE)
  <2>1. v.named
    BY DEF SSLVhost
  <2>2. UNCHANGED <<vhost, domain>>
    BY <1>2 DEF Insert
  <2>3. CASE Return(s)
    BY <1>a, <1>c, <2>2, <2>3
  <2>4. CASE draft' = [draft EXCEPT ![s] = v] /\ Goto(s, "certbot") /\ UNCHANGED <<op, date>>
    <3> HIDE DEF v
    <3>1. QED
      BY <1>a, <1>c, <2>1, <2>2, <2>4
  <2>5. QED
    BY <1>2, <2>3, <2>4 DEF Insert
<1>3. CASE Issue(s) \/ ForceRenewal(s)
  <2>1. pc[s] = "certbot" /\ UNCHANGED <<vhost, domain, op, draft>>
    BY <1>3 DEF Issue, ForceRenewal
  <2>2. \/ pc' = [pc EXCEPT ![s] = "read"] /\ disk' # Absent
        \/ pc' = [pc EXCEPT ![s] = "mark"]
    BY <1>3, <1>b DEF Issue, ForceRenewal, Certbot
  <2>3. QED
    BY <1>a, <1>c, <2>1, <2>2
<1>4. CASE Mark(s) \/ Refused(s) \/ StoreRenewed(s) \/ StoreFlag(s)
  <2>1. Return(s) /\ UNCHANGED <<vhost, domain>>
    BY <1>4 DEF Mark, Refused, StoreRenewed, StoreFlag
  <2>2. QED
    BY <1>a, <1>c, <2>1
<1>5. CASE ReadDates(s)
  <2>1. /\ pc[s] = "read" /\ pc' = [pc EXCEPT ![s] = "store"]
        /\ UNCHANGED <<disk, vhost, domain, op, draft>>
    BY <1>5 DEF ReadDates
  <2>2. QED
    BY <1>a, <1>c, <2>1
<1>6. CASE StoreIssued(s)
  <2>1. /\ pc[s] = "store" /\ op[s] = "provision" /\ pc' = [pc EXCEPT ![s] = "vhost"]
        /\ UNCHANGED <<disk, vhost, domain, op, draft>>
    BY <1>6 DEF StoreIssued
  <2>2. QED
    BY <1>a, <1>c, <2>1
<1>7. CASE WriteVhost(s)
  <2>1. pc[s] = "vhost" /\ (vhost' = vhost \/ vhost' = draft[s]) /\ UNCHANGED <<disk, domain>>
    BY <1>7 DEF WriteVhost
  <2>2. CASE Return(s)
    BY <1>a, <1>c, <2>1, <2>2
  <2>3. CASE Goto(s, "flag") /\ UNCHANGED locals
    BY <1>a, <1>c, <2>1, <2>3
  <2>4. QED
    BY <1>7, <2>2, <2>3 DEF WriteVhost
<1>8. CASE Renew(s)
  <2>1. /\ op' = [op EXCEPT ![s] = "renew"] /\ pc' = [pc EXCEPT ![s] = "certbot"]
        /\ UNCHANGED <<vhost, domain, draft>>
    BY <1>8 DEF Renew
  <2>2. QED
    BY <1>a, <1>c, <2>1
<1>9. ASSUME NEW enable \in BOOLEAN, Toggle(s, enable)
      PROVE  /\ op' = [op EXCEPT ![s] = "toggle"] /\ pc' = [pc EXCEPT ![s] = "vhost"]
             /\ draft' = [draft EXCEPT ![s] = SSLVhost(row.path, enable)]
             /\ disk # Absent /\ (SSLVhost(row.path, enable).named \/ adopted')
             /\ UNCHANGED <<disk, vhost, domain>>
  <2>1. disk # Absent /\ (row.path \/ adopted)
    BY <1>9 DEF Toggle, Seen, Active
  <2>2. SSLVhost(row.path, enable).named = row.path
    BY DEF SSLVhost
  <2>3. QED
    BY <1>9, <2>1, <2>2 DEF Toggle
<1>10. CASE \E enable \in BOOLEAN : Toggle(s, enable)
  BY <1>9, <1>10, <1>a, <1>c
<1>11. QED
  BY <1>1, <1>2, <1>3, <1>4, <1>5, <1>6, <1>7, <1>8, <1>10 DEF Request

\* The jobs and the days leave the vhost and the drafts alone, and the one row
\* that a job may find active again has a path.
LEMMA SeenStep == ASSUME TypeOK, Dates, Seen, Listed, [Next]_vars PROVE Seen'
<1> USE DEF host, locals, history
<1>a. disk \in Days /\ row \in Rows \cup {NoRow}
  BY DEF TypeOK
<1>1. ASSUME NEW s \in Slots, Request(s) PROVE Seen'
  <2>1. disk # Absent => disk' # Absent
    BY <1>1, RequestDates, CertAssumption DEF CertAssumption, Absent
  <2>2. adopted => adopted'
    BY <1>1, RequestRow
  <2>3. ServesACert'
    <3>1. IsSSL(vhost') => disk # Absent /\ (vhost'.named \/ adopted)
      <4>1. vhost' = vhost \/ (pc[s] = "vhost" /\ vhost' = draft[s])
        BY <1>1, RequestWrites
      <4>2. IsSSL(vhost) => disk # Absent /\ (vhost.named \/ adopted)
        BY DEF Seen, ServesACert
      <4>3. pc[s] = "vhost" => disk # Absent /\ (draft[s].named \/ adopted)
        BY DEF Seen
      <4>4. QED
        BY <4>1, <4>2, <4>3
    <3>2. QED
      BY <2>1, <2>2, <3>1 DEF ServesACert, IsSSL
  <2>4. row' # NoRow /\ row'.status \in Active => disk' # Absent /\ (row'.path \/ adopted')
    <3>1. date[s] \in Days /\ (date[s] # Absent => disk # Absent)
      BY CertAssumption DEF CertAssumption, TypeOK, Dates, Days, Absent
    <3>2. StatusOf(date[s]) \in Active => disk # Absent
      BY <3>1, StatusType
    <3>3. "pending" \notin Active /\ "failed" \notin Active
      BY DEF Active
    <3>4. row # NoRow /\ row.status \in Active => disk # Absent /\ (row.path \/ adopted)
      BY DEF Seen
    <3>5. QED
      BY <1>1, <2>1, <2>2, <3>2, <3>3, <3>4, RequestRow
  <2>5. ASSUME NEW q \in Slots
        PROVE  /\ pc'[q] \in {"read", "store", "vhost", "flag"} => disk' # Absent
               /\ op'[q] = "provision" /\ pc'[q] # "insert" => draft'[q].named
               /\ pc'[q] = "vhost" => draft'[q].named \/ adopted'
    <3>1. CASE q = s
      BY <1>1, <3>1, RequestWrites
    <3>2. CASE q # s
      <4>1. pc'[q] = pc[q] /\ op'[q] = op[q] /\ draft'[q] = draft[q]
        BY <1>1, <3>2, RequestDates, RequestWrites DEF Procs
      <4>2. QED
        BY <2>1, <2>2, <4>1 DEF Seen
    <3>3. QED
      BY <3>1, <3>2
  <2>6. QED
    BY <2>3, <2>4, <2>5 DEF Seen
<1>2. ASSUME \/ disk' = disk
             \/ disk' = Life
             \/ disk' = DayLater(disk),
             UNCHANGED <<vhost, op, draft, adopted>>,
             row' # NoRow => /\ row # NoRow /\ row'.path = row.path
                             /\ \/ row'.status = row.status
                                \/ row'.status \in Active => disk # Absent /\ row.path,
             \A q \in Slots : pc'[q] = pc[q]
      PROVE  Seen'
  <2>1. disk # Absent => disk' # Absent
    BY <1>a, <1>2, CertAssumption DEF CertAssumption, DayLater, Absent, Days
  <2>2. ServesACert'
    BY <1>2, <2>1 DEF Seen, ServesACert, IsSSL
  <2>3. row' # NoRow /\ row'.status \in Active => disk' # Absent /\ (row'.path \/ adopted')
    BY <1>2, <2>1 DEF Seen
  <2>4. ASSUME NEW q \in Slots
        PROVE  /\ pc'[q] \in {"read", "store", "vhost", "flag"} => disk' # Absent
               /\ op'[q] = "provision" /\ pc'[q] # "insert" => draft'[q].named
               /\ pc'[q] = "vhost" => draft'[q].named \/ adopted'
    <3>1. /\ pc[q] \in {"read", "store", "vhost", "flag"} => disk # Absent
          /\ op[q] = "provision" /\ pc[q] # "insert" => draft[q].named
          /\ pc[q] = "vhost" => draft[q].named \/ adopted
      BY DEF Seen
    <3>2. pc'[q] = pc[q]
      BY <1>2
    <3>3. op' = op /\ draft' = draft /\ adopted' = adopted
      BY <1>2
    <3>4. QED
      BY <2>1, <3>1, <3>2, <3>3
  <2>5. QED
    BY <2>2, <2>3, <2>4 DEF Seen
<1>3. CASE RunRenewal \/ SkipRenewal \/ List \/ Check
  <2>1. /\ disk' = disk \/ disk' = Life
        /\ UNCHANGED <<vhost, op, draft, adopted, row>>
    BY <1>3 DEF RunRenewal, SkipRenewal, List, Check
  <2>2. \A q \in Slots : pc'[q] = pc[q]
    BY <1>3, ProcAssumption DEF ProcAssumption, RunRenewal, SkipRenewal, List, Check, Goto,
       TypeOK, Procs, Jobs
  <2>3. QED
    BY <1>2, <2>1, <2>2
<1>4. CASE ReadDates(RenewDue)
  <2>1. UNCHANGED <<disk, vhost, op, draft, adopted, row>>
    BY <1>4 DEF ReadDates
  <2>2. \A q \in Slots : pc'[q] = pc[q]
    BY <1>4, ProcAssumption DEF ProcAssumption, ReadDates, Goto, TypeOK, Procs, Jobs
  <2>3. QED
    BY <1>2, <2>1, <2>2
<1>5. CASE Refresh
  <2>1. UNCHANGED <<disk, vhost, op, draft, adopted>>
    BY <1>5 DEF Refresh
  <2>2. \A q \in Slots : pc'[q] = pc[q]
    BY <1>5, ProcAssumption DEF ProcAssumption, Refresh, Goto, TypeOK, Procs, Jobs
  <2>3. CASE UNCHANGED row
    BY <1>2, <2>1, <2>2, <2>3
  <2>4. CASE Updated([row EXCEPT !.status = StatusOf(date[RenewDue]),
                                 !.expires = date[RenewDue]])
    <3>1. row' # NoRow =>
            row # NoRow /\ row'.status = StatusOf(date[RenewDue]) /\ row'.path = row.path
      BY <2>4, Dated
    <3>2. pc[RenewDue] = "store"
      BY <1>5 DEF Refresh
    <3>3. row # NoRow => row.path /\ disk # Absent
      BY <3>2 DEF Listed
    <3>4. QED
      BY <1>2, <2>1, <2>2, <3>1, <3>3
  <2>5. QED
    BY <1>5, <2>3, <2>4 DEF Refresh
<1>6. CASE Midnight
  <2>1. row' # NoRow => row # NoRow /\ row'.status = row.status /\ row'.path = row.path
    BY <1>6, <1>a DEF Midnight, Rows
  <2>2. \A q \in Slots : pc'[q] = pc[q]
    BY <1>6, ProcAssumption DEF ProcAssumption, Midnight, TypeOK, Procs, Jobs
  <2>3. disk' = DayLater(disk) /\ UNCHANGED <<vhost, op, draft, adopted>>
    BY <1>6 DEF Midnight
  <2>4. QED
    BY <1>2, <2>1, <2>2, <2>3
<1>7. CASE RemoveVhost
  BY <1>7 DEF RemoveVhost, Seen, ServesACert, IsSSL, Gone
<1>8. CASE DropRow
  BY <1>8 DEF DropRow, Seen, ServesACert, IsSSL
<1>9. CASE Crash
  <2>1. /\ UNCHANGED <<disk, vhost, row, adopted>>
        /\ \A q \in Slots : pc'[q] = "idle" /\ op'[q] = "none"
    BY <1>9 DEF Crash, Procs
  <2>2. QED
    BY <2>1 DEF Seen, ServesACert, IsSSL
<1>10. CASE UNCHANGED vars
  BY <1>10 DEF vars, Seen, ServesACert, IsSSL
<1>11. QED
  BY <1>1, <1>3, <1>4, <1>5, <1>6, <1>7, <1>8, <1>9, <1>10 DEF Next, Nightly

\* Only a deletion takes the row from under RenewDue, and then no domain is left
\* to insert another for.
LEMMA ListedStep == ASSUME TypeOK, Dates, Seen, Listed, [Next]_vars PROVE Listed'
<1> USE DEF host, locals, history
<1>a. /\ disk \in Days /\ row \in Rows \cup {NoRow} /\ Life # Absent
      /\ RenewDue \in Procs /\ \A s \in Slots : s # RenewDue
  BY CertAssumption, ProcAssumption
     DEF CertAssumption, ProcAssumption, TypeOK, Procs, Jobs, Absent
<1>b. pc \in [Procs -> {"idle", "insert", "certbot", "list", "mark", "read", "store",
                        "vhost", "flag", "select"}]
  BY DEF TypeOK
<1>1. ASSUME NEW s \in Slots, Request(s) PROVE Listed'
  <2>1. disk # Absent => disk' # Absent
    BY <1>1, <1>a, RequestDates
  <2>2. pc'[RenewDue] = pc[RenewDue] /\ domain' = domain
    BY <1>1, <1>a, RequestDates, RequestWrites
  <2>3. row' = NoRow => row = NoRow
    BY <1>1, RequestRow
  <2>4. row' # NoRow =>
          \/ row' = row
          \/ row = NoRow /\ domain # "gone" /\ row'.path = FALSE
          \/ row # NoRow /\ (row'.path = row.path \/ (row'.path /\ pc[s] = "store"))
    BY <1>1, RequestRow
  <2>5. pc[s] = "store" => disk # Absent
    BY DEF Seen
  <2>6. (row # NoRow /\ row.path => disk # Absent)'
    BY <2>1, <2>4, <2>5 DEF Listed
  <2>7. (pc[RenewDue] \in {"read", "store"} /\ row # NoRow => row.path)'
    BY <2>2, <2>4 DEF Listed
  <2>8. (pc[RenewDue] \in {"read", "store"} /\ row = NoRow => domain = "gone")'
    BY <2>2, <2>3 DEF Listed
  <2>9. QED
    BY <2>6, <2>7, <2>8 DEF Listed
<1>2. CASE RunRenewal \/ SkipRenewal
  <2>1. /\ disk' = disk \/ disk' = Life
        /\ UNCHANGED row
    BY <1>2 DEF RunRenewal, SkipRenewal
  <2>2. pc'[RenewDue] \notin {"read", "store"}
    BY <1>2, <1>a, <1>b DEF RunRenewal, SkipRenewal, Goto
  <2>3. QED
    BY <1>a, <2>1, <2>2 DEF Listed
<1>3. CASE List
  <2>1. UNCHANGED <<disk, row>>
    BY <1>3 DEF List
  <2>2. pc'[RenewDue] \in {"read", "store"} => row # NoRow /\ row.path
    BY <1>3, <1>a, <1>b DEF List, Goto
  <2>3. QED
    BY <2>1, <2>2 DEF Listed
<1>4. CASE Check
  <2>1. UNCHANGED <<disk, row, domain>> /\ pc'[RenewDue] = pc[RenewDue]
    BY <1>4, <1>a, <1>b DEF Check, Goto, RenewDue, CheckExpiry
  <2>2. QED
    BY <2>1 DEF Listed
<1>5. CASE ReadDates(RenewDue)
  <2>1. UNCHANGED <<disk, row, domain>> /\ pc[RenewDue] = "read"
    BY <1>5 DEF ReadDates
  <2>2. QED
    BY <2>1 DEF Listed
<1>6. CASE Refresh
  <2>1. UNCHANGED disk /\ pc'[RenewDue] = "idle"
    BY <1>6, <1>a, <1>b DEF Refresh, Goto
  <2>2. CASE UNCHANGED row
    BY <2>1, <2>2 DEF Listed
  <2>3. CASE Updated([row EXCEPT !.status = StatusOf(date[RenewDue]),
                                 !.expires = date[RenewDue]])
    <3>1. row' # NoRow => row # NoRow /\ row'.path = row.path
      BY <2>3, Dated
    <3>2. QED
      BY <2>1, <3>1 DEF Listed
  <2>4. QED
    BY <1>6, <2>2, <2>3 DEF Refresh
<1>7. CASE Midnight
  <2>1. row' # NoRow => row # NoRow /\ row'.path = row.path
    BY <1>7, <1>a DEF Midnight, Rows
  <2>2. disk # Absent => disk' # Absent
    BY <1>7, <1>a, CertAssumption DEF CertAssumption, Midnight, DayLater, Absent, Days
  <2>3. pc'[RenewDue] = "certbot"
    BY <1>7, <1>a, <1>b DEF Midnight, RenewDue, CheckExpiry
  <2>4. QED
    BY <2>1, <2>2, <2>3 DEF Listed
<1>8. CASE RemoveVhost \/ DropRow
  <2>1. /\ UNCHANGED <<disk, pc>>
        /\ \/ UNCHANGED row /\ domain # "gone"
           \/ row' = NoRow /\ domain' = "gone"
    BY <1>8 DEF RemoveVhost, DropRow
  <2>2. QED
    BY <2>1 DEF Listed
<1>9. CASE Crash
  <2>1. UNCHANGED <<disk, row>> /\ pc'[RenewDue] = "idle"
    BY <1>9, <1>a DEF Crash
  <2>2. QED
    BY <2>1 DEF Listed
<1>10. CASE UNCHANGED vars
  BY <1>10 DEF vars, Listed
<1>11. QED
  BY <1>1, <1>2, <1>3, <1>4, <1>5, <1>6, <1>7, <1>8, <1>9, <1>10 DEF Next, Nightly

\* A night is missed or the certificate is renewed before the next one falls.
LEMMA NightsStep == ASSUME TypeOK, Dates, Nights, [Next]_vars PROVE Nights'
<1> USE CertAssumption DEF CertAssumption, host, locals, history
<1>a. /\ disk \in Int /\ disk >= -1 /\ disk <= Life /\ misses \in 0 .. Soon
      /\ RenewDue \in Procs /\ \A s \in Slots : s # RenewDue
  BY ProcAssumption DEF ProcAssumption, TypeOK, Procs, Jobs, Days, Absent
<1>b. pc \in [Procs -> {"idle", "insert", "certbot", "list", "mark", "read", "store",
                        "vhost", "flag", "select"}]
  BY DEF TypeOK
<1>c. Missed \in 0 .. Soon /\ (misses < Soon => Missed = misses + 1)
      /\ (misses = Soon => Missed = Soon)
  BY <1>a DEF Missed
<1>1. ASSUME disk' = disk \/ disk' = Life, misses' = misses,
             pc'[RenewDue] = pc[RenewDue] \/ pc[RenewDue] # "certbot"
      PROVE  Nights'
  BY <1>1, <1>a DEF Nights
<1>2. ASSUME NEW s \in Slots, Request(s) PROVE Nights'
  <2>1. (disk' = disk \/ disk' = Life) /\ pc'[RenewDue] = pc[RenewDue]
    BY <1>2, <1>a, RequestDates
  <2>2. misses' = misses
    BY <1>2 DEF Request, Provision, Insert, Issue, Mark, ReadDates, StoreIssued, WriteVhost,
       Renew, ForceRenewal, StoreRenewed, Toggle, StoreFlag, Refused
  <2>3. QED
    BY <1>1, <2>1, <2>2
<1>3. CASE RunRenewal
  <2>1. \/ disk' = Life
        \/ ~Due /\ disk' = disk
        \/ Due /\ disk' = disk /\ misses' = Missed
    BY <1>3 DEF RunRenewal
  <2>2. QED
    BY <1>a, <1>c, <2>1 DEF Nights, Due, Absent
<1>4. CASE SkipRenewal
  <2>1. disk' = disk /\ (Due => misses' = Missed)
    BY <1>4 DEF SkipRenewal
  <2>2. QED
    BY <1>a, <1>c, <2>1 DEF Nights, Due, Absent
<1>5. CASE List \/ ReadDates(RenewDue) \/ Refresh \/ Check
  <2>1. UNCHANGED <<disk, misses>>
    BY <1>5 DEF List, ReadDates, Refresh, Check
  <2>2. pc'[RenewDue] = pc[RenewDue] \/ pc[RenewDue] # "certbot"
    BY <1>5, <1>a, <1>b DEF List, ReadDates, Refresh, Check, Goto, RenewDue, CheckExpiry
  <2>3. QED
    BY <1>1, <2>1, <2>2
<1>6. CASE Midnight
  <2>1. pc[RenewDue] = "idle" /\ disk' = DayLater(disk) /\ misses' = misses
    BY <1>6, <1>a DEF Midnight, Running
  <2>2. pc'[RenewDue] = "certbot"
    BY <1>6, <1>a, <1>b DEF Midnight, RenewDue, CheckExpiry
  <2>3. QED
    BY <1>a, <2>1, <2>2 DEF Nights, DayLater
<1>7. CASE RemoveVhost \/ DropRow
  BY <1>1, <1>7 DEF RemoveVhost, DropRow
<1>8. CASE Crash
  <2>1. disk' = disk /\ pc'[RenewDue] = "idle"
    BY <1>8, <1>a DEF Crash
  <2>2. misses' = IF pc[RenewDue] = "certbot" /\ Due THEN Missed ELSE misses
    BY <1>8 DEF Crash
  <2>3. QED
    BY <1>a, <1>c, <2>1, <2>2 DEF Nights, Due, Absent
<1>9. CASE UNCHANGED vars
  BY <1>9 DEF vars, Nights
<1>10. QED
  BY <1>2, <1>3, <1>4, <1>5, <1>6, <1>7, <1>8, <1>9 DEF Next, Nightly

-----------------------------------------------------------------------------
(* VhostAgrees                                                             *)

\* A request changes the control of no other, and begins, goes on or ends its own.
LEMMA KindsStep == ASSUME TypeOK, Dates, Seen, Kinds, [Next]_vars PROVE Kinds'
<1>1. ASSUME NEW s \in Slots, Request(s) PROVE Kinds'
  <2>1. \A q \in Slots \ {s} : pc'[q] = pc[q] /\ op'[q] = op[q]
    BY <1>1, RequestDates, RequestWrites DEF Procs
  <2>2. /\ pc'[s] = "insert" => op'[s] = "provision"
        /\ pc'[s] = "vhost" => op'[s] \in {"provision", "toggle"}
        /\ pc'[s] = "flag" => op'[s] = "toggle"
        /\ op'[s] = "toggle" => pc'[s] \in {"vhost", "flag"}
    <3> USE DEF TypeOK, Kinds, Procs, locals, history, Goto, Return, MayStart
    <3>1. CASE Provision(s) \/ Insert(s)
      BY <1>1, <3>1 DEF Provision, Insert
    <3>2. CASE Issue(s) \/ ForceRenewal(s)
      BY <1>1, <3>2 DEF Issue, ForceRenewal, Certbot
    <3>3. CASE Mark(s) \/ StoreRenewed(s) \/ StoreFlag(s) \/ Refused(s)
      BY <1>1, <3>3 DEF Mark, StoreRenewed, StoreFlag, Refused
    <3>4. CASE ReadDates(s) \/ StoreIssued(s)
      BY <1>1, <3>4 DEF ReadDates, StoreIssued
    <3>5. CASE WriteVhost(s)
      BY <1>1, <3>5 DEF WriteVhost
    <3>6. CASE Renew(s) \/ \E enable \in BOOLEAN : Toggle(s, enable)
      BY <1>1, <3>6 DEF Renew, Toggle
    <3>7. QED
      BY <1>1, <3>1, <3>2, <3>3, <3>4, <3>5, <3>6 DEF Request
  <2>3. QED
    BY <2>1, <2>2 DEF Kinds
<1>2. CASE Nightly \/ Midnight \/ RemoveVhost \/ DropRow
  <2>1. op' = op /\ \A s \in Slots : pc'[s] = pc[s]
    BY <1>2, ProcAssumption
       DEF ProcAssumption, TypeOK, Procs, Jobs, Goto, locals, Nightly, RunRenewal, SkipRenewal, List,
           ReadDates, Refresh, Check, Midnight, RemoveVhost, DropRow
  <2>2. QED
    BY <2>1 DEF Kinds
<1>3. CASE Crash
  BY <1>3 DEF Crash, Kinds, Procs
<1>4. CASE UNCHANGED vars
  BY <1>4 DEF vars, locals, Kinds
<1>5. QED
  BY <1>1, <1>2, <1>3, <1>4 DEF Next

\* A step that neither begins to write nor touches vhost and flag.
LEMMA Stay ==
  ASSUME Agreed, muddled => muddled', UNCHANGED <<vhost, domain>>,
         row' = NoRow <=> row = NoRow,
         row # NoRow => row'.redirect = row.redirect,
         \A s \in Writers' : /\ s \in Writers /\ op'[s] = op[s] /\ draft'[s] = draft[s]
                             /\ pc'[s] = "insert" <=> pc[s] = "insert",
         \A s \in Slots : pc'[s] = "flag" <=> pc[s] = "flag"
  PROVE  Agreed'
BY DEF Agreed, Redirects, Writers

\* What an update keeps of the redirect.
SameFlag ==
  /\ row' = NoRow <=> row = NoRow
  /\ row # NoRow => row'.redirect = row.redirect

LEMMA KeptFlag ==
  ASSUME TypeOK
  PROVE  /\ \A x \in Statuses : Updated([row EXCEPT !.status = x]) => SameFlag
         /\ \A x \in Statuses, t \in Days :
              /\ Updated([row EXCEPT !.status = x, !.expires = t]) => SameFlag
              /\ Updated([row EXCEPT !.status = x, !.expires = t, !.path = TRUE]) => SameFlag
<1>1. row # NoRow => row \in Rows
  BY DEF TypeOK
<1>2. row # NoRow =>
        /\ \A x \in Statuses : [row EXCEPT !.status = x] # NoRow
        /\ \A x \in Statuses, t \in Days :
             /\ [row EXCEPT !.status = x, !.expires = t] # NoRow
             /\ [row EXCEPT !.status = x, !.expires = t, !.path = TRUE] # NoRow
  BY RowType, RowAssumption DEF RowAssumption
<1>3. row # NoRow => \A x, t :
        /\ [row EXCEPT !.status = x].redirect = row.redirect
        /\ [row EXCEPT !.status = x, !.expires = t].redirect = row.redirect
        /\ [row EXCEPT !.status = x, !.expires = t, !.path = TRUE].redirect = row.redirect
  BY <1>1 DEF Rows
<1>4. ASSUME NEW new, Updated(new), row # NoRow => new # NoRow /\ new.redirect = row.redirect
      PROVE  SameFlag
  BY <1>4 DEF SameFlag, Updated
<1>5. ASSUME NEW x \in Statuses, Updated([row EXCEPT !.status = x]) PROVE SameFlag
  BY <1>2, <1>3, <1>4, <1>5
<1>6. ASSUME NEW x \in Statuses, NEW t \in Days, Updated([row EXCEPT !.status = x, !.expires = t])
      PROVE  SameFlag
  BY <1>2, <1>3, <1>4, <1>6
<1>7. ASSUME NEW x \in Statuses, NEW t \in Days,
             Updated([row EXCEPT !.status = x, !.expires = t, !.path = TRUE])
      PROVE  SameFlag
  BY <1>2, <1>3, <1>4, <1>7
<1>8. QED
  BY <1>5, <1>6, <1>7

\* A request that starts to write is alone, in a domain that is there.
LEMMA StartAgreed ==
  ASSUME TypeOK, Rowless, Kinds, Agreed, NEW s \in Slots, ~muddled',
         Provision(s) \/ \E enable \in BOOLEAN : Toggle(s, enable)
  PROVE  Agreed'
<1>1. Writers = {} /\ ~muddled /\ domain = "there" /\ pc[s] = "idle"
  BY DEF Provision, Toggle, Writes, MayStart, TypeOK, Rowless
<1>2. UNCHANGED <<vhost, domain, row>> /\ \A q \in Slots \ {s} : pc'[q] = pc[q] /\ op'[q] = op[q]
  BY DEF Provision, Toggle, Goto, host, TypeOK, Procs
<1>3. \A q \in Slots : pc[q] # "flag"
  BY <1>1 DEF Kinds, Writers, Running, TypeOK
<1>4. Writers' \subseteq {s}
  BY <1>1, <1>2 DEF Writers, Running, Procs
<1>5. pc'[s] \in {"insert", "certbot", "vhost"} /\ op'[s] \in {"provision", "toggle"}
  BY DEF Provision, Toggle, Goto, TypeOK, Procs
<1>6. row = NoRow => pc'[s] = "insert"
  BY DEF Provision, Toggle, Goto, TypeOK, Procs
<1>7. op'[s] = "provision" /\ pc'[s] # "insert" /\ row # NoRow => (row.redirect <=> Redirects(draft'[s]))
  <2>1. CASE Provision(s)
    <3> DEFINE v == SSLVhost(TRUE, row # NoRow /\ row.redirect)
    <3>1. row # NoRow => (row.redirect <=> Redirects(v))
      BY DEF SSLVhost, Redirects
    <3>2. pc'[s] # "insert" => draft' = [draft EXCEPT ![s] = v]
      BY <2>1 DEF Provision, Goto, TypeOK, Procs
    <3> HIDE DEF v
    <3>3. QED
      BY <3>1, <3>2 DEF TypeOK, Redirects
  <2>2. CASE \E enable \in BOOLEAN : Toggle(s, enable)
    BY <2>2 DEF Toggle, TypeOK
  <2>3. QED
    BY <2>1, <2>2
<1>8. QED
  BY <1>1, <1>2, <1>3, <1>4, <1>5, <1>6, <1>7 DEF Agreed, Redirects

\* The one writer inserts its row, writes its vhost, or stores its flag.
LEMMA WriteAgreed ==
  ASSUME TypeOK, Rowless, Kinds, Agreed, NEW s \in Slots, ~muddled',
         Insert(s) \/ WriteVhost(s) \/ StoreFlag(s)
  PROVE  Agreed'
<1>1. ~muddled /\ s \in Writers /\ s \in Procs
  BY DEF Insert, WriteVhost, StoreFlag, history, TypeOK, Kinds, Writers, Running, Procs
<1>2. domain = "there" /\ Writers = {s}
  BY <1>1 DEF Agreed, TypeOK
<1>3. domain' = domain /\ \A q \in Slots \ {s} : pc'[q] = pc[q] /\ op'[q] = op[q]
  <2>1. domain' = domain /\ (Return(s) \/ \E l \in {"certbot", "flag"} : Goto(s, l) /\ op' = op)
    BY DEF Insert, WriteVhost, StoreFlag, locals
  <2>2. QED
    BY <1>1, <2>1 DEF Return, Goto, TypeOK, Procs
<1>4. Writers' \subseteq {s} /\ \A q \in Slots \ {s} : pc[q] # "flag" /\ pc'[q] # "flag"
  BY <1>1, <1>2, <1>3 DEF Writers, Running, Kinds, Procs
<1> USE DEF Redirects
<1>5. ASSUME Return(s) PROVE pc'[s] = "idle" /\ Writers' = {}
  BY <1>1, <1>4, <1>5 DEF Return, Goto, Writers, Running, TypeOK
<1>6. CASE Insert(s)
  <2>1. CASE Return(s) /\ row' = row
    <3>1. vhost' = vhost
      BY <1>6 DEF Insert, host
    <3>2. QED
      BY <1>1, <1>2, <1>3, <1>4, <1>5, <1>6, <2>1, <3>1 DEF Agreed, Insert
  <2> DEFINE new == [status |-> "pending", expires |-> Absent, path |-> FALSE, redirect |-> FALSE]
             v == SSLVhost(TRUE, FALSE)
  <2>2. CASE row = NoRow /\ row' = new /\ draft' = [draft EXCEPT ![s] = v] /\ Goto(s, "certbot")
             /\ UNCHANGED <<op, date>>
    <3>1. ~Redirects(v)
      BY DEF SSLVhost
    <3>2. new # NoRow /\ ~new.redirect
      <4>1. new \in Rows
        BY CertAssumption DEF CertAssumption, Rows, Statuses, Days, Absent
      <4>2. QED
        BY <4>1, RowAssumption DEF RowAssumption
    <3>3. vhost' = vhost /\ ~Redirects(vhost)
      BY <1>1, <1>2, <1>6, <2>2 DEF Insert, host, Agreed
    <3> HIDE DEF v, new
    <3>4. pc'[s] = "certbot" /\ draft'[s] = v
      BY <1>1, <2>2 DEF Goto, TypeOK
    <3>5. QED
      BY <1>2, <1>3, <1>4, <2>2, <3>1, <3>2, <3>3, <3>4 DEF Agreed
  <2>3. QED
    BY <1>6, <2>1, <2>2 DEF Insert
<1>7. CASE WriteVhost(s)
  <2>1. row' = row /\ vhost' = draft[s] /\ pc[s] = "vhost"
    BY <1>7 DEF WriteVhost
  <2>2. row # NoRow
    BY <1>1, <1>2, <2>1 DEF Agreed
  <2>3. CASE op[s] = "toggle"
    <3>1. pc'[s] = "flag" /\ op' = op /\ draft' = draft
      BY <1>1, <1>7, <2>3 DEF WriteVhost, Goto, locals, TypeOK
    <3>2. QED
      BY <1>2, <1>3, <1>4, <2>1, <2>2, <2>3, <3>1 DEF Agreed
  <2>4. CASE op[s] # "toggle"
    <3>1. Return(s) /\ op[s] = "provision"
      BY <1>7, <2>1, <2>4 DEF WriteVhost, Kinds
    <3>2. row.redirect <=> Redirects(draft[s])
      BY <1>1, <1>2, <2>1, <2>2, <3>1 DEF Agreed
    <3>3. QED
      BY <1>2, <1>3, <1>4, <1>5, <2>1, <2>2, <3>1, <3>2 DEF Agreed
  <2>5. QED
    BY <2>3, <2>4
<1>8. CASE StoreFlag(s)
  <2>1. Return(s) /\ vhost' = vhost /\ pc[s] = "flag" /\ vhost = draft[s] /\ row # NoRow
    BY <1>1, <1>2, <1>8 DEF StoreFlag, host, Agreed
  <2> DEFINE b == draft[s].kind = "redirect"
  <2>2. Updated([row EXCEPT !.redirect = b])
    BY <1>1, <1>8 DEF StoreFlag
  <2>3. row' # NoRow /\ row'.redirect = b
    <3>1. row \in Rows /\ b \in BOOLEAN
      BY <2>1 DEF TypeOK
    <3> HIDE DEF b
    <3>2. [row EXCEPT !.redirect = b] \in Rows /\ [row EXCEPT !.redirect = b].redirect = b
      BY <3>1 DEF Rows
    <3>3. QED
      BY <2>1, <2>2, <3>2, RowAssumption DEF RowAssumption, Updated
  <2>4. QED
    BY <1>2, <1>3, <1>4, <1>5, <2>1, <2>3 DEF Agreed
<1>9. QED
  BY <1>6, <1>7, <1>8

LEMMA AgreedStep == ASSUME TypeOK, Dates, Seen, Rowless, Kinds, Agreed, [Next]_vars PROVE Rowless' /\ Agreed'
<1> USE DEF host, locals, history
<1>1. ASSUME muddled' PROVE Agreed'
  BY <1>1 DEF Agreed
<1>2. ASSUME NEW s \in Slots, Request(s) PROVE Rowless' /\ Agreed'
  <2>1. /\ domain' = domain /\ (row' # row /\ row = NoRow => domain # "gone")
        /\ \A q \in Slots \ {s} : pc'[q] = pc[q] /\ op'[q] = op[q] /\ draft'[q] = draft[q]
    BY <1>2, RequestWrites, RequestDates, RequestRow DEF Procs
  <2>2. Rowless'
    BY <1>2, <2>1, RequestRow DEF Rowless
  <2>3. CASE Provision(s) \/ Insert(s) \/ WriteVhost(s) \/ StoreFlag(s) \/ \E enable \in BOOLEAN : Toggle(s, enable)
    BY <1>1, <2>2, <2>3, StartAgreed, WriteAgreed
  <2>4. CASE \/ Issue(s) \/ Mark(s) \/ ReadDates(s) \/ StoreIssued(s) \/ Renew(s) \/ ForceRenewal(s)
             \/ StoreRenewed(s) \/ Refused(s)
    <3>1. UNCHANGED <<vhost, domain, muddled>>
      BY <2>4 DEF Issue, Mark, ReadDates, StoreIssued, Renew, ForceRenewal, StoreRenewed, Refused
    <3>2. SameFlag
      <4>1. date[s] \in Days /\ StatusOf(date[s]) \in Statuses /\ "failed" \in Statuses
        BY StatusType DEF TypeOK, Statuses
      <4>2. CASE row' = row
        BY <4>2 DEF SameFlag
      <4>3. CASE row' # row
        <5>1. \/ Updated([row EXCEPT !.status = "failed"])
              \/ Updated([row EXCEPT !.status = StatusOf(date[s]), !.expires = date[s]])
              \/ Updated([row EXCEPT !.status = StatusOf(date[s]), !.expires = date[s], !.path = TRUE])
          BY <2>4, <4>3 DEF Issue, Mark, ReadDates, StoreIssued, Renew, ForceRenewal, StoreRenewed, Refused
        <5>2. QED
          BY <4>1, <5>1, KeptFlag
      <4>4. QED
        BY <4>2, <4>3
    <3>3. /\ pc[s] \notin {"insert", "flag"} /\ pc'[s] \notin {"insert", "flag"}
          /\ s \in Writers' => s \in Writers /\ op'[s] = op[s] /\ draft'[s] = draft[s]
      <4>1. CASE Issue(s) \/ ReadDates(s) \/ StoreIssued(s) \/ ForceRenewal(s)
        BY <4>1 DEF Issue, ReadDates, StoreIssued, ForceRenewal, Certbot, Goto, TypeOK, Procs, Writers, Running
      <4>2. CASE Mark(s) \/ StoreRenewed(s) \/ Refused(s)
        BY <4>2 DEF Mark, StoreRenewed, Refused, Return, Goto, TypeOK, Procs, Writers, Running
      <4>3. CASE Renew(s)
        BY <4>3 DEF Renew, MayStart, Goto, TypeOK, Procs, Writers
      <4>4. QED
        BY <2>4, <4>1, <4>2, <4>3
    <3>4. /\ \A q \in Writers' : /\ q \in Writers /\ op'[q] = op[q] /\ draft'[q] = draft[q]
                                 /\ pc'[q] = "insert" <=> pc[q] = "insert"
          /\ \A q \in Slots : pc'[q] = "flag" <=> pc[q] = "flag"
      BY <2>1, <3>3 DEF Writers, Running
    <3>5. QED
      BY <2>2, <3>1, <3>2, <3>4, Stay DEF SameFlag
  <2>5. QED
    BY <1>2, <2>3, <2>4 DEF Request
<1>3. CASE Nightly \/ Midnight
  <2>1. /\ UNCHANGED <<vhost, domain, muddled, op, draft>>
        /\ \A q \in Slots : pc'[q] = pc[q]
    BY <1>3, ProcAssumption
       DEF ProcAssumption, TypeOK, Procs, Jobs, Goto, Nightly, RunRenewal, SkipRenewal, List,
           ReadDates, Refresh, Check, Midnight
  <2>2. SameFlag
    <3>1. CASE UNCHANGED row
      BY <3>1 DEF SameFlag
    <3>2. CASE Refresh /\ row' # row
      <4>1. date[RenewDue] \in Days /\ StatusOf(date[RenewDue]) \in Statuses
        BY StatusType DEF TypeOK
      <4>2. Updated([row EXCEPT !.status = StatusOf(date[RenewDue]), !.expires = date[RenewDue]])
        BY <3>2 DEF Refresh
      <4>3. QED
        BY <4>1, <4>2, KeptFlag
    <3>3. CASE Midnight
      <4>1. row # NoRow => row \in Rows /\ [row EXCEPT !.expires = DayLater(@)] # NoRow
        BY RowType, RowAssumption DEF RowAssumption
      <4>2. row # NoRow => [row EXCEPT !.expires = DayLater(@)].redirect = row.redirect
        BY <4>1 DEF Rows
      <4>3. QED
        BY <3>3, <4>1, <4>2 DEF Midnight, SameFlag
    <3>4. QED
      BY <1>3, <3>1, <3>2, <3>3 DEF Nightly, RunRenewal, SkipRenewal, List, ReadDates, Check
  <2>3. Writers' = Writers
    BY <2>1 DEF Writers, Running
  <2>4. QED
    BY <2>1, <2>2, <2>3, Stay DEF Rowless, SameFlag, Writers
<1>4. CASE RemoveVhost
  <2>1. Rowless'
    BY <1>4 DEF RemoveVhost, Rowless
  <2>2. QED
    BY <1>1, <1>4, <2>1 DEF RemoveVhost, Agreed, Writers, Running
<1>5. CASE DropRow
  BY <1>1, <1>5 DEF DropRow, Rowless, Agreed, Writers, Running
<1>6. CASE Crash
  <2>1. Writers' = {} /\ \A q \in Slots : pc'[q] # "flag"
    BY <1>6 DEF Crash, Writers, Running, Procs
  <2>2. CASE ~muddled'
    <3>1. Writers = {} /\ domain # "going" /\ ~muddled
      BY <1>6, <2>2 DEF Crash
    <3>2. UNCHANGED <<vhost, domain, row>>
      BY <1>6, <3>1 DEF Crash
    <3>3. \A q \in Slots : pc[q] # "flag"
      BY <3>1 DEF Kinds, Writers, Running
    <3>4. QED
      BY <2>1, <3>1, <3>2, <3>3 DEF Agreed, Rowless, Redirects
  <2>3. Rowless'
    BY <1>6 DEF Crash, Rowless
  <2>4. QED
    BY <1>1, <2>2, <2>3
<1>7. CASE UNCHANGED vars
  BY <1>7 DEF vars, Rowless, Agreed, Redirects, Writers, Running
<1>8. QED
  BY <1>2, <1>3, <1>4, <1>5, <1>6, <1>7 DEF Next

-----------------------------------------------------------------------------
(* NightlyRefreshHeals                                                     *)

LEMMA PeaceStep == ASSUME TypeOK, Dates, Peace, [Next]_vars PROVE Peace'
<1> USE DEF host, locals, history
<1>a. RenewDue \in Procs /\ \A s \in Slots : s \notin {RenewDue, CheckExpiry} /\ s \in Procs
  BY ProcAssumption DEF ProcAssumption, Procs, Jobs
<1>1. ASSUME NEW s \in Slots, Request(s) PROVE Peace'
  <2>1. CASE quiet /\ pc[s] = "idle"
    <3>1. Provision(s) \/ Renew(s) \/ \E enable \in BOOLEAN : Toggle(s, enable)
      BY <1>1, <2>1 DEF Request, Insert, Issue, Mark, ReadDates, StoreIssued, WriteVhost, ForceRenewal,
                        StoreRenewed, StoreFlag, Refused
    <3>2. QED
      BY <3>1 DEF Provision, Renew, Toggle, Peace
  <2>2. CASE ~quiet
    <3>1. ~quiet'
      BY <1>1, <2>2 DEF TypeOK, Request, Provision, Insert, Issue, Mark, ReadDates, StoreIssued, WriteVhost, Renew,
                        ForceRenewal, StoreRenewed, Toggle, StoreFlag, Refused
    <3>2. QED
      BY <3>1 DEF Peace
  <2>3. QED
    BY <2>1, <2>2 DEF Peace
<1>2. CASE Nightly
  <2>1. /\ \A s \in Slots : pc'[s] = pc[s]
        /\ quiet' => quiet
    <3>1. PICK p \in Jobs, l \in {"idle", "list", "read", "store"} : Goto(p, l)
      BY <1>2 DEF Jobs, Nightly, RunRenewal, SkipRenewal, List, ReadDates, Refresh, Check
    <3>2. \A s \in Slots : pc'[s] = pc[s]
      BY <1>a, <3>1 DEF Goto, TypeOK, Jobs
    <3>3. quiet' => quiet
      BY <1>2 DEF Nightly, RunRenewal, SkipRenewal, List, ReadDates, Refresh, Check
    <3>4. QED
      BY <3>2, <3>3
  <2>2. quiet' /\ pc'[RenewDue] = "store" => date'[RenewDue] = disk'
    <3>1. CASE ReadDates(RenewDue)
      BY <3>1 DEF ReadDates, TypeOK
    <3>2. CASE Check
      BY <1>a, <2>1, <3>2 DEF Check, Goto, TypeOK, Peace, Procs, Jobs, RenewDue, CheckExpiry
    <3>3. CASE RunRenewal \/ SkipRenewal \/ List \/ Refresh
      BY <1>a, <3>3 DEF RunRenewal, SkipRenewal, List, Refresh, Goto, TypeOK
    <3>4. QED
      BY <1>2, <3>1, <3>2, <3>3 DEF Nightly
  <2>3. QED
    BY <2>1, <2>2 DEF Peace
<1>3. CASE Midnight
  <2>1. \A s \in Slots : pc'[s] = "idle"
    BY <1>3, <1>a DEF Midnight, Running, TypeOK
  <2>2. pc'[RenewDue] = "certbot"
    BY <1>3, <1>a DEF Midnight, TypeOK, RenewDue, CheckExpiry
  <2>3. QED
    BY <2>1, <2>2 DEF Peace
<1>4. CASE RemoveVhost \/ DropRow
  BY <1>4 DEF RemoveVhost, DropRow, Peace
<1>5. CASE Crash
  BY <1>5 DEF Crash, Peace
<1>6. CASE UNCHANGED vars
  BY <1>6 DEF vars, Peace
<1>7. QED
  BY <1>1, <1>2, <1>3, <1>4, <1>5, <1>6 DEF Next

\* The invariant is inductive.
LEMMA Inductive == IInv /\ [Next]_vars => IInv'
BY TypeStep, DatesStep, SeenStep, ListedStep, NightsStep, KindsStep, AgreedStep, PeaceStep DEF IInv

-----------------------------------------------------------------------------

\* Every reachable state is well typed: the row's status is one that the code knows.
THEOREM SslTypeCorrect == Spec => []TypeOK
<1>1. IInv => TypeOK
  BY DEF IInv
<1>2. QED
  BY InitHolds, Inductive, <1>1, PTL DEF Spec

\* However many provisionings, renewals and refreshes store their dates in
\* whatever order, the row promises no more days than the certificate has.
THEOREM NeverOverpromisesHolds == Spec => []NeverOverpromises
<1>1. IInv => NeverOverpromises
  BY DEF IInv, Dates
<1>2. QED
  BY InitHolds, Inductive, <1>1, PTL DEF Spec

\* However many requests write the vhost, with whatever faults, HTTPS is only
\* served from a certificate.
THEOREM ServesACertHolds == Spec => []ServesACert
<1>1. IInv => ServesACert
  BY DEF IInv, Seen
<1>2. QED
  BY InitHolds, Inductive, <1>1, PTL DEF Spec

\* For every threshold: a certificate that expires has been refused its renewal
\* on every night since it was due.
THEOREM ExpiresOnlyUnattendedHolds == Spec => []ExpiresOnlyUnattended
<1>1. IInv => ExpiresOnlyUnattended
  BY CertAssumption DEF CertAssumption, IInv, TypeOK, Nights, ExpiresOnlyUnattended
<1>2. QED
  BY InitHolds, Inductive, <1>1, PTL DEF Spec
\* However many requests write the vhost: when they are done, it redirects
\* exactly if the row says so, and a deleted domain has none.
THEOREM VhostAgreesHolds == Spec => []VhostAgrees
<1>1. IInv => VhostAgrees
  <2> SUFFICES ASSUME IInv, Writers = {}, ~muddled
               PROVE  /\ domain = "there" /\ row # NoRow => (row.redirect <=> vhost.kind = "redirect")
                      /\ domain # "there" => vhost = Gone
    BY DEF VhostAgrees
  <2>1. \A s \in Slots : pc[s] # "flag"
    BY DEF IInv, Kinds, Writers, Running
  <2>2. QED
    BY <2>1 DEF IInv, Agreed, Redirects
<1>2. QED
  BY InitHolds, Inductive, <1>1, PTL DEF Spec

\* However wrong the row was, a night in which nothing fails but certbot leaves
\* the truth in it.
THEOREM NightlyRefreshHealsHolds == Spec => NightlyRefreshHeals
<1> DEFINE Ends == quiet /\ pc[RenewDue] # "idle" /\ pc'[RenewDue] = "idle" /\ quiet'
                     /\ row' # NoRow /\ row'.path
           True == row'.expires = disk' /\ row'.status = StatusOf(disk')
<1>1. ASSUME IInv, [Next]_vars, Ends PROVE True
  <2> USE DEF host, locals, history
  <2>1. TypeOK /\ Peace /\ Listed /\ RenewDue \in Procs /\ RenewDue \notin Slots
    BY <1>1, ProcAssumption DEF IInv, ProcAssumption, Procs, Jobs
  <2>2. ~\E s \in Slots : Request(s)
    <3>1. ASSUME NEW s \in Slots, Request(s) PROVE FALSE
      BY <1>1, <2>1, <3>1, RequestDates DEF IInv
    <3>2. QED
      BY <3>1
  <2>3. List \/ Refresh
    BY <1>1, <2>1, <2>2
       DEF Next, Nightly, RunRenewal, SkipRenewal, ReadDates, Check, Midnight, RemoveVhost, DropRow,
           Crash, Goto, TypeOK, Running, vars, RenewDue, CheckExpiry
  <2>4. CASE List
    BY <1>1, <2>1, <2>4 DEF List, Goto, TypeOK
  <2>5. CASE Refresh
    <3>1. date[RenewDue] = disk /\ disk' = disk /\ row # NoRow /\ row.path
      BY <1>1, <2>1, <2>5, UpdatedType DEF Refresh, Peace, Listed, Updated
    <3>2. Updated([row EXCEPT !.status = StatusOf(disk), !.expires = disk])
      BY <1>1, <2>1, <2>5, <3>1 DEF Refresh, Listed
    <3>3. QED
      BY <1>1, <2>1, <3>1, <3>2, Dated
  <2>6. QED
    BY <2>3, <2>4, <2>5
<1>2. IInv /\ [Next]_vars => [Ends => True]_vars
  BY <1>1
<1>3. QED
  BY InitHolds, Inductive, <1>2, PTL DEF Spec, NightlyRefreshHeals
=============================================================================
