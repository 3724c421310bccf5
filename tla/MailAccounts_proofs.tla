------------------------ MODULE MailAccounts_proofs -------------------------
(***************************************************************************)
(* Proofs about MailAccounts, for any set of addresses, domains, requests  *)
(* and faults: type correctness, MailKept, RowsAreServed, NothingUnasked,  *)
(* DeleteHeals.                                                            *)
(***************************************************************************)
EXTENDS MailAccounts, TLAPS

\* A request in flight is about a slot and has a row in hand.
Working ==
  \A r \in Requests : pc[r] \in InFlight => at[r] \in Slots /\ cur[r] \in Rows

TypeInv == TypeOK /\ Working

LEMMA TypeInit == Init => TypeInv
<1> SUFFICES ASSUME Init PROVE TypeInv
  OBVIOUS
<1>1. rows \in [Slots -> Rows \cup {None}]
  BY DEF Init, Rows
<1>2. files \in [Files -> Contents] /\ compiled \in [Compiled -> Contents]
  <2> DEFINE line(k, a, l) == IF rows[<<k, a>>] = None THEN None ELSE l
             lines(f) == [a \in Addresses |->
               IF f = "aliases" THEN line("forwarder", a, rows[<<"forwarder", a>>].value)
               ELSE line("account", a, IF f = "maps" THEN Home ELSE rows[<<"account", a>>].value)]
  <2>1. \A s \in Slots : rows[s] = None \/ rows[s].value \in Values
    BY <1>1 DEF Rows
  <2>2. \A a \in Addresses : <<"account", a>> \in Slots /\ <<"forwarder", a>> \in Slots
    BY DEF Slots, Kinds
  <2>3. \A f \in Files : lines(f) \in Contents
    BY <2>1, <2>2 DEF Contents
  <2>4. files = [f \in Files |-> lines(f)] /\ compiled = [f \in Compiled |-> lines(f)]
    BY DEF Init
  <2> HIDE DEF lines
  <2> QED
    BY <2>3, <2>4 DEF Files, Compiled
<1>3. registered \subseteq Domains /\ mail \subseteq Addresses
  <2>1. \A a \in Addresses : DomainOf[a] \in Domains
    BY MailAssumption DEF MailAssumption
  <2> QED
    BY <2>1 DEF Init
<1> QED
  BY <1>1, <1>2, <1>3 DEF Init, TypeInv, TypeOK, Working, InFlight, Provisioning, Edits, Rest

\* The value of a row, and the address and domain of a slot, have their types.
LEMMA SlotParts ==
  ASSUME NEW r \in Requests, TypeInv, pc[r] \in InFlight
  PROVE  /\ at[r] \in Slots
         /\ Address(r) \in Addresses
         /\ DomainOf[Address(r)] \in Domains
         /\ cur[r] \in Rows
         /\ cur[r].value \in Values
<1>1. at[r] \in Slots /\ cur[r] \in Rows
  BY DEF TypeInv, Working
<1>2. Address(r) \in Addresses
  BY <1>1 DEF Address, Slots
<1> QED
  BY <1>1, <1>2, MailAssumption DEF MailAssumption, Rows

\* Every row that a request drops was in the table or is gone.
LEMMA DroppedType ==
  ASSUME NEW r \in Requests, TypeInv PROVE Dropped(r) \in [Slots -> Rows \cup {None}]
  BY DEF TypeInv, TypeOK, Dropped

\* A line added to, or taken from, a file leaves it a file.
LEMMA LineType ==
  ASSUME NEW c \in Contents, NEW a \in Addresses, NEW l \in Values \cup {Home, None}
  PROVE  [c EXCEPT ![a] = l] \in Contents
  BY DEF Contents

LEMMA FileType ==
  ASSUME NEW c \in [Files -> Contents], NEW f \in Files, NEW d \in Contents
  PROVE  [c EXCEPT ![f] = d] \in [Files -> Contents]
  OBVIOUS

\* What postmap makes is what is in the file.
LEMMA RecompileType ==
  ASSUME NEW r \in Requests, TypeInv, Recompile(r) PROVE compiled' \in [Compiled -> Contents]
  BY DEF TypeInv, TypeOK, Recompile, Files, Compiled

\* The local state of a request that goes on, or returns.
Locals ==
  /\ pc \in [Requests -> {"idle"} \cup InFlight \cup Ended]
  /\ at \in [Requests -> Slots \cup {None}]
  /\ cur \in [Requests -> Rows \cup {None}]
  /\ odd \subseteq Slots
  /\ lone \subseteq Requests
  /\ Working

LEMMA GoOn ==
  ASSUME NEW r \in Requests, NEW l \in InFlight, TypeInv, pc[r] \in InFlight, Goto(r, l),
         UNCHANGED <<at, cur>>, odd' \subseteq odd \cup {at[r]}, lone' \subseteq lone
  PROVE  Locals'
<1>1. pc' \in [Requests -> {"idle"} \cup InFlight \cup Ended]
  BY DEF TypeInv, TypeOK, Goto
<1>2. Working'
  BY DEF TypeInv, TypeOK, Working, Goto
<1> QED
  BY <1>1, <1>2, SlotParts DEF TypeInv, TypeOK, Locals

LEMMA ComeBack ==
  ASSUME NEW r \in Requests, NEW l \in Ended, TypeInv, pc[r] \in InFlight, Return(r, l),
         odd' \subseteq odd \cup {at[r]}, lone' \subseteq lone
  PROVE  Locals'
<1>1. pc' \in [Requests -> {"idle"} \cup InFlight \cup Ended]
  BY DEF TypeInv, TypeOK, Return, Goto
<1>2. l \notin InFlight
  BY DEF Ended, InFlight, Provisioning, Edits, Rest
<1>3. Working'
  BY <1>2 DEF TypeInv, TypeOK, Working, Return, Goto
<1> QED
  BY <1>1, <1>3, SlotParts DEF TypeInv, TypeOK, Locals, Return

LEMMA SetOut ==
  ASSUME NEW r \in Requests, NEW s \in Slots, NEW row \in Rows, NEW l \in InFlight,
         TypeInv, Begin(r, s, row, l)
  PROVE  Locals'
<1>1. pc' \in [Requests -> {"idle"} \cup InFlight \cup Ended]
  BY DEF TypeInv, TypeOK, Begin, Goto
<1>2. at' \in [Requests -> Slots \cup {None}] /\ cur' \in [Requests -> Rows \cup {None}]
  BY DEF TypeInv, TypeOK, Begin
<1>3. odd' \subseteq Slots /\ lone' \subseteq Requests
  BY DEF TypeInv, TypeOK, Begin
<1>4. Working'
  BY DEF TypeInv, TypeOK, Working, Begin, Goto
<1> QED
  BY <1>1, <1>2, <1>3, <1>4 DEF Locals

Stored ==
  /\ rows \in [Slots -> Rows \cup {None}]
  /\ files \in [Files -> Contents]
  /\ compiled \in [Compiled -> Contents]
  /\ registered \subseteq Domains
  /\ mail \subseteq Addresses
  /\ copy \in [Requests -> Contents \cup {None}]

LEMMA Parts ==
  /\ TypeInv => Stored /\ Locals
  /\ Stored' /\ Locals' => TypeInv'
  BY DEF TypeInv, TypeOK, Stored, Locals

\* A fault adds the slot of its request to the odd ones.
LEMMA HistoryGrows ==
  ASSUME NEW r \in Requests,
         \/ Unharmed
         \/ \E f \in FaultKinds : Harm(r, f)
         \/ \E f \in Files : Write(r, f)
  PROVE  odd \subseteq odd' /\ odd' \subseteq odd \cup {at[r]} /\ lone' \subseteq lone
  BY DEF Unharmed, history, Harm, Write

LEMMA ProvisionType ==
  ASSUME NEW r \in Requests, TypeInv, Provision(r) PROVE TypeInv'
<1> USE DEF FaultKinds, Files
<1>0. Provisioning \cup {"undo"} \subseteq InFlight /\ Stored /\ {"ok", "failed"} \subseteq Ended
  BY Parts DEF InFlight, Rest, Ended
<1>1. CASE MakeMaildir(r)
  <2>1. Stored'
    BY <1>0, <1>1, SlotParts DEF MakeMaildir, Stored, Provisioning
  <2>2. Locals'
    BY <1>0, <1>1, GoOn, HistoryGrows DEF MakeMaildir, Outcome, Provisioning
  <2> QED
    BY <2>1, <2>2, Parts
<1>2. ASSUME NEW f \in Files, NEW l \in Values \cup {Home}, NEW next \in Provisioning,
             pc[r] \in Provisioning, Append(r, f, l, next)
      PROVE  TypeInv'
  <2> DEFINE line == IF files[f][Address(r)] = None THEN l ELSE files[f][Address(r)]
  <2>1. files[f] \in Contents /\ Address(r) \in Addresses
    BY <1>0, <1>2, SlotParts DEF Stored
  <2>2. line \in Values \cup {Home, None}
    BY <2>1 DEF Contents
  <2>3. files' = [files EXCEPT ![f] = [files[f] EXCEPT ![Address(r)] = line]]
    BY <1>2, <2>1 DEF Append
  <2> HIDE DEF line
  <2>4. files' \in [Files -> Contents]
    BY <1>0, <2>1, <2>2, <2>3, LineType, FileType DEF Stored
  <2>5. Stored'
    BY <1>0, <1>2, <2>4 DEF Append, Stored
  <2>6. Locals'
    BY <1>0, <1>2, GoOn, HistoryGrows DEF Append
  <2> QED
    BY <2>5, <2>6, Parts
<1>3. CASE AddLogin(r)
  <2>1. pc[r] \in Provisioning
    BY <1>3 DEF AddLogin, Provisioning
  <2>2. cur[r].value \in Values
    BY <1>0, <2>1, SlotParts
  <2> QED
    BY <1>2, <1>3, <2>1, <2>2 DEF AddLogin, Provisioning
<1>4. CASE AddMailbox(r)
  BY <1>2, <1>4 DEF AddMailbox, Provisioning
<1>5. CASE AddAlias(r)
  <2>1. pc[r] \in Provisioning
    BY <1>5 DEF AddAlias, Provisioning
  <2>2. cur[r].value \in Values
    BY <1>0, <2>1, SlotParts
  <2> QED
    BY <1>2, <1>5, <2>1, <2>2 DEF AddAlias, Provisioning
<1>6. CASE RegisterDomain(r)
  <2>1. Stored'
    BY <1>0, <1>6, SlotParts DEF RegisterDomain, Stored, Provisioning
  <2>2. Locals'
    BY <1>0, <1>6, GoOn, HistoryGrows DEF RegisterDomain, Outcome, Provisioning
  <2> QED
    BY <2>1, <2>2, Parts
<1>7. CASE Postmap(r)
  <2>1. compiled' \in [Compiled -> Contents]
    BY <1>0, <1>7, RecompileType DEF Postmap, Stored
  <2>2. Stored'
    BY <1>0, <1>7, <2>1 DEF Postmap, Stored
  <2>3. pc[r] \in InFlight
    BY <1>0, <1>7 DEF Postmap, Provisioning
  <2>4. odd' \subseteq odd \cup {at[r]} /\ lone' \subseteq lone
    BY <1>7, HistoryGrows DEF Postmap
  <2>5. Locals'
    <3>1. CASE Return(r, "ok")
      BY <1>0, <2>3, <2>4, <3>1, ComeBack
    <3>2. CASE Goto(r, "undo") /\ UNCHANGED <<at, cur>>
      BY <1>0, <2>3, <2>4, <3>2, GoOn
    <3> QED
      BY <1>7, <3>1, <3>2 DEF Postmap
  <2> QED
    BY <2>2, <2>5, Parts
<1>8. CASE CommandRefused(r)
  <2>1. Stored'
    BY <1>0, <1>8 DEF CommandRefused, Stored, host
  <2>2. Locals'
    BY <1>0, <1>8, GoOn, HistoryGrows DEF CommandRefused
  <2> QED
    BY <2>1, <2>2, Parts
<1>9. CASE Undo(r)
  <2>1. Stored'
    BY <1>0, <1>9, DroppedType DEF Undo, Stored, host
  <2>2. Locals'
    BY <1>0, <1>9, ComeBack, HistoryGrows DEF Undo
  <2> QED
    BY <2>1, <2>2, Parts
<1> QED
  BY <1>1, <1>3, <1>4, <1>5, <1>6, <1>7, <1>8, <1>9 DEF Provision

LEMMA EditType ==
  ASSUME NEW r \in Requests, TypeInv, Edit(r) PROVE TypeInv'
<1> USE DEF FaultKinds, Files
<1>0. Stored /\ pc[r] \in InFlight /\ pc[r] \in Edits
  BY Parts DEF Edit, EditCopy, EditRename, EditRefused, InFlight
<1>1. Edited[pc[r]] \in Files /\ After[pc[r]] \in InFlight
  BY <1>0 DEF Edits, Edited, After, InFlight, Edits, Rest
<1>2. CASE EditCopy(r)
  <2>1. Stored'
    BY <1>0, <1>1, <1>2 DEF EditCopy, Stored, host
  <2>2. Locals'
    BY <1>2, Parts DEF EditCopy, Locals, Working, history
  <2> QED
    BY <2>1, <2>2, Parts
<1>3. CASE EditRename(r)
  <2> DEFINE f == Edited[pc[r]]
             line == IF pc[r] = "relogin" /\ copy[r][Address(r)] # None THEN cur[r].value ELSE None
             new == [copy[r] EXCEPT ![Address(r)] = line]
  <2>1. copy[r] \in Contents
    BY <1>0, <1>3 DEF EditRename, Stored
  <2>2. line \in Values \cup {Home, None} /\ Address(r) \in Addresses
    BY <1>0, SlotParts
  <2>3. files' = [files EXCEPT ![f] = new]
    BY <1>3 DEF EditRename
  <2> HIDE DEF line
  <2>4. new \in Contents
    BY <2>1, <2>2, LineType
  <2> HIDE DEF new
  <2>5. files' \in [Files -> Contents]
    BY <1>0, <1>1, <2>3, <2>4, FileType DEF Stored
  <2>6. Stored'
    BY <1>0, <1>3, <2>5 DEF EditRename, Stored
  <2>7. odd' \subseteq odd \cup {at[r]} /\ lone' \subseteq lone
    BY <1>1, <1>3, HistoryGrows DEF EditRename
  <2>8. Locals'
    BY <1>0, <1>1, <1>3, <2>7, GoOn DEF EditRename
  <2> QED
    BY <2>6, <2>8, Parts
<1>4. CASE EditRefused(r)
  <2>1. Stored'
    BY <1>0, <1>4 DEF EditRefused, Stored, host
  <2>2. Locals'
    BY <1>0, <1>1, <1>4, GoOn, HistoryGrows DEF EditRefused
  <2> QED
    BY <2>1, <2>2, Parts
<1> QED
  BY <1>2, <1>3, <1>4 DEF Edit

LEMMA DeprovisionType ==
  ASSUME NEW r \in Requests, TypeInv, Deprovision(r) \/ StorePassword(r) PROVE TypeInv'
<1> USE DEF FaultKinds, Files
<1>0. Stored /\ {"unmail", "unrow"} \subseteq InFlight /\ {"ok", "failed"} \subseteq Ended
  BY Parts DEF InFlight, Rest, Ended
<1>1. pc[r] \in InFlight
  BY DEF Deprovision, StorePassword, Unreachable, Unpostmap, RemoveMaildir, DeleteRow,
         InFlight, Edits, Rest
<1>2. CASE Unreachable(r)
  <2>1. Stored'
    BY <1>0, <1>2 DEF Unreachable, Stored, host
  <2>2. Locals'
    BY <1>0, <1>1, <1>2, GoOn, HistoryGrows DEF Unreachable
  <2> QED
    BY <2>1, <2>2, Parts
<1>3. CASE Unpostmap(r)
  <2>1. compiled' \in [Compiled -> Contents]
    BY <1>0, <1>3, RecompileType DEF Unpostmap, Stored
  <2>2. Stored'
    BY <1>0, <1>3, <2>1 DEF Unpostmap, Stored
  <2>3. odd' \subseteq odd \cup {at[r]} /\ lone' \subseteq lone
    BY <1>3, HistoryGrows DEF Unpostmap
  <2>4. Locals'
    BY <1>0, <1>1, <1>3, <2>3, GoOn DEF Unpostmap
  <2> QED
    BY <2>2, <2>4, Parts
<1>4. CASE RemoveMaildir(r)
  <2>1. Stored'
    BY <1>0, <1>4 DEF RemoveMaildir, Stored
  <2>2. odd' \subseteq odd \cup {at[r]} /\ lone' \subseteq lone
    BY <1>4, HistoryGrows DEF RemoveMaildir
  <2>3. Locals'
    BY <1>0, <1>1, <1>4, <2>2, GoOn DEF RemoveMaildir
  <2> QED
    BY <2>1, <2>3, Parts
<1>5. CASE DeleteRow(r) \/ StorePassword(r)
  <2>1. rows' \in [Slots -> Rows \cup {None}]
    <3>1. CASE DeleteRow(r)
      BY <1>0, <3>1, DroppedType DEF DeleteRow, Stored
    <3>2. CASE StorePassword(r)
      BY <1>0, <1>1, <3>2, SlotParts DEF StorePassword, Stored
    <3> QED
      BY <1>5, <3>1, <3>2
  <2>2. Stored'
    BY <1>0, <1>5, <2>1 DEF DeleteRow, StorePassword, Stored, host
  <2>3. odd' \subseteq odd \cup {at[r]} /\ lone' \subseteq lone
    BY <1>5, HistoryGrows DEF DeleteRow, StorePassword
  <2>4. Locals'
    BY <1>0, <1>1, <1>5, <2>3, ComeBack DEF DeleteRow, StorePassword
  <2> QED
    BY <2>2, <2>4, Parts
<1> QED
  BY <1>2, <1>3, <1>4, <1>5 DEF Deprovision

LEMMA StartType ==
  ASSUME NEW r \in Requests, TypeInv, Start(r) \/ Refused(r) PROVE TypeInv'
<1>0. Stored
  BY Parts
<1>1. ASSUME NEW s \in Slots, Delete(r, s) PROVE TypeInv'
  <2>1. Stored'
    BY <1>0, <1>1 DEF Delete, Stored, host
  <2>2. rows[s] \in Rows
    BY <1>0, <1>1 DEF Delete, Stored
  <2>3. Locals'
    BY <1>1, <2>2, SetOut DEF Delete, InFlight, Edits
  <2> QED
    BY <2>1, <2>3, Parts
<1>2. ASSUME NEW s \in Slots, NEW v \in Values, Insert(r, s, v) PROVE TypeInv'
  <2>1. [key |-> r, value |-> v] \in Rows
    BY DEF Rows
  <2>2. Stored'
    BY <1>0, <1>2, <2>1 DEF Insert, Stored, host
  <2>3. Locals'
    BY <1>2, <2>1, SetOut DEF Insert, InFlight, Provisioning
  <2> QED
    BY <2>2, <2>3, Parts
<1>3. ASSUME NEW a \in Addresses, NEW v \in Values, ChangePassword(r, a, v) PROVE TypeInv'
  <2> DEFINE s == <<"account", a>>
  <2>1. s \in Slots
    BY DEF Slots, Kinds
  <2>2. rows[s] \in Rows
    BY <1>0, <1>3, <2>1 DEF ChangePassword, Stored
  <2>3. [rows[s] EXCEPT !.value = v] \in Rows
    BY <2>2 DEF Rows
  <2>4. Stored'
    BY <1>0, <1>3 DEF ChangePassword, Stored, host
  <2>5. Locals'
    BY <1>3, <2>1, <2>3, SetOut DEF ChangePassword, InFlight, Edits
  <2> QED
    BY <2>4, <2>5, Parts
<1>4. CASE Refused(r)
  <2>1. Stored'
    BY <1>0, <1>4 DEF Refused, Stored, host
  <2>2. Locals'
    BY <1>4, Parts DEF Refused, Goto, Locals, Working, history, Ended, InFlight,
                       Provisioning, Edits, Rest
  <2> QED
    BY <2>1, <2>2, Parts
<1> QED
  BY <1>1, <1>2, <1>3, <1>4 DEF Start

LEMMA TypeStep == ASSUME TypeInv, [Next]_vars PROVE TypeInv'
<1>1. CASE Crash
  <2>1. Stored'
    BY <1>1, Parts DEF Crash, Stored, host
  <2>2. pc' \in [Requests -> {"idle"} \cup InFlight \cup Ended]
    BY <1>1, Parts DEF Crash, Locals, Ended
  <2>3. /\ at' \in [Requests -> Slots \cup {None}]
        /\ cur' \in [Requests -> Rows \cup {None}]
        /\ lone' \subseteq Requests
    BY <1>1, Parts DEF Crash, Locals
  <2>4. odd' \subseteq Slots
    BY <1>1, Parts DEF Crash, Locals, Working
  <2>5. Working'
    BY <1>1, Parts DEF Crash, Locals, Working, InFlight, Provisioning, Edits, Rest
  <2> QED
    BY <2>1, <2>2, <2>3, <2>4, <2>5, Parts DEF Locals
<1>2. ASSUME NEW d \in Domains, Cascade(d) PROVE TypeInv'
  <2>1. Stored'
    BY <1>2, Parts DEF Cascade, Stored, host, locals
  <2>2. Locals'
    BY <1>2, Parts DEF Cascade, Locals, Working, locals
  <2> QED
    BY <2>1, <2>2, Parts
<1>3. CASE UNCHANGED vars
  BY <1>3 DEF vars, host, locals, history, TypeInv, TypeOK, Working
<1> QED
  BY <1>1, <1>2, <1>3, StartType, ProvisionType, EditType, DeprovisionType DEF Next, Quiet

\* Type correctness: TypeOK, with Working for the slot that a request works on.
THEOREM MailTypeCorrect == Spec => []TypeOK
<1>1. Spec => []TypeInv
  BY TypeInit, TypeStep, PTL DEF Spec
<1>2. TypeInv => TypeOK
  BY DEF TypeInv
<1> QED
  BY <1>1, <1>2, PTL

-----------------------------------------------------------------------------
(* MailKept                                                                *)

\* Two requests hold a slot only if it is odd.
OneHolder ==
  \A q, r \in Requests, s \in Slots : Holds(q, s) /\ Holds(r, s) /\ q # r => s \in odd

\* A request holds the row that the table has, if any, unless the slot is odd.
OwnRow ==
  \A r \in Requests, s \in Slots :
    Holds(r, s) /\ s \notin odd /\ rows[s] # None => cur[r].key = rows[s].key

KeepInv == TypeInv /\ OneHolder /\ OwnRow

\* A step that neither starts a request nor changes a row's key keeps both.
LEMMA HoldersStay ==
  ASSUME KeepInv, odd \subseteq odd',
         \A q \in Requests, s \in Slots : Holds(q, s)' => Holds(q, s) /\ cur'[q].key = cur[q].key,
         \A s \in Slots : rows'[s] # None => rows[s] # None /\ rows'[s].key = rows[s].key
  PROVE  OneHolder' /\ OwnRow'
<1>1. OneHolder'
  <2> SUFFICES ASSUME NEW q \in Requests, NEW r \in Requests, NEW s \in Slots,
                      Holds(q, s)', Holds(r, s)', q # r
               PROVE  s \in odd'
    BY DEF OneHolder
  <2> QED
    BY DEF KeepInv, OneHolder
<1>2. OwnRow'
  <2> SUFFICES ASSUME NEW r \in Requests, NEW s \in Slots,
                      Holds(r, s)', s \notin odd', rows'[s] # None
               PROVE  cur'[r].key = rows'[s].key
    BY DEF OwnRow
  <2> QED
    BY DEF KeepInv, OwnRow
<1> QED
  BY <1>1, <1>2

\* A request that starts marks a slot that somebody holds.
LEMMA NewHolder ==
  ASSUME NEW r \in Requests, NEW s \in Slots, NEW row \in Rows, NEW l \in InFlight,
         KeepInv, Begin(r, s, row, l),
         \A x \in Slots \ {s} : rows'[x] = rows[x],
         rows'[s] # None => rows'[s].key = row.key
  PROVE  OneHolder' /\ OwnRow'
<1>1. odd \subseteq odd' /\ ((\E q \in Requests : Holds(q, s)) => s \in odd')
  BY DEF Begin
<1>2. \A q \in Requests \ {r}, x \in Slots : Holds(q, x)' <=> Holds(q, x)
  BY DEF Begin, Goto, Holds, KeepInv, TypeInv, TypeOK
<1>3. \A x \in Slots : Holds(r, x)' => x = s
  BY DEF Begin, Holds, KeepInv, TypeInv, TypeOK
<1>4. \A q \in Requests \ {r} : cur'[q] = cur[q]
  BY DEF Begin, KeepInv, TypeInv, TypeOK
<1>5. cur'[r] = row
  BY DEF Begin, KeepInv, TypeInv, TypeOK
<1>6. OneHolder'
  <2> SUFFICES ASSUME NEW p \in Requests, NEW q \in Requests, NEW x \in Slots,
                      Holds(p, x)', Holds(q, x)', p # q
               PROVE  x \in odd'
    BY DEF OneHolder
  <2>1. CASE p # r /\ q # r
    BY <1>1, <1>2, <2>1 DEF KeepInv, OneHolder
  <2>2. CASE p = r \/ q = r
    BY <1>1, <1>2, <1>3, <2>2
  <2> QED
    BY <2>1, <2>2
<1>7. OwnRow'
  <2> SUFFICES ASSUME NEW q \in Requests, NEW x \in Slots,
                      Holds(q, x)', x \notin odd', rows'[x] # None
               PROVE  cur'[q].key = rows'[x].key
    BY DEF OwnRow
  <2>1. CASE q = r
    BY <1>3, <1>5, <2>1
  <2>2. CASE q # r
    <3>1. x # s /\ Holds(q, x)
      BY <1>1, <1>2, <2>2
    <3> QED
      BY <1>1, <1>4, <2>2, <3>1 DEF KeepInv, OwnRow
  <2> QED
    BY <2>1, <2>2
<1> QED
  BY <1>6, <1>7

\* Where r goes on or returns, the others hold what they held.
LEMMA SameHolders ==
  ASSUME NEW r \in Requests, KeepInv, pc[r] \in InFlight,
         \/ \E l \in InFlight : Goto(r, l) /\ UNCHANGED <<at, cur>>
         \/ \E l \in Ended : Return(r, l)
         \/ UNCHANGED <<pc, at, cur>>
  PROVE  \A q \in Requests, s \in Slots : Holds(q, s)' => Holds(q, s) /\ cur'[q].key = cur[q].key
<1>1. ASSUME NEW l \in InFlight, Goto(r, l), UNCHANGED <<at, cur>>
      PROVE  \A q \in Requests, s \in Slots : Holds(q, s)' => Holds(q, s) /\ cur'[q].key = cur[q].key
  BY <1>1 DEF Goto, Holds, KeepInv, TypeInv, TypeOK
<1>2. ASSUME NEW l \in Ended, Return(r, l)
      PROVE  \A q \in Requests, s \in Slots : Holds(q, s)' => Holds(q, s) /\ cur'[q].key = cur[q].key
  <2>1. l \notin InFlight
    BY DEF Ended, InFlight, Provisioning, Edits, Rest
  <2>2. \A q \in Requests : q # r => pc'[q] = pc[q] /\ at'[q] = at[q] /\ cur'[q] = cur[q]
    BY <1>2 DEF Return, Goto, KeepInv, TypeInv, TypeOK
  <2>3. pc'[r] = l
    BY <1>2 DEF Return, Goto, KeepInv, TypeInv, TypeOK
  <2> QED
    BY <2>1, <2>2, <2>3 DEF Holds
<1> QED
  BY <1>1, <1>2 DEF Holds

LEMMA KeepStep == ASSUME KeepInv, [Next]_vars PROVE KeepInv'
<1> USE DEF FaultKinds, Files
<1>0. TypeInv' /\ TypeInv /\ Stored /\ Locals
  BY TypeStep, Parts DEF KeepInv
<1>1. ASSUME NEW r \in Requests, NEW s \in Slots, Delete(r, s) PROVE OneHolder' /\ OwnRow'
  <2>1. rows[s] \in Rows /\ {"unlogin", "unalias"} \subseteq InFlight
    BY <1>0, <1>1 DEF Delete, Stored, InFlight, Edits
  <2> QED
    BY <1>1, <2>1, NewHolder DEF Delete
<1>2. ASSUME NEW r \in Requests, NEW s \in Slots, NEW v \in Values, Insert(r, s, v)
      PROVE  OneHolder' /\ OwnRow'
  <2> DEFINE row == [key |-> r, value |-> v]
  <2>1. row \in Rows /\ {"maildir", "alias"} \subseteq InFlight
    BY DEF Rows, InFlight, Provisioning
  <2>2. rows' = [rows EXCEPT ![s] = row]
    BY <1>2 DEF Insert
  <2>3. Begin(r, s, row, IF s[1] = "account" THEN "maildir" ELSE "alias")
    BY <1>2 DEF Insert
  <2> HIDE DEF row
  <2>4. rows'[s] = row /\ \A x \in Slots \ {s} : rows'[x] = rows[x]
    BY <1>0, <2>2 DEF Stored
  <2> QED
    BY <2>1, <2>3, <2>4, NewHolder
<1>3. ASSUME NEW r \in Requests, NEW a \in Addresses, NEW v \in Values, ChangePassword(r, a, v)
      PROVE  OneHolder' /\ OwnRow'
  <2> DEFINE s == <<"account", a>>
             row == [rows[s] EXCEPT !.value = v]
  <2>1. s \in Slots
    BY DEF Slots, Kinds
  <2>2. rows[s] \in Rows
    BY <1>0, <1>3, <2>1 DEF ChangePassword, Stored
  <2>3. row \in Rows /\ row.key = rows[s].key
    BY <2>2 DEF Rows
  <2>4. Begin(r, s, row, "relogin") /\ rows' = rows /\ "relogin" \in InFlight
    BY <1>3 DEF ChangePassword, InFlight, Edits
  <2> HIDE DEF row
  <2> QED
    BY <2>1, <2>3, <2>4, NewHolder
<1>4. ASSUME NEW r \in Requests, Refused(r) PROVE OneHolder' /\ OwnRow'
  <2>1. \A q \in Requests, s \in Slots : Holds(q, s)' => Holds(q, s) /\ cur'[q].key = cur[q].key
    BY <1>0, <1>4 DEF Refused, Goto, Holds, Locals, InFlight, Provisioning, Edits, Rest
  <2> QED
    BY <1>4, <2>1, HoldersStay DEF Refused, history
<1>5. ASSUME NEW r \in Requests, Provision(r) \/ Edit(r) \/ Deprovision(r) \/ StorePassword(r)
      PROVE  OneHolder' /\ OwnRow'
  <2>1. odd \subseteq odd'
    BY <1>5, HistoryGrows
       DEF Provision, MakeMaildir, AddLogin, RegisterDomain, AddMailbox, AddAlias, Append, Outcome,
           Postmap, CommandRefused, Undo, Edit, EditCopy, EditRename, EditRefused, Deprovision,
           Unreachable, Unpostmap, RemoveMaildir, DeleteRow, StorePassword, history, Harm, Write,
           Unharmed
  <2>2. pc[r] \in InFlight
    BY <1>5 DEF Provision, MakeMaildir, AddLogin, RegisterDomain, AddMailbox, AddAlias, Postmap,
           CommandRefused, Undo, Edit, EditCopy, EditRename, EditRefused, Deprovision,
           Unreachable, Unpostmap, RemoveMaildir, DeleteRow, StorePassword,
           InFlight, Provisioning, Edits, Rest
  <2>3. \A q \in Requests, s \in Slots : Holds(q, s)' => Holds(q, s) /\ cur'[q].key = cur[q].key
    <3>1. CASE Provision(r)
      BY <2>2, <3>1, SameHolders
         DEF Provision, MakeMaildir, AddLogin, RegisterDomain, AddMailbox, AddAlias, Append, Outcome,
             Postmap, CommandRefused, Undo, InFlight, Provisioning, Rest, Ended
    <3>2. CASE Edit(r)
      <4>1. pc[r] \in Edits
        BY <3>2 DEF Edit, EditCopy, EditRename, EditRefused
      <4>2. After[pc[r]] \in InFlight
        BY <4>1 DEF Edits, After, InFlight, Rest
      <4> QED
        BY <2>2, <3>2, <4>2, SameHolders DEF Edit, EditCopy, EditRename, EditRefused
    <3>3. CASE Deprovision(r) \/ StorePassword(r)
      BY <2>2, <3>3, SameHolders
         DEF Deprovision, Unreachable, Unpostmap, RemoveMaildir, DeleteRow, StorePassword,
             InFlight, Rest, Ended
    <3> QED
      BY <1>5, <3>1, <3>2, <3>3
  <2>4. \A s \in Slots : rows'[s] # None => rows[s] # None /\ rows'[s].key = rows[s].key
    <3>1. CASE rows' = Dropped(r)
      BY <1>0, <3>1 DEF Dropped, Stored
    <3>2. CASE rows' = rows
      BY <3>2
    <3>3. CASE StorePassword(r) /\ rows' # rows
      <4> DEFINE s == at[r]
      <4>1. rows' = [rows EXCEPT ![s] = IF @ # None /\ @.key = cur[r].key THEN cur[r] ELSE @]
        BY <3>3 DEF StorePassword
      <4> QED
        BY <1>0, <4>1 DEF Stored
    <3> QED
      BY <1>5, <3>1, <3>2, <3>3
         DEF Provision, MakeMaildir, AddLogin, RegisterDomain, AddMailbox, AddAlias, Append, Postmap,
             CommandRefused, Undo, Edit, EditCopy, EditRename, EditRefused, Deprovision,
             Unreachable, Unpostmap, RemoveMaildir, DeleteRow
  <2> QED
    BY <2>1, <2>3, <2>4, HoldersStay
<1>6. ASSUME Crash PROVE OneHolder' /\ OwnRow'
  <2>1. \A q \in Requests, s \in Slots : Holds(q, s)' => Holds(q, s) /\ cur'[q].key = cur[q].key
    BY <1>6 DEF Crash, Holds, InFlight, Provisioning, Edits, Rest
  <2> QED
    BY <1>6, <2>1, HoldersStay DEF Crash
<1>7. ASSUME NEW d \in Domains, Cascade(d) PROVE OneHolder' /\ OwnRow'
  <2>1. \A s \in Slots : rows'[s] # None => rows'[s] = rows[s]
    BY <1>7 DEF Cascade
  <2> QED
    BY <1>7, <2>1, HoldersStay DEF Cascade, locals, Holds
<1>8. ASSUME UNCHANGED vars PROVE OneHolder' /\ OwnRow'
  BY <1>8, HoldersStay DEF vars, host, locals, history, Holds
<1> QED
  BY <1>0, <1>1, <1>2, <1>3, <1>4, <1>5, <1>6, <1>7, <1>8 DEF Next, Start, Quiet, KeepInv

\* Only RemoveMaildir takes mail away.
LEMMA MailGoes ==
  ASSUME TypeInv, [Next]_vars, NEW a \in mail, a \notin mail'
  PROVE  \E r \in Requests : pc[r] = "unmail" /\ Address(r) = a
<1>1. PICK r \in Requests : RemoveMaildir(r)
  BY DEF Next, Start, Delete, Insert, ChangePassword, Refused, Provision, MakeMaildir, AddLogin,
         RegisterDomain, AddMailbox, AddAlias, Append, Postmap, CommandRefused, Undo, Edit, EditCopy,
         EditRename, EditRefused, Deprovision, Unreachable, Unpostmap, DeleteRow, StorePassword,
         Crash, Cascade, Quiet, vars, host
<1> QED
  BY <1>1 DEF RemoveMaildir

\* Only a deletion of an account comes to RemoveMaildir.
UnmailLabel == \A r \in Requests : pc[r] = "unmail" => IsAccount(r)

LEMMA UnmailStep == ASSUME TypeInv, UnmailLabel, [Next]_vars PROVE UnmailLabel'
<1> SUFFICES ASSUME NEW q \in Requests, pc'[q] = "unmail" PROVE at'[q][1] = "account"
  BY DEF UnmailLabel, IsAccount
<1>1. CASE pc'[q] = pc[q] /\ at'[q] = at[q]
  BY <1>1 DEF UnmailLabel, IsAccount
<1>2. ASSUME NEW r \in Requests, Unpostmap(r) PROVE at'[q][1] = "account"
  BY <1>1, <1>2 DEF Unpostmap, Goto, IsAccount, TypeInv, TypeOK
<1>3. ASSUME NEW r \in Requests, Edit(r) PROVE at'[q][1] = "account"
  <2>1. CASE EditCopy(r)
    BY <1>1, <2>1 DEF EditCopy
  <2>2. CASE EditRename(r) \/ EditRefused(r)
    <3>1. After[pc[r]] # "unmail"
      BY <2>2 DEF EditRename, EditRefused, Edits, After
    <3> QED
      BY <1>1, <2>2, <3>1 DEF EditRename, EditRefused, Goto, TypeInv, TypeOK
  <2> QED
    BY <1>3, <2>1, <2>2 DEF Edit
<1>4. ASSUME NEW r \in Requests, Start(r) \/ Refused(r) PROVE at'[q][1] = "account"
  BY <1>1, <1>4 DEF Start, Delete, Insert, ChangePassword, Refused, Begin, Goto, TypeInv, TypeOK
<1>5. ASSUME NEW r \in Requests, Provision(r) PROVE at'[q][1] = "account"
  BY <1>1, <1>5 DEF Provision, MakeMaildir, AddLogin, RegisterDomain, AddMailbox, AddAlias, Append,
       Outcome, Postmap, CommandRefused, Undo, Return, Goto, TypeInv, TypeOK
<1>6. ASSUME NEW r \in Requests, Unreachable(r) \/ RemoveMaildir(r) \/ DeleteRow(r) \/ StorePassword(r)
      PROVE  at'[q][1] = "account"
  BY <1>1, <1>6 DEF Unreachable, RemoveMaildir, DeleteRow, StorePassword, Return, Goto, TypeInv, TypeOK
<1>7. CASE Crash
  BY <1>1, <1>7 DEF Crash
<1>8. ASSUME NEW d \in Domains, Cascade(d) PROVE at'[q][1] = "account"
  BY <1>1, <1>8 DEF Cascade, locals
<1> QED
  BY <1>1, <1>2, <1>3, <1>4, <1>5, <1>6, <1>7, <1>8 DEF Next, Deprovision, Quiet, vars, locals

\* The mail of an address that has a row goes only with this row, for any number
\* of addresses and requests.
THEOREM MailKeptHolds == Spec => MailKept
<1>1. Init => KeepInv /\ UnmailLabel
  <2> SUFFICES ASSUME Init PROVE KeepInv /\ UnmailLabel
    OBVIOUS
  <2> QED
    BY TypeInit DEF Init, KeepInv, OneHolder, OwnRow, Holds, UnmailLabel,
                    InFlight, Provisioning, Edits, Rest
<1>2. ASSUME KeepInv, UnmailLabel, [Next]_vars, NEW a \in mail, a \notin mail', rows[<<"account", a>>] # None
      PROVE  LET s == <<"account", a>>
             IN s \in odd \/ \E r \in Requests : Holds(r, s) /\ cur[r].key = rows[s].key
  <2> DEFINE s == <<"account", a>>
  <2>1. PICK r \in Requests : pc[r] = "unmail" /\ Address(r) = a
    BY <1>2, MailGoes DEF KeepInv
  <2>2. at[r] \in Slots /\ at[r][1] = "account" /\ pc[r] \in InFlight
    BY <1>2, <2>1 DEF UnmailLabel, IsAccount, KeepInv, TypeInv, Working, InFlight, Rest
  <2>3. at[r] = s
    BY <2>1, <2>2 DEF Slots, Address
  <2>4. Holds(r, s) /\ s \in Slots
    BY <2>2, <2>3 DEF Holds
  <2> QED
    BY <1>2, <2>4 DEF KeepInv, OwnRow
<1>3. KeepInv /\ UnmailLabel /\ [Next]_vars =>
        [\A a \in mail \ mail' : LET s == <<"account", a>> IN
           rows[s] # None => \/ s \in odd
                             \/ \E r \in Requests : Holds(r, s) /\ cur[r].key = rows[s].key]_vars
  BY <1>2
<1> QED
  <2>1. KeepInv /\ UnmailLabel /\ [Next]_vars => KeepInv' /\ UnmailLabel'
    BY KeepStep, UnmailStep DEF KeepInv
  <2> QED
    BY <1>1, <1>3, <2>1, PTL DEF Spec, MailKept
-----------------------------------------------------------------------------
(* RowsAreServed and NothingUnasked speak of settled slots; the invariant  *)
(* says what the host holds of a clean slot at each label of the request   *)
(* that works on it, and that the copy of a sed is stale only in slots     *)
(* that the history calls odd.                                             *)

\* What the host holds of a clean slot while a request with label l and the
\* value v is working on it.
AccountAt(a, l, v) ==
  /\ l \in {"maildir", "login", "unmap", "unpostmap", "unmail", "unrow"} => files["users"][a] = None
  /\ l \in {"domain", "mailbox", "postmap", "repass"} => files["users"][a] = v
  /\ l = "relogin" => files["users"][a] # None
  /\ l \in {"maildir", "login", "domain", "mailbox", "unpostmap", "unmail", "unrow"}
       => files["maps"][a] = None
  /\ l \in {"postmap", "relogin", "repass"} => files["maps"][a] = Home
  /\ l \in {"maildir", "login", "domain", "mailbox", "unmail", "unrow"} => compiled["maps"][a] = None
  /\ l \in {"relogin", "repass"} => compiled["maps"][a] = Home
  /\ l \in {"login", "domain", "mailbox", "postmap", "relogin", "repass"} => a \in mail
  /\ l = "unrow" => a \notin mail
  /\ l \in {"mailbox", "postmap", "relogin", "repass"} => DomainOf[a] \in registered

ForwarderAt(a, l, v) ==
  /\ l \in {"alias", "unpostmap", "unrow"} => files["aliases"][a] = None
  /\ l = "postmap" => files["aliases"][a] = v
  /\ l \in {"alias", "unrow"} => compiled["aliases"][a] = None

At(s, l, v) == IF s[1] = "account" THEN AccountAt(s[2], l, v) ELSE ForwarderAt(s[2], l, v)

\* The same of a slot that nobody works on: as before StorePassword or Postmap,
\* or as before DeleteRow.
Resting(s) ==
  IF s[1] = "account"
  THEN IF rows[s] = None THEN AccountAt(s[2], "unrow", None)
                         ELSE AccountAt(s[2], "repass", rows[s].value)
  ELSE IF rows[s] = None THEN ForwarderAt(s[2], "unrow", None)
       ELSE /\ files["aliases"][s[2]] = rows[s].value
            /\ compiled["aliases"][s[2]] = rows[s].value

AccountLabels == {"maildir", "login", "domain", "mailbox", "postmap", "undo", "unlogin", "unmap",
                  "unpostmap", "unmail", "unrow", "relogin", "repass"}
ForwarderLabels == {"alias", "postmap", "undo", "unalias", "unpostmap", "unrow"}

RightLabel ==
  \A r \in Requests : pc[r] \in InFlight =>
    pc[r] \in IF IsAccount(r) THEN AccountLabels ELSE ForwarderLabels

\* A clean slot has the row that its request needs.
RightRow ==
  \A r \in Requests : pc[r] \in InFlight /\ at[r] \notin odd =>
    /\ pc[r] # "undo"
    /\ pc[r] \in Provisioning => rows[at[r]] = cur[r]
    /\ pc[r] \in {"relogin", "repass"} => rows[at[r]] # None

Tracked ==
  \A s \in Slots \ odd :
    /\ \A r \in Requests : Holds(r, s) => At(s, pc[r], cur[r].value)
    /\ (\A r \in Requests : ~Holds(r, s)) => Resting(s)

\* The copy that a sed works on differs from the file only in odd slots.
SlotOf(f, a) == IF f = "aliases" THEN <<"forwarder", a>> ELSE <<"account", a>>
FreshCopies ==
  \A r \in Requests : copy[r] # None =>
    /\ pc[r] \in Edits
    /\ \A a \in Addresses : SlotOf(Edited[pc[r]], a) \notin odd
         => copy[r][a] = files[Edited[pc[r]]][a]

HostInv == KeepInv /\ RightLabel /\ RightRow /\ Tracked /\ FreshCopies

-----------------------------------------------------------------------------
(* What a step leaves alone.                                               *)

\* A step leaves the slot s alone, but that it may recompile the files.
Untouched(s) ==
  LET a == s[2]
  IN /\ rows'[s] = rows[s]
     /\ \A f \in Files : SlotOf(f, a) = s => files'[f][a] = files[f][a]
     /\ s[1] = "account" => (a \in mail' <=> a \in mail)
     /\ registered \subseteq registered'
     /\ \A f \in Compiled : SlotOf(f, a) = s => compiled'[f][a] \in {compiled[f][a], files[f][a]}

LEMMA UntouchedAccount ==
  ASSUME NEW a \in Addresses, NEW l, NEW v, Untouched(<<"account", a>>), AccountAt(a, l, v)
  PROVE  AccountAt(a, l, v)'
<1>1. /\ files'["users"][a] = files["users"][a]
      /\ files'["maps"][a] = files["maps"][a]
      /\ compiled'["maps"][a] \in {compiled["maps"][a], files["maps"][a]}
      /\ a \in mail' <=> a \in mail
      /\ registered \subseteq registered'
  BY DEF Untouched, SlotOf, Files, Compiled
<1> QED
  BY <1>1 DEF AccountAt

LEMMA UntouchedForwarder ==
  ASSUME NEW a \in Addresses, NEW l, NEW v, Untouched(<<"forwarder", a>>), ForwarderAt(a, l, v)
  PROVE  ForwarderAt(a, l, v)'
<1>1. /\ files'["aliases"][a] = files["aliases"][a]
      /\ compiled'["aliases"][a] \in {compiled["aliases"][a], files["aliases"][a]}
  BY DEF Untouched, SlotOf, Files, Compiled
<1> QED
  BY <1>1 DEF ForwarderAt

LEMMA SlotShape ==
  ASSUME NEW s \in Slots
  PROVE  /\ s[2] \in Addresses
         /\ s[1] = "account" => s = <<"account", s[2]>>
         /\ s[1] # "account" => s = <<"forwarder", s[2]>>
  BY DEF Slots, Kinds

LEMMA UntouchedSlot ==
  ASSUME NEW s \in Slots, Untouched(s)
  PROVE  /\ \A l, v : At(s, l, v) => At(s, l, v)'
         /\ Resting(s) => Resting(s)'
<1>1. CASE s[1] = "account"
  <2>1. s = <<"account", s[2]>> /\ s[2] \in Addresses
    BY <1>1, SlotShape
  <2>2. \A l, v : AccountAt(s[2], l, v) => AccountAt(s[2], l, v)'
    BY <2>1, UntouchedAccount
  <2>3. rows'[s] = rows[s]
    BY DEF Untouched
  <2> QED
    BY <1>1, <2>2, <2>3 DEF At, Resting
<1>2. CASE s[1] # "account"
  <2>1. s = <<"forwarder", s[2]>> /\ s[2] \in Addresses
    BY <1>2, SlotShape
  <2>2. \A l, v : ForwarderAt(s[2], l, v) => ForwarderAt(s[2], l, v)'
    BY <2>1, UntouchedForwarder
  <2>3. /\ rows'[s] = rows[s]
        /\ files'["aliases"][s[2]] = files["aliases"][s[2]]
        /\ compiled'["aliases"][s[2]] \in {compiled["aliases"][s[2]], files["aliases"][s[2]]}
    BY <2>1 DEF Untouched, SlotOf, Files, Compiled
  <2> QED
    BY <1>2, <2>2, <2>3 DEF At, Resting
<1> QED
  BY <1>1, <1>2

\* The slot of a request and the lines it is about.
LEMMA OwnLines ==
  ASSUME NEW r \in Requests, HostInv, pc[r] \in InFlight
  PROVE  /\ at[r] \in Slots /\ Address(r) \in Addresses
         /\ cur[r] \in Rows /\ cur[r].value \in Values
         /\ IsAccount(r) => at[r] = <<"account", Address(r)>> /\ pc[r] \in AccountLabels
         /\ ~IsAccount(r) => at[r] = <<"forwarder", Address(r)>> /\ pc[r] \in ForwarderLabels
         /\ pc[r] \in Edits => SlotOf(Edited[pc[r]], Address(r)) = at[r]
<1>1. at[r] \in Slots /\ Address(r) \in Addresses /\ cur[r] \in Rows /\ cur[r].value \in Values
  BY SlotParts DEF HostInv, KeepInv
<1>2. IsAccount(r) => at[r] = <<"account", Address(r)>> /\ pc[r] \in AccountLabels
  BY <1>1, SlotShape DEF IsAccount, Address, HostInv, RightLabel
<1>3. ~IsAccount(r) => at[r] = <<"forwarder", Address(r)>> /\ pc[r] \in ForwarderLabels
  BY <1>1, SlotShape DEF IsAccount, Address, HostInv, RightLabel
<1>4. pc[r] \in Edits => SlotOf(Edited[pc[r]], Address(r)) = at[r]
  BY <1>2, <1>3 DEF Edits, Edited, SlotOf, AccountLabels, ForwarderLabels
<1> QED
  BY <1>1, <1>2, <1>3, <1>4

\* The slots that a step of r does not concern.
Others(r) == \A s \in Slots : s # at[r] /\ s \notin odd' => Untouched(s)

LEMMA SlotOfInjective ==
  ASSUME NEW f \in Files, NEW a, NEW b, SlotOf(f, a) = SlotOf(f, b) PROVE a = b
  BY DEF SlotOf

LEMMA DroppedOther ==
  ASSUME Stored, NEW r \in Requests, NEW s \in Slots, s # at[r], rows' = Dropped(r)
  PROVE  rows'[s] = rows[s]
  BY DEF Stored, Dropped

LEMMA AppendOthers ==
  ASSUME NEW r \in Requests, NEW f \in Files, NEW l, NEW next, HostInv, Append(r, f, l, next),
         pc[r] \in InFlight, SlotOf(f, Address(r)) = at[r]
  PROVE  Others(r)
<1> SUFFICES ASSUME NEW s \in Slots, s # at[r] PROVE Untouched(s)
  BY DEF Others
<1>1. Stored
  BY Parts DEF HostInv, KeepInv
<1>2. \A g \in Files : SlotOf(g, s[2]) = s => files'[g][s[2]] = files[g][s[2]]
  <2> SUFFICES ASSUME NEW g \in Files, SlotOf(g, s[2]) = s PROVE files'[g][s[2]] = files[g][s[2]]
    OBVIOUS
  <2>1. g # f \/ s[2] # Address(r)
    OBVIOUS
  <2>2. files[f] \in Contents /\ files[g] \in Contents /\ s[2] \in Addresses
    BY <1>1, SlotShape DEF Stored
  <2> QED
    BY <1>1, <2>1, <2>2 DEF Append, Stored, Contents
<1> QED
  BY <1>2 DEF Append, Untouched

LEMMA RecompileOther ==
  ASSUME NEW r \in Requests, TypeInv, Recompile(r), NEW f \in Compiled, NEW a
  PROVE  compiled'[f][a] \in {compiled[f][a], files[f][a]}
  BY DEF Recompile, TypeInv, TypeOK, Compiled, Files

LEMMA ProvisionOthers ==
  ASSUME NEW r \in Requests, HostInv, Provision(r) PROVE Others(r)
<1> USE DEF Files
<1>0. Stored /\ TypeInv
  BY Parts DEF HostInv, KeepInv
<1>1. pc[r] \in InFlight
  BY DEF Provision, MakeMaildir, AddLogin, RegisterDomain, AddMailbox, AddAlias, Postmap,
         CommandRefused, Undo, InFlight, Provisioning, Rest
<1>2. CASE AddLogin(r) \/ AddMailbox(r) \/ AddAlias(r)
  <2>1. CASE AddLogin(r)
    BY <1>1, <2>1, OwnLines, AppendOthers DEF AddLogin, SlotOf, ForwarderLabels
  <2>2. CASE AddMailbox(r)
    BY <1>1, <2>2, OwnLines, AppendOthers DEF AddMailbox, SlotOf, ForwarderLabels
  <2>3. CASE AddAlias(r)
    BY <1>1, <2>3, OwnLines, AppendOthers DEF AddAlias, SlotOf, AccountLabels
  <2> QED
    BY <1>2, <2>1, <2>2, <2>3
<1>3. CASE MakeMaildir(r)
  <2> SUFFICES ASSUME NEW s \in Slots, s # at[r] PROVE Untouched(s)
    BY DEF Others
  <2>1. at[r] = <<"account", Address(r)>>
    BY <1>1, <1>3, OwnLines DEF MakeMaildir, ForwarderLabels
  <2>2. s[1] = "account" => s[2] # Address(r)
    BY <2>1, SlotShape
  <2> QED
    BY <1>3, <2>2 DEF MakeMaildir, Untouched
<1>4. CASE RegisterDomain(r)
  BY <1>4 DEF RegisterDomain, Others, Untouched
<1>5. CASE Postmap(r)
  <2>1. \A f \in Compiled : \A a : compiled'[f][a] \in {compiled[f][a], files[f][a]}
    BY <1>0, <1>5, RecompileOther DEF Postmap
  <2> QED
    BY <1>5, <2>1 DEF Postmap, Others, Untouched
<1>6. CASE CommandRefused(r)
  BY <1>6 DEF CommandRefused, Others, Untouched, host
<1>7. CASE Undo(r)
  BY <1>0, <1>7, DroppedOther DEF Undo, Others, Untouched, host
<1> QED
  BY <1>2, <1>3, <1>4, <1>5, <1>6, <1>7 DEF Provision

LEMMA EditOthers ==
  ASSUME NEW r \in Requests, HostInv, Edit(r) PROVE Others(r)
<1> USE DEF Files
<1>0. Stored /\ pc[r] \in Edits /\ pc[r] \in InFlight
  BY Parts DEF HostInv, KeepInv, Edit, EditCopy, EditRename, EditRefused, InFlight
<1>1. CASE EditCopy(r) \/ EditRefused(r)
  BY <1>1 DEF EditCopy, EditRefused, Others, Untouched, host
<1>2. CASE EditRename(r)
  <2> SUFFICES ASSUME NEW s \in Slots, s # at[r], s \notin odd' PROVE Untouched(s)
    BY DEF Others
  <2> DEFINE f == Edited[pc[r]]
             line == IF pc[r] = "relogin" /\ copy[r][Address(r)] # None THEN cur[r].value ELSE None
  <2>1. f \in Files /\ copy[r] \in Contents /\ files' = [files EXCEPT ![f] = [copy[r] EXCEPT ![Address(r)] = line]]
    BY <1>0, <1>2 DEF EditRename, Stored, Edits, Edited
  <2>2. s \notin odd
    BY <1>2, <2>1, HistoryGrows DEF EditRename
  <2>3. \A g \in Files : SlotOf(g, s[2]) = s => files'[g][s[2]] = files[g][s[2]]
    <3> SUFFICES ASSUME NEW g \in Files, SlotOf(g, s[2]) = s PROVE files'[g][s[2]] = files[g][s[2]]
      OBVIOUS
    <3>1. s[2] \in Addresses
      BY SlotShape
    <3>2. CASE g # f
      BY <1>0, <2>1, <3>2 DEF Stored
    <3>3. CASE g = f
      <4>1. s[2] # Address(r)
        BY <1>0, <3>3, OwnLines
      <4>2. copy[r][s[2]] = files[f][s[2]]
        BY <1>2, <2>2, <3>1, <3>3 DEF EditRename, HostInv, FreshCopies
      <4> HIDE DEF line
      <4>3. files'[f] = [copy[r] EXCEPT ![Address(r)] = line]
        BY <1>0, <2>1 DEF Stored
      <4> QED
        BY <2>1, <3>1, <3>3, <4>1, <4>2, <4>3 DEF Contents
    <3> QED
      BY <3>2, <3>3
  <2> QED
    BY <1>2, <2>3 DEF EditRename, Untouched
<1> QED
  BY <1>1, <1>2 DEF Edit

LEMMA DeprovisionOthers ==
  ASSUME NEW r \in Requests, HostInv, Deprovision(r) \/ StorePassword(r) PROVE Others(r)
<1> USE DEF Files
<1>0. Stored /\ TypeInv
  BY Parts DEF HostInv, KeepInv
<1>1. CASE Unreachable(r)
  BY <1>1 DEF Unreachable, Others, Untouched, host
<1>2. CASE Unpostmap(r)
  <2>1. \A f \in Compiled : \A a : compiled'[f][a] \in {compiled[f][a], files[f][a]}
    BY <1>0, <1>2, RecompileOther DEF Unpostmap
  <2> QED
    BY <1>2, <2>1 DEF Unpostmap, Others, Untouched
<1>3. CASE RemoveMaildir(r)
  <2> SUFFICES ASSUME NEW s \in Slots, s # at[r] PROVE Untouched(s)
    BY DEF Others
  <2>1. at[r] = <<"account", Address(r)>>
    BY <1>3, OwnLines DEF RemoveMaildir, ForwarderLabels, InFlight, Rest
  <2>2. s[1] = "account" => s[2] # Address(r)
    BY <2>1, SlotShape
  <2> QED
    BY <1>3, <2>2 DEF RemoveMaildir, Untouched
<1>4. CASE DeleteRow(r)
  BY <1>0, <1>4, DroppedOther DEF DeleteRow, Others, Untouched, host
<1>5. CASE StorePassword(r)
  BY <1>0, <1>5 DEF StorePassword, Others, Untouched, host, Stored
<1> QED
  BY <1>1, <1>2, <1>3, <1>4, <1>5 DEF Deprovision

-----------------------------------------------------------------------------
(* What a step does for its own slot.                                      *)

\* What is known of the slot of r before a step that keeps it clean.
LEMMA CleanBefore ==
  ASSUME NEW r \in Requests, HostInv, pc[r] \in InFlight, at[r] \notin odd
  PROVE  /\ IsAccount(r) => AccountAt(Address(r), pc[r], cur[r].value)
         /\ ~IsAccount(r) => ForwarderAt(Address(r), pc[r], cur[r].value)
         /\ pc[r] # "undo"
         /\ pc[r] \in Provisioning => rows[at[r]] = cur[r]
         /\ pc[r] \in {"relogin", "repass"} => rows[at[r]] # None
         /\ rows[at[r]] # None => rows[at[r]].key = cur[r].key
<1>1. at[r] \in Slots /\ Holds(r, at[r])
  BY OwnLines DEF Holds
<1>2. At(at[r], pc[r], cur[r].value)
  BY <1>1 DEF HostInv, Tracked
<1> QED
  BY <1>1, <1>2 DEF At, IsAccount, Address, HostInv, RightRow, KeepInv, OwnRow

\* A line appended where there was none.
LEMMA AppendLine ==
  ASSUME Stored, NEW r \in Requests, NEW f \in Files, NEW l, NEW next, Append(r, f, l, next),
         Address(r) \in Addresses, files[f][Address(r)] = None
  PROVE  /\ files'[f][Address(r)] = l
         /\ \A g \in Files : g # f => files'[g] = files[g]
<1>1. files[f] \in Contents
  BY DEF Stored
<1>2. files' = [files EXCEPT ![f] = [files[f] EXCEPT ![Address(r)] = l]]
  BY DEF Append
<1>3. files'[f] = [files[f] EXCEPT ![Address(r)] = l]
  BY <1>2 DEF Stored
<1> QED
  BY <1>1, <1>2, <1>3 DEF Stored, Contents

LEMMA GotoLabel ==
  ASSUME TypeInv, NEW r \in Requests, NEW l, Goto(r, l) PROVE pc'[r] = l
  BY DEF TypeInv, TypeOK, Goto

LEMMA ProvisionOwn ==
  ASSUME NEW r \in Requests, HostInv, Provision(r), at[r] \notin odd',
         NEW a \in Addresses, a = Address(r), NEW l, l = pc'[r], NEW v, v = cur[r].value
  PROVE  IF l \in InFlight
         THEN IF IsAccount(r) THEN AccountAt(a, l, v)' ELSE ForwarderAt(a, l, v)'
         ELSE \A s \in Slots : s = at[r] => Resting(s)'
<1> USE DEF Files
<1>0. Stored /\ TypeInv
  BY Parts DEF HostInv, KeepInv
<1>1. pc[r] \in InFlight
  BY DEF Provision, MakeMaildir, AddLogin, RegisterDomain, AddMailbox, AddAlias, Postmap,
         CommandRefused, Undo, InFlight, Provisioning, Rest
<1>2. \A f \in FaultKinds : ~Harm(r, f)
  BY DEF Harm
<1>3. CASE MakeMaildir(r)
  <2>1. pc[r] = "maildir" /\ l = "login" /\ odd' = odd
    BY <1>0, <1>2, <1>3, GotoLabel DEF MakeMaildir, Outcome, FaultKinds, Unharmed, history
  <2>2. IsAccount(r)
    BY <1>1, <2>1, OwnLines DEF ForwarderLabels
  <2>3. AccountAt(a, "maildir", v)
    BY <1>1, <2>1, <2>2, CleanBefore
  <2> QED
    BY <1>3, <2>1, <2>2, <2>3 DEF MakeMaildir, AccountAt, InFlight, Provisioning
<1>4. CASE AddLogin(r)
  <2>1. pc[r] = "login" /\ l = "domain" /\ odd \subseteq odd'
    BY <1>0, <1>2, <1>4, GotoLabel, HistoryGrows DEF AddLogin, Append, FaultKinds
  <2>2. IsAccount(r)
    BY <1>1, <2>1, OwnLines DEF ForwarderLabels
  <2>3. AccountAt(a, "login", v)
    BY <1>1, <2>1, <2>2, CleanBefore
  <2>4. files'["users"][a] = v /\ files'["maps"] = files["maps"]
    BY <1>0, <1>4, <2>3, AppendLine DEF AddLogin, AccountAt
  <2> QED
    BY <1>4, <2>1, <2>2, <2>3, <2>4 DEF AddLogin, Append, AccountAt, InFlight, Provisioning
<1>5. CASE RegisterDomain(r)
  <2>1. pc[r] = "domain" /\ l = "mailbox" /\ odd' = odd
    BY <1>0, <1>2, <1>5, GotoLabel DEF RegisterDomain, Outcome, FaultKinds, Unharmed, history
  <2>2. IsAccount(r)
    BY <1>1, <2>1, OwnLines DEF ForwarderLabels
  <2>3. AccountAt(a, "domain", v)
    BY <1>1, <2>1, <2>2, CleanBefore
  <2> QED
    BY <1>5, <2>1, <2>2, <2>3 DEF RegisterDomain, AccountAt, InFlight, Provisioning
<1>6. CASE AddMailbox(r)
  <2>1. pc[r] = "mailbox" /\ l = "postmap" /\ odd \subseteq odd'
    BY <1>0, <1>2, <1>6, GotoLabel, HistoryGrows DEF AddMailbox, Append, FaultKinds
  <2>2. IsAccount(r)
    BY <1>1, <2>1, OwnLines DEF ForwarderLabels
  <2>3. AccountAt(a, "mailbox", v)
    BY <1>1, <2>1, <2>2, CleanBefore
  <2>4. files'["maps"][a] = Home /\ files'["users"] = files["users"]
    BY <1>0, <1>6, <2>3, AppendLine DEF AddMailbox, AccountAt
  <2> QED
    BY <1>6, <2>1, <2>2, <2>3, <2>4 DEF AddMailbox, Append, AccountAt, InFlight, Provisioning
<1>7. CASE AddAlias(r)
  <2>1. pc[r] = "alias" /\ l = "postmap" /\ odd \subseteq odd'
    BY <1>0, <1>2, <1>7, GotoLabel, HistoryGrows DEF AddAlias, Append, FaultKinds
  <2>2. ~IsAccount(r)
    BY <1>1, <2>1, OwnLines DEF AccountLabels
  <2>3. ForwarderAt(a, "alias", v)
    BY <1>1, <2>1, <2>2, CleanBefore
  <2>4. files'["aliases"][a] = v
    BY <1>0, <1>7, <2>3, AppendLine DEF AddAlias, ForwarderAt
  <2> QED
    BY <1>7, <2>1, <2>2, <2>3, <2>4 DEF AddAlias, Append, ForwarderAt, InFlight, Provisioning
<1>8. CASE Postmap(r)
  <2>1. Recompile(r) /\ Return(r, "ok") /\ odd' = odd
    BY <1>2, <1>8 DEF Postmap, FaultKinds, Unharmed, history
  <2>2. pc[r] = "postmap" /\ l = "ok" /\ rows' = rows /\ files' = files
    BY <1>0, <1>8, <2>1, GotoLabel DEF Postmap, Return
  <2>3. rows[at[r]] = cur[r] /\ cur[r] # None /\ at[r] \in Slots
    BY <1>1, <2>1, <2>2, CleanBefore, OwnLines, NoneAssumption DEF Provisioning, NoneAssumption
  <2>4. CASE IsAccount(r)
    <3>1. AccountAt(a, "postmap", v) /\ at[r] = <<"account", a>>
      BY <1>1, <2>1, <2>2, <2>4, CleanBefore, OwnLines
    <3>2. compiled'["maps"][a] = files["maps"][a]
      BY <1>0, <2>1, <2>4 DEF Recompile, Stored, Compiled
    <3>3. AccountAt(a, "repass", v)'
      BY <1>8, <2>2, <3>1, <3>2 DEF Postmap, AccountAt
    <3> QED
      BY <2>2, <2>3, <3>1, <3>3 DEF Resting, InFlight, Provisioning, Edits, Rest
  <2>5. CASE ~IsAccount(r)
    <3>1. ForwarderAt(a, "postmap", v) /\ at[r] = <<"forwarder", a>>
      BY <1>1, <2>1, <2>2, <2>5, CleanBefore, OwnLines
    <3>2. compiled'["aliases"][a] = files["aliases"][a]
      BY <1>0, <2>1, <2>5 DEF Recompile, Stored, Compiled
    <3> QED
      BY <2>2, <2>3, <3>1, <3>2 DEF Resting, ForwarderAt, InFlight, Provisioning, Edits, Rest
  <2> QED
    BY <2>4, <2>5
<1>9. CASE CommandRefused(r)
  BY <1>2, <1>9 DEF CommandRefused, FaultKinds
<1>10. CASE Undo(r)
  <2>1. pc[r] = "undo" /\ odd' = odd
    BY <1>2, <1>10 DEF Undo, FaultKinds, Unharmed, history
  <2> QED
    BY <1>1, <2>1, CleanBefore
<1> QED
  BY <1>3, <1>4, <1>5, <1>6, <1>7, <1>8, <1>9, <1>10 DEF Provision

\* A rename puts the edited copy in the place of the file.
LEMMA RenamedLine ==
  ASSUME NEW r \in Requests, HostInv, EditRename(r), Address(r) \in Addresses
  PROVE  /\ files'[Edited[pc[r]]][Address(r)] =
              IF pc[r] = "relogin" /\ copy[r][Address(r)] # None THEN cur[r].value ELSE None
         /\ \A g \in Files : g # Edited[pc[r]] => files'[g] = files[g]
<1> DEFINE f == Edited[pc[r]]
           line == IF pc[r] = "relogin" /\ copy[r][Address(r)] # None THEN cur[r].value ELSE None
<1>1. Stored /\ f \in Files
  BY Parts DEF HostInv, KeepInv, EditRename, Edits, Edited, Files
<1>2. copy[r] \in Contents /\ files' = [files EXCEPT ![f] = [copy[r] EXCEPT ![Address(r)] = line]]
  BY <1>1 DEF EditRename, Stored
<1> HIDE DEF line
<1>3. files'[f] = [copy[r] EXCEPT ![Address(r)] = line] /\ \A g \in Files : g # f => files'[g] = files[g]
  BY <1>1, <1>2 DEF Stored
<1>4. files'[f][Address(r)] = line
  BY <1>2, <1>3 DEF Contents
<1> QED
  BY <1>3, <1>4 DEF line

LEMMA EditOwn ==
  ASSUME NEW r \in Requests, HostInv, Edit(r), at[r] \notin odd',
         NEW a \in Addresses, a = Address(r), NEW l, l = pc'[r], NEW v, v = cur[r].value
  PROVE  /\ l \in InFlight
         /\ IF IsAccount(r) THEN AccountAt(a, l, v)' ELSE ForwarderAt(a, l, v)'
<1> USE DEF Files
<1>0. Stored /\ TypeInv /\ pc[r] \in Edits /\ pc[r] \in InFlight
  BY Parts DEF HostInv, KeepInv, Edit, EditCopy, EditRename, EditRefused, InFlight
<1>1. CASE EditCopy(r)
  <2>1. l = pc[r] /\ at[r] \notin odd
    BY <1>1 DEF EditCopy, history
  <2>2. CASE IsAccount(r)
    <3>1. AccountAt(a, l, v)
      BY <1>0, <2>1, <2>2, CleanBefore
    <3> QED
      BY <1>0, <1>1, <2>1, <2>2, <3>1 DEF EditCopy, host, AccountAt
  <2>3. CASE ~IsAccount(r)
    <3>1. ForwarderAt(a, l, v)
      BY <1>0, <2>1, <2>3, CleanBefore
    <3> QED
      BY <1>0, <1>1, <2>1, <2>3, <3>1 DEF EditCopy, host, ForwarderAt
  <2> QED
    BY <2>2, <2>3
<1>2. CASE EditRename(r)
  <2>1. l = After[pc[r]] /\ at[r] \notin odd
    BY <1>0, <1>2, GotoLabel, HistoryGrows DEF EditRename, Edits, Edited
  <2>2. CASE pc[r] = "unlogin"
    <3>1. files'["users"][a] = None /\ l = "unmap"
      BY <1>2, <2>1, <2>2, RenamedLine DEF Edited, After
    <3> QED
      BY <1>0, <2>2, <3>1, OwnLines DEF AccountAt, InFlight, Edits, ForwarderLabels
  <2>3. CASE pc[r] = "unmap"
    <3>1. files'["maps"][a] = None /\ files'["users"] = files["users"] /\ l = "unpostmap"
      BY <1>2, <2>1, <2>3, RenamedLine DEF Edited, After
    <3>2. AccountAt(a, "unmap", v) /\ IsAccount(r)
      BY <1>0, <2>1, <2>3, CleanBefore, OwnLines DEF ForwarderLabels
    <3> QED
      BY <3>1, <3>2 DEF AccountAt, InFlight, Rest
  <2>4. CASE pc[r] = "unalias"
    <3>1. files'["aliases"][a] = None /\ l = "unpostmap"
      BY <1>2, <2>1, <2>4, RenamedLine DEF Edited, After
    <3> QED
      BY <1>0, <2>4, <3>1, OwnLines DEF ForwarderAt, InFlight, Rest, AccountLabels
  <2>5. CASE pc[r] = "relogin"
    <3>1. AccountAt(a, "relogin", v) /\ IsAccount(r) /\ at[r] = <<"account", a>>
      BY <1>0, <2>1, <2>5, CleanBefore, OwnLines DEF ForwarderLabels
    <3>2. copy[r] # None /\ copy[r][a] = files["users"][a]
      <4>1. copy[r] # None /\ Edited[pc[r]] = "users" /\ SlotOf("users", a) = at[r]
        BY <1>2, <2>5, <3>1 DEF EditRename, SlotOf, Edited
      <4> QED
        BY <2>1, <4>1 DEF HostInv, FreshCopies
    <3>3. copy[r][a] # None
      BY <3>1, <3>2 DEF AccountAt
    <3>4. files'["users"][a] = v /\ files'["maps"] = files["maps"] /\ l = "repass"
      BY <1>2, <2>1, <2>5, <3>3, RenamedLine DEF Edited, After
    <3> QED
      BY <1>2, <3>1, <3>4 DEF EditRename, AccountAt, InFlight, Rest
  <2> QED
    BY <1>0, <2>2, <2>3, <2>4, <2>5 DEF Edits
<1>3. CASE EditRefused(r)
  BY <1>3 DEF EditRefused, Harm
<1> QED
  BY <1>1, <1>2, <1>3 DEF Edit

LEMMA DeprovisionOwn ==
  ASSUME NEW r \in Requests, HostInv, Deprovision(r) \/ StorePassword(r), at[r] \notin odd',
         NEW a \in Addresses, a = Address(r), NEW l, l = pc'[r], NEW v, v = cur[r].value
  PROVE  IF l \in InFlight
         THEN IF IsAccount(r) THEN AccountAt(a, l, v)' ELSE ForwarderAt(a, l, v)'
         ELSE \A s \in Slots : s = at[r] => Resting(s)'
<1>0. Stored /\ TypeInv
  BY Parts DEF HostInv, KeepInv
<1>1. pc[r] \in InFlight
  BY DEF Deprovision, StorePassword, Unreachable, Unpostmap, RemoveMaildir, DeleteRow,
         InFlight, Edits, Rest
<1>2. \A f \in FaultKinds : ~Harm(r, f)
  BY DEF Harm
<1>3. CASE Unreachable(r)
  BY <1>2, <1>3 DEF Unreachable, FaultKinds
<1>4. CASE Unpostmap(r)
  <2>1. pc[r] = "unpostmap" /\ Recompile(r) /\ odd' = odd /\ files' = files
    BY <1>2, <1>4 DEF Unpostmap, FaultKinds, Unharmed, history
  <2>2. CASE IsAccount(r)
    <3>1. l = "unmail"
      BY <1>0, <1>4, <2>2, GotoLabel DEF Unpostmap
    <3>2. AccountAt(a, "unpostmap", v)
      BY <1>1, <2>1, <2>2, CleanBefore
    <3>3. compiled'["maps"][a] = files["maps"][a]
      BY <1>0, <2>1, <2>2 DEF Recompile, Stored, Compiled
    <3> QED
      BY <2>1, <2>2, <3>1, <3>2, <3>3 DEF AccountAt, InFlight, Rest
  <2>3. CASE ~IsAccount(r)
    <3>1. l = "unrow"
      BY <1>0, <1>4, <2>3, GotoLabel DEF Unpostmap
    <3>2. ForwarderAt(a, "unpostmap", v)
      BY <1>1, <2>1, <2>3, CleanBefore
    <3>3. compiled'["aliases"][a] = files["aliases"][a]
      BY <1>0, <2>1, <2>3 DEF Recompile, Stored, Compiled
    <3> QED
      BY <2>1, <2>3, <3>1, <3>2, <3>3 DEF ForwarderAt, InFlight, Rest
  <2> QED
    BY <2>2, <2>3
<1>5. CASE RemoveMaildir(r)
  <2>1. pc[r] = "unmail" /\ l = "unrow" /\ odd' = odd /\ mail' = mail \ {a}
    BY <1>0, <1>2, <1>5, GotoLabel DEF RemoveMaildir, FaultKinds, Unharmed, history
  <2>2. AccountAt(a, "unmail", v) /\ IsAccount(r)
    BY <1>1, <2>1, CleanBefore, OwnLines DEF ForwarderLabels
  <2> QED
    BY <1>5, <2>1, <2>2 DEF RemoveMaildir, AccountAt, InFlight, Rest
<1>6. CASE DeleteRow(r)
  <2>1. pc[r] = "unrow" /\ rows' = Dropped(r) /\ l = "ok" /\ odd' = odd
    BY <1>0, <1>2, <1>6, GotoLabel DEF DeleteRow, FaultKinds, Unharmed, history, Return
  <2>2. rows'[at[r]] = None
    BY <1>0, <1>1, <2>1, CleanBefore, OwnLines DEF Stored, Dropped
  <2>3. l \notin InFlight /\ UNCHANGED host
    BY <1>6, <2>1 DEF DeleteRow, InFlight, Provisioning, Edits, Rest
  <2>4. CASE IsAccount(r)
    <3>1. AccountAt(a, "unrow", v) /\ at[r] = <<"account", a>>
      BY <1>1, <2>1, <2>4, CleanBefore, OwnLines
    <3>2. AccountAt(a, "unrow", None)'
      BY <2>3, <3>1 DEF host, AccountAt
    <3> QED
      BY <2>2, <2>3, <3>1, <3>2 DEF Resting
  <2>5. CASE ~IsAccount(r)
    <3>1. ForwarderAt(a, "unrow", v) /\ at[r] = <<"forwarder", a>>
      BY <1>1, <2>1, <2>5, CleanBefore, OwnLines
    <3>2. ForwarderAt(a, "unrow", None)'
      BY <2>3, <3>1 DEF host, ForwarderAt
    <3> QED
      BY <2>2, <2>3, <3>1, <3>2 DEF Resting
  <2> QED
    BY <2>4, <2>5
<1>7. CASE StorePassword(r)
  <2>1. pc[r] = "repass" /\ l = "ok" /\ odd' = odd
    BY <1>0, <1>2, <1>7, GotoLabel DEF StorePassword, FaultKinds, Unharmed, history, Return
  <2>2. at[r] \in Slots /\ rows[at[r]] # None /\ rows[at[r]].key = cur[r].key /\ cur[r] # None
    BY <1>1, <2>1, CleanBefore, OwnLines, NoneAssumption DEF NoneAssumption
  <2>3. rows'[at[r]] = cur[r]
    BY <1>0, <1>2, <1>7, <2>2 DEF StorePassword, Stored, FaultKinds
  <2>4. AccountAt(a, "repass", v) /\ at[r] = <<"account", a>>
    BY <1>1, <2>1, CleanBefore, OwnLines DEF ForwarderLabels
  <2>5. AccountAt(a, "repass", v)' /\ l \notin InFlight
    BY <1>7, <2>1, <2>4 DEF StorePassword, host, AccountAt, InFlight, Provisioning, Edits, Rest
  <2> QED
    BY <2>2, <2>3, <2>4, <2>5 DEF Resting
<1> QED
  BY <1>3, <1>4, <1>5, <1>6, <1>7 DEF Deprovision

-----------------------------------------------------------------------------
(* Every step preserves the invariant.                                     *)

\* A step of a request that is under way.
Work(r) == Provision(r) \/ Edit(r) \/ Deprovision(r) \/ StorePassword(r)

LEMMA WorkFacts ==
  ASSUME NEW r \in Requests, TypeInv, Work(r)
  PROVE  /\ pc[r] \in InFlight
         /\ odd \subseteq odd'
         /\ \A q \in Requests : q # r => pc'[q] = pc[q] /\ at'[q] = at[q] /\ cur'[q] = cur[q]
         /\ pc'[r] \in InFlight => at'[r] = at[r] /\ cur'[r] = cur[r]
<1> USE DEF Files, FaultKinds
<1>1. pc[r] \in InFlight
  BY DEF Work, Provision, MakeMaildir, AddLogin, RegisterDomain, AddMailbox, AddAlias, Postmap,
         CommandRefused, Undo, Edit, EditCopy, EditRename, EditRefused, Deprovision,
         Unreachable, Unpostmap, RemoveMaildir, DeleteRow, StorePassword,
         InFlight, Provisioning, Edits, Rest
<1>2. odd \subseteq odd'
  BY DEF Work, Provision, MakeMaildir, AddLogin, RegisterDomain, AddMailbox, AddAlias, Append, Outcome,
         Postmap, CommandRefused, Undo, Edit, EditCopy, EditRename, EditRefused, Deprovision,
         Unreachable, Unpostmap, RemoveMaildir, DeleteRow, StorePassword, history, Harm, Write,
         Unharmed
<1>3. \/ \E l : Goto(r, l) /\ UNCHANGED <<at, cur>>
      \/ Return(r, "ok") \/ Return(r, "failed")
      \/ UNCHANGED <<pc, at, cur>>
  BY DEF Work, Provision, MakeMaildir, AddLogin, RegisterDomain, AddMailbox, AddAlias, Append, Outcome,
         Postmap, CommandRefused, Undo, Edit, EditCopy, EditRename, EditRefused, Deprovision,
         Unreachable, Unpostmap, RemoveMaildir, DeleteRow, StorePassword
<1>4. ASSUME NEW l, Goto(r, l), UNCHANGED <<at, cur>>
      PROVE  \A q \in Requests : (q # r => pc'[q] = pc[q]) /\ at'[q] = at[q] /\ cur'[q] = cur[q]
  BY <1>4 DEF Goto, TypeInv, TypeOK
<1>5. ASSUME NEW l \in {"ok", "failed"}, Return(r, l)
      PROVE  /\ \A q \in Requests : q # r => pc'[q] = pc[q] /\ at'[q] = at[q] /\ cur'[q] = cur[q]
             /\ pc'[r] \notin InFlight
  BY <1>5 DEF Return, Goto, TypeInv, TypeOK, InFlight, Provisioning, Edits, Rest
<1> QED
  BY <1>1, <1>2, <1>3, <1>4, <1>5

LEMMA TrackedWork ==
  ASSUME NEW r \in Requests, HostInv, Work(r) PROVE Tracked'
<1>0. TypeInv
  BY DEF HostInv, KeepInv
<1>1. Others(r)
  BY ProvisionOthers, EditOthers, DeprovisionOthers DEF Work
<1> SUFFICES ASSUME NEW s \in Slots, s \notin odd'
             PROVE  /\ \A q \in Requests : Holds(q, s)' => At(s, pc[q], cur[q].value)'
                    /\ (\A q \in Requests : ~Holds(q, s)') => Resting(s)'
  BY DEF Tracked
<1>2. s \notin odd
  BY <1>0, WorkFacts
<1>3. CASE s # at[r]
  <2>1. Untouched(s)
    BY <1>1, <1>3 DEF Others
  <2>2. \A q \in Requests : Holds(q, s)' <=> Holds(q, s)
    BY <1>0, <1>3, WorkFacts DEF Holds
  <2>3. ASSUME NEW q \in Requests, Holds(q, s)' PROVE At(s, pc[q], cur[q].value)'
    <3>1. Holds(q, s) /\ q # r
      BY <1>3, <2>2, <2>3 DEF Holds
    <3>2. At(s, pc[q], cur[q].value)
      BY <1>2, <3>1 DEF HostInv, Tracked
    <3> DEFINE l == pc[q]
               v == cur[q].value
    <3>3. l' = l /\ v' = v
      BY <1>0, <3>1, WorkFacts
    <3>4. \A k, u : At(s, k, u) => At(s, k, u)'
      BY <2>1, UntouchedSlot
    <3> QED
      BY <3>2, <3>3, <3>4 DEF At, AccountAt, ForwarderAt
  <2>4. ASSUME \A q \in Requests : ~Holds(q, s)' PROVE Resting(s)'
    BY <1>2, <2>1, <2>2, <2>4, UntouchedSlot DEF HostInv, Tracked
  <2> QED
    BY <2>3, <2>4
<1>4. CASE s = at[r]
  <2>1. pc[r] \in InFlight /\ Holds(r, s)
    BY <1>0, <1>4, WorkFacts DEF Holds
  <2>2. \A q \in Requests : q # r => ~Holds(q, s)'
    BY <1>0, <1>2, <2>1, WorkFacts DEF Holds, HostInv, KeepInv, OneHolder
  <2> DEFINE a == Address(r)
  <2>3. a \in Addresses /\ a = s[2] /\ (IsAccount(r) <=> s[1] = "account")
    BY <1>4, <2>1, OwnLines DEF Address, IsAccount
  <2>4. \A l, v : l = pc'[r] /\ v = cur[r].value =>
          IF l \in InFlight
          THEN IF s[1] = "account" THEN AccountAt(s[2], l, v)' ELSE ForwarderAt(s[2], l, v)'
          ELSE Resting(s)'
    BY <1>4, <2>3, ProvisionOwn, EditOwn, DeprovisionOwn DEF Work
  <2>5. CASE pc'[r] \in InFlight
    <3>1. cur'[r] = cur[r] /\ at'[r] = at[r]
      BY <1>0, <2>5, WorkFacts
    <3>2. \A l, v : l = pc'[r] /\ v = cur'[r].value => At(s, l, v)'
      BY <2>4, <2>5, <3>1 DEF At
    <3>3. At(s, pc[r], cur[r].value)'
      BY <3>2 DEF At, AccountAt, ForwarderAt
    <3>4. Holds(r, s)'
      BY <1>4, <2>5, <3>1 DEF Holds
    <3> QED
      BY <2>2, <3>3, <3>4
  <2>6. CASE pc'[r] \notin InFlight
    BY <2>2, <2>4, <2>6 DEF Holds
  <2> QED
    BY <2>5, <2>6
<1> QED
  BY <1>3, <1>4

LEMMA LabelWork ==
  ASSUME NEW r \in Requests, HostInv, Work(r) PROVE RightLabel'
<1>0. TypeInv
  BY DEF HostInv, KeepInv
<1> SUFFICES ASSUME pc'[r] \in InFlight
             PROVE  pc'[r] \in IF IsAccount(r) THEN AccountLabels ELSE ForwarderLabels
  BY <1>0, WorkFacts DEF HostInv, RightLabel, IsAccount
<1>1. pc[r] \in IF IsAccount(r) THEN AccountLabels ELSE ForwarderLabels
  BY <1>0, WorkFacts DEF HostInv, RightLabel
<1>2. pc'[r] \notin Ended
  BY DEF InFlight, Provisioning, Edits, Rest, Ended
<1>3. CASE Edit(r)
  <2>1. CASE EditCopy(r)
    BY <1>1, <2>1 DEF EditCopy
  <2>2. CASE EditRename(r) \/ EditRefused(r)
    <3>1. pc[r] \in Edits /\ pc'[r] = After[pc[r]]
      BY <1>0, <2>2, GotoLabel DEF EditRename, EditRefused
    <3> QED
      BY <1>1, <3>1 DEF Edits, After, AccountLabels, ForwarderLabels
  <2> QED
    BY <1>3, <2>1, <2>2 DEF Edit
<1>4. CASE Provision(r)
  BY <1>0, <1>1, <1>2, <1>4, GotoLabel
     DEF Provision, MakeMaildir, AddLogin, RegisterDomain, AddMailbox, AddAlias, Append, Outcome,
         Postmap, CommandRefused, Undo, Return, Ended, AccountLabels, ForwarderLabels
<1>5. CASE Deprovision(r) \/ StorePassword(r)
  BY <1>0, <1>1, <1>2, <1>5, GotoLabel
     DEF Deprovision, Unreachable, Unpostmap, RemoveMaildir, DeleteRow, StorePassword, Return, Ended,
         AccountLabels, ForwarderLabels
<1> QED
  BY <1>3, <1>4, <1>5 DEF Work

\* Only Dropped and StorePassword change rows, and only the row of their slot.
LEMMA RowsWork ==
  ASSUME NEW r \in Requests, HostInv, Work(r)
  PROVE  /\ \A s \in Slots : s # at[r] => rows'[s] = rows[s]
         /\ pc'[r] \in InFlight => rows' = rows
<1>0. Stored /\ TypeInv
  BY Parts DEF HostInv, KeepInv
<1>1. CASE rows' = rows
  BY <1>1
<1>2. CASE Undo(r) \/ DeleteRow(r)
  <2>1. pc'[r] \notin InFlight
    BY <1>0, <1>2, GotoLabel DEF Undo, DeleteRow, Return, InFlight, Provisioning, Edits, Rest
  <2> QED
    BY <1>0, <1>2, <2>1, DroppedOther DEF Undo, DeleteRow
<1>3. CASE StorePassword(r)
  <2>1. pc'[r] \notin InFlight
    BY <1>0, <1>3, GotoLabel DEF StorePassword, Return, InFlight, Provisioning, Edits, Rest
  <2> QED
    BY <1>0, <1>3, <2>1 DEF StorePassword, Stored
<1> QED
  BY <1>1, <1>2, <1>3
     DEF Work, Provision, MakeMaildir, AddLogin, RegisterDomain, AddMailbox, AddAlias, Append, Postmap,
         CommandRefused, Edit, EditCopy, EditRename, EditRefused, Deprovision,
         Unreachable, Unpostmap, RemoveMaildir

\* A request that stays clean goes on from label to label of its own operation.
LEMMA OwnRowWork ==
  ASSUME NEW r \in Requests, HostInv, Work(r), pc'[r] \in InFlight, at[r] \notin odd'
  PROVE  /\ pc'[r] # "undo"
         /\ pc'[r] \in Provisioning => pc[r] \in Provisioning
         /\ pc'[r] \in {"relogin", "repass"} => pc[r] \in {"relogin", "repass"}
<1>0. TypeInv
  BY DEF HostInv, KeepInv
<1>1. \A f \in FaultKinds : ~Harm(r, f)
  BY DEF Harm
<1>2. CASE Provision(r)
  BY <1>0, <1>1, <1>2, GotoLabel
     DEF Provision, MakeMaildir, AddLogin, RegisterDomain, AddMailbox, AddAlias, Append, Outcome,
         Postmap, CommandRefused, Undo, Return, Provisioning, FaultKinds, InFlight, Edits, Rest
<1>3. CASE Edit(r)
  <2>1. CASE EditCopy(r)
    BY <2>1 DEF EditCopy, Edits, Provisioning
  <2>2. CASE EditRename(r) \/ EditRefused(r)
    <3>1. pc[r] \in Edits /\ pc'[r] = After[pc[r]]
      BY <1>0, <2>2, GotoLabel DEF EditRename, EditRefused
    <3> QED
      BY <3>1 DEF Edits, After, Provisioning
  <2> QED
    BY <1>3, <2>1, <2>2 DEF Edit
<1>4. CASE Deprovision(r) \/ StorePassword(r)
  BY <1>0, <1>4, GotoLabel
     DEF Deprovision, Unreachable, Unpostmap, RemoveMaildir, DeleteRow, StorePassword, Return,
         Provisioning, InFlight, Edits, Rest
<1> QED
  BY <1>2, <1>3, <1>4 DEF Work

LEMMA RowWork ==
  ASSUME NEW r \in Requests, HostInv, Work(r) PROVE RightRow'
<1>0. TypeInv
  BY DEF HostInv, KeepInv
<1> SUFFICES ASSUME NEW q \in Requests, pc'[q] \in InFlight, at'[q] \notin odd'
             PROVE  /\ pc'[q] # "undo"
                    /\ pc'[q] \in Provisioning => rows'[at'[q]] = cur'[q]
                    /\ pc'[q] \in {"relogin", "repass"} => rows'[at'[q]] # None
  BY DEF RightRow
<1>1. CASE q = r
  <2>1. at'[r] = at[r] /\ cur'[r] = cur[r] /\ rows' = rows /\ pc[r] \in InFlight
    BY <1>0, <1>1, WorkFacts, RowsWork
  <2>2. at[r] \notin odd /\ at[r] \notin odd'
    BY <1>0, <1>1, <2>1, WorkFacts
  <2> QED
    BY <1>1, <2>1, <2>2, OwnRowWork DEF HostInv, RightRow
<1>2. CASE q # r
  <2>1. pc'[q] = pc[q] /\ at'[q] = at[q] /\ cur'[q] = cur[q] /\ at[q] \notin odd /\ pc[r] \in InFlight
    BY <1>0, <1>2, WorkFacts
  <2>2. at[q] \in Slots
    BY <2>1, OwnLines
  <2>3. at[q] # at[r]
    BY <1>2, <2>1, <2>2 DEF HostInv, KeepInv, OneHolder, Holds
  <2>4. rows'[at[q]] = rows[at[q]]
    BY <2>2, <2>3, RowsWork
  <2> QED
    BY <2>1, <2>4 DEF HostInv, RightRow
<1> QED
  BY <1>1, <1>2

\* Who writes a file that a sed has copied does not stay clean.
LEMMA OvertakenWork ==
  ASSUME NEW r \in Requests, HostInv, Work(r), NEW g \in Files, Overtaken(r, g), at[r] \notin odd'
  PROVE  files'[g] = files[g]
<1> USE DEF Files
<1>0. Stored
  BY Parts DEF HostInv, KeepInv
<1>1. ASSUME NEW f \in Files, NEW l, NEW next, Append(r, f, l, next) PROVE files'[g] = files[g]
  <2>1. f # g
    BY <1>1 DEF Append, Write, Harm
  <2> QED
    BY <1>0, <1>1, <2>1 DEF Append, Stored
<1>2. CASE EditRename(r)
  <2>1. Edited[pc[r]] \in Files /\ Edited[pc[r]] # g
    BY <1>2 DEF EditRename, Write, Edits, Edited
  <2> QED
    BY <1>0, <1>2, <2>1 DEF EditRename, Stored
<1> QED
  BY <1>1, <1>2 DEF Work, Provision, MakeMaildir, AddLogin, RegisterDomain, AddMailbox, AddAlias,
         Postmap, CommandRefused, Undo, Edit, EditCopy, EditRefused, Deprovision,
         Unreachable, Unpostmap, RemoveMaildir, DeleteRow, StorePassword, host

LEMMA CopyOfOthers ==
  ASSUME NEW r \in Requests, HostInv, Work(r), NEW q \in Requests, q # r
  PROVE  copy'[q] = copy[q]
<1>1. Stored
  BY Parts DEF HostInv, KeepInv
<1> QED
  BY <1>1 DEF Work, Provision, MakeMaildir, AddLogin, RegisterDomain, AddMailbox, AddAlias, Append,
         Postmap, CommandRefused, Undo, Edit, EditCopy, EditRename, EditRefused, Deprovision,
         Unreachable, Unpostmap, RemoveMaildir, DeleteRow, StorePassword, Stored

LEMMA OwnCopy ==
  ASSUME NEW r \in Requests, HostInv, Work(r), copy'[r] # None PROVE EditCopy(r)
<1>0. Stored
  BY Parts DEF HostInv, KeepInv
<1>1. pc[r] \notin Edits => copy[r] = None
  BY DEF HostInv, FreshCopies
<1>2. CASE Provision(r)
  BY <1>1, <1>2 DEF Provision, MakeMaildir, AddLogin, RegisterDomain, AddMailbox, AddAlias, Append,
                    Postmap, CommandRefused, Undo, Provisioning, Edits
<1>3. CASE Edit(r)
  BY <1>0, <1>3 DEF Edit, EditRename, EditRefused, Stored
<1>4. CASE Deprovision(r) \/ StorePassword(r)
  BY <1>1, <1>4 DEF Deprovision, Unreachable, Unpostmap, RemoveMaildir, DeleteRow, StorePassword, Edits
<1> QED
  BY <1>2, <1>3, <1>4 DEF Work

LEMMA FreshWork ==
  ASSUME NEW r \in Requests, HostInv, Work(r) PROVE FreshCopies'
<1>0. TypeInv /\ Stored
  BY Parts DEF HostInv, KeepInv
<1> SUFFICES ASSUME NEW q \in Requests, copy'[q] # None
             PROVE  /\ pc'[q] \in Edits
                    /\ \A a \in Addresses : SlotOf(Edited[pc'[q]], a) \notin odd'
                         => copy'[q][a] = files'[Edited[pc'[q]]][a]
  BY DEF FreshCopies, SlotOf
<1>1. CASE q = r
  <2>1. EditCopy(r)
    BY <1>1, OwnCopy
  <2>2. pc'[r] = pc[r] /\ pc[r] \in Edits /\ files' = files
    BY <2>1 DEF EditCopy, host
  <2>3. copy'[r] = files[Edited[pc[r]]]
    BY <1>0, <2>1 DEF EditCopy, Stored
  <2> QED
    BY <1>1, <2>2, <2>3
<1>2. CASE q # r
  <2> DEFINE g == Edited[pc[q]]
  <2>1. pc'[q] = pc[q] /\ copy'[q] = copy[q] /\ pc[q] \in Edits
    BY <1>0, <1>2, WorkFacts, CopyOfOthers DEF HostInv, FreshCopies
  <2>2. g \in Files /\ Overtaken(r, g)
    BY <1>2, <2>1 DEF Overtaken, Edits, Edited, Files
  <2>3. ASSUME NEW a \in Addresses, SlotOf(g, a) \notin odd' PROVE copy[q][a] = files'[g][a]
    <3> DEFINE s == SlotOf(g, a)
    <3>1. s \in Slots /\ s[2] = a
      BY DEF SlotOf, Slots, Kinds
    <3>2. copy[q][a] = files[g][a]
      BY <1>0, <2>1, <2>3, WorkFacts DEF HostInv, FreshCopies
    <3>3. CASE s = at[r]
      BY <2>2, <2>3, <3>2, <3>3, OvertakenWork
    <3>4. CASE s # at[r]
      <4>1. Others(r)
        BY ProvisionOthers, EditOthers, DeprovisionOthers DEF Work
      <4>2. Untouched(s)
        BY <2>3, <3>1, <3>4, <4>1 DEF Others
      <4>3. files'[g][s[2]] = files[g][s[2]]
        BY <2>2, <3>1, <4>2 DEF Untouched
      <4> QED
        BY <3>1, <3>2, <4>3
    <3> QED
      BY <3>3, <3>4
  <2> QED
    BY <2>1, <2>3
<1> QED
  BY <1>1, <1>2

\* A request that starts on a clean slot finds it at rest.
LEMMA StartHolds ==
  ASSUME NEW r \in Requests, HostInv, Start(r) \/ Refused(r)
  PROVE  RightLabel' /\ RightRow' /\ Tracked' /\ FreshCopies'
<1>0. TypeInv /\ Stored
  BY Parts DEF HostInv, KeepInv
<1>1. CASE Refused(r)
  <2>1. \A q \in Requests : pc'[q] = pc[q] \/ (pc'[q] = "failed" /\ pc[q] = "idle")
    BY <1>0, <1>1 DEF Refused, Goto, TypeInv, TypeOK
  <2>2. "failed" \notin InFlight /\ "idle" \notin InFlight /\ Edits \subseteq InFlight
    BY DEF InFlight, Provisioning, Edits, Rest
  <2>3. /\ rows' = rows /\ files' = files /\ compiled' = compiled /\ mail' = mail
        /\ registered' = registered /\ at' = at /\ cur' = cur /\ copy' = copy /\ odd' = odd
    BY <1>1 DEF Refused, host, history
  <2>4. \A q \in Requests : (pc'[q] \in InFlight <=> pc[q] \in InFlight)
                            /\ (pc[q] \in InFlight => pc'[q] = pc[q])
    BY <2>1, <2>2
  <2>5. \A q \in Requests, s \in Slots : Holds(q, s)' <=> Holds(q, s)
    BY <2>3, <2>4 DEF Holds
  <2>6. RightLabel'
    BY <2>3, <2>4 DEF HostInv, RightLabel, IsAccount
  <2>7. RightRow'
    BY <2>3, <2>4 DEF HostInv, RightRow
  <2>8. FreshCopies'
    BY <2>2, <2>3, <2>4 DEF HostInv, FreshCopies, SlotOf
  <2>9. Tracked'
    <3> SUFFICES ASSUME NEW s \in Slots, s \notin odd
                 PROVE  /\ \A q \in Requests : Holds(q, s)' => At(s, pc[q], cur[q].value)'
                        /\ (\A q \in Requests : ~Holds(q, s)') => Resting(s)'
      BY <2>3 DEF Tracked
    <3>1. Untouched(s)
      BY <2>3 DEF Untouched
    <3>2. ASSUME NEW q \in Requests, Holds(q, s)' PROVE At(s, pc[q], cur[q].value)'
      <4>1. Holds(q, s) /\ pc'[q] = pc[q]
        BY <2>4, <2>5, <3>2 DEF Holds
      <4>2. At(s, pc[q], cur[q].value)
        BY <4>1 DEF HostInv, Tracked
      <4> QED
        BY <2>3, <4>1, <4>2 DEF At, AccountAt, ForwarderAt
    <3> QED
      BY <2>5, <3>1, <3>2, UntouchedSlot DEF HostInv, Tracked
  <2> QED
    BY <2>6, <2>7, <2>8, <2>9
<1>2. ASSUME NEW s \in Slots, NEW row \in Rows, NEW l \in InFlight,
             Begin(r, s, row, l), UNCHANGED <<host, copy>>,
             \A x \in Slots \ {s} : rows'[x] = rows[x],
             l \in IF s[1] = "account" THEN AccountLabels ELSE ForwarderLabels,
             l # "undo",
             l \in Provisioning => rows'[s] = row,
             l \in {"relogin", "repass"} => rows'[s] # None,
             Resting(s) => At(s, l, row.value)
      PROVE  RightLabel' /\ RightRow' /\ Tracked' /\ FreshCopies'
  <2>1. /\ \A q \in Requests : q # r => pc'[q] = pc[q] /\ at'[q] = at[q] /\ cur'[q] = cur[q]
        /\ pc'[r] = l /\ at'[r] = s /\ cur'[r] = row /\ pc[r] = "idle"
        /\ odd \subseteq odd'
        /\ (\E q \in Requests : Holds(q, s)) => s \in odd'
    BY <1>0, <1>2 DEF Begin, Goto, TypeInv, TypeOK
  <2>2. "idle" \notin InFlight /\ "idle" \notin Edits
    BY DEF InFlight, Provisioning, Edits, Rest
  <2>3. RightLabel'
    BY <1>2, <2>1 DEF HostInv, RightLabel, IsAccount
  <2>4. RightRow'
    <3> SUFFICES ASSUME NEW q \in Requests, pc'[q] \in InFlight, at'[q] \notin odd'
                 PROVE  /\ pc'[q] # "undo"
                        /\ pc'[q] \in Provisioning => rows'[at'[q]] = cur'[q]
                        /\ pc'[q] \in {"relogin", "repass"} => rows'[at'[q]] # None
      BY DEF RightRow
    <3>1. CASE q = r
      BY <1>2, <2>1, <3>1
    <3>2. CASE q # r
      <4>1. at[q] \in Slots /\ at[q] # s /\ at[q] \notin odd /\ pc[q] \in InFlight
        BY <2>1, <3>2, OwnLines DEF Holds
      <4> QED
        BY <1>2, <2>1, <3>2, <4>1 DEF HostInv, RightRow
    <3> QED
      BY <3>1, <3>2
  <2>5. FreshCopies'
    <3> SUFFICES ASSUME NEW q \in Requests, copy'[q] # None
                 PROVE  /\ pc'[q] \in Edits
                        /\ \A a \in Addresses : SlotOf(Edited[pc'[q]], a) \notin odd'
                             => copy'[q][a] = files'[Edited[pc'[q]]][a]
      BY DEF FreshCopies, SlotOf
    <3>1. copy' = copy /\ files' = files
      BY <1>2 DEF host
    <3>2. q # r
      BY <2>1, <2>2, <3>1 DEF HostInv, FreshCopies
    <3> QED
      BY <2>1, <3>1, <3>2 DEF HostInv, FreshCopies
  <2>6. Tracked'
    <3> SUFFICES ASSUME NEW x \in Slots, x \notin odd'
                 PROVE  /\ \A q \in Requests : Holds(q, x)' => At(x, pc[q], cur[q].value)'
                        /\ (\A q \in Requests : ~Holds(q, x)') => Resting(x)'
      BY DEF Tracked
    <3>0. x \notin odd /\ UNCHANGED <<files, compiled, mail, registered>>
      BY <1>2, <2>1 DEF host
    <3>1. \A k, v : At(x, k, v) => At(x, k, v)'
      BY <3>0 DEF At, AccountAt, ForwarderAt
    <3>2. CASE x = s
      <4>1. \A q \in Requests : ~Holds(q, s)
        BY <2>1, <3>2
      <4>2. At(s, l, row.value)
        BY <1>2, <3>0, <3>2, <4>1 DEF HostInv, Tracked
      <4>3. \A q \in Requests : Holds(q, s)' => q = r
        BY <2>1, <4>1 DEF Holds
      <4>4. Holds(r, s)'
        BY <1>2, <2>1 DEF Holds
      <4>5. At(s, pc[r], cur[r].value)'
        BY <2>1, <3>0, <4>2 DEF At, AccountAt, ForwarderAt
      <4> QED
        BY <3>2, <4>3, <4>4, <4>5
    <3>3. CASE x # s
      <4>1. \A q \in Requests : Holds(q, x)' <=> Holds(q, x)
        BY <2>1, <2>2, <3>3 DEF Holds
      <4>2. ASSUME NEW q \in Requests, Holds(q, x)' PROVE At(x, pc[q], cur[q].value)'
        <5>1. Holds(q, x) /\ pc'[q] = pc[q] /\ cur'[q] = cur[q]
          BY <2>1, <2>2, <4>1, <4>2 DEF Holds
        <5>2. At(x, pc[q], cur[q].value)
          BY <3>0, <5>1 DEF HostInv, Tracked
        <5> QED
          BY <3>0, <5>1, <5>2 DEF At, AccountAt, ForwarderAt
      <4>3. Untouched(x)
        BY <1>2, <3>0, <3>3 DEF Untouched
      <4> QED
        BY <3>0, <4>1, <4>2, <4>3, UntouchedSlot DEF HostInv, Tracked
    <3> QED
      BY <3>2, <3>3
  <2> QED
    BY <2>3, <2>4, <2>5, <2>6
<1>3. ASSUME NEW s \in Slots, Delete(r, s) PROVE RightLabel' /\ RightRow' /\ Tracked' /\ FreshCopies'
  <2> DEFINE l == IF s[1] = "account" THEN "unlogin" ELSE "unalias"
  <2>1. rows[s] \in Rows /\ rows' = rows /\ Begin(r, s, rows[s], l) /\ UNCHANGED <<host, copy>>
    BY <1>0, <1>3 DEF Delete, Stored
  <2>2. /\ l \in InFlight /\ l # "undo" /\ l \notin Provisioning /\ l \notin {"relogin", "repass"}
        /\ l \in IF s[1] = "account" THEN AccountLabels ELSE ForwarderLabels
    BY DEF InFlight, Edits, Provisioning, AccountLabels, ForwarderLabels
  <2>3. At(s, l, rows[s].value)
    BY DEF At, AccountAt, ForwarderAt
  <2> HIDE DEF l
  <2> QED
    BY <1>2, <2>1, <2>2, <2>3
<1>4. ASSUME NEW s \in Slots, NEW v \in Values, Insert(r, s, v)
      PROVE  RightLabel' /\ RightRow' /\ Tracked' /\ FreshCopies'
  <2> DEFINE l == IF s[1] = "account" THEN "maildir" ELSE "alias"
             row == [key |-> r, value |-> v]
  <2>1. /\ row \in Rows /\ rows' = [rows EXCEPT ![s] = row] /\ Begin(r, s, row, l)
        /\ UNCHANGED <<host, copy>>
    BY <1>4 DEF Insert, Rows
  <2>2. /\ l \in InFlight /\ l # "undo" /\ l \notin {"relogin", "repass"}
        /\ l \in IF s[1] = "account" THEN AccountLabels ELSE ForwarderLabels
    BY DEF InFlight, Provisioning, AccountLabels, ForwarderLabels
  <2>3. rows'[s] = row /\ \A x \in Slots \ {s} : rows'[x] = rows[x]
    BY <1>0, <2>1 DEF Stored
  <2>4. Resting(s) => At(s, l, row.value)
    BY <1>4 DEF Insert, Resting, At, AccountAt, ForwarderAt
  <2> HIDE DEF l, row
  <2> QED
    BY <1>2, <2>1, <2>2, <2>3, <2>4
<1>5. ASSUME NEW b \in Addresses, NEW v \in Values, ChangePassword(r, b, v)
      PROVE  RightLabel' /\ RightRow' /\ Tracked' /\ FreshCopies'
  <2> DEFINE s == <<"account", b>>
             row == [rows[s] EXCEPT !.value = v]
  <2>0. s \in Slots /\ s[1] = "account"
    BY DEF Slots, Kinds
  <2>1. rows[s] \in Rows /\ rows' = rows /\ Begin(r, s, row, "relogin") /\ UNCHANGED <<host, copy>>
    BY <1>0, <1>5, <2>0 DEF ChangePassword, Stored
  <2>2. row \in Rows
    BY <2>1 DEF Rows
  <2>3. /\ "relogin" \in InFlight /\ "relogin" \notin Provisioning /\ "relogin" \in AccountLabels
    BY DEF InFlight, Edits, Provisioning, AccountLabels
  <2>4. rows[s] # None /\ rows[s].value \in Values
    BY <1>5, <2>1 DEF ChangePassword, Rows
  <2>5. Resting(s) => At(s, "relogin", row.value)
    BY <2>4, NoneAssumption DEF NoneAssumption, Resting, At, AccountAt
  <2> HIDE DEF row
  <2> QED
    BY <1>2, <2>0, <2>1, <2>2, <2>3, <2>4, <2>5
<1> QED
  BY <1>1, <1>3, <1>4, <1>5 DEF Start

LEMMA CrashHolds ==
  ASSUME HostInv, Crash PROVE RightLabel' /\ RightRow' /\ Tracked' /\ FreshCopies'
<1>1. /\ \A q \in Requests : pc'[q] \notin InFlight
      /\ \A q \in Requests : pc[q] \in InFlight => at[q] \in odd'
      /\ odd \subseteq odd'
      /\ UNCHANGED <<rows, host>>
  BY DEF Crash, InFlight, Provisioning, Edits, Rest
<1>2. \A q \in Requests : copy'[q] = None
  BY DEF Crash, HostInv, FreshCopies, InFlight
<1>3. Tracked'
  <2> SUFFICES ASSUME NEW s \in Slots, s \notin odd' PROVE Resting(s)'
    BY <1>1 DEF Tracked, Holds
  <2>1. s \notin odd /\ \A q \in Requests : ~Holds(q, s)
    BY <1>1 DEF Holds
  <2>2. Untouched(s)
    BY <1>1 DEF host, Untouched
  <2> QED
    BY <2>1, <2>2, UntouchedSlot DEF HostInv, Tracked
<1> QED
  BY <1>1, <1>2, <1>3 DEF RightLabel, RightRow, FreshCopies

LEMMA CascadeHolds ==
  ASSUME HostInv, NEW d \in Domains, Cascade(d)
  PROVE  RightLabel' /\ RightRow' /\ Tracked' /\ FreshCopies'
<1>1. /\ UNCHANGED <<host, locals>> /\ odd \subseteq odd'
      /\ \A s \in Slots : s \notin odd' => rows'[s] = rows[s]
  BY DEF Cascade
<1>2. pc' = pc /\ at' = at /\ cur' = cur /\ copy' = copy /\ files' = files
  BY <1>1 DEF locals, host
<1>3. RightLabel' /\ FreshCopies'
  BY <1>1, <1>2 DEF HostInv, RightLabel, IsAccount, FreshCopies, SlotOf
<1>4. RightRow'
  <2> SUFFICES ASSUME NEW q \in Requests, pc[q] \in InFlight, at[q] \notin odd'
               PROVE  /\ pc[q] # "undo"
                      /\ pc[q] \in Provisioning => rows'[at[q]] = cur[q]
                      /\ pc[q] \in {"relogin", "repass"} => rows'[at[q]] # None
    BY <1>2 DEF RightRow
  <2>1. at[q] \in Slots
    BY OwnLines
  <2> QED
    BY <1>1, <2>1 DEF HostInv, RightRow
<1>5. Tracked'
  <2> SUFFICES ASSUME NEW s \in Slots, s \notin odd'
               PROVE  /\ \A q \in Requests : Holds(q, s)' => At(s, pc[q], cur[q].value)'
                      /\ (\A q \in Requests : ~Holds(q, s)') => Resting(s)'
    BY DEF Tracked
  <2>1. s \notin odd /\ rows'[s] = rows[s] /\ \A q \in Requests : Holds(q, s)' <=> Holds(q, s)
    BY <1>1, <1>2 DEF Holds
  <2>2. Untouched(s)
    BY <1>1, <2>1 DEF host, Untouched
  <2>3. ASSUME NEW q \in Requests, Holds(q, s) PROVE At(s, pc[q], cur[q].value)'
    <3>1. At(s, pc[q], cur[q].value)
      BY <2>1, <2>3 DEF HostInv, Tracked
    <3> QED
      BY <1>1, <1>2, <3>1 DEF host, At, AccountAt, ForwarderAt
  <2> QED
    BY <2>1, <2>2, <2>3, UntouchedSlot DEF HostInv, Tracked
<1> QED
  BY <1>3, <1>4, <1>5

LEMMA HostStep == ASSUME HostInv, [Next]_vars PROVE HostInv'
<1>1. KeepInv'
  BY KeepStep DEF HostInv
<1>2. ASSUME NEW r \in Requests, Work(r) PROVE RightLabel' /\ RightRow' /\ Tracked' /\ FreshCopies'
  BY <1>2, LabelWork, RowWork, TrackedWork, FreshWork
<1>3. ASSUME UNCHANGED vars PROVE RightLabel' /\ RightRow' /\ Tracked' /\ FreshCopies'
  BY <1>3 DEF HostInv, RightLabel, RightRow, Tracked, FreshCopies, SlotOf, IsAccount, Holds, Resting,
              At, AccountAt, ForwarderAt, vars, host, locals, history
<1> QED
  BY <1>1, <1>2, <1>3, StartHolds, CrashHolds, CascadeHolds DEF Next, Work, Quiet, HostInv

\* The host serves the rows of the initial state.
LEMMA HostInit == ASSUME Init PROVE HostInv
<1>1. KeepInv
  BY TypeInit DEF Init, KeepInv, OneHolder, OwnRow, Holds, InFlight, Provisioning, Edits, Rest
<1>2. \A r \in Requests : pc[r] \notin InFlight /\ copy[r] = None
  BY DEF Init, InFlight, Provisioning, Edits, Rest
<1>3. ASSUME NEW s \in Slots PROVE Resting(s)
  <2> DEFINE a == s[2]
             acc == rows[<<"account", a>>]
             fwd == rows[<<"forwarder", a>>]
  <2>1. a \in Addresses
    BY SlotShape
  <2>2. /\ files["users"][a] = IF acc = None THEN None ELSE acc.value
        /\ files["maps"][a] = IF acc = None THEN None ELSE Home
        /\ files["aliases"][a] = IF fwd = None THEN None ELSE fwd.value
        /\ compiled["maps"][a] = IF acc = None THEN None ELSE Home
        /\ compiled["aliases"][a] = IF fwd = None THEN None ELSE fwd.value
    BY <2>1 DEF Init, Files, Compiled
  <2>3. (a \in mail <=> acc # None) /\ (acc # None => DomainOf[a] \in registered)
    BY <2>1 DEF Init
  <2> QED
    BY <2>2, <2>3, SlotShape DEF Resting, AccountAt, ForwarderAt
<1> QED
  BY <1>1, <1>2, <1>3 DEF HostInv, RightLabel, RightRow, Tracked, FreshCopies, Holds

-----------------------------------------------------------------------------

\* A settled slot is at rest, and that is what the properties say.
LEMMA RestingIsEnough == HostInv => RowsAreServed /\ NothingUnasked
<1> SUFFICES ASSUME HostInv, NEW s \in Slots, Settled(s)
             PROVE  /\ rows[s] # None => Served(s, rows[s].value)
                    /\ rows[s] = None => Bare(s)
  BY DEF RowsAreServed, NothingUnasked
<1>1. Resting(s)
  BY DEF HostInv, Tracked, Settled
<1> QED
  BY <1>1 DEF Resting, Served, Bare, AccountAt, ForwarderAt

\* The invariant of the host, for the two properties below.
THEOREM HostHolds == Spec => []HostInv
  BY HostInit, HostStep, PTL DEF Spec

\* Whatever other requests do to the shared files, a settled row is served.
THEOREM RowsAreServedHolds == Spec => []RowsAreServed
<1>1. HostInv => RowsAreServed
  BY RestingIsEnough
<1> QED
  BY HostHolds, <1>1, PTL

\* No settled slot without a row lets anybody log in, receive or forward mail.
THEOREM NothingUnaskedHolds == Spec => []NothingUnasked
<1>1. HostInv => NothingUnasked
  BY RestingIsEnough
<1> QED
  BY HostHolds, <1>1, PTL

-----------------------------------------------------------------------------
(* DeleteHeals speaks of slots in any disorder: what counts is that nobody *)
(* else is in flight while a request is lone, and that each command of its *)
(* deletion has taken effect, for otherwise it would not be lone.          *)

Undoing == {"unlogin", "unmap", "unalias", "unpostmap", "unmail", "unrow"}

\* What the commands of a deletion up to the label l have removed.
AccountGone(a, l) ==
  /\ l \in {"unmap", "unpostmap", "unmail", "unrow"} => files["users"][a] = None
  /\ l \in {"unpostmap", "unmail", "unrow"} => files["maps"][a] = None
  /\ l \in {"unmail", "unrow"} => compiled["maps"][a] = None
  /\ l = "unrow" => a \notin mail

ForwarderGone(a, l) ==
  /\ l \in {"unpostmap", "unrow"} => files["aliases"][a] = None
  /\ l = "unrow" => compiled["aliases"][a] = None

Cleared(r, l) ==
  /\ IF IsAccount(r) THEN AccountGone(Address(r), l) ELSE ForwarderGone(Address(r), l)
  /\ rows[at[r]] # None => rows[at[r]].key = cur[r].key

Alone == \A r \in lone, q \in Requests : q # r => pc[q] \notin InFlight
Clearing == \A r \in lone : pc[r] \in Undoing => Cleared(r, pc[r])
HealInv == HostInv /\ Alone /\ Clearing

LEMMA UndoingLabels == Undoing \subseteq InFlight
  BY DEF Undoing, InFlight, Edits, Rest

LEMMA WorkKeepsLone == ASSUME NEW r \in Requests, Work(r) PROVE lone' \subseteq lone
<1> USE DEF Files, FaultKinds
<1> QED
  BY DEF Work, Provision, MakeMaildir, AddLogin, RegisterDomain, AddMailbox, AddAlias, Append, Outcome,
         Postmap, CommandRefused, Undo, Edit, EditCopy, EditRename, EditRefused, Deprovision,
         Unreachable, Unpostmap, RemoveMaildir, DeleteRow, StorePassword, history, Harm, Write,
         Unharmed

\* Who is lone after a step was so before and took the step or slept through
\* it, or has just begun.
LEMMA LoneStep ==
  ASSUME HealInv, [Next]_vars, NEW r \in lone'
  PROVE  /\ r \in Requests
         /\ \A q \in Requests : q # r => pc'[q] \notin InFlight
         /\ \/ r \in lone /\ Work(r)
            \/ r \in lone /\ UNCHANGED <<rows, host, at, cur>> /\ pc'[r] \in {pc[r], "failed"}
            \/ \E s \in Slots : Delete(r, s)
            \/ pc'[r] \notin Undoing
<1>0. TypeInv /\ TypeInv' /\ Stored
  BY TypeStep, Parts DEF HealInv, HostInv, KeepInv
<1>1. r \in Requests
  BY <1>0 DEF TypeInv, TypeOK
<1>2. "failed" \notin InFlight /\ "idle" \notin InFlight
  BY DEF InFlight, Provisioning, Edits, Rest
<1>3. ASSUME NEW q \in Requests, Work(q)
      PROVE  q = r /\ r \in lone /\ \A p \in Requests : p # r => pc'[p] \notin InFlight
  <2>1. r \in lone /\ pc[q] \in InFlight
    BY <1>0, <1>3, WorkKeepsLone, WorkFacts
  <2>2. q = r
    BY <2>1 DEF HealInv, Alone
  <2> QED
    BY <1>0, <1>3, <2>1, <2>2, WorkFacts DEF HealInv, Alone
<1>4. ASSUME NEW q \in Requests, Refused(q)
      PROVE  /\ r \in lone /\ UNCHANGED <<rows, host, at, cur>> /\ pc'[r] \in {pc[r], "failed"}
             /\ \A p \in Requests : p # r => pc'[p] \notin InFlight
  <2>1. r \in lone /\ UNCHANGED <<rows, host, at, cur>>
    BY <1>4 DEF Refused, history
  <2>2. \A p \in Requests : pc'[p] \in {pc[p], "failed"}
    BY <1>0, <1>4 DEF Refused, Goto, TypeInv, TypeOK
  <2> QED
    BY <1>1, <1>2, <2>1, <2>2 DEF HealInv, Alone
<1>5. ASSUME NEW q \in Requests, NEW s, NEW row, NEW l, Begin(q, s, row, l)
      PROVE  q = r /\ pc'[r] = l /\ \A p \in Requests : p # r => pc'[p] \notin InFlight
  <2>1. lone' = {q} /\ Idle
    BY <1>5 DEF Begin
  <2>2. pc' = [pc EXCEPT ![q] = l]
    BY <1>5 DEF Begin, Goto
  <2> QED
    BY <1>0, <2>1, <2>2 DEF Idle, TypeInv, TypeOK
<1>6. ASSUME NEW q \in Requests, Start(q)
      PROVE  /\ \A p \in Requests : p # r => pc'[p] \notin InFlight
             /\ (\E s \in Slots : Delete(r, s)) \/ pc'[r] \notin Undoing
  <2>1. ASSUME NEW s \in Slots, Delete(q, s)
        PROVE  q = r /\ \A p \in Requests : p # r => pc'[p] \notin InFlight
    BY <1>5, <2>1 DEF Delete
  <2>2. ASSUME NEW s \in Slots, NEW v \in Values, Insert(q, s, v)
        PROVE  pc'[r] \in {"maildir", "alias"} /\ \A p \in Requests : p # r => pc'[p] \notin InFlight
    <3> DEFINE l == IF s[1] = "account" THEN "maildir" ELSE "alias"
    <3>1. Begin(q, s, [key |-> q, value |-> v], l) /\ l \in {"maildir", "alias"}
      BY <2>2 DEF Insert
    <3> HIDE DEF l
    <3> QED
      BY <1>5, <3>1
  <2>3. ASSUME NEW a \in Addresses, NEW v \in Values, ChangePassword(q, a, v)
        PROVE  pc'[r] = "relogin" /\ \A p \in Requests : p # r => pc'[p] \notin InFlight
    <3>1. \E row : Begin(q, <<"account", a>>, row, "relogin")
      BY <2>3 DEF ChangePassword
    <3> QED
      BY <1>5, <3>1
  <2>4. {"maildir", "alias", "relogin"} \cap Undoing = {}
    BY DEF Undoing
  <2> QED
    BY <1>6, <2>1, <2>2, <2>3, <2>4 DEF Start
<1>7. ~Crash /\ \A d \in Domains : ~Cascade(d)
  BY DEF Crash, Cascade
<1>8. ASSUME UNCHANGED vars
      PROVE  /\ r \in lone /\ UNCHANGED <<rows, host, at, cur>> /\ pc'[r] = pc[r]
             /\ \A p \in Requests : p # r => pc'[p] \notin InFlight
  <2>1. lone' = lone /\ pc' = pc /\ UNCHANGED <<rows, host, at, cur>>
    BY <1>8 DEF vars, history, locals
  <2> QED
    BY <2>1 DEF HealInv, Alone
<1> QED
  BY <1>1, <1>3, <1>4, <1>6, <1>7, <1>8 DEF Next, Work, Quiet

\* The commands of a deletion that stays lone.
LEMMA EditClears ==
  ASSUME HealInv, NEW r \in lone, r \in lone', NEW a \in Addresses, a = Address(r), NEW l, l = pc'[r],
         Edit(r), l \in Undoing, pc[r] \in Undoing, Cleared(r, pc[r])
  PROVE  IF IsAccount(r) THEN AccountGone(a, l)' ELSE ForwarderGone(a, l)'
<1>0. HostInv /\ TypeInv /\ r \in Requests
  BY DEF HealInv, HostInv, KeepInv, TypeInv, TypeOK
<1>1. ~EditRefused(r)
  BY DEF EditRefused, Harm
<1>2. CASE EditCopy(r)
  BY <1>2 DEF EditCopy, host, Cleared, AccountGone, ForwarderGone
<1>3. CASE EditRename(r)
  <2>1. /\ pc[r] \in {"unlogin", "unmap", "unalias"} /\ l = After[pc[r]]
        /\ compiled' = compiled /\ mail' = mail
    BY <1>0, <1>3, GotoLabel DEF EditRename, Undoing, Edits
  <2>2. /\ files'[Edited[pc[r]]][a] = None
        /\ \A g \in Files : g # Edited[pc[r]] => files'[g] = files[g]
    BY <1>0, <1>3, <2>1, RenamedLine
  <2>3. pc[r] \in IF IsAccount(r) THEN AccountLabels ELSE ForwarderLabels
    BY <1>0, UndoingLabels DEF HostInv, RightLabel
  <2>4. CASE pc[r] = "unlogin"
    <3>1. files'["users"][a] = None /\ l = "unmap" /\ IsAccount(r)
      BY <2>1, <2>2, <2>3, <2>4 DEF Edited, After, ForwarderLabels
    <3> QED
      BY <3>1 DEF AccountGone
  <2>5. CASE pc[r] = "unmap"
    <3>1. files'["maps"][a] = None /\ l = "unpostmap" /\ IsAccount(r)
      BY <2>1, <2>2, <2>3, <2>5 DEF Edited, After, ForwarderLabels
    <3>2. files'["users"] = files["users"]
      BY <2>2, <2>5 DEF Edited, Files
    <3>3. files["users"][a] = None
      BY <2>5, <3>1 DEF Cleared, AccountGone
    <3> QED
      BY <3>1, <3>2, <3>3 DEF AccountGone
  <2>6. CASE pc[r] = "unalias"
    <3>1. files'["aliases"][a] = None /\ l = "unpostmap" /\ ~IsAccount(r)
      BY <2>1, <2>2, <2>3, <2>6 DEF Edited, After, AccountLabels
    <3> QED
      BY <3>1 DEF ForwarderGone
  <2> QED
    BY <2>1, <2>4, <2>5, <2>6
<1> QED
  BY <1>1, <1>2, <1>3 DEF Edit

LEMMA DeprovisionClears ==
  ASSUME HealInv, NEW r \in lone, r \in lone', NEW a \in Addresses, a = Address(r), NEW l, l = pc'[r],
         Deprovision(r), l \in Undoing, pc[r] \in Undoing, Cleared(r, pc[r])
  PROVE  IF IsAccount(r) THEN AccountGone(a, l)' ELSE ForwarderGone(a, l)'
<1>0. HostInv /\ TypeInv /\ Stored /\ r \in Requests
  BY Parts DEF HealInv, HostInv, KeepInv, TypeInv, TypeOK
<1>1. \A f : ~Harm(r, f)
  BY DEF Harm
<1>2. ~Unreachable(r)
  BY <1>1 DEF Unreachable
<1>3. CASE Unpostmap(r)
  <2>1. pc[r] = "unpostmap" /\ Recompile(r) /\ files' = files /\ mail' = mail
    BY <1>1, <1>3 DEF Unpostmap
  <2>2. CASE IsAccount(r)
    <3>1. l = "unmail"
      BY <1>0, <1>3, <2>2, GotoLabel DEF Unpostmap
    <3>2. compiled'["maps"] = files["maps"]
      BY <1>0, <2>1, <2>2 DEF Recompile, Stored, Compiled
    <3>3. files["users"][a] = None /\ files["maps"][a] = None
      BY <2>1, <2>2 DEF Cleared, AccountGone
    <3> QED
      BY <2>1, <2>2, <3>1, <3>2, <3>3 DEF AccountGone
  <2>3. CASE ~IsAccount(r)
    <3>1. l = "unrow"
      BY <1>0, <1>3, <2>3, GotoLabel DEF Unpostmap
    <3>2. compiled'["aliases"] = files["aliases"]
      BY <1>0, <2>1, <2>3 DEF Recompile, Stored, Compiled
    <3>3. files["aliases"][a] = None
      BY <2>1, <2>3 DEF Cleared, ForwarderGone
    <3> QED
      BY <2>1, <2>3, <3>1, <3>2, <3>3 DEF ForwarderGone
  <2> QED
    BY <2>2, <2>3
<1>4. CASE RemoveMaildir(r)
  <2>1. /\ pc[r] = "unmail" /\ l = "unrow" /\ mail' = mail \ {a}
        /\ files' = files /\ compiled' = compiled
    BY <1>0, <1>1, <1>4, GotoLabel DEF RemoveMaildir
  <2>2. IsAccount(r)
    BY <1>0, <2>1, UndoingLabels DEF HostInv, RightLabel, ForwarderLabels
  <2>3. files["users"][a] = None /\ files["maps"][a] = None /\ compiled["maps"][a] = None
    BY <2>1, <2>2 DEF Cleared, AccountGone
  <2> QED
    BY <2>1, <2>2, <2>3 DEF AccountGone
<1>5. CASE DeleteRow(r)
  <2>1. l \in Ended
    BY <1>0, <1>5, GotoLabel DEF DeleteRow, Return, Ended
  <2> QED
    BY <2>1 DEF Ended, Undoing
<1> QED
  BY <1>2, <1>3, <1>4, <1>5 DEF Deprovision

\* From one command of a deletion to the next the row stays; nothing else leads
\* into a deletion.
LEMMA UndoingWork ==
  ASSUME HealInv, NEW r \in lone, r \in lone', Work(r), pc'[r] \in Undoing
  PROVE  pc[r] \in Undoing /\ (Edit(r) \/ Deprovision(r)) /\ rows' = rows
<1>0. TypeInv /\ r \in Requests
  BY DEF HealInv, HostInv, KeepInv, TypeInv, TypeOK
<1>1. ~Provision(r)
  <2> USE DEF Undoing
  <2> QED
    BY <1>0, GotoLabel DEF Provision, MakeMaildir, AddLogin, RegisterDomain, AddMailbox, AddAlias,
         Append, Outcome, Postmap, CommandRefused, Undo, Return
<1>2. ~StorePassword(r)
  BY <1>0, GotoLabel DEF StorePassword, Return, Undoing
<1>3. CASE Edit(r)
  <2>1. pc[r] \in Edits /\ rows' = rows /\ (pc'[r] = pc[r] \/ pc'[r] = After[pc[r]])
    BY <1>0, <1>3, GotoLabel DEF Edit, EditCopy, EditRename, EditRefused
  <2>2. pc[r] # "relogin"
    BY <2>1 DEF After, Undoing
  <2> QED
    BY <1>3, <2>1, <2>2 DEF Edits, Undoing
<1>4. CASE Deprovision(r)
  <2>1. ~DeleteRow(r)
    BY <1>0, GotoLabel DEF DeleteRow, Return, Undoing
  <2> QED
    BY <1>4, <2>1 DEF Deprovision, Unreachable, Unpostmap, RemoveMaildir, Undoing
<1> QED
  BY <1>1, <1>2, <1>3, <1>4 DEF Work

LEMMA HealStep == ASSUME HealInv, [Next]_vars PROVE HealInv'
<1>1. HostInv'
  BY HostStep DEF HealInv
<1>2. Alone'
  BY LoneStep DEF Alone
<1>3. ASSUME NEW r \in lone', pc'[r] \in Undoing PROVE Cleared(r, pc[r])'
  <2>0. TypeInv /\ Stored /\ r \in Requests /\ pc'[r] \in InFlight
    BY <1>3, LoneStep, Parts, UndoingLabels DEF HealInv, HostInv, KeepInv
  <2>1. CASE r \in lone /\ Work(r)
    <3>1. pc[r] \in Undoing /\ (Edit(r) \/ Deprovision(r)) /\ rows' = rows
      BY <1>3, <2>1, UndoingWork
    <3>2. Cleared(r, pc[r]) /\ at'[r] = at[r] /\ cur'[r] = cur[r]
      BY <2>0, <2>1, <3>1, WorkFacts DEF HealInv, Clearing
    <3>3. Address(r) \in Addresses
      BY <2>0, <2>1, <3>1, OwnLines, UndoingLabels DEF HealInv
    <3>4. PICK a \in Addresses : a = Address(r)
      BY <3>3
    <3>5. PICK l : l = pc'[r]
      OBVIOUS
    <3>6. IF IsAccount(r) THEN AccountGone(a, l)' ELSE ForwarderGone(a, l)'
      BY <1>3, <2>1, <3>1, <3>2, <3>4, <3>5, EditClears, DeprovisionClears
    <3>7. Address(r)' = a /\ (IsAccount(r)' <=> IsAccount(r))
      BY <3>2, <3>4 DEF Address, IsAccount
    <3> QED
      BY <3>1, <3>2, <3>5, <3>6, <3>7 DEF Cleared, AccountGone, ForwarderGone
  <2>2. CASE r \in lone /\ UNCHANGED <<rows, host, at, cur>> /\ pc'[r] \in {pc[r], "failed"}
    <3>1. pc'[r] = pc[r] /\ Cleared(r, pc[r])
      BY <1>3, <2>2 DEF Undoing, HealInv, Clearing
    <3> QED
      BY <2>2, <3>1 DEF host, Cleared, IsAccount, Address, AccountGone, ForwarderGone
  <2>3. ASSUME NEW s \in Slots, Delete(r, s) PROVE Cleared(r, pc[r])'
    <3> DEFINE l == IF s[1] = "account" THEN "unlogin" ELSE "unalias"
    <3>1. Begin(r, s, rows[s], l) /\ rows' = rows
      BY <2>3 DEF Delete
    <3>2. pc'[r] = l
      BY <2>0, <3>1, GotoLabel DEF Begin
    <3>3. at'[r] = s /\ cur'[r] = rows[s]
      BY <2>0, <3>1 DEF Begin, TypeInv, TypeOK
    <3>4. AccountGone(Address(r), l)' /\ ForwarderGone(Address(r), l)'
      BY DEF AccountGone, ForwarderGone
    <3> HIDE DEF l
    <3> QED
      BY <3>1, <3>2, <3>3, <3>4 DEF Cleared, AccountGone, ForwarderGone
  <2> QED
    BY <1>3, <2>1, <2>2, <2>3, LoneStep
<1> QED
  BY <1>1, <1>2, <1>3 DEF HealInv, Clearing

\* Whatever disorder earlier faults left, a deletion that meets nobody and no
\* fault takes the row and every line of its slot.
THEOREM DeleteHealsHolds == Spec => DeleteHeals
<1>1. Init => HealInv
  BY HostInit DEF Init, HealInv, Alone, Clearing
<1>2. ASSUME HealInv, [Next]_vars, NEW r \in lone, pc[r] = "unrow", pc'[r] = "ok"
      PROVE  rows'[at[r]] = None /\ Bare(at[r])
  <2>0. /\ TypeInv /\ Stored /\ HostInv /\ r \in Requests
        /\ pc[r] \in InFlight /\ pc[r] \in Undoing
    BY <1>2, Parts, UndoingLabels DEF HealInv, HostInv, KeepInv, TypeInv, TypeOK, Undoing
  <2>1. at[r] \in Slots /\ Cleared(r, "unrow")
    BY <1>2, <2>0, OwnLines DEF HealInv, Clearing
  <2>2. rows' = Dropped(r)
    <3>1. ASSUME NEW q \in Requests, Work(q) PROVE q = r /\ DeleteRow(r)
      <4>1. q = r
        BY <1>2, <2>0, <3>1, WorkFacts
      <4> QED
        BY <1>2, <3>1, <4>1 DEF Work, Provision, MakeMaildir, AddLogin, RegisterDomain, AddMailbox,
             AddAlias, Postmap, CommandRefused, Undo, Edit, EditCopy, EditRename, EditRefused,
             Deprovision, Unreachable, Unpostmap, RemoveMaildir, StorePassword, Provisioning, Edits
    <3>2. ASSUME NEW q \in Requests, NEW l, pc[q] = "idle", Goto(q, l) PROVE FALSE
      BY <1>2, <2>0, <3>2 DEF Goto, TypeInv, TypeOK
    <3>3. \A q \in Requests : ~Start(q) /\ ~Refused(q)
      BY <3>2 DEF Start, Delete, Insert, ChangePassword, Begin, Refused
    <3>4. ~Crash /\ ~UNCHANGED vars /\ \A d \in Domains : ~Cascade(d)
      BY <1>2, <2>0 DEF Crash, Cascade, vars, locals
    <3>5. DeleteRow(r)
      BY <1>2, <3>1, <3>3, <3>4 DEF Next, Work, Quiet
    <3>6. ~Return(r, "failed")
      BY <1>2, <2>0, GotoLabel DEF Return
    <3> QED
      BY <3>5, <3>6 DEF DeleteRow
  <2>3. rows'[at[r]] = None
    BY <2>0, <2>1, <2>2 DEF Stored, Dropped, Cleared
  <2>4. Bare(at[r])
    BY <2>1 DEF Cleared, AccountGone, ForwarderGone, Bare, IsAccount, Address
  <2> QED
    BY <2>3, <2>4
<1>3. HealInv /\ [Next]_vars =>
        [\A r \in lone : pc[r] = "unrow" /\ pc'[r] = "ok"
           => rows'[at[r]] = None /\ Bare(at[r])]_vars
  BY <1>2
<1>4. HealInv /\ [Next]_vars => HealInv'
  BY HealStep
<1> QED
  BY <1>1, <1>3, <1>4, PTL DEF Spec, DeleteHeals
=============================================================================
