------------------------ MODULE PanelProcess_proofs ------------------------
(***************************************************************************)
(* For any number of goroutines of each kind, of servers and of updates,   *)
(* whatever fails: what the runs check of the installation of the mail     *)
(* server, of the server service, and of the two in one process.           *)
(***************************************************************************)
EXTENDS PanelProcess, TLAPS

-----------------------------------------------------------------------------
(* The installation of the mail server                                     *)

\* Where each kind of goroutine can be, and that an installer which has come to
\* a command has one left.
Places ==
  /\ \A h \in Handlers : at[h] \in {"idle", "lock", "check", "reset", "refuse", "release"}
  /\ \A p \in Polls : at[p] \in {"idle", "lock", "copy"}
  /\ \A i \in Installers :
       /\ at[i] \in {"idle", "command", "lock", "log", "finish", "leave"}
       /\ at[i] = "idle" => stage[i] = 1
       /\ at[i] \in {"command", "log"} => stage[i] # Finishing
       /\ at[i] = "finish" => stage[i] = Finishing

\* Three kinds of commands.
LEMMA StageFacts ==
  Finishing = 4 /\ DOMAIN Stages = 1 .. 3 /\ \A n \in 1 .. 3 : Stages[n] \in StageNames
<1>1. Len(Stages) = 3 /\ DOMAIN Stages = 1 .. 3
  BY DEF Stages
<1>2. QED
  BY <1>1 DEF Finishing, StageNames

\* Unless installations have crossed, at most one is carried out, the struct says
\* so from the moment that its handler has assigned running, and what one
\* goroutine has assigned no other has overwritten.
Sole ==
  ~crossed => \A g \in Working :
    /\ \A k \in Working : k = g
    /\ at[g] \in {"release", "command", "lock", "log"} => running
    /\ at[g] = "reset" => "running" \in unset[g] \/ running
    /\ at[g] = "reset" => "done" \in unset[g] \/ ~done
    /\ at[g] = "finish" => "errMsg" \in unset[g] \/ (failed <=> verdict[g])

\* What an installer without an error has behind it is on the host.
Progress ==
  /\ \A i \in Installers : ~verdict[i] =>
       \A n \in 1 .. stage[i] - 1 : Stages[n] \notin Unchecked => Stages[n] \in host
  /\ DoneIsInstalled

MailInv == MailTypeOK /\ Places /\ Sole /\ Progress

\* At the start nobody has locked, accepted or installed anything.
LEMMA MailInitHolds == MailInit => MailInv
<1> SUFFICES ASSUME MailInit PROVE MailInv
  OBVIOUS
<1> USE KindAssumption, StageFacts
    DEF KindAssumption, MailInit, Resting, AtFirst, NoErrors, AllSet, Goroutines, Halfway
<1>1. MailTypeOK
  <2>1. at \in [Goroutines -> {"idle", "lock", "command"} \cup Critical]
    OBVIOUS
  <2>2. stage \in [Installers -> 1 .. Finishing]
    OBVIOUS
  <2>3. verdict \in [Installers -> BOOLEAN]
    OBVIOUS
  <2>4. unset \in [Handlers \cup Installers -> SUBSET Fields]
    OBVIOUS
  <2>5. QED
    BY <2>1, <2>2, <2>3, <2>4 DEF MailTypeOK
<1>2. Places
  BY DEF Places
<1>3. Sole
  BY DEF Sole, Working
<1>4. Progress
  BY DEF Progress, DoneIsInstalled
<1>5. QED
  BY <1>1, <1>2, <1>3, <1>4 DEF MailInv

\* The two outcomes of Check.
LEMMA CheckCases ==
  ASSUME NEW h \in Handlers, Check(h)
  PROVE  /\ at[h] = "check"
         /\ UNCHANGED <<up, locked, asleep, state, stage, verdict, host>>
         /\ \/ /\ running
               /\ at' = [at EXCEPT ![h] = "refuse"]
               /\ UNCHANGED <<unset, crossed>>
            \/ /\ ~running
               /\ at' = [at EXCEPT ![h] = "reset"]
               /\ unset' = [unset EXCEPT ![h] = Fields]
               /\ crossed' <=> \E g \in Working \ {h} : crossed \/ g \in Halfway
               /\ crossed' \in BOOLEAN
<1>1. at[h] = "check"
  BY Zenon DEF Check
<1>2. CASE ~running /\ Accept(h)
  BY <1>1, <1>2, Zenon DEF Accept, Goto
<1>3. CASE running /\ ~Accept(h)
  BY <1>1, <1>3, Zenon DEF Check, Goto
<1>4. CASE running /\ Accept(h)
  BY <1>1, <1>4, Zenon DEF Check, Goto
<1>5. QED
  BY <1>2, <1>3, <1>4, Zenon DEF Check

\* One field, and what goes with the last.
LEMMA AssignCases ==
  ASSUME NEW g \in Handlers \cup Installers, Assign(g), MailTypeOK, Places
  PROVE  /\ g \in Halfway
         /\ g \in Handlers => at[g] = "reset" /\ g \notin Installers
         /\ g \in Installers => at[g] = "finish" /\ g \notin Handlers
         /\ UNCHANGED <<up, stage, verdict, host, crossed>>
         /\ locked' \in BOOLEAN /\ asleep' \subseteq Goroutines
         /\ \E f \in unset[g] :
              /\ unset' = [unset EXCEPT ![g] = @ \ {f}]
              /\ IF unset[g] # {f} THEN UNCHANGED at
                 ELSE at' = [at EXCEPT ![g] = IF g \in Handlers THEN "release" ELSE "leave"]
              /\ f = "running" => (running' <=> g \in Handlers)
              /\ f # "running" => (running' <=> running)
              /\ f = "done" => (done' <=> g \in Installers)
              /\ f # "done" => (done' <=> done)
              /\ f = "errMsg" => (failed' <=> g \in Installers /\ verdict[g])
              /\ f # "errMsg" => (failed' <=> failed)
              /\ running' \in BOOLEAN /\ done' \in BOOLEAN /\ failed' \in BOOLEAN
<1> USE KindAssumption DEF KindAssumption
<1>1. PICK f \in unset[g] :
        /\ unset' = [unset EXCEPT ![g] = @ \ {f}]
        /\ running' = IF f = "running" THEN g \in Handlers ELSE running
        /\ done' = IF f = "done" THEN g \in Installers ELSE done
        /\ failed' = IF f = "errMsg" THEN g \in Installers /\ verdict[g] ELSE failed
        /\ IF unset[g] # {f} THEN UNCHANGED at
           ELSE at' = [at EXCEPT ![g] = IF g \in Handlers THEN "release" ELSE "leave"]
        /\ locked' \in {locked, FALSE}
        /\ asleep' = asleep \/ \E S \in SUBSET {w \in Goroutines : at[w] = "lock"} :
                                 asleep' = asleep \cup S
        /\ UNCHANGED <<up, stage, verdict, host, crossed>>
  BY DEF Assign, Goto
<1>2. g \in Halfway
  BY <1>1 DEF MailTypeOK
<1>3. /\ g \in Handlers => at[g] = "reset" /\ g \notin Installers
      /\ g \in Installers => at[g] = "finish" /\ g \notin Handlers
  BY <1>2 DEF Halfway, Places
<1>4. locked' \in BOOLEAN /\ asleep' \subseteq Goroutines
  BY <1>1 DEF MailTypeOK
<1>5. running' <=> IF f = "running" THEN g \in Handlers ELSE running
  BY <1>1, Zenon
<1>6. done' <=> IF f = "done" THEN g \in Installers ELSE done
  BY <1>1, Zenon
<1>7. failed' <=> IF f = "errMsg" THEN g \in Installers /\ verdict[g] ELSE failed
  BY <1>1, Zenon
<1>8. running' \in BOOLEAN /\ done' \in BOOLEAN /\ failed' \in BOOLEAN
  <2>1. running \in BOOLEAN /\ done \in BOOLEAN /\ failed \in BOOLEAN
    BY DEF MailTypeOK
  <2>2. running' \in BOOLEAN
    <3>1. CASE f = "running"
      <4>1. running' = (g \in Handlers)
        BY <1>1, <3>1, Zenon
      <4>2. (g \in Handlers) \in BOOLEAN
        OBVIOUS
      <4>3. QED
        BY <4>1, <4>2, Zenon
    <3>2. CASE f # "running"
      BY <1>1, <2>1, <3>2, Zenon
    <3>3. QED
      BY <3>1, <3>2
  <2>3. done' \in BOOLEAN
    <3>1. CASE f = "done"
      <4>1. done' = (g \in Installers)
        BY <1>1, <3>1, Zenon
      <4>2. (g \in Installers) \in BOOLEAN
        OBVIOUS
      <4>3. QED
        BY <4>1, <4>2, Zenon
    <3>2. CASE f # "done"
      BY <1>1, <2>1, <3>2, Zenon
    <3>3. QED
      BY <3>1, <3>2
  <2>4. failed' \in BOOLEAN
    BY <1>1, <2>1, Zenon
  <2>5. QED
    BY <2>2, <2>3, <2>4
<1>9. QED
  BY <1>1, <1>2, <1>3, <1>4, <1>5, <1>6, <1>7, <1>8, Zenon

\* A goroutine is where its kind can be.
LEMMA MailTypeStep == ASSUME MailTypeOK, Places, MailNext PROVE MailTypeOK' /\ Places'
<1> DEFINE Rest == /\ locked \in BOOLEAN
                   /\ asleep \subseteq Goroutines
                   /\ at \in [Goroutines -> {"idle", "lock", "command"} \cup Critical]
                   /\ stage \in [Installers -> 1 .. Finishing]
                   /\ host \subseteq StageNames
                   /\ Places
           Owed == /\ unset \in [Handlers \cup Installers -> SUBSET Fields]
                   /\ \A g \in Handlers \cup Installers : unset[g] # {} <=> g \in Halfway
<1>1. up' \in BOOLEAN /\ running' \in BOOLEAN /\ done' \in BOOLEAN /\ failed' \in BOOLEAN
      /\ crossed' \in BOOLEAN
  <2>1. ASSUME NEW h \in Handlers, Check(h)
        PROVE  UNCHANGED <<up, running, done, failed>> /\ crossed' \in BOOLEAN
    BY <2>1, CheckCases DEF state, MailTypeOK
  <2>2. ASSUME NEW g \in Handlers \cup Installers, Assign(g)
        PROVE  /\ UNCHANGED <<up, crossed>>
               /\ running' \in BOOLEAN /\ done' \in BOOLEAN /\ failed' \in BOOLEAN
    BY <2>2, AssignCases
  <2>3. QED
    BY <2>1, <2>2
       DEF MailTypeOK, MailNext, MailWork, Arrive, Lock, Leave, Launch, Command, Log, Exit,
           Fatal, Restart, state
<1>2. verdict' \in [Installers -> BOOLEAN]
  <2>1. \/ verdict' = verdict
        \/ verdict' = NoErrors
        \/ \E i \in Installers, v \in BOOLEAN : verdict' = [verdict EXCEPT ![i] = v]
    BY DEF MailNext, MailWork, Arrive, Lock, Leave, Check, Accept, Assign, Launch, Command,
           Log, Exit, Fatal, Restart, work
  <2>2. QED
    BY <2>1, Zenon DEF MailTypeOK, NoErrors
<1>3. Rest'
  <2> USE KindAssumption, StageFacts
      DEF KindAssumption, MailTypeOK, Places, Goto, Unlock, Goroutines, Critical, state, work
  <2>1. ASSUME NEW g \in Goroutines, Arrive(g) PROVE Rest'
    BY <2>1 DEF Arrive
  <2>2. ASSUME NEW g \in Goroutines, Lock(g) PROVE Rest'
    BY <2>2 DEF Lock
  <2>3. ASSUME NEW g \in Goroutines, Leave(g) PROVE Rest'
    BY <2>3 DEF Leave
  <2>4. ASSUME NEW h \in Handlers, Check(h) PROVE Rest'
    BY <2>4, CheckCases
  <2>5. ASSUME NEW g \in Handlers \cup Installers, Assign(g) PROVE Rest'
    <3>1. g \in Halfway
      BY <2>5, AssignCases
    <3>2. /\ locked' \in BOOLEAN /\ asleep' \subseteq Goroutines /\ UNCHANGED <<stage, host>>
          /\ at' \in {at, [at EXCEPT ![g] = IF g \in Handlers THEN "release" ELSE "leave"]}
      BY <2>5, AssignCases
    <3>3. at' \in [Goroutines -> {"idle", "lock", "command"} \cup Critical]
      BY <3>2
    <3>4. QED
      BY <3>1, <3>2, <3>3 DEF Halfway
  <2>6. ASSUME NEW h \in Handlers, Launch(h) PROVE Rest'
    <3>1. PICK i \in Installers : /\ at[i] = "idle"
                                 /\ at' = [at EXCEPT ![h] = "idle", ![i] = "command"]
      BY <2>6 DEF Launch
    <3>2. locked' = FALSE /\ asleep' \subseteq asleep /\ UNCHANGED <<stage, host>>
      BY <2>6 DEF Launch
    <3>3. at' \in [Goroutines -> {"idle", "lock", "command"} \cup Critical]
      BY <3>1
    <3>4. stage' \in [Installers -> 1 .. Finishing]
      BY <3>2
    <3>5. Places'
      BY <3>1, <3>2, <3>3, <3>4
    <3>6. QED
      BY <3>1, <3>2, <3>3, <3>4, <3>5
  <2>7. ASSUME NEW i \in Installers, Command(i) PROVE Rest'
    <3>1. stage[i] \in 1 .. 3 /\ Stages[stage[i]] \in StageNames
      BY <2>7 DEF Command
    <3>2. \E n \in 1 .. 4 : stage' = [stage EXCEPT ![i] = n]
      BY <2>7, <3>1 DEF Command
    <3>3. at' = [at EXCEPT ![i] = "lock"] /\ host' \subseteq StageNames
      BY <2>7, <3>1 DEF Command
    <3>4. UNCHANGED <<locked, asleep>>
      BY <2>7 DEF Command
    <3>5. QED
      BY <3>2, <3>3, <3>4
  <2>8. ASSUME NEW i \in Installers, Log(i) PROVE Rest'
    BY <2>8 DEF Log
  <2>9. ASSUME NEW i \in Installers, Exit(i) PROVE Rest'
    <3>1. stage' = [stage EXCEPT ![i] = 1] /\ at' = [at EXCEPT ![i] = "idle"]
      BY <2>9 DEF Exit
    <3>2. locked' = FALSE /\ asleep' \subseteq asleep /\ UNCHANGED host
      BY <2>9 DEF Exit
    <3>3. at' \in [Goroutines -> {"idle", "lock", "command"} \cup Critical]
      BY <3>1
    <3>4. stage' \in [Installers -> 1 .. Finishing]
      BY <3>1
    <3>5. Places'
      BY <3>1, <3>2, <3>3, <3>4
    <3>6. QED
      BY <3>1, <3>2, <3>3, <3>4, <3>5
  <2>10. ASSUME NEW g \in Goroutines, Fatal(g) PROVE Rest'
    <3>1. at' = [x \in Goroutines |-> "idle"] /\ stage' = [i \in Installers |-> 1]
      BY <2>10 DEF Fatal, Resting, AtFirst
    <3>2. locked' = FALSE /\ asleep' = {} /\ UNCHANGED host
      BY <2>10 DEF Fatal
    <3>3. at' \in [Goroutines -> {"idle", "lock", "command"} \cup Critical]
      BY <3>1
    <3>4. stage' \in [Installers -> 1 .. Finishing]
      BY <3>1
    <3>5. Places'
      BY <3>1, <3>2, <3>3, <3>4
    <3>6. QED
      BY <3>1, <3>2, <3>3, <3>4, <3>5
  <2>11. CASE Restart
    BY <2>11 DEF Restart
  <2>12. QED
    BY <2>1, <2>2, <2>3, <2>4, <2>5, <2>6, <2>7, <2>8, <2>9, <2>10, <2>11
       DEF MailNext, MailWork
<1>4. Owed'
  <2> USE KindAssumption
      DEF KindAssumption, MailTypeOK, Places, Goto, Goroutines, Halfway, Fields, Outcome,
          state, work
  <2>1. ASSUME NEW g \in Goroutines, Arrive(g) \/ Leave(g) PROVE Owed'
    BY <2>1 DEF Arrive, Leave
  <2>2. ASSUME NEW g \in Goroutines, Lock(g) PROVE Owed'
    BY <2>2 DEF Lock
  <2>3. ASSUME NEW h \in Handlers, Check(h) PROVE Owed'
    BY <2>3, CheckCases
  <2>4. ASSUME NEW g \in Handlers \cup Installers, Assign(g) PROVE Owed'
    <3>1. PICK f \in unset[g] :
            /\ unset' = [unset EXCEPT ![g] = @ \ {f}]
            /\ IF unset[g] # {f} THEN UNCHANGED at
               ELSE at' = [at EXCEPT ![g] = IF g \in Handlers THEN "release" ELSE "leave"]
      BY <2>4, AssignCases
    <3>2. unset' \in [Handlers \cup Installers -> SUBSET Fields]
      BY <3>1
    <3>3. unset'[g] # {} <=> unset[g] # {f}
      BY <3>1
    <3>4. QED
      BY <3>1, <3>2, <3>3
  <2>5. ASSUME NEW h \in Handlers, Launch(h) PROVE Owed'
    BY <2>5 DEF Launch
  <2>6. ASSUME NEW i \in Installers, Command(i) \/ Log(i) \/ Exit(i) PROVE Owed'
    BY <2>6 DEF Command, Log, Exit
  <2>7. ASSUME NEW g \in Goroutines, Fatal(g) PROVE Owed'
    BY <2>7 DEF Fatal, Resting, AllSet
  <2>8. CASE Restart
    BY <2>8 DEF Restart
  <2>9. QED
    BY <2>1, <2>2, <2>3, <2>4, <2>5, <2>6, <2>7, <2>8 DEF MailNext, MailWork
<1>5. QED
  BY <1>1, <1>2, <1>3, <1>4 DEF MailTypeOK

\* What the only one at work assigns stays as it has assigned it.
LEMMA AssignSole ==
  ASSUME MailTypeOK, Places, Sole, ~crossed, NEW g \in Handlers \cup Installers, Assign(g)
  PROVE  Sole'
<1>1. PICK f \in unset[g] :
        /\ unset' = [unset EXCEPT ![g] = @ \ {f}]
        /\ IF unset[g] # {f} THEN UNCHANGED at
           ELSE at' = [at EXCEPT ![g] = IF g \in Handlers THEN "release" ELSE "leave"]
        /\ f = "running" => (running' <=> g \in Handlers)
        /\ f # "running" => (running' <=> running)
        /\ f = "done" => (done' <=> g \in Installers)
        /\ f # "done" => (done' <=> done)
        /\ f = "errMsg" => (failed' <=> g \in Installers /\ verdict[g])
        /\ f # "errMsg" => (failed' <=> failed)
  BY AssignCases
<1>2. /\ g \in Handlers => at[g] = "reset" /\ g \notin Installers
      /\ g \in Installers => at[g] = "finish" /\ g \notin Handlers
      /\ verdict' = verdict
  BY AssignCases
<1>3. g \in Working
  BY <1>2 DEF Working
<1>4. \A k \in Working : k = g
  BY <1>3, Zenon DEF Sole
<1>5. /\ at[g] = "reset" => "running" \in unset[g] \/ running
      /\ at[g] = "reset" => "done" \in unset[g] \/ ~done
      /\ at[g] = "finish" => "errMsg" \in unset[g] \/ (failed <=> verdict[g])
  BY <1>3, Zenon DEF Sole
<1>6. /\ at \in [Goroutines -> {"idle", "lock", "command"} \cup Critical]
      /\ unset \in [Handlers \cup Installers -> SUBSET Fields]
      /\ g \in Goroutines
  BY DEF MailTypeOK, Goroutines
<1>7. /\ unset'[g] = unset[g] \ {f}
      /\ at'[g] = at[g] \/ /\ unset'[g] = {}
                           /\ at'[g] = IF g \in Handlers THEN "release" ELSE "leave"
      /\ \A k \in Goroutines : k # g => at'[k] = at[k]
  BY <1>1, <1>6
<1>8. \A k \in Working' : k = g
  BY <1>4, <1>7 DEF Working, Goroutines
<1>9. CASE g \in Handlers
  <2>1. at[g] = "reset" /\ g \notin Installers
    BY <1>2, <1>9
  <2>2. /\ "running" \in unset'[g] \/ running'
        /\ "done" \in unset'[g] \/ ~done'
    BY <1>1, <1>5, <1>7, <1>9, <2>1
  <2>3. at'[g] \in {"reset", "release"} /\ (at'[g] = "release" => unset'[g] = {})
    BY <1>7, <1>9, <2>1
  <2>4. QED
    BY <1>8, <2>2, <2>3 DEF Sole
<1>10. CASE g \in Installers
  <2>1. at[g] = "finish" /\ g \notin Handlers
    BY <1>2, <1>10
  <2>2. "errMsg" \in unset'[g] \/ (failed' <=> verdict'[g])
    BY <1>1, <1>2, <1>5, <1>7, <1>10, <2>1
  <2>3. at'[g] = "finish" \/ at'[g] = "leave"
    BY <1>7, <2>1
  <2>4. QED
    BY <1>8, <2>2, <2>3 DEF Sole
<1>11. QED
  BY <1>9, <1>10

\* A request that is accepted finds nobody at work, or an overlap begins or goes
\* on; and nobody but the one at work assigns anything.
LEMMA SoleStep == ASSUME MailTypeOK, Places, Sole, MailNext PROVE Sole'
<1> USE KindAssumption
    DEF KindAssumption, MailTypeOK, Places, Sole, Goto, Goroutines, Working, Halfway,
        Fields, Outcome, state, work
<1>1. ASSUME NEW g \in Goroutines, Arrive(g) \/ Leave(g) PROVE Sole'
  BY <1>1 DEF Arrive, Leave
<1>2. ASSUME NEW g \in Goroutines, Lock(g) PROVE Sole'
  BY <1>2 DEF Lock
<1>3. ASSUME NEW h \in Handlers, Check(h) PROVE Sole'
  <2>1. CASE running /\ at' = [at EXCEPT ![h] = "refuse"] /\ UNCHANGED <<unset, crossed>>
    <3>1. at[h] = "check" /\ UNCHANGED <<state, verdict>>
      BY <1>3, CheckCases
    <3>2. \A g \in Goroutines : g # h => at'[g] = at[g]
      BY <2>1
    <3>3. Working' = Working /\ h \notin Working
      BY <2>1, <3>1, <3>2
    <3>4. QED
      BY <2>1, <3>1, <3>2, <3>3
  <2>2. CASE /\ ~running
             /\ at' = [at EXCEPT ![h] = "reset"]
             /\ unset' = [unset EXCEPT ![h] = Fields]
             /\ crossed' <=> \E g \in Working \ {h} : crossed \/ g \in Halfway
    <3>1. ASSUME ~crossed' PROVE Working = {}
      <4>1. at[h] = "check"
        BY <1>3, CheckCases
      <4>2. h \notin Working
        BY <4>1
      <4>3. ASSUME NEW g \in Working PROVE ~crossed /\ g \notin Halfway
        BY <2>2, <3>1, <4>2, <4>3, Zenon
      <4>4. ASSUME NEW g \in Working PROVE at[g] \in {"release", "command", "lock", "log"}
        BY <4>3
      <4>5. ASSUME NEW g \in Working PROVE running
        BY <4>3, <4>4, Zenon
      <4>6. QED
        BY <2>2, <4>5
    <3>2. ASSUME ~crossed', NEW g \in Goroutines
          PROVE  g \in Working' => g = h
      BY <2>2, <3>1, <3>2
    <3>3. QED
      BY <2>2, <3>2
  <2>3. QED
    BY <1>3, <2>1, <2>2, CheckCases
<1>4. ASSUME NEW g \in Handlers \cup Installers, Assign(g) PROVE Sole'
  <2>1. ASSUME crossed PROVE Sole'
    BY <1>4, <2>1, AssignCases
  <2>2. QED
    BY <1>4, <2>1, AssignSole
<1>5. ASSUME NEW h \in Handlers, Launch(h) PROVE Sole'
  BY <1>5 DEF Launch
<1>6. ASSUME NEW i \in Installers, Command(i) PROVE Sole'
  BY <1>6 DEF Command
<1>7. ASSUME NEW i \in Installers, Log(i) \/ Exit(i) PROVE Sole'
  BY <1>7 DEF Log, Exit
<1>8. ASSUME NEW g \in Goroutines, Fatal(g) PROVE Sole'
  BY <1>8 DEF Fatal, Resting
<1>9. CASE Restart
  BY <1>9 DEF Restart
<1>10. QED
  BY <1>1, <1>2, <1>3, <1>4, <1>5, <1>6, <1>7, <1>8, <1>9 DEF MailNext, MailWork

\* A stage is left behind without an error only if it took effect or nobody
\* checks it, nothing is taken away from the host, and the last field that an
\* installer assigns leaves its own outcome in the struct.
LEMMA ProgressStep == ASSUME MailTypeOK, Places, Sole, Progress, MailNext PROVE Progress'
<1> USE KindAssumption
    DEF KindAssumption, MailTypeOK, Places, Progress, DoneIsInstalled, Goto, Goroutines,
        Finishing, Stages, StageNames, Unchecked, Halfway, state, work
<1>1. ASSUME NEW g \in Goroutines, Arrive(g) \/ Lock(g) \/ Leave(g) PROVE Progress'
  BY <1>1 DEF Arrive, Lock, Leave
<1>2. ASSUME NEW h \in Handlers, Check(h) \/ Launch(h) PROVE Progress'
  BY <1>2, CheckCases DEF Launch
<1>3. ASSUME NEW g \in Handlers \cup Installers, Assign(g) PROVE Progress'
  BY <1>3, AssignCases DEF Sole, Working
<1>4. ASSUME NEW i \in Installers, Command(i) PROVE Progress'
  BY <1>4 DEF Command
<1>5. ASSUME NEW i \in Installers, Log(i) \/ Exit(i) PROVE Progress'
  BY <1>5 DEF Log, Exit
<1>6. ASSUME NEW g \in Goroutines, Fatal(g) PROVE Progress'
  BY <1>6 DEF Fatal, AtFirst, NoErrors
<1>7. CASE Restart
  BY <1>7 DEF Restart
<1>8. QED
  BY <1>1, <1>2, <1>3, <1>4, <1>5, <1>6, <1>7 DEF MailNext, MailWork

\* The inductive invariant of the installation.
LEMMA MailStepHolds == MailInv /\ [MailNext]_mail => MailInv'
<1>1. ASSUME MailInv, MailNext PROVE MailInv'
  BY <1>1, MailTypeStep, SoleStep, ProgressStep DEF MailInv
<1>2. ASSUME MailInv, UNCHANGED mail PROVE MailInv'
  BY <1>2 DEF MailInv, MailTypeOK, Places, Sole, Progress, DoneIsInstalled, Halfway,
              Working, mail, state, work
<1>3. QED
  BY <1>1, <1>2

-----------------------------------------------------------------------------
(* The server service                                                      *)

\* A collector that is not stray works where the configuration says; a request
\* that reads the cache again finds what was stored since the clock ticked.
Current ==
  /\ \A c \in Collectors : link[c] # None /\ c \notin stray => link[c] = conf.on
  /\ MeasuredWhereConfigured
  /\ \A g \in Getters : step[g] = "reread" => cache # None /\ cache.age <= TTL
  /\ FreshUnlessFailed

\* Which goroutine does what.
Duties ==
  /\ \A u \in Updates : step[u] \in {"rest", "save", "over"}
  /\ \A c \in Collectors : step[c] \in {"rest", "dial", "measure", "reread", "answer"}
  /\ \A j \in Jobs : step[j] \in {"rest", "dial", "measure"}

ServerInv == ServerTypeOK /\ Duties /\ Current

Assumptions ==
  /\ Local \notin Servers /\ None \notin Machines
  /\ NoKey \notin Keys
  /\ Jobs \cap Getters = {}
  /\ Updates \cap Collectors = {}
  /\ TTL \in Nat
  /\ None \notin Configs /\ None \notin Metrics /\ None \notin Wants /\ None \notin Collectors

LEMMA Assumed == Assumptions
BY ServerAssumption, KeyAssumption, CollectorAssumption, TTLAssumption, NoneAssumption
   DEF Assumptions, ServerAssumption, KeyAssumption, CollectorAssumption, TTLAssumption,
       NoneAssumption, Keys

\* The job that seeds the cache has begun, and nothing else.
LEMMA ServerInitHolds == ServerInit => ServerInv
<1> SUFFICES ASSUME ServerInit PROVE ServerInv
  OBVIOUS
<1> USE Assumed DEF Assumptions, ServerInit, AllRest, NoLinks, Collectors
<1>1. PICK j \in Jobs : step = [AllRest EXCEPT ![j] = "dial"]
  OBVIOUS
<1>2. ServerTypeOK
  BY <1>1 DEF ServerTypeOK, Configs, Blank, Keys, Machines
<1>3. Duties /\ Current
  BY <1>1 DEF Duties, Current, MeasuredWhereConfigured, FreshUnlessFailed
<1>4. QED
  BY <1>2, <1>3 DEF ServerInv

\* The row saved is a configuration.
LEMMA MergeType ==
  ASSUME ServerTypeOK, NEW u \in Updates, step[u] = "save"
  PROVE  Merge(u) \in Configs /\ Merge(u).on = ask[u].on
<1>1. ask[u] \in Wants /\ draft[u] \in Configs
  BY DEF ServerTypeOK
<1>2. QED
  BY <1>1 DEF Merge, Configs, Wants, Keys

\* Every goroutine keeps to its duties, and holds what they need.
LEMMA ServerTypeStep ==
  ASSUME ServerInv, ServerNext
  PROVE  ServerTypeOK' /\ Duties'
<1> DEFINE Inv == ServerTypeOK /\ Duties
<1> USE Assumed DEF Assumptions, ServerInv, ServerTypeOK, Duties, Move, Collectors
<1>1. ASSUME NEW u \in Updates, UpdateConfig(u) PROVE Inv'
  BY <1>1 DEF UpdateConfig, Blank, Configs, Keys, Machines
<1>2. ASSUME NEW u \in Updates, Save(u) PROVE Inv'
  BY <1>2, MergeType DEF Save
<1>3. ASSUME NEW j \in Jobs, StartJob(j) PROVE Inv'
  BY <1>3 DEF StartJob
<1>4. ASSUME NEW c \in Collectors, Dial(c) PROVE Inv'
  BY <1>4 DEF Dial, GiveUp, Connected, Configs, Machines
<1>5. ASSUME NEW c \in Collectors, Store(c) PROVE Inv'
  BY <1>5 DEF Store, GiveUp, Metrics, Stale
<1>6. ASSUME NEW g \in Getters, GetMetrics(g) PROVE Inv'
  BY <1>6 DEF GetMetrics
<1>7. ASSUME NEW g \in Getters, Reread(g) PROVE Inv'
  BY <1>7 DEF Reread, Current
<1>8. ASSUME NEW g \in Getters, Answer(g) PROVE Inv'
  BY <1>8 DEF Answer
<1>9. CASE Tick
  BY <1>9 DEF Tick, Metrics, Stale
<1>10. CASE Killed
  BY <1>10 DEF Killed, NoLinks
<1>11. QED
  BY <1>1, <1>2, <1>3, <1>4, <1>5, <1>6, <1>7, <1>8, <1>9, <1>10
     DEF ServerNext, ServerWork

\* A Save makes everybody stray who works elsewhere; a Store takes over the
\* standing of its collector, and the age 0.
LEMMA CurrentStep == ASSUME ServerInv, ServerNext PROVE Current'
<1> USE Assumed
    DEF Assumptions, ServerInv, ServerTypeOK, Duties, Current, MeasuredWhereConfigured,
        FreshUnlessFailed, Move, Collectors
<1>1. ASSUME NEW u \in Updates, UpdateConfig(u) PROVE Current'
  BY <1>1 DEF UpdateConfig
<1>2. ASSUME NEW u \in Updates, Save(u) PROVE Current'
  BY <1>2, MergeType DEF Save
<1>3. ASSUME NEW j \in Jobs, StartJob(j) PROVE Current'
  BY <1>3 DEF StartJob
<1>4. ASSUME NEW c \in Collectors, Dial(c) PROVE Current'
  BY <1>4 DEF Dial, GiveUp, Connected
<1>5. ASSUME NEW c \in Collectors, Store(c) PROVE Current'
  <2>1. CASE GiveUp(c) /\ UNCHANGED cache
    BY <1>5, <2>1 DEF Store, GiveUp
  <2>2. ASSUME NEW m \in {link[c], None}, cache' = [of |-> m, age |-> 0],
               stray' = IF c \in stray /\ m # None
                        THEN (stray \ {c}) \cup {None} ELSE stray \ {c, None},
               link' = [link EXCEPT ![c] = None],
               Move(c, IF c \in Jobs THEN "rest" ELSE "reread"),
               UNCHANGED <<conf, kept, excused>>
        PROVE  Current'
    <3>1. \A d \in Collectors : link'[d] # None /\ d \notin stray' => link'[d] = conf'.on
      BY <2>2
    <3>2. MeasuredWhereConfigured'
      BY <1>5, <2>2 DEF Store
    <3>3. \A g \in Getters : step'[g] = "reread" => cache' # None /\ cache'.age <= TTL
      <4>1. cache' # None /\ cache'.age = 0
        BY <2>2 DEF Metrics, Stale
      <4>2. QED
        BY <4>1
    <3>4. FreshUnlessFailed'
      BY <2>2
    <3>5. QED
      BY <3>1, <3>2, <3>3, <3>4
  <2>3. QED
    BY <1>5, <2>1, <2>2 DEF Store
<1>6. ASSUME NEW g \in Getters, GetMetrics(g) PROVE Current'
  BY <1>6 DEF GetMetrics
<1>7. ASSUME NEW g \in Getters, Reread(g) PROVE Current'
  <2>1. UNCHANGED <<conf, cache, link, stray>> /\ cache # None /\ cache.age <= TTL
    BY <1>7 DEF Reread
  <2>2. \A h \in Getters : step'[h] = "reread" => step[h] = "reread"
    BY <1>7 DEF Reread
  <2>3. ASSUME NEW h \in Getters, step'[h] = "answer", kept'[h].age > TTL
        PROVE  h \in excused'
    <3>1. CASE h = g
      <4>1. CASE kept' = [kept EXCEPT ![g] = cache]
        <5>1. cache \in Metrics /\ kept'[h] = cache
          BY <2>1, <3>1, <4>1
        <5>2. QED
          BY <2>1, <2>3, <5>1 DEF Metrics, Stale
      <4>2. CASE kept[g] # None /\ excused' = excused \cup {g}
        BY <3>1, <4>2
      <4>3. CASE kept[g] = None /\ step' = [step EXCEPT ![g] = "rest"]
        BY <2>3, <3>1, <4>3
      <4>4. QED
        BY <1>7, <4>1, <4>2, <4>3 DEF Reread
    <3>2. CASE h # g
      <4>1. step[h] = "answer" /\ kept[h] = kept'[h] /\ excused \subseteq excused'
        BY <1>7, <2>3, <3>2 DEF Reread
      <4>2. QED
        BY <2>3, <4>1
    <3>3. QED
      BY <3>1, <3>2
  <2>4. QED
    BY <2>1, <2>2, <2>3
<1>8. ASSUME NEW g \in Getters, Answer(g) PROVE Current'
  BY <1>8 DEF Answer
<1>9. CASE Tick
  BY <1>9 DEF Tick, Metrics, Stale
<1>10. CASE Killed
  BY <1>10 DEF Killed, NoLinks
<1>11. QED
  BY <1>1, <1>2, <1>3, <1>4, <1>5, <1>6, <1>7, <1>8, <1>9, <1>10
     DEF ServerNext, ServerWork

\* The inductive invariant of the server service.
LEMMA ServerStepHolds == ServerInv /\ [ServerNext]_server => ServerInv'
<1>1. ASSUME ServerInv, ServerNext PROVE ServerInv'
  BY <1>1, ServerTypeStep, CurrentStep DEF ServerInv
<1>2. ASSUME ServerInv, UNCHANGED server PROVE ServerInv'
  BY <1>2 DEF ServerInv, ServerTypeOK, Duties, Current, MeasuredWhereConfigured,
              FreshUnlessFailed, server
<1>3. QED
  BY <1>1, <1>2

\* Only Save writes the configuration, and only a key that was sent, or one the
\* row has lost since it was read, differs from the key that is stored.
LEMMA KeyStep ==
  ASSUME ServerInv, [ServerNext]_server, conf'.key # conf.key
  PROVE  \E u \in Updates :
           /\ step[u] = "save"
           /\ \/ conf'.key = u /\ ask[u].key /\ ask[u].on # Local
              \/ draft[u] # conf
<1>1. PICK u \in Updates : Save(u) /\ conf' = Merge(u)
  BY DEF ServerNext, ServerWork, UpdateConfig, Save, StartJob, Dial, Store, GetMetrics,
         Reread, Answer, Tick, Killed, server
<1>2. conf'.key = IF ask[u].on # Local /\ ask[u].key THEN u ELSE draft[u].key
  BY <1>1 DEF Merge
<1>3. QED
  BY <1>1, <1>2 DEF Save

-----------------------------------------------------------------------------
(* The process                                                             *)

\* A step of the process is a step of each part, or leaves it alone.
LEMMA PartsStep == [Next]_panel => [MailNext]_mail /\ [ServerNext]_server
BY DEF Next, MailStep, ServerStep, TimeStep, Death, Rebirth, MailNext, ServerNext,
       ServerWork, panel

\* So it implements each of the two as that is specified by itself.
LEMMA ImplementsMail == Spec => MailSpec
BY PartsStep, PTL DEF Spec, Init, MailSpec

LEMMA ImplementsServer == Spec => ServerSpec
BY PartsStep, PTL DEF Spec, Init, ServerSpec

\* Both invariants.
LEMMA Invariance == Spec => [](MailInv /\ ServerInv)
<1>1. MailSpec => []MailInv
  BY MailInitHolds, MailStepHolds, PTL DEF MailSpec
<1>2. ServerSpec => []ServerInv
  BY ServerInitHolds, ServerStepHolds, PTL DEF ServerSpec
<1>3. QED
  BY <1>1, <1>2, ImplementsMail, ImplementsServer, PTL

\* Every variable keeps its type, and what a goroutine holds fits what it does
\* (email/service.go:34-60, server/service.go:38-139).
THEOREM PanelTypeCorrect == Spec => []TypeOK
<1>1. MailInv /\ ServerInv => TypeOK
  BY DEF MailInv, ServerInv, TypeOK
<1>2. QED
  BY <1>1, Invariance, PTL

\* An installation is accepted only when none is carried out, unless the two meet
\* while one of them assigns the fields, though the mutex keeps nobody out
\* (email/service.go:101-112, 226-231).
THEOREM OneInstallationHolds == MailSpec => []OneInstallation
<1>1. MailInv => OneInstallation
  BY DEF MailInv, Sole, OneInstallation
<1>2. QED
  BY <1>1, MailInitHolds, MailStepHolds, PTL DEF MailSpec

\* An installation whose fields are assigned, and say that it is done without an
\* error, has done everything that is checked, unless it crossed another one
\* (email/service.go:39-45, 109-228).
THEOREM DoneIsInstalledHolds == MailSpec => []DoneIsInstalled
<1>1. MailInv => DoneIsInstalled
  BY DEF MailInv, Progress
<1>2. QED
  BY <1>1, MailInitHolds, MailStepHolds, PTL DEF MailSpec

\* Both hold of the process that is composed with the server service, whatever
\* that does and however often the process dies (email/service.go:101-228,
\* cmd/server/main.go:51-79).
COROLLARY PanelInstalls == Spec => [](OneInstallation /\ DoneIsInstalled)
BY OneInstallationHolds, DoneIsInstalledHolds, ImplementsMail, PTL

\* Cached numbers come from the server that is configured, unless it changed or
\* could not be read meanwhile (server/service.go:91-116, 257-276).
THEOREM MeasuredWhereConfiguredHolds == Spec => []MeasuredWhereConfigured
<1>1. ServerInv => MeasuredWhereConfigured
  BY DEF ServerInv, Current
<1>2. QED
  BY <1>1, Invariance, PTL

\* Nobody is told numbers older than the limit, unless the request's own
\* collection or second reading has failed (server/service.go:118-139).
THEOREM FreshUnlessFailedHolds == Spec => []FreshUnlessFailed
<1>1. ServerInv => FreshUnlessFailed
  BY DEF ServerInv, Current
<1>2. QED
  BY <1>1, Invariance, PTL

\* The stored key is replaced by a key that was sent with the mode ssh, or lost
\* to an update that did not see it (server/service.go:38-68).
THEOREM KeyKeptHolds == Spec => KeyKept
<1>1. ServerInv /\ [Next]_panel =>
        [conf'.key # conf.key =>
           \E u \in Updates :
             /\ step[u] = "save"
             /\ \/ conf'.key = u /\ ask[u].key /\ ask[u].on # Local
                \/ draft[u] # conf]_server
  BY PartsStep, KeyStep
<1>2. QED
  BY <1>1, Invariance, PTL DEF Spec, KeyKept
=============================================================================
