---------------------------- MODULE MailInstall ----------------------------
(***************************************************************************)
(* The installation of the mail server (internal/email/service.go): the    *)
(* struct installState with its mutex, InstallMailServer, which starts a   *)
(* goroutine that works through the installation, and the requests that    *)
(* ask for its progress.                                                   *)
(*                                                                         *)
(* InstallMailServer replaces the whole struct while it holds the mutex in *)
(* it, and the new one is unlocked.  Go's Unlock of an unlocked mutex is a *)
(* fatal error: the process dies, and is restarted.  It does not ask who   *)
(* locked.  A goroutine that sleeps in Lock when the struct is replaced is *)
(* no longer counted as a waiter, and sleeps on until somebody else's      *)
(* Unlock happens to wake it.                                              *)
(*                                                                         *)
(* A mutex that has been replaced keeps nobody out, so the fields of the   *)
(* struct are assigned one by one here, in whatever order the compiler     *)
(* chose, and others may read or assign them in between.                   *)
(*                                                                         *)
(* The text of the log is left out, but not its locking.                   *)
(***************************************************************************)
EXTENDS Naturals, Sequences

CONSTANTS
  Handlers,   \* goroutines for POST /email/mail-server/install
  Polls,      \* goroutines for GET /email/mail-server/install/progress
  Installers, \* goroutines that InstallMailServer starts
  MailFaults  \* "refused": a command has no effect, or no executor

ASSUME KindAssumption ==
  /\ Handlers \cap Polls = {}
  /\ Installers \cap (Handlers \cup Polls) = {}

VARIABLES
  up,       \* the process runs
  locked,   \* install.mu
  asleep,   \* goroutines whose wake-up was lost
  running,  \* install.running
  done,     \* install.done
  failed,   \* install.errMsg is not empty
  unset,    \* the fields that a goroutine has still to assign
  at,       \* what each goroutine is about to do
  stage,    \* the command that each installer has come to
  verdict,  \* whether it has met an error
  host,     \* the stages that have taken effect
  crossed   \* history: an installation was accepted amid another's assignments

state == <<running, done, failed>>
work == <<at, stage, verdict, unset>>
mail == <<up, locked, asleep, state, work, host, crossed>>

Goroutines == Handlers \cup Polls \cup Installers

\* The commands of the installation, neighbours of one kind together and the
\* executor with the first; maps is for those whose error is logged only.
Stages == <<"postfix", "maps", "services">>
Unchecked == {"maps"}
Finishing == Len(Stages) + 1
StageNames == {Stages[n] : n \in DOMAIN Stages}

\* What InstallMailServer assigns, and what finish does.
Fields == {"mu", "running", "done", "errMsg"}
Outcome == Fields \ {"mu"}

\* Those that assign them.
Halfway == {g \in Goroutines : at[g] \in {"reset", "finish"}}

\* Those that carry out an installation, from its acceptance to its outcome.
Working ==
  {h \in Handlers : at[h] \in {"reset", "release"}} \cup
  {i \in Installers : at[i] \in {"command", "lock", "log", "finish"}}

\* Between Lock and Unlock.
Critical == {"check", "reset", "refuse", "release", "copy", "log", "finish", "leave"}

MailTypeOK ==
  /\ up \in BOOLEAN
  /\ locked \in BOOLEAN
  /\ asleep \subseteq Goroutines
  /\ running \in BOOLEAN
  /\ done \in BOOLEAN
  /\ failed \in BOOLEAN
  /\ at \in [Goroutines -> {"idle", "lock", "command"} \cup Critical]
  /\ stage \in [Installers -> 1 .. Finishing]
  /\ verdict \in [Installers -> BOOLEAN]
  /\ unset \in [Handlers \cup Installers -> SUBSET Fields]
  /\ \A g \in Handlers \cup Installers : unset[g] # {} <=> g \in Halfway
  /\ host \subseteq StageNames
  /\ crossed \in BOOLEAN

Resting == [g \in Goroutines |-> "idle"]
AtFirst == [i \in Installers |-> 1]
NoErrors == [i \in Installers |-> FALSE]
AllSet == [g \in Handlers \cup Installers |-> {}]

MailInit ==
  /\ up = TRUE
  /\ locked = FALSE
  /\ asleep = {}
  /\ running = FALSE
  /\ done = FALSE
  /\ failed = FALSE
  /\ at = Resting
  /\ stage = AtFirst
  /\ verdict = NoErrors
  /\ unset = AllSet
  /\ host = {}
  /\ crossed = FALSE

-----------------------------------------------------------------------------
(* The mutex                                                               *)

Goto(g, l) == at' = [at EXCEPT ![g] = l]

\* Lock, and what the goroutine wanted it for.
Lock(g) ==
  /\ at[g] = "lock"
  /\ ~locked
  /\ g \notin asleep
  /\ locked' = TRUE
  /\ Goto(g, CASE g \in Handlers -> "check"
               [] g \in Polls -> "copy"
               [] OTHER -> IF stage[g] = Finishing THEN "finish" ELSE "log")
  /\ IF g \in Installers /\ stage[g] = Finishing
     THEN unset' = [unset EXCEPT ![g] = Outcome]
     ELSE UNCHANGED unset
  /\ UNCHANGED <<up, asleep, state, stage, verdict, host, crossed>>

\* Unlock of a mutex that is locked, by whomever.
Unlock ==
  /\ locked
  /\ locked' = FALSE
  /\ \/ UNCHANGED asleep
     \/ \E g \in asleep : asleep' = asleep \ {g}

\* Unlock of one that is not: the memory of the process is gone.
Fatal(g) ==
  /\ up
  /\ at[g] \in {"refuse", "release", "copy", "log", "leave"}
  /\ ~locked
  /\ up' = FALSE
  /\ locked' = FALSE
  /\ asleep' = {}
  /\ running' = FALSE
  /\ done' = FALSE
  /\ failed' = FALSE
  /\ at' = Resting
  /\ stage' = AtFirst
  /\ verdict' = NoErrors
  /\ unset' = AllSet
  /\ crossed' = FALSE
  /\ UNCHANGED host

-----------------------------------------------------------------------------
(* The fields of the struct                                                *)

\* One of them: InstallMailServer replaces the struct, its mutex included, and
\* those that wait for the mutex may have gone to sleep by now, or still spin;
\* finish stores the outcome.
Assign(g) ==
  \E f \in unset[g] :
    /\ unset' = [unset EXCEPT ![g] = @ \ {f}]
    /\ running' = IF f = "running" THEN g \in Handlers ELSE running
    /\ done' = IF f = "done" THEN g \in Installers ELSE done
    /\ failed' = IF f = "errMsg" THEN g \in Installers /\ verdict[g] ELSE failed
    /\ IF f = "mu"
       THEN /\ locked' = FALSE
            /\ \E S \in SUBSET {w \in Goroutines : at[w] = "lock"} : asleep' = asleep \cup S
       ELSE UNCHANGED <<locked, asleep>>
    /\ IF unset[g] # {f} THEN UNCHANGED at
       ELSE Goto(g, IF g \in Handlers THEN "release" ELSE "leave")
    /\ UNCHANGED <<up, stage, verdict, host, crossed>>

-----------------------------------------------------------------------------
(* InstallMailServer and GetInstallProgress                                *)

\* A request comes in.
Arrive(g) ==
  /\ g \in Handlers \cup Polls
  /\ at[g] = "idle"
  /\ Goto(g, "lock")
  /\ UNCHANGED <<up, locked, asleep, state, stage, verdict, unset, host, crossed>>

\* An installation begins. An overlap is over once nobody else is at work.
Accept(h) ==
  /\ Goto(h, "reset")
  /\ unset' = [unset EXCEPT ![h] = Fields]
  /\ crossed' = \E g \in Working \ {h} : crossed \/ g \in Halfway
  /\ UNCHANGED <<up, locked, asleep, state, stage, verdict, host>>

\* Whether or not one is running.
CheckNothing(h) == at[h] = "check" /\ Accept(h)

\* An installation that is running is left alone.
Check(h) ==
  /\ at[h] = "check"
  /\ \/ ~running /\ Accept(h)
     \/ /\ running
        /\ Goto(h, "refuse")
        /\ UNCHANGED <<up, locked, asleep, state, stage, verdict, unset, host, crossed>>

\* Unlock, and the answer; the installer of an accepted request starts.
Leave(g) ==
  /\ at[g] \in {"refuse", "copy"}
  /\ Unlock
  /\ Goto(g, "idle")
  /\ UNCHANGED <<up, state, stage, verdict, unset, host, crossed>>

Launch(h) ==
  /\ at[h] = "release"
  /\ Unlock
  /\ \E i \in Installers :
       /\ at[i] = "idle"
       /\ at' = [at EXCEPT ![h] = "idle", ![i] = "command"]
  /\ UNCHANGED <<up, state, stage, verdict, unset, host, crossed>>

-----------------------------------------------------------------------------
(* The installer                                                           *)

\* Of every command that fails only the log tells.
CommandUnchecked(i) ==
  /\ at[i] = "command"
  /\ host' \in {host, host \cup {Stages[stage[i]]}}
  /\ stage' = [stage EXCEPT ![i] = @ + 1]
  /\ Goto(i, "lock")
  /\ UNCHANGED <<up, locked, asleep, state, verdict, unset, crossed>>

\* After a checked command that has failed only finish is left.
Command(i) ==
  LET name == Stages[stage[i]]
  IN /\ at[i] = "command"
     /\ \/ /\ host' = host \cup {name}
           /\ stage' = [stage EXCEPT ![i] = @ + 1]
           /\ UNCHANGED verdict
        \/ /\ "refused" \in MailFaults
           /\ UNCHANGED host
           /\ IF name \in Unchecked
              THEN stage' = [stage EXCEPT ![i] = @ + 1] /\ UNCHANGED verdict
              ELSE /\ stage' = [stage EXCEPT ![i] = Finishing]
                   /\ verdict' = [verdict EXCEPT ![i] = TRUE]
     /\ Goto(i, "lock")
     /\ UNCHANGED <<up, locked, asleep, state, unset, crossed>>

\* log: between two commands, any number of times.
Log(i) ==
  /\ at[i] = "log"
  /\ Unlock
  /\ Goto(i, "command")
  /\ UNCHANGED <<up, state, stage, verdict, unset, host, crossed>>

Exit(i) ==
  /\ at[i] = "leave"
  /\ Unlock
  /\ Goto(i, "idle")
  /\ stage' = [stage EXCEPT ![i] = 1]
  /\ verdict' = [verdict EXCEPT ![i] = FALSE]
  /\ UNCHANGED <<up, state, unset, host, crossed>>

\* The supervisor starts the process anew; Fatal has cleared its memory.
Restart ==
  /\ ~up
  /\ up' = TRUE
  /\ UNCHANGED <<locked, asleep, state, work, host, crossed>>

MailWork ==
  /\ up
  /\ \/ \E g \in Goroutines : Arrive(g) \/ Lock(g) \/ Leave(g)
     \/ \E g \in Handlers \cup Installers : Assign(g)
     \/ \E h \in Handlers : Check(h) \/ Launch(h)
     \/ \E i \in Installers : Command(i) \/ Log(i) \/ Exit(i)

MailNext == MailWork \/ (\E g \in Goroutines : Fatal(g)) \/ Restart

MailSpec == MailInit /\ [][MailNext]_mail

-----------------------------------------------------------------------------
(* Properties                                                              *)

\* email/service.go:101-107: an installation is accepted only when none is
\* carried out, broken as the mutex is, unless the two meet while one of them
\* assigns the fields.
OneInstallation == ~crossed => \A g, h \in Working : g = h

\* When the fields of an installation are assigned and say that it is done
\* without an error, it has done everything that is checked, whoever else asked,
\* failed or died meanwhile (email/service.go:39-45, 109-228).
DoneIsInstalled ==
  done /\ ~failed /\ ~crossed /\ Halfway = {} => StageNames \ Unchecked \subseteq host

\* email/service.go:101-102 says InstallMailServer "launches a background
\* goroutine that installs Postfix + Dovecot", unless one is running.
InstallLaunches ==
  [][\A h \in Handlers : at[h] = "release" /\ at'[h] # "release"
       => \E i \in Installers : at[i] = "idle" /\ at'[i] = "command"]_mail
=============================================================================
