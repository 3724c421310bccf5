---------------------------- MODULE PanelProcess ----------------------------
(***************************************************************************)
(* The panel as one process (cmd/server/main.go): the installation of the  *)
(* mail server and the server service run in it side by side.  They share  *)
(* no variable, but the fate of the process: the Unlock that is fatal to   *)
(* the installation ends every goroutine of the server service too, and    *)
(* all that is left are the rows of the database and the managed host.     *)
(* When the process is started again it seeds the metrics cache.           *)
(***************************************************************************)
EXTENDS MailInstall, ServerService, FiniteSets

CONSTANT Parallel  \* bound: a goroutine begins only while fewer are at work

ASSUME ParallelAssumption == Parallel \in Nat

panel == <<mail, server>>

\* The goroutines at work.
Active ==
  {g \in Goroutines : at[g] # "idle"} \cup
  {g \in Updates \cup Collectors : step[g] \notin {"rest", "over"}}

TypeOK == MailTypeOK /\ ServerTypeOK

Init == MailInit /\ ServerInit

MailStep ==
  /\ MailWork
  /\ UNCHANGED server
  /\ Cardinality(Active') <= Parallel

ServerStep ==
  /\ up
  /\ ServerWork
  /\ UNCHANGED mail
  /\ Cardinality(Active') <= Parallel

\* Time passes whether or not the process runs.
TimeStep == Tick /\ UNCHANGED mail

Death == (\E g \in Goroutines : Fatal(g)) /\ Killed

Rebirth == Restart /\ \E j \in Jobs : StartJob(j)

Next == MailStep \/ ServerStep \/ TimeStep \/ Death \/ Rebirth

Spec == Init /\ [][Next]_panel
=============================================================================
