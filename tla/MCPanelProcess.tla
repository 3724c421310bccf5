--------------------------- MODULE MCPanelProcess ---------------------------
(* PanelProcess for TLC.  Any two goroutines overlap (Parallel = 2), an     *)
(* installer counted: two installing requests, one with a poll, either with *)
(* the installer; two updates, two jobs, a job with a request for metrics,  *)
(* and all that across the death of the process.  Two servers beside the    *)
(* local one let the configuration move from remote to remote and back.     *)
(* TTL = 1 makes ages that are new, old enough, and too old.                *)
EXTENDS PanelProcess, TLC

AllMailFaults == {"refused"}
AllServerFaults == {"refused", "db", "misread", "ignored"}

\* Bound: once a command of the installation has had an effect, a behaviour is
\* followed to the end of an update of the connection, and not beyond.
Beside == host = {} \/ \A u \in Updates : step[u] # "over"

Symmetric ==
  Permutations(Handlers) \cup Permutations(Servers)
    \cup Permutations(Updates) \cup Permutations(Jobs)
=============================================================================
