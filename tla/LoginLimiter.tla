---------------------------- MODULE LoginLimiter ----------------------------
(***************************************************************************)
(* ratelimit.LoginLimiter (pkg/ratelimit/ratelimit.go) and the handler it  *)
(* guards, auth.Handler.Login, for one client address: entries of distinct *)
(* addresses share nothing but the mutex, under which each of the limiter's*)
(* methods is one step.                                                    *)
(*                                                                         *)
(* The lock is checked when a request enters and the outcome recorded only *)
(* after the password hash was compared, so several requests pass the same *)
(* check.  Requests differ in nothing but their outcome: inFlight counts   *)
(* them.                                                                   *)
(*                                                                         *)
(* Clocks are kept as the time left: windowLeft is windowEnd - now and     *)
(* lockLeft is lockedAt + lockout - now, each stopping at Past, the first  *)
(* moment that now.After the end.                                          *)
(***************************************************************************)
EXTENDS Integers

CONSTANTS
  MaxFailures,  \* maxFailures, 5 in NewLoginLimiter
  Window,       \* window and lockout, both 15 minutes in NewLoginLimiter
  MaxInFlight   \* bound on the requests of the address served at one time

ASSUME LimiterAssumption ==
  /\ MaxFailures \in Nat \ {0}
  /\ Window \in Nat \ {0}
  /\ MaxInFlight \in Nat \ {0}

VARIABLES
  failures,   \* failures of the entry, 0 when the map has none
  windowLeft, \* time until windowEnd
  lockLeft,   \* time until the lockout ends, NotLocked while lockedAt is nil
  inFlight,   \* requests that passed the middleware and are not yet decided
  streak,     \* history: failures since a success or a long pause, up to the limit
  pause       \* history: time since the last of them, up to Window + 1

entry == <<failures, windowLeft, lockLeft>>
history == <<streak, pause>>
vars == <<entry, inFlight, history>>

Past == -1
NotLocked == -2
Locked == lockLeft # NotLocked

Count(t) == IF t > Past THEN t - 1 ELSE t

TypeOK ==
  /\ failures \in Nat
  /\ windowLeft \in Past .. Window
  /\ lockLeft \in NotLocked .. Window
  /\ inFlight \in 0 .. MaxInFlight
  /\ streak \in 0 .. MaxFailures
  /\ pause \in 0 .. Window + 1

NoEntry == failures = 0 /\ windowLeft = Past /\ lockLeft = NotLocked
Drop == failures' = 0 /\ windowLeft' = Past /\ lockLeft' = NotLocked

Init == NoEntry /\ inFlight = 0 /\ streak = 0 /\ pause = Window + 1

\* What isLocked answers; it is asked for every request of the address.
Blocked == Locked /\ lockLeft > Past

-----------------------------------------------------------------------------

\* A request that is turned away counts as one more failure.
TurnAwayRenewing ==
  /\ Blocked
  /\ lockLeft' = Window
  /\ UNCHANGED <<failures, windowLeft, inFlight, history>>

\* The middleware answers 429 and nothing changes.
TurnAway == Blocked /\ UNCHANGED vars

\* isLocked reports false, and forgets the entry if its lockout is over.
Admit ==
  /\ ~Blocked
  /\ inFlight < MaxInFlight
  /\ inFlight' = inFlight + 1
  /\ IF Locked THEN Drop ELSE UNCHANGED entry
  /\ UNCHANGED history

\* The limit is compared before the failure at hand is counted.
RecordFailureLate ==
  LET before == IF windowLeft = Past THEN 0 ELSE failures
  IN /\ failures' = before + 1
     /\ windowLeft' = Window
     /\ lockLeft' = IF before >= MaxFailures THEN Window ELSE NotLocked

\* Every failure beyond the limit adds a lockout to the one that runs.
RecordFailureStacking ==
  LET fresh == failures = 0 \/ windowLeft = Past
      count == IF fresh THEN 1 ELSE failures + 1
  IN /\ failures' = count
     /\ windowLeft' = Window
     /\ lockLeft' = IF count < MaxFailures THEN NotLocked
                    ELSE IF Locked THEN lockLeft + Window ELSE Window

\* RecordFailure: a new entry when there is none or its window is over; the
\* limit locks, or locks anew.
RecordFailure ==
  LET fresh == failures = 0 \/ windowLeft = Past
      count == IF fresh THEN 1 ELSE failures + 1
  IN /\ failures' = count
     /\ windowLeft' = Window
     /\ lockLeft' = IF count >= MaxFailures THEN Window
                    ELSE IF fresh THEN NotLocked ELSE lockLeft

\* Login with an unknown user or a wrong password.
WrongPassword ==
  /\ inFlight > 0
  /\ inFlight' = inFlight - 1
  /\ RecordFailure
  /\ streak' = IF pause > Window THEN 1
               ELSE IF streak < MaxFailures THEN streak + 1 ELSE streak
  /\ pause' = 0

\* Login succeeds: RecordSuccess drops the entry, a locked one included.
RightPassword ==
  /\ inFlight > 0
  /\ inFlight' = inFlight - 1
  /\ Drop
  /\ streak' = 0
  /\ pause' = Window + 1

\* A malformed request, a disabled account, a failure to sign the token.
Undecided ==
  /\ inFlight > 0
  /\ inFlight' = inFlight - 1
  /\ UNCHANGED <<entry, history>>

\* The sweep removes every entry whose window it takes to be over.
JanitorEager ==
  /\ failures > 0
  /\ windowLeft <= 0
  /\ Drop
  /\ UNCHANGED <<inFlight, history>>

\* One sweep of the janitor: unlocked entries past their window.
Janitor ==
  /\ failures > 0
  /\ ~Locked
  /\ windowLeft = Past
  /\ Drop
  /\ UNCHANGED <<inFlight, history>>

Tick ==
  /\ windowLeft' = Count(windowLeft)
  /\ lockLeft' = Count(lockLeft)
  /\ pause' = IF pause > Window THEN pause ELSE pause + 1
  /\ UNCHANGED <<failures, inFlight, streak>>

\* The entries live in memory only: a restart forgets them.
Restart ==
  /\ Drop
  /\ inFlight' = 0
  /\ streak' = 0
  /\ pause' = Window + 1

Decide == WrongPassword \/ RightPassword \/ Undecided
Next == TurnAway \/ Admit \/ Decide \/ Janitor \/ Tick \/ Restart

Spec == Init /\ [][Next]_vars

\* Time passes; nothing is assumed of the clients or of the handler.
FairSpec == Spec /\ WF_vars(Tick)

-----------------------------------------------------------------------------
(* Properties                                                              *)

\* MaxFailures wrong passwords without a success, no two of them more than a
\* window apart, lock the address for a whole lockout after the last one: no
\* sweep, expiry or late answer forgives them early (ratelimit.go:54-103).
StreakIsLocked == streak >= MaxFailures /\ pause <= Window => Blocked

\* Requests that passed the check before the lock came may fail after it, but
\* nobody joins them: an address gets at most MaxInFlight - 1 guesses more
\* than the limit (ratelimit.go:40-51 checks, 54-68 counts).
GuessBudget == failures <= MaxFailures + MaxInFlight - 1

\* A locked address is let in again, although the answers still due when it
\* was locked renew the lockout (ratelimit.go:64-67 and 84-87).
LockoutEnds == Blocked ~> ~Blocked
=============================================================================
