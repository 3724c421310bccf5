------------------------- MODULE LoginLimiter_proofs -------------------------
(***************************************************************************)
(* For every limit, window and number of requests in flight: the type      *)
(* invariant, StreakIsLocked and GuessBudget.  LockoutEnds is a liveness   *)
(* property and is left to TLC.                                            *)
(***************************************************************************)
EXTENDS LoginLimiter, TLAPS

\* The two clocks run together: the window and, once the address is locked,
\* the lockout start at the failure from which pause is counted.
Clocks ==
  /\ windowLeft = Window - pause
  /\ Locked => lockLeft = windowLeft

\* An entry is locked from the failure that reaches the limit on, and holds
\* every failure of the streak.
Counting ==
  /\ failures = 0 => windowLeft = Past
  /\ Locked => failures >= MaxFailures
  /\ failures >= MaxFailures => Locked
  /\ windowLeft > Past => streak <= failures

\* While the lockout runs nobody is let in, so what the requests in flight
\* can still add is bounded; after it the entry counts no further.
Budget ==
  /\ Locked => failures <= MaxFailures + MaxInFlight - 1
  /\ Locked /\ lockLeft > Past => failures + inFlight <= MaxFailures + MaxInFlight - 1

IInv == TypeOK /\ Clocks /\ Counting /\ Budget

\* The server starts without entries and without requests.
LEMMA InitHolds == Init => IInv
BY LimiterAssumption
   DEF LimiterAssumption, Init, NoEntry, IInv, TypeOK, Clocks, Counting, Budget,
       Past, NotLocked, Locked

\* RecordFailure is the one place where the counter, the clocks and the lock
\* move together.
LEMMA WrongPasswordKeeps == ASSUME IInv, WrongPassword PROVE IInv'
<1> USE LimiterAssumption
    DEF LimiterAssumption, IInv, TypeOK, Clocks, Counting, Budget,
        WrongPassword, RecordFailure, Past, NotLocked, Locked
<1>1. CASE windowLeft = Past
  BY <1>1
<1>2. CASE windowLeft # Past /\ failures + 1 >= MaxFailures
  BY <1>2
<1>3. CASE windowLeft # Past /\ failures + 1 < MaxFailures
  BY <1>3
<1>4. QED
  BY <1>1, <1>2, <1>3

\* One step per action of Next.
LEMMA StepHolds == ASSUME IInv, [Next]_vars PROVE IInv'
<1> USE LimiterAssumption DEF LimiterAssumption, IInv, TypeOK, Clocks, Counting,
        Budget, Past, NotLocked, Locked, entry, history
<1>1. CASE TurnAway
  BY <1>1 DEF TurnAway, vars
<1>2. CASE Admit
  <2>1. CASE Locked
    BY <1>2, <2>1 DEF Admit, Blocked, Drop
  <2>2. CASE ~Locked
    BY <1>2, <2>2 DEF Admit, Blocked
  <2>3. QED
    BY <2>1, <2>2
<1>3. CASE WrongPassword
  BY <1>3, WrongPasswordKeeps
<1>4. CASE RightPassword
  BY <1>4 DEF RightPassword, Drop
<1>5. CASE Undecided
  BY <1>5 DEF Undecided
<1>6. CASE Janitor
  BY <1>6 DEF Janitor, Drop
<1>7. CASE Tick
  BY <1>7 DEF Tick, Count
<1>8. CASE Restart
  BY <1>8 DEF Restart, Drop
<1>9. CASE UNCHANGED vars
  BY <1>9 DEF vars
<1>10. QED
  BY <1>1, <1>2, <1>3, <1>4, <1>5, <1>6, <1>7, <1>8, <1>9 DEF Next, Decide

\* The inductive invariant holds always.
LEMMA Invariance == Spec => []IInv
BY InitHolds, StepHolds, PTL DEF Spec

\* Every clock and counter of an entry keeps its range: a failure beyond the
\* limit renews the lockout and never adds to it (ratelimit.go:63-67).
THEOREM LimiterTypeCorrect == Spec => []TypeOK
<1>1. IInv => TypeOK
  BY DEF IInv
<1>2. QED
  BY <1>1, Invariance, PTL

\* A full streak of failures is answered by the lock, for a whole lockout
\* after the last of them (ratelimit.go:54-103).
THEOREM StreakIsLockedHolds == Spec => []StreakIsLocked
<1>1. IInv => StreakIsLocked
  BY LimiterAssumption
     DEF LimiterAssumption, IInv, TypeOK, Clocks, Counting, StreakIsLocked,
         Blocked, Past, NotLocked, Locked
<1>2. QED
  BY <1>1, Invariance, PTL

\* The check in the middleware and the count in the handler are two steps;
\* however they interleave, at most MaxInFlight - 1 guesses exceed the limit
\* (ratelimit.go:40-68).
THEOREM GuessBudgetHolds == Spec => []GuessBudget
<1>1. IInv => GuessBudget
  BY LimiterAssumption DEF LimiterAssumption, IInv, TypeOK, Counting, Budget, GuessBudget
<1>2. QED
  BY <1>1, Invariance, PTL
=============================================================================
