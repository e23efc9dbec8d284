---------------------------- MODULE PairAttempts ----------------------------
(***************************************************************************)
(* _enforce_pair_rate_limit: at most AttemptLimit exchanges of pairing     *)
(* codes per minute and client.  The clock is read before the lock that    *)
(* protects the list of attempts is taken.                                 *)
(***************************************************************************)
EXTENDS Selection

CONSTANTS
    PairThreads,    \* request threads that serve one client
    AttemptLimit,   \* pair_attempt_limit_per_min
    Minute,         \* 60 seconds, in ticks of the clock
    MaxTime,        \* bound: ticks
    MaxAttempts     \* bound: exchanges tried

ASSUME MinuteAssumption == Minute \in Nat \ {0} /\ AttemptLimit \in Nat \ {0}

VARIABLES
    time,        \* time.monotonic
    stamp,       \* the time that each thread has read, or NoStamp
    attempts,    \* _pair_attempts of the client
    admitted,    \* history: times of the attempts that were let through
    tried,       \* exchanges tried
    raced        \* history: a thread read the clock while another one had

attemptVars == <<time, stamp, attempts, admitted, tried, raced>>

NoStamp == -1

\* what the window that ends at t holds
RecentAt(times, t) == {i \in DOMAIN times : t - times[i] <= Minute}
Recent(times, t) == Picked(times, RecentAt(times, t))

KeptBug(times, t) == Append(Recent(times, t), t)
\* the list after an attempt at t: one that is refused is not stored
Kept(times, t) ==
    IF Len(Recent(times, t)) >= AttemptLimit THEN times ELSE Append(Recent(times, t), t)

AttemptsInit ==
    /\ time = 0
    /\ stamp = [t \in PairThreads |-> NoStamp]
    /\ attempts = <<>> /\ admitted = <<>>
    /\ tried = 0 /\ raced = FALSE

Tick == /\ time < MaxTime
        /\ time' = time + 1
        /\ UNCHANGED <<stamp, attempts, admitted, tried, raced>>

ReadClock(t) ==
    /\ stamp[t] = NoStamp /\ tried < MaxAttempts
    /\ stamp' = [stamp EXCEPT ![t] = time]
    /\ tried' = tried + 1
    /\ raced' = (raced \/ \E u \in PairThreads : stamp[u] # NoStamp)
    /\ UNCHANGED <<time, attempts, admitted>>

\* The rest, with the lock.
Attempt(t) ==
    /\ stamp[t] # NoStamp
    /\ attempts' = Kept(attempts, stamp[t])
    /\ admitted' = IF Len(Recent(attempts, stamp[t])) < AttemptLimit THEN Append(admitted, stamp[t]) ELSE admitted
    /\ stamp' = [stamp EXCEPT ![t] = NoStamp]
    /\ UNCHANGED <<time, tried, raced>>

AttemptsNext == Tick \/ \E t \in PairThreads : ReadClock(t) \/ Attempt(t)
AttemptsSpec == AttemptsInit /\ [][AttemptsNext]_attemptVars

---------------------------------------------------------------------------
(* Properties.  Both speak of all attempts ever let through, of which the  *)
(* code keeps those of the last minute only.                               *)

\* the places of what was let through in the minute that ends at t
Within(times, t) == {i \in DOMAIN times : times[i] \in (t - Minute) .. t}

\* No minute, both ends included, has more than the limit.  A thread that was
\* held up between the clock and the lock may be let through beside the limit.
LimitIsKept ==
    ~raced => \A i \in DOMAIN admitted : Cardinality(Within(admitted, admitted[i])) <= AttemptLimit

\* An attempt is refused only if the limit was let through in its last minute,
\* or meanwhile: a client that goes on trying while it is refused is let
\* through again as early as one that waits.
RefusedOnlyAtLimit ==
    [][\A t \in PairThreads : stamp[t] # NoStamp /\ stamp'[t] = NoStamp /\ admitted' = admitted =>
           Cardinality(RecentAt(admitted, stamp[t])) >= AttemptLimit]_attemptVars

\* The rate limit lets through no more than it says, and no less.
AttemptsAreLimited == []LimitIsKept /\ RefusedOnlyAtLimit

=============================================================================
