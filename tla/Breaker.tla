------------------------------ MODULE Breaker ------------------------------
(***************************************************************************)
(* The circuit breaker of /ping (src/internal/resilience/breaker.go and    *)
(* Handler.Ping): concurrent calls of Breaker.Call around Storage.Ping.    *)
(*                                                                         *)
(* Call takes its mutex twice, before and after fn, so a call is two       *)
(* atomic steps and other calls come in between.  The clock is kept as     *)
(* openFor, what is left of openUntil, in ticks; a tick is any fraction of *)
(* the cooldown.                                                           *)
(***************************************************************************)
EXTENDS Naturals, FiniteSets

CONSTANTS
    Callers,       \* /ping requests that can be under way at the same time
    MaxFailures,   \* maxFailures, positive after NewBreaker
    Cooldown       \* cooldown in ticks, positive after NewBreaker

ASSUME BreakerAssumption ==
    /\ IsFiniteSet(Callers)
    /\ MaxFailures \in Nat \ {0}
    /\ Cooldown \in Nat \ {0}

VARIABLES
    failures,      \* errors since the last success or trip
    openFor,       \* openUntil - now while that is positive, else 0
    ping,          \* per caller: "idle", "running" (inside fn), or the status answered
    streak,        \* history: latest completed calls that were all errors, at most MaxFailures
    trips          \* history: trips since the breaker was last closed, at most one per caller and one more

vars == <<failures, openFor, ping, streak, trips>>
historyVars == <<streak, trips>>

Answers == {"200", "500", "503"}

\* The histories count up to what the properties tell apart.
OneMore(n, bound) == IF n > bound THEN n ELSE n + 1

Running == {c \in Callers : ping[c] = "running"}

\* Mutation of Admit: the answer does not depend on openUntil.
AdmitAlways(c) ==
    /\ ping[c] # "running"
    /\ ping' = [ping EXCEPT ![c] = "running"]
    /\ UNCHANGED <<failures, openFor, historyVars>>

\* The first critical section of Call; Ping answers ErrOpen with 503.
Admit(c) ==
    /\ ping[c] # "running"
    /\ ping' = [ping EXCEPT ![c] = IF openFor > 0 THEN "503" ELSE "running"]
    /\ UNCHANGED <<failures, openFor, historyVars>>

\* Mutation of Succeed: a success leaves the count as it is.
SucceedKeepsFailures(c) ==
    /\ ping[c] = "running"
    /\ streak' = 0
    /\ ping' = [ping EXCEPT ![c] = "200"]
    /\ UNCHANGED <<failures, openFor, trips>>

\* The second critical section of Call after fn returned nil.
Succeed(c) ==
    /\ ping[c] = "running"
    /\ failures' = 0
    /\ streak' = 0
    /\ ping' = [ping EXCEPT ![c] = "200"]
    /\ UNCHANGED <<openFor, trips>>

\* Mutation of Fail: the count is not reset, so it stays at the threshold.
FailKeepsFailures(c) ==
    /\ ping[c] = "running"
    /\ IF failures + 1 >= MaxFailures
         THEN openFor' = Cooldown /\ trips' = OneMore(trips, Cardinality(Callers)) /\ UNCHANGED failures
         ELSE failures' = failures + 1 /\ UNCHANGED <<openFor, trips>>
    /\ streak' = OneMore(streak, MaxFailures - 1)
    /\ ping' = [ping EXCEPT ![c] = "500"]

\* Mutation of Fail: off by one, the breaker trips one failure late.
FailTripsLate(c) ==
    /\ ping[c] = "running"
    /\ IF failures >= MaxFailures
         THEN openFor' = Cooldown /\ failures' = 0 /\ trips' = OneMore(trips, Cardinality(Callers))
         ELSE failures' = failures + 1 /\ UNCHANGED <<openFor, trips>>
    /\ streak' = OneMore(streak, MaxFailures - 1)
    /\ ping' = [ping EXCEPT ![c] = "500"]

\* The second critical section of Call after fn returned an error: storage.Ping
\* failed, or the client went away and cancelled the request's context.
Fail(c) ==
    /\ ping[c] = "running"
    /\ IF failures + 1 >= MaxFailures
         THEN openFor' = Cooldown /\ failures' = 0 /\ trips' = OneMore(trips, Cardinality(Callers))
         ELSE failures' = failures + 1 /\ UNCHANGED <<openFor, trips>>
    /\ streak' = OneMore(streak, MaxFailures - 1)
    /\ ping' = [ping EXCEPT ![c] = "500"]

\* Time passes until openUntil.
Elapse ==
    /\ openFor > 0
    /\ openFor' = openFor - 1
    /\ trips' = IF openFor = 1 THEN 0 ELSE trips
    /\ UNCHANGED <<failures, ping, streak>>

-----------------------------------------------------------------------------
Init ==
    /\ failures = 0
    /\ openFor = 0
    /\ ping = [c \in Callers |-> "idle"]
    /\ streak = 0
    /\ trips = 0

Next ==
    \/ \E c \in Callers : Admit(c) \/ Succeed(c) \/ Fail(c)
    \/ Elapse

Spec == Init /\ [][Next]_vars

\* Only time is fair: nobody has to send a ping, and fn may hang.
FairSpec == Spec /\ WF_vars(Elapse)

-----------------------------------------------------------------------------
\* Type invariant.
BreakerTypeOK ==
    /\ failures \in 0..(MaxFailures - 1)
    /\ openFor \in 0..Cooldown
    /\ ping \in [Callers -> {"idle", "running"} \union Answers]
    /\ streak \in 0..MaxFailures
    /\ trips \in Nat

\* Late failures extend an outage only so often: the calls that passed the check before
\* the breaker tripped (the lock is released before fn runs) can trip it again, but each
\* further trip takes maxFailures of them.  With no more pings at a time than the
\* threshold, one outage is one cooldown.
LateTripsBounded ==
    openFor > 0 => (trips - 1) * MaxFailures < Cardinality(Callers)

\* The breaker trips on consecutive failures only: the latest maxFailures calls to
\* complete all failed, whatever the order in which they were admitted.
TripsOnStreak ==
    [][openFor' > openFor => streak' = MaxFailures]_vars

\* The breaker closes again, with any number of concurrent pings: late failures may
\* extend the cooldown, but an open breaker admits nobody who could fail later.
ClosesAgain == openFor > 0 ~> openFor = 0
=============================================================================
