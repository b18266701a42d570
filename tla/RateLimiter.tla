---------------------------- MODULE RateLimiter ----------------------------
(***************************************************************************)
(* The upload rate limiter (src/internal/handler/ratelimit.go): one token  *)
(* bucket for all users, refilled lazily, by the next request, from the    *)
(* time that has passed since the last one.  allow holds a mutex from      *)
(* beginning to end and is one step.                                       *)
(*                                                                         *)
(* Time is counted in ticks of which Interval refill one token, so a       *)
(* minute has Interval * Capacity ticks, and tokens are counted in         *)
(* Interval-ths: a tick refills one of them and a request costs Interval.  *)
(* Rounding of the code's float64 arithmetic is left out.                  *)
(***************************************************************************)
EXTENDS Naturals

CONSTANTS
    Capacity,      \* requestsPerMinute, positive after newUploadRateLimiter
    Interval,      \* ticks that refill one token
    MaxWindow      \* bound: length of the window that is observed, in ticks

ASSUME RateLimiterAssumption ==
    /\ Capacity \in Nat \ {0}
    /\ Interval \in Nat \ {0}
    /\ MaxWindow \in Nat

VARIABLES
    tokens,        \* tokens after the last request, in Interval-ths
    elapsed,       \* ticks since the last request (now - last); a minute fills the bucket
    granted,       \* history: requests let through in the observed window
    window,        \* history: age of the observed window, in ticks
    waited         \* history: ticks since a request was last let through, at most Interval

limiterVars == <<tokens, elapsed, granted, window, waited>>

Full == Capacity * Interval

AtMost(n, bound) == IF n > bound THEN bound ELSE n

\* Mutation of Refilled: the bucket has no rim.
RefilledUnbounded == tokens + elapsed

\* Tokens after the refill that every call of allow begins with.
Refilled == AtMost(tokens + elapsed, Full)

\* Mutation of Refuse: a refused request moves last but does not store its refill.
RefuseForgetsRefill ==
    /\ Refilled < Interval
    /\ elapsed' = 0
    /\ UNCHANGED <<tokens, granted, window, waited>>

\* Mutation of Refuse: tokens are stored but last is moved by granted requests only.
RefuseKeepsLast ==
    /\ Refilled < Interval
    /\ tokens' = Refilled
    /\ UNCHANGED <<elapsed, granted, window, waited>>

\* allow returns false; the middleware answers 429.
Refuse ==
    /\ Refilled < Interval
    /\ tokens' = Refilled
    /\ elapsed' = 0
    /\ UNCHANGED <<granted, window, waited>>

\* allow returns true and the upload goes on to the handler.
Allow ==
    /\ Refilled >= Interval
    /\ tokens' = Refilled - Interval
    /\ elapsed' = 0
    /\ granted' = granted + 1
    /\ waited' = 0
    /\ UNCHANGED window

\* Time passes.
Tick ==
    /\ window < MaxWindow
    /\ elapsed' = AtMost(elapsed + 1, Full)
    /\ window' = window + 1
    /\ waited' = AtMost(waited + 1, Interval)
    /\ UNCHANGED <<tokens, granted>>

\* An observer starts a new window at any time.
Observe ==
    /\ granted' = 0
    /\ window' = 0
    /\ UNCHANGED <<tokens, elapsed, waited>>

-----------------------------------------------------------------------------
\* newUploadRateLimiter: the bucket starts full.
LimiterInit ==
    /\ tokens = Full
    /\ elapsed = 0
    /\ granted = 0
    /\ window = 0
    /\ waited = 0

LimiterNext == Refuse \/ Allow \/ Tick \/ Observe

LimiterSpec == LimiterInit /\ [][LimiterNext]_limiterVars

-----------------------------------------------------------------------------
\* Type invariant.
RateLimiterTypeOK ==
    /\ tokens \in 0..Full
    /\ elapsed \in 0..Full
    /\ granted \in Nat
    /\ window \in 0..MaxWindow
    /\ waited \in 0..Interval

\* The rate: in every window of time, wherever it starts and however the requests are
\* spread, at most a full bucket of uploads and one more per refilled token gets
\* through.  (So a minute may see twice requestsPerMinute, after a quiet one.)
RateBounded == granted * Interval <= Full + window

\* Refusals are free: however often clients retry and are refused, the first request
\* that comes a refill interval after the last upload let through is let through.
RetriesCostNothing == [][Refuse => waited < Interval]_limiterVars
=============================================================================
