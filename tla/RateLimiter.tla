------------------------------ MODULE RateLimiter ------------------------------
(***************************************************************************)
(* The rate limiter every probe waits for (internal/scanner/dispatcher.go, *)
(* worker.go, udp_worker.go).  The token bucket is golang.org/x/time/rate, *)
(* outside the repository: a wait takes its token at once, if need be one  *)
(* that is not there yet, and lasts until that token is due.  Time is      *)
(* counted in ticks of one token, Rate of them to a second; a timer fires  *)
(* when it is due.                                                         *)
(***************************************************************************)
EXTENDS Integers, FiniteSets

CONSTANTS Workers,  \* the workers of both pools
          Rate,     \* the -r option, probes per second
          MaxAge    \* bound: ticks the observer watches

ASSUME RateAssumption == Rate \in Nat \ {0}
ASSUME MaxAgeNat == MaxAge \in Nat

\* The bucket is as large as the rate.
Burst == Rate

VARIABLES tokens,     \* in the bucket, less than none when some are owed
          wait,       \* worker -> ticks until the token it waits for is due
          cancelled,  \* the context
          seen,       \* starts that an observer has counted
          age         \* ticks since it began

limiterVars == <<tokens, wait, cancelled, seen, age>>

LimiterTypeOK ==
    /\ tokens \in Int /\ tokens <= Burst
    /\ wait \in [Workers -> Nat]
    /\ cancelled \in BOOLEAN
    /\ seen \in Nat /\ age \in 0 .. MaxAge

LimiterInit ==
    /\ tokens = Burst
    /\ wait = [w \in Workers |-> 0]
    /\ cancelled = FALSE
    /\ seen = 0 /\ age = 0

\* A worker with a job and a token starts its probe.
StartAtOnce(w) ==
    /\ ~cancelled /\ wait[w] = 0 /\ tokens > 0
    /\ tokens' = tokens - 1
    /\ seen' = seen + 1
    /\ UNCHANGED <<wait, cancelled, age>>

\* Mutation: waiting takes no token.
Wait_TakesNone(w) ==
    /\ ~cancelled /\ wait[w] = 0 /\ tokens <= 0
    /\ wait' = [wait EXCEPT ![w] = 1 - tokens]
    /\ UNCHANGED <<tokens, cancelled, seen, age>>

\* Mutation: the worker that came last is served first.
Wait_Barges(w) ==
    /\ ~cancelled /\ wait[w] = 0 /\ tokens <= 0
    /\ tokens' = tokens - 1
    /\ wait' = [v \in Workers |-> IF v = w THEN 1 ELSE IF wait[v] = 0 THEN 0 ELSE wait[v] + 1]
    /\ UNCHANGED <<cancelled, seen, age>>

\* A worker without a token waits for the next one that nobody has claimed.
Wait(w) ==
    /\ ~cancelled /\ wait[w] = 0 /\ tokens <= 0
    /\ tokens' = tokens - 1
    /\ wait' = [wait EXCEPT ![w] = 1 - tokens]
    /\ UNCHANGED <<cancelled, seen, age>>

\* The workers whose token drips with the next tick.
Due == {w \in Workers : wait[w] = 1}

\* A token drips into the bucket; the worker it was claimed by starts.
LimiterTick ==
    /\ age < MaxAge
    /\ age' = age + 1
    /\ tokens' = IF tokens < Burst THEN tokens + 1 ELSE tokens
    /\ wait' = [w \in Workers |-> IF wait[w] = 0 THEN 0 ELSE wait[w] - 1]
    /\ seen' = seen + Cardinality(Due)
    /\ UNCHANGED cancelled

Cancel ==
    /\ ~cancelled /\ cancelled' = TRUE
    /\ UNCHANGED <<tokens, wait, seen, age>>

\* A waiting worker gives up.  Nobody takes a token after a cancellation, so
\* that the token it returns does not matter.
GiveUp(w) ==
    /\ cancelled /\ wait[w] > 0
    /\ wait' = [wait EXCEPT ![w] = 0]
    /\ UNCHANGED <<tokens, cancelled, seen, age>>

\* Somebody begins to count.
Observe ==
    /\ seen' = 0 /\ age' = 0
    /\ UNCHANGED <<tokens, wait, cancelled>>

LimiterNext ==
    \/ LimiterTick \/ Cancel \/ Observe
    \/ \E w \in Workers : StartAtOnce(w) \/ Wait(w) \/ GiveUp(w)

LimiterSpec == LimiterInit /\ [][LimiterNext]_limiterVars

\* Time goes on, and an observer that has seen enough begins anew.
LimiterFairSpec ==
    /\ LimiterSpec
    /\ WF_limiterVars(LimiterTick) /\ WF_limiterVars(age = MaxAge /\ Observe)
    /\ \A w \in Workers : WF_limiterVars(GiveUp(w))

-----------------------------------------------------------------------------
\* Whenever somebody begins to count and however many workers there are, the
\* probes that start in the next ticks are at most the bucket and one a tick:
\* at most twice the rate in a second.
BoundedStarts == seen <= Burst + age

\* No worker waits for ever, whatever the others do.
EveryWaitEnds == \A w \in Workers : wait[w] > 0 ~> wait[w] = 0
=============================================================================
