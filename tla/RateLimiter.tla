---------------------------- MODULE RateLimiter ----------------------------
(***************************************************************************)
(* src/rate_limiter.c: the token bucket in front of every HTTP request.    *)
(*                                                                         *)
(* A tick is the microsecond in which wait() counts its sleep, and a token *)
(* is divided into TicksPerSecond units, so that a tick refills Rps units  *)
(* and the code's fractions are integers.  The model does not follow the   *)
(* rounding of doubles.  The critical section of a call (refill, look,     *)
(* take) is one step.  Rps = 0, which makes both calls return at once      *)
(* without touching the bucket, is left out.                               *)
(***************************************************************************)
EXTENDS Integers

CONSTANTS
    Callers,            \* threads that ask the limiter
    Rps,                \* tokens_per_second
    TicksPerSecond,     \* 10^6
    MinSleep, MaxSleep  \* 1000 and 100000 ticks

ASSUME LimiterAssumption ==
    /\ Rps \in Nat \ {0}
    /\ TicksPerSecond \in Nat \ {0}
    /\ MinSleep \in Nat \ {0}
    /\ MaxSleep \in Nat
    /\ MinSleep <= MaxSleep

VARIABLES
    tokens,     \* the bucket, in units
    lag,        \* ticks since last_refill
    waiting,    \* callers inside yurei_rate_limiter_wait that had to sleep
    due,        \* due[c]: ticks of c's usleep still to go
    spent       \* history: how far the grants run ahead of the rate

vars == <<tokens, lag, waiting, due, spent>>

Token     == TicksPerSecond
MaxTokens == 2 * Rps * Token

\* After two seconds the bucket is full whatever it held, so a longer lag
\* makes no difference.
MaxLag == 2 * TicksPerSecond

Init ==
    /\ tokens = MaxTokens
    /\ lag = 0
    /\ waiting = {}
    /\ due = [c \in Callers |-> 0]
    /\ spent = 0
-----------------------------------------------------------------------------
Least(a, b) == IF a <= b THEN a ELSE b
Most(a, b)  == IF a <= b THEN b ELSE a

BugLevelUncapped == tokens + lag * Rps

\* A refill that adds whole tokens only and forgets the fraction.
BugLevelWholeTokens ==
    Least(tokens + ((lag * Rps) \div Token) * Token, MaxTokens)

\* What the bucket holds after refill_tokens().
Level == Least(tokens + lag * Rps, MaxTokens)

BugSleepWholeToken(level) == Least(Most(Token \div Rps, MinSleep), MaxSleep)

\* The sleep until the missing part of a token is refilled, clamped.
SleepFor(level) == Least(Most((Token - level) \div Rps, MinSleep), MaxSleep)

Take ==
    /\ Level >= Token
    /\ tokens' = Level - Token
    /\ lag' = 0
    /\ spent' = spent + Token

Refill ==
    /\ Level < Token
    /\ tokens' = Level
    /\ lag' = 0
    /\ UNCHANGED spent

\* yurei_rate_limiter_wait: the first round of its loop, or the one after
\* a sleep.
Wait(c) ==
    /\ due[c] = 0
    /\ \/ /\ Take
          /\ waiting' = waiting \ {c}
          /\ UNCHANGED due
       \/ /\ Refill
          /\ waiting' = waiting \cup {c}
          /\ due' = [due EXCEPT ![c] = SleepFor(Level)]

TryAcquire(c) ==
    /\ c \notin waiting
    /\ Take \/ Refill
    /\ UNCHANGED <<waiting, due>>

\* Time passes; usleep lasts at least as long as it was asked to.
Tick ==
    /\ lag' = Least(lag + 1, MaxLag)
    /\ due' = [c \in Callers |-> Most(due[c] - 1, 0)]
    /\ spent' = Most(spent - Rps, 0)
    /\ UNCHANGED <<tokens, waiting>>

Next == Tick \/ \E c \in Callers : Wait(c) \/ TryAcquire(c)

Spec == Init /\ [][Next]_vars

\* A caller that has slept goes on; time goes on.
FairSpec ==
    /\ Spec
    /\ WF_vars(Tick)
    /\ \A c \in Callers : WF_vars(c \in waiting /\ Wait(c))
-----------------------------------------------------------------------------
\* The types of the state: the bucket never overflows or goes negative, and
\* no sleep is longer than the maximum.
TypeOK ==
    /\ tokens \in 0 .. MaxTokens
    /\ lag \in 0 .. MaxLag
    /\ waiting \in SUBSET Callers
    /\ due \in [Callers -> 0 .. MaxSleep]
    /\ \A c \in Callers \ waiting : due[c] = 0
    /\ spent \in Nat

(***************************************************************************)
(* spent grows by a token with every grant and shrinks at the rate Rps,    *)
(* never below zero: it is the largest value, over all windows that end    *)
(* now, of the units granted in the window minus the units the rate allows *)
(* for it.                                                                 *)
(***************************************************************************)

\* In any window of w seconds, however placed and whatever the callers did
\* before, at most 2*Rps + w*Rps requests are let through: the burst of the
\* comment at rate_limiter.c:18, and the rate on top of it.
BurstBounded == spent <= MaxTokens

\* A caller is not left asleep while there is a token for it, except within
\* the minimal sleep: the computed sleep never overshoots, also when other
\* callers drain or refill the bucket in the meantime.
NoOversleep == Level >= Token => \A c \in waiting : due[c] < MinSleep

\* A caller waits for ever only if others are let through for ever: the
\* poller, which is alone, gets its token however often it wakes too early.
WaitEnds ==
    \A c \in Callers :
        <>[](c \in waiting) => []<><<spent' > spent>>_vars
-----------------------------------------------------------------------------
(* What makes the two invariants inductive.                                *)

\* What has been granted ahead of the rate is missing from the bucket.
SpentIsMissing == spent + Level <= MaxTokens

\* A sleep of more than the minimum ends when the token is due, or before.
SleepFits ==
    \A c \in waiting :
        \/ Level + Rps * due[c] <= Token
        \/ due[c] < MinSleep
        \/ due[c] = MinSleep /\ Level < Token

SafeLimiter == TypeOK /\ SpentIsMissing /\ SleepFits
=============================================================================
