------------------------- MODULE RateLimiterProofs -------------------------
(***************************************************************************)
(* Proofs about RateLimiter for any rate, any clock resolution, any clamps *)
(* of the sleep and any number of callers.                                 *)
(***************************************************************************)
EXTENDS RateLimiter, TLAPS

\* The products of the module are of naturals, and so is the bucket.
LEMMA Products ==
    ASSUME NEW t \in Nat
    PROVE  /\ Rps * t \in Nat
           /\ t * Rps = Rps * t
           /\ Rps * (t + 1) = Rps * t + Rps
           /\ t > 0 => Rps * (t - 1) = Rps * t - Rps
BY LimiterAssumption

\* The constants of the bucket are natural numbers.
LEMMA Sizes ==
    /\ Token \in Nat \ {0}
    /\ MaxTokens \in Nat
    /\ Rps * MaxLag = MaxTokens
    /\ Token <= MaxTokens
<1>1. Token \in Nat \ {0}
  BY LimiterAssumption DEF Token
<1>2. Rps * Token \in Nat /\ Rps * Token >= Token
  BY <1>1, LimiterAssumption
<1>3. MaxTokens = 2 * (Rps * Token) /\ Rps * MaxLag = 2 * (Rps * Token)
  BY <1>1, LimiterAssumption DEF MaxTokens, MaxLag, Token
<1> QED
  BY <1>1, <1>2, <1>3

\* The sleep fits what is missing of a token, unless it is the minimum.
LEMMA SleepForBounds ==
    ASSUME NEW level \in Nat, level < Token
    PROVE  /\ SleepFor(level) \in 0 .. MaxSleep
           /\ \/ level + Rps * SleepFor(level) <= Token
              \/ SleepFor(level) = MinSleep
<1> DEFINE q == (Token - level) \div Rps
<1>1. q \in Nat /\ Rps * q <= Token - level
  BY Sizes, LimiterAssumption
<1>2. SleepFor(level) \in Nat /\ SleepFor(level) <= MaxSleep
      /\ (SleepFor(level) = MinSleep \/ SleepFor(level) <= q)
  BY <1>1, LimiterAssumption DEF SleepFor, Least, Most
<1>3. CASE SleepFor(level) = MinSleep
  BY <1>2, <1>3, LimiterAssumption
<1>4. CASE SleepFor(level) <= q
  <2>1. Rps * SleepFor(level) <= Rps * q
    BY <1>1, <1>2, <1>4, LimiterAssumption
  <2> QED
    BY <1>1, <1>2, <2>1, Products, Sizes, LimiterAssumption
<1> QED
  BY <1>2, <1>3, <1>4
-----------------------------------------------------------------------------
(* The level of the bucket, step by step.                                  *)

\* A refill stays within the bucket.
LEMMA LevelType ==
    ASSUME TypeOK
    PROVE  Level \in 0 .. MaxTokens
<1>1. lag \in Nat /\ tokens \in Nat /\ tokens <= MaxTokens
  BY Sizes, LimiterAssumption DEF TypeOK, MaxLag
<1> QED
  BY <1>1, Products, Sizes DEF Level, Least

\* A step that puts the refilled level minus `taken' into the bucket.
LEMMA LevelAfterCall ==
    ASSUME TypeOK, NEW taken \in Nat, taken <= Level,
           tokens' = Level - taken, lag' = 0
    PROVE  /\ tokens' \in 0 .. MaxTokens
           /\ Level' = Level - taken
<1>1. Level \in Nat /\ Level <= MaxTokens
  BY LevelType, Sizes
<1>2. tokens' \in Nat /\ tokens' <= MaxTokens
  BY <1>1, Sizes
<1>3. lag' * Rps = 0
  BY LimiterAssumption
<1> DEFINE t == tokens'
           l == lag'
<1>4. Level' = Least(t + l * Rps, MaxTokens)
  BY DEF Level, Least, MaxTokens, Token
<1> QED
  BY <1>2, <1>3, <1>4, Sizes DEF Least

\* A tick raises the level by the rate at most, and not beyond the maximum.
LEMMA LevelAfterTick ==
    ASSUME TypeOK, Tick
    PROVE  /\ lag' \in 0 .. MaxLag
           /\ Level' \in 0 .. MaxTokens
           /\ Level' <= Level + Rps
<1>1. lag \in Nat /\ tokens \in Nat /\ tokens <= MaxTokens
      /\ lag <= MaxLag /\ MaxLag \in Nat
  BY Sizes, LimiterAssumption DEF TypeOK, MaxLag
<1>2. /\ lag' \in Nat /\ lag' <= MaxLag
      /\ lag' = lag + 1 \/ lag' = lag
  BY <1>1 DEF Tick, Least
<1>3. /\ lag * Rps \in Nat /\ lag' * Rps \in Nat
      /\ lag' * Rps <= lag * Rps + Rps
  <2>1. CASE lag' = lag + 1
    BY <1>1, <2>1, Products, LimiterAssumption
  <2>2. CASE lag' = lag
    BY <1>1, <2>2, Products, LimiterAssumption
  <2> QED
    BY <1>2, <2>1, <2>2
<1>4. Level' = Least(tokens + lag' * Rps, MaxTokens)
  BY DEF Tick, Level, Least, MaxTokens, Token
<1>5. ASSUME NEW a \in Nat, NEW b \in Nat, b <= a + Rps
      PROVE  /\ Least(b, MaxTokens) \in 0 .. MaxTokens
             /\ Least(b, MaxTokens) <= Least(a, MaxTokens) + Rps
  BY <1>5, Sizes, LimiterAssumption DEF Least
<1>6. /\ tokens + lag * Rps \in Nat /\ tokens + lag' * Rps \in Nat
      /\ tokens + lag' * Rps <= (tokens + lag * Rps) + Rps
  BY <1>1, <1>3, LimiterAssumption
<1> QED
  BY <1>2, <1>4, <1>5, <1>6, <1>1 DEF Level
-----------------------------------------------------------------------------
(* The inductive invariant.                                                *)

\* The bucket starts full and nobody sleeps.
LEMMA InitSafe == Init => SafeLimiter
<1> SUFFICES ASSUME Init PROVE SafeLimiter
  OBVIOUS
<1>1. TypeOK
  BY Sizes, LimiterAssumption DEF Init, TypeOK, MaxLag
<1>2. Level = MaxTokens
  BY Sizes, LimiterAssumption DEF Init, Level, Least
<1> QED
  BY <1>1, <1>2, Sizes DEF Init, SafeLimiter, SpentIsMissing, SleepFits

\* What both outcomes of a call have in common.
LEMMA CallBucket ==
    ASSUME SafeLimiter, Take \/ Refill
    PROVE  /\ tokens' \in 0 .. MaxTokens
           /\ lag' \in 0 .. MaxLag
           /\ spent' \in Nat
           /\ spent' + Level' <= MaxTokens
           /\ Level' \in Nat
           /\ Level' <= Level
           /\ Refill => Level' = Level
<1> USE DEF SafeLimiter
<1>1. Level \in Nat /\ Level <= MaxTokens /\ spent \in Nat
  BY LevelType, Sizes DEF TypeOK
<1>2. lag' \in 0 .. MaxLag
  BY LimiterAssumption DEF Take, Refill, MaxLag
<1>3. CASE Take
  <2>1. Level' = Level - Token /\ tokens' \in 0 .. MaxTokens
    BY <1>1, <1>3, LevelAfterCall, Sizes DEF Take
  <2>2. ~Refill
    BY <1>1, <1>3, Sizes DEF Take, Refill
  <2> QED
    BY <1>1, <1>2, <1>3, <2>1, <2>2, Sizes DEF Take, SpentIsMissing
<1>4. CASE Refill
  <2>1. Level' = Level - 0 /\ tokens' \in 0 .. MaxTokens
    BY <1>1, <1>4, LevelAfterCall, Sizes DEF Refill
  <2> QED
    BY <1>1, <1>2, <1>4, <2>1, Sizes DEF Refill, SpentIsMissing
<1> QED
  BY <1>3, <1>4

\* A caller that slept before a call of any caller still sleeps no longer.
LEMMA OthersSleepFits ==
    ASSUME SafeLimiter, Level' \in Nat, Level' <= Level,
           NEW d \in waiting, due'[d] = due[d]
    PROVE  \/ Level' + Rps * due'[d] <= Token
           \/ due'[d] < MinSleep
           \/ due'[d] = MinSleep /\ Level' < Token
<1>1. due[d] \in Nat /\ Level \in Nat
  BY LevelType, Sizes, LimiterAssumption DEF SafeLimiter, TypeOK
<1>2. \/ Level + Rps * due[d] <= Token
      \/ due[d] < MinSleep
      \/ due[d] = MinSleep /\ Level < Token
  BY DEF SafeLimiter, SleepFits
<1>3. Rps * due[d] \in Nat
  BY <1>1, Products
<1> QED
  BY <1>1, <1>2, <1>3, Sizes, LimiterAssumption

\* A round of yurei_rate_limiter_wait, with a token or without.
LEMMA WaitSafe ==
    ASSUME SafeLimiter, NEW c \in Callers, Wait(c)
    PROVE  SafeLimiter'
<1> USE DEF SafeLimiter
<1>1. Take \/ Refill
  BY DEF Wait
<1>2. Level \in Nat /\ Level' \in Nat
  BY <1>1, LevelType, CallBucket, Sizes
<1> SUFFICES TypeOK' /\ SleepFits'
  BY <1>1, CallBucket, Sizes DEF SpentIsMissing, MaxTokens, Token
<1>3. CASE Take /\ waiting' = waiting \ {c} /\ UNCHANGED due
  <2>1. TypeOK'
    BY <1>1, <1>3, CallBucket DEF TypeOK, Wait, MaxTokens, Token, MaxLag
  <2>2. SleepFits'
    BY <1>1, <1>2, <1>3, CallBucket, OthersSleepFits DEF SleepFits, Token
  <2> QED
    BY <2>1, <2>2
<1>4. CASE /\ Refill
           /\ waiting' = waiting \cup {c}
           /\ due' = [due EXCEPT ![c] = SleepFor(Level)]
  <2>1. /\ SleepFor(Level) \in 0 .. MaxSleep
        /\ Level + Rps * SleepFor(Level) <= Token \/ SleepFor(Level) = MinSleep
    BY <1>2, <1>4, SleepForBounds DEF Refill
  <2>2. TypeOK'
    BY <1>1, <1>4, <2>1, CallBucket DEF TypeOK, MaxTokens, Token, MaxLag
  <2>3. Level' = Level /\ Level' < Token
    BY <1>1, <1>4, CallBucket DEF Refill
  <2>4. ASSUME NEW d \in waiting'
        PROVE  \/ Level' + Rps * due'[d] <= Token
               \/ due'[d] < MinSleep
               \/ due'[d] = MinSleep /\ Level' < Token
    <3>1. CASE d = c
      <4>1. due'[d] = SleepFor(Level)
        BY <1>4, <3>1 DEF TypeOK
      <4> QED
        BY <2>1, <2>3, <4>1
    <3>2. CASE d # c
      <4>1. d \in waiting /\ due'[d] = due[d]
        BY <1>4, <3>2 DEF TypeOK
      <4> QED
        BY <1>2, <2>3, <4>1, OthersSleepFits
    <3> QED
      BY <3>1, <3>2
  <2> QED
    BY <2>2, <2>4 DEF SleepFits, Token
<1> QED
  BY <1>3, <1>4 DEF Wait

\* A call of yurei_rate_limiter_try_acquire.
LEMMA TryAcquireSafe ==
    ASSUME SafeLimiter, NEW c \in Callers, TryAcquire(c)
    PROVE  SafeLimiter'
<1> USE DEF SafeLimiter, TryAcquire
<1>1. Level' \in Nat
  BY CallBucket
<1>2. TypeOK'
  BY CallBucket DEF TypeOK, MaxTokens, Token, MaxLag
<1>3. SpentIsMissing'
  BY CallBucket DEF SpentIsMissing, MaxTokens, Token
<1>4. SleepFits'
  BY <1>1, CallBucket, OthersSleepFits DEF SleepFits, Token
<1> QED
  BY <1>2, <1>3, <1>4

\* The passing of time: level, sleeps and lead move together.
LEMMA TickSafe ==
    ASSUME SafeLimiter, Tick
    PROVE  SafeLimiter'
<1> USE DEF SafeLimiter
<1>1. /\ Level \in Nat /\ Level <= MaxTokens /\ spent \in Nat
      /\ Level' \in Nat /\ Level' <= MaxTokens /\ Level' <= Level + Rps
  BY LevelType, LevelAfterTick, Sizes DEF TypeOK
<1>2. \A c \in Callers : /\ due[c] \in Nat
                         /\ due'[c] = Most(due[c] - 1, 0)
                         /\ due'[c] \in 0 .. MaxSleep
  BY LimiterAssumption DEF Tick, TypeOK, Most
<1>3. TypeOK'
  <2>1. spent' \in Nat
    BY <1>1, LimiterAssumption DEF Tick, Most
  <2>2. due' \in [Callers -> 0 .. MaxSleep]
    BY <1>2 DEF Tick
  <2>3. \A c \in Callers \ waiting' : due'[c] = 0
    BY <1>2 DEF Tick, TypeOK, Most
  <2> QED
    BY <2>1, <2>2, <2>3, LevelAfterTick
    DEF Tick, TypeOK, MaxTokens, Token, MaxLag
<1>4. SpentIsMissing'
  <2>1. spent + Level <= MaxTokens
    BY DEF SpentIsMissing
  <2>2. spent' = IF spent - Rps <= 0 THEN 0 ELSE spent - Rps
    BY DEF Tick, Most
  <2>3. ASSUME NEW s \in Nat, NEW l \in Nat, NEW n \in Nat,
               s + l <= MaxTokens, n <= l + Rps, n <= MaxTokens
        PROVE  (IF s - Rps <= 0 THEN 0 ELSE s - Rps) + n <= MaxTokens
    BY <2>3, Sizes, LimiterAssumption
  <2>4. spent' + Level' <= MaxTokens
    BY <1>1, <2>1, <2>2, <2>3
  <2> QED
    BY <2>4 DEF SpentIsMissing, MaxTokens, Token
<1>5. SleepFits'
  <2> SUFFICES ASSUME NEW c \in waiting
               PROVE  \/ Level' + Rps * due'[c] <= Token
                      \/ due'[c] < MinSleep
                      \/ due'[c] = MinSleep /\ Level' < Token
    BY DEF Tick, SleepFits, Token
  <2>1. due[c] \in Nat /\ due'[c] = Most(due[c] - 1, 0)
    BY <1>2 DEF TypeOK
  <2>2. CASE due[c] = 0
    BY <2>1, <2>2, LimiterAssumption DEF Most
  <2>3. CASE due[c] # 0
    <3>0. due[c] > 0 /\ due'[c] = due[c] - 1
      BY <2>1, <2>3 DEF Most
    <3>1. Rps * due'[c] = Rps * due[c] - Rps /\ Rps * due[c] \in Nat
      BY <2>1, <3>0, Products
    <3>2. \/ Level + Rps * due[c] <= Token
          \/ due[c] <= MinSleep
      BY LimiterAssumption, <2>1 DEF SleepFits
    <3> QED
      BY <1>1, <2>1, <3>0, <3>1, <3>2, Sizes, LimiterAssumption
  <2> QED
    BY <2>2, <2>3
<1> QED
  BY <1>3, <1>4, <1>5

\* Types, and the two facts that make the bounds inductive.
THEOREM LimiterSafe == Spec => []SafeLimiter
<1>1. SafeLimiter /\ [Next]_vars => SafeLimiter'
  <2> SUFFICES ASSUME SafeLimiter, [Next]_vars PROVE SafeLimiter'
    OBVIOUS
  <2>1. CASE UNCHANGED vars
    BY <2>1 DEF vars, SafeLimiter, TypeOK, SpentIsMissing, SleepFits, Level,
                Least, MaxTokens, Token, MaxLag
  <2>2. CASE Next
    BY <2>2, TickSafe, WaitSafe, TryAcquireSafe DEF Next
  <2> QED
    BY <2>1, <2>2
<1> QED
  BY InitSafe, <1>1, PTL DEF Spec

\* The bucket and the sleeps stay within their ranges.
THEOREM LimiterTypes == Spec => []TypeOK
<1>1. SafeLimiter => TypeOK
  BY DEF SafeLimiter
<1> QED
  BY <1>1, LimiterSafe, PTL

\* No window of any length sees more than the burst plus the rate.
THEOREM BurstIsBounded == Spec => []BurstBounded
<1>1. SafeLimiter => BurstBounded
  BY LevelType, Sizes DEF SafeLimiter, SpentIsMissing, BurstBounded, TypeOK
<1> QED
  BY <1>1, LimiterSafe, PTL

\* A sleeping caller never lets an available token pass by for longer than
\* the minimal sleep.
THEOREM SleepNeverOvershoots == Spec => []NoOversleep
<1>1. SafeLimiter => NoOversleep
  <2> SUFFICES ASSUME SafeLimiter, Level >= Token, NEW c \in waiting
               PROVE  due[c] < MinSleep
    BY DEF NoOversleep
  <2>1. due[c] \in Nat /\ Level \in Nat
    BY LevelType, Sizes, LimiterAssumption DEF SafeLimiter, TypeOK
  <2>2. CASE due[c] = 0
    BY <2>2, LimiterAssumption
  <2>3. CASE due[c] # 0
    <3>1. Rps * due[c] \in Nat \ {0}
      BY <2>1, <2>3, LimiterAssumption
    <3> QED
      BY <2>1, <3>1, Sizes, LimiterAssumption DEF SafeLimiter, SleepFits
  <2> QED
    BY <2>2, <2>3
<1> QED
  BY <1>1, LimiterSafe, PTL
-----------------------------------------------------------------------------
(* What the calls leave in the bucket.                                     *)

\* A tick refills exactly the rate until the bucket is full, also when the
\* last refill lies so long back that its age is not counted any more.
LEMMA TickRefillsRate ==
    ASSUME TypeOK, Tick
    PROVE  Level' = Least(Level + Rps, MaxTokens)
<1>1. /\ lag \in Nat /\ lag <= MaxLag /\ MaxLag \in Nat
      /\ tokens \in Nat /\ Rps \in Nat
  BY Sizes, LimiterAssumption DEF TypeOK, MaxLag
<1>2. Level' = Least(tokens + lag' * Rps, MaxTokens)
  BY DEF Tick, Level, Least, MaxTokens, Token
<1>3. lag * Rps \in Nat
  BY <1>1, Products
<1>4. CASE lag < MaxLag
  <2>1. lag' = lag + 1
    BY <1>1, <1>4 DEF Tick, Least
  <2>2. lag' * Rps = lag * Rps + Rps
    BY <1>1, <2>1, Products
  <2>3. ASSUME NEW a \in Nat
        PROVE  Least(a + Rps, MaxTokens) =
                  Least(Least(a, MaxTokens) + Rps, MaxTokens)
    BY <1>1, Sizes DEF Least
  <2>4. tokens + lag * Rps \in Nat
        /\ tokens + lag' * Rps = (tokens + lag * Rps) + Rps
    BY <1>1, <1>3, <2>2
  <2> QED
    BY <1>2, <2>3, <2>4 DEF Level
<1>5. CASE lag = MaxLag
  <2>1. lag' = MaxLag
    BY <1>1, <1>5 DEF Tick, Least
  <2>2. MaxLag * Rps = MaxTokens
    BY <1>1, Products, Sizes
  <2>3. /\ Least(tokens + MaxTokens, MaxTokens) = MaxTokens
        /\ Least(MaxTokens + Rps, MaxTokens) = MaxTokens
    BY <1>1, Sizes DEF Least
  <2> QED
    BY <1>2, <1>5, <2>1, <2>2, <2>3 DEF Level
<1> QED
  BY <1>1, <1>4, <1>5

\* What a step does to the units in the bucket: time adds the rate, a grant
\* takes a token, and nothing else changes them.
BucketMoves ==
    \/ Tick /\ Level' = Least(Level + Rps, MaxTokens)
    \/ spent' = spent + Token /\ Level' = Level - Token
    \/ spent' = spent /\ Level' = Level

\* The three kinds of steps.
LEMMA StepMoves ==
    ASSUME SafeLimiter, Next
    PROVE  BucketMoves
<1>1. TypeOK /\ Level \in Nat
  BY LevelType, Sizes DEF SafeLimiter
<1>2. CASE Tick
  BY <1>1, <1>2, TickRefillsRate DEF BucketMoves
<1>3. CASE Take
  <2>1. Level' = Level - Token
    BY <1>1, <1>3, LevelAfterCall, Sizes DEF Take
  <2> QED
    BY <1>3, <2>1 DEF BucketMoves, Take
<1>4. CASE Refill
  <2>1. Level' = Level
    BY <1>4, CallBucket
  <2> QED
    BY <1>4, <2>1 DEF BucketMoves, Refill
<1> QED
  BY <1>2, <1>3, <1>4 DEF Next, Wait, TryAcquire

\* However often, at whatever moments and by however many callers
\* refill_tokens is called, no fraction of a token is lost or counted twice:
\* a call that finds no token has not put off the next one.  This is the part
\* of WaitEnds that does not rest on fairness: between two
\* grants the bucket only fills, at the full rate.
THEOREM BucketLosesNothing == Spec => [][BucketMoves]_vars
<1>1. SafeLimiter /\ [Next]_vars => [BucketMoves]_vars
  BY StepMoves
<1> QED
  BY <1>1, LimiterSafe, PTL DEF Spec
=============================================================================
