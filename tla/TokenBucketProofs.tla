-------------------------- MODULE TokenBucketProofs --------------------------
(***************************************************************************)
(* Proofs about the token-bucket limiter, for any number of threads and    *)
(* keys and any capacity, rate and word width.                             *)
(***************************************************************************)
EXTENDS TokenBucket, TLAPS

-----------------------------------------------------------------------------
\* Arithmetic.

\* The remainder by the word size is a natural, never more than the dividend,
\* and the dividend itself when that fits the word (NewTokens, line 263).
LEMMA ModBelow ==
  ASSUME NEW x \in Nat, NEW w \in Nat \ {0}
  PROVE  /\ x % w \in Nat
         /\ x % w <= x
         /\ x < w => x % w = x
  OBVIOUS

\* The tokens a period adds are a natural number.
LEMMA TimesNat ==
  ASSUME NEW r \in Nat, NEW d \in Nat
  PROVE  r * d \in Nat
  OBVIOUS

\* The refill of two consecutive periods is the refill of both together.
LEMMA RefillSplits ==
  ASSUME NEW r \in Nat, NEW s \in Int, NEW u \in Int, NEW v \in Int
  PROVE  r * (v - s) = r * (u - s) + r * (v - u)
  OBVIOUS

\* What the body of the retry loop computes (lines 260-268) from any word and
\* clock reading: the refill time does not go back and is not in the future of
\* both, and the tokens are at most the old ones plus the refill, capped.
LEMMA NewWord ==
  ASSUME NEW o \in Bucket, NEW s \in Time
  PROVE  /\ NewRefill(o, s) \in Time
         /\ NewRefill(o, s) >= o.refill
         /\ NewRefill(o, s) = o.refill \/ NewRefill(o, s) = s
         /\ NewTokens(o, s) \in 0..Capacity
         /\ NewTokens(o, s) <= o.tokens + RefillRate * (NewRefill(o, s) - o.refill)
<1> DEFINE e   == Elapsed(o, s)
           sum == o.tokens + RefillRate * e
<1>1. /\ o.tokens \in 0..Capacity /\ o.refill \in 0..MaxTime /\ s \in 0..MaxTime
      /\ Capacity \in Nat /\ RefillRate \in Nat /\ MaxTime \in Nat /\ Word \in Nat \ {0}
  BY TokenBucketAssumption DEF Bucket, Time
<1>2. /\ e \in Nat
      /\ NewRefill(o, s) \in Time
      /\ NewRefill(o, s) >= o.refill
      /\ NewRefill(o, s) = o.refill \/ NewRefill(o, s) = s
      /\ e = NewRefill(o, s) - o.refill
  BY <1>1 DEF Elapsed, NewRefill, Time
<1>3. sum \in Nat
  BY <1>1, <1>2, TimesNat
<1>4. sum % Word \in Nat /\ sum % Word <= sum
  BY <1>1, <1>3, ModBelow
<1>5. NewTokens(o, s) = IF sum % Word > Capacity THEN Capacity ELSE sum % Word
  BY DEF NewTokens
<1> HIDE DEF e
<1>6. NewTokens(o, s) \in 0..Capacity /\ NewTokens(o, s) <= sum
  BY <1>1, <1>3, <1>4, <1>5
<1>7. QED
  BY <1>2, <1>6

-----------------------------------------------------------------------------
\* Types.

\* A request takes a token only when there is one, so the new word is a bucket.
LEMMA DesiredType ==
  ASSUME NEW o \in Bucket, NEW s \in Time, ~(NewTokens(o, s) < 1)
  PROVE  Desired(o, s) \in Bucket
  BY NewWord, TokenBucketAssumption DEF Desired, Bucket

\* Each action of the limiter keeps its state in range.
LEMMA TypeStep == TypeOK /\ [Next]_vars => TypeOK'
<1> SUFFICES ASSUME TypeOK, [Next]_vars PROVE TypeOK'
  OBVIOUS
<1> USE DEF TypeOK, local, Goto
<1>1. CASE Tick
  BY <1>1, TokenBucketAssumption DEF Tick, Time
<1>2. ASSUME NEW t \in Threads, Find(t) PROVE TypeOK'
  BY <1>2, TokenBucketAssumption DEF Find, Places, Resting
<1>3. ASSUME NEW t \in Threads, LockHit(t) PROVE TypeOK'
  BY <1>3 DEF LockHit, Places, Resting
<1>4. ASSUME NEW t \in Threads, LockMiss(t) PROVE TypeOK'
  BY <1>4 DEF LockMiss, Places, Resting
<1>5. ASSUME NEW t \in Threads, Emplace(t) PROVE TypeOK'
  <2>1. FreshBucket(secs[t]) \in Bucket
    BY <1>5, TokenBucketAssumption DEF FreshBucket, Bucket
  <2>2. QED
    BY <1>5, <2>1 DEF Emplace, Places, Resting
<1>6. ASSUME NEW t \in Threads, ReadClock(t) PROVE TypeOK'
  BY <1>6 DEF ReadClock, Places, Resting
<1>7. ASSUME NEW t \in Threads, Load(t) PROVE TypeOK'
  BY <1>7 DEF Load, Places, Resting
<1>8. ASSUME NEW t \in Threads, Limit(t) PROVE TypeOK'
  BY <1>8 DEF Limit, Places, Resting
<1>9. ASSUME NEW t \in Threads, Take(t) PROVE TypeOK'
  <2>1. Desired(old[t], secs[t]) \in Bucket
    BY <1>9, DesiredType DEF Take, Empty
  <2>2. Stamp(served[key[t]], NewRefill(old[t], secs[t])) \in [Time -> Nat]
    BY DEF Stamp
  <2>3. QED
    BY <1>9, <2>1, <2>2 DEF Take, Places, Resting
<1>10. ASSUME NEW t \in Threads, Retry(t) PROVE TypeOK'
  BY <1>10 DEF Retry
<1>11. CASE UNCHANGED vars
  BY <1>11 DEF vars
<1>12. QED
  BY <1>1, <1>2, <1>3, <1>4, <1>5, <1>6, <1>7, <1>8, <1>9, <1>10, <1>11
     DEF Next, Work

\* Every half of every bucket stays in range through every interleaving: in
\* particular the token count never underflows at the decrement of line 280.
THEOREM TypeCorrect == Spec => []TypeOK
<1>1. Init => TypeOK
  BY TokenBucketAssumption DEF Init, TypeOK, Bucket, Time, Places, Resting
<1>2. QED
  BY <1>1, TypeStep, PTL DEF Spec

-----------------------------------------------------------------------------
\* The budget.

\* One admission on the current word keeps the budget of every interval: the
\* arithmetic behind Take (lines 263-282).
LEMMA TakeKeepsBudget ==
  ASSUME NEW o \in Bucket, NEW secsRead \in Time, NEW history \in [Time -> Nat],
         ~(NewTokens(o, secsRead) < 1),
         \A s \in Time : IF s <= o.refill
                        THEN history[s] + o.tokens <= Budget(s, o.refill)
                        ELSE history[s] = 0,
         NEW s \in Time
  PROVE  LET w == Desired(o, secsRead)
             h == Stamp(history, NewRefill(o, secsRead))
         IN  IF s <= w.refill THEN h[s] + w.tokens <= Budget(s, w.refill)
                              ELSE h[s] = 0
<1> DEFINE u == NewRefill(o, secsRead)
           n == NewTokens(o, secsRead)
           h == Stamp(history, u)
<1>1. /\ Capacity \in Nat /\ RefillRate \in Nat /\ s \in Nat /\ history[s] \in Nat
      /\ o.tokens \in Nat /\ o.refill \in Nat
  BY TokenBucketAssumption DEF Bucket, Time
<1>2. /\ u \in Nat /\ u >= o.refill
      /\ n \in 0..Capacity /\ n <= o.tokens + RefillRate * (u - o.refill)
  BY NewWord, TokenBucketAssumption DEF Time
<1>3. Desired(o, secsRead).tokens = n - 1 /\ Desired(o, secsRead).refill = u
  BY DEF Desired
<1>4. h[s] = IF s <= u THEN history[s] + 1 ELSE history[s]
  BY DEF Stamp
<1> HIDE DEF u, n, h
<1>5. CASE s <= o.refill
  <2>1. history[s] + o.tokens <= Capacity + RefillRate * (o.refill - s)
    BY <1>5 DEF Budget
  <2>2. RefillRate * (u - s) = RefillRate * (o.refill - s) + RefillRate * (u - o.refill)
    BY <1>1, <1>2, RefillSplits
  <2>3. /\ RefillRate * (u - o.refill) \in Int
        /\ RefillRate * (o.refill - s) \in Int
        /\ RefillRate * (u - s) \in Int
    BY <1>1, <1>2
  <2>4. h[s] + (n - 1) <= Capacity + RefillRate * (u - s)
    BY <1>1, <1>2, <1>4, <1>5, <2>1, <2>2, <2>3
  <2>5. QED
    BY <1>1, <1>2, <1>3, <1>5, <2>4 DEF Budget, u, h
<1>6. CASE o.refill < s /\ s <= u
  <2>1. history[s] = 0
    BY <1>1, <1>6
  <2>2. RefillRate * (u - s) \in Nat
    BY <1>1, <1>2, <1>6, TimesNat
  <2>3. h[s] + (n - 1) <= Capacity + RefillRate * (u - s)
    BY <1>1, <1>2, <1>4, <1>6, <2>1, <2>2
  <2>4. QED
    BY <1>1, <1>2, <1>3, <1>6, <2>3 DEF Budget, u, h
<1>7. CASE u < s
  <2>1. history[s] = 0
    BY <1>1, <1>2, <1>7
  <2>2. QED
    BY <1>1, <1>2, <1>3, <1>4, <1>7, <2>1 DEF u, h
<1>8. QED
  BY <1>1, <1>2, <1>5, <1>6, <1>7

\* The empty map of buckets the limiter starts with owes nobody anything.
LEMMA BudgetInit == Init => BudgetInv
  BY TokenBucketAssumption
     DEF Init, BudgetInv, TypeOK, Bucket, Time, Places, Resting, Placement, Unseen,
         ClockBound, IntervalBudget

\* Each step keeps the budget and what it rests on: only Take spends and only
\* Emplace gives a new bucket, to a key the mutex shows to have none.
LEMMA BudgetStep == BudgetInv /\ [Next]_vars => BudgetInv'
<1> SUFFICES ASSUME BudgetInv, [Next]_vars
             PROVE  (Placement /\ Unseen /\ ClockBound /\ IntervalBudget)'
  BY TypeStep DEF BudgetInv
<1> USE DEF BudgetInv, TypeOK, local, Goto
<1>a. /\ MaxTime \in Nat /\ Capacity \in Nat /\ RefillRate \in Nat
      /\ NoThread \notin Threads
  BY TokenBucketAssumption
<1>1. CASE Tick
  <2>1. /\ now \in Nat /\ now' = now + 1
        /\ \A k \in Keys : word[k].refill \in Nat
        /\ \A t \in Threads : secs[t] \in Nat
    BY <1>1, <1>a DEF Tick, Time, Bucket
  <2>2. ClockBound'
    BY <1>1, <2>1 DEF Tick, ClockBound
  <2>3. (Placement /\ Unseen /\ IntervalBudget)'
    BY <1>1 DEF Tick, Placement, Unseen, IntervalBudget
  <2>4. QED
    BY <2>2, <2>3
<1>2. ASSUME NEW t \in Threads, Find(t) PROVE (Placement /\ Unseen /\ ClockBound /\ IntervalBudget)'
  BY <1>2 DEF Find, Resting, Placement, Unseen, ClockBound, IntervalBudget
<1>3. ASSUME NEW t \in Threads, LockHit(t) PROVE (Placement /\ Unseen /\ ClockBound /\ IntervalBudget)'
  BY <1>3 DEF LockHit, FoundLocked, Placement, Unseen, ClockBound, IntervalBudget
<1>4. ASSUME NEW t \in Threads, LockMiss(t) PROVE (Placement /\ Unseen /\ ClockBound /\ IntervalBudget)'
  BY <1>4, <1>a DEF LockMiss, FoundLocked, Placement, Unseen, ClockBound, IntervalBudget, Time
<1>5. ASSUME NEW t \in Threads, Emplace(t) PROVE (Placement /\ Unseen /\ ClockBound /\ IntervalBudget)'
  <2>1. /\ key[t] \in Keys \ mapped /\ lock = t /\ secs[t] \in 0..MaxTime
        /\ \A s \in Time : served[key[t]][s] = 0
    BY <1>5 DEF Emplace, Placement, Unseen, Time
  <2>2. Placement'
    BY <1>5, <2>1 DEF Emplace, Placement
  <2>3. Unseen' /\ ClockBound'
    BY <1>5, <2>1 DEF Emplace, Unseen, ClockBound, FreshBucket
  <2>4. ASSUME NEW k \in mapped', NEW s \in Time
        PROVE  (IF s <= word[k].refill
                THEN served[k][s] + word[k].tokens <= Budget(s, word[k].refill)
                ELSE served[k][s] = 0)'
    <3>1. CASE k = key[t]
      <4>1. word'[k] = FreshBucket(secs[t]) /\ served'[k][s] = 0
        BY <1>5, <2>1, <3>1 DEF Emplace
      <4>2. s <= secs[t] => RefillRate * (secs[t] - s) \in Nat
        BY <1>a, <2>1, TimesNat DEF Time
      <4>3. QED
        BY <1>a, <2>1, <4>1, <4>2 DEF FreshBucket, Budget
    <3>2. CASE k # key[t]
      <4>1. k \in mapped /\ word'[k] = word[k] /\ served'[k] = served[k]
        BY <1>5, <3>2 DEF Emplace
      <4>2. QED
        BY <4>1 DEF IntervalBudget
    <3>3. QED
      BY <3>1, <3>2
  <2>5. IntervalBudget'
    BY <2>4 DEF IntervalBudget
  <2>6. QED
    BY <2>2, <2>3, <2>5
<1>6. ASSUME NEW t \in Threads, ReadClock(t) PROVE (Placement /\ Unseen /\ ClockBound /\ IntervalBudget)'
  BY <1>6, <1>a DEF ReadClock, Placement, Unseen, ClockBound, IntervalBudget, Time
<1>7. ASSUME NEW t \in Threads, Load(t) PROVE (Placement /\ Unseen /\ ClockBound /\ IntervalBudget)'
  BY <1>7 DEF Load, Placement, Unseen, ClockBound, IntervalBudget
<1>8. ASSUME NEW t \in Threads, Limit(t) PROVE (Placement /\ Unseen /\ ClockBound /\ IntervalBudget)'
  BY <1>8 DEF Limit, Placement, Unseen, ClockBound, IntervalBudget
<1>9. ASSUME NEW t \in Threads, Take(t) PROVE (Placement /\ Unseen /\ ClockBound /\ IntervalBudget)'
  <2> DEFINE kt == key[t]
             w == Desired(old[t], secs[t])
             u == NewRefill(old[t], secs[t])
  <2>1. /\ kt \in mapped /\ kt \in Keys /\ old[t] = word[kt]
        /\ old[t] \in Bucket /\ secs[t] \in Time /\ secs[t] <= now /\ word[kt].refill <= now
        /\ ~(NewTokens(old[t], secs[t]) < 1)
    BY <1>9 DEF Take, CasSucceeds, Empty, Placement, ClockBound
  <2>2. /\ word'[kt] = w /\ served'[kt] = Stamp(served[kt], u)
        /\ \A k \in Keys \ {kt} : word'[k] = word[k] /\ served'[k] = served[k]
        /\ mapped' = mapped /\ now' = now /\ secs' = secs /\ key' = key
    BY <1>9, <2>1 DEF Take
  <2>3. w.refill = u /\ u <= now
    BY <2>1, NewWord DEF Desired
  <2>4. Placement'
    BY <1>9 DEF Take, Placement
  <2>5. Unseen'
    BY <2>1, <2>2 DEF Unseen
  <2>6. ClockBound'
    BY <2>1, <2>2, <2>3 DEF ClockBound
  <2>7. ASSUME NEW k \in mapped, NEW s \in Time
        PROVE  (IF s <= word[k].refill
                THEN served[k][s] + word[k].tokens <= Budget(s, word[k].refill)
                ELSE served[k][s] = 0)'
    <3>1. CASE k = kt
      <4>1. \A r \in Time : IF r <= old[t].refill
                            THEN served[kt][r] + old[t].tokens <= Budget(r, old[t].refill)
                            ELSE served[kt][r] = 0
        BY <2>1 DEF IntervalBudget
      <4>2. served[kt] \in [Time -> Nat]
        BY <2>1
      <4>3. LET h == Stamp(served[kt], u)
            IN  IF s <= w.refill THEN h[s] + w.tokens <= Budget(s, w.refill)
                                 ELSE h[s] = 0
        BY <2>1, <4>1, <4>2, TakeKeepsBudget
      <4>4. QED
        BY <2>2, <3>1, <4>3 DEF Budget
    <3>2. CASE k # kt
      BY <2>2, <3>2 DEF IntervalBudget, Budget
    <3>3. QED
      BY <3>1, <3>2
  <2>8. IntervalBudget'
    BY <2>2, <2>7 DEF IntervalBudget
  <2>9. QED
    BY <2>4, <2>5, <2>6, <2>8
<1>10. ASSUME NEW t \in Threads, Retry(t) PROVE (Placement /\ Unseen /\ ClockBound /\ IntervalBudget)'
  BY <1>10 DEF Retry, Placement, Unseen, ClockBound, IntervalBudget
<1>11. CASE UNCHANGED vars
  BY <1>11 DEF vars, Placement, Unseen, ClockBound, IntervalBudget
<1>12. QED
  BY <1>1, <1>2, <1>3, <1>4, <1>5, <1>6, <1>7, <1>8, <1>9, <1>10, <1>11 DEF Next, Work

\* No interleaving of the lock-free updates, of the racing bucket creations
\* and of stale clock readings admits a client beyond its budget.
THEOREM BudgetKept == Spec => []IntervalBudget
<1>1. BudgetInv => IntervalBudget
  BY DEF BudgetInv
<1>2. QED
  BY <1>1, BudgetInit, BudgetStep, PTL DEF Spec

\* A thread whose clock reading is older than the bucket's refill time leaves
\* that time where it is (line 268), and a bucket is created only once.
THEOREM RefillNeverMovesBack == Spec => RefillMonotone
<1>1. BudgetInv /\ [Next]_vars => [\A k \in mapped : word'[k].refill >= word[k].refill]_vars
  <2> SUFFICES ASSUME BudgetInv, Next, NEW k \in mapped
               PROVE  word'[k].refill >= word[k].refill
    BY DEF vars
  <2> USE DEF BudgetInv, TypeOK, local
  <2>1. word[k].refill \in Int /\ k \in Keys
    BY TokenBucketAssumption DEF Bucket, Time
  <2>2. ASSUME NEW t \in Threads, Emplace(t) PROVE word'[k] = word[k]
    BY <2>1, <2>2 DEF Emplace, Placement
  <2>3. ASSUME NEW t \in Threads, Take(t) PROVE word'[k].refill >= word[k].refill
    <3>1. CASE k # key[t]
      BY <2>1, <2>3, <3>1 DEF Take
    <3>2. CASE k = key[t]
      <4>1. word'[k].refill = NewRefill(word[k], secs[t])
        BY <2>1, <2>3, <3>2 DEF Take, CasSucceeds, Desired
      <4>2. QED
        BY <2>1, <4>1, NewWord
    <3>3. QED
      BY <3>1, <3>2
  <2>4. CASE UNCHANGED word
    BY <2>1, <2>4
  <2>5. QED
    BY <2>1, <2>2, <2>3, <2>4 DEF Next, Work, Tick, Find, LockHit, LockMiss, ReadClock, Load,
       Limit, Retry
<1>2. QED
  BY <1>1, BudgetInit, BudgetStep, PTL DEF Spec, RefillMonotone

-----------------------------------------------------------------------------
\* Fairness to the client: no refusal before the budget is spent.

\* Rates and periods for which the uint32 sum of line 263 cannot wrap.
NoWrap == Capacity + RefillRate * MaxTime < Word

\* A longer period refills at least as much.
LEMMA TimesMonotone ==
  ASSUME NEW r \in Nat, NEW d \in Nat, NEW m \in Nat, d <= m
  PROVE  r * d <= r * m
<1>1. r * (m - d) \in Nat
  BY TimesNat
<1>2. r * m = r * d + r * (m - d)
  BY RefillSplits
<1>3. QED
  BY <1>1, <1>2, TimesNat

\* Without wrap-around the new token count is the old one plus the refill, or
\* the capacity when that is less.
LEMMA NewTokensExact ==
  ASSUME NoWrap, NEW o \in Bucket, NEW s \in Time
  PROVE  \/ NewTokens(o, s) = Capacity
         \/ NewTokens(o, s) = o.tokens + RefillRate * (NewRefill(o, s) - o.refill)
<1> DEFINE e   == Elapsed(o, s)
           sum == o.tokens + RefillRate * e
<1>1. /\ o.tokens \in 0..Capacity /\ o.refill \in 0..MaxTime /\ s \in 0..MaxTime
      /\ Capacity \in Nat /\ RefillRate \in Nat /\ MaxTime \in Nat /\ Word \in Nat \ {0}
  BY TokenBucketAssumption DEF Bucket, Time
<1>2. e \in Nat /\ e <= MaxTime /\ e = NewRefill(o, s) - o.refill
  BY <1>1 DEF Elapsed, NewRefill
<1>3. RefillRate * e <= RefillRate * MaxTime /\ RefillRate * e \in Nat /\ RefillRate * MaxTime \in Nat
  BY <1>1, <1>2, TimesMonotone, TimesNat
<1> HIDE DEF e
<1>4. sum \in Nat /\ sum < Word
  BY <1>1, <1>3 DEF NoWrap
<1>5. sum % Word = sum
  BY <1>1, <1>4, ModBelow
<1>6. NewTokens(o, s) = IF sum % Word > Capacity THEN Capacity ELSE sum % Word
  BY DEF NewTokens, e
<1>7. QED
  BY <1>2, <1>5, <1>6

\* Refilling keeps a word drained, at the later time it is refilled to.
LEMMA DrainedAtRefill ==
  ASSUME NoWrap, NEW o \in Bucket, NEW secsRead \in Time, NEW history \in [Time -> Nat],
         \E s \in 0..o.refill : history[s] + o.tokens >= Budget(s, o.refill)
  PROVE  \E s \in 0..NewRefill(o, secsRead) :
           history[s] + NewTokens(o, secsRead) >= Budget(s, NewRefill(o, secsRead))
<1> DEFINE u == NewRefill(o, secsRead)
           n == NewTokens(o, secsRead)
<1>0. /\ Capacity \in Nat /\ RefillRate \in Nat /\ MaxTime \in Nat
      /\ \A x \in Time : x \in Nat /\ \A y \in 0..x : y \in Time /\ y \in Nat /\ y <= x
  BY TokenBucketAssumption DEF Time
<1>1. /\ o.tokens \in Nat /\ o.refill \in Time /\ o.refill \in Nat
      /\ u \in Time /\ u \in Nat /\ u >= o.refill /\ n \in Nat
  <2>1. o.tokens \in Nat /\ o.refill \in Time
    BY <1>0 DEF Bucket
  <2>2. u \in Time /\ u >= o.refill /\ n \in 0..Capacity
    BY NewWord
  <2>3. o.refill \in Nat /\ u \in Nat
    BY <1>0, <2>1, <2>2
  <2>4. QED
    BY <1>0, <2>1, <2>2, <2>3
<1>2. n = Capacity \/ n = o.tokens + RefillRate * (u - o.refill)
  BY NewTokensExact
<1> HIDE DEF u, n
<1>3. CASE n = Capacity
  <2>1. Budget(u, u) = Capacity /\ history[u] \in Nat /\ u \in 0..u
    BY <1>0, <1>1 DEF Budget
  <2>2. QED
    BY <1>0, <1>1, <1>3, <2>1 DEF u, n
<1>4. CASE n = o.tokens + RefillRate * (u - o.refill)
  <2>1. PICK s \in 0..o.refill : history[s] + o.tokens >= Budget(s, o.refill)
    OBVIOUS
  <2>2. s \in Nat /\ s \in 0..u /\ history[s] \in Nat
    BY <1>0, <1>1
  <2>3. /\ RefillRate * (u - s) = RefillRate * (o.refill - s) + RefillRate * (u - o.refill)
        /\ RefillRate * (o.refill - s) \in Int /\ RefillRate * (u - o.refill) \in Int
    BY <1>0, <1>1, <2>2, RefillSplits
  <2>4. history[s] + n >= Capacity + RefillRate * (u - s)
    BY <1>0, <1>1, <1>4, <2>1, <2>2, <2>3 DEF Budget
  <2>5. QED
    BY <2>2, <2>4 DEF Budget, u, n
<1>5. QED
  BY <1>2, <1>3, <1>4

\* An admission takes the token it uses up from the word: still drained.
LEMMA TakeDrains ==
  ASSUME NoWrap, NEW o \in Bucket, NEW secsRead \in Time, NEW history \in [Time -> Nat],
         \E s \in 0..o.refill : history[s] + o.tokens >= Budget(s, o.refill)
  PROVE  LET w == Desired(o, secsRead)
             h == Stamp(history, NewRefill(o, secsRead))
         IN  \E s \in 0..w.refill : h[s] + w.tokens >= Budget(s, w.refill)
<1> DEFINE u == NewRefill(o, secsRead)
           n == NewTokens(o, secsRead)
           w == Desired(o, secsRead)
           h == Stamp(history, u)
<1>1. /\ Capacity \in Nat /\ RefillRate \in Nat
      /\ \A x \in Time : x \in Nat /\ \A y \in 0..x : y \in Time /\ y \in Nat /\ y <= x
  BY TokenBucketAssumption DEF Time
<1>2. u \in Time /\ n \in 0..Capacity
  BY NewWord
<1>3. PICK s \in 0..u : history[s] + n >= Budget(s, u)
  BY DrainedAtRefill
<1>4. s \in Time /\ s <= u /\ history[s] \in Nat /\ n \in Nat /\ Budget(s, u) \in Int
  <2>1. s \in Time /\ s <= u /\ s \in Nat /\ u \in Nat
    BY <1>1, <1>2
  <2>2. n \in Nat /\ history[s] \in Nat
    BY <1>1, <1>2, <2>1
  <2>3. QED
    BY <1>1, <2>1, <2>2 DEF Budget
<1>5. h[s] = history[s] + 1 /\ w.tokens = n - 1 /\ w.refill = u
  BY <1>4 DEF Stamp, Desired
<1> HIDE DEF u, n, w, h
<1>6. h[s] + w.tokens >= Budget(s, u)
  BY <1>3, <1>4, <1>5
<1>7. \E r \in 0..w.refill : h[r] + w.tokens >= Budget(r, w.refill)
  BY <1>5, <1>6
<1>8. QED
  BY <1>7 DEF u, w, h

\* Admissions only spend, so a drained word stays drained whoever holds a copy.
LEMMA DrainageStep == NoWrap /\ BudgetInv /\ Drainage /\ [Next]_vars => Drainage'
<1> SUFFICES ASSUME NoWrap, BudgetInv, Drainage, [Next]_vars PROVE Drainage'
  OBVIOUS
<1> USE DEF BudgetInv, TypeOK, local, Goto
<1>a. /\ MaxTime \in Nat /\ Capacity \in Nat /\ RefillRate \in Nat
      /\ \A x \in Time : x \in Nat /\ \A y \in 0..x : y \in Time /\ y \in Nat /\ y <= x
  BY TokenBucketAssumption DEF Time
<1>1. CASE Tick
  BY <1>1 DEF Tick, Drainage, Drained, Empty
<1>2. ASSUME NEW t \in Threads, Find(t) PROVE Drainage'
  <2>1. /\ pc'[t] \notin {"cas", "limited"}
        /\ \A v \in Threads \ {t} : pc'[v] = pc[v] /\ key'[v] = key[v]
        /\ UNCHANGED mapped /\ UNCHANGED word /\ UNCHANGED secs
        /\ UNCHANGED old /\ UNCHANGED served
    BY <1>2 DEF Find
  <2>2. QED
    BY <2>1 DEF Drainage, Drained, Empty
<1>3. ASSUME NEW t \in Threads, LockHit(t) PROVE Drainage'
  BY <1>3 DEF LockHit, Drainage, Drained, Empty
<1>4. ASSUME NEW t \in Threads, LockMiss(t) PROVE Drainage'
  BY <1>4 DEF LockMiss, Drainage, Drained, Empty
<1>5. ASSUME NEW t \in Threads, Emplace(t) PROVE Drainage'
  <2>1. Drained(key[t], FreshBucket(secs[t]))
    <3>1. secs[t] \in 0..secs[t] /\ secs[t] \in Nat /\ served[key[t]][secs[t]] \in Nat
      BY <1>a, TokenBucketAssumption DEF Time
    <3>2. Budget(secs[t], secs[t]) = Capacity
      BY <1>a, <3>1 DEF Budget
    <3>3. QED
      BY <1>a, <3>1, <3>2 DEF Drained, FreshBucket
  <2>2. QED
    BY <1>5, <2>1 DEF Emplace, Drainage, Drained, Empty
<1>6. ASSUME NEW t \in Threads, ReadClock(t) PROVE Drainage'
  BY <1>6 DEF ReadClock, Drainage, Drained, Empty
<1>7. ASSUME NEW t \in Threads, Load(t) PROVE Drainage'
  BY <1>7 DEF Load, Drainage, Drained, Empty, Placement
<1>8. ASSUME NEW t \in Threads, Limit(t) PROVE Drainage'
  BY <1>8 DEF Limit, Drainage, Drained, Empty
<1>9. ASSUME NEW t \in Threads, Take(t) PROVE Drainage'
  <2> DEFINE kt == key[t]
             w == Desired(old[t], secs[t])
             u == NewRefill(old[t], secs[t])
  <2>1. /\ kt \in mapped /\ kt \in Keys /\ old[t] = word[kt]
        /\ old[t] \in Bucket /\ secs[t] \in Time
        /\ word'[kt] = w /\ served'[kt] = Stamp(served[kt], u)
        /\ \A k \in Keys \ {kt} : word'[k] = word[k] /\ served'[k] = served[k]
        /\ mapped' = mapped /\ old' = old /\ key' = key /\ pc' = [pc EXCEPT ![t] = "admitted"]
    BY <1>9 DEF Take, CasSucceeds, Placement
  <2>2. \A k \in Keys : \A s \in Time :
          served'[k][s] \in Nat /\ served[k][s] \in Nat /\ served'[k][s] >= served[k][s]
    <3>1. \A s \in Time : Stamp(served[kt], u)[s] \in {served[kt][s], served[kt][s] + 1}
      BY DEF Stamp
    <3>2. \A k \in Keys : \A s \in Time : served[k][s] \in Nat
      OBVIOUS
    <3>3. \A s \in Time : served'[kt][s] \in {served[kt][s], served[kt][s] + 1}
      BY <2>1, <3>1
    <3>4. ASSUME NEW k \in Keys, NEW s \in Time
          PROVE  served'[k][s] = served[k][s] \/ served'[k][s] = served[k][s] + 1
      BY <2>1, <3>3
    <3> HIDE DEF u
    <3>5. QED
      BY <3>2, <3>4
  <2>3. ASSUME NEW k \in Keys, NEW o \in Bucket, Drained(k, o)
        PROVE  \E s \in 0..o.refill : served'[k][s] + o.tokens >= Budget(s, o.refill)
    <3>1. PICK s \in 0..o.refill : served[k][s] + o.tokens >= Budget(s, o.refill)
      BY <2>3 DEF Drained
    <3>2. o.refill \in Time /\ o.tokens \in Nat
      BY <1>a DEF Bucket
    <3>3. s \in Time /\ s \in Nat /\ o.refill \in Nat
      BY <1>a, <3>2
    <3>4. Budget(s, o.refill) \in Int
      BY <1>a, <3>3 DEF Budget
    <3>5. served'[k][s] + o.tokens >= Budget(s, o.refill)
      BY <2>2, <3>1, <3>2, <3>3, <3>4
    <3>6. QED
      BY <3>5
  <2>4. \E s \in 0..w.refill : served'[kt][s] + w.tokens >= Budget(s, w.refill)
    <3>1. \E s \in 0..old[t].refill : served[kt][s] + old[t].tokens >= Budget(s, old[t].refill)
      BY <2>1 DEF Drainage, Drained
    <3>2. served[kt] \in [Time -> Nat]
      BY <2>1
    <3>3. QED
      BY <2>1, <3>1, <3>2, TakeDrains
  <2>5. ASSUME NEW k \in mapped PROVE Drained(k, word[k])'
    <3>1. CASE k = kt
      BY <2>1, <2>4, <3>1 DEF Drained, Budget
    <3>2. CASE k # kt
      <4>1. word'[k] = word[k] /\ word[k] \in Bucket /\ k \in Keys /\ Drained(k, word[k])
        BY <2>1, <3>2 DEF Drainage
      <4>2. \E s \in 0..word[k].refill : served'[k][s] + word[k].tokens >= Budget(s, word[k].refill)
        BY <2>3, <4>1
      <4>3. QED
        BY <4>1, <4>2 DEF Drained, Budget
    <3>3. QED
      BY <3>1, <3>2
  <2>6. ASSUME NEW v \in Threads, pc'[v] \in {"cas", "limited"} PROVE Drained(key[v], old[v])'
    <3>1. Drained(key[v], old[v]) /\ key[v] \in Keys /\ old[v] \in Bucket
      BY <2>1, <2>6 DEF Drainage
    <3>2. \E s \in 0..old[v].refill : served'[key[v]][s] + old[v].tokens >= Budget(s, old[v].refill)
      BY <2>3, <3>1
    <3>3. QED
      BY <2>1, <3>2 DEF Drained, Budget
  <2>7. \A v \in Threads : pc'[v] = "limited" => Empty(v)'
    BY <1>9, <2>1 DEF Take, Drainage, Empty
  <2>8. QED
    BY <2>1, <2>5, <2>6, <2>7 DEF Drainage
<1>10. ASSUME NEW t \in Threads, Retry(t) PROVE Drainage'
  BY <1>10 DEF Retry, Drainage, Drained, Empty, Placement
<1>11. CASE UNCHANGED vars
  BY <1>11 DEF vars, Drainage, Drained, Empty
<1>12. QED
  BY <1>1, <1>2, <1>3, <1>4, <1>5, <1>6, <1>7, <1>8, <1>9, <1>10, <1>11 DEF Next, Work

\* As long as the uint32 sum does not wrap, a 429 means that the client has
\* used the whole budget of some interval, even when the thread decided on a
\* stale copy of the word or with an old clock reading.
THEOREM RefusalJustified ==
  ASSUME NoWrap
  PROVE  Spec => []NeverStingy
<1>1. Init => Drainage
  BY DEF Init, Drainage
<1>2. BudgetInv /\ Drainage => NeverStingy
  <2> SUFFICES ASSUME BudgetInv, Drainage, NEW t \in Threads, pc[t] = "limited"
               PROVE  Spent(key[t], NewRefill(old[t], secs[t]))
    BY DEF NeverStingy
  <2> USE DEF BudgetInv, TypeOK
  <2> DEFINE k == key[t]
             n == NewTokens(old[t], secs[t])
             u == NewRefill(old[t], secs[t])
  <2>1. /\ k \in Keys /\ old[t] \in Bucket /\ secs[t] \in Time /\ served[k] \in [Time -> Nat]
        /\ n < 1 /\ Drained(k, old[t])
    BY DEF Drainage, Empty
  <2>2. n \in 0..Capacity /\ u \in Time
    BY <2>1, NewWord
  <2>3. n = 0
    BY <2>1, <2>2, TokenBucketAssumption
  <2>4. PICK s \in 0..u : served[k][s] + n >= Budget(s, u)
    BY <2>1, DrainedAtRefill DEF Drained
  <2>5. served[k][s] \in Nat /\ Budget(s, u) \in Int
    <3>1. s \in Time /\ s \in Nat /\ u \in Nat
      BY <2>2, TokenBucketAssumption DEF Time
    <3> HIDE DEF k, u
    <3>2. served[k][s] \in Nat
      BY <2>1, <3>1
    <3>3. Budget(s, u) \in Int
      BY <3>1, TokenBucketAssumption DEF Budget
    <3>4. QED
      BY <3>2, <3>3
  <2>6. served[k][s] >= Budget(s, u)
    BY <2>3, <2>4, <2>5
  <2>7. QED
    BY <2>6 DEF Spent
<1>3. QED
  BY <1>1, <1>2, BudgetInit, BudgetStep, DrainageStep, PTL DEF Spec

-----------------------------------------------------------------------------
\* The Retry-After header.

\* A multiple of the word size, and something less than the word size.
LEMMA ModAdds ==
  ASSUME NEW x \in Nat, NEW r \in Nat, NEW w \in Nat \ {0}, r < w, x % w = 0
  PROVE  (x + r) % w = r
<1> DEFINE q == x \div w
           p == (x + r) \div w
           m == (x + r) % w
<1>1. q \in Int /\ p \in Int /\ m \in 0..(w - 1)
  OBVIOUS
<1>2. x = w * q /\ x + r = w * p + m
  OBVIOUS
<1> HIDE DEF q, p, m
<1>3. w * (p - q) = r - m
  BY <1>1, <1>2
<1>4. r - m < w /\ r - m > 0 - w
  BY <1>1
<1>5. p - q = 0
  <2>1. CASE p - q >= 1
    <3>1. w * (p - q) >= w
      BY <1>1, <2>1
    <3>2. QED
      BY <1>1, <1>3, <1>4, <3>1
  <2>2. CASE p - q <= 0 - 1
    <3>1. w * (p - q) <= 0 - w
      BY <1>1, <2>2
    <3>2. QED
      BY <1>1, <1>3, <1>4, <3>1
  <2>3. QED
    BY <1>1, <2>1, <2>2
<1>6. m = r
  BY <1>1, <1>3, <1>5
<1>7. QED
  BY <1>6 DEF m

\* A refused thread rests with the copy and the reading that refused it.
LimitedEmpty == \A t \in Threads : pc[t] = "limited" => Empty(t)

LEMMA LimitedStep == TypeOK /\ LimitedEmpty /\ [Next]_vars => LimitedEmpty'
<1> SUFFICES ASSUME TypeOK, LimitedEmpty, [Next]_vars, NEW v \in Threads, pc'[v] = "limited"
             PROVE  NewTokens(old'[v], secs'[v]) < 1
  BY DEF LimitedEmpty, Empty
<1>1. pc[v] = "limited" => NewTokens(old[v], secs[v]) < 1
  BY DEF LimitedEmpty, Empty
<1>2. CASE pc[v] = "limited" /\ old'[v] = old[v] /\ secs'[v] = secs[v]
  BY <1>1, <1>2
<1>3. ASSUME NEW t \in Threads, Find(t) \/ LockHit(t) \/ LockMiss(t) \/ Emplace(t)
                                  \/ ReadClock(t) \/ Load(t) \/ Take(t) \/ Retry(t)
      PROVE  pc[v] = "limited" /\ old'[v] = old[v] /\ secs'[v] = secs[v]
  BY <1>3 DEF Find, LockHit, LockMiss, Emplace, ReadClock, Load, Take, Retry, Goto, local, TypeOK
<1>4. ASSUME NEW t \in Threads, Limit(t)
      PROVE  NewTokens(old'[v], secs'[v]) < 1
  <2>1. old' = old /\ secs' = secs /\ NewTokens(old[t], secs[t]) < 1
    BY <1>4 DEF Limit, Empty, local
  <2>2. v # t => pc[v] = "limited"
    BY <1>4 DEF Limit, Goto, TypeOK
  <2>3. QED
    BY <1>1, <2>1, <2>2
<1>5. CASE Tick \/ UNCHANGED vars
  BY <1>1, <1>5 DEF Tick, vars, local
<1>6. QED
  BY <1>2, <1>3, <1>4, <1>5 DEF Next, Work

\* A client refused with 429 that waits for the time Retry-After names
\* (Middleware.cpp:269-273) finds a token, even when the sum had wrapped, as
\* long as the bucket holds one and a second brings one.
THEOREM RetryAfterIsHonest ==
  ASSUME Capacity >= 1, RefillRate >= 1, RefillRate < Word
  PROVE  Spec => []RetryAfterHonest
<1>1. Init => LimitedEmpty
  BY DEF Init, LimitedEmpty
<1>2. TypeOK /\ LimitedEmpty => RetryAfterHonest
  <2> SUFFICES ASSUME TypeOK, LimitedEmpty, NEW t \in Threads, pc[t] = "limited"
               PROVE  NewTokens(old[t], secs[t] + RetryAfter(old[t], secs[t])) >= 1
    BY DEF RetryAfterHonest
  <2>1. PICK o \in Bucket, s \in Time : o = old[t] /\ s = secs[t]
    BY DEF TypeOK
  <2>2. NewTokens(o, s) < 1
    BY <2>1 DEF LimitedEmpty, Empty
  <2>3. /\ o.tokens \in Nat /\ o.refill \in Nat /\ s \in Nat
        /\ Capacity \in Nat /\ RefillRate \in Nat /\ Word \in Nat \ {0}
    BY TokenBucketAssumption DEF Bucket, Time
  <2> DEFINE e   == Elapsed(o, s)
             sum == o.tokens + RefillRate * e
             z   == s + RetryAfter(o, s)
  <2>4. e \in Nat /\ Elapsed(o, z) = e + 1
    BY <2>3 DEF Elapsed, RetryAfter, NewRefill
  <2>5. sum \in Nat
    BY <2>3, <2>4, TimesNat
  <2>6. NewTokens(o, s) = IF sum % Word > Capacity THEN Capacity ELSE sum % Word
    BY DEF NewTokens
  <2>7. RefillRate * (e + 1) = RefillRate * e + RefillRate
    BY <2>3, <2>4
  <2>8. NewTokens(o, z) = IF (sum + RefillRate) % Word > Capacity
                          THEN Capacity ELSE (sum + RefillRate) % Word
    <3>1. o.tokens + RefillRate * Elapsed(o, z) = sum + RefillRate
      <4>1. RefillRate * e \in Nat
        BY <2>3, <2>4, TimesNat
      <4>2. RefillRate * Elapsed(o, z) = RefillRate * e + RefillRate
        BY <2>4, <2>7
      <4> HIDE DEF e
      <4>3. QED
        BY <2>3, <4>1, <4>2
    <3>2. QED
      BY <3>1 DEF NewTokens
  <2> HIDE DEF sum, z, e
  <2>9. sum % Word = 0
    <3>1. (sum % Word) \in Nat
      BY <2>3, <2>5, ModBelow
    <3>2. QED
      BY <2>2, <2>3, <2>6, <3>1
  <2>10. (sum + RefillRate) % Word = RefillRate
    BY <2>3, <2>5, <2>9, ModAdds
  <2>11. NewTokens(o, z) >= 1
    BY <2>3, <2>8, <2>10
  <2>12. QED
    BY <2>1, <2>11 DEF z
<1>3. QED
  BY <1>1, <1>2, TypeCorrect, LimitedStep, PTL DEF Spec

-----------------------------------------------------------------------------
\* The limiter implements the sequential budget.

\* Creating a bucket observes its key, a successful compare-and-swap admits,
\* and every other step of a thread is invisible to the budget.
LEMMA StepRefines ==
  BudgetInv /\ BudgetInv' /\ [Next]_vars => [Abstract!BudgetNext]_Abstract!budgetVars
<1> SUFFICES ASSUME BudgetInv, BudgetInv', [Next]_vars
             PROVE  [Abstract!BudgetNext]_Abstract!budgetVars
  OBVIOUS
<1> USE DEF BudgetInv, TypeOK, local
<1> DEFINE clock == [k \in Keys |-> word[k].refill]
<1>a. /\ MaxTime \in Nat /\ Capacity \in Nat /\ RefillRate \in Nat
      /\ \A x \in Time : x \in Nat /\ \A y \in 0..x : y \in Time /\ y \in Nat /\ y <= x
  BY TokenBucketAssumption DEF Time
<1>1. CASE Tick
  <2>1. now' \in 0..MaxTime /\ now' > now
    BY <1>1, <1>a DEF Tick, Time
  <2>2. clock' = clock /\ served' = served
    BY <1>1 DEF Tick
  <2>3. QED
    BY <2>1, <2>2 DEF Abstract!BudgetNext, Abstract!Pass, Abstract!Seconds
<1>2. ASSUME NEW t \in Threads, Emplace(t) PROVE Abstract!BudgetNext
  <2>0. PICK k \in Keys : k = key[t]
    OBVIOUS
  <2>1. /\ word[k].refill = 0 /\ secs[t] \in 0..now
    BY <1>2, <1>a, <2>0 DEF Emplace, Placement, Unseen, ClockBound
  <2>2. clock' = [clock EXCEPT ![k] = secs[t]]
    BY <1>2, <2>0, <2>1 DEF Emplace, FreshBucket
  <2>3. secs[t] \in clock[k]..now
    BY <2>1
  <2>4. now' = now /\ served' = served
    BY <1>2 DEF Emplace
  <2>5. Abstract!Observe(k)
    BY <2>2, <2>3, <2>4 DEF Abstract!Observe
  <2>6. QED
    BY <2>1, <2>5 DEF Abstract!BudgetNext
<1>3. ASSUME NEW t \in Threads, Take(t) PROVE Abstract!BudgetNext
  <2>0. PICK k \in Keys : k = key[t]
    OBVIOUS
  <2> DEFINE u == NewRefill(old[t], secs[t])
  <2>1. /\ k \in mapped /\ old[t] = word[k]
        /\ old[t] \in Bucket /\ secs[t] \in Time /\ secs[t] <= now /\ word[k].refill <= now
        /\ word' = [word EXCEPT ![k] = Desired(old[t], secs[t])]
        /\ served' = [served EXCEPT ![k] = Stamp(served[k], u)]
        /\ now' = now /\ mapped' = mapped
    BY <1>3, <2>0 DEF Take, CasSucceeds, Placement, ClockBound
  <2>2. /\ u \in Time /\ u \in Nat /\ u >= word[k].refill /\ u <= now
        /\ word'[k].refill = u /\ word'[k] \in Bucket
    <3>1. u \in Time /\ u >= word[k].refill /\ (u = word[k].refill \/ u = secs[t])
      BY <2>1, NewWord
    <3>2. word'[k] = Desired(old[t], secs[t]) /\ word'[k] \in Bucket
      BY <2>1
    <3>3. QED
      BY <1>a, <2>1, <3>1, <3>2 DEF Desired
  <2>3. clock' = [clock EXCEPT ![k] = u]
    BY <2>1, <2>2
  <2>4. now \in Nat /\ word[k].refill \in Nat
    BY <1>a, <2>1 DEF Bucket
  <2>5. u \in clock[k]..now
    BY <2>1, <2>2, <2>4
  <2>6. ASSUME NEW s \in 0..u PROVE served[k][s] < Capacity + RefillRate * (u - s)
    <3>1. s \in Time /\ s \in Nat /\ s <= u
      BY <1>a, <2>2
    <3>2. served'[k][s] + word'[k].tokens <= Capacity + RefillRate * (u - s)
      BY <2>1, <2>2, <3>1 DEF IntervalBudget, Budget
    <3>3. served'[k][s] = served[k][s] + 1 /\ served[k][s] \in Nat
      BY <2>1, <3>1 DEF Stamp
    <3>4. word'[k].tokens \in Nat /\ RefillRate * (u - s) \in Int
      BY <1>a, <2>2, <3>1 DEF Bucket
    <3>5. QED
      BY <1>a, <3>2, <3>3, <3>4
  <2>7. served' = [served EXCEPT ![k] =
                     [s \in 0..MaxTime |-> IF s <= u THEN served[k][s] + 1 ELSE served[k][s]]]
    BY <2>1 DEF Stamp, Time
  <2>8. Abstract!Admit(k)
    BY <2>1, <2>3, <2>5, <2>6, <2>7 DEF Abstract!Admit, Abstract!Allowance, Abstract!Seconds
  <2>9. QED
    BY <2>1, <2>8 DEF Abstract!BudgetNext
<1>4. CASE UNCHANGED <<now, word, served>>
  BY <1>4 DEF Abstract!budgetVars
<1>5. QED
  BY <1>1, <1>2, <1>3, <1>4 DEF Next, Work, Find, LockHit, LockMiss, ReadClock, Load, Limit,
     Retry, vars

\* Whatever the threads, the limiter behaves as the one-line budget of
\* RateBudget does: the compare-and-swap loop is linearizable.
THEOREM ImplementsBudget == Spec => Refines
<1>1. Init => Abstract!BudgetInit
  BY TokenBucketAssumption DEF Init, Abstract!BudgetInit, Abstract!Seconds, Time
<1>2. QED
  BY <1>1, StepRefines, BudgetInit, BudgetStep, PTL DEF Spec, Refines, Abstract!BudgetSpec
=============================================================================
