----------------------------- MODULE TokenBucket -----------------------------
(***************************************************************************)
(* mw::TokenBucketLimiter (src/src/Middleware.cpp, Middleware.h): the rate *)
(* limiter that every I/O thread of the server runs on the request it is   *)
(* serving.  A key (client address, header, ...) has one bucket, a 64-bit  *)
(* atomic word of two halves: the tokens left and the second up to which   *)
(* they have been refilled.  The map of buckets is searched without its    *)
(* mutex first and again under it; the word is loaded and changed with a   *)
(* compare-and-swap in a retry loop, with a clock reading taken before the *)
(* load and possibly old by the time it is used.                           *)
(*                                                                         *)
(* A request whose key cannot be made is answered 400 before the limiter   *)
(* touches any state; it is left out.  An unlocked find that overlaps an   *)
(* emplace is a data race; of its outcomes hit and miss are modelled.      *)
(***************************************************************************)
EXTENDS Integers, FiniteSets

CONSTANTS Threads,       \* I/O threads running the limiter
          Keys,          \* client keys
          NoThread,      \* nobody holds the mutex
          Capacity,      \* setting.capacity
          RefillRate,    \* setting.refill_rate, tokens per second
          Word,          \* 2^32 in the program: one more than the largest uint32
          MaxTime,       \* bound: the clock stops here
          MaxArrivals    \* bound: requests served in one behaviour

ASSUME TokenBucketAssumption ==
  /\ Capacity \in Nat
  /\ RefillRate \in Nat
  /\ Word \in Nat \ {0}
  /\ Capacity < Word
  /\ MaxTime \in Nat
  /\ MaxArrivals \in Nat
  /\ NoThread \notin Threads

VARIABLES now,      \* steady_clock in whole seconds
          mapped,   \* keys present in `buckets`
          word,     \* tokens_and_refill of each key's bucket
          lock,     \* holder of buckets_mutex
          pc,       \* where each thread is
          key,      \* the key of the request the thread serves
          secs,     \* the thread's clock reading
          old,      \* the thread's copy of the word
          arrivals, \* requests begun so far
          served    \* history: served[k][s] = admissions of k stamped s or later

vars == <<now, mapped, word, lock, pc, key, secs, old, arrivals, served>>
local == <<key, secs, old>>

Time    == 0..MaxTime
Bucket  == [tokens : 0..Capacity, refill : Time]
Resting == {"idle", "limited", "admitted"}
Places  == Resting \cup {"lock", "emplace", "clock", "load", "cas"}

-----------------------------------------------------------------------------
\* The arithmetic of process().

Elapsed(o, s) == IF s > o.refill THEN s - o.refill ELSE 0

\* The sum is a uint32 expression: it wraps before it is widened and capped.
NewTokens(o, s) ==
  LET sum == (o.tokens + RefillRate * Elapsed(o, s)) % Word
  IN  IF sum > Capacity THEN Capacity ELSE sum

\* Slip: the refill time is overwritten even when no whole second has passed.
NewRefillAlways(o, s) == s

NewRefill(o, s) == IF Elapsed(o, s) > 0 THEN s ELSE o.refill

Desired(o, s) == [tokens |-> NewTokens(o, s) - 1, refill |-> NewRefill(o, s)]

\* Slip: the header names the time left to the refill second itself.
RetryAfterShort(o, s) == IF NewRefill(o, s) > s THEN NewRefill(o, s) - s ELSE 0

\* The Retry-After header, of a 429 and of an admission alike.
RetryAfter(o, s) == IF NewRefill(o, s) + 1 > s THEN NewRefill(o, s) + 1 - s ELSE 0

FreshBucket(s) == [tokens |-> Capacity, refill |-> s]

-----------------------------------------------------------------------------
Goto(t, p) == pc' = [pc EXCEPT ![t] = p]

\* One more admission, stamped u.
Stamp(history, u) == [s \in Time |-> IF s <= u THEN history[s] + 1 ELSE history[s]]

Init ==
  /\ now = 0
  /\ mapped = {}
  /\ word = [k \in Keys |-> [tokens |-> 0, refill |-> 0]]
  /\ lock = NoThread
  /\ pc = [t \in Threads |-> "idle"]
  /\ key \in [Threads -> Keys]
  /\ secs = [t \in Threads |-> 0]
  /\ old = [t \in Threads |-> [tokens |-> 0, refill |-> 0]]
  /\ arrivals = 0
  /\ served = [k \in Keys |-> [s \in Time |-> 0]]

Tick ==
  /\ now < MaxTime
  /\ now' = now + 1
  /\ UNCHANGED <<mapped, word, lock, pc, local, arrivals, served>>

\* findBucket, the find without the mutex.  While another thread is in the
\* critical section the search may miss a key that is there.
UnlockedMiss(k) == k \notin mapped \/ lock # NoThread

Find(t) ==
  /\ pc[t] \in Resting
  /\ arrivals < MaxArrivals
  /\ arrivals' = arrivals + 1
  /\ \E k \in Keys :
       /\ key' = [key EXCEPT ![t] = k]
       /\ \/ k \in mapped /\ Goto(t, "clock")
          \/ UnlockedMiss(k) /\ Goto(t, "lock")
  /\ UNCHANGED <<now, mapped, word, lock, secs, old, served>>

\* Slip: the map is not searched again once the mutex is held.
NeverFoundLocked(k) == FALSE

\* findBucket, the find under the mutex.
FoundLocked(k) == k \in mapped

LockHit(t) ==
  /\ pc[t] = "lock" /\ lock = NoThread
  /\ FoundLocked(key[t])
  /\ Goto(t, "clock")
  /\ UNCHANGED <<now, mapped, word, lock, local, arrivals, served>>

\* Not there: read the clock for the new bucket, still holding the mutex.
LockMiss(t) ==
  /\ pc[t] = "lock" /\ lock = NoThread
  /\ ~FoundLocked(key[t])
  /\ lock' = t
  /\ secs' = [secs EXCEPT ![t] = now]
  /\ Goto(t, "emplace")
  /\ UNCHANGED <<now, mapped, word, key, old, arrivals, served>>

Emplace(t) ==
  /\ pc[t] = "emplace"
  /\ mapped' = mapped \cup {key[t]}
  /\ word' = [word EXCEPT ![key[t]] = FreshBucket(secs[t])]
  /\ lock' = NoThread
  /\ Goto(t, "clock")
  /\ UNCHANGED <<now, local, arrivals, served>>

ReadClock(t) ==
  /\ pc[t] = "clock"
  /\ secs' = [secs EXCEPT ![t] = now]
  /\ Goto(t, "load")
  /\ UNCHANGED <<now, mapped, word, lock, key, old, arrivals, served>>

Load(t) ==
  /\ pc[t] = "load"
  /\ old' = [old EXCEPT ![t] = word[key[t]]]
  /\ Goto(t, "cas")
  /\ UNCHANGED <<now, mapped, word, lock, key, secs, arrivals, served>>

\* Slips: the last token is not given out; a token is taken when there is none.
EmptyAtOne(t) == NewTokens(old[t], secs[t]) <= 1
EmptyBelowZero(t) == NewTokens(old[t], secs[t]) < 0

\* The thread's copy of the word holds no token for it: 429.
Empty(t) == NewTokens(old[t], secs[t]) < 1

Limit(t) ==
  /\ pc[t] = "cas" /\ Empty(t)
  /\ Goto(t, "limited")
  /\ UNCHANGED <<now, mapped, word, lock, local, arrivals, served>>

\* Slips: a plain store for the exchange; the exchange's result inverted.
StoresBlindly(t) == TRUE
CasInverted(t) == word[key[t]] # old[t]

CasSucceeds(t) == word[key[t]] = old[t]

Take(t) ==
  /\ pc[t] = "cas" /\ ~Empty(t) /\ CasSucceeds(t)
  /\ word' = [word EXCEPT ![key[t]] = Desired(old[t], secs[t])]
  /\ served' = [served EXCEPT ![key[t]] = Stamp(@, NewRefill(old[t], secs[t]))]
  /\ Goto(t, "admitted")
  /\ UNCHANGED <<now, mapped, lock, local, arrivals>>

\* A failed compare_exchange_weak reloads `old`; when the failure is spurious
\* it reloads the same value, a stutter.
Retry(t) ==
  /\ pc[t] = "cas" /\ ~Empty(t) /\ ~CasSucceeds(t)
  /\ old' = [old EXCEPT ![t] = word[key[t]]]
  /\ UNCHANGED <<now, mapped, word, lock, pc, key, secs, arrivals, served>>

Work(t) == LockHit(t) \/ LockMiss(t) \/ Emplace(t) \/ ReadClock(t) \/ Load(t)
             \/ Limit(t) \/ Take(t) \/ Retry(t)

Next == Tick \/ \E t \in Threads : Find(t) \/ Work(t)

Spec == Init /\ [][Next]_vars

\* A thread that is not blocked on the mutex keeps running; arrivals and the
\* clock are the environment's.  Contention is finite because arrivals are.
FairSpec == Spec /\ \A t \in Threads : WF_vars(Work(t))

-----------------------------------------------------------------------------
TypeOK ==
  /\ now \in Time
  /\ mapped \subseteq Keys
  /\ word \in [Keys -> Bucket]
  /\ lock \in Threads \cup {NoThread}
  /\ pc \in [Threads -> Places]
  /\ key \in [Threads -> Keys]
  /\ secs \in [Threads -> Time]
  /\ old \in [Threads -> Bucket]
  /\ arrivals \in 0..MaxArrivals
  /\ served \in [Keys -> [Time -> Nat]]

\* What an interval of bucket time from s to u allows.
Budget(s, u) == Capacity + RefillRate * (u - s)

\* The limiter's promise: over every interval of bucket time that ends at the
\* last refill, the admissions already made and the tokens still left together
\* stay within capacity plus rate times length, however the threads'
\* compare-and-swaps, stale clock readings and racing creations interleave.
IntervalBudget ==
  \A k \in mapped : \A s \in Time :
    IF s <= word[k].refill
    THEN served[k][s] + word[k].tokens <= Budget(s, word[k].refill)
    ELSE served[k][s] = 0

\* Some interval ending at u has used its whole budget.
Spent(k, u) == \E s \in 0..u : served[k][s] >= Budget(s, u)

\* A client is refused only when it has really used its budget at the second
\* the limiter decided for: no lost update, stale copy or replaced bucket turns
\* a paying client away, as long as the uint32 sum of NewTokens does not wrap.
NeverStingy ==
  \A t \in Threads :
    pc[t] = "limited" => Spent(key[t], NewRefill(old[t], secs[t]))

\* A client that waits for the time Retry-After names finds a token in the
\* bucket it was refused on, when the configured rate is not zero.
RetryAfterHonest ==
  \A t \in Threads :
    pc[t] = "limited" => NewTokens(old[t], secs[t] + RetryAfter(old[t], secs[t])) >= 1

\* The refill time of a bucket never moves back, although a slow thread may
\* bring a clock reading older than the bucket's (new_refill, line 268).
RefillMonotone ==
  [][\A k \in mapped : word'[k].refill >= word[k].refill]_vars

\* The bucket time of a key is the refill half of its word.
Abstract == INSTANCE RateBudget WITH clock <- [k \in Keys |-> word[k].refill]

\* The lock-free limiter (TokenBucketLimiter::process and findBucket) implements
\* the sequential budget: each of its steps is a budget step or a stutter.
Refines == Abstract!BudgetSpec

\* Every request is answered: the mutex is released and the retry loop ends.
EveryRequestDecided ==
  \A t \in Threads : pc[t] \notin Resting ~> pc[t] \in Resting

-----------------------------------------------------------------------------
\* The inductive invariants of the proofs in TokenBucketProofs.

\* A thread past findBucket has a bucket; the one creating a bucket holds the
\* mutex and its key is still absent, whatever the unlocked find had missed.
Placement ==
  \A t \in Threads :
    /\ pc[t] \in {"clock", "load", "cas", "limited"} => key[t] \in mapped
    /\ pc[t] = "emplace" => lock = t /\ key[t] \notin mapped

\* A key without a bucket has admitted nothing.
Unseen ==
  \A k \in Keys \ mapped :
    word[k].refill = 0 /\ \A s \in Time : served[k][s] = 0

\* No reading and no bucket is ahead of the clock.
ClockBound ==
  /\ \A k \in Keys : word[k].refill <= now
  /\ \A t \in Threads : secs[t] <= now

BudgetInv == TypeOK /\ Placement /\ Unseen /\ ClockBound /\ IntervalBudget

\* Some interval ending at the word's refill is spent but for its tokens.
Drained(k, w) ==
  \E s \in 0..w.refill : served[k][s] + w.tokens >= Budget(s, w.refill)

\* True of each bucket and of each copy a thread decides on: admissions are
\* never taken back, so a copy's shortage is real even when it is stale.
Drainage ==
  /\ \A k \in mapped : Drained(k, word[k])
  /\ \A t \in Threads : pc[t] \in {"cas", "limited"} => Drained(key[t], old[t])
  /\ \A t \in Threads : pc[t] = "limited" => Empty(t)
=============================================================================
