----------------------------- MODULE FixedWindow -----------------------------
(***************************************************************************)
(* mw::FixedWindowLimiter (src/src/Middleware.cpp, Middleware.h).  A key   *)
(* has one 64-bit atomic word: the id of a window of WindowSeconds seconds *)
(* and the requests counted in it.  A thread reads the clock, loads the    *)
(* word and then counts its request in a compare-and-swap loop whose       *)
(* condition is inverted: it goes round again after a SUCCESSFUL exchange  *)
(* and leaves, without counting, after a failed one.                       *)
(*                                                                         *)
(* A request whose key cannot be made is answered 400 before the limiter   *)
(* touches any state; it is left out.  An unlocked find that overlaps an   *)
(* emplace is a data race; of its outcomes hit and miss are modelled.      *)
(***************************************************************************)
EXTENDS Integers, FiniteSets

CONSTANTS Threads,       \* I/O threads running the limiter
          Keys,          \* client keys
          NoThread,      \* nobody holds the mutex
          MaxRequests,   \* setting.max_requests
          WindowSeconds, \* setting.window_seconds
          SpuriousCas,   \* may compare_exchange_weak fail for no reason?
          MaxTime,       \* bound: the clock stops here
          MaxArrivals,   \* bound: requests served in one behaviour
          MaxResets      \* bound: where the history of resets stops counting

ASSUME FixedWindowAssumption ==
  /\ MaxRequests \in Nat
  /\ WindowSeconds \in Nat \ {0}
  /\ SpuriousCas \in BOOLEAN
  /\ MaxTime \in Nat
  /\ MaxArrivals \in Nat
  /\ MaxResets \in Nat /\ MaxResets >= MaxArrivals
  /\ NoThread \notin Threads

VARIABLES now,      \* steady_clock in whole seconds
          mapped,   \* keys present in `clients`
          word,     \* window_and_count of each key
          lock,     \* holder of clients_mutex
          pc,       \* where each thread is
          key,      \* the key of the request the thread serves
          window,   \* the thread's this_window_id
          old,      \* the thread's copy of the word
          arrivals, \* requests begun so far
          passed,   \* history: requests let through per key and window id
          missed,   \* history: of those, the ones no exchange ever counted
          resets    \* history: how often the word was reset to each window

vars == <<now, mapped, word, lock, pc, key, window, old, arrivals, passed, missed, resets>>
local == <<key, window, old>>
history == <<passed, missed, resets>>

Windows == 0..(MaxTime \div WindowSeconds)
Info    == [window : Windows, count : Nat]
Resting == {"idle", "limited", "admitted"}
Places  == Resting \cup {"lock", "emplace", "clock", "load", "cas", "again"}

\* Slip: the clock is not divided by the window's length.
WindowIdInSeconds(s) == s

WindowId(s) == s \div WindowSeconds

\* Slip: a full count of an old window still counts.
AtLimitAnyWindow(o, w) == o.count >= MaxRequests

\* old_window_id == this_window_id && old_count >= max_requests
AtLimit(o, w) == o.window = w /\ o.count >= MaxRequests

\* Slip: the request that opens a window is not counted.
DesiredFromZero(o, w) == [window |-> w, count |-> IF o.window = w THEN o.count + 1 ELSE 0]

\* Count within the window the word is in, start over for any other window.
Desired(o, w) == [window |-> w, count |-> IF o.window = w THEN o.count + 1 ELSE 1]

NoInfo == [window |-> 0, count |-> 0]

-----------------------------------------------------------------------------
Goto(t, p) == pc' = [pc EXCEPT ![t] = p]

Bump(h, k, w) == [h EXCEPT ![k][w] = @ + 1]

\* The same up to a bound, for what may happen without end.
BumpBelow(h, k, w, bound) == [h EXCEPT ![k][w] = IF @ < bound THEN @ + 1 ELSE @]

Init ==
  /\ now = 0
  /\ mapped = {}
  /\ word = [k \in Keys |-> NoInfo]
  /\ lock = NoThread
  /\ pc = [t \in Threads |-> "idle"]
  /\ key \in [Threads -> Keys]
  /\ window = [t \in Threads |-> 0]
  /\ old = [t \in Threads |-> NoInfo]
  /\ arrivals = 0
  /\ passed = [k \in Keys |-> [w \in Windows |-> 0]]
  /\ missed = passed
  /\ resets = passed

Tick ==
  /\ now < MaxTime
  /\ now' = now + 1
  /\ UNCHANGED <<mapped, word, lock, pc, local, arrivals, history>>

\* findClient, the find without the mutex.  While another thread is in the
\* critical section the search may miss a key that is there.
UnlockedMiss(k) == k \notin mapped \/ lock # NoThread

Find(t) ==
  /\ pc[t] \in Resting
  /\ arrivals < MaxArrivals
  /\ arrivals' = arrivals + 1
  /\ \E k \in Keys :
       /\ key' = [key EXCEPT ![t] = k]
       /\ \/ k \in mapped /\ Goto(t, "clock")
          \/ UnlockedMiss(k) /\ Goto(t, "lock")
  /\ UNCHANGED <<now, mapped, word, lock, window, old, history>>

\* findClient, the find under the mutex.
FoundLocked(k) == k \in mapped

LockHit(t) ==
  /\ pc[t] = "lock" /\ lock = NoThread
  /\ FoundLocked(key[t])
  /\ Goto(t, "clock")
  /\ UNCHANGED <<now, mapped, word, lock, local, arrivals, history>>

LockMiss(t) ==
  /\ pc[t] = "lock" /\ lock = NoThread
  /\ ~FoundLocked(key[t])
  /\ lock' = t
  /\ Goto(t, "emplace")
  /\ UNCHANGED <<now, mapped, word, local, arrivals, history>>

Emplace(t) ==
  /\ pc[t] = "emplace"
  /\ mapped' = mapped \cup {key[t]}
  /\ word' = [word EXCEPT ![key[t]] = NoInfo]
  /\ lock' = NoThread
  /\ Goto(t, "clock")
  /\ UNCHANGED <<now, local, arrivals, history>>

ReadClock(t) ==
  /\ pc[t] = "clock"
  /\ window' = [window EXCEPT ![t] = WindowId(now)]
  /\ Goto(t, "load")
  /\ UNCHANGED <<now, mapped, word, lock, key, old, arrivals, history>>

Load(t) ==
  /\ pc[t] = "load"
  /\ old' = [old EXCEPT ![t] = word[key[t]]]
  /\ Goto(t, "cas")
  /\ UNCHANGED <<now, mapped, word, lock, key, window, arrivals, history>>

Limit(t) ==
  /\ pc[t] = "cas" /\ AtLimit(old[t], window[t])
  /\ Goto(t, "limited")
  /\ UNCHANGED <<now, mapped, word, lock, local, arrivals, history>>

\* Slip: nothing handles the second round of the loop.
TryingOnce(t) == pc[t] = "cas" /\ ~AtLimit(old[t], window[t])

\* In the second round `old` is what it was in the first, so the check for the
\* limit has the same outcome: not reached.
Trying(t) == pc[t] \in {"cas", "again"} /\ ~AtLimit(old[t], window[t])

CasMayFail(t) == word[key[t]] # old[t] \/ SpuriousCas

\* A successful exchange: the loop goes round again, `old` as it was.
Count(t) ==
  LET k == key[t]
      w == window[t]
  IN  /\ Trying(t) /\ word[k] = old[t]
      /\ word' = [word EXCEPT ![k] = Desired(old[t], w)]
      /\ passed' = IF pc[t] = "cas" THEN Bump(passed, k, w) ELSE passed
      /\ resets' = IF old[t].window # w THEN BumpBelow(resets, k, w, MaxResets) ELSE resets
      /\ Goto(t, "again")
      /\ UNCHANGED <<now, mapped, lock, local, arrivals, missed>>

\* A failed exchange: the loop ends and the request is let through.
Leave(t) ==
  LET k == key[t]
      w == window[t]
      uncounted == pc[t] = "cas"
  IN  /\ Trying(t) /\ CasMayFail(t)
      /\ old' = [old EXCEPT ![t] = word[k]]
      /\ passed' = IF uncounted THEN Bump(passed, k, w) ELSE passed
      /\ missed' = IF uncounted THEN Bump(missed, k, w) ELSE missed
      /\ Goto(t, "admitted")
      /\ UNCHANGED <<now, mapped, word, lock, key, window, arrivals, resets>>

Work(t) == LockHit(t) \/ LockMiss(t) \/ Emplace(t) \/ ReadClock(t) \/ Load(t)
             \/ Limit(t) \/ Count(t) \/ Leave(t)

Next == Tick \/ \E t \in Threads : Find(t) \/ Work(t)

Spec == Init /\ [][Next]_vars

\* A thread that is not blocked on the mutex keeps running; arrivals and the
\* clock are the environment's.
FairSpec == Spec /\ \A t \in Threads : WF_vars(Work(t))

-----------------------------------------------------------------------------
TypeOK ==
  /\ now \in 0..MaxTime
  /\ mapped \subseteq Keys
  /\ word \in [Keys -> Info]
  /\ lock \in Threads \cup {NoThread}
  /\ pc \in [Threads -> Places]
  /\ key \in [Threads -> Keys]
  /\ window \in [Threads -> Windows]
  /\ old \in [Threads -> Info]
  /\ arrivals \in 0..MaxArrivals
  /\ \A h \in {passed, missed, resets} : h \in [Keys -> [Windows -> Nat]]

\* "max_requests: The maximum number of requests served to the client within
\* the window" (README.md:291), counted by the window each request read.
AtMostMax == \A k \in Keys, w \in Windows : passed[k][w] <= MaxRequests

\* A client is refused only when max_requests requests of the same window have
\* really been let through, even when the thread decides on a stale word.
NeverEarly ==
  \A t \in Threads :
    pc[t] = "limited" => passed[key[t]][window[t]] >= MaxRequests

\* What a word may count before it is reset: max_requests, but the request that
\* resets it always (line 207).
Quota == IF MaxRequests = 0 THEN 1 ELSE MaxRequests

\* The only ways past the limit: a lost exchange leaves a request uncounted, a
\* thread with an old window id resets the word and the count starts over.
\* Without either the limit holds, but for a limit of none: the request that
\* opens a window is never refused.  (The history of resets may stop at
\* MaxResets, which is no less than what can pass.)
ExcessExplained ==
  \A k \in Keys, w \in Windows :
    passed[k][w] <= missed[k][w] + Quota * (resets[k][w] + IF w = 0 THEN 1 ELSE 0)

\* Every request is answered: the mutex is released, and the loop that repeats
\* after a success (line 209) ends, since a thread's own exchange makes its next
\* one fail.  Only a thread that counts for the same key in another window can
\* put the word back, and the two may keep each other going for ever.
Disturbed(t) ==
  \E u \in Threads : Trying(u) /\ key[u] = key[t] /\ window[u] # window[t]

EveryRequestDecided ==
  \A t \in Threads : pc[t] \notin Resting ~> pc[t] \in Resting \/ Disturbed(t)
=============================================================================
