-------------------------- MODULE FixedWindowProofs --------------------------
(***************************************************************************)
(* Proofs about the fixed-window limiter, for any number of threads and    *)
(* keys and any limit and window length.                                   *)
(***************************************************************************)
EXTENDS FixedWindow, FiniteSetTheorems, TLAPS

-----------------------------------------------------------------------------
\* Arithmetic.

\* Multiples of a natural number are ordered like what is multiplied.
LEMMA TimesMonotone ==
  ASSUME NEW r \in Nat, NEW a \in Int, NEW b \in Int, a <= b
  PROVE  r * a <= r * b /\ r * a \in Int /\ r * b \in Int
<1>1. r * (b - a) \in Nat
  OBVIOUS
<1>2. r * b = r * a + r * (b - a)
  OBVIOUS
<1>3. QED
  BY <1>1, <1>2

\* Window ids are naturals and never decrease with the clock (line 188).
LEMMA WindowIdMonotone ==
  ASSUME NEW a \in Nat, NEW b \in Nat, a <= b
  PROVE  WindowId(a) \in Nat /\ WindowId(a) <= WindowId(b)
<1> DEFINE w == WindowSeconds
           p == a \div w
           q == b \div w
<1>1. w \in Nat \ {0}
  BY FixedWindowAssumption
<1>2. /\ p \in Nat /\ a % w \in Nat /\ a % w < w /\ a = w * p + (a % w)
      /\ q \in Nat /\ b % w \in Nat /\ b % w < w /\ b = w * q + (b % w)
  BY <1>1
<1>3. ASSUME q < p PROVE FALSE
  <2>1. w * (q + 1) <= w * p
    BY <1>1, <1>2, <1>3, TimesMonotone
  <2>2. w * (q + 1) = w * q + w /\ w * q \in Int /\ w * p \in Int
    BY <1>1, <1>2
  <2> HIDE DEF p, q
  <2>3. QED
    BY <1>1, <1>2, <2>1, <2>2
<1>4. QED
  BY <1>2, <1>3 DEF WindowId

-----------------------------------------------------------------------------
\* Types.

\* Every window id the clock can give is one of Windows.
LEMMA WindowIdType ==
  ASSUME NEW s \in 0..MaxTime
  PROVE  WindowId(s) \in Windows
<1>1. s \in Nat /\ MaxTime \in Nat /\ s <= MaxTime
  BY FixedWindowAssumption
<1>2. WindowId(s) \in Nat /\ WindowId(s) <= WindowId(MaxTime) /\ WindowId(MaxTime) \in Nat
  BY <1>1, WindowIdMonotone
<1>3. QED
  BY <1>2 DEF Windows, WindowId

\* The first window exists.
LEMMA FirstWindow == 0 \in Windows
<1>1. WindowId(MaxTime) \in Nat
  BY WindowIdMonotone, FixedWindowAssumption
<1>2. QED
  BY <1>1 DEF Windows, WindowId

\* A count stays a history of counts when it is raised at a key and a window.
LEMMA BumpType ==
  ASSUME NEW h \in [Keys -> [Windows -> Nat]], NEW k \in Keys, NEW w \in Windows, NEW m \in Nat
  PROVE  /\ Bump(h, k, w) \in [Keys -> [Windows -> Nat]]
         /\ BumpBelow(h, k, w, m) \in [Keys -> [Windows -> Nat]]
  BY DEF Bump, BumpBelow

\* Each action of the limiter keeps its state in range.
LEMMA TypeStep == TypeOK /\ [Next]_vars => TypeOK'
<1> SUFFICES ASSUME TypeOK, [Next]_vars PROVE TypeOK'
  OBVIOUS
<1> USE DEF TypeOK, local, history, Goto
<1>1. CASE Tick
  BY <1>1, FixedWindowAssumption DEF Tick
<1>2. ASSUME NEW t \in Threads, Find(t) PROVE TypeOK'
  <2>1. PICK k \in Keys : /\ key' = [key EXCEPT ![t] = k]
                          /\ Goto(t, "clock") \/ Goto(t, "lock")
    BY <1>2 DEF Find
  <2>2. arrivals' \in 0..MaxArrivals
    BY <1>2, FixedWindowAssumption DEF Find
  <2>3. QED
    BY <1>2, <2>1, <2>2 DEF Find, Places, Resting
<1>3. ASSUME NEW t \in Threads, LockHit(t) PROVE TypeOK'
  BY <1>3 DEF LockHit, Places, Resting
<1>4. ASSUME NEW t \in Threads, LockMiss(t) PROVE TypeOK'
  BY <1>4 DEF LockMiss, Places, Resting
<1>5. ASSUME NEW t \in Threads, Emplace(t) PROVE TypeOK'
  BY <1>5, FirstWindow DEF Emplace, Places, Resting, NoInfo, Info
<1>6. ASSUME NEW t \in Threads, ReadClock(t) PROVE TypeOK'
  BY <1>6, WindowIdType DEF ReadClock, Places, Resting
<1>7. ASSUME NEW t \in Threads, Load(t) PROVE TypeOK'
  BY <1>7 DEF Load, Places, Resting
<1>8. ASSUME NEW t \in Threads, Limit(t) PROVE TypeOK'
  BY <1>8 DEF Limit, Places, Resting
<1>9. ASSUME NEW t \in Threads, Count(t) PROVE TypeOK'
  <2>1. key[t] \in Keys /\ window[t] \in Windows /\ old[t] \in Info /\ MaxResets \in Nat
    BY FixedWindowAssumption
  <2>2. Desired(old[t], window[t]) \in Info
    BY <2>1 DEF Desired, Info
  <2>3. passed' \in [Keys -> [Windows -> Nat]] /\ resets' \in [Keys -> [Windows -> Nat]]
    BY <1>9, <2>1, BumpType DEF Count
  <2>4. QED
    BY <1>9, <2>2, <2>3 DEF Count, Places, Resting
<1>10. ASSUME NEW t \in Threads, Leave(t) PROVE TypeOK'
  <2>1. passed' \in [Keys -> [Windows -> Nat]] /\ missed' \in [Keys -> [Windows -> Nat]]
    BY <1>10, BumpType, FixedWindowAssumption DEF Leave
  <2>2. QED
    BY <1>10, <2>1 DEF Leave, Places, Resting
<1>11. CASE UNCHANGED vars
  BY <1>11 DEF vars
<1>12. QED
  BY <1>1, <1>2, <1>3, <1>4, <1>5, <1>6, <1>7, <1>8, <1>9, <1>10, <1>11
     DEF Next, Work

LEMMA TypeInit == Init => TypeOK
  BY FixedWindowAssumption, FirstWindow
     DEF Init, TypeOK, Info, NoInfo, Places, Resting

\* Words, copies and counters stay in range through every interleaving; every
\* window id a thread reads is one the clock has had (line 188).
THEOREM TypeCorrect == Spec => []TypeOK
  BY TypeInit, TypeStep, PTL DEF Spec

-----------------------------------------------------------------------------
\* Counts stand for requests: no refusal before the limit.

\* What a word, or a thread's copy of one, counts has really been let through;
\* in its second round of the loop a thread has counted its own request.
CountsReal ==
  /\ \A k \in Keys : word[k].count <= passed[k][word[k].window]
  /\ \A t \in Threads : pc[t] \in {"cas", "again"} =>
       old[t].count <= passed[key[t]][old[t].window]
  /\ \A t \in Threads : pc[t] = "again" =>
       Desired(old[t], window[t]).count <= passed[key[t]][window[t]]

EarlyInv == TypeOK /\ CountsReal /\ NeverEarly

\* Requests that were let through stay so.
LEMMA PassedGrows ==
  ASSUME TypeOK, [Next]_vars
  PROVE  \A k \in Keys, w \in Windows :
           passed[k][w] \in Nat /\ passed'[k][w] \in Nat /\ passed'[k][w] >= passed[k][w]
<1>0. TypeOK'
  BY TypeStep
<1> USE DEF TypeOK, Bump
<1>1. ASSUME NEW t \in Threads, Count(t)
      PROVE  \A k \in Keys, w \in Windows : passed'[k][w] >= passed[k][w]
  BY <1>1 DEF Count
<1>2. ASSUME NEW t \in Threads, Leave(t)
      PROVE  \A k \in Keys, w \in Windows : passed'[k][w] >= passed[k][w]
  BY <1>2 DEF Leave
<1>3. CASE UNCHANGED passed
  BY <1>3
<1>4. QED
  BY <1>0, <1>1, <1>2, <1>3
     DEF Next, Work, Tick, Find, LockHit, LockMiss, Emplace, ReadClock, Load, Limit, vars, history

\* Each step keeps counts real: the exchange of a second round writes a count
\* that its thread's first round has earned.
LEMMA EarlyStep == EarlyInv /\ [Next]_vars => EarlyInv'
<1> SUFFICES ASSUME EarlyInv, [Next]_vars
             PROVE  CountsReal' /\ NeverEarly'
  BY TypeStep DEF EarlyInv
<1> USE DEF EarlyInv, local, history, Goto
<1>a. /\ TypeOK' /\ TypeOK /\ MaxRequests \in Nat
      /\ \A k \in Keys, w \in Windows :
           passed[k][w] \in Nat /\ passed'[k][w] \in Nat /\ passed'[k][w] >= passed[k][w]
      /\ \A k \in Keys : word[k].count \in Nat /\ word[k].window \in Windows
      /\ \A t \in Threads : /\ old[t].count \in Nat /\ old[t].window \in Windows
                            /\ key[t] \in Keys /\ window[t] \in Windows
  BY TypeStep, PassedGrows, FixedWindowAssumption DEF TypeOK, Info
<1>1. CASE Tick
  BY <1>1 DEF Tick, CountsReal, NeverEarly
<1>2. ASSUME NEW t \in Threads, Find(t) PROVE CountsReal' /\ NeverEarly'
  BY <1>2 DEF Find, CountsReal, NeverEarly, TypeOK
<1>3. ASSUME NEW t \in Threads, LockHit(t) PROVE CountsReal' /\ NeverEarly'
  BY <1>3 DEF LockHit, CountsReal, NeverEarly, TypeOK
<1>4. ASSUME NEW t \in Threads, LockMiss(t) PROVE CountsReal' /\ NeverEarly'
  BY <1>4 DEF LockMiss, CountsReal, NeverEarly, TypeOK
<1>5. ASSUME NEW t \in Threads, Emplace(t) PROVE CountsReal' /\ NeverEarly'
  <2>1. \A k \in Keys : word'[k].count <= passed'[k][word'[k].window]
    BY <1>a, <1>5, FirstWindow DEF Emplace, CountsReal, NoInfo, TypeOK
  <2>2. QED
    BY <1>5, <2>1 DEF Emplace, CountsReal, NeverEarly, TypeOK
<1>6. ASSUME NEW t \in Threads, ReadClock(t) PROVE CountsReal' /\ NeverEarly'
  BY <1>6 DEF ReadClock, CountsReal, NeverEarly, TypeOK
<1>7. ASSUME NEW t \in Threads, Load(t) PROVE CountsReal' /\ NeverEarly'
  BY <1>7, <1>a DEF Load, CountsReal, NeverEarly, TypeOK
<1>8. ASSUME NEW t \in Threads, Limit(t) PROVE CountsReal' /\ NeverEarly'
  <2>1. passed[key[t]][window[t]] >= MaxRequests
    BY <1>8, <1>a DEF Limit, AtLimit, CountsReal
  <2>2. QED
    BY <1>8, <2>1 DEF Limit, CountsReal, NeverEarly, TypeOK
<1>9. ASSUME NEW t \in Threads, Count(t) PROVE CountsReal' /\ NeverEarly'
  <2> DEFINE k == key[t]
             w == window[t]
             n == Desired(old[t], w)
  <2>1. /\ k \in Keys /\ w \in Windows /\ word'[k] = n /\ word[k] = old[t] /\ pc'[t] = "again"
        /\ \A q \in Keys \ {k} : word'[q] = word[q]
        /\ \A u \in Threads \ {t} : pc'[u] = pc[u]
        /\ UNCHANGED <<key, window, old>>
        /\ pc[t] \in {"cas", "again"}
        /\ pc[t] = "cas" => passed' = Bump(passed, k, w)
    BY <1>9, <1>a DEF Count, Trying, TypeOK
  <2>2. n.window = w /\ n.count \in Nat /\ n.count <= passed'[k][w]
    <3>1. CASE pc[t] = "cas"
      <4>1. passed'[k][w] = passed[k][w] + 1
        BY <2>1, <3>1, <1>a DEF Bump, TypeOK
      <4>2. old[t].window = w => old[t].count <= passed[k][w]
        BY <1>a, <3>1 DEF CountsReal
      <4>3. QED
        BY <1>a, <2>1, <4>1, <4>2 DEF Desired
    <3>2. CASE pc[t] = "again"
      <4>1. n.count <= passed[k][w]
        BY <3>2 DEF CountsReal
      <4>2. QED
        BY <1>a, <2>1, <4>1 DEF Desired
    <3>3. QED
      BY <2>1, <3>1, <3>2
  <2> HIDE DEF n
  <2>3. \A q \in Keys : word'[q].count <= passed'[q][word'[q].window]
    BY <1>a, <2>1, <2>2 DEF CountsReal
  <2>4. \A u \in Threads : pc'[u] \in {"cas", "again"} =>
          old[u].count <= passed'[key[u]][old[u].window]
    BY <1>a, <2>1 DEF CountsReal
  <2>5. \A u \in Threads : pc'[u] = "again" =>
          Desired(old[u], window[u]).count <= passed'[key[u]][window[u]]
    <3>1. ASSUME NEW u \in Threads, pc'[u] = "again", u # t
          PROVE  Desired(old[u], window[u]).count <= passed'[key[u]][window[u]]
      <4>1. /\ Desired(old[u], window[u]).count <= passed[key[u]][window[u]]
            /\ Desired(old[u], window[u]).count \in Nat
        BY <1>a, <2>1, <3>1 DEF CountsReal, Desired
      <4>2. QED
        BY <1>a, <4>1
    <3>2. QED
      BY <2>1, <2>2, <3>1 DEF n
  <2>6. NeverEarly'
    BY <1>a, <2>1 DEF NeverEarly
  <2>7. QED
    BY <2>1, <2>3, <2>4, <2>5, <2>6 DEF CountsReal
<1>10. ASSUME NEW t \in Threads, Leave(t) PROVE CountsReal' /\ NeverEarly'
  <2>1. /\ word' = word /\ key' = key /\ window' = window /\ pc'[t] = "admitted"
        /\ \A u \in Threads \ {t} : pc'[u] = pc[u] /\ old'[u] = old[u]
    BY <1>10 DEF Leave, TypeOK
  <2>2. \A u \in Threads \ {t} : Desired(old[u], window[u]).count \in Nat
    BY <1>a DEF Desired
  <2>3. QED
    BY <1>a, <2>1, <2>2 DEF CountsReal, NeverEarly
<1>11. CASE UNCHANGED vars
  BY <1>11 DEF vars, CountsReal, NeverEarly
<1>12. QED
  BY <1>1, <1>2, <1>3, <1>4, <1>5, <1>6, <1>7, <1>8, <1>9, <1>10, <1>11 DEF Next, Work

LEMMA EarlyInit == Init => EarlyInv
<1> SUFFICES ASSUME Init PROVE CountsReal /\ NeverEarly
  BY TypeInit DEF EarlyInv
<1>1. QED
  BY FirstWindow DEF Init, CountsReal, NeverEarly, NoInfo

\* A client is refused only after max_requests requests of its window were let
\* through, whatever other threads and windows did to the word (line 195).
THEOREM RefusalEarned == Spec => []NeverEarly
<1>1. EarlyInv => NeverEarly
  BY DEF EarlyInv
<1>2. QED
  BY <1>1, EarlyInit, EarlyStep, PTL DEF Spec

-----------------------------------------------------------------------------
\* What can get past the limit.

\* The mutex orders the creation of words: a thread that is about to create one
\* holds it and its key has none, and a key without a word has the initial one.
Placement ==
  /\ \A k \in Keys \ mapped : word[k] = NoInfo
  /\ \A t \in Threads : pc[t] = "emplace" => lock = t /\ key[t] \notin mapped
  /\ \A t \in Threads : pc[t] \in {"clock", "load", "cas", "again"} => key[t] \in mapped

\* At least one request passes before a word is reset.
LEMMA QuotaFacts == Quota \in Nat /\ Quota >= 1 /\ MaxRequests <= Quota
  BY FixedWindowAssumption DEF Quota

\* The limit is never exceeded within a word.
WithinLimit == \A k \in Keys : word[k].count <= Quota

First(w) == IF w = 0 THEN 1 ELSE 0

\* What x stretches of a window can have counted: the limit each, or, when the
\* last of them lasts, the limit but for what that one has counted so far.
Whole(x) == Quota * x
Lasting(x, count) == Quota * (x - 1) + count

\* The same for the stretches of window w on the word of k.
Countable(k, w) ==
  IF word[k].window = w
  THEN Lasting(resets[k][w] + First(w), word[k].count)
  ELSE Whole(resets[k][w] + First(w))

\* Requests of w that were counted, as long as the history of resets goes on.
Stretches ==
  \A k \in Keys, w \in Windows :
    resets[k][w] >= MaxResets \/ passed[k][w] <= missed[k][w] + Countable(k, w)

Pending == {t \in Threads : pc[t] \in {"lock", "emplace", "clock", "load", "cas"}}

\* Every request is let through at most once.
OncePassed ==
  /\ IsFiniteSet(Pending)
  /\ \A k \in Keys, w \in Windows : passed[k][w] + Cardinality(Pending) <= arrivals

ExcessInv == TypeOK /\ Placement /\ WithinLimit /\ Stretches /\ OncePassed

\* A thread that has passed or been refused is no longer pending, and one that
\* arrives is: the number of pending threads follows.
LEMMA PendingCount ==
  ASSUME IsFiniteSet(Pending), NEW t \in Threads
  PROVE  /\ Cardinality(Pending) \in Nat
         /\ Pending' = Pending => IsFiniteSet(Pending') /\ Cardinality(Pending') = Cardinality(Pending)
         /\ Pending' = Pending \ {t} =>
              /\ IsFiniteSet(Pending') /\ Cardinality(Pending') \in Nat
              /\ Cardinality(Pending') = Cardinality(Pending) - (IF t \in Pending THEN 1 ELSE 0)
         /\ t \notin Pending /\ Pending' = Pending \cup {t} =>
              IsFiniteSet(Pending') /\ Cardinality(Pending') = Cardinality(Pending) + 1
  BY FS_CardinalityType, FS_AddElement, FS_RemoveElement

\* Each action lets a request pass at most once.
LEMMA OncePassedStep == TypeOK /\ OncePassed /\ [Next]_vars => OncePassed'
<1> SUFFICES ASSUME TypeOK, OncePassed, [Next]_vars PROVE OncePassed'
  OBVIOUS
<1> USE DEF local, history, Goto
<1>a. /\ Cardinality(Pending) \in Nat /\ IsFiniteSet(Pending)
      /\ arrivals \in Nat
      /\ \A k \in Keys, w \in Windows : passed[k][w] \in Nat
      /\ \A t \in Threads : pc[t] \in Places /\ key[t] \in Keys /\ window[t] \in Windows
  BY FS_CardinalityType, FixedWindowAssumption DEF OncePassed, TypeOK
<1>1. ASSUME UNCHANGED passed, UNCHANGED arrivals, Pending' = Pending PROVE OncePassed'
  BY <1>1 DEF OncePassed
<1>2. ASSUME NEW t \in Threads, Find(t) PROVE OncePassed'
  <2>1. t \notin Pending /\ Pending' = Pending \cup {t}
    BY <1>2 DEF Find, Pending, Resting, TypeOK
  <2>2. arrivals' = arrivals + 1 /\ passed' = passed
    BY <1>2 DEF Find
  <2>3. IsFiniteSet(Pending') /\ Cardinality(Pending') = Cardinality(Pending) + 1
    BY <1>a, <2>1, PendingCount
  <2>4. QED
    BY <1>a, <2>2, <2>3 DEF OncePassed
<1>3. ASSUME NEW t \in Threads, Limit(t) PROVE OncePassed'
  <2>1. t \in Pending /\ Pending' = Pending \ {t}
    BY <1>3 DEF Limit, Pending, TypeOK
  <2>2. arrivals' = arrivals /\ passed' = passed
    BY <1>3 DEF Limit
  <2>3. /\ IsFiniteSet(Pending') /\ Cardinality(Pending') \in Nat
        /\ Cardinality(Pending') = Cardinality(Pending) - 1
    BY <1>a, <2>1, PendingCount
  <2>4. QED
    BY <1>a, <2>2, <2>3 DEF OncePassed
<1>4. ASSUME NEW t \in Threads, Count(t) \/ Leave(t) PROVE OncePassed'
  <2>1. /\ Pending' = Pending \ {t} /\ arrivals' = arrivals
        /\ t \in Pending <=> pc[t] = "cas"
        /\ passed' = IF pc[t] = "cas" THEN Bump(passed, key[t], window[t]) ELSE passed
    BY <1>4 DEF Count, Leave, Trying, Pending, TypeOK
  <2>2. /\ IsFiniteSet(Pending') /\ Cardinality(Pending') \in Nat
        /\ Cardinality(Pending') = Cardinality(Pending) - (IF t \in Pending THEN 1 ELSE 0)
    BY <1>a, <2>1, PendingCount
  <2>3. \A k \in Keys, w \in Windows :
          passed'[k][w] <= passed[k][w] + (IF t \in Pending THEN 1 ELSE 0) /\ passed'[k][w] \in Nat
    BY <1>a, <2>1 DEF Bump, TypeOK
  <2> DEFINE one == IF t \in Pending THEN 1 ELSE 0
  <2>4. one \in Nat
    OBVIOUS
  <2> HIDE DEF one
  <2>5. ASSUME NEW k \in Keys, NEW w \in Windows
        PROVE  passed'[k][w] + Cardinality(Pending') <= arrivals'
    <3>1. passed[k][w] + Cardinality(Pending) <= arrivals
      BY DEF OncePassed
    <3>2. passed'[k][w] <= passed[k][w] + one /\ Cardinality(Pending') = Cardinality(Pending) - one
      BY <2>2, <2>3 DEF one
    <3>3. QED
      BY <1>a, <2>1, <2>2, <2>3, <2>4, <3>1, <3>2
  <2>6. QED
    BY <2>2, <2>5 DEF OncePassed
<1>5. CASE Tick \/ UNCHANGED vars
  BY <1>1, <1>5 DEF Tick, vars, Pending
<1>6. ASSUME NEW t \in Threads,
             LockHit(t) \/ LockMiss(t) \/ Emplace(t) \/ ReadClock(t) \/ Load(t)
      PROVE  OncePassed'
  <2>1. Pending' = Pending
    BY <1>6 DEF LockHit, LockMiss, Emplace, ReadClock, Load, Pending, TypeOK
  <2>2. QED
    BY <1>1, <1>6, <2>1 DEF LockHit, LockMiss, Emplace, ReadClock, Load
<1>7. QED
  BY <1>2, <1>3, <1>4, <1>5, <1>6 DEF Next, Work

\* A stretch at the limit is a whole one, a new one begins with one request.
LEMMA RoomFacts ==
  ASSUME NEW x \in Int, NEW c \in Int
  PROVE  /\ Whole(x) \in Int /\ Lasting(x, c) \in Int
         /\ c <= Quota => Lasting(x, c) <= Whole(x)
         /\ Lasting(x, c + 1) = Lasting(x, c) + 1
         /\ Lasting(x + 1, 1) = Whole(x) + 1
<1> DEFINE m == Quota
<1>1. m \in Nat
  BY QuotaFacts
<1>2. m * (x - 1) + m = m * x /\ m * x \in Int /\ m * (x - 1) \in Int
  BY <1>1
<1>3. (x + 1) - 1 = x
  OBVIOUS
<1>4. Lasting(x + 1, 1) = m * x + 1 /\ Whole(x) = m * x
  BY <1>3 DEF Lasting, Whole
<1>5. Lasting(x, c) = m * (x - 1) + c /\ Lasting(x, c + 1) = m * (x - 1) + (c + 1)
  BY DEF Lasting
<1> HIDE DEF m
<1>6. QED
  BY <1>1, <1>2, <1>4, <1>5 DEF m

\* What an exchange does to the requests countable in a window: the window it
\* counts for gains one, no other window loses any (line 207).
LEMMA CountedOnce ==
  ASSUME TypeOK, WithinLimit, NEW t \in Threads, Count(t),
         NEW w \in Windows, resets[key[t]][w] < MaxResets
  PROVE  Countable(key[t], w)' >= Countable(key[t], w) + (IF w = window[t] THEN 1 ELSE 0)
<1> DEFINE k == key[t]
           v == window[t]
           x == resets[k][w] + First(w)
           c == word[k].count
<1>1. /\ k \in Keys /\ v \in Windows /\ MaxResets \in Nat
      /\ resets[k][w] \in Nat /\ x \in Int
      /\ c \in Nat /\ c <= Quota
      /\ word[k] = old[t] /\ key' = key
  BY FixedWindowAssumption DEF TypeOK, Info, WithinLimit, First, Count, local
<1>r. /\ Whole(x) \in Int /\ Lasting(x, c) \in Int /\ Lasting(x, c) <= Whole(x)
      /\ Lasting(x, c + 1) = Lasting(x, c) + 1
      /\ Lasting(x + 1, 1) = Whole(x) + 1
  <2>0. x \in Int /\ c \in Int /\ c <= Quota
    BY <1>1
  <2> HIDE DEF x, c
  <2>1. Whole(x) \in Int
    BY <2>0, RoomFacts
  <2>2. Lasting(x, c) \in Int
    BY <2>0, RoomFacts
  <2>3. Lasting(x, c) <= Whole(x)
    BY <2>0, RoomFacts
  <2>4. Lasting(x, c + 1) = Lasting(x, c) + 1
    BY <2>0, RoomFacts
  <2>5. Lasting(x + 1, 1) = Whole(x) + 1
    BY <2>0, RoomFacts
  <2>6. QED
    BY <2>1, <2>2, <2>3, <2>4, <2>5
<1>2. /\ word'[k] = Desired(old[t], v)
      /\ resets'[k][w] = IF old[t].window # v /\ w = v THEN resets[k][w] + 1 ELSE resets[k][w]
  BY <1>1 DEF Count, TypeOK, BumpBelow
<1>3. Countable(k, w) = IF old[t].window = w THEN Lasting(x, c) ELSE Whole(x)
  BY <1>1 DEF Countable
<1>4. CASE old[t].window = v
  <2>1. word'[k].window = v /\ word'[k].count = c + 1 /\ resets'[k][w] = resets[k][w]
    BY <1>1, <1>2, <1>4 DEF Desired
  <2>2. Countable(k, w)' = IF v = w THEN Lasting(x, c + 1) ELSE Whole(x)
    BY <1>1, <2>1 DEF Countable
  <2> HIDE DEF x, c
  <2>3. QED
    BY <1>1, <1>r, <1>3, <1>4, <2>2
<1>5. CASE old[t].window # v /\ w = v
  <2>1. /\ word'[k].window = v /\ word'[k].count = 1
        /\ resets'[k][w] + First(w) = x + 1
    BY <1>1, <1>2, <1>5 DEF Desired, First
  <2>2. Countable(k, w)' = Lasting(x + 1, 1)
    BY <1>1, <1>5, <2>1 DEF Countable
  <2> HIDE DEF x, c
  <2>3. QED
    BY <1>1, <1>r, <1>3, <1>5, <2>2
<1>6. CASE old[t].window # v /\ w # v
  <2>1. word'[k].window = v /\ resets'[k][w] = resets[k][w]
    BY <1>1, <1>2, <1>6 DEF Desired
  <2>2. Countable(k, w)' = Whole(x)
    BY <1>1, <1>6, <2>1 DEF Countable
  <2> HIDE DEF x, c
  <2>3. QED
    BY <1>1, <1>r, <1>3, <1>6, <2>2
<1>7. QED
  BY <1>4, <1>5, <1>6

\* Each step keeps the account of what a window can have counted.
LEMMA ExcessStep == ExcessInv /\ [Next]_vars => ExcessInv'
<1> SUFFICES ASSUME ExcessInv, [Next]_vars
             PROVE  (Placement /\ WithinLimit /\ Stretches)'
  BY TypeStep, OncePassedStep DEF ExcessInv
<1> USE DEF local, history, Goto
<1>a. /\ TypeOK /\ TypeOK' /\ Placement /\ WithinLimit /\ Stretches
      /\ MaxRequests \in Nat /\ MaxResets \in Nat
      /\ Quota \in Nat /\ Quota >= 1 /\ MaxRequests <= Quota
      /\ NoThread \notin Threads
  BY TypeStep, FixedWindowAssumption, QuotaFacts DEF ExcessInv
<1>b. \A k \in Keys, w \in Windows :
        /\ passed[k][w] \in Nat /\ missed[k][w] \in Nat /\ resets[k][w] \in Nat
        /\ Countable(k, w) \in Int
  <2>1. ASSUME NEW k \in Keys, NEW w \in Windows
        PROVE  passed[k][w] \in Nat /\ missed[k][w] \in Nat /\ resets[k][w] \in Nat
    BY <1>a DEF TypeOK
  <2>2. ASSUME NEW k \in Keys, NEW w \in Windows PROVE Countable(k, w) \in Int
    <3>1. word[k].count \in Int /\ resets[k][w] + First(w) \in Int
      BY <1>a, <2>1 DEF TypeOK, Info, First
    <3>2. QED
      BY <3>1, RoomFacts DEF Countable
  <2>3. QED
    BY <2>1, <2>2
<1>1. ASSUME UNCHANGED <<word, passed, missed, resets>> PROVE WithinLimit' /\ Stretches'
  BY <1>a, <1>1 DEF WithinLimit, Stretches, Countable
<1>2. CASE Tick \/ UNCHANGED vars
  BY <1>a, <1>1, <1>2 DEF Tick, vars, Placement
<1>3. ASSUME NEW t \in Threads, Find(t) PROVE (Placement /\ WithinLimit /\ Stretches)'
  BY <1>a, <1>1, <1>3 DEF Find, Resting, Placement, TypeOK
<1>4. ASSUME NEW t \in Threads, LockHit(t) PROVE (Placement /\ WithinLimit /\ Stretches)'
  BY <1>a, <1>1, <1>4 DEF LockHit, FoundLocked, Placement, TypeOK
<1>5. ASSUME NEW t \in Threads, LockMiss(t) PROVE (Placement /\ WithinLimit /\ Stretches)'
  BY <1>a, <1>1, <1>5 DEF LockMiss, FoundLocked, Placement, TypeOK
<1>6. ASSUME NEW t \in Threads, Emplace(t) PROVE (Placement /\ WithinLimit /\ Stretches)'
  <2>1. word' = word
    BY <1>a, <1>6 DEF Emplace, Placement, TypeOK
  <2>2. Placement'
    BY <1>a, <1>6, <2>1 DEF Emplace, Placement, TypeOK
  <2>3. QED
    BY <1>1, <1>6, <2>1, <2>2 DEF Emplace
<1>7. ASSUME NEW t \in Threads, ReadClock(t) PROVE (Placement /\ WithinLimit /\ Stretches)'
  BY <1>a, <1>1, <1>7 DEF ReadClock, Placement, TypeOK
<1>8. ASSUME NEW t \in Threads, Load(t) PROVE (Placement /\ WithinLimit /\ Stretches)'
  BY <1>a, <1>1, <1>8 DEF Load, Placement, TypeOK
<1>9. ASSUME NEW t \in Threads, Limit(t) PROVE (Placement /\ WithinLimit /\ Stretches)'
  BY <1>a, <1>1, <1>9 DEF Limit, Placement, TypeOK
<1>10. ASSUME NEW t \in Threads, Count(t) PROVE (Placement /\ WithinLimit /\ Stretches)'
  <2> DEFINE kt == key[t]
             v == window[t]
  <2>1. /\ kt \in Keys /\ kt \in mapped /\ v \in Windows
        /\ word[kt] = old[t] /\ ~AtLimit(old[t], v) /\ old[t].count \in Nat
        /\ word'[kt] = Desired(old[t], v)
        /\ \A k \in Keys \ {kt} : word'[k] = word[k] /\ passed'[k] = passed[k] /\ resets'[k] = resets[k]
        /\ missed' = missed
        /\ \A w \in Windows : /\ resets'[kt][w] >= resets[kt][w] /\ resets'[kt][w] \in Nat
                              /\ passed'[kt][w] <= passed[kt][w] + (IF w = v THEN 1 ELSE 0)
                              /\ passed'[kt][w] \in Nat
    <3>1. /\ kt \in Keys /\ kt \in mapped /\ v \in Windows
          /\ word[kt] = old[t] /\ ~AtLimit(old[t], v) /\ old[t].count \in Nat
      BY <1>a, <1>10 DEF Count, Trying, Placement, TypeOK, Info
    <3>2. /\ word' = [word EXCEPT ![kt] = Desired(old[t], v)] /\ missed' = missed
          /\ passed' = Bump(passed, kt, v) \/ passed' = passed
          /\ resets' = BumpBelow(resets, kt, v, MaxResets) \/ resets' = resets
      BY <1>10 DEF Count
    <3>3. /\ word \in [Keys -> Info] /\ passed \in [Keys -> [Windows -> Nat]]
          /\ resets \in [Keys -> [Windows -> Nat]]
      BY <1>a DEF TypeOK
    <3> HIDE DEF kt, v
    <3>4. /\ word'[kt] = Desired(old[t], v)
          /\ \A k \in Keys \ {kt} : word'[k] = word[k]
      BY <3>1, <3>2, <3>3
    <3>5. /\ \A k \in Keys \ {kt} : passed'[k] = passed[k]
          /\ \A w \in Windows : /\ passed'[kt][w] <= passed[kt][w] + (IF w = v THEN 1 ELSE 0)
                                /\ passed'[kt][w] \in Nat
      BY <3>1, <3>2, <3>3 DEF Bump
    <3>6. /\ \A k \in Keys \ {kt} : resets'[k] = resets[k]
          /\ \A w \in Windows : resets'[kt][w] >= resets[kt][w] /\ resets'[kt][w] \in Nat
      BY <3>1, <3>2, <3>3 DEF BumpBelow
    <3>7. QED
      BY <3>1, <3>2, <3>4, <3>5, <3>6
  <2>2. Placement'
    BY <1>a, <1>10, <2>1 DEF Count, Trying, Placement, TypeOK
  <2>3. WithinLimit'
    <3>1. word'[kt].count <= Quota
      BY <1>a, <2>1 DEF Desired, AtLimit
    <3>2. QED
      BY <1>a, <2>1, <3>1 DEF WithinLimit
  <2>4. ASSUME NEW k \in Keys, NEW w \in Windows, ~(resets'[k][w] >= MaxResets)
        PROVE  passed'[k][w] <= missed'[k][w] + Countable(k, w)'
    <3>1. CASE k # kt
      BY <1>a, <2>1, <2>4, <3>1 DEF Stretches, Countable
    <3>2. CASE k = kt
      <4> DEFINE one == IF w = v THEN 1 ELSE 0
      <4>1. resets[kt][w] < MaxResets
        BY <1>a, <1>b, <2>1, <2>4, <3>2
      <4>2. passed[kt][w] <= missed[kt][w] + Countable(kt, w)
        BY <1>a, <1>b, <2>1, <4>1 DEF Stretches
      <4>3. Countable(kt, w)' >= Countable(kt, w) + one
        BY <1>a, <1>10, <4>1, CountedOnce
      <4>4. one \in Nat /\ passed'[kt][w] <= passed[kt][w] + one
        BY <2>1
      <4>5. kt' = kt /\ Countable(kt, w)' \in Int
        <5>1. kt' = kt
          BY <1>10 DEF Count
        <5>2. word'[kt].count \in Int /\ resets'[kt][w] + First(w) \in Int
          BY <1>a, <2>1 DEF TypeOK, Info, First, Desired
        <5>3. QED
          BY <5>1, <5>2, RoomFacts DEF Countable
      <4> HIDE DEF one
      <4>6. passed'[kt][w] <= missed'[kt][w] + Countable(kt, w)'
        BY <1>b, <2>1, <4>2, <4>3, <4>4, <4>5
      <4>7. QED
        BY <3>2, <4>5, <4>6
    <3>3. QED
      BY <3>1, <3>2
  <2>5. QED
    BY <2>2, <2>3, <2>4 DEF Stretches
<1>11. ASSUME NEW t \in Threads, Leave(t) PROVE (Placement /\ WithinLimit /\ Stretches)'
  <2>1. /\ UNCHANGED <<word, resets>>
        /\ \A k \in Keys, w \in Windows :
             passed'[k][w] - missed'[k][w] = passed[k][w] - missed[k][w]
        /\ \A k \in Keys, w \in Windows : passed'[k][w] \in Nat /\ missed'[k][w] \in Nat
    BY <1>a, <1>11 DEF Leave, Bump, TypeOK
  <2>2. Stretches'
    <3>1. \A k \in Keys, w \in Windows : Countable(k, w)' = Countable(k, w)
      BY <2>1 DEF Countable
    <3>2. QED
      BY <1>a, <1>b, <2>1, <3>1 DEF Stretches
  <2>3. QED
    BY <1>a, <1>11, <2>1, <2>2 DEF Leave, Placement, WithinLimit, TypeOK
<1>12. QED
  BY <1>2, <1>3, <1>4, <1>5, <1>6, <1>7, <1>8, <1>9, <1>10, <1>11 DEF Next, Work

LEMMA ExcessInit == Init => ExcessInv
<1> SUFFICES ASSUME Init PROVE Placement /\ WithinLimit /\ Stretches /\ OncePassed
  BY TypeInit DEF ExcessInv
<1>1. Placement /\ WithinLimit
  BY QuotaFacts DEF Init, Placement, WithinLimit, NoInfo
<1>2. Stretches
  <2>1. Quota * 0 = 0 /\ Quota * (1 - 1) = 0 /\ Quota \in Nat
    BY QuotaFacts
  <2>2. QED
    BY <2>1, FixedWindowAssumption DEF Init, Stretches, Countable, Whole, Lasting, First, NoInfo
<1>3. Pending = {}
  BY DEF Init, Pending
<1>4. OncePassed
  BY <1>3, FS_EmptySet DEF Init, OncePassed
<1>5. QED
  BY <1>1, <1>2, <1>4

\* More than max_requests pass in a window only by requests that a lost exchange
\* left uncounted (line 209), and by threads of another window that reset the
\* word (line 207).  A limit of none lets the request pass that opens a window.
THEOREM ExcessHasCause == Spec => []ExcessExplained
<1>1. ASSUME ExcessInv PROVE ExcessExplained
  <2> SUFFICES ASSUME NEW k \in Keys, NEW w \in Windows
               PROVE  passed[k][w] <= missed[k][w] + Quota * (resets[k][w] + First(w))
    BY DEF ExcessExplained, First
  <2> DEFINE x == resets[k][w] + First(w)
             c == word[k].count
  <2>1. /\ Quota \in Nat /\ Quota >= 1 /\ MaxResets \in Nat /\ MaxArrivals \in Nat /\ MaxArrivals <= MaxResets
        /\ missed[k][w] \in Nat /\ passed[k][w] \in Nat
    BY <1>1, FixedWindowAssumption, QuotaFacts DEF ExcessInv, TypeOK
  <2>2. resets[k][w] \in Nat /\ x \in Nat /\ x >= resets[k][w]
    BY <1>1 DEF ExcessInv, TypeOK, First
  <2>3. c \in Int /\ c <= Quota
    BY <1>1 DEF ExcessInv, TypeOK, Info, WithinLimit
  <2>4. /\ Whole(x) \in Int /\ Countable(k, w) \in Int /\ Countable(k, w) <= Whole(x)
    <3>1. Countable(k, w) = IF word[k].window = w THEN Lasting(x, c) ELSE Whole(x)
      BY DEF Countable
    <3> HIDE DEF x, c
    <3>2. x \in Int /\ c \in Int /\ c <= Quota
      BY <2>2, <2>3
    <3>3. Whole(x) \in Int
      BY <3>2, RoomFacts
    <3>4. Lasting(x, c) \in Int
      BY <3>2, RoomFacts
    <3>5. Lasting(x, c) <= Whole(x)
      BY <3>2, RoomFacts
    <3>6. QED
      BY <3>1, <3>3, <3>4, <3>5
  <2>5. x <= Whole(x)
    <3>1. x * 1 <= x * Quota
      BY <2>1, <2>2, TimesMonotone
    <3>2. x * 1 = x /\ x * Quota = Quota * x
      BY <2>1, <2>2
    <3>3. QED
      BY <3>1, <3>2 DEF Whole
  <2>6. passed[k][w] <= MaxArrivals
    <3>1. passed[k][w] + Cardinality(Pending) <= arrivals /\ Cardinality(Pending) \in Nat
      BY <1>1, FS_CardinalityType DEF ExcessInv, OncePassed
    <3>2. arrivals \in Nat /\ arrivals <= MaxArrivals
      BY <1>1, <2>1 DEF ExcessInv, TypeOK
    <3>3. QED
      BY <2>1, <3>1, <3>2
  <2>7. resets[k][w] >= MaxResets \/ passed[k][w] <= missed[k][w] + Countable(k, w)
    BY <1>1 DEF ExcessInv, Stretches
  <2> HIDE DEF x, c
  <2>8. passed[k][w] <= missed[k][w] + Whole(x)
    BY <2>1, <2>2, <2>4, <2>5, <2>6, <2>7
  <2>9. QED
    BY <2>8 DEF x, Whole
<1>2. QED
  BY <1>1, ExcessInit, ExcessStep, PTL DEF Spec
=============================================================================
