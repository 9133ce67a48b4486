----------------------------- MODULE ScriptsProofs -----------------------------
(***************************************************************************)
(* Proofs about Scripts, for any number of sessions and any descriptor     *)
(* numbers.  The inductive invariant says where each session stands in its *)
(* plan (PlanInv), that the descriptor table and the sessions' variables   *)
(* agree (TableInv, OwnsItsEnds), and what became of the arguments of each *)
(* script (StdinInv, FedInv).                                              *)
(***************************************************************************)
EXTENDS Scripts, TLAPS, SequenceTheorems, FiniteSetTheorems, WellFoundedInduction

CallNames == DOMAIN Closes \cup {"accept", "pipe_in", "pipe_out", "spawn", "write", "read", "wait"}

\* How many calls a session has left: the plan gives the next one.
Left(s) == Len(todo[s])

Suffix(q) == /\ q \in Seq(CallNames)
             /\ Len(q) <= 12
             /\ \A i \in 1..Len(q) : q[i] = Plan[(12 - Len(q)) + i]

\* Where a session stands in its plan tells what it has opened, closed and started.
Opened(s) ==
  /\ Left(s) = 12 <=> num[s]["sock"] = Unset
  /\ Left(s) >= 11 => \A k \in {"in_r", "in_w"} : num[s][k] = Unset
  /\ Left(s) \in 3..10 => \A k \in {"in_r", "in_w"} : num[s][k] # Unset
  /\ Left(s) >= 10 => \A k \in {"out_r", "out_w"} : num[s][k] = Unset
  /\ Left(s) \in 3..9 => \A k \in {"out_r", "out_w"} : num[s][k] # Unset

ClosedSoFar(s) ==
  /\ Left(s) >= 8 => closed[s] = {}
  /\ Left(s) >= 6 => "in_w" \notin closed[s]
  /\ Left(s) >= 3 => "out_r" \notin closed[s]
  /\ Left(s) >= 1 => "sock" \notin closed[s]
  /\ Left(s) <= 1 => PipeKinds \subseteq closed[s]
  /\ Left(s) = 0 => closed[s] = Kinds

Placed(s) == /\ Suffix(todo[s])
             /\ Opened(s)
             /\ ClosedSoFar(s)
             /\ Left(s) >= 9 => child[s] = "none"

PlanInv ==
  /\ DOMAIN todo = Sessions
  /\ \A s \in Sessions : Placed(s)

\* An end in the table stands where its session's variables say, not closed yet.
TableInv ==
  \A n \in Numbers, k \in Kinds, s \in Sessions :
    fd[n] = <<k, s>> => num[s][k] = n /\ k \notin closed[s]

\* Only a number that was struck lets a script read the arguments of another's.
StdinInv ==
  \A s, t \in Sessions :
    stdin[t] = <<"in_r", s>> =>
      num[s]["in_r"] # Unset /\ (t = s \/ Struck(num[s]["in_r"]))

Intact(s) == ~killed /\ \A k \in {"in_r", "in_w"} : ~Struck(num[s][k])

Supplied(s) == \/ input[s] \in {"empty", "read"}
               \/ input[s] = "written" /\ <<"in_r", s>> \in full

\* A running script has its own input, and once the session has written and
\* closed it the arguments are there or read.
FedInv ==
  \A s \in Sessions :
    Intact(s) /\ child[s] \in {"reading", "fed"} =>
      /\ stdin[s] = <<"in_r", s>> /\ num[s]["in_w"] # Unset
      /\ Left(s) = 6 \/ "in_w" \in closed[s] => Supplied(s)
      /\ child[s] = "fed" => "in_w" \in closed[s] /\ input[s] \in {"empty", "read"}

ScriptsInv == TypeOK /\ PlanInv /\ TableInv /\ OwnsItsEnds /\ StdinInv /\ FedInv

-----------------------------------------------------------------------------
(* The plan *)

LEMMA ClosingCalls ==
  DOMAIN Closes = {"child_ends", "in_w", "out_r", "destroy", "sock"}
BY DEF Closes

LEMMA Joined ==
  ASSUME NEW p \in Seq(CallNames), NEW q \in Seq(CallNames)
  PROVE  /\ p \o q \in Seq(CallNames)
         /\ Len(p \o q) = Len(p) + Len(q)
         /\ \A i \in 1..Len(p) : (p \o q)[i] = p[i]
         /\ \A i \in 1..Len(q) : (p \o q)[Len(p) + i] = q[i]
<1>1. Len(p) \in Nat /\ Len(q) \in Nat
  OBVIOUS
<1>2. p \o q \in Seq(CallNames) /\ Len(p \o q) = Len(p) + Len(q)
  OBVIOUS
<1>3. \A i \in 1..Len(p) : (p \o q)[i] = p[i]
  BY <1>1
<1>4. \A i \in 1..Len(q) : (p \o q)[Len(p) + i] = q[i]
  BY <1>1
<1>5. QED
  BY <1>2, <1>3, <1>4

LEMMA UnwindIs ==
  /\ Unwind \in Seq(CallNames)
  /\ Len(Unwind) = 2
  /\ Unwind[1] = "out_r" /\ Unwind[2] = "destroy"
<1> DEFINE first == <<"out_r">>
<1>1. first \in Seq(CallNames) /\ Len(first) = 1 /\ first[1] = "out_r"
  BY ClosingCalls DEF CallNames
<1>2. Destructor \in Seq(CallNames) /\ Len(Destructor) = 1 /\ Destructor[1] = "destroy"
  BY ClosingCalls DEF CallNames, Destructor
<1>3. Unwind = first \o Destructor
  BY DEF Unwind
<1> HIDE DEF first
<1>4. /\ Unwind \in Seq(CallNames)
      /\ Len(Unwind) = Len(first) + Len(Destructor)
      /\ \A i \in 1..Len(first) : Unwind[i] = first[i]
      /\ \A i \in 1..Len(Destructor) : Unwind[Len(first) + i] = Destructor[i]
  BY <1>1, <1>2, <1>3, Joined
<1>5. Unwind[1] = first[1] /\ Unwind[1 + 1] = Destructor[1]
  BY <1>1, <1>2, <1>4
<1>6. QED
  BY <1>1, <1>2, <1>4, <1>5

LEMMA PlanIs ==
  /\ Plan \in Seq(CallNames)
  /\ Len(Plan) = 12
  /\ Plan[1] = "accept" /\ Plan[2] = "pipe_in" /\ Plan[3] = "pipe_out"
  /\ Plan[4] = "spawn" /\ Plan[5] = "child_ends" /\ Plan[6] = "write"
  /\ Plan[7] = "in_w" /\ Plan[8] = "read" /\ Plan[9] = "wait"
  /\ Plan[10] = "out_r" /\ Plan[11] = "destroy" /\ Plan[12] = "sock"
<1> DEFINE front == <<"accept", "pipe_in", "pipe_out", "spawn", "child_ends",
                      "write", "in_w", "read", "wait">>
           last == <<"sock">>
<1>1. /\ front \in Seq(CallNames) /\ Len(front) = 9
      /\ front[1] = "accept" /\ front[2] = "pipe_in" /\ front[3] = "pipe_out"
      /\ front[4] = "spawn" /\ front[5] = "child_ends" /\ front[6] = "write"
      /\ front[7] = "in_w" /\ front[8] = "read" /\ front[9] = "wait"
  BY ClosingCalls DEF CallNames
<1>2. last \in Seq(CallNames) /\ Len(last) = 1 /\ last[1] = "sock"
  BY ClosingCalls DEF CallNames
<1>3. Plan = (front \o Unwind) \o last
  BY DEF Plan
<1> HIDE DEF front, last
<1> DEFINE most == front \o Unwind
<1>4. /\ most \in Seq(CallNames) /\ Len(most) = 11
      /\ \A i \in 1..9 : most[i] = front[i]
      /\ most[10] = "out_r" /\ most[11] = "destroy"
  <2>1. /\ most \in Seq(CallNames)
        /\ Len(most) = Len(front) + Len(Unwind)
        /\ \A i \in 1..Len(front) : most[i] = front[i]
        /\ \A i \in 1..Len(Unwind) : most[Len(front) + i] = Unwind[i]
    BY <1>1, UnwindIs, Joined
  <2>2. most[9 + 1] = Unwind[1] /\ most[9 + 2] = Unwind[2]
    <3>1. Len(Unwind) = 2 /\ 1 \in 1..2 /\ 2 \in 1..2
      BY UnwindIs
    <3>2. \A i \in 1..2 : most[9 + i] = Unwind[i]
      BY <1>1, <2>1, <3>1
    <3> HIDE DEF most
    <3>3. QED
      BY <3>1, <3>2
  <2>3. 9 + 1 = 10 /\ 9 + 2 = 11 /\ Len(Unwind) = 2 /\ Unwind[1] = "out_r" /\ Unwind[2] = "destroy"
    BY UnwindIs
  <2> HIDE DEF most
  <2>4. Len(most) = 11 /\ most[10] = "out_r" /\ most[11] = "destroy"
    BY <1>1, <2>1, <2>2, <2>3
  <2>5. QED
    BY <1>1, <2>1, <2>4
<1>5. Plan = most \o last
  BY <1>3
<1> HIDE DEF most
<1>6. /\ Plan \in Seq(CallNames) /\ Len(Plan) = 12
      /\ \A i \in 1..11 : Plan[i] = most[i]
      /\ Plan[12] = "sock"
  <2>1. /\ Plan \in Seq(CallNames)
        /\ Len(Plan) = Len(most) + Len(last)
        /\ \A i \in 1..Len(most) : Plan[i] = most[i]
        /\ \A i \in 1..Len(last) : Plan[Len(most) + i] = last[i]
    BY <1>2, <1>4, <1>5, Joined
  <2>2. Plan[11 + 1] = last[1]
    BY <1>2, <1>4, <2>1
  <2>3. QED
    BY <1>2, <1>4, <2>1, <2>2
<1>7. QED
  BY <1>1, <1>4, <1>6

LEMMA LowestNumber ==
  ASSUME NEW S, S \subseteq Nat, S # {}
  PROVE  Min(S) \in S
<1>1. PICK m \in S : \A y \in S : ~(<<y, m>> \in OpToRel(<, Nat))
  BY WFMin, NatLessThanWellFounded
<1>2. ASSUME NEW y \in S
      PROVE  m <= y
  <2>1. y \in Nat /\ m \in Nat
    OBVIOUS
  <2>2. ~(<<y, m>> \in OpToRel(<, Nat))
    BY <1>1
  <2>3. ~(y < m)
    BY <2>1, <2>2 DEF OpToRel
  <2>4. QED
    BY <2>1, <2>3
<1>3. QED
  BY <1>2 DEF Min

\* What is next tells how much is left.
LEMMA NextCall ==
  ASSUME NEW q, Suffix(q), q # <<>>
  PROVE  /\ Len(q) \in 1..12
         /\ q[1] = "accept" => Len(q) = 12
         /\ q[1] = "pipe_in" => Len(q) = 11
         /\ q[1] = "pipe_out" => Len(q) = 10
         /\ q[1] = "spawn" => Len(q) = 9
         /\ q[1] = "child_ends" => Len(q) = 8
         /\ q[1] = "write" => Len(q) = 7
         /\ q[1] = "in_w" => Len(q) = 6
         /\ q[1] = "read" => Len(q) = 5
         /\ q[1] = "wait" => Len(q) = 4
         /\ q[1] = "out_r" => Len(q) = 3
         /\ q[1] = "destroy" => Len(q) = 2
         /\ q[1] = "sock" => Len(q) = 1
<1>1. q \in Seq(CallNames) /\ Len(q) <= 12
  BY DEF Suffix
<1>2. Len(q) \in Nat /\ Len(q) # 0
  BY <1>1, EmptySeq
<1>3. Len(q) \in 1..12
  <2> DEFINE n == Len(q)
  <2>1. n \in Nat /\ n # 0 /\ n <= 12
    BY <1>1, <1>2
  <2> HIDE DEF n
  <2>2. n \in 1..12
    BY <2>1
  <2>3. QED
    BY <2>2 DEF n
<1>4. q[1] = Plan[(12 - Len(q)) + 1]
  BY <1>3 DEF Suffix
<1>5. \E i \in 1..12 : Len(q) = 13 - i /\ q[1] = Plan[i]
  <2> DEFINE n == Len(q)
           i == (12 - n) + 1
  <2>0. n \in 1..12
    BY <1>3
  <2> HIDE DEF n
  <2>1. i \in 1..12 /\ n = 13 - i
    BY <2>0
  <2>2. q[1] = Plan[i]
    BY <1>4 DEF n
  <2>3. Len(q) = 13 - i
    BY <2>1 DEF n
  <2> HIDE DEF i
  <2>4. QED
    BY <2>1, <2>2, <2>3
<1>6. PICK i \in 1..12 : Len(q) = 13 - i /\ q[1] = Plan[i]
  BY <1>5
<1>7. \/ i = 1 \/ i = 2 \/ i = 3 \/ i = 4 \/ i = 5 \/ i = 6
      \/ i = 7 \/ i = 8 \/ i = 9 \/ i = 10 \/ i = 11 \/ i = 12
  BY <1>6
<1>8. QED
  BY <1>3, <1>6, <1>7, PlanIs

LEMMA AfterCall ==
  ASSUME NEW q, Suffix(q), q # <<>>
  PROVE  Suffix(Tail(q)) /\ Len(Tail(q)) = Len(q) - 1
<1>1. q \in Seq(CallNames) /\ Len(q) \in 1..12
  BY NextCall DEF Suffix
<1>2. Tail(q) \in Seq(CallNames) /\ Len(Tail(q)) = Len(q) - 1
  BY <1>1
<1>3. ASSUME NEW i \in 1..Len(Tail(q))
      PROVE  Tail(q)[i] = Plan[(12 - Len(Tail(q))) + i]
  <2>1. i \in Int /\ i + 1 \in 1..Len(q)
    BY <1>1, <1>2
  <2>2. Tail(q)[i] = q[i + 1]
    BY <1>1, <1>2
  <2>3. q[i + 1] = Plan[(12 - Len(q)) + (i + 1)]
    BY <2>1 DEF Suffix
  <2>4. (12 - Len(q)) + (i + 1) = (12 - Len(Tail(q))) + i
    BY <1>1, <1>2, <2>1
  <2>5. QED
    BY <2>2, <2>3, <2>4
<1>4. QED
  BY <1>1, <1>2, <1>3 DEF Suffix

LEMMA AfterThrow ==
  /\ Suffix(Destructor \o <<"sock">>) /\ Len(Destructor \o <<"sock">>) = 2
  /\ Suffix(Unwind \o <<"sock">>) /\ Len(Unwind \o <<"sock">>) = 3
<1> DEFINE last == <<"sock">>
<1>1. last \in Seq(CallNames) /\ Len(last) = 1 /\ last[1] = "sock"
  BY ClosingCalls DEF CallNames
<1>2. Destructor \in Seq(CallNames) /\ Len(Destructor) = 1 /\ Destructor[1] = "destroy"
  BY ClosingCalls DEF CallNames, Destructor
<1> HIDE DEF last
<1>3. Suffix(Destructor \o last) /\ Len(Destructor \o last) = 2
  <2> DEFINE q == Destructor \o last
  <2>1. /\ q \in Seq(CallNames)
        /\ Len(q) = Len(Destructor) + Len(last)
        /\ \A i \in 1..Len(Destructor) : q[i] = Destructor[i]
        /\ \A i \in 1..Len(last) : q[Len(Destructor) + i] = last[i]
    BY <1>1, <1>2, Joined
  <2> HIDE DEF q
  <2>2. q \in Seq(CallNames) /\ Len(q) = 2 /\ q[1] = "destroy" /\ q[1 + 1] = "sock"
    BY <1>1, <1>2, <2>1
  <2>3. \A i \in 1..Len(q) : q[i] = Plan[(12 - Len(q)) + i]
    BY <2>2, PlanIs
  <2>4. Suffix(q) /\ Len(q) = 2
    BY <2>2, <2>3 DEF Suffix
  <2>5. QED
    BY <2>4 DEF q
<1>4. Suffix(Unwind \o last) /\ Len(Unwind \o last) = 3
  <2> DEFINE q == Unwind \o last
  <2>1. /\ q \in Seq(CallNames)
        /\ Len(q) = Len(Unwind) + Len(last)
        /\ \A i \in 1..Len(Unwind) : q[i] = Unwind[i]
        /\ \A i \in 1..Len(last) : q[Len(Unwind) + i] = last[i]
    BY <1>1, UnwindIs, Joined
  <2> HIDE DEF q
  <2>2. q \in Seq(CallNames) /\ Len(q) = 3 /\ q[1] = "out_r" /\ q[2] = "destroy" /\ q[2 + 1] = "sock"
    BY <1>1, UnwindIs, <2>1
  <2>3. \A i \in 1..Len(q) : q[i] = Plan[(12 - Len(q)) + i]
    BY <2>2, PlanIs
  <2>4. Suffix(q) /\ Len(q) = 3
    BY <2>2, <2>3 DEF Suffix
  <2>5. QED
    BY <2>4 DEF q
<1>5. QED
  BY <1>3, <1>4 DEF last

-----------------------------------------------------------------------------
(* What the steps do *)

Step(s) == ServerStep(s) \/ ReadFails(s) \/ ChildStep(s) \/ ChildIgnoresInput(s)

LEMMA NumberFacts ==
  /\ Numbers \subseteq Nat
  /\ Unset \notin Numbers
  /\ Free \notin Ends
<1>1. Numbers \subseteq Nat /\ Unset \notin Numbers
  BY ScriptsAssumption DEF Unset
<1>2. ASSUME Free \in Ends
      PROVE  FALSE
  <2>1. PICK k \in Kinds, s \in Sessions : Free = <<k, s>>
    BY <1>2 DEF Ends
  <2>2. Len(<<k, s>>) = 2 /\ Len(<<"free">>) = 1
    OBVIOUS
  <2>3. QED
    BY <2>1, <2>2 DEF Free
<1>3. QED
  BY <1>1, <1>2

LEMMA EndFacts ==
  ASSUME NEW k \in Kinds, NEW s \in Sessions
  PROVE  /\ <<k, s>> \in Ends /\ <<k, s>> # Free
         /\ <<k, s>>[1] = k /\ <<k, s>>[2] = s
BY NumberFacts DEF Ends

\* What allocating the kinds ks for s does.
Opens(s, ks) ==
  /\ fd' \in [Numbers -> Ends \cup {Free}]
  /\ num' \in [Sessions -> [Kinds -> Numbers \cup {Unset}]]
  /\ \A t \in Sessions, k \in Kinds : t # s \/ k \notin ks => num'[t][k] = num[t][k]
  /\ \A k \in ks : /\ num'[s][k] \in Numbers
                   /\ fd[num'[s][k]] = Free /\ fd'[num'[s][k]] = <<k, s>>
  /\ \A n \in Numbers : \/ fd'[n] = fd[n]
                        \/ fd[n] = Free /\ \E k \in ks : fd'[n] = <<k, s>> /\ num'[s][k] = n

LEMMA OpensOne ==
  ASSUME TypeOK, NEW s \in Sessions, NEW k \in Kinds, FreeNumbers # {}, Allocate(s, <<k>>)
  PROVE  Opens(s, {k})
<1> DEFINE n == Min(FreeNumbers)
<1>1. FreeNumbers \subseteq Nat
  BY NumberFacts DEF FreeNumbers
<1>2. n \in FreeNumbers
  BY <1>1, LowestNumber
<1>3. fd' = [fd EXCEPT ![n] = <<k, s>>] /\ num' = [num EXCEPT ![s][k] = n]
  <2>1. Len(<<k>>) = 1 /\ <<k>>[1] = k
    OBVIOUS
  <2>2. QED
    BY <2>1 DEF Allocate
<1> HIDE DEF n
<1>4. n \in Numbers /\ fd[n] = Free
  BY <1>2 DEF FreeNumbers
<1>5. fd' \in [Numbers -> Ends \cup {Free}]
  BY <1>3, <1>4, EndFacts DEF TypeOK
<1>6. num' \in [Sessions -> [Kinds -> Numbers \cup {Unset}]]
  BY <1>3, <1>4 DEF TypeOK
<1>7. /\ num'[s][k] = n
      /\ \A t \in Sessions, j \in Kinds : t # s \/ j # k => num'[t][j] = num[t][j]
  BY <1>3 DEF TypeOK
<1>8. fd'[n] = <<k, s>> /\ \A m \in Numbers : m # n => fd'[m] = fd[m]
  BY <1>3, <1>4 DEF TypeOK
<1>9. QED
  BY <1>4, <1>5, <1>6, <1>7, <1>8 DEF Opens

LEMMA OpensTwo ==
  ASSUME TypeOK, NEW s \in Sessions, NEW j \in Kinds, NEW k \in Kinds, j # k,
         Cardinality(FreeNumbers) >= 2, Allocate(s, <<j, k>>)
  PROVE  Opens(s, {j, k})
<1> DEFINE n == Min(FreeNumbers)
           m == Min(FreeNumbers \ {n})
<1>1. FreeNumbers \subseteq Nat /\ IsFiniteSet(FreeNumbers)
  BY NumberFacts, ScriptsAssumption, FS_Subset DEF FreeNumbers
<1>2. n \in FreeNumbers
  <2>1. FreeNumbers # {}
    <3>1. Cardinality({}) = 0
      BY FS_EmptySet
    <3>2. QED
      BY <3>1
  <2>2. QED
    BY <1>1, <2>1, LowestNumber
<1>3. m \in FreeNumbers \ {n}
  <2>1. Cardinality(FreeNumbers \ {n}) = Cardinality(FreeNumbers) - 1
    BY <1>1, <1>2, FS_RemoveElement
  <2>2. Cardinality(FreeNumbers) \in Nat
    BY <1>1, FS_CardinalityType
  <2>3. FreeNumbers \ {n} # {}
    BY <2>1, <2>2, FS_EmptySet
  <2>4. QED
    BY <1>1, <2>3, LowestNumber
<1>4. /\ fd' = [fd EXCEPT ![n] = <<j, s>>, ![m] = <<k, s>>]
      /\ num' = [num EXCEPT ![s][j] = n, ![s][k] = m]
  <2>1. Len(<<j, k>>) = 2 /\ <<j, k>>[1] = j /\ <<j, k>>[2] = k
    OBVIOUS
  <2>2. QED
    BY <2>1 DEF Allocate
<1> HIDE DEF n, m
<1>5. n \in Numbers /\ m \in Numbers /\ n # m /\ fd[n] = Free /\ fd[m] = Free
  BY <1>2, <1>3 DEF FreeNumbers
<1>6. fd' \in [Numbers -> Ends \cup {Free}]
  BY <1>4, <1>5, EndFacts DEF TypeOK
<1>7. num' \in [Sessions -> [Kinds -> Numbers \cup {Unset}]]
  BY <1>4, <1>5 DEF TypeOK
<1>8. /\ num'[s][j] = n /\ num'[s][k] = m
      /\ \A t \in Sessions, i \in Kinds : t # s \/ i \notin {j, k} => num'[t][i] = num[t][i]
  BY <1>4 DEF TypeOK
<1>9. /\ fd'[n] = <<j, s>> /\ fd'[m] = <<k, s>>
      /\ \A i \in Numbers : i \notin {n, m} => fd'[i] = fd[i]
  BY <1>4, <1>5 DEF TypeOK
<1>10. QED
  BY <1>5, <1>6, <1>7, <1>8, <1>9 DEF Opens

LEMMA CallPlace ==
  ASSUME PlanInv, NEW s \in Sessions
  PROVE  /\ Left(s) \in 0..12
         /\ Calls(s, "accept") => Left(s) = 12
         /\ Calls(s, "pipe_in") => Left(s) = 11
         /\ Calls(s, "pipe_out") => Left(s) = 10
         /\ Calls(s, "spawn") => Left(s) = 9
         /\ Calls(s, "write") => Left(s) = 7
         /\ Calls(s, "read") => Left(s) = 5
         /\ Calls(s, "wait") => Left(s) = 4
<1> DEFINE q == todo[s]
<1>1. Suffix(q)
  BY DEF PlanInv, Placed
<1>2. Len(q) \in Nat /\ Len(q) <= 12
  BY <1>1 DEF Suffix
<1>3. Left(s) \in 0..12
  <2> DEFINE n == Len(q)
  <2>1. n \in Nat /\ n <= 12
    BY <1>2
  <2> HIDE DEF n
  <2>2. n \in 0..12
    BY <2>1
  <2>3. QED
    BY <2>2 DEF n, Left
<1>4. ASSUME NEW c, Calls(s, c)
      PROVE  q # <<>> /\ q[1] = c
  BY <1>4 DEF Calls
<1> HIDE DEF q
<1>5. Left(s) = Len(q)
  BY DEF Left, q
<1>6. QED
  BY <1>1, <1>3, <1>4, <1>5, NextCall

\* Session s, and no other, goes to where n calls are left.
GoesTo(s, n) ==
  /\ DOMAIN todo' = Sessions
  /\ \A t \in Sessions : t # s => todo'[t] = todo[t]
  /\ Suffix(todo'[s]) /\ Len(todo'[s]) = n

LEMMA Returned ==
  ASSUME PlanInv, NEW s \in Sessions, todo[s] # <<>>, Return(s)
  PROVE  GoesTo(s, Left(s) - 1)
<1>1. DOMAIN todo = Sessions /\ Suffix(todo[s])
  BY DEF PlanInv, Placed
<1>2. /\ DOMAIN todo' = Sessions
      /\ \A t \in Sessions : t # s => todo'[t] = todo[t]
      /\ todo'[s] = Tail(todo[s])
  BY <1>1 DEF Return
<1>3. QED
  BY <1>1, <1>2, AfterCall DEF Left, GoesTo

LEMMA Thrown ==
  ASSUME PlanInv, NEW s \in Sessions, NEW unwinding, Throw(s, unwinding)
  PROVE  /\ unwinding = Destructor => GoesTo(s, 2)
         /\ unwinding = Unwind => GoesTo(s, 3)
<1>1. /\ DOMAIN todo' = Sessions
      /\ \A t \in Sessions : t # s => todo'[t] = todo[t]
      /\ todo'[s] = unwinding \o <<"sock">>
  BY DEF Throw, PlanInv
<1>2. QED
  BY <1>1, AfterThrow DEF GoesTo

\* What a session has is not touched by a step of another.
Leaves(t) == /\ todo'[t] = todo[t] /\ num'[t] = num[t]
             /\ closed'[t] = closed[t] /\ child'[t] = child[t]

LEMMA PlacedKept ==
  ASSUME PlanInv, NEW s \in Sessions,
         \A t \in Sessions : t # s => Leaves(t),
         DOMAIN todo' = Sessions, Placed(s)'
  PROVE  PlanInv'
<1>1. ASSUME NEW t \in Sessions, t # s
      PROVE  Placed(t)'
  <2>1. /\ todo'[t] = todo[t] /\ num'[t] = num[t]
        /\ closed'[t] = closed[t] /\ child'[t] = child[t]
    BY <1>1 DEF Leaves
  <2>2. Placed(t)
    BY DEF PlanInv
  <2>3. QED
    BY <2>1, <2>2 DEF Placed, Opened, ClosedSoFar, Left
<1>2. QED
  BY <1>1 DEF PlanInv

\* Nothing but the plan of s moves.
LEMMA PlacedMoved ==
  ASSUME TypeOK, PlanInv, NEW s \in Sessions, NEW n \in 0..12, GoesTo(s, n),
         UNCHANGED <<num, closed>>,
         \/ n = 2 /\ Left(s) \in 3..11
         \/ n = 3 /\ Left(s) = 5
         \/ n \in {3, 4, 6, 8} /\ Left(s) = n + 1,
         \A t \in Sessions : t # s => child'[t] = child[t]
  PROVE  PlanInv'
<1>1. Placed(s) /\ Left(s) \in 0..12
  BY CallPlace DEF PlanInv
<1>2. Suffix(todo'[s]) /\ Left(s)' = n
  BY DEF GoesTo, Left
<1>3. num'[s] = num[s] /\ closed'[s] = closed[s]
  OBVIOUS
<1>4. Opened(s)'
  <2>1. Opened(s)
    BY <1>1 DEF Placed
  <2>2. QED
    BY <1>1, <1>2, <1>3, <2>1 DEF Opened
<1>5. ClosedSoFar(s)'
  <2>1. ClosedSoFar(s)
    BY <1>1 DEF Placed
  <2>2. QED
    BY <1>1, <1>2, <1>3, <2>1 DEF ClosedSoFar
<1>6. Placed(s)'
  BY <1>2, <1>4, <1>5 DEF Placed
<1>7. \A t \in Sessions : t # s => Leaves(t)
  BY DEF GoesTo, Leaves
<1>8. QED
  BY <1>6, <1>7, PlacedKept DEF GoesTo

LEMMA PlanStep ==
  ASSUME TypeOK, PlanInv, NEW s \in Sessions, Step(s)
  PROVE  PlanInv'
<1>0. Left(s) \in 0..12 /\ Placed(s)
  BY CallPlace DEF PlanInv
<1>1. CASE Accept(s)
  <2>1. Left(s) = 12 /\ GoesTo(s, 11)
    <3>1. Calls(s, "accept") /\ Return(s)
      BY <1>1 DEF Accept
    <3>2. Left(s) = 12 /\ GoesTo(s, Left(s) - 1)
      BY <3>1, CallPlace, Returned DEF Calls
    <3>3. QED
      BY <3>2
  <2>2. Opens(s, {"sock"}) /\ closed' = closed /\ child' = child
    BY <1>1, OpensOne DEF Accept, processes, Kinds
  <2>3. Left(s)' = 11 /\ Suffix(todo'[s])
    BY <2>1 DEF GoesTo, Left
  <2>4. Opened(s)'
    <3>1. num'[s]["sock"] # Unset /\ \A k \in PipeKinds : num'[s][k] = num[s][k]
      BY <2>2, NumberFacts DEF Opens, Kinds, PipeKinds
    <3>2. QED
      BY <1>0, <2>1, <2>3, <3>1 DEF Placed, Opened, PipeKinds
  <2>5. ClosedSoFar(s)' /\ child'[s] = "none"
    BY <1>0, <2>1, <2>2, <2>3 DEF Placed, ClosedSoFar
  <2>6. \A t \in Sessions : t # s => Leaves(t)
    <3>1. ASSUME NEW t \in Sessions, t # s
          PROVE  num'[t] = num[t]
      BY <2>2, <3>1 DEF Opens, TypeOK
    <3>2. QED
      BY <2>1, <2>2, <3>1 DEF Leaves, GoesTo
  <2>7. QED
    BY <2>1, <2>3, <2>4, <2>5, <2>6, PlacedKept DEF Placed, GoesTo
<1>2. ASSUME NEW call, NEW j \in PipeKinds, NEW k \in PipeKinds, j # k,
             Pipe(s, call, <<j, k>>),
             \/ call = "pipe_in" /\ {j, k} = {"in_r", "in_w"}
             \/ call = "pipe_out" /\ {j, k} = {"out_r", "out_w"}
      PROVE  PlanInv'
  <2>1. /\ call = "pipe_in" => Left(s) = 11
        /\ call = "pipe_out" => Left(s) = 10
        /\ todo[s] # <<>> /\ closed' = closed /\ child' = child
    BY <1>2, CallPlace DEF Pipe, Calls, processes
  <2>2. CASE Throw(s, Destructor) /\ UNCHANGED <<fd, num>>
    BY <1>2, <2>1, <2>2, Thrown, PlacedMoved
  <2>3. CASE Cardinality(FreeNumbers) >= 2 /\ Allocate(s, <<j, k>>) /\ Return(s)
    <3>1. Opens(s, {j, k})
      BY <1>2, <2>3, OpensTwo DEF Kinds
    <3>2. GoesTo(s, Left(s) - 1)
      BY <2>1, <2>3, Returned
    <3>3. Left(s)' = Left(s) - 1 /\ Suffix(todo'[s])
      BY <3>2 DEF GoesTo, Left
    <3>4. /\ \A i \in {j, k} : num'[s][i] # Unset
          /\ \A i \in Kinds \ {j, k} : num'[s][i] = num[s][i]
      BY <3>1, NumberFacts DEF Opens
    <3>5. Opened(s)'
      <4>1. CASE call = "pipe_in"
        <5>1. {j, k} = {"in_r", "in_w"} /\ Left(s) = 11 /\ Left(s)' = 10
          BY <1>2, <2>1, <3>3, <4>1
        <5>2. /\ num'[s]["in_r"] # Unset /\ num'[s]["in_w"] # Unset
              /\ \A i \in {"out_r", "out_w", "sock"} : num'[s][i] = num[s][i]
          BY <3>4, <5>1 DEF Kinds, PipeKinds
        <5>3. QED
          BY <1>0, <5>1, <5>2 DEF Placed, Opened
      <4>2. CASE call = "pipe_out"
        <5>1. {j, k} = {"out_r", "out_w"} /\ Left(s) = 10 /\ Left(s)' = 9
          BY <1>2, <2>1, <3>3, <4>2
        <5>2. /\ num'[s]["out_r"] # Unset /\ num'[s]["out_w"] # Unset
              /\ \A i \in {"in_r", "in_w", "sock"} : num'[s][i] = num[s][i]
          BY <3>4, <5>1 DEF Kinds, PipeKinds
        <5>3. QED
          BY <1>0, <5>1, <5>2 DEF Placed, Opened
      <4>3. QED
        BY <1>2, <4>1, <4>2
    <3>6. ClosedSoFar(s)' /\ child'[s] = "none"
      BY <1>0, <1>2, <2>1, <3>3 DEF Placed, ClosedSoFar
    <3>7. \A t \in Sessions : t # s => Leaves(t)
      <4>1. ASSUME NEW t \in Sessions, t # s
            PROVE  num'[t] = num[t]
        BY <3>1, <4>1 DEF Opens, TypeOK
      <4>2. QED
        BY <2>1, <3>2, <4>1 DEF Leaves, GoesTo
    <3>8. QED
      BY <3>2, <3>3, <3>5, <3>6, <3>7, PlacedKept DEF Placed, GoesTo
  <2>4. QED
    BY <1>2, <2>2, <2>3 DEF Pipe
<1>3. CASE Spawn(s)
  <2>1. Left(s) = 9 /\ todo[s] # <<>> /\ UNCHANGED <<num, closed>>
    BY <1>3, CallPlace DEF Spawn, Calls
  <2>2. GoesTo(s, 8) \/ GoesTo(s, 2)
    <3>1. Return(s) \/ Throw(s, Destructor)
      BY <1>3 DEF Spawn
    <3>2. CASE Return(s)
      <4>1. GoesTo(s, Left(s) - 1)
        BY <2>1, <3>2, Returned
      <4>2. QED
        BY <2>1, <4>1
    <3>3. QED
      BY <3>1, <3>2, Thrown
  <2>3. \A t \in Sessions : t # s => child'[t] = child[t]
    BY <1>3 DEF Spawn, processes, TypeOK
  <2>4. QED
    BY <2>1, <2>2, <2>3, PlacedMoved
<1>4. CASE Close(s)
  <2>1. todo[s] # <<>> /\ todo[s][1] \in DOMAIN Closes /\ num' = num /\ child' = child
    BY <1>4 DEF Close, processes
  <2>2. GoesTo(s, Left(s) - 1)
    BY <1>4, <2>1, Returned DEF Close
  <2>3. Left(s)' = Left(s) - 1 /\ Suffix(todo'[s])
    BY <2>2 DEF GoesTo, Left
  <2>4. closed'[s] = closed[s] \cup Closes[todo[s][1]]
    BY <1>4 DEF Close, TypeOK
  <2>5. \/ Left(s) = 8 /\ Closes[todo[s][1]] = {"in_r", "out_w"}
        \/ Left(s) = 6 /\ Closes[todo[s][1]] = {"in_w"}
        \/ Left(s) = 3 /\ Closes[todo[s][1]] = {"out_r"}
        \/ Left(s) = 2 /\ Closes[todo[s][1]] = PipeKinds
        \/ Left(s) = 1 /\ Closes[todo[s][1]] = {"sock"}
    BY <1>0, <2>1, NextCall, ClosingCalls DEF Closes, Placed, Left
  <2>6. Opened(s)'
    BY <1>0, <2>1, <2>3, <2>5 DEF Placed, Opened
  <2>7. ClosedSoFar(s)'
    <3>1. ClosedSoFar(s) /\ closed[s] \subseteq Kinds
      BY <1>0 DEF Placed, TypeOK
    <3>2. QED
      BY <1>0, <2>3, <2>4, <2>5, <3>1 DEF ClosedSoFar, PipeKinds, Kinds
  <2>8. \A t \in Sessions : t # s => Leaves(t)
    <3>1. \A t \in Sessions : t # s => closed'[t] = closed[t]
      BY <1>4 DEF Close, TypeOK
    <3>2. QED
      BY <2>1, <2>2, <3>1 DEF Leaves, GoesTo
  <2>9. Placed(s)'
    BY <1>0, <2>3, <2>5, <2>6, <2>7 DEF Placed
  <2>10. QED
    BY <2>2, <2>8, <2>9, PlacedKept DEF GoesTo
<1>5. CASE WriteArgs(s)
  <2>1. Left(s) = 7 /\ todo[s] # <<>> /\ UNCHANGED <<num, closed, child>>
    BY <1>5, CallPlace DEF WriteArgs, Calls, processes
  <2>2. Return(s) \/ Throw(s, Destructor) \/ todo' = todo
    BY <1>5 DEF WriteArgs, Delivers, Fails, SigPipe
  <2>3. CASE Return(s)
    <3>1. GoesTo(s, Left(s) - 1)
      BY <2>1, <2>3, Returned
    <3>2. GoesTo(s, 6)
      BY <2>1, <3>1
    <3>3. QED
      BY <2>1, <3>2, PlacedMoved
  <2>4. CASE Throw(s, Destructor)
    <3>1. GoesTo(s, 2)
      BY <2>4, Thrown
    <3>2. QED
      BY <2>1, <3>1, PlacedMoved
  <2>5. CASE todo' = todo
    BY <2>1, <2>5 DEF PlanInv, Placed, Opened, ClosedSoFar, Left
  <2>6. QED
    BY <2>2, <2>3, <2>4, <2>5
<1>6. CASE Read(s) \/ ReadFails(s)
  <2>1. Left(s) = 5 /\ todo[s] # <<>> /\ UNCHANGED <<num, closed, child>>
    BY <1>6, CallPlace DEF Read, ReadFails, Calls, processes
  <2>2. Return(s) \/ Throw(s, Destructor) \/ Throw(s, Unwind)
    BY <1>6 DEF Read, ReadFails
  <2>3. GoesTo(s, 4) \/ GoesTo(s, 2) \/ GoesTo(s, 3)
    <3>1. CASE Return(s)
      <4>1. GoesTo(s, Left(s) - 1)
        BY <2>1, <3>1, Returned
      <4>2. QED
        BY <2>1, <4>1
    <3>2. QED
      BY <2>2, <3>1, Thrown
  <2>4. QED
    BY <2>1, <2>3, PlacedMoved
<1>7. CASE Wait(s)
  <2>1. Left(s) = 4 /\ todo[s] # <<>> /\ UNCHANGED <<num, closed>>
    BY <1>7, CallPlace DEF Wait, Calls
  <2>2. GoesTo(s, 3)
    <3>1. GoesTo(s, Left(s) - 1)
      BY <1>7, <2>1, Returned DEF Wait
    <3>2. QED
      BY <2>1, <3>1
  <2>3. \A t \in Sessions : t # s => child'[t] = child[t]
    BY <1>7 DEF Wait, TypeOK
  <2>4. QED
    BY <2>1, <2>2, <2>3, PlacedMoved
<1>8. CASE ChildStep(s) \/ ChildIgnoresInput(s)
  <2>1. UNCHANGED <<todo, num, closed>>
    BY <1>8 DEF ChildStep, ChildReads, ChildSeesEof, ChildAnswers, ChildIgnoresInput, Exit, server
  <2>2. \A t \in Sessions : t # s => child'[t] = child[t]
    BY <1>8 DEF ChildStep, ChildReads, ChildSeesEof, ChildAnswers, ChildIgnoresInput, Exit, TypeOK
  <2>3. child[s] # "none"
    BY <1>8 DEF ChildStep, ChildReads, ChildSeesEof, ChildAnswers, ChildIgnoresInput
  <2>4. Placed(s)'
    BY <1>0, <2>1, <2>3 DEF Placed, Opened, ClosedSoFar, Left
  <2>5. QED
    BY <2>1, <2>2, <2>4, PlacedKept DEF PlanInv, Leaves
<1>9. PipeIn(s) => PlanInv'
  <2>1. "in_r" \in PipeKinds /\ "in_w" \in PipeKinds /\ "in_r" # "in_w"
    BY DEF PipeKinds
  <2>2. QED
    BY <1>2, <2>1 DEF PipeIn
<1>10. PipeOut(s) => PlanInv'
  <2>1. "out_r" \in PipeKinds /\ "out_w" \in PipeKinds /\ "out_r" # "out_w"
    BY DEF PipeKinds
  <2>2. QED
    BY <1>2, <2>1 DEF PipeOut
<1>11. QED
  BY <1>1, <1>3, <1>4, <1>5, <1>6, <1>7, <1>8, <1>9, <1>10 DEF Step, ServerStep

-----------------------------------------------------------------------------
(* Types *)

LEMMA AtTyped ==
  ASSUME TypeOK, NEW s \in Sessions, NEW k \in Kinds
  PROVE  At(s, k) \in Ends \cup {Free}
BY DEF At, TypeOK

LEMMA PipeEnd ==
  ASSUME NEW e \in Ends \cup {Free}, e[1] \in {"in_w", "out_w"}
  PROVE  /\ e \in {"in_w", "out_w"} \X Sessions
         /\ Reader(e) \in {"in_r", "out_r"} \X Sessions
<1>1. e # Free
  <2>1. <<"free">>[1] = "free"
    OBVIOUS
  <2>2. QED
    BY <2>1 DEF Free
<1>2. PICK k \in Kinds, s \in Sessions : e = <<k, s>>
  BY <1>1 DEF Ends
<1>3. e[1] = k /\ e[2] = s
  BY <1>2
<1>4. QED
  BY <1>2, <1>3 DEF Reader

LEMMA ReleaseTyped ==
  ASSUME TypeOK, NEW ns, Release(ns)
  PROVE  fd' \in [Numbers -> Ends \cup {Free}]
BY DEF Release, TypeOK

\* The parts of TypeOK a server's call may change.
Descriptors == /\ fd \in [Numbers -> Ends \cup {Free}]
               /\ num \in [Sessions -> [Kinds -> Numbers \cup {Unset}]]
               /\ closed \in [Sessions -> SUBSET Kinds]
               /\ killed \in BOOLEAN

Scripted == /\ input \in [Sessions -> {"unwritten", "empty", "written", "read"}]
            /\ child \in [Sessions -> {"none", "reading", "fed", "exited", "reaped"}]
            /\ stdin \in [Sessions -> Ends \cup {Free}]
            /\ holds \in [Sessions -> SUBSET Ends]
            /\ \A s \in Sessions : child[s] \in {"none", "exited", "reaped"} => holds[s] = {}
            /\ full \subseteq {"in_r", "out_r"} \X Sessions

LEMMA TypeParts ==
  PlanInv => (TypeOK <=> Descriptors /\ Scripted)
<1>1. ASSUME PlanInv, NEW s \in Sessions
      PROVE  todo[s] \in Seq(DOMAIN Closes \cup {"accept", "pipe_in", "pipe_out", "spawn",
                                                 "write", "read", "wait"})
  BY <1>1 DEF PlanInv, Placed, Suffix, CallNames
<1>2. QED
  BY <1>1 DEF TypeOK, Descriptors, Scripted

LEMMA PartsStep ==
  ASSUME TypeOK, PlanInv, NEW s \in Sessions, Step(s)
  PROVE  Descriptors' /\ Scripted'
<1>0. Descriptors /\ Scripted
  BY TypeParts
<1>1. CASE Accept(s)
  <2>1. Opens(s, {"sock"}) /\ closed' = closed /\ killed' = killed
    BY <1>1, OpensOne DEF Accept, Kinds
  <2>2. Descriptors'
    BY <1>0, <2>1 DEF Opens, Descriptors
  <2>3. Scripted'
    BY <1>0, <1>1 DEF Accept, processes, Scripted
  <2>4. QED
    BY <2>2, <2>3
<1>2. ASSUME NEW call, NEW j \in Kinds, NEW k \in Kinds, j # k, Pipe(s, call, <<j, k>>)
      PROVE  Descriptors' /\ Scripted'
  <2>1. closed' = closed /\ killed' = killed
    BY <1>2 DEF Pipe
  <2>2. (fd' = fd /\ num' = num) \/ Opens(s, {j, k})
    BY <1>2, OpensTwo DEF Pipe
  <2>3. Descriptors'
    <3>1. CASE fd' = fd /\ num' = num
      BY <1>0, <2>1, <3>1 DEF Descriptors
    <3>2. CASE Opens(s, {j, k})
      BY <1>0, <2>1, <3>2 DEF Descriptors, Opens
    <3>3. QED
      BY <2>2, <3>1, <3>2
  <2>4. Scripted'
    BY <1>0, <1>2 DEF Pipe, processes, Scripted
  <2>5. QED
    BY <2>3, <2>4
<1>3. CASE Spawn(s)
  <2>1. Descriptors'
    BY <1>0, <1>3 DEF Spawn, Descriptors
  <2>2. CASE UNCHANGED processes
    BY <1>0, <1>3, <2>1, <2>2 DEF Spawn, processes, Scripted
  <2>3. CASE /\ child' = [child EXCEPT ![s] = "reading"]
             /\ stdin' = [stdin EXCEPT ![s] = At(s, "in_r")]
             /\ holds' = [holds EXCEPT ![s] = Inherited(s)]
    <3>1. At(s, "in_r") \in Ends \cup {Free}
      BY AtTyped DEF Kinds, PipeKinds
    <3>2. Inherited(s) \subseteq Ends
      BY <1>0 DEF Inherited, Descriptors
    <3>3. /\ child' \in [Sessions -> {"none", "reading", "fed", "exited", "reaped"}]
          /\ stdin' \in [Sessions -> Ends \cup {Free}]
          /\ holds' \in [Sessions -> SUBSET Ends]
      BY <1>0, <2>3, <3>1, <3>2 DEF Scripted
    <3>4. \A t \in Sessions : child'[t] \in {"none", "exited", "reaped"} => holds'[t] = {}
      BY <1>0, <2>3 DEF Scripted
    <3>5. input' = input /\ full' = full
      BY <1>3 DEF Spawn
    <3>6. Scripted'
      BY <1>0, <3>3, <3>4, <3>5 DEF Scripted
    <3>7. QED
      BY <2>1, <3>6
  <2>4. QED
    BY <1>3, <2>2, <2>3 DEF Spawn
<1>4. CASE Close(s)
  <2>1. fd' \in [Numbers -> Ends \cup {Free}]
    BY <1>4, ReleaseTyped DEF Close
  <2>2. closed' \in [Sessions -> SUBSET Kinds]
    <3>1. Closes[todo[s][1]] \subseteq Kinds
      BY <1>4, ClosingCalls DEF Close, Closes, Kinds, PipeKinds
    <3>2. closed' = [closed EXCEPT ![s] = @ \cup Closes[todo[s][1]]]
      BY <1>4 DEF Close
    <3>3. QED
      BY <1>0, <3>1, <3>2 DEF Descriptors
  <2>3. Descriptors'
    BY <1>0, <1>4, <2>1, <2>2 DEF Close, Descriptors
  <2>4. Scripted'
    BY <1>0, <1>4 DEF Close, processes, Scripted
  <2>5. QED
    BY <2>3, <2>4
<1>5. CASE WriteArgs(s)
  <2>1. UNCHANGED <<num, closed, child, stdin, holds>>
    BY <1>5 DEF WriteArgs, processes
  <2>2. /\ fd' \in [Numbers -> Ends \cup {Free}]
        /\ killed' \in BOOLEAN
    BY <1>0, <1>5, ReleaseTyped DEF WriteArgs, Delivers, Fails, SigPipe, Descriptors
  <2>3. Descriptors'
    BY <1>0, <2>1, <2>2 DEF Descriptors
  <2>4. /\ input' \in [Sessions -> {"unwritten", "empty", "written", "read"}]
        /\ full' \subseteq {"in_r", "out_r"} \X Sessions
    <3> DEFINE e == At(s, "in_w")
    <3>1. e \in Ends \cup {Free}
      BY AtTyped DEF Kinds, PipeKinds
    <3> HIDE DEF e
    <3>2. ASSUME NEW what \in {"empty", "written"}, NEW to, Delivers(s, what, to),
                 to \subseteq {"in_r", "out_r"} \X Sessions
          PROVE  /\ input' \in [Sessions -> {"unwritten", "empty", "written", "read"}]
                 /\ full' \subseteq {"in_r", "out_r"} \X Sessions
      BY <1>0, <3>2 DEF Delivers, Scripted
    <3>3. CASE Delivers(s, "empty", {})
      BY <3>2, <3>3
    <3>4. CASE e[1] \in {"in_w", "out_w"} /\ Delivers(s, "written", {Reader(e)})
      <4>1. {Reader(e)} \subseteq {"in_r", "out_r"} \X Sessions
        BY <3>1, <3>4, PipeEnd
      <4>2. QED
        BY <3>2, <3>4, <4>1
    <3>5. CASE Delivers(s, "written", {})
      BY <3>2, <3>5
    <3>6. CASE input' = input /\ full' = full
      BY <1>0, <3>6 DEF Scripted
    <3>7. QED
      BY <1>5, <3>3, <3>4, <3>5, <3>6 DEF WriteArgs, e, Fails, SigPipe
  <2>5. Scripted'
    BY <1>0, <2>1, <2>4 DEF Scripted
  <2>6. QED
    BY <2>3, <2>5
<1>6. CASE Read(s) \/ ReadFails(s)
  BY <1>0, <1>6 DEF Read, ReadFails, processes, Descriptors, Scripted
<1>7. CASE Wait(s)
  <2>1. Descriptors'
    BY <1>0, <1>7 DEF Wait, Descriptors
  <2>2. child' = [child EXCEPT ![s] = "reaped"] /\ child[s] = "exited"
    BY <1>7 DEF Wait, WaitReturns
  <2>3. Scripted'
    BY <1>0, <1>7, <2>2 DEF Wait, Scripted
  <2>4. QED
    BY <2>1, <2>3
<1>8. CASE ChildStep(s) \/ ChildIgnoresInput(s)
  <2>1. UNCHANGED server
    BY <1>8 DEF ChildStep, ChildReads, ChildSeesEof, ChildAnswers, ChildIgnoresInput, Exit
  <2>2. Descriptors'
    BY <1>0, <2>1 DEF Descriptors, server
  <2>3. CASE ChildReads(s)
    <3>1. UNCHANGED <<child, stdin, holds>> /\ full' \subseteq full
      BY <2>3 DEF ChildReads
    <3>2. input' \in [Sessions -> {"unwritten", "empty", "written", "read"}]
      BY <1>0, <2>3 DEF ChildReads, Scripted
    <3>3. QED
      BY <1>0, <2>2, <3>1, <3>2 DEF Scripted
  <2>4. CASE ChildSeesEof(s)
    <3>1. Scripted'
      BY <1>0, <2>4 DEF ChildSeesEof, Scripted
    <3>2. QED
      BY <2>2, <3>1
  <2>5. CASE ChildAnswers(s) \/ ChildIgnoresInput(s)
    <3>1. Exit(s)
      BY <2>5 DEF ChildAnswers, ChildIgnoresInput
    <3>2. Scripted'
      BY <1>0, <3>1 DEF Exit, Scripted
    <3>3. QED
      BY <2>2, <3>2
  <2>6. QED
    BY <1>8, <2>3, <2>4, <2>5 DEF ChildStep
<1>9. CASE PipeIn(s) \/ PipeOut(s)
  BY <1>2, <1>9 DEF PipeIn, PipeOut, Kinds, PipeKinds
<1>10. QED
  BY <1>1, <1>3, <1>4, <1>5, <1>6, <1>7, <1>8, <1>9 DEF Step, ServerStep

LEMMA TypeStep ==
  ASSUME TypeOK, PlanInv, NEW s \in Sessions, Step(s)
  PROVE  TypeOK' /\ PlanInv'
<1>1. PlanInv' /\ Descriptors' /\ Scripted'
  BY PlanStep, PartsStep
<1>2. (PlanInv => (TypeOK <=> Descriptors /\ Scripted))'
  BY TypeParts, PTL
<1>3. QED
  BY <1>1, <1>2

-----------------------------------------------------------------------------
(* The descriptor table *)

\* Numbers are set once, and before anything is closed.
LEMMA NumStep ==
  ASSUME TypeOK, PlanInv, NEW s \in Sessions, Step(s)
  PROVE  \/ num' = num
         \/ \E ks \in SUBSET Kinds :
              /\ Opens(s, ks)
              /\ \A k \in ks : num[s][k] = Unset
              /\ closed[s] = {} /\ Left(s) >= 10
              /\ UNCHANGED <<closed, processes, input, full, killed>>
<1>0. Left(s) \in 0..12 /\ Placed(s)
  BY CallPlace DEF PlanInv
<1>1. CASE Accept(s)
  <2>1. Left(s) = 12
    BY <1>1, CallPlace DEF Accept
  <2>2. num[s]["sock"] = Unset /\ closed[s] = {}
    BY <1>0, <2>1 DEF Placed, Opened, ClosedSoFar
  <2>3. Opens(s, {"sock"}) /\ {"sock"} \in SUBSET Kinds
    BY <1>1, OpensOne DEF Accept, Kinds
  <2>4. UNCHANGED <<closed, processes, input, full, killed>>
    BY <1>1 DEF Accept
  <2>5. QED
    BY <2>1, <2>2, <2>3, <2>4
<1>2. ASSUME NEW call, NEW j \in Kinds, NEW k \in Kinds, j # k, Pipe(s, call, <<j, k>>),
             num[s][j] = Unset, num[s][k] = Unset, Left(s) \in {10, 11}
      PROVE  \/ num' = num
             \/ \E ks \in SUBSET Kinds :
                  /\ Opens(s, ks)
                  /\ \A i \in ks : num[s][i] = Unset
                  /\ closed[s] = {} /\ Left(s) >= 10
                  /\ UNCHANGED <<closed, processes, input, full, killed>>
  <2>1. num' = num \/ Opens(s, {j, k})
    BY <1>2, OpensTwo DEF Pipe
  <2>2. UNCHANGED <<closed, processes, input, full, killed>>
    BY <1>2 DEF Pipe
  <2>3. closed[s] = {}
    BY <1>0, <1>2 DEF Placed, ClosedSoFar
  <2>4. {j, k} \in SUBSET Kinds
    OBVIOUS
  <2>5. QED
    BY <1>2, <2>1, <2>2, <2>3, <2>4
<1>3. CASE PipeIn(s)
  <2>1. Left(s) = 11
    BY <1>3, CallPlace DEF PipeIn, Pipe
  <2>2. num[s]["in_r"] = Unset /\ num[s]["in_w"] = Unset
    BY <1>0, <2>1 DEF Placed, Opened
  <2>3. "in_r" \in Kinds /\ "in_w" \in Kinds /\ "in_r" # "in_w"
    BY DEF Kinds, PipeKinds
  <2>4. QED
    BY <1>2, <1>3, <2>1, <2>2, <2>3 DEF PipeIn
<1>4. CASE PipeOut(s)
  <2>1. Left(s) = 10
    BY <1>4, CallPlace DEF PipeOut, Pipe
  <2>2. num[s]["out_r"] = Unset /\ num[s]["out_w"] = Unset
    BY <1>0, <2>1 DEF Placed, Opened
  <2>3. "out_r" \in Kinds /\ "out_w" \in Kinds /\ "out_r" # "out_w"
    BY DEF Kinds, PipeKinds
  <2>4. QED
    BY <1>2, <1>4, <2>1, <2>2, <2>3 DEF PipeOut
<1>5. Spawn(s) \/ Close(s) \/ WriteArgs(s) \/ Read(s) \/ ReadFails(s) \/ Wait(s) => num' = num
  BY DEF Spawn, Close, WriteArgs, Read, ReadFails, Wait
<1>6. ChildStep(s) \/ ChildIgnoresInput(s) => num' = num
  BY DEF ChildStep, ChildReads, ChildSeesEof, ChildAnswers, ChildIgnoresInput, Exit, server
<1>7. QED
  BY <1>1, <1>3, <1>4, <1>5, <1>6 DEF Step, ServerStep

LEMMA NumsStay ==
  ASSUME TypeOK, PlanInv, NEW s \in Sessions, Step(s), NEW t \in Sessions
  PROVE  /\ \A k \in Kinds : num[t][k] # Unset => num'[t][k] = num[t][k]
         /\ Left(t) <= 9 => num'[t] = num[t]
<1>1. CASE num' = num
  BY <1>1
<1>2. ASSUME NEW ks \in SUBSET Kinds, Opens(s, ks), \A k \in ks : num[s][k] = Unset, Left(s) >= 10
      PROVE  /\ \A k \in Kinds : num[t][k] # Unset => num'[t][k] = num[t][k]
             /\ Left(t) <= 9 => num'[t] = num[t]
  <2>1. \A k \in Kinds : num[t][k] # Unset => num'[t][k] = num[t][k]
    BY <1>2 DEF Opens
  <2>2. Left(t) <= 9 => t # s
    BY <1>2, CallPlace
  <2>3. t # s => num'[t] = num[t]
    BY <1>2 DEF Opens, TypeOK
  <2>4. QED
    BY <2>1, <2>2, <2>3
<1>3. QED
  BY <1>1, <1>2, NumStep

LEMMA DestroyedStays ==
  ASSUME TypeOK, PlanInv, NEW s \in Sessions, Step(s), NEW t \in Sessions, Destroyed(t)
  PROVE  Destroyed(t)'
<1>1. /\ DOMAIN todo = Sessions /\ Left(s) \in 0..12
      /\ todo[s] # <<>> /\ Return(s) => GoesTo(s, Left(s) - 1)
  BY CallPlace, Returned DEF PlanInv
<1>2. CASE todo' = todo
  BY <1>2 DEF Destroyed
<1>3. CASE todo[s] # <<>> /\ Return(s)
  BY <1>1, <1>3 DEF Destroyed, GoesTo, Left
<1>4. CASE Left(s) >= 2 /\ \E unwinding : Throw(s, unwinding)
  BY <1>1, <1>4 DEF Throw, Destroyed, Left
<1>5. Accept(s) \/ Close(s) \/ Wait(s) \/ Read(s) => todo[s] # <<>> /\ Return(s)
  BY DEF Accept, Close, Wait, Read, Calls
<1>6. PipeIn(s) \/ PipeOut(s) \/ Spawn(s) \/ ReadFails(s) =>
         \/ todo[s] # <<>> /\ Return(s)
         \/ Left(s) >= 2 /\ \E unwinding : Throw(s, unwinding)
  BY CallPlace DEF PipeIn, PipeOut, Pipe, Spawn, ReadFails, Calls
<1>7. WriteArgs(s) => \/ todo' = todo
                      \/ todo[s] # <<>> /\ Return(s)
                      \/ Left(s) >= 2 /\ \E unwinding : Throw(s, unwinding)
  BY CallPlace DEF WriteArgs, Delivers, Fails, SigPipe, Calls
<1>8. ChildStep(s) \/ ChildIgnoresInput(s) => todo' = todo
  BY DEF ChildStep, ChildReads, ChildSeesEof, ChildAnswers, ChildIgnoresInput, Exit, server
<1>9. QED
  BY <1>2, <1>3, <1>4, <1>5, <1>6, <1>7, <1>8 DEF Step, ServerStep

\* Once struck, a number counts as struck for good.
LEMMA StruckStays ==
  ASSUME TypeOK, PlanInv, NEW s \in Sessions, Step(s), NEW n, Struck(n)
  PROVE  Struck(n)'
<1>1. PICK t \in Sessions : Destroyed(t) /\ \E k \in Kinds : num[t][k] \in {n, Unset}
  BY DEF Struck, StruckBy
<1>2. Destroyed(t)'
  BY <1>1, DestroyedStays
<1>3. num'[t] = num[t]
  BY <1>1, NumsStay, CallPlace DEF Destroyed, Left
<1>4. QED
  BY <1>1, <1>2, <1>3 DEF Struck, StruckBy

\* A close frees the numbers of the ends it names, which the session still has,
\* unless it is the destructor's: what that frees counts as struck.
LEMMA CloseFrees ==
  ASSUME TypeOK, PlanInv, NEW s \in Sessions, Close(s)
  PROVE  LET ks == Closes[todo[s][1]]
         IN  /\ ks \subseteq Kinds
             /\ closed'[s] = closed[s] \cup ks
             /\ \A t \in Sessions : t # s => closed'[t] = closed[t]
             /\ \A n \in Numbers, k \in ks : num[s][k] = n => fd'[n] = Free
             /\ \A n \in Numbers :
                  \/ fd'[n] = fd[n]
                  \/ fd'[n] = Free /\ Struck(n)'
                  \/ fd'[n] = Free /\ \E k \in ks : num[s][k] = n /\ k \notin closed[s]
<1> DEFINE ks == Closes[todo[s][1]]
<1>0. Left(s) \in 0..12 /\ Placed(s) /\ todo[s] # <<>> /\ num' = num
  BY CallPlace DEF PlanInv, Close
<1>1. GoesTo(s, Left(s) - 1)
  BY <1>0, Returned DEF Close
<1>2. \/ Left(s) = 8 /\ ks = {"in_r", "out_w"}
      \/ Left(s) = 6 /\ ks = {"in_w"}
      \/ Left(s) = 3 /\ ks = {"out_r"}
      \/ Left(s) = 2 /\ ks = PipeKinds
      \/ Left(s) = 1 /\ ks = {"sock"}
  BY <1>0, NextCall, ClosingCalls DEF Closes, Close, Placed, Left
<1>3. ks \subseteq Kinds
  BY <1>2 DEF Kinds, PipeKinds
<1>4. /\ closed' = [closed EXCEPT ![s] = @ \cup ks]
      /\ \E stray \in Strays(s, ks) : Release({num[s][k] : k \in ks} \cup stray)
  BY DEF Close
<1> HIDE DEF ks
<1>5. PICK stray \in Strays(s, ks) : Release({num[s][k] : k \in ks} \cup stray)
  BY <1>4
<1>6. \A n \in Numbers : fd'[n] = IF n \in {num[s][k] : k \in ks} \cup stray THEN Free ELSE fd[n]
  BY <1>5 DEF Release
<1>7. /\ closed'[s] = closed[s] \cup ks
      /\ \A t \in Sessions : t # s => closed'[t] = closed[t]
  BY <1>4 DEF TypeOK
<1>8. \A n \in Numbers, k \in ks : num[s][k] = n => fd'[n] = Free
  BY <1>6
<1>9. ASSUME NEW n \in Numbers, fd'[n] # fd[n]
      PROVE  /\ fd'[n] = Free
             /\ Struck(n)' \/ \E k \in ks : num[s][k] = n /\ k \notin closed[s]
  <2>1. fd'[n] = Free /\ n \in {num[s][k] : k \in ks} \cup stray
    BY <1>6, <1>9
  <2>2. CASE Left(s) = 2
    <3>1. Destroyed(s)'
      BY <1>1, <2>2 DEF GoesTo, Destroyed
    <3>2. \E k \in Kinds : num[s][k] \in {n, Unset}
      <4>1. CASE n \in {num[s][k] : k \in ks}
        BY <1>3, <4>1
      <4>2. CASE n \in stray
        BY <1>3, <4>2 DEF Strays
      <4>3. QED
        BY <2>1, <4>1, <4>2
    <3>3. Struck(n)'
      BY <1>0, <3>1, <3>2 DEF Struck, StruckBy
    <3>4. QED
      BY <2>1, <3>3
  <2>3. CASE Left(s) # 2
    <3>1. \A k \in ks : num[s][k] # Unset /\ k \notin closed[s]
      BY <1>0, <1>2, <2>3 DEF Placed, Opened, ClosedSoFar
    <3>2. stray = {}
      BY <3>1 DEF Strays
    <3>3. QED
      BY <2>1, <3>1, <3>2
  <2>4. QED
    BY <2>2, <2>3
<1>10. QED
  BY <1>3, <1>7, <1>8, <1>9 DEF ks

\* What else changes the table: ends opened, and the end of the server.
LEMMA FdStep ==
  ASSUME TypeOK, PlanInv, NEW s \in Sessions, Step(s)
  PROVE  \/ UNCHANGED <<fd, num, closed, killed>>
         \/ \E ks \in SUBSET Kinds :
              /\ Opens(s, ks)
              /\ \A k \in ks : num[s][k] = Unset
              /\ closed[s] = {} /\ UNCHANGED <<closed, killed>>
         \/ Close(s) /\ UNCHANGED <<num, killed>>
         \/ killed' /\ UNCHANGED <<num, closed>> /\ \A n \in Numbers : fd'[n] = Free
<1>1. CASE Accept(s) \/ PipeIn(s) \/ PipeOut(s)
  <2>1. closed' = closed /\ killed' = killed
    BY <1>1 DEF Accept, PipeIn, PipeOut, Pipe
  <2>2. num' = num => fd' = fd
    <3>1. CASE Accept(s)
      <4>1. Opens(s, {"sock"}) /\ Left(s) = 12
        BY <3>1, OpensOne, CallPlace DEF Accept, Kinds
      <4>2. num'[s]["sock"] # Unset /\ num[s]["sock"] = Unset
        BY <4>1, NumberFacts DEF Opens, PlanInv, Placed, Opened
      <4>3. QED
        BY <4>2
    <3>2. ASSUME NEW call, NEW j \in Kinds, NEW k \in Kinds, j # k, Pipe(s, call, <<j, k>>),
                 num[s][j] = Unset, num' = num
          PROVE  fd' = fd
      <4>1. fd' = fd \/ Opens(s, {j, k})
        BY <3>2, OpensTwo DEF Pipe
      <4>2. Opens(s, {j, k}) => num'[s][j] # Unset
        BY NumberFacts DEF Opens
      <4>3. QED
        BY <3>2, <4>1, <4>2
    <3>3. CASE PipeIn(s)
      <4>1. num[s]["in_r"] = Unset /\ "in_r" \in Kinds /\ "in_w" \in Kinds
        <5>1. Left(s) = 11
          BY <3>3, CallPlace DEF PipeIn, Pipe
        <5>2. QED
          BY <5>1 DEF PlanInv, Placed, Opened, Kinds, PipeKinds
      <4>2. QED
        BY <3>2, <3>3, <4>1 DEF PipeIn
    <3>4. CASE PipeOut(s)
      <4>1. num[s]["out_r"] = Unset /\ "out_r" \in Kinds /\ "out_w" \in Kinds
        <5>1. Left(s) = 10
          BY <3>4, CallPlace DEF PipeOut, Pipe
        <5>2. QED
          BY <5>1 DEF PlanInv, Placed, Opened, Kinds, PipeKinds
      <4>2. QED
        BY <3>2, <3>4, <4>1 DEF PipeOut
    <3>5. QED
      BY <1>1, <3>1, <3>3, <3>4
  <2>3. CASE num' = num
    BY <2>1, <2>2, <2>3
  <2>4. CASE \E ks \in SUBSET Kinds : /\ Opens(s, ks)
                                      /\ \A k \in ks : num[s][k] = Unset
                                      /\ closed[s] = {}
    BY <2>1, <2>4
  <2>5. QED
    BY <2>3, <2>4, NumStep
<1>2. Spawn(s) \/ Read(s) \/ ReadFails(s) \/ Wait(s) => UNCHANGED <<fd, num, closed, killed>>
  BY DEF Spawn, Read, ReadFails, Wait
<1>3. Close(s) => UNCHANGED <<num, killed>>
  BY DEF Close
<1>4. WriteArgs(s) => \/ UNCHANGED <<fd, num, closed, killed>>
                      \/ killed' /\ UNCHANGED <<num, closed>> /\ \A n \in Numbers : fd'[n] = Free
  BY DEF WriteArgs, Delivers, Fails, SigPipe, Release
<1>5. ChildStep(s) \/ ChildIgnoresInput(s) => UNCHANGED <<fd, num, closed, killed>>
  BY DEF ChildStep, ChildReads, ChildSeesEof, ChildAnswers, ChildIgnoresInput, Exit, server
<1>6. QED
  BY <1>1, <1>2, <1>3, <1>4, <1>5 DEF Step, ServerStep

LEMMA TableStep ==
  ASSUME TypeOK, PlanInv, TableInv, NEW s \in Sessions, Step(s)
  PROVE  TableInv'
<1> SUFFICES ASSUME NEW n \in Numbers, NEW k \in Kinds, NEW t \in Sessions, fd'[n] = <<k, t>>
             PROVE  num'[t][k] = n /\ k \notin closed'[t]
  BY DEF TableInv
<1>0. <<k, t>> # Free /\ n # Unset
  BY EndFacts, NumberFacts
<1>1. CASE UNCHANGED <<fd, num, closed>>
  BY <1>1 DEF TableInv
<1>2. ASSUME NEW ks \in SUBSET Kinds, Opens(s, ks), \A i \in ks : num[s][i] = Unset,
             closed[s] = {}, closed' = closed
      PROVE  num'[t][k] = n /\ k \notin closed'[t]
  <2>1. CASE fd'[n] = fd[n]
    <3>1. num[t][k] = n /\ k \notin closed[t]
      BY <2>1 DEF TableInv
    <3>2. num'[t][k] = num[t][k]
      BY <1>0, <1>2, <3>1 DEF Opens
    <3>3. QED
      BY <1>2, <3>1, <3>2
  <2>2. CASE \E i \in ks : fd'[n] = <<i, s>> /\ num'[s][i] = n
    <3>1. PICK i \in ks : fd'[n] = <<i, s>> /\ num'[s][i] = n
      BY <2>2
    <3>2. k = i /\ t = s
      BY <3>1
    <3>3. QED
      BY <1>2, <3>1, <3>2
  <2>3. QED
    BY <1>2, <2>1, <2>2 DEF Opens
<1>3. CASE Close(s) /\ num' = num
  <2> DEFINE ks == Closes[todo[s][1]]
  <2>1. /\ closed'[s] = closed[s] \cup ks
        /\ \A r \in Sessions : r # s => closed'[r] = closed[r]
        /\ \A m \in Numbers, i \in ks : num[s][i] = m => fd'[m] = Free
        /\ fd'[n] = fd[n] \/ fd'[n] = Free
    BY <1>3, CloseFrees
  <2> HIDE DEF ks
  <2>2. num[t][k] = n /\ k \notin closed[t]
    BY <1>0, <2>1 DEF TableInv
  <2>3. t = s => k \notin ks
    BY <1>0, <2>1, <2>2
  <2>4. QED
    BY <1>3, <2>1, <2>2, <2>3
<1>4. CASE \A m \in Numbers : fd'[m] = Free
  BY <1>0, <1>4
<1>5. QED
  BY <1>1, <1>2, <1>3, <1>4, FdStep

LEMMA StruckNext ==
  ASSUME NEW t \in Sessions, NEW k \in Kinds, NEW n, num'[t][k] = n, Struck(n)'
  PROVE  (Struck(num[t][k]))'
BY DEF Struck, StruckBy, Destroyed

LEMMA OwnStep ==
  ASSUME TypeOK, PlanInv, TableInv, OwnsItsEnds, NEW s \in Sessions, Step(s)
  PROVE  OwnsItsEnds'
<1> SUFFICES ASSUME ~killed', NEW t \in Sessions, NEW k \in Kinds,
                    num'[t][k] # Unset, k \notin closed'[t]
             PROVE  (Owns(t, k))' \/ (Struck(num[t][k]))'
  BY DEF OwnsItsEnds, Using
<1>1. PICK n \in Numbers : num'[t][k] = n
  <2>1. num' \in [Sessions -> [Kinds -> Numbers \cup {Unset}]]
    BY TypeStep DEF TypeOK
  <2>2. QED
    BY <2>1
<1>2. <<k, t>> # Free /\ n # Unset
  BY EndFacts, NumberFacts
<1>3. fd'[n] = <<k, t>> => (Owns(t, k))'
  BY <1>1, <1>2 DEF Owns, At
<1>4. Struck(n) \/ Struck(n)' => (Struck(num[t][k]))'
  BY <1>1, StruckStays, StruckNext
\* What it used before and has not closed, it owned, or the number was struck.
<1>5. ASSUME ~killed, num[t][k] = n, k \notin closed[t]
      PROVE  fd[n] = <<k, t>> \/ Struck(n)
  BY <1>2, <1>5 DEF OwnsItsEnds, Using, Owns, At
<1>6. CASE UNCHANGED <<fd, num, closed, killed>>
  BY <1>1, <1>3, <1>4, <1>5, <1>6
<1>7. ASSUME NEW ks \in SUBSET Kinds, Opens(s, ks), \A i \in ks : num[s][i] = Unset,
             closed[s] = {}, closed' = closed, killed' = killed
      PROVE  (Owns(t, k))' \/ (Struck(num[t][k]))'
  <2>1. CASE t = s /\ k \in ks
    BY <1>1, <1>3, <1>7, <2>1 DEF Opens
  <2>2. CASE t # s \/ k \notin ks
    <3>1. num[t][k] = n
      BY <1>1, <1>7, <2>2 DEF Opens
    <3>2. fd[n] = <<k, t>> \/ Struck(n)
      BY <1>5, <1>7, <3>1
    <3>3. fd[n] = <<k, t>> => fd'[n] = <<k, t>>
      BY <1>2, <1>7 DEF Opens
    <3>4. QED
      BY <1>3, <1>4, <3>2, <3>3
  <2>3. QED
    BY <2>1, <2>2
<1>8. CASE Close(s) /\ num' = num /\ killed' = killed
  <2> DEFINE ks == Closes[todo[s][1]]
  <2>1. /\ ks \subseteq Kinds
        /\ closed'[s] = closed[s] \cup ks
        /\ \A r \in Sessions : r # s => closed'[r] = closed[r]
        /\ \/ fd'[n] = fd[n]
           \/ Struck(n)'
           \/ \E i \in ks : num[s][i] = n /\ i \notin closed[s]
    BY <1>8, CloseFrees
  <2> HIDE DEF ks
  <2>2. num[t][k] = n /\ k \notin closed[t] /\ (t = s => k \notin ks)
    BY <1>1, <1>8, <2>1
  <2>3. fd[n] = <<k, t>> \/ Struck(n)
    BY <1>5, <1>8, <2>2
  <2>4. CASE fd'[n] = fd[n]
    BY <1>3, <1>4, <2>3, <2>4
  <2>5. CASE Struck(n)'
    BY <1>4, <2>5
  <2>6. CASE \E i \in ks : num[s][i] = n /\ i \notin closed[s]
    <3>1. PICK i \in ks : num[s][i] = n /\ i \notin closed[s]
      BY <2>6
    <3>2. fd[n] = <<i, s>> \/ Struck(n)
      BY <1>2, <1>8, <2>1, <3>1 DEF OwnsItsEnds, Using, Owns, At
    <3>3. <<i, s>> # <<k, t>>
      BY <2>2, <3>1
    <3>4. QED
      BY <1>4, <2>3, <3>2, <3>3
  <2>7. QED
    BY <2>1, <2>4, <2>5, <2>6
<1>9. QED
  BY <1>6, <1>7, <1>8, FdStep

-----------------------------------------------------------------------------
(* The arguments of the scripts *)

LEMMA StdinStep ==
  ASSUME TypeOK, PlanInv, TableInv, OwnsItsEnds, StdinInv, NEW s \in Sessions, Step(s)
  PROVE  StdinInv'
<1> SUFFICES ASSUME NEW r \in Sessions, NEW t \in Sessions, stdin'[t] = <<"in_r", r>>
             PROVE  num'[r]["in_r"] # Unset /\ (t = r \/ (Struck(num[r]["in_r"]))')
  BY DEF StdinInv
<1>0. "in_r" \in Kinds /\ <<"in_r", r>> # Free
  BY EndFacts DEF Kinds, PipeKinds
<1>1. ASSUME NEW n, num[r]["in_r"] = n, n # Unset, t = r \/ Struck(n)
      PROVE  num'[r]["in_r"] # Unset /\ (t = r \/ (Struck(num[r]["in_r"]))')
  <2>1. num'[r]["in_r"] = n
    BY <1>0, <1>1, NumsStay
  <2>2. Struck(n) => (Struck(num[r]["in_r"]))'
    BY <1>0, <2>1, StruckStays, StruckNext
  <2>3. QED
    BY <1>1, <2>1, <2>2
<1>2. CASE stdin'[t] = stdin[t]
  BY <1>1, <1>2 DEF StdinInv
<1>3. CASE Spawn(s) /\ t = s /\ stdin' = [stdin EXCEPT ![s] = At(s, "in_r")]
  <2>1. Left(s) = 9 /\ ~killed
    BY <1>3, CallPlace DEF Spawn, Calls
  <2>2. num[s]["in_r"] # Unset /\ "in_r" \notin closed[s]
    BY <2>1 DEF PlanInv, Placed, Opened, ClosedSoFar
  <2>3. PICK n \in Numbers : num[s]["in_r"] = n
    BY <1>0, <2>2 DEF TypeOK
  <2>4. fd[n] = <<"in_r", r>> /\ n # Unset
    BY <1>3, <2>3, NumberFacts DEF At, TypeOK
  <2>5. num[r]["in_r"] = n
    BY <1>0, <2>4 DEF TableInv
  <2>6. fd[n] = <<"in_r", s>> \/ Struck(n)
    BY <1>0, <2>1, <2>2, <2>3, <2>4 DEF OwnsItsEnds, Using, Owns, At
  <2>7. t = r \/ Struck(n)
    BY <1>3, <2>4, <2>6
  <2>8. QED
    BY <1>1, <2>4, <2>5, <2>7
<1>4. CASE t = s /\ Exit(s)
  BY <1>0, <1>4 DEF Exit, TypeOK
<1>5. Accept(s) \/ PipeIn(s) \/ PipeOut(s) \/ Close(s) \/ WriteArgs(s) \/ Read(s)
        \/ ReadFails(s) \/ Wait(s) \/ ChildReads(s) \/ ChildSeesEof(s) => stdin' = stdin
  BY DEF Accept, PipeIn, PipeOut, Pipe, Close, WriteArgs, Read, ReadFails, Wait, ChildReads,
         ChildSeesEof, processes
<1>6. Spawn(s) => \/ stdin' = stdin
                  \/ stdin' = [stdin EXCEPT ![s] = At(s, "in_r")]
  BY DEF Spawn, processes
<1>7. ChildAnswers(s) \/ ChildIgnoresInput(s) => Exit(s) /\ (t # s => stdin'[t] = stdin[t])
  BY DEF ChildAnswers, ChildIgnoresInput, Exit, TypeOK
<1>8. CASE t # s /\ stdin' = [stdin EXCEPT ![s] = At(s, "in_r")]
  BY <1>2, <1>8 DEF TypeOK
<1>9. QED
  BY <1>2, <1>3, <1>4, <1>5, <1>6, <1>7, <1>8 DEF Step, ServerStep, ChildStep

\* The destructor has not run for an intact session, and what it uses is its own.
LEMMA IntactFacts ==
  ASSUME TypeOK, PlanInv, OwnsItsEnds, NEW r \in Sessions, Intact(r)
  PROVE  /\ Left(r) \in 2..12
         /\ \A k \in {"in_r", "in_w"} :
              num[r][k] # Unset /\ k \notin closed[r] =>
                num[r][k] \in Numbers /\ fd[num[r][k]] = <<k, r>>
<1>1. Left(r) \in 0..12 /\ {"in_r", "in_w"} \subseteq Kinds
  BY CallPlace DEF Kinds, PipeKinds
<1>2. ~Destroyed(r)
  BY <1>1 DEF Intact, Struck, StruckBy
<1>3. Left(r) \in 2..12
  <2>1. ~(Left(r) <= 1)
    BY <1>2 DEF Destroyed, Left
  <2>2. QED
    BY <1>1, <2>1
<1>4. ASSUME NEW k \in {"in_r", "in_w"}, num[r][k] # Unset, k \notin closed[r]
      PROVE  num[r][k] \in Numbers /\ fd[num[r][k]] = <<k, r>>
  <2>1. k \in Kinds /\ ~Struck(num[r][k]) /\ ~killed
    BY <1>1 DEF Intact
  <2>2. Owns(r, k)
    BY <1>4, <2>1 DEF OwnsItsEnds, Using
  <2>3. QED
    BY <1>4, <2>1, <2>2 DEF Owns, At, TypeOK
<1>5. QED
  BY <1>3, <1>4

LEMMA IntactBefore ==
  ASSUME TypeOK, PlanInv, NEW s \in Sessions, Step(s), NEW r \in Sessions, Left(r) <= 9,
         (Intact(r))'
  PROVE  Intact(r)
<1>1. killed => killed'
  BY FdStep
<1>2. num'[r] = num[r]
  BY NumsStay
<1>3. ASSUME NEW k \in {"in_r", "in_w"}, Struck(num[r][k])
      PROVE  FALSE
  <2>1. PICK n : num[r][k] = n
    OBVIOUS
  <2>2. Struck(n)'
    BY <1>3, <2>1, StruckStays
  <2>3. num'[r][k] = n /\ k \in Kinds
    BY <1>2, <2>1 DEF Kinds, PipeKinds
  <2>4. (Struck(num[r][k]))'
    BY <2>2, <2>3, StruckNext
  <2>5. QED
    BY <2>4 DEF Intact
<1>4. QED
  BY <1>1, <1>3 DEF Intact

\* What FedInv says of r is not touched by a step, but that something may be
\* added to the pipes and the plan may move on.
Undisturbed(r) ==
  /\ child'[r] = child[r] /\ stdin'[r] = stdin[r] /\ input'[r] = input[r]
  /\ closed'[r] = closed[r]
  /\ Left(r)' = 6 => Left(r) = 6
  /\ <<"in_r", r>> \in full => <<"in_r", r>> \in full'

Fed(r) == /\ stdin[r] = <<"in_r", r>> /\ num[r]["in_w"] # Unset
          /\ Left(r) = 6 \/ "in_w" \in closed[r] => Supplied(r)
          /\ child[r] = "fed" => "in_w" \in closed[r] /\ input[r] \in {"empty", "read"}

LEMMA FedKept ==
  ASSUME TypeOK, PlanInv, FedInv, NEW s \in Sessions, Step(s), NEW r \in Sessions,
         Undisturbed(r), (Intact(r))', child'[r] \in {"reading", "fed"}
  PROVE  Fed(r)'
<1>1. child[r] \in {"reading", "fed"}
  BY DEF Undisturbed
<1>2. Left(r) \in 0..12 /\ Left(r) <= 8
  BY <1>1, CallPlace DEF PlanInv, Placed
<1>3. Intact(r)
  BY <1>2, IntactBefore
<1>4. Fed(r)
  BY <1>1, <1>3 DEF FedInv, Fed
<1>5. num'[r] = num[r]
  BY <1>2, NumsStay
<1>6. Left(r)' = 6 \/ "in_w" \in closed'[r] => (Supplied(r))'
  BY <1>4 DEF Fed, Undisturbed, Supplied
<1>7. QED
  BY <1>4, <1>5, <1>6 DEF Fed, Undisturbed

\* A step of another session leaves r alone: the only script that could take
\* what is in its pipe reads from a number that was struck.
LEMMA OthersDoNotDisturb ==
  ASSUME TypeOK, PlanInv, StdinInv, NEW s \in Sessions, Step(s), NEW r \in Sessions, r # s,
         Intact(r)
  PROVE  Undisturbed(r)
<1>1. stdin[s] # <<"in_r", r>>
  BY DEF StdinInv, Intact
<1>2. todo'[r] = todo[r] => Left(r)' = Left(r)
  BY DEF Left
<1>3. \A unwinding : Throw(s, unwinding) => todo'[r] = todo[r]
  BY DEF Throw, PlanInv
<1>4. Return(s) => todo'[r] = todo[r]
  BY DEF Return, PlanInv
<1>5. CASE Accept(s) \/ PipeIn(s) \/ PipeOut(s)
  BY <1>2, <1>3, <1>4, <1>5 DEF Accept, PipeIn, PipeOut, Pipe, processes, Undisturbed
<1>6. CASE Spawn(s)
  BY <1>2, <1>3, <1>4, <1>6 DEF Spawn, processes, Undisturbed, TypeOK
<1>7. CASE Close(s)
  BY <1>2, <1>4, <1>7 DEF Close, processes, Undisturbed, TypeOK
<1>8. CASE WriteArgs(s)
  <2>1. UNCHANGED <<closed, child, stdin>>
    BY <1>8 DEF WriteArgs, processes
  <2>2. /\ todo'[r] = todo[r] /\ input'[r] = input[r] /\ full \subseteq full'
    BY <1>3, <1>4, <1>8 DEF WriteArgs, Delivers, Fails, SigPipe, TypeOK
  <2>3. QED
    BY <1>2, <2>1, <2>2 DEF Undisturbed
<1>9. CASE Read(s) \/ ReadFails(s)
  BY <1>2, <1>3, <1>4, <1>9 DEF Read, ReadFails, processes, Undisturbed
<1>10. CASE Wait(s)
  BY <1>2, <1>4, <1>10 DEF Wait, Undisturbed, TypeOK
<1>11. CASE ChildReads(s)
  BY <1>1, <1>2, <1>11 DEF ChildReads, server, Undisturbed, TypeOK
<1>12. CASE ChildSeesEof(s)
  BY <1>2, <1>12 DEF ChildSeesEof, server, Undisturbed, TypeOK
<1>13. CASE ChildAnswers(s) \/ ChildIgnoresInput(s)
  BY <1>2, <1>13 DEF ChildAnswers, ChildIgnoresInput, Exit, server, Undisturbed, TypeOK
<1>14. QED
  BY <1>5, <1>6, <1>7, <1>8, <1>9, <1>10, <1>11, <1>12, <1>13 DEF Step, ServerStep, ChildStep

LEMMA ChildOfAnother ==
  ASSUME TypeOK, NEW s \in Sessions, Step(s), NEW r \in Sessions, r # s
  PROVE  child'[r] = child[r]
<1>1. \/ child' = child
      \/ \E c \in {"reading", "fed", "exited", "reaped"} : child' = [child EXCEPT ![s] = c]
  BY DEF Step, ServerStep, ChildStep, Accept, PipeIn, PipeOut, Pipe, Spawn, Close, WriteArgs,
         Read, ReadFails, Wait, ChildReads, ChildSeesEof, ChildAnswers, ChildIgnoresInput, Exit,
         processes
<1>2. QED
  BY <1>1 DEF TypeOK

LEMMA FedStep ==
  ASSUME TypeOK, PlanInv, TableInv, OwnsItsEnds, StdinInv, FedInv, NEW s \in Sessions, Step(s)
  PROVE  FedInv'
<1> SUFFICES ASSUME NEW r \in Sessions, (Intact(r))', child'[r] \in {"reading", "fed"}
             PROVE  (Fed(r))'
  BY DEF FedInv, Fed
<1>1. CASE r # s
  <2>1. child[r] \in {"reading", "fed"}
    BY <1>1, ChildOfAnother
  <2>2. Left(r) <= 9
    BY <2>1, CallPlace DEF PlanInv, Placed
  <2>3. Intact(r)
    BY <2>2, IntactBefore
  <2>4. Undisturbed(r)
    BY <1>1, <2>3, OthersDoNotDisturb
  <2>5. QED
    BY <2>4, FedKept
<1>2. CASE r = s
  <2>0. PlanInv' /\ TypeOK' /\ Left(s) \in 0..12 /\ Placed(s)
    BY TypeStep, CallPlace DEF PlanInv
  <2>1. (Left(s))' \in 2..12
    <3>1. (Destroyed(s) => Struck(num[s]["in_r"]))'
      BY DEF Struck, StruckBy, Kinds, PipeKinds
    <3>2. ~(Destroyed(s))'
      BY <1>2, <3>1 DEF Intact
    <3>3. (Left(s))' \in Nat
      <4>1. Suffix(todo'[s])
        BY <2>0 DEF PlanInv, Placed
      <4>2. QED
        BY <4>1 DEF Suffix, Left
    <3>4. ~(Left(s)' <= 1)
      BY <3>2 DEF Destroyed, Left
    <3>5. (Left(s))' <= 12
      <4>1. Suffix(todo'[s])
        BY <2>0 DEF PlanInv, Placed
      <4>2. QED
        BY <4>1 DEF Suffix, Left
    <3> DEFINE n == Left(s)'
    <3> HIDE DEF n
    <3>6. n \in Nat /\ n <= 12 /\ ~(n <= 1)
      BY <3>3, <3>4, <3>5 DEF n
    <3>7. n \in 2..12
      BY <3>6
    <3>8. QED
      BY <3>7 DEF n
  <2>2. Left(s) >= 9 => child[s] = "none"
    BY <2>0 DEF Placed
  \* Before it is started the script has nothing to lose.
  <2>3. CASE Accept(s) \/ PipeIn(s) \/ PipeOut(s)
    <3>1. Left(s) \in {10, 11, 12} /\ child' = child
      BY <2>3, CallPlace DEF Accept, PipeIn, PipeOut, Pipe, processes
    <3>2. QED
      BY <1>2, <2>2, <3>1
  <2>4. CASE Spawn(s)
    <3>1. Left(s) = 9 /\ todo[s] # <<>> /\ child[s] = "none" /\ closed' = closed
      BY <2>2, <2>4, CallPlace DEF Spawn, Calls
    <3>2. /\ num[s]["in_r"] # Unset /\ num[s]["in_w"] # Unset /\ closed[s] = {}
      BY <2>0, <3>1 DEF Placed, Opened, ClosedSoFar
    <3>3. Intact(s) /\ num'[s] = num[s]
      BY <1>2, <3>1, IntactBefore, NumsStay
    <3>4. fd[num[s]["in_r"]] = <<"in_r", s>>
      BY <3>2, <3>3, IntactFacts
    <3>5. child' # child
      BY <1>2, <3>1
    <3>6. Return(s) /\ stdin' = [stdin EXCEPT ![s] = At(s, "in_r")]
      BY <2>4, <3>5 DEF Spawn, processes
    <3>7. stdin'[s] = <<"in_r", s>>
      BY <3>2, <3>4, <3>6 DEF At, TypeOK
    <3>8. GoesTo(s, Left(s) - 1)
      BY <3>1, <3>6, Returned
    <3>9. Left(s)' = 8
      BY <3>1, <3>8 DEF GoesTo, Left
    <3>10. child'[s] = "reading"
      BY <2>4, <3>5 DEF Spawn, processes, TypeOK
    <3>11. QED
      BY <1>2, <3>1, <3>2, <3>3, <3>7, <3>9, <3>10 DEF Fed
  <2>5. CASE Close(s)
    <3> DEFINE ks == Closes[todo[s][1]]
    <3>1. /\ UNCHANGED <<num, child, stdin, input, full>>
          /\ todo[s] # <<>> /\ todo[s][1] \in DOMAIN Closes /\ Return(s)
      BY <2>5 DEF Close, processes
    <3>2. GoesTo(s, Left(s) - 1)
      BY <3>1, Returned
    <3>3. Left(s)' = Left(s) - 1
      BY <3>2 DEF GoesTo, Left
    <3>4. Left(s) \in {8, 6, 3} /\ ("in_w" \in ks => Left(s) = 6)
      <4>1. \/ Left(s) = 8 /\ ks = {"in_r", "out_w"}
            \/ Left(s) = 6 /\ ks = {"in_w"}
            \/ Left(s) = 3 /\ ks = {"out_r"}
            \/ Left(s) = 2
            \/ Left(s) = 1
        BY <2>0, <3>1, NextCall, ClosingCalls DEF Closes, Placed, Left
      <4>2. Left(s) # 2 /\ Left(s) # 1
        BY <2>1, <3>3
      <4>3. QED
        BY <4>1, <4>2
    <3>5. closed'[s] = closed[s] \cup ks
      BY <2>5, CloseFrees
    <3> HIDE DEF ks
    <3>6. Fed(s)
      <4>1. Intact(s)
        BY <1>2, <3>4, IntactBefore
      <4>2. QED
        BY <1>2, <3>1, <4>1 DEF FedInv, Fed
    <3>7. "in_w" \in closed'[s] => Supplied(s)
      BY <3>4, <3>5, <3>6 DEF Fed
    <3>8. Left(s)' # 6
      BY <3>3, <3>4
    <3>9. (Supplied(s))' <=> Supplied(s)
      BY <3>1 DEF Supplied
    <3>10. QED
      BY <1>2, <3>1, <3>5, <3>6, <3>7, <3>8, <3>9 DEF Fed
  <2>6. CASE WriteArgs(s)
    <3>1. /\ Left(s) = 7 /\ todo[s] # <<>>
          /\ UNCHANGED <<num, closed, child, stdin>>
      BY <2>6, CallPlace DEF WriteArgs, Calls, processes
    <3>2. num[s]["in_w"] # Unset /\ "in_w" \notin closed[s]
      BY <2>0, <3>1 DEF Placed, Opened, ClosedSoFar
    <3>3. Intact(s)
      BY <1>2, <3>1, IntactBefore
    <3>4. Fed(s) /\ child[s] # "fed"
      BY <1>2, <3>1, <3>2, <3>3 DEF FedInv, Fed
    <3>5. At(s, "in_w") = <<"in_w", s>>
      BY <3>2, <3>3, IntactFacts DEF At
    <3>6. /\ At(s, "in_w")[1] = "in_w"
          /\ Reader(At(s, "in_w")) = <<"in_r", s>>
      BY <3>5, EndFacts DEF Reader, Kinds, PipeKinds
    <3>7. ~killed'
      BY <1>2 DEF Intact
    <3>8. \/ Delivers(s, "empty", {})
          \/ Delivers(s, "written", {<<"in_r", s>>})
          \/ Throw(s, Destructor)
      BY <2>6, <3>6, <3>7 DEF WriteArgs, Fails, SigPipe
    <3>9. CASE Throw(s, Destructor)
      <4>1. Left(s)' = 2
        BY <3>9, Thrown DEF GoesTo, Left
      <4>2. QED
        BY <1>2, <3>1, <3>2, <3>4, <4>1 DEF Fed
    <3>10. CASE Delivers(s, "empty", {})
      <4>1. (Supplied(s))'
        BY <3>10 DEF Delivers, Supplied, TypeOK
      <4>2. QED
        BY <1>2, <3>1, <3>2, <3>4, <4>1 DEF Fed
    <3>11. CASE Delivers(s, "written", {<<"in_r", s>>})
      <4>1. (Supplied(s))'
        BY <3>11 DEF Delivers, Supplied, TypeOK
      <4>2. QED
        BY <1>2, <3>1, <3>2, <3>4, <4>1 DEF Fed
    <3>12. QED
      BY <3>8, <3>9, <3>10, <3>11
  <2>7. CASE Read(s) \/ ReadFails(s)
    <3>1. Left(s) = 5 /\ todo[s] # <<>> /\ UNCHANGED <<closed, input, processes, full>>
      BY <2>7, CallPlace DEF Read, ReadFails, Calls
    <3>2. Return(s) \/ Throw(s, Destructor) \/ Throw(s, Unwind)
      BY <2>7 DEF Read, ReadFails
    <3>3. Left(s)' # 6
      <4>1. GoesTo(s, Left(s) - 1) \/ GoesTo(s, 2) \/ GoesTo(s, 3)
        BY <3>1, <3>2, Returned, Thrown
      <4>2. Left(s)' = Left(s) - 1 \/ Left(s)' = 2 \/ Left(s)' = 3
        BY <4>1 DEF GoesTo, Left
      <4>3. QED
        BY <3>1, <4>2
    <3>4. Undisturbed(s)
      BY <3>1, <3>3 DEF Undisturbed, processes
    <3>5. QED
      BY <1>2, <3>4, FedKept
  <2>8. CASE Wait(s)
    BY <1>2, <2>8 DEF Wait, TypeOK
  <2>9. CASE ChildReads(s) \/ ChildSeesEof(s)
    <3>1. child[s] = "reading" /\ UNCHANGED <<num, todo, closed, stdin, killed>>
      BY <2>9 DEF ChildReads, ChildSeesEof, server
    <3>2. Left(s) <= 9 /\ Left(s)' = Left(s)
      BY <2>0, <2>2, <3>1 DEF Left
    <3>3. Intact(s)
      BY <1>2, <3>2, IntactBefore
    <3>4. Fed(s)
      BY <3>1, <3>3 DEF FedInv, Fed
    <3>5. CASE ChildReads(s)
      <4>1. input'[s] = "read" /\ child'[s] = "reading"
        BY <3>1, <3>4, <3>5 DEF ChildReads, Fed, TypeOK
      <4>2. (Supplied(s))'
        BY <4>1 DEF Supplied
      <4>3. QED
        BY <1>2, <3>1, <3>4, <4>1, <4>2 DEF Fed
    <3>6. CASE ChildSeesEof(s)
      <4>1. /\ ~Held(Writer(stdin[s])) /\ stdin[s] \notin full
            /\ child'[s] = "fed" /\ input' = input /\ full' = full
        BY <3>6 DEF ChildSeesEof, TypeOK
      <4>2. Writer(stdin[s]) = <<"in_w", s>>
        <5>1. stdin[s] = <<"in_r", s>>
          BY <3>4 DEF Fed
        <5>2. QED
          BY <5>1, EndFacts DEF Writer, Kinds, PipeKinds
      <4>3. "in_w" \in closed[s]
        <5>1. num[s]["in_w"] # Unset
          BY <3>4 DEF Fed
        <5>2. "in_w" \notin closed[s] => Held(<<"in_w", s>>)
          BY <3>3, <5>1, IntactFacts DEF Held
        <5>3. QED
          BY <4>1, <4>2, <5>2
      <4>4. input[s] \in {"empty", "read"}
        BY <3>4, <4>1, <4>3 DEF Fed, Supplied
      <4>5. (Supplied(s))'
        BY <4>1, <4>4 DEF Supplied
      <4>6. QED
        BY <1>2, <3>1, <3>4, <4>1, <4>3, <4>4, <4>5 DEF Fed
    <3>7. QED
      BY <2>9, <3>5, <3>6
  <2>10. CASE ChildAnswers(s) \/ ChildIgnoresInput(s)
    BY <1>2, <2>10 DEF ChildAnswers, ChildIgnoresInput, Exit, TypeOK
  <2>11. QED
    BY <1>2, <2>3, <2>4, <2>5, <2>6, <2>7, <2>8, <2>9, <2>10 DEF Step, ServerStep, ChildStep
<1>3. QED
  BY <1>1, <1>2

-----------------------------------------------------------------------------
(* The invariant and what follows from it *)

LEMMA InitEstablishes ==
  Init => ScriptsInv
<1> SUFFICES ASSUME Init PROVE ScriptsInv
  OBVIOUS
<1>1. DOMAIN todo = Sessions /\ \A s \in Sessions : todo[s] = Plan
  BY DEF Init
<1>2. Suffix(Plan)
  <2>1. \A i \in 1..12 : (12 - 12) + i = i
    OBVIOUS
  <2>2. QED
    BY <2>1, PlanIs DEF Suffix
<1>3. PlanInv
  <2>1. ASSUME NEW s \in Sessions
        PROVE  Placed(s)
    <3>1. Left(s) = 12 /\ Suffix(todo[s])
      BY <1>1, <1>2, PlanIs DEF Left
    <3>2. num[s] = [k \in Kinds |-> Unset] /\ closed[s] = {} /\ child[s] = "none"
      BY DEF Init
    <3>3. QED
      BY <3>1, <3>2 DEF Placed, Opened, ClosedSoFar, Kinds, PipeKinds
  <2>2. QED
    BY <1>1, <2>1 DEF PlanInv
<1>4. Descriptors /\ Scripted
  BY DEF Init, Descriptors, Scripted
<1>5. TypeOK
  BY <1>3, <1>4, TypeParts
<1>6. TableInv
  BY EndFacts DEF Init, TableInv
<1>7. OwnsItsEnds
  BY DEF Init, OwnsItsEnds, Using
<1>8. StdinInv
  <2>1. "in_r" \in Kinds
    BY DEF Kinds, PipeKinds
  <2>2. QED
    BY <2>1, EndFacts DEF Init, StdinInv
<1>9. FedInv
  BY DEF Init, FedInv
<1>10. QED
  BY <1>3, <1>5, <1>6, <1>7, <1>8, <1>9 DEF ScriptsInv

LEMMA StepKeeps ==
  ScriptsInv /\ [Next]_vars => ScriptsInv'
<1> SUFFICES ASSUME ScriptsInv, [Next]_vars PROVE ScriptsInv'
  OBVIOUS
<1>1. ASSUME NEW s \in Sessions, Step(s)
      PROVE  ScriptsInv'
  BY <1>1, TypeStep, TableStep, OwnStep, StdinStep, FedStep DEF ScriptsInv
<1>2. CASE Next
  BY <1>1, <1>2 DEF Next, Step
<1>3. CASE UNCHANGED vars
  <2>1. TypeOK'
    BY <1>3 DEF vars, processes, ScriptsInv, TypeOK
  <2>2. PlanInv'
    BY <1>3 DEF vars, processes, ScriptsInv, PlanInv, Placed, Opened, ClosedSoFar, Left
  <2>3. TableInv'
    BY <1>3 DEF vars, processes, ScriptsInv, TableInv
  <2>4. OwnsItsEnds'
    BY <1>3 DEF vars, processes, ScriptsInv, OwnsItsEnds, Using, Owns, At, Struck, StruckBy, Destroyed
  <2>5. StdinInv'
    BY <1>3 DEF vars, processes, ScriptsInv, StdinInv, Struck, StruckBy, Destroyed
  <2>6. FedInv'
    BY <1>3 DEF vars, processes, ScriptsInv, FedInv, Intact, Supplied, Left, Struck, StruckBy, Destroyed
  <2>7. QED
    BY <2>1, <2>2, <2>3, <2>4, <2>5, <2>6 DEF ScriptsInv
<1>4. QED
  BY <1>2, <1>3

LEMMA Invariance ==
  Spec => []ScriptsInv
BY InitEstablishes, StepKeeps, PTL DEF Spec

\* Descriptors, plans, pipes and processes stay in range through every
\* interleaving of any number of sessions (Streamer.cpp:40-175).
THEOREM TypeCorrect ==
  Spec => []TypeOK
<1>1. ScriptsInv => TypeOK
  BY DEF ScriptsInv
<1>2. QED
  BY <1>1, Invariance, PTL

\* What a session has opened and not closed is its own unless a destructor has
\* struck the number (Streamer.cpp:62-67), and once all sessions are over every
\* descriptor is free, whatever failed on the way.
THEOREM DescriptorsAreSound ==
  Spec => []DescriptorsSound
<1>1. ScriptsInv => DescriptorsSound
  <2> SUFFICES ASSUME ScriptsInv PROVE DescriptorsSound
    OBVIOUS
  <2>1. ASSUME \A s \in Sessions : todo[s] = <<>>
        PROVE  FreeNumbers = Numbers
    <3>1. ASSUME NEW n \in Numbers, fd[n] # Free
          PROVE  FALSE
      <4>1. PICK k \in Kinds, s \in Sessions : fd[n] = <<k, s>>
        BY <3>1 DEF ScriptsInv, TypeOK, Ends
      <4>2. k \notin closed[s]
        BY <4>1 DEF ScriptsInv, TableInv
      <4>3. Left(s) = 0
        BY <2>1 DEF Left
      <4>4. closed[s] = Kinds
        BY <4>3 DEF ScriptsInv, PlanInv, Placed, ClosedSoFar
      <4>5. QED
        BY <4>2, <4>4
    <3>2. QED
      BY <3>1 DEF FreeNumbers
  <2>2. QED
    BY <2>1 DEF ScriptsInv, DescriptorsSound, NothingLeaks
<1>2. QED
  BY <1>1, Invariance, PTL

\* The end of file that a session signals to its script (Streamer.cpp:114) never
\* comes before the arguments, unless a destructor struck a number of its input.
THEOREM ScriptsAreFedWhole ==
  Spec => []FedWhole
<1>1. ScriptsInv => FedWhole
  BY DEF ScriptsInv, FedInv, FedWhole, Intact
<1>2. QED
  BY <1>1, Invariance, PTL
=============================================================================
