------------------------------ MODULE RateBudget ------------------------------
(***************************************************************************)
(* What a token-bucket limiter promises, without buckets, words, threads   *)
(* or locks: a key has a time up to which it has been accounted, and an    *)
(* admission at time u is possible only while every interval that ends at  *)
(* u has budget left: capacity plus rate times the interval's length.      *)
(***************************************************************************)
EXTENDS Integers

CONSTANTS Keys, Capacity, RefillRate, MaxTime

VARIABLES now,     \* seconds
          clock,   \* the time each key's admissions are accounted up to
          served   \* served[k][s] = admissions of k at time s or later

budgetVars == <<now, clock, served>>

Seconds == 0..MaxTime

Allowance(s, u) == Capacity + RefillRate * (u - s)

BudgetInit ==
  /\ now = 0
  /\ clock = [k \in Keys |-> 0]
  /\ served = [k \in Keys |-> [s \in Seconds |-> 0]]

Pass ==
  /\ now' \in Seconds /\ now' > now
  /\ UNCHANGED <<clock, served>>

\* The key is seen for the first time: it is accounted from u on.
Observe(k) ==
  \E u \in clock[k]..now :
    /\ clock' = [clock EXCEPT ![k] = u]
    /\ UNCHANGED <<now, served>>

Admit(k) ==
  \E u \in clock[k]..now :
    /\ \A s \in 0..u : served[k][s] < Allowance(s, u)
    /\ clock' = [clock EXCEPT ![k] = u]
    /\ served' = [served EXCEPT ![k] =
         [s \in Seconds |-> IF s <= u THEN served[k][s] + 1 ELSE served[k][s]]]
    /\ UNCHANGED now

BudgetNext == Pass \/ \E k \in Keys : Observe(k) \/ Admit(k)

BudgetSpec == BudgetInit /\ [][BudgetNext]_budgetVars
=============================================================================
