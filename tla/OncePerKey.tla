------------------------------ MODULE OncePerKey ------------------------------
(***************************************************************************)
(* What the scheduler promises of a guarded job (the comments on Store and  *)
(* on DailyAt and Once in src/scheduler/scheduler.go): it is called for a   *)
(* key (a calendar day, or the one key of a one-shot job) at most once, and *)
(* never again for an earlier one.  A call for the same key is allowed only *)
(* against a slip, a failure of the store that keeps the guards.            *)
(***************************************************************************)
EXTENDS Naturals, Integers

CONSTANTS Jobs, Keys

VARIABLES
  calls,   \* how often each job was called
  last,    \* the key of its last call, 0 before the first
  credit   \* slips that no repeated call has used up yet

Init ==
  /\ calls = [j \in Jobs |-> 0]
  /\ last = [j \in Jobs |-> 0]
  /\ credit = [j \in Jobs |-> 0]

CallNext(j, k) ==
  /\ k > last[j]
  /\ calls' = [calls EXCEPT ![j] = @ + 1]
  /\ last' = [last EXCEPT ![j] = k]
  /\ UNCHANGED credit

CallAgain(j) ==
  /\ credit[j] > 0
  /\ calls' = [calls EXCEPT ![j] = @ + 1]
  /\ credit' = [credit EXCEPT ![j] = @ - 1]
  /\ UNCHANGED last

\* A pass reads the guard and writes it: either may fail, or both.
Slip(j, n) ==
  /\ credit' = [credit EXCEPT ![j] = @ + n]
  /\ UNCHANGED <<calls, last>>

Next ==
  \E j \in Jobs :
    \/ \E k \in Keys : CallNext(j, k)
    \/ CallAgain(j)
    \/ \E n \in {1, 2} : Slip(j, n)

Spec == Init /\ [][Next]_<<calls, last, credit>>
=============================================================================
