------------------------------ MODULE Scheduler -------------------------------
(***************************************************************************)
(* src/scheduler/scheduler.go with the store agentd gives it                *)
(* (SchedulerStore in src/internal/store/settings.go) and the jobs agentd   *)
(* registers before it calls Run (registerJobs).                            *)
(*                                                                          *)
(* One goroutine takes a tick, goes through the jobs in the order they were *)
(* registered, and calls those that are due.  A job may be slow: the clock  *)
(* goes on, the ticker keeps one tick and drops the others, so a pass may   *)
(* work with a time that is long gone.  The deadline of an interval is in   *)
(* memory; the guard of a daily or one-shot job is in the settings table,   *)
(* whose errors the scheduler ignores.                                      *)
(*                                                                          *)
(* Abstracted: what the jobs do, and registration while Run is running      *)
(* (agentd has none).                                                       *)
(***************************************************************************)
EXTENDS Naturals, Integers

CONSTANTS
  NJobs,       \* jobs are 1..NJobs, in the order of registration
  Kind,        \* [1..NJobs -> {"interval", "daily", "once"}]
  When,        \* an interval's length, a daily job's hour, a one-shot job's instant
  MaxTime,     \* bound: the clock runs from 1 to MaxTime
  Day, Hour,   \* the local calendar: functions of the time
  MaxSlips,    \* bound: failures of the store
  MaxCrashes   \* bound: restarts of the process

Jobs == 1 .. NJobs
Times == 1 .. MaxTime
Guarded == {j \in Jobs : Kind[j] # "interval"}
Intervals == {j \in Jobs : Kind[j] = "interval"}

ASSUME SchedulerAssumption ==
  /\ NJobs \in Nat \ {0}
  /\ MaxTime \in Nat \ {0}
  /\ Kind \in [Jobs -> {"interval", "daily", "once"}]
  /\ When \in [Jobs -> Nat \ {0}]
  /\ Day \in [Times -> Nat \ {0}]
  /\ Hour \in [Times -> Nat]
  /\ \A s, t \in Times : s <= t => Day[s] <= Day[t]
  /\ MaxSlips \in Nat
  /\ MaxCrashes \in Nat

VARIABLES
  clock,
  tick,     \* the time in the ticker's channel, 0 when it is empty
  now,      \* the time the pass works with
  at,       \* the job the pass is at, 0 between passes
  step,     \* what it does there: "check", "call" (found due, marked), "run" (in its fn)
  next,     \* an interval's deadline, 0 before its first tick
  stored,   \* the guards in the store, 0 is no record
  slips,    \* bound and history: failures of the store, per job
  crashes,  \* bound: restarts
  calls, last, repeats,  \* history: calls, key of the last one, calls for that key again
  lost      \* history: keys that were marked and whose call a restart prevented

vars == <<clock, tick, now, at, step, next, stored, slips, crashes, calls, last, repeats, lost>>
history == <<calls, last, repeats, lost>>

\* A daily job's key is the date, a one-shot job's the word "done"; for an interval,
\* which has no guard, the time of the call.
Key(j, t) == CASE Kind[j] = "daily" -> Day[t]
               [] Kind[j] = "once" -> 1
               [] OTHER -> t

Reached(j, t) == IF Kind[j] = "daily" THEN Hour[t] >= When[j] ELSE t >= When[j]

Init ==
  /\ clock = 1 /\ tick = 0 /\ now = 1
  /\ at = 0 /\ step = "check"
  /\ next = [j \in Jobs |-> 0]
  /\ stored = [j \in Jobs |-> 0]
  /\ slips = [j \in Jobs |-> 0]
  /\ crashes = 0
  /\ calls = [j \in Jobs |-> 0]
  /\ last = [j \in Jobs |-> 0]
  /\ repeats = [j \in Jobs |-> 0]
  /\ lost = [j \in Jobs |-> {}]

Later ==
  /\ clock < MaxTime
  /\ clock' = clock + 1
  /\ UNCHANGED <<tick, now, at, step, next, stored, slips, crashes, history>>

\* The ticker's channel holds one tick; what does not fit is dropped.
Tick ==
  /\ tick = 0
  /\ tick' = clock
  /\ UNCHANGED <<clock, now, at, step, next, stored, slips, crashes, history>>

BeginPass ==
  /\ at = 0 /\ tick # 0
  /\ now' = tick
  /\ tick' = 0
  /\ at' = 1 /\ step' = "check"
  /\ UNCHANGED <<clock, next, stored, slips, crashes, history>>

\* The pass goes on behind job j, or ends.
Advance(j) ==
  /\ at' = IF j = NJobs THEN 0 ELSE j + 1
  /\ step' = "check"

\* Mutant: the deadline moves on by its length even when ticks were missed.
CheckInterval_CatchUp(j) ==
  /\ at = j /\ step = "check" /\ j \in Intervals
  /\ \/ /\ next[j] # 0 /\ now >= next[j]
        /\ next' = [next EXCEPT ![j] = @ + When[j]]
        /\ at' = at /\ step' = "call"
     \/ /\ next[j] = 0
        /\ next' = [next EXCEPT ![j] = now + When[j]]
        /\ Advance(j)
     \/ /\ next[j] # 0 /\ now < next[j]
        /\ UNCHANGED next
        /\ Advance(j)
  /\ UNCHANGED <<clock, tick, now, stored, slips, crashes, history>>

\* The first tick an interval sees sets its deadline; a tick at or behind the deadline
\* sets the next and calls.
CheckInterval(j) ==
  /\ at = j /\ step = "check" /\ j \in Intervals
  /\ \/ /\ next[j] = 0
        /\ next' = [next EXCEPT ![j] = now + When[j]]
        /\ Advance(j)
     \/ /\ next[j] # 0 /\ now < next[j]
        /\ UNCHANGED next
        /\ Advance(j)
     \/ /\ next[j] # 0 /\ now >= next[j]
        /\ next' = [next EXCEPT ![j] = now + When[j]]
        /\ at' = at /\ step' = "call"
  /\ UNCHANGED <<clock, tick, now, stored, slips, crashes, history>>

\* What a read of the guard may give: what is stored, or the "" of a failed one.
Read(j) == {<<stored[j], 0>>} \cup (IF slips[j] < MaxSlips THEN {<<0, 1>>} ELSE {})

\* Mutant: a job found due stays unmarked until its fn has returned.
CheckGuarded_Unmarked(j) ==
  /\ at = j /\ step = "check" /\ j \in Guarded
  /\ IF stored[j] # Key(j, now) /\ Reached(j, now)
       THEN at' = at /\ step' = "call"
       ELSE Advance(j)
  /\ UNCHANGED <<clock, tick, now, next, stored, slips, crashes, history>>

\* Reads the guard, and marks the job as fired before it is called.  A failed read is
\* no record, a failed write leaves the guard as it was.
CheckGuarded(j) ==
  /\ at = j /\ step = "check" /\ j \in Guarded
  /\ \E r \in Read(j), failed \in {0, 1} :
       /\ slips[j] + r[2] + failed <= MaxSlips
       /\ IF r[1] # Key(j, now) /\ Reached(j, now)
            THEN /\ stored' = IF failed = 1 THEN stored
                                            ELSE [stored EXCEPT ![j] = Key(j, now)]
                 /\ at' = at /\ step' = "call"
            ELSE failed = 0 /\ UNCHANGED stored /\ Advance(j)
       /\ slips' = [slips EXCEPT ![j] = @ + r[2] + failed]
  /\ UNCHANGED <<clock, tick, now, next, crashes, history>>

Call(j) ==
  /\ at = j /\ step = "call"
  /\ step' = "run"
  /\ calls' = [calls EXCEPT ![j] = @ + 1]
  /\ last' = [last EXCEPT ![j] = Key(j, now)]
  /\ repeats' = [repeats EXCEPT ![j] = IF last[j] = Key(j, now) THEN @ + 1 ELSE @]
  /\ UNCHANGED <<clock, tick, now, at, next, stored, slips, crashes, lost>>

\* Mutant: a panic in a job ends the pass, and Run with it.
Return_PanicEndsRun(j) ==
  /\ at = j /\ step = "run"
  /\ \/ Advance(j) /\ UNCHANGED clock
     \/ at' = at /\ step' = "panicked" /\ UNCHANGED clock
  /\ UNCHANGED <<tick, now, next, stored, slips, crashes, history>>

\* The fn returns, or panics and runGuarded recovers: the pass goes on alike.
Return(j) ==
  /\ at = j /\ step = "run"
  /\ Advance(j)
  /\ UNCHANGED <<clock, tick, now, next, stored, slips, crashes, history>>

\* The process dies, and a new one registers the same jobs.
Crash ==
  /\ crashes < MaxCrashes
  /\ crashes' = crashes + 1
  /\ tick' = 0
  /\ at' = 0 /\ step' = "check"
  /\ next' = [j \in Jobs |-> 0]
  /\ lost' = [j \in Jobs |-> IF at = j /\ step = "call" THEN lost[j] \cup {Key(j, now)} ELSE lost[j]]
  /\ UNCHANGED <<clock, now, stored, slips, calls, last, repeats>>

Pass ==
  \/ BeginPass
  \/ \E j \in Jobs : CheckInterval(j) \/ CheckGuarded(j) \/ Call(j) \/ Return(j)

Next == Later \/ Tick \/ Pass \/ Crash

Spec == Init /\ [][Next]_vars

\* The ticker ticks, and the goroutine that runs the passes goes on; every job's fn
\* returns (its commands and queries have time limits).
FairSpec == Spec /\ WF_vars(Later) /\ WF_vars(Tick) /\ WF_vars(Pass)

-----------------------------------------------------------------------------
(* Properties. *)

\* Every variable keeps the kind of value the code gives it.
TypeOK ==
  /\ clock \in Times /\ tick \in 0 .. clock /\ now \in 1 .. clock
  /\ at \in 0 .. NJobs /\ step \in {"check", "call", "run"}
  /\ next \in [Jobs -> Nat]
  /\ stored \in [Jobs -> Nat]
  /\ slips \in [Jobs -> Nat]
  /\ crashes \in Nat
  /\ calls \in [Jobs -> Nat]
  /\ last \in [Jobs -> Nat]
  /\ repeats \in [Jobs -> Nat]
  /\ lost \in [Jobs -> SUBSET Nat]

\* What OncePerKey promises, kept over slow jobs, missed ticks, panics and restarts:
\* a second call of a daily job on one day, or of a one-shot job, is paid for by a
\* failure of the store (DailyAt, Once and evaluate).
Promise == INSTANCE OncePerKey WITH Jobs <- Guarded,
                                    Keys <- {Key(j, t) : j \in Guarded, t \in Times},
                                    calls <- [j \in Guarded |-> calls[j]],
                                    last <- [j \in Guarded |-> last[j]],
                                    credit <- [j \in Guarded |-> slips[j] - repeats[j]]
KeepsPromise == Promise!Spec

\* Two calls of an interval are at least its length apart by the ticks they answer,
\* ticks missed behind a slow job and restarts included (Interval).
Spaced ==
  [][\A j \in Intervals :
       (calls'[j] > calls[j] /\ last[j] # 0) => last'[j] >= last[j] + When[j]]_vars

\* A pass that begins when a daily or one-shot job has reached its time sees that it is
\* called for that key, unless a restart comes in between or had taken the call before:
\* no other job's panic or slowness loses it (evaluate, runGuarded).
DueIsServed ==
  \A j \in Guarded : \A t \in Times : \A n \in 0 .. MaxCrashes :
    (at = 1 /\ step = "check" /\ now = t /\ Reached(j, t) /\ crashes = n)
      ~> (last[j] >= Key(j, t) \/ Key(j, t) \in lost[j] \/ crashes > n)

=============================================================================
