--------------------------- MODULE SchedulerProofs ----------------------------
(* Theorems about Scheduler, for every value of its constants. *)
EXTENDS Scheduler, TLAPS

\* Ticks are not in the future, and passes go forward.
TimesForward ==
  /\ tick # 0 => now <= tick
  /\ \A j \in Jobs : last[j] <= Key(j, now)
  /\ \A j \in Guarded : stored[j] <= Key(j, now)

Due(j) == at = j /\ step = "call"

\* Every repeated call, made or about to be made, and every guard that is behind the
\* last call, has a slip of its own.
Accounted ==
  \A j \in Guarded :
    /\ repeats[j] <= slips[j]
    /\ stored[j] < last[j] => repeats[j] < slips[j]
    /\ Due(j) /\ last[j] = Key(j, now) => repeats[j] < slips[j]
    /\ Due(j) /\ stored[j] # Key(j, now) => repeats[j] < slips[j]
    /\ Due(j) /\ last[j] = Key(j, now) /\ stored[j] # Key(j, now) => repeats[j] + 1 < slips[j]

\* An interval's deadline is a whole length behind its last call.
Deadlines ==
  \A j \in Intervals :
    /\ last[j] # 0 /\ next[j] # 0 => next[j] >= last[j] + When[j]
    /\ Due(j) => /\ next[j] = now + When[j]
                 /\ last[j] # 0 => now >= last[j] + When[j]

IInv == TypeOK /\ TimesForward /\ Accounted /\ Deadlines

LEMMA KeyTyped ==
  ASSUME NEW j \in Jobs, NEW t \in Times
  PROVE  Key(j, t) \in Nat /\ Key(j, t) # 0
<1>1. Kind[j] \in {"interval", "daily", "once"} /\ Day[t] \in Nat \ {0} /\ t \in Nat \ {0}
  BY SchedulerAssumption DEF Times, Jobs
<1>2. QED
  BY <1>1 DEF Key

\* A later time has no smaller key (Day is a calendar).
LEMMA KeyForward ==
  ASSUME NEW j \in Jobs, NEW s \in Times, NEW t \in Times, s <= t
  PROVE  Key(j, s) <= Key(j, t)
<1>1. Kind[j] \in {"interval", "daily", "once"} /\ Day[s] <= Day[t]
  BY SchedulerAssumption DEF Times, Jobs
<1>2. CASE Kind[j] = "interval"
  BY <1>2 DEF Key, Times
<1>3. CASE Kind[j] = "daily"
  BY <1>1, <1>3 DEF Key
<1>4. CASE Kind[j] = "once"
  BY <1>4 DEF Key
<1>5. QED
  BY <1>1, <1>2, <1>3, <1>4

LEMMA InitIInv == Init => IInv
<1> SUFFICES ASSUME Init PROVE IInv
  OBVIOUS
<1>1. NJobs \in Nat /\ MaxTime \in Nat \ {0} /\ 1 \in Times
  BY SchedulerAssumption DEF Times
<1>2. TypeOK
  BY <1>1 DEF Init, TypeOK, Times
<1>3. \A j \in Jobs : Key(j, 1) \in Nat
  BY <1>1, KeyTyped
<1>4. TimesForward
  BY <1>3 DEF Init, TimesForward, Guarded
<1>5. Accounted
  BY DEF Init, Accounted, Due, Guarded
<1>6. Deadlines
  BY DEF Init, Deadlines, Due, Intervals
<1>7. QED
  BY <1>2, <1>4, <1>5, <1>6 DEF IInv

LEMMA NowTyped == TypeOK => now \in Times /\ clock \in Times
BY SchedulerAssumption DEF TypeOK, Times

\* The pass moving on leaves what is typed typed, and nothing due.
LEMMA AdvanceTyped ==
  ASSUME NEW j \in Jobs, Advance(j)
  PROVE  at' \in 0 .. NJobs /\ step' = "check"
BY SchedulerAssumption DEF Advance, Jobs

LEMMA LaterKeeps == IInv /\ Later => IInv'
<1> SUFFICES ASSUME IInv, Later PROVE IInv'
  OBVIOUS
<1>1. TypeOK'
  BY SchedulerAssumption DEF IInv, TypeOK, Later, history, Times
<1>2. TimesForward'
  BY DEF IInv, TimesForward, Later, history, Key, Guarded
<1>3. Accounted'
  BY DEF IInv, Accounted, Later, history, Due, Key, Guarded
<1>4. Deadlines'
  BY DEF IInv, Deadlines, Later, history, Due, Intervals
<1>5. QED
  BY <1>1, <1>2, <1>3, <1>4 DEF IInv

LEMMA TickKeeps == IInv /\ Tick => IInv'
<1> SUFFICES ASSUME IInv, Tick PROVE IInv'
  OBVIOUS
<1>1. TypeOK'
  BY DEF IInv, TypeOK, Tick, history, Times
<1>2. TimesForward'
  <2>1. now <= tick'
    BY DEF IInv, TypeOK, Tick, Times
  <2>2. QED
    BY <2>1 DEF IInv, TimesForward, Tick, history, Key, Guarded
<1>3. Accounted'
  BY DEF IInv, Accounted, Tick, history, Due, Key, Guarded
<1>4. Deadlines'
  BY DEF IInv, Deadlines, Tick, history, Due, Intervals
<1>5. QED
  BY <1>1, <1>2, <1>3, <1>4 DEF IInv

LEMMA BeginPassKeeps == IInv /\ BeginPass => IInv'
<1> SUFFICES ASSUME IInv, BeginPass PROVE IInv'
  OBVIOUS
<1>1. TypeOK'
  BY SchedulerAssumption DEF IInv, TypeOK, BeginPass, history, Times
<1>2. now \in Times /\ now' \in Times /\ now <= now'
  BY <1>1, SchedulerAssumption DEF IInv, TypeOK, TimesForward, BeginPass, Times
<1>3. \A j \in Jobs : Key(j, now) <= Key(j, now') /\ Key(j, now) \in Nat /\ Key(j, now') \in Nat
  BY <1>2, KeyForward, KeyTyped
<1>4. TimesForward'
  <2>1. \A j \in Jobs : last[j] \in Nat /\ stored[j] \in Nat
    BY DEF IInv, TypeOK
  <2>2. \A j \in Jobs : last[j] <= Key(j, now')
    BY <2>1, <1>3 DEF IInv, TimesForward
  <2>3. \A j \in Guarded : stored[j] <= Key(j, now')
    BY <2>1, <1>3 DEF IInv, TimesForward, Guarded
  <2>4. QED
    BY <2>2, <2>3 DEF TimesForward, BeginPass, history
<1>5. Accounted'
  BY DEF IInv, Accounted, BeginPass, history, Due
<1>6. Deadlines'
  BY DEF IInv, Deadlines, BeginPass, history, Due
<1>7. QED
  BY <1>1, <1>4, <1>5, <1>6 DEF IInv

LEMMA CheckIntervalKeeps ==
  ASSUME IInv, NEW j \in Jobs, CheckInterval(j)
  PROVE  IInv'
<1>1. now \in Times /\ now \in Nat \ {0} /\ When[j] \in Nat \ {0}
  BY NowTyped, SchedulerAssumption DEF IInv, Times
<1>2. at' \in 0 .. NJobs /\ step' \in {"check", "call"}
  BY AdvanceTyped DEF CheckInterval, IInv, TypeOK
<1>3. next' \in [Jobs -> Nat]
  BY <1>1 DEF CheckInterval, IInv, TypeOK
<1>4. TypeOK'
  BY <1>2, <1>3 DEF CheckInterval, history, IInv, TypeOK
<1>5. TimesForward'
  BY DEF CheckInterval, history, IInv, TimesForward, Key, Guarded
<1>6. \A i \in Guarded : ~Due(i)'
  BY AdvanceTyped DEF CheckInterval, Due, Guarded, Intervals
<1>7. Accounted'
  BY <1>6 DEF CheckInterval, history, IInv, Accounted
<1>8. Deadlines'
  <2>1. SUFFICES ASSUME NEW i \in Intervals
                 PROVE  /\ last[i] # 0 /\ next'[i] # 0 => next'[i] >= last[i] + When[i]
                        /\ Due(i)' => /\ next'[i] = now + When[i]
                                      /\ last[i] # 0 => now >= last[i] + When[i]
    BY DEF Deadlines, CheckInterval, history
  <2>2. last[j] \in Nat /\ next[j] \in Nat /\ last[j] <= now
    <3>1. last[j] <= Key(j, now) /\ Kind[j] = "interval"
      BY DEF IInv, TimesForward, CheckInterval, Intervals
    <3>2. QED
      BY <3>1 DEF IInv, TypeOK, Key
  <2>3. CASE i # j
    <3>1. next'[i] = next[i]
      BY <2>3 DEF CheckInterval, IInv, TypeOK, Intervals
    <3>2. ~Due(i)'
      BY <2>3, AdvanceTyped DEF CheckInterval, Due
    <3>3. QED
      BY <3>1, <3>2 DEF IInv, Deadlines
  <2>4. CASE i = j /\ next[j] = 0
    <3>1. next'[j] = now + When[j] /\ ~Due(j)'
      BY <2>4, AdvanceTyped DEF CheckInterval, Due, IInv, TypeOK
    <3>2. QED
      BY <1>1, <2>2, <2>4, <3>1
  <2>5. CASE i = j /\ next[j] # 0 /\ now < next[j]
    <3>1. next' = next /\ ~Due(j)'
      BY <1>1, <2>2, <2>5, AdvanceTyped DEF CheckInterval, Due
    <3>2. QED
      BY <2>5, <3>1 DEF IInv, Deadlines
  <2>6. CASE i = j /\ next[j] # 0 /\ ~(now < next[j])
    <3>1. next'[j] = now + When[j]
      BY <2>6 DEF CheckInterval, IInv, TypeOK
    <3>2. last[j] # 0 => next[j] >= last[j] + When[j]
      BY <2>6 DEF IInv, Deadlines
    <3>3. QED
      BY <1>1, <2>2, <2>6, <3>1, <3>2
  <2>7. QED
    BY <2>3, <2>4, <2>5, <2>6
<1>9. QED
  BY <1>4, <1>5, <1>7, <1>8 DEF IInv

\* Where a check of a guarded job leads: what was read and what failed.
LEMMA CheckGuardedKeeps ==
  ASSUME IInv, NEW j \in Jobs, CheckGuarded(j)
  PROVE  IInv'
<1>1. PICK r \in Read(j), failed \in {0, 1} :
        /\ slips[j] + r[2] + failed <= MaxSlips
        /\ IF r[1] # Key(j, now) /\ Reached(j, now)
             THEN /\ stored' = IF failed = 1 THEN stored
                                             ELSE [stored EXCEPT ![j] = Key(j, now)]
                  /\ at' = at /\ step' = "call"
             ELSE failed = 0 /\ UNCHANGED stored /\ Advance(j)
        /\ slips' = [slips EXCEPT ![j] = @ + r[2] + failed]
  BY DEF CheckGuarded
<1> DEFINE k == Key(j, now)
<1>2. /\ at = j /\ step = "check" /\ j \in Guarded
      /\ UNCHANGED <<clock, tick, now, next, crashes, calls, last, repeats, lost>>
  BY DEF CheckGuarded, history
<1>3. /\ k \in Nat /\ last[j] \in Nat /\ stored[j] \in Nat /\ repeats[j] \in Nat
      /\ slips[j] \in Nat
      /\ last[j] <= k /\ stored[j] <= k
      /\ repeats[j] <= slips[j]
      /\ stored[j] < last[j] => repeats[j] < slips[j]
  BY <1>2, NowTyped, KeyTyped DEF IInv, TypeOK, TimesForward, Accounted
<1>4. (r[1] = stored[j] /\ r[2] = 0) \/ (r[1] = 0 /\ r[2] = 1)
  BY DEF Read
<1>5. stored' \in [Jobs -> Nat] /\ slips' \in [Jobs -> Nat]
  <2>1. slips' \in [Jobs -> Nat]
    BY <1>1, <1>3, <1>4 DEF IInv, TypeOK
  <2>2. stored' \in [Jobs -> Nat]
    BY <1>1, <1>3 DEF IInv, TypeOK
  <2>3. QED
    BY <2>1, <2>2
<1>6. at' \in 0 .. NJobs /\ step' \in {"check", "call"}
  BY <1>1, AdvanceTyped DEF IInv, TypeOK
<1>7. TypeOK'
  BY <1>2, <1>5, <1>6 DEF IInv, TypeOK
<1>8. /\ stored'[j] \in {stored[j], k}
      /\ \A i \in Jobs \ {j} : stored'[i] = stored[i] /\ slips'[i] = slips[i]
      /\ slips'[j] = slips[j] + r[2] + failed
  BY <1>1 DEF IInv, TypeOK
<1>9. TimesForward'
  BY <1>2, <1>3, <1>8 DEF IInv, TimesForward, Key, Guarded
<1>10. \A i \in Jobs \ {j} : ~Due(i)'
  BY <1>1, <1>2, AdvanceTyped DEF Due
<1>11. Accounted'
  <2>1. SUFFICES ASSUME NEW i \in Guarded
                 PROVE  /\ repeats[i] <= slips'[i]
                        /\ stored'[i] < last[i] => repeats[i] < slips'[i]
                        /\ Due(i)' /\ last[i] = Key(i, now) => repeats[i] < slips'[i]
                        /\ Due(i)' /\ stored'[i] # Key(i, now) => repeats[i] < slips'[i]
                        /\ Due(i)' /\ last[i] = Key(i, now) /\ stored'[i] # Key(i, now)
                             => repeats[i] + 1 < slips'[i]
    BY <1>2 DEF Accounted, Key
  <2>2. CASE i # j
    <3>1. i \in Jobs \ {j}
      BY <2>2 DEF Guarded
    <3>2. QED
      BY <3>1, <1>8, <1>10 DEF IInv, Accounted
  <2>3. CASE i = j /\ r[1] # k /\ Reached(j, now)
    <3>1. stored'[j] = (IF failed = 1 THEN stored[j] ELSE k)
      BY <1>1, <2>3 DEF IInv, TypeOK
    <3>2. QED
      BY <1>3, <1>4, <1>8, <2>3, <3>1
  <2>4. CASE i = j /\ ~(r[1] # k /\ Reached(j, now))
    <3>1. stored' = stored /\ ~Due(j)' /\ failed = 0
      BY <1>1, <2>4, AdvanceTyped DEF Due
    <3>2. QED
      BY <1>3, <1>4, <1>8, <2>4, <3>1
  <2>5. QED
    BY <2>2, <2>3, <2>4
<1>12. Deadlines'
  <2>1. \A i \in Intervals : ~Due(i)'
    BY <1>2, <1>10 DEF Intervals, Guarded
  <2>2. QED
    BY <1>2, <2>1 DEF IInv, Deadlines
<1>13. QED
  BY <1>7, <1>9, <1>11, <1>12 DEF IInv

LEMMA CallKeeps ==
  ASSUME IInv, NEW j \in Jobs, Call(j)
  PROVE  IInv'
<1> DEFINE k == Key(j, now)
<1>1. k \in Nat /\ last[j] \in Nat /\ stored[j] \in Nat /\ repeats[j] \in Nat /\ slips[j] \in Nat
  BY NowTyped, KeyTyped DEF IInv, TypeOK
<1>2. /\ at = j /\ step = "call" /\ step' = "run"
      /\ calls' = [calls EXCEPT ![j] = @ + 1]
      /\ last' = [last EXCEPT ![j] = k]
      /\ repeats' = [repeats EXCEPT ![j] = IF last[j] = k THEN @ + 1 ELSE @]
      /\ UNCHANGED <<clock, tick, now, at, next, stored, slips, crashes, lost>>
  BY DEF Call
<1>3. calls' \in [Jobs -> Nat] /\ last' \in [Jobs -> Nat] /\ repeats' \in [Jobs -> Nat]
  <2>1. calls' \in [Jobs -> Nat]
    BY <1>2 DEF IInv, TypeOK
  <2>2. last' \in [Jobs -> Nat]
    BY <1>1, <1>2 DEF IInv, TypeOK
  <2>3. repeats' \in [Jobs -> Nat]
    BY <1>1, <1>2 DEF IInv, TypeOK
  <2>4. QED
    BY <2>1, <2>2, <2>3
<1>4. TypeOK'
  BY <1>2, <1>3 DEF IInv, TypeOK
<1>5. /\ last'[j] = k /\ repeats'[j] = IF last[j] = k THEN repeats[j] + 1 ELSE repeats[j]
      /\ \A i \in Jobs \ {j} : last'[i] = last[i] /\ repeats'[i] = repeats[i]
      /\ \A i \in Jobs : ~Due(i)'
  BY <1>2 DEF IInv, TypeOK, Due
<1>6. TimesForward'
  BY <1>1, <1>2, <1>5 DEF IInv, TimesForward, Key, Guarded
<1>7. Accounted'
  <2>1. SUFFICES ASSUME NEW i \in Guarded
                 PROVE  /\ repeats'[i] <= slips[i]
                        /\ stored[i] < last'[i] => repeats'[i] < slips[i]
    BY <1>2, <1>5 DEF Accounted, Guarded
  <2>2. CASE i # j
    BY <1>5, <2>2 DEF IInv, Accounted, Guarded
  <2>3. CASE i = j
    <3>1. /\ repeats[j] <= slips[j]
          /\ last[j] = k => repeats[j] < slips[j]
          /\ stored[j] # k => repeats[j] < slips[j]
          /\ last[j] = k /\ stored[j] # k => repeats[j] + 1 < slips[j]
      BY <1>2, <2>3 DEF IInv, Accounted, Due
    <3>2. QED
      BY <1>1, <1>5, <2>3, <3>1
  <2>4. QED
    BY <2>2, <2>3
<1>8. Deadlines'
  <2>1. SUFFICES ASSUME NEW i \in Intervals, last'[i] # 0, next[i] # 0
                 PROVE  next[i] >= last'[i] + When[i]
    BY <1>2, <1>5 DEF Deadlines, Intervals
  <2>2. CASE i # j
    BY <1>5, <2>1, <2>2 DEF IInv, Deadlines, Intervals
  <2>3. CASE i = j
    <3>1. Kind[j] = "interval" /\ next[j] = now + When[j]
      BY <1>2, <2>3 DEF IInv, Deadlines, Due, Intervals
    <3>2. k = now /\ last'[j] = now /\ now \in Nat /\ When[j] \in Nat
      BY <1>5, <3>1, NowTyped, SchedulerAssumption DEF Key, IInv, Times
    <3>3. QED
      BY <2>3, <3>1, <3>2
  <2>4. QED
    BY <2>2, <2>3
<1>9. QED
  BY <1>4, <1>6, <1>7, <1>8 DEF IInv

LEMMA ReturnKeeps ==
  ASSUME IInv, NEW j \in Jobs, Return(j)
  PROVE  IInv'
<1>1. TypeOK'
  BY AdvanceTyped DEF IInv, TypeOK, Return, history
<1>2. TimesForward'
  BY DEF IInv, TimesForward, Return, history, Key, Guarded
<1>3. \A i \in Jobs : ~Due(i)'
  BY AdvanceTyped DEF Return, Due
<1>4. Accounted'
  BY <1>3 DEF IInv, Accounted, Return, history, Guarded
<1>5. Deadlines'
  BY <1>3 DEF IInv, Deadlines, Return, history, Intervals
<1>6. QED
  BY <1>1, <1>2, <1>4, <1>5 DEF IInv

LEMMA CrashKeeps == IInv /\ Crash => IInv'
<1> SUFFICES ASSUME IInv, Crash PROVE IInv'
  OBVIOUS
<1>1. lost' \in [Jobs -> SUBSET Nat]
  BY NowTyped, KeyTyped DEF IInv, TypeOK, Crash
<1>2. TypeOK'
  <2>1. tick' \in 0 .. clock' /\ at' \in 0 .. NJobs
    BY SchedulerAssumption DEF IInv, TypeOK, Crash, Times
  <2>2. next' \in [Jobs -> Nat] /\ crashes' \in Nat
    BY DEF IInv, TypeOK, Crash
  <2>3. QED
    BY <1>1, <2>1, <2>2 DEF IInv, TypeOK, Crash
<1>3. TimesForward'
  BY DEF IInv, TimesForward, Crash, Key, Guarded
<1>4. \A i \in Jobs : ~Due(i)' /\ next'[i] = 0
  BY DEF Crash, Due
<1>5. Accounted'
  BY <1>4 DEF IInv, Accounted, Crash, Guarded
<1>6. Deadlines'
  BY <1>4 DEF Deadlines, Intervals
<1>7. QED
  BY <1>2, <1>3, <1>5, <1>6 DEF IInv

LEMMA NextKeeps == IInv /\ [Next]_vars => IInv'
<1> SUFFICES ASSUME IInv, [Next]_vars PROVE IInv'
  OBVIOUS
<1>1. ASSUME NEW j \in Jobs, CheckInterval(j) \/ CheckGuarded(j) \/ Call(j) \/ Return(j)
      PROVE  IInv'
  BY <1>1, CheckIntervalKeeps, CheckGuardedKeeps, CallKeeps, ReturnKeeps
<1>2. CASE Later \/ Tick \/ BeginPass \/ Crash
  BY <1>2, LaterKeeps, TickKeeps, BeginPassKeeps, CrashKeeps
<1>3. CASE UNCHANGED vars
  BY <1>3 DEF vars, history, IInv, TypeOK, TimesForward, Accounted, Deadlines, Due, Key, Guarded
<1>4. QED
  BY <1>1, <1>2, <1>3 DEF Next, Pass

\* The types, and with them what the two theorems below rest on, hold for ever.
THEOREM Typed == Spec => []TypeOK
<1>1. IInv => TypeOK
  BY DEF IInv
<1>2. QED
  BY <1>1, InitIInv, NextKeeps, PTL DEF Spec

-----------------------------------------------------------------------------
\* A step that calls a job is a Call.
LEMMA OnlyCall ==
  ASSUME IInv, [Next]_vars, NEW j \in Jobs, calls'[j] > calls[j]
  PROVE  Call(j)
<1>1. calls[j] \in Nat
  BY DEF IInv, TypeOK
<1>2. calls' # calls
  BY <1>1
<1>3. PICK i \in Jobs : Call(i)
  BY <1>2 DEF Next, Pass, Later, Tick, BeginPass, CheckInterval, CheckGuarded, Return, Crash,
                vars, history
<1>4. i = j
  BY <1>1, <1>3 DEF Call, IInv, TypeOK
<1>5. QED
  BY <1>3, <1>4

\* Interval: two calls of an interval answer ticks at least its length apart.
THEOREM CallsSpaced == Spec => Spaced
<1>1. ASSUME IInv, [Next]_vars, NEW j \in Intervals, calls'[j] > calls[j], last[j] # 0
      PROVE  last'[j] >= last[j] + When[j]
  <2>1. j \in Jobs /\ Kind[j] = "interval"
    BY <1>1 DEF Intervals
  <2>2. Call(j)
    BY <1>1, <2>1, OnlyCall
  <2>3. last'[j] = now
    <3>1. Key(j, now) = now
      BY <2>1 DEF Key
    <3>2. last'[j] = Key(j, now)
      BY <1>1, <2>1, <2>2 DEF Call, IInv, TypeOK
    <3>3. QED
      BY <3>1, <3>2
  <2>4. QED
    BY <1>1, <2>2, <2>3 DEF IInv, Deadlines, Due, Call
<1>2. IInv /\ [Next]_vars =>
        [\A j \in Intervals :
           (calls'[j] > calls[j] /\ last[j] # 0) => last'[j] >= last[j] + When[j]]_vars
  BY <1>1
<1>3. QED
  BY <1>2, InitIInv, NextKeeps, PTL DEF Spec, Spaced

-----------------------------------------------------------------------------
(* The scheduler implements OncePerKey. *)

LEMMA InitImplements == Init => Promise!Init
BY DEF Init, Promise!Init, Guarded

\* A call of a guarded job is for a new key, or against a slip.
LEMMA CallImplements ==
  ASSUME IInv, NEW j \in Guarded, Call(j)
  PROVE  Promise!Next
<1> DEFINE k == Key(j, now)
           credit == [i \in Guarded |-> slips[i] - repeats[i]]
<1>1. /\ j \in Jobs /\ k \in Nat /\ last[j] \in Nat /\ last[j] <= k
      /\ slips \in [Jobs -> Nat] /\ repeats \in [Jobs -> Nat]
      /\ calls \in [Jobs -> Nat] /\ last \in [Jobs -> Nat]
      /\ now \in Times
  BY NowTyped, KeyTyped DEF IInv, TypeOK, TimesForward, Guarded
<1>2. /\ calls' = [calls EXCEPT ![j] = @ + 1]
      /\ last' = [last EXCEPT ![j] = k]
      /\ repeats' = [repeats EXCEPT ![j] = IF last[j] = k THEN @ + 1 ELSE @]
      /\ slips' = slips
  BY DEF Call
<1>3. [i \in Guarded |-> calls'[i]] = [[i \in Guarded |-> calls[i]] EXCEPT ![j] = @ + 1]
  BY <1>1, <1>2 DEF Guarded
<1>4. [i \in Guarded |-> last'[i]] = [[i \in Guarded |-> last[i]] EXCEPT ![j] = k]
  BY <1>1, <1>2 DEF Guarded
<1>5. CASE last[j] = k
  <2>1. repeats[j] < slips[j]
    BY <1>5 DEF IInv, Accounted, Due, Call
  <2>2. credit[j] > 0
    BY <1>1, <2>1
  <2>3. credit' = [credit EXCEPT ![j] = @ - 1]
    BY <1>1, <1>2, <1>5 DEF Guarded
  <2>4. [i \in Guarded |-> last'[i]] = [i \in Guarded |-> last[i]]
    BY <1>1, <1>4, <1>5
  <2>5. Promise!CallAgain(j)
    BY <1>3, <2>2, <2>3, <2>4 DEF Promise!CallAgain
  <2>6. QED
    BY <2>5 DEF Promise!Next
<1>6. CASE last[j] # k
  <2>1. k > last[j]
    BY <1>1, <1>6
  <2>2. credit' = credit
    BY <1>1, <1>2, <1>6 DEF Guarded
  <2>3. PICK m \in {Key(i, t) : i \in Guarded, t \in Times} : m = k
    BY <1>1
  <2>4. Promise!CallNext(j, m)
    BY <1>3, <1>4, <2>1, <2>2, <2>3 DEF Promise!CallNext
  <2>5. QED
    BY <2>4 DEF Promise!Next
<1>7. QED
  BY <1>5, <1>6

\* A check of a guarded job leaves the calls alone, and may slip.
LEMMA CheckImplements ==
  ASSUME IInv, NEW j \in Guarded, CheckGuarded(j)
  PROVE  \/ Promise!Next
         \/ UNCHANGED <<[i \in Guarded |-> calls[i]], [i \in Guarded |-> last[i]],
                        [i \in Guarded |-> slips[i] - repeats[i]]>>
<1> DEFINE credit == [i \in Guarded |-> slips[i] - repeats[i]]
<1>1. UNCHANGED <<calls, last, repeats>>
  BY DEF CheckGuarded, history
<1>2. PICK r \in Read(j), failed \in {0, 1} : slips' = [slips EXCEPT ![j] = @ + r[2] + failed]
  BY DEF CheckGuarded
<1>3. r[2] \in {0, 1}
  BY DEF Read
<1>5. slips \in [Jobs -> Nat] /\ repeats \in [Jobs -> Nat] /\ j \in Jobs
  BY DEF IInv, TypeOK, Guarded
<1>4. PICK n \in {0, 1, 2} : slips' = [slips EXCEPT ![j] = @ + n]
  <2>1. slips[j] \in Nat
    BY <1>5
  <2>2. r[2] + failed \in {0, 1, 2} /\ slips[j] + r[2] + failed = slips[j] + (r[2] + failed)
    BY <1>3, <2>1
  <2>3. slips' = [slips EXCEPT ![j] = slips[j] + (r[2] + failed)]
    BY <1>2, <2>2
  <2>4. QED
    BY <2>2, <2>3
<1>6. credit' = [credit EXCEPT ![j] = @ + n]
  BY <1>1, <1>4, <1>5 DEF Guarded
<1>7. CASE n = 0
  <2>1. slips' = slips
    BY <1>4, <1>5, <1>7
  <2>2. QED
    BY <1>1, <2>1
<1>8. CASE n \in {1, 2}
  <2>1. Promise!Slip(j, n)
    BY <1>1, <1>6 DEF Promise!Slip
  <2>2. QED
    BY <1>8, <2>1 DEF Promise!Next
<1>9. QED
  BY <1>7, <1>8

\* DailyAt and Once: a guarded job is called at most once for a key, but for failures
\* of the store, whatever jobs, calendar, panics and restarts there are.
THEOREM ImplementsOncePerKey == Spec => KeepsPromise
<1>1. ASSUME IInv, [Next]_vars
      PROVE  [Promise!Next]_<<[i \in Guarded |-> calls[i]], [i \in Guarded |-> last[i]],
                              [i \in Guarded |-> slips[i] - repeats[i]]>>
  <2>1. CASE \E j \in Guarded : Call(j)
    BY <1>1, <2>1, CallImplements
  <2>2. CASE \E j \in Guarded : CheckGuarded(j)
    BY <1>1, <2>2, CheckImplements
  <2>3. ASSUME NEW j \in Jobs \ Guarded, Call(j)
        PROVE  UNCHANGED <<[i \in Guarded |-> calls[i]], [i \in Guarded |-> last[i]],
                           [i \in Guarded |-> slips[i] - repeats[i]]>>
    <3>1. \A i \in Guarded : /\ i \in Jobs
                              /\ calls'[i] = calls[i] /\ last'[i] = last[i]
                              /\ repeats'[i] = repeats[i] /\ slips'[i] = slips[i]
      BY <1>1, <2>3 DEF Call, IInv, TypeOK, Guarded
    <3>2. QED
      BY <3>1
  <2>4. CASE UNCHANGED <<calls, last, slips, repeats>>
    BY <2>4
  <2>5. QED
    BY <1>1, <2>1, <2>2, <2>3, <2>4
       DEF Next, Pass, Later, Tick, BeginPass, CheckInterval, CheckGuarded, Return, Crash, vars,
           history
<1>2. IInv /\ [Next]_vars =>
        [Promise!Next]_<<[j \in Guarded |-> calls[j]], [j \in Guarded |-> last[j]],
                         [j \in Guarded |-> slips[j] - repeats[j]]>>
  BY <1>1
<1>3. Spec => []IInv
  BY InitIInv, NextKeeps, PTL DEF Spec
<1>4. Spec => [][Promise!Next]_<<[j \in Guarded |-> calls[j]], [j \in Guarded |-> last[j]],
                         [j \in Guarded |-> slips[j] - repeats[j]]>>
  BY <1>2, <1>3, PTL DEF Spec
<1>5. Spec => Promise!Init
  BY InitImplements DEF Spec
<1>6. QED
  BY <1>4, <1>5, PTL DEF KeepsPromise, Promise!Spec

=============================================================================
