--------------------------- MODULE RemindersProofs ---------------------------
(* Theorems about Reminders, for every value of its constants. *)
EXTENDS Reminders, TLAPS

\* Of a row or a copy of one: it has a next time exactly while it is active.
Coherent(r) == r.state = "active" <=> r.next # 0

\* What makes ScheduledWhileActive inductive: copies are read from due rows, stay
\* active while the agent has not decided, and are coherent when they are written.
CopiesOK ==
  /\ \A s \in scan : s.copy.state = "active" /\ s.copy.next # 0
  /\ \A id \in Ids :
       /\ Coherent(run[id].copy)
       /\ run[id].pc \in {"start", "plan", "send", "register", "wait", "leave", "react"}
            => run[id].copy.state = "active"

IInv ==
  /\ TypeOK
  /\ ClaimedWhileRunning
  /\ OwnerIsWaiting
  /\ ScheduledWhileActive
  /\ CopiesOK

LEMMA AbsentTyped == Absent \in Row /\ NoRun \in Run /\ Coherent(Absent)
BY DEF Absent, Row, NoRun, Run, Pc, Coherent

\* What a run writes back is a coherent row.
LEMMA DecisionsCoherent ==
  ASSUME now \in Nat \ {0}, NEW r \in Row, NEW d \in Decisions(r)
  PROVE  d \in Row /\ Coherent(d)
<1>1. CASE \E s \in {"done", "cancelled"} : d = [r EXCEPT !.state = s, !.next = 0]
  <2>1. PICK s \in {"done", "cancelled"} : d = [r EXCEPT !.state = s, !.next = 0]
    BY <1>1
  <2>2. d = [state |-> s, next |-> 0, runs |-> r.runs]
    BY <2>1 DEF Row
  <2>3. QED
    BY <2>2 DEF Row, Coherent
<1>2. CASE \E t \in Times : d = [r EXCEPT !.state = "active", !.next = t]
  <2>1. PICK t \in Times : d = [r EXCEPT !.state = "active", !.next = t]
    BY <1>2
  <2>2. t \in Nat /\ t # 0
    BY DEF Times
  <2>3. d = [state |-> "active", next |-> t, runs |-> r.runs]
    BY <2>1 DEF Row
  <2>4. QED
    BY <2>2, <2>3 DEF Row, Coherent
<1>3. QED
  BY <1>1, <1>2 DEF Decisions

LEMMA RetryCoherent ==
  ASSUME now \in Nat \ {0}, NEW r \in Row, r.state = "active"
  PROVE  Retry(r) \in Row /\ Coherent(Retry(r))
BY DEF Retry, Row, Coherent

\* A step that moves one run to another point of runReminder, and leaves the table,
\* the claims and the map alone.
LEMMA RunMoves ==
  ASSUME IInv, NEW id \in Ids, NEW pc \in Pc \ {"none", "wait"}, NEW c \in Row,
         run[id].pc # "none", run[id].pc \in {"wait", "leave"} => pc = "leave",
         Coherent(c),
         pc \in {"start", "plan", "send", "register", "leave", "react"}
           => c.state = "active",
         GoTo(id, pc, c), UNCHANGED <<row, scan, running, waiting, box, now, bounds>>
  PROVE  IInv'
<1> USE DEF IInv, bounds
<1>1. run \in [Ids -> Run] /\ waiting \in [Recipients -> Ids \cup {Nobody}]
  BY DEF TypeOK
<1>2. [pc |-> pc, copy |-> c] \in Run
  BY DEF Run
<1>3. run'[id] = [pc |-> pc, copy |-> c] /\ \A i \in Ids \ {id} : run'[i] = run[i]
  BY <1>1 DEF GoTo
<1>4. TypeOK'
  BY <1>1, <1>2 DEF GoTo, TypeOK
<1>5. ClaimedWhileRunning'
  BY <1>3 DEF ClaimedWhileRunning
<1>6. OwnerIsWaiting'
  BY <1>1, <1>3 DEF OwnerIsWaiting
<1>7. ScheduledWhileActive'
  BY DEF ScheduledWhileActive
<1>8. CopiesOK'
  BY <1>3 DEF CopiesOK, Coherent
<1>9. QED
  BY <1>4, <1>5, <1>6, <1>7, <1>8

\* A step on the table alone that keeps every row coherent.
LEMMA TableMoves ==
  ASSUME IInv, row' \in [Ids -> Row], \A id \in Ids : Coherent(row'[id]),
         cancels' \in Nat,
         UNCHANGED <<scan, running, run, waiting, box, now, crashes>>
  PROVE  IInv'
<1>1. TypeOK'
  BY DEF IInv, TypeOK
<1>2. ScheduledWhileActive'
  BY DEF ScheduledWhileActive, Coherent
<1>3. QED
  BY <1>1, <1>2 DEF IInv, ClaimedWhileRunning, OwnerIsWaiting, CopiesOK

-----------------------------------------------------------------------------
LEMMA InitInv == Init => IInv
<1> SUFFICES ASSUME Init PROVE IInv
  OBVIOUS
<1>1. TypeOK
  BY AbsentTyped DEF Init, TypeOK
<1>2. ClaimedWhileRunning /\ OwnerIsWaiting /\ ScheduledWhileActive /\ CopiesOK
  BY AbsentTyped DEF Init, ClaimedWhileRunning, OwnerIsWaiting, ScheduledWhileActive,
     CopiesOK, NoRun, Absent, Coherent
<1>3. QED
  BY <1>1, <1>2 DEF IInv

LEMMA CommandInv ==
  ASSUME IInv, NEW id \in Ids, createReply(id) \/ cancelReply(id)
  PROVE  IInv'
<1> USE DEF bounds
<1>1. row \in [Ids -> Row] /\ now \in Nat \ {0} /\ cancels \in Nat
  BY DEF IInv, TypeOK
<1>2. \A i \in Ids : Coherent(row[i])
  BY DEF IInv, ScheduledWhileActive, Coherent
<1>3. CASE createReply(id)
  <2>1. PICK t \in Times :
          row' = [row EXCEPT ![id] = [state |-> "active", next |-> t, runs |-> 0]]
    BY <1>3 DEF createReply
  <2>2. [state |-> "active", next |-> t, runs |-> 0] \in Row
    BY <1>1 DEF Times, Row
  <2>3. \A i \in Ids : Coherent(row'[i])
    BY <1>1, <1>2, <2>1 DEF Coherent, Times
  <2>4. row' \in [Ids -> Row]
    BY <1>1, <2>1, <2>2
  <2>5. QED
    BY <1>1, <1>3, <2>3, <2>4, TableMoves DEF createReply
<1>4. CASE cancelReply(id)
  <2>1. [row[id] EXCEPT !.state = "cancelled", !.next = 0] \in Row
    BY <1>1 DEF Row
  <2>2. row' = [row EXCEPT ![id] = [row[id] EXCEPT !.state = "cancelled", !.next = 0]]
    BY <1>1, <1>4 DEF cancelReply
  <2>3. \A i \in Ids : Coherent(row'[i])
    BY <1>1, <1>2, <2>2 DEF Coherent, Row
  <2>4. row' \in [Ids -> Row]
    BY <1>1, <2>1, <2>2
  <2>5. QED
    BY <1>1, <1>4, <2>3, <2>4, TableMoves DEF cancelReply
<1>5. QED
  BY <1>3, <1>4

LEMMA TickInv ==
  ASSUME IInv, Tick
  PROVE  IInv'
<1> USE DEF bounds
<1>1. CASE ScanDue
  <2>1. \A s \in scan' : /\ s \in [id : Ids, copy : Row]
                         /\ s.copy.state = "active" /\ s.copy.next # 0
    BY <1>1 DEF ScanDue, Due, IInv, TypeOK
  <2>2. TypeOK'
    BY <1>1, <2>1 DEF ScanDue, IInv, TypeOK
  <2>3. QED
    BY <1>1, <2>1, <2>2 DEF ScanDue, IInv, ClaimedWhileRunning, OwnerIsWaiting,
       ScheduledWhileActive, CopiesOK
<1>2. ASSUME NEW id \in Ids, claimRun(id)
      PROVE  IInv'
  <2>1. PICK s \in scan :
          /\ s.id = id
          /\ scan' = scan \ {s}
          /\ IF id \in running
               THEN UNCHANGED <<running, run>>
               ELSE /\ running' = running \cup {id}
                    /\ run' = [run EXCEPT ![id] = [pc |-> "start", copy |-> s.copy]]
    BY <1>2 DEF claimRun
  <2>2. s \in [id : Ids, copy : Row]
    BY DEF IInv, TypeOK
  <2>3. CASE id \in running
    BY <1>2, <2>1, <2>3 DEF claimRun, IInv, TypeOK, ClaimedWhileRunning, OwnerIsWaiting,
       ScheduledWhileActive, CopiesOK
  <2>4. CASE id \notin running
    <3>1. run \in [Ids -> Run] /\ waiting \in [Recipients -> Ids \cup {Nobody}]
      BY DEF IInv, TypeOK
    <3>2. /\ run'[id] = [pc |-> "start", copy |-> s.copy]
          /\ \A i \in Ids \ {id} : run'[i] = run[i]
      BY <2>1, <2>4, <3>1
    <3>3. [pc |-> "start", copy |-> s.copy] \in Run
      BY <2>2 DEF Run, Pc
    <3>4. TypeOK'
      BY <1>2, <2>1, <2>4, <3>1, <3>3 DEF claimRun, IInv, TypeOK
    <3>5. ClaimedWhileRunning'
      BY <2>1, <2>4, <3>2 DEF IInv, ClaimedWhileRunning
    <3>6. run[id].pc = "none"
      BY <2>4 DEF IInv, ClaimedWhileRunning
    <3>7. OwnerIsWaiting'
      BY <1>2, <3>1, <3>2, <3>6 DEF claimRun, IInv, OwnerIsWaiting
    <3>8. CopiesOK'
      BY <2>1, <3>2 DEF IInv, CopiesOK, Coherent
    <3>9. ScheduledWhileActive'
      BY <1>2 DEF claimRun, IInv, ScheduledWhileActive
    <3>10. QED
      BY <3>4, <3>5, <3>7, <3>8, <3>9 DEF IInv
  <2>5. QED
    BY <2>3, <2>4
<1>3. QED
  BY <1>1, <1>2 DEF Tick

LEMMA RunInv ==
  ASSUME IInv, NEW id \in Ids, runReminder(id) \/ Panic(id)
  PROVE  IInv'
<1> DEFINE r == run[id].copy
<1>1. /\ run \in [Ids -> Run] /\ row \in [Ids -> Row] /\ now \in Nat \ {0}
      /\ waiting \in [Recipients -> Ids \cup {Nobody}]
  BY DEF IInv, TypeOK
<1>2. r \in Row /\ Coherent(r)
  BY <1>1 DEF IInv, Run, CopiesOK
<1>3. run[id].pc \in {"start", "plan", "send", "register", "wait", "leave", "react"}
        => r.state = "active"
  BY DEF IInv, CopiesOK
<1> HIDE DEF r
<1>4. CASE CheckCap(id)
  <2>1. CASE GoTo(id, "save", [r EXCEPT !.state = "done", !.next = 0])
    <3>1. [r EXCEPT !.state = "done", !.next = 0] \in Row
      BY <1>2 DEF Row
    <3>2. Coherent([r EXCEPT !.state = "done", !.next = 0])
      BY <1>2 DEF Coherent, Row
    <3>3. QED
      BY <1>4, <2>1, <3>1, <3>2, RunMoves DEF CheckCap, Pc
  <2>2. CASE GoTo(id, "plan", r)
    BY <1>2, <1>3, <1>4, <2>2, RunMoves DEF CheckCap, Pc
  <2>3. QED
    BY <1>4, <2>1, <2>2 DEF CheckCap, r
<1>5. ASSUME PlanTurn(id) \/ ReactTurn(id), GoTo(id, "save", Retry(r))
      PROVE  IInv'
  <2>1. Retry(r) \in Row /\ Coherent(Retry(r))
    BY <1>1, <1>2, <1>3, <1>5, RetryCoherent DEF PlanTurn, ReactTurn
  <2>2. QED
    BY <1>5, <2>1, RunMoves DEF PlanTurn, ReactTurn, Pc
<1>6. ASSUME PlanTurn(id) \/ ReactTurn(id), NEW d \in Decisions(r), GoTo(id, "save", d)
      PROVE  IInv'
  <2>1. d \in Row /\ Coherent(d)
    BY <1>1, <1>2, <1>6, DecisionsCoherent
  <2>2. QED
    BY <1>6, <2>1, RunMoves DEF PlanTurn, ReactTurn, Pc
<1>7. CASE PlanTurn(id)
  <2>1. CASE GoTo(id, "send", [r EXCEPT !.runs = @ + 1])
    <3>1. [r EXCEPT !.runs = @ + 1] \in Row
      BY <1>2 DEF Row
    <3>2. Coherent([r EXCEPT !.runs = @ + 1]) /\ [r EXCEPT !.runs = @ + 1].state = r.state
      BY <1>2 DEF Coherent, Row
    <3>3. QED
      BY <1>3, <1>7, <2>1, <3>1, <3>2, RunMoves DEF PlanTurn, Pc
  <2>2. QED
    BY <1>5, <1>6, <1>7, <2>1 DEF PlanTurn, r
<1>8. CASE SendNudge(id)
  <2>1. GoTo(id, "register", r)
    BY <1>8 DEF SendNudge, r
  <2>2. QED
    BY <1>2, <1>3, <1>8, <2>1, RunMoves DEF SendNudge, Pc
<1>9. CASE Register(id)
  <2>1. /\ run'[id] = [pc |-> "wait", copy |-> r]
        /\ \A i \in Ids \ {id} : run'[i] = run[i]
    BY <1>1, <1>9 DEF Register, GoTo, r
  <2>2. RecipientOf[id] \in Recipients
    BY RemindersAssumption
  <2>3. [pc |-> "wait", copy |-> r] \in Run
    BY <1>2 DEF Run, Pc
  <2>4. TypeOK'
    BY <1>1, <1>9, <2>2, <2>3 DEF Register, GoTo, IInv, TypeOK, bounds, r
  <2>5. ClaimedWhileRunning'
    BY <1>9, <2>1 DEF Register, IInv, ClaimedWhileRunning
  <2>6. OwnerIsWaiting'
    BY <1>1, <1>9, <2>1, <2>2 DEF Register, IInv, OwnerIsWaiting
  <2>7. CopiesOK' /\ ScheduledWhileActive'
    BY <1>2, <1>3, <1>9, <2>1 DEF Register, IInv, CopiesOK, Coherent, ScheduledWhileActive
  <2>8. QED
    BY <2>4, <2>5, <2>6, <2>7 DEF IInv
<1>10. CASE EndWait(id)
  <2>1. PICK c \in {r, [r EXCEPT !.runs = 0]} : GoTo(id, "leave", c)
    BY <1>10 DEF EndWait, r
  <2>2. c \in Row /\ c.state = r.state /\ c.next = r.next
    BY <1>2 DEF Row
  <2>3. QED
    BY <1>2, <1>3, <1>10, <2>1, <2>2, RunMoves DEF EndWait, Coherent, Pc
<1>11. CASE Leave(id)
  <2>1. /\ run'[id] = [pc |-> "react", copy |-> r]
        /\ \A i \in Ids \ {id} : run'[i] = run[i]
    BY <1>1, <1>11 DEF Leave, GoTo, r
  <2>2. RecipientOf[id] \in Recipients
    BY RemindersAssumption
  <2>3. [pc |-> "react", copy |-> r] \in Run
    BY <1>2 DEF Run, Pc
  <2>4. TypeOK'
    BY <1>1, <1>11, <2>2, <2>3 DEF Leave, GoTo, IInv, TypeOK, bounds, r
  <2>5. ClaimedWhileRunning'
    BY <1>11, <2>1 DEF Leave, IInv, ClaimedWhileRunning
  <2>6. OwnerIsWaiting'
    BY <1>1, <1>11, <2>1, <2>2 DEF Leave, IInv, OwnerIsWaiting
  <2>7. CopiesOK' /\ ScheduledWhileActive'
    BY <1>2, <1>3, <1>11, <2>1 DEF Leave, IInv, CopiesOK, Coherent, ScheduledWhileActive
  <2>8. QED
    BY <2>4, <2>5, <2>6, <2>7 DEF IInv
<1>12. CASE ReactTurn(id)
  BY <1>5, <1>6, <1>12 DEF ReactTurn, r
<1>13. CASE Save(id)
  <2>1. \/ row' = [row EXCEPT ![id] = r]
        \/ UNCHANGED row
    BY <1>13 DEF Save, r
  <2>2. /\ run'[id] = [pc |-> "release", copy |-> r]
        /\ \A i \in Ids \ {id} : run'[i] = run[i]
    BY <1>1, <1>13 DEF Save, GoTo, r
  <2>3. [pc |-> "release", copy |-> r] \in Run
    BY <1>2 DEF Run, Pc
  <2>4. row' \in [Ids -> Row] /\ \A i \in Ids : row'[i] = row[i] \/ row'[i] = r
    BY <1>1, <1>2, <2>1
  <2>5. TypeOK'
    BY <1>1, <1>13, <2>3, <2>4 DEF Save, GoTo, IInv, TypeOK, bounds, r
  <2>6. ClaimedWhileRunning' /\ OwnerIsWaiting'
    BY <1>1, <1>13, <2>2 DEF Save, IInv, ClaimedWhileRunning, OwnerIsWaiting
  <2>7. ScheduledWhileActive'
    BY <1>1, <1>2, <2>4 DEF IInv, ScheduledWhileActive, Coherent
  <2>8. CopiesOK'
    BY <1>2, <1>13, <2>2 DEF Save, IInv, CopiesOK, Coherent
  <2>9. QED
    BY <2>5, <2>6, <2>7, <2>8 DEF IInv
<1>14. CASE releaseRun(id)
  <2>1. run'[id] = NoRun /\ \A i \in Ids \ {id} : run'[i] = run[i]
    BY <1>1, <1>14 DEF releaseRun
  <2>2. TypeOK'
    BY <1>1, <1>14, AbsentTyped DEF releaseRun, IInv, TypeOK, bounds
  <2>3. ClaimedWhileRunning' /\ OwnerIsWaiting'
    BY <1>1, <1>14, <2>1 DEF releaseRun, IInv, ClaimedWhileRunning, OwnerIsWaiting, NoRun
  <2>4. CopiesOK' /\ ScheduledWhileActive'
    BY <1>14, <2>1, AbsentTyped
       DEF releaseRun, IInv, CopiesOK, Coherent, ScheduledWhileActive, NoRun
  <2>5. QED
    BY <2>2, <2>3, <2>4 DEF IInv
<1>15. CASE Panic(id)
  <2>1. GoTo(id, "release", r)
    BY <1>15 DEF Panic, r
  <2>2. QED
    BY <1>2, <1>15, <2>1, RunMoves DEF Panic, Pc
<1>16. QED
  BY <1>4, <1>7, <1>8, <1>9, <1>10, <1>12, <1>13, <1>14, <1>15,
     <1>11 DEF runReminder

LEMMA CrashInv ==
  ASSUME IInv, Crash
  PROVE  IInv'
<1>1. TypeOK'
  BY AbsentTyped DEF Crash, IInv, TypeOK
<1>2. ClaimedWhileRunning' /\ OwnerIsWaiting' /\ ScheduledWhileActive' /\ CopiesOK'
  BY AbsentTyped DEF Crash, IInv, ClaimedWhileRunning, OwnerIsWaiting,
     ScheduledWhileActive, CopiesOK, NoRun, Absent, Coherent
<1>3. QED
  BY <1>1, <1>2 DEF IInv

LEMMA StepInv == IInv /\ [Next]_vars => IInv'
<1> SUFFICES ASSUME IInv, [Next]_vars PROVE IInv'
  OBVIOUS
<1>1. CASE UNCHANGED vars
  BY <1>1 DEF vars, IInv, TypeOK, ClaimedWhileRunning, OwnerIsWaiting,
     ScheduledWhileActive, CopiesOK
<1>2. ASSUME NEW p \in Recipients, Feed(p)
      PROVE  IInv'
  <2>1. TypeOK'
    BY <1>2 DEF Feed, IInv, TypeOK, bounds
  <2>2. QED
    BY <1>2, <2>1 DEF Feed, IInv, ClaimedWhileRunning, OwnerIsWaiting,
       ScheduledWhileActive, CopiesOK
<1>3. CASE Clock
  <2>1. TypeOK'
    BY <1>3 DEF Clock, IInv, TypeOK, bounds
  <2>2. QED
    BY <1>3, <2>1 DEF Clock, IInv, ClaimedWhileRunning, OwnerIsWaiting,
       ScheduledWhileActive, CopiesOK
<1>4. QED
  BY <1>1, <1>2, <1>3, CommandInv, TickInv, RunInv, CrashInv DEF Next

-----------------------------------------------------------------------------
(* The theorems. *)

\* In every reachable state, whatever the constants, IInv holds.
THEOREM Inductive == Spec => []IInv
<1>1. QED
  BY InitInv, StepInv, PTL DEF Spec

\* Every variable keeps the kind of value the code gives it.
THEOREM TypeCorrect == Spec => []TypeOK
<1>1. IInv => TypeOK
  BY DEF IInv
<1>2. QED
  BY <1>1, Inductive, PTL

\* For any number of reminders, panics and restarts, a reminder is claimed exactly
\* while it has a run (claimRun, releaseRun).
THEOREM OneRunEach == Spec => []ClaimedWhileRunning
<1>1. IInv => ClaimedWhileRunning
  BY DEF IInv
<1>2. QED
  BY <1>1, Inductive, PTL

\* However many reminders share a recipient, a reply is only ever taken by a run that
\* is inside waitReply for that recipient (waitReply, feed).
THEOREM RepliesReachWaiters == Spec => []OwnerIsWaiting
<1>1. IInv => OwnerIsWaiting
  BY DEF IInv
<1>2. QED
  BY <1>1, Inductive, PTL

=============================================================================
