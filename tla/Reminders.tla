------------------------------ MODULE Reminders ------------------------------
(***************************************************************************)
(* The reminders component (src/internal/reminders) over its table of       *)
(* agent.db (src/internal/store/reminders.go).  The goroutines:             *)
(*                                                                          *)
(*   - the scheduler's tick runs FireDue: it reads the due rows, then       *)
(*     claims each and starts a run for it,                                 *)
(*   - a run works on its own copy of the row: it asks the agent, may send  *)
(*     a nudge, waits for the reply, asks again, and at the end writes the  *)
(*     whole copy back,                                                     *)
(*   - commands create and cancel rows, and the subscribe loop feeds        *)
(*     replies, at any moment in between.                                   *)
(*                                                                          *)
(* claimRun keeps one run per reminder, so a run is named by its reminder,  *)
(* and so is the reply channel it makes.                                    *)
(*                                                                          *)
(* Abstracted: texts, who may cancel what, carry-over notes, the event      *)
(* fields, audit rows.  Reminders are enabled and MaxRuns does not change.  *)
(* The other writers of the table, the morning briefing and rescheduling,   *)
(* are not part of this module.                                             *)
(***************************************************************************)
EXTENDS Naturals, FiniteSets

CONSTANTS
  Ids,          \* reminder ids
  Recipients,
  RecipientOf,  \* [Ids -> Recipients]
  Nobody,       \* no run waits on a recipient
  MaxRuns,      \* Config.MaxRuns: nudges sent without a reply
  MaxTime,      \* bound: the clock runs from 1 to MaxTime
  MaxCancels,   \* bound: cancel commands
  MaxCrashes,   \* bound: crashes of the agent process
  Faults        \* which failures happen: "agent", "panic", "store"

ASSUME RemindersAssumption ==
  /\ RecipientOf \in [Ids -> Recipients]
  /\ Nobody \notin Ids
  /\ MaxRuns \in Nat \ {0}
  /\ MaxTime \in Nat \ {0}
  /\ MaxCancels \in Nat
  /\ MaxCrashes \in Nat
  /\ Faults \subseteq {"agent", "panic", "store"}

VARIABLES
  row,      \* the reminders table
  scan,     \* rows the tick has read and not yet claimed
  running,  \* d.running: reminders with a run in flight
  run,      \* each reminder's run: where it is, and its copy of the row
  waiting,  \* d.waiting: the run whose channel a recipient's reply goes to
  box,      \* the runs whose channel (of capacity 1) holds a reply
  now,      \* the clock
  cancels,  \* bound: cancel commands so far
  crashes   \* bound: crashes so far

vars == <<row, scan, running, run, waiting, box, now, cancels, crashes>>
bounds == <<cancels, crashes>>

\* next = 0 is an empty next_at.
Row == [state : {"absent", "active", "done", "cancelled"}, next : Nat, runs : Nat]
Absent == [state |-> "absent", next |-> 0, runs |-> 0]

Pc == {"none", "start", "plan", "send", "register", "wait", "leave", "react", "save",
       "release"}
Run == [pc : Pc, copy : Row]
NoRun == [pc |-> "none", copy |-> Absent]

\* The times a reminder may be given: at once, or later.
Times == {now, now + 1}

\* parseNext: NEXT is DONE, CANCEL or a time; what cannot be parsed is a later time.
Decisions(r) ==
  {[r EXCEPT !.state = s, !.next = 0] : s \in {"done", "cancelled"}}
  \cup {[r EXCEPT !.state = "active", !.next = t] : t \in Times}

\* After a failed turn: later, in the state the copy has.
Retry(r) == [r EXCEPT !.next = now + 1]

Due(id) == row[id].state = "active" /\ row[id].next # 0 /\ row[id].next <= now

-----------------------------------------------------------------------------
(* Commands. *)

\* createReply plans the first time with the agent, then inserts the row.
createReply(id) ==
  /\ row[id] = Absent
  /\ \E t \in Times : row' = [row EXCEPT ![id] = [state |-> "active", next |-> t, runs |-> 0]]
  /\ UNCHANGED <<scan, running, run, waiting, box, now, bounds>>

\* Mutant: the state is not one of those the rest of the code knows.
cancelReply_OtherState(id) ==
  /\ cancels < MaxCancels
  /\ cancels' = cancels + 1
  /\ row[id] # Absent
  /\ row' = [row EXCEPT ![id].state = "canceled", ![id].next = 0]
  /\ UNCHANGED <<scan, running, run, waiting, box, now, crashes>>

\* cancelReply: any row that exists, whatever its state and whatever runs.
cancelReply(id) ==
  /\ cancels < MaxCancels
  /\ cancels' = cancels + 1
  /\ row[id] # Absent
  /\ row' = [row EXCEPT ![id].state = "cancelled", ![id].next = 0]
  /\ UNCHANGED <<scan, running, run, waiting, box, now, crashes>>

-----------------------------------------------------------------------------
(* The scheduler's tick. *)

\* FireDue reads the due rows in one query ...
ScanDue ==
  /\ scan = {}
  /\ scan' = {[id |-> id, copy |-> row[id]] : id \in {i \in Ids : Due(i)}}
  /\ UNCHANGED <<row, running, run, waiting, box, now, bounds>>

\* Mutant: the reminder is not marked as running.
claimRun_NoMark(id) ==
  /\ \E s \in scan :
       /\ s.id = id
       /\ scan' = scan \ {s}
       /\ IF id \in running
            THEN UNCHANGED <<running, run>>
            ELSE /\ run' = [run EXCEPT ![id] = [pc |-> "start", copy |-> s.copy]]
                 /\ UNCHANGED running
  /\ UNCHANGED <<row, waiting, box, now, bounds>>

\* ... and later claims them one by one: a reminder with a run in flight is
\* skipped, the run of any other starts from the row as it was read.
claimRun(id) ==
  /\ \E s \in scan :
       /\ s.id = id
       /\ scan' = scan \ {s}
       /\ IF id \in running
            THEN UNCHANGED <<running, run>>
            ELSE /\ running' = running \cup {id}
                 /\ run' = [run EXCEPT ![id] = [pc |-> "start", copy |-> s.copy]]
  /\ UNCHANGED <<row, waiting, box, now, bounds>>

-----------------------------------------------------------------------------
(* runReminder. *)

GoTo(id, pc, copy) == run' = [run EXCEPT ![id] = [pc |-> pc, copy |-> copy]]

\* A reminder at the cap is finished without another nudge.
CheckCap(id) ==
  /\ run[id].pc = "start"
  /\ LET r == run[id].copy IN
     IF r.runs >= MaxRuns
       THEN GoTo(id, "save", [r EXCEPT !.state = "done", !.next = 0])
       ELSE GoTo(id, "plan", r)
  /\ UNCHANGED <<row, scan, running, waiting, box, now, bounds>>

\* Turn 1: an error, a quiet run that only decides, or a nudge to send.
PlanTurn(id) ==
  /\ run[id].pc = "plan"
  /\ LET r == run[id].copy IN
     \/ "agent" \in Faults /\ GoTo(id, "save", Retry(r))
     \/ \E r2 \in Decisions(r) : GoTo(id, "save", r2)
     \/ GoTo(id, "send", [r EXCEPT !.runs = @ + 1])
  /\ UNCHANGED <<row, scan, running, waiting, box, now, bounds>>

\* The nudge goes out before anybody listens for its reply.
SendNudge(id) ==
  /\ run[id].pc = "send"
  /\ GoTo(id, "register", run[id].copy)
  /\ UNCHANGED <<row, scan, running, waiting, box, now, bounds>>

\* waitReply puts a new channel in the map, whatever it held for the recipient.
Register(id) ==
  /\ run[id].pc = "register"
  /\ waiting' = [waiting EXCEPT ![RecipientOf[id]] = id]
  /\ box' = box \ {id}
  /\ GoTo(id, "wait", run[id].copy)
  /\ UNCHANGED <<row, scan, running, now, bounds>>

\* The select ends with the reply or by timeout, even when both are ready.
EndWait(id) ==
  /\ run[id].pc = "wait"
  /\ LET r == run[id].copy IN
     \/ id \in box /\ GoTo(id, "leave", [r EXCEPT !.runs = 0])
     \/ GoTo(id, "leave", r)
  /\ UNCHANGED <<row, scan, running, waiting, box, now, bounds>>

\* Mutant: the key of a wait that heard nothing stays in the map.
Leave_KeepsKey(id) ==
  /\ run[id].pc = "leave"
  /\ GoTo(id, "react", run[id].copy)
  /\ waiting' = IF run[id].copy.runs = 0
                  THEN [waiting EXCEPT ![RecipientOf[id]] = Nobody]
                  ELSE waiting
  /\ UNCHANGED <<row, scan, running, box, now, bounds>>

\* Only then is the recipient's entry deleted, whoever it belongs to: until then
\* a reply still goes into the channel nobody reads again.
Leave(id) ==
  /\ run[id].pc = "leave"
  /\ GoTo(id, "react", run[id].copy)
  /\ waiting' = [waiting EXCEPT ![RecipientOf[id]] = Nobody]
  /\ UNCHANGED <<row, scan, running, box, now, bounds>>

\* Turn 2: an error, or the decision (after an answer, if the agent gives one).
ReactTurn(id) ==
  /\ run[id].pc = "react"
  /\ LET r == run[id].copy IN
     \/ "agent" \in Faults /\ GoTo(id, "save", Retry(r))
     \/ \E r2 \in Decisions(r) : GoTo(id, "save", r2)
  /\ UNCHANGED <<row, scan, running, waiting, box, now, bounds>>

\* UpdateReminder writes the whole copy, whatever the row holds by then; when it
\* fails the run only logs that.
Save(id) ==
  /\ run[id].pc = "save"
  /\ \/ row' = [row EXCEPT ![id] = run[id].copy]
     \/ "store" \in Faults /\ UNCHANGED row
  /\ GoTo(id, "release", run[id].copy)
  /\ UNCHANGED <<scan, running, waiting, box, now, bounds>>

releaseRun(id) ==
  /\ run[id].pc = "release"
  /\ running' = running \ {id}
  /\ run' = [run EXCEPT ![id] = NoRun]
  /\ UNCHANGED <<row, scan, waiting, box, now, bounds>>

\* Mutant: a panic does not release the reminder.
Panic_NoRelease(id) ==
  /\ "panic" \in Faults
  /\ run[id].pc \in {"plan", "react"}
  /\ run' = [run EXCEPT ![id] = NoRun]
  /\ UNCHANGED <<row, scan, running, waiting, box, now, bounds>>

\* A panic in a turn is recovered: the run is released, and nothing is written.
Panic(id) ==
  /\ "panic" \in Faults
  /\ run[id].pc \in {"plan", "react"}
  /\ GoTo(id, "release", run[id].copy)
  /\ UNCHANGED <<row, scan, running, waiting, box, now, bounds>>

-----------------------------------------------------------------------------
\* The subscribe loop feeds a reply to the run in the map; a second one is dropped.
\* Owns and feed, which looks the channel up again, are one step here: a reply that
\* finds no entry the second time goes nowhere, as one that never came.
Feed(p) ==
  /\ waiting[p] # Nobody
  /\ box' = box \cup {waiting[p]}
  /\ UNCHANGED <<row, scan, running, run, waiting, now, bounds>>

Clock ==
  /\ now < MaxTime
  /\ now' = now + 1
  /\ UNCHANGED <<row, scan, running, run, waiting, box, bounds>>

\* The process dies; New starts with empty maps, and the table is what it was.
Crash ==
  /\ crashes < MaxCrashes
  /\ crashes' = crashes + 1
  /\ scan' = {}
  /\ running' = {}
  /\ run' = [id \in Ids |-> NoRun]
  /\ waiting' = [p \in Recipients |-> Nobody]
  /\ box' = {}
  /\ UNCHANGED <<row, now, cancels>>

-----------------------------------------------------------------------------
Init ==
  /\ row = [id \in Ids |-> Absent]
  /\ scan = {}
  /\ running = {}
  /\ run = [id \in Ids |-> NoRun]
  /\ waiting = [p \in Recipients |-> Nobody]
  /\ box = {}
  /\ now = 1
  /\ cancels = 0
  /\ crashes = 0

runReminder(id) ==
  \/ CheckCap(id) \/ PlanTurn(id) \/ SendNudge(id) \/ Register(id) \/ EndWait(id)
  \/ Leave(id) \/ ReactTurn(id) \/ Save(id) \/ releaseRun(id)

Tick == ScanDue \/ \E id \in Ids : claimRun(id)

Next ==
  \/ \E id \in Ids : createReply(id) \/ cancelReply(id) \/ runReminder(id) \/ Panic(id)
  \/ Tick
  \/ \E p \in Recipients : Feed(p)
  \/ Clock
  \/ Crash

Spec == Init /\ [][Next]_vars

\* The scheduler keeps ticking; a started run goes on: an agent turn is killed
\* after a timeout, and so is the wait for a reply.  Panics, replies, commands and
\* crashes need not happen, and the clock may stop at its bound.
Fairness ==
  /\ WF_vars(ScanDue)
  /\ \A id \in Ids : WF_vars(claimRun(id)) /\ WF_vars(runReminder(id))

FairSpec == Spec /\ Fairness

-----------------------------------------------------------------------------
(* Properties. *)

\* Every variable keeps the kind of value the code gives it.
TypeOK ==
  /\ row \in [Ids -> Row]
  /\ scan \in SUBSET [id : Ids, copy : Row]
  /\ running \in SUBSET Ids
  /\ run \in [Ids -> Run]
  /\ waiting \in [Recipients -> Ids \cup {Nobody}]
  /\ box \in SUBSET Ids
  /\ now \in Nat \ {0}
  /\ cancels \in Nat
  /\ crashes \in Nat

\* A reminder runs exactly as long as it is claimed: no second run of it can start,
\* and no claim is left behind by a run that ended or panicked (claimRun, releaseRun).
ClaimedWhileRunning ==
  \A id \in Ids : id \in running <=> run[id].pc # "none"

\* Whoever Owns says is waiting is inside waitReply, for that recipient: once a run
\* has gone on no reply is swallowed by it, although runs of one recipient overwrite
\* and delete each other's entries (waitReply, ownsKey).
OwnerIsWaiting ==
  \A p \in Recipients : waiting[p] # Nobody =>
    run[waiting[p]].pc \in {"wait", "leave"} /\ RecipientOf[waiting[p]] = p

\* As far as this component writes them, a row has a next time exactly while it is
\* active (apply, CancelReminder, DueReminders). A part of the inductive invariant and
\* no promise about the table: the briefing's add without a start, and a move of a row
\* that is done, leave other rows (morning/session.go, reschedule/session.go).
ScheduledWhileActive ==
  \A id \in Ids : row[id].state = "active" <=> row[id].next # 0

\* Although turns fail, runs panic and the process restarts, an active reminder whose
\* time has come gets its agent turn, or stops being due: the row stays due until a run
\* writes its outcome (FireDue). The store works: see the README for a row at the cap.
DueIsActedOn ==
  \A id \in Ids : Due(id) ~> run[id].pc = "plan" \/ ~Due(id)

=============================================================================
