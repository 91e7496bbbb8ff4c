--------------------------- MODULE ScheduledErrands ---------------------------
(***************************************************************************)
(* Errands asked for a later time (src/internal/errands/scheduled.go): a    *)
(* map in memory and one file for each schedule.  A command goroutine adds  *)
(* a schedule to the map and then writes its file; another takes it out and *)
(* then removes the file; the scheduler's tick claims all that are due and  *)
(* then, for one after the other, removes the file and starts the errand.   *)
(* d.mu covers only the map.  A restart fills the map from the files.       *)
(*                                                                          *)
(* Abstracted: targets, briefs and times beyond "due or not yet", and what  *)
(* becomes of an errand once startErrand is called (module Errands).        *)
(***************************************************************************)
EXTENDS Naturals, FiniteSets

CONSTANTS
  Ids,         \* schedule ids, never reused (newScheduledID)
  MaxCrashes,  \* bound: crashes of the agent process
  Faults       \* which failures happen: "save", "remove", "panic"

ASSUME ScheduledAssumption ==
  /\ MaxCrashes \in Nat
  /\ Faults \subseteq {"save", "remove", "panic"}

VARIABLES
  scheduled,  \* d.scheduled
  file,       \* scheduled-errands/<id>.json
  saving,     \* where scheduleErrand is, for each schedule
  dropping,   \* taken out by unschedule, the file still to be removed
  batch,      \* claimed by the tick, the file still to be removed
  firing,     \* its file removed, its errand not yet started
  due,        \* schedules whose time has come
  born,       \* ids handed out
  crashes,    \* bound: crashes so far
  told,       \* history: the owner was told the schedule is set
  gone,       \* history: taken out or fired for good, its file removed after it was told
  starts      \* history: startErrand calls for a schedule since the process started

vars == <<scheduled, file, saving, dropping, batch, firing, due, born, crashes,
          told, gone, starts>>
memory == <<scheduled, saving, dropping, batch, firing, starts>>
history == <<told, gone>>

File == {"missing", "empty", "whole"}

-----------------------------------------------------------------------------
(* Commands. *)

\* The schedule goes into the map first, and stays there if saving fails.
scheduleErrand(s) ==
  /\ s \notin born
  /\ born' = born \cup {s}
  /\ scheduled' = scheduled \cup {s}
  /\ saving' = [saving EXCEPT ![s] = "open"]
  /\ UNCHANGED <<file, dropping, batch, firing, due, crashes, history, starts>>

\* SaveScheduled, that is os.WriteFile, creates an empty file ...
OpenScheduled(s) ==
  /\ saving[s] = "open"
  /\ file' = [file EXCEPT ![s] = "empty"]
  /\ saving' = [saving EXCEPT ![s] = "write"]
  /\ UNCHANGED <<scheduled, dropping, batch, firing, due, born, crashes, history, starts>>

\* ... and fills it; what is written to a removed file is gone with it.
WriteScheduled(s) ==
  /\ saving[s] = "write"
  /\ file' = [file EXCEPT ![s] = IF @ = "empty" THEN "whole" ELSE @]
  /\ saving' = [saving EXCEPT ![s] = "done"]
  /\ told' = told \cup {s}
  /\ UNCHANGED <<scheduled, dropping, batch, firing, due, born, crashes, gone, starts>>

\* Mutant: a failed save is answered like one that succeeded.
SaveFails_Unnoticed(s) ==
  /\ "save" \in Faults
  /\ saving[s] \in {"open", "write"}
  /\ saving' = [saving EXCEPT ![s] = "done"]
  /\ told' = told \cup {s}
  /\ UNCHANGED <<scheduled, file, dropping, batch, firing, due, born, crashes, gone, starts>>

\* Either half can fail; the owner is told so.
SaveFails(s) ==
  /\ "save" \in Faults
  /\ saving[s] \in {"open", "write"}
  /\ saving' = [saving EXCEPT ![s] = "done"]
  /\ UNCHANGED <<scheduled, file, dropping, batch, firing, due, born, crashes, history, starts>>

\* Mutant: the file is left where it is.
unschedule_KeepsFile(s) ==
  /\ s \in scheduled
  /\ scheduled' = scheduled \ {s}
  /\ gone' = IF s \in told THEN gone \cup {s} ELSE gone
  /\ UNCHANGED <<file, saving, dropping, batch, firing, due, born, crashes, told, starts>>

\* An id that is not in the map is answered as unknown.
unschedule(s) ==
  /\ s \in scheduled
  /\ scheduled' = scheduled \ {s}
  /\ dropping' = dropping \cup {s}
  /\ UNCHANGED <<file, saving, batch, firing, due, born, crashes, history, starts>>

-----------------------------------------------------------------------------
(* DeleteScheduled, whose error both callers ignore. *)

Delete(s) ==
  \/ /\ file' = [file EXCEPT ![s] = "missing"]
     /\ gone' = IF s \in told THEN gone \cup {s} ELSE gone
  \/ "remove" \in Faults /\ UNCHANGED <<file, gone>>

DropFile(s) ==
  /\ s \in dropping
  /\ Delete(s)
  /\ dropping' = dropping \ {s}
  /\ UNCHANGED <<scheduled, saving, batch, firing, due, born, crashes, told, starts>>

-----------------------------------------------------------------------------
(* The tick.  The scheduler has one goroutine, so ticks do not overlap. *)

ComesDue(s) ==
  /\ s \in born \ due
  /\ due' = due \cup {s}
  /\ UNCHANGED <<memory, file, born, crashes, history>>

\* Mutant: what is claimed stays in the map until its errand has started.
claimDueScheduled_Keeps ==
  /\ batch = {} /\ firing = {}
  /\ batch' = scheduled \cap due
  /\ UNCHANGED <<scheduled, file, saving, dropping, firing, due, born, crashes, history, starts>>

\* Mutant: a schedule without its file is passed over.
claimDueScheduled_OnlySaved ==
  /\ batch = {} /\ firing = {}
  /\ batch' = {s \in scheduled \cap due : file[s] = "whole"}
  /\ scheduled' = scheduled \ batch'
  /\ UNCHANGED <<file, saving, dropping, firing, due, born, crashes, history, starts>>

\* All that is due leaves the map in one section.
claimDueScheduled ==
  /\ batch = {} /\ firing = {}
  /\ batch' = scheduled \cap due
  /\ scheduled' = scheduled \ due
  /\ UNCHANGED <<file, saving, dropping, firing, due, born, crashes, history, starts>>

FireFile(s) ==
  /\ s \in batch /\ firing = {}
  /\ Delete(s)
  /\ batch' = batch \ {s}
  /\ firing' = {s}
  /\ UNCHANGED <<scheduled, saving, dropping, due, born, crashes, told, starts>>

\* startErrand; when it fails the owner is told, and that is all.
startErrand(s) ==
  /\ s \in firing
  /\ firing' = {}
  /\ starts' = [starts EXCEPT ![s] = @ + 1]
  /\ UNCHANGED <<scheduled, file, saving, dropping, batch, due, born, crashes, history>>

\* A panic in startErrand ends the tick, with the rest of the batch (runGuarded).
Panic(s) ==
  /\ "panic" \in Faults
  /\ s \in firing
  /\ firing' = {}
  /\ batch' = {}
  /\ starts' = [starts EXCEPT ![s] = @ + 1]
  /\ UNCHANGED <<scheduled, file, saving, dropping, due, born, crashes, history>>

-----------------------------------------------------------------------------
\* The process dies and New loads every file that parses.
Crash ==
  /\ crashes < MaxCrashes
  /\ crashes' = crashes + 1
  /\ scheduled' = {s \in Ids : file[s] = "whole"}
  /\ saving' = [s \in Ids |-> "done"]
  /\ dropping' = {}
  /\ batch' = {}
  /\ firing' = {}
  /\ starts' = [s \in Ids |-> 0]
  /\ UNCHANGED <<file, due, born, history>>

Init ==
  /\ scheduled = {}
  /\ file = [s \in Ids |-> "missing"]
  /\ saving = [s \in Ids |-> "done"]
  /\ dropping = {}
  /\ batch = {}
  /\ firing = {}
  /\ due = {}
  /\ born = {}
  /\ crashes = 0
  /\ told = {}
  /\ gone = {}
  /\ starts = [s \in Ids |-> 0]

Tick ==
  \/ claimDueScheduled
  \/ \E s \in Ids : FireFile(s) \/ startErrand(s)

Next ==
  \/ \E s \in Ids :
       \/ scheduleErrand(s) \/ OpenScheduled(s) \/ WriteScheduled(s) \/ SaveFails(s)
       \/ unschedule(s) \/ DropFile(s) \/ ComesDue(s) \/ Panic(s)
  \/ Tick
  \/ Crash

Spec == Init /\ [][Next]_vars

\* Time passes, and the scheduler calls FireDueScheduled every 30 seconds and goes
\* through what it claimed.
FairSpec ==
  Spec /\ (\A s \in Ids : WF_vars(ComesDue(s))) /\ WF_vars(Tick)

-----------------------------------------------------------------------------
(* Properties. *)

\* Every variable keeps the kind of value the code gives it.
TypeOK ==
  /\ scheduled \in SUBSET Ids
  /\ file \in [Ids -> File]
  /\ saving \in [Ids -> {"open", "write", "done"}]
  /\ dropping \in SUBSET Ids
  /\ batch \in SUBSET Ids
  /\ firing \in SUBSET Ids
  /\ due \in SUBSET Ids
  /\ born \in SUBSET Ids
  /\ crashes \in Nat
  /\ told \in SUBSET Ids
  /\ gone \in SUBSET Ids
  /\ starts \in [Ids -> Nat]

\* Until the process restarts a schedule starts at most one errand, and none once
\* `unschedule` has taken it out, however slow the dispatch of a tick is (the comment
\* on claimDueScheduled, "can never let the same one fire twice").
StartsOnce ==
  \A s \in Ids :
    /\ starts[s] <= 1
    /\ starts[s] = 1 => s \notin scheduled \cup batch \cup firing \cup dropping
    /\ s \in dropping => s \notin scheduled \cup batch \cup firing

\* A schedule the owner was told of, and that nobody took out of the map, is whole on
\* disk: no restart loses it (scheduleErrand, SaveScheduled, LoadScheduled).
ToldIsDurable ==
  \A s \in told \cap scheduled : file[s] = "whole"

\* A schedule that was told and then taken out or fired never comes back, not after a
\* restart either, as long as files can be removed (unschedule, fireScheduled).
GoneIsGone ==
  \A s \in gone : s \notin scheduled \cup batch

\* Whatever fails, a schedule does not stay in the map for ever: its time comes and a
\* tick claims it (fireDueScheduled).
EveryOneFires ==
  \A s \in Ids : s \in scheduled ~> s \notin scheduled

=============================================================================
