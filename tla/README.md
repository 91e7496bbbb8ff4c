# Verification of zcoms-agent

TLA+ models of the agent daemon (`agentd`), TLC instances of them, and TLAPS
proofs. Line references are to the repository this directory belongs to, under `src/`.

## The system

`agentd` is one process. It holds a connection to a separate comms daemon that owns
the Telegram and WhatsApp accounts, runs agent CLIs as child processes, and keeps its
state in `agent.db` (SQLite) and in JSON files. Inside it run:

- one **subscribe loop** (`internal/agentd/agentd.go:360`) that receives every incoming
  message and offers it to the components in turn: errands, reminders, morning,
  reschedule, bridge. The first whose `Owns...` says yes gets it;
- one **scheduler loop** (`scheduler/scheduler.go`) that runs every job on its own
  goroutine, one after the other: triage (1 min), scheduled errands (30 s), reminders
  (30 s), the morning briefing (daily), workspace discovery (10 min);
- one goroutine per **request** on `agent.sock`, and goroutines the components start
  for long work: errand drivers, reminder runs, briefing sessions, negotiations, bridge
  turns.

A component is a struct with one mutex that guards its maps for short sections. Agent
turns, sends, file writes and SQL statements happen outside the mutex. That is where the
hard behaviour is: what a turn was started for is seldom still so when it ends.

### Components

| component | state | operations | what makes it hard | what makes it correct |
|---|---|---|---|---|
| **errands** `internal/errands/{comp,runtime,errand,errand_run}.go` | the map of errands (status, seen ids, transcript), `busy` and `pending` in memory; `errands/<id>.json`, the collected-info file, `claims.json` | `errand new/yes/no/edit/cancel`; a contact's message; the driver with interviewer and producer turns; `New` after a restart | four kinds of goroutine; status read after a turn of minutes; unlocked, non-atomic file writes; panics; duplicate messages; restarts | one driver; replies heard once and in order; none stranded; silence before approval; production ends |
| **reminders** `internal/reminders`, `internal/store/reminders.go` | the `reminders` table; `running`; `waiting` channels by recipient | create, cancel, `FireDue`, `runReminder`, replies | a run keeps a copy of its row for minutes and writes it back whole; runs of one recipient share a map key; panics, restarts | one run per reminder; a due row is acted on; a wait that is over swallows no reply; no active row without a time |
| **scheduled errands** `errands/scheduled.go` | map and files | schedule, unschedule, fire | map before file, file deleted before the errand starts | fires at most once; an unscheduled one never |
| **claims** `runner/claims.go` | `claims.json` | save (errands), load (triage, bridge) | temporary file shared by writers, stale sets | settles on the active errands; readers see a whole file |
| **standup interviews** `errands/interview.go` | channel by chat | run, feed, post result | a second interview of a chat replaces the first; answers after a timeout | an answer belongs to the question asked |
| **morning briefing** `internal/morning` | active flag, waiting channel; rows it adds, moves, cancels | fire, converse, act | read-modify-write of rows that runs also write | no lost cancel; a session ends |
| **reschedule** `internal/reschedule` | active negotiations, waiting channels | start, two-party loop, apply | two negotiations with one contact share a key | one negotiation of an event at a time, one report for each; no late reply answers the next question |
| **scheduler** `scheduler/scheduler.go` | next times, fired marks in a store | Interval, DailyAt, Once | mark before call, ignored write errors, one goroutine | at most once a day; every job's turn comes |
| **triage** `internal/triage`, brain lock | unread messages, batch file, brain lock, group rows | pass, digest, auto-reply, mark read | unread list collected before the lock, used after it is released | no message lost; one the owner was told of is marked; each triaged in the end |
| **bridge** `internal/bridge` | per-principal menu, session, busy, confirmation | a principal's message | numbers and yes/no answer whatever the state is by then | one turn per principal; an answer goes to its question |
| **agentd** `internal/agentd` | job list, router | run jobs, route messages | `Owns` and `Feed` are two calls; one scheduler goroutine | every message handled or left unread |
| **store**, **workspaces** `internal/store`, `internal/workspaces` | tables | one statement per call; `Sync` | commands between the statements of `Sync` | what the user set survives discovery |
| **timeexpr** `internal/timeexpr` | none | `Parse` | boundaries (past times, zero, weekdays) | equals its grammar's meaning |
| **runner**, sessions, personas, bootstrap, client, cmd | settings files, sockets | run a CLI, list, encode | external programs | not modelled, see below |

Interactions. The router calls errands, reminders, morning, reschedule, bridge in that
order. The scheduler calls triage, scheduled errands (which start errands), reminders,
morning. Errands write `claims.json`, which triage and the bridge read so as to keep
away from a chat an errand holds. Reminders, morning and reschedule write the same rows.
Bridge and triage share the agent session guarded by the brain lock.

## Modules

| module | models | its instances and proofs |
|---|---|---|
| `Errands` | the errands component, with its files, `claims.json` and restarts | `MCErrands`, 3 cfgs; `ErrandsProofs` |
| `Reminders` | the reminders component over its table | `MCReminders`, 2 cfgs; `RemindersProofs` |
| `ScheduledErrands` | errands asked for later: the map, the files, the tick | 1 cfg; `SchedulingProofs` |
| `OncePerKey` | what a guarded job is promised: the abstract specification of `Scheduler` | |
| `Scheduler` | the scheduler's loop, its three kinds of job, the store of their marks | `MCScheduler`, 1 cfg; `SchedulerProofs` |
| `Conversations` | the morning briefing, the negotiations, the router, the reminders table they and others write | `MCConversations`, 1 cfg; `ConversationsProofs` |
| `Bridge` | the bridge: a user's session, files, turns, the locks of the triage brain | 1 cfg; `BridgeProofs` |
| `Triage` | triage groups, passes, the brain's session and its reset | `MCTriage`, 1 cfg; `TriageProofs` |
| `Workspaces` | discovery: syncs of the table with the disk | `MCWorkspaces`, 1 cfg; `WorkspacesProofs` |
| `TimeExpr` | `timeexpr.Parse` over a calendar | 1 cfg; `SchedulingProofs` |

Each module stands for its component alone. Where two meet, the one module has as much of the
other as can be seen from it: `Conversations` has the runs of reminders as a read and a later write of a row,
`Bridge` has the triage pass as a holder of the lock file, `Triage` has the interactive turn as
another, and `Scheduler` calls jobs that are anything that returns.

A definition named `<Action>_<Change>` (`Panic_KeepsBusy`, `NextPrompt_Lifo`, ...) is a
*mutant*: a plausible bug in the action it stands before. No specification uses it. Put in the
action's place it makes the property PROJECT.json pairs it with fail, which shows that the
property depends on that code.

### Errands

`th[t]` is a goroutine: the operations it has still to do (`todo`), the errand it is on,
the prompt it carries, the turns it has run, and what it has read but not yet written
(`snap` for `SaveErrand`, `claimed` for `syncClaims`). Its actions are run from the front
of `todo`. An operation is one section of code that no other goroutine can split: a
section under `d.mu`, one file operation, one send. An agent turn is `"ask"` or `"work"`
at the front, for as long as the turn takes. Everything else may happen in between.

| action | code |
|---|---|
| `startErrand`, `approveErrand`, `rejectErrand`, `reviseErrandPlan`, `cancelErrand` | the commands; what they do after their first section is their `todo` |
| `Feed`, `MarkSeen`, `Hear` | `FeedTelegram`/`FeedWhatsApp`, `markSeen`, `feedErrand` |
| `StoreStatus`, `OpenErrand`, `WriteErrand` | `setErrandStatus`; `SaveErrand`, whose `os.WriteFile` truncates first |
| `CollectClaims`, `SaveClaims` | `syncClaims` under the lock, then the file |
| `Drive`, `Turn`, `NextPrompt`, `More`, `Stop`, `Panic` | `driveErrandAsync` and the loop of `driveErrand` |
| `Ask`, `Apply`, `WriteRecord`, `SendMsg`, `TranscriptFallback`, `Handoff`, `DeliverCollected` | an interviewer turn and what it asks for, through `beginProducing` |
| `Work`, `SendOutputs`, `EnsureDelivered` | a producer turn and `finishErrand` |
| `CreateFails`, `CannotRun`, `Crash` | failures and restarts |

The choice of `Ask` and `Work` is what the external agent may answer; `Apply` reads the
status when the turn is over, as `applyInterviewDirectives` does. `Errand.mu`, which
`driveErrand` holds for its whole loop, is left out; that makes `SingleDriver` a result
about `busy` and not about that lock.

`asked` and `outbox` record what the interviewer was told and in which status the
contact was messaged. They restrict nothing. `seen` is a sequence, as `SeenMsgIDs` is: `markSeen` drops the oldest id when
there are more than `SeenCap`.

### Reminders

`row` is the table, `scan` what one `DueReminders` query returned and `FireDue` has not
yet claimed, `run[id]` a run: where it is and its own copy of the row. `waiting` maps a
recipient to the run whose channel gets his reply, `box` says which channels hold one.
`runReminder` is split at every point where another goroutine can get in: cap test, turn 1,
send, registration, wait, the deferred delete (a section of its own after the select),
turn 2, save, release. Leaving is split from the wait because a reply may still be put
into the channel there.

### ScheduledErrands

`scheduled` is the map, `file[s]` the schedule's file (missing, created and still empty, whole).
`scheduleErrand` puts the schedule into the map and then writes its file (`OpenScheduled`,
`WriteScheduled`, or `SaveFails` at either point); `unschedule` takes it out and then removes the
file (`DropFile`). The tick claims all that is due into `batch` (`claimDueScheduled`, one section
under `d.mu`); `FireFile` removes the file of one of them and `startErrand` starts its errand, then
the next. A tick does not begin before the last has ended: the scheduler has one goroutine. `Panic`
is the panic `runGuarded` recovers, which drops the rest of the batch. The time is only `due`.

`told` and `gone` are history: the owner was told it is set; its file was removed after that.

### Scheduler and OncePerKey

`clock` runs by itself. The ticker's channel holds one tick (`tick`, the rest is dropped), a pass
works with the time of its tick (`now`) however long it takes, and `at`, `step` say which job it has come to and
whether it checks it, is about to call it, or is inside its `fn`. `CheckInterval` and `CheckGuarded`
are the closures `due` and `markFired` that `Interval`, `DailyAt` and `Once` build: both mark before the call. A read of
the store may give nothing and a write may be lost (`slips`), since the code ignores both errors.

`OncePerKey` says what the comments promise: a job is called for a key (a calendar day; the one
key of a one-shot job) at most once, in order, and again for the same key only against a failure of
the store. `Promise == INSTANCE OncePerKey WITH ...` maps the failures that no repeated call has used
up to its `credit`.

### Conversations

`talk[t]` is the goroutine of the briefing or of a negotiation: where it is, its turns and nudges,
what it heard, the row it is about to write. `waiting` is the runtimes' maps, `box` the channel of a wait. The
pattern is `waitReply`'s: a channel made anew goes under the chat's key over whatever is there, a
reply or the timer ends the wait, and the deferred delete takes the key out whose ever it is.
The router's `Owns`, the lookup in `feed` and the send are three steps (`router`), with anything in between. When a wait ends
the loop may hold its channel: it becomes `dead`, and what is sent into it nobody hears, although `feed` returns true.
Rows have several writers: the briefing's add, move and cancel, `applyNewTime`, cancel commands, and
the run of a reminder, which writes the row it read when it began.

`since`, `first`, `shared` and `report` are history: which messages had been routed when a wait began; the first message of
its chat that came in during the wait; whether another conversation's wait in the same chat began or ended during it; and what
became of a negotiation's report: owed, told, or lost since the owner's chat is not known or the send failed (`"report"`).

### Bridge

A `userState` is a value of `Sessions`. It outlives the user's place on the allowlist while a turn
works with it, and a user who comes back gets another. The subscribe loop handles one message at a time. A text
for the agent goes through `dispatchAgentTurn` (takes the pending files and the seed), then `runAgent`
(refuses, finds no backend, or sets `busy` and starts a goroutine), then perhaps `PutBack`. A turn of a triage session goes
through `triageMu` and the lock file, which may fail open, and may run the agent again after reading more history
(`ReadRound`). It clears `busy` in `Release` and posts its answer after that, so a newer turn can run beside the posting.

`attached`, `dropped`, `crossed` and `planned` are history, for the properties only.

### Triage

`pass[p]` is a pass: the groups it has still to run as it read them and, of the run it is in, the
messages it collected, the brain's session it resumes, what was important. The ticker runs the due groups one after the other; `triage now` is
a goroutine of its own beside it, and interactive turns take the same lock. A run that finds the lock taken is over, and
still counts as run. The clock is abstracted to `due`; a group whose daily schedule names no time that can be read is not
`timed` and never comes due by it. Of a session id only its age is kept: `ResetTriageSession` makes
every id that somebody holds `"old"`. `unmarked` is history: messages the owner was told of whose marking failed.

### Workspaces

A sync (`sync[p]`) reads the roots and the hidden rows, scans root by root, looks up and writes row by row, and
last lists and marks what it did not find; each is one statement. Two may run at once, with the
owner's commands and changes of the disk anywhere in between. `since[p]` is history: what was so at some time since the sync began.

### TimeExpr

`Parse` as a function of the instant and the request's form. Go's `AddDate` is modelled as it normalises
dates; the properties use a second calendar, counted up month by month. Integers and instants have a width
(`-Half..Half-1`): `Atoi` gives the largest for a count that is too long, since its error is ignored, and 7 times a count,
and what `AddDate` adds, wrap. `Reach` is how far on the width surely suffices.

## The runs

All twelve pass, and their properties are:

| run | shows |
|---|---|
| `errands_conversation` | `NothingStranded`, `RepliesInOrder`: replies keep their order through buffering and none is left behind an idle errand |
| `errands_faults` | `SingleDriver`, `SilentWhilePending`, `HeardOnce`: with every fault and a crash there is one driver, silence before approval, and no reply is heard twice |
| `errands_progress` | `ProducingEnds`, `BufferDrains`: production ends and buffered replies get their turn |
| `reminders_safety` | `ClaimedWhileRunning`, `OwnerIsWaiting`: one run per reminder, and replies go only to a run that waits |
| `reminders_progress` | `DueIsActedOn`: a due reminder gets its turn or stops being due |
| `scheduled_errands` | `StartsOnce`, `ToldIsDurable`, `GoneIsGone`, `EveryOneFires`: one start between restarts; confirmed schedules survive them; what is gone stays gone; none stays in the map for ever |
| `scheduler_jobs` | `KeepsPromise` (the refinement of `OncePerKey`), `Spaced`, `DueIsServed`: at most one call per key, intervals kept, no due job forgotten behind slow or panicking ones |
| `conversations_talk` | `FirstReplyIsHeard`, `FreshReply`: the first reply to a question reaches its channel and stays in it, and no late reply answers the next question; `ReportedOnce`: a negotiation makes one report; `CancelledForGood`, `ConversationsEnd` |
| `bridge_turns` | `OneTurn`, `BrainAlone`, `FilesKept`, `PlanFits`, `SessionsFree`: one turn per session, one driver of the brain, each file reaches one turn, an approval is of the plan of this place, every session is freed |
| `triage_passes` | `NothingLost`, `ToldIsMarked`, `EveryMessageTriaged`: no message leaves the list unseen, one the owner was told of does not stay on it, every message is triaged in the end |
| `workspaces_sync` | `SyncSeesTruth`, `PresentSettles`: a sync concludes nothing that was not so while it ran, and once all is quiet the table agrees with the disk |
| `timeexpr_answers` | `NeverPast`, `AsMeant`: but for offsets the integers have no room for, no instant in the past and the answer is the instant meant; none ahead is refused |

Type invariants (`TypeOK`) are checked in one run of each module whose instance can break them; that of
`ScheduledErrands` and `Workspaces` is proved instead. Two of them say more than types: a turn of the bridge never
exceeds the cap on reads, and only a pass that drives the brain holds its lock.

## Where the code and its documents differ

Seen while modelling. These are behaviours of the code as it is, and the models have them; no run is
kept for them. Each is reached by a few steps of the model named.

*`Errands`*

- `cancel` while the interviewer's turn runs: `applyInterviewDirectives` sees a status other than pending
  and sends (`errand_run.go:369`), though the owner is told that the contact "won't be messaged further"
  (`comp.go:438`). With a HANDOFF, `beginProducing` then sets the status to producing (`:585`) and the errand is alive again.
- The draft's turn runs when the owner says `yes`. The status is read after the turn (`:324`), so the draft
  is carried out as if it were live, hand-off included; `errand_run.go:361` says "never hand off from the approval draft".
- Two `syncClaims` collect in one order and write in the other (`comp.go:74-92`), so `claims.json` names
  errands that are over; `comp.go:72` says "from the currently-active errands".
- `New` loads a producing errand and starts no driver (`runtime.go:27`). Replies do not drive it in that phase
  (`interviewing`), so only a cancel moves it again; `errand.go:28-29` says the metadata is there to "survive restarts".
- `ensureInterviewFile` tests the path and writes the header later (`errand_run.go:537-547`,
  "(once)" at `:535`). An approval beside a driver can write the header over a RECORD.
- A cancel is stored in memory first; a `SaveErrand` that read the record before it may be
  written last, so a restart brings the errand back active.
- A file left empty by a crash inside `os.WriteFile`, or torn by two writers, is skipped by
  `LoadErrands`: the errand is gone.
- A buffered prompt *can* be stranded by two commands at once: an `edit` and a `yes` that
  both pass the pending test. `errands_conversation` has commands one at a time, the way one
  owner's chat sends them.
- With a failing backend a draft turn can fail the errand beside an approval, and a reply is
  then given to nobody. `RepliesInOrder` is checked without the `"backend"` fault.
- `SeenMsgIDs` keeps 500 ids (`errand.go:103-106`): one that was pushed out and is delivered again is heard again. With
  two replies and `SeenCap = 1` TLC finds that (`HeardOnce` fails); the runs have room for their replies.
- `startErrand` puts the errand in the map before it saves it; when the save fails the owner is told so
  and the errand is pending all the same.

*`Reminders`*

- `UpdateReminder` writes the run's whole copy (`store/reminders.go:114`), over a cancel made meanwhile;
  `:158` says "CancelReminder stops a reminder".
- The due rows are read before they are claimed (`run.go:88-93`). A run that ends in between has changed the row and
  left `running`; the claim starts it again from the old row, though `comp.go:49` has `running` "so the tick won't double-fire".
- With several runs of one recipient the deferred delete of the first removes the entry of
  the second (`run.go:223-228`), which then waits for a reply nobody routes to it.
- A nudge is counted in the copy (`run.go:163`) and stored at the end of the run. After a crash
  or a panic it was sent and not counted.
- A reminder at the cap whose final write fails each time stays due, and is claimed on every
  tick without a turn. `reminders_progress` therefore leaves the `"store"` fault out.

*`ScheduledErrands`*

- A schedule is in the map before its file is written (`scheduled.go:292-297`). One for "now" can be
  claimed in between: its file is then created after the removal, and the schedule fires again
  after a restart. The comment on `claimDueScheduled` ("can never let the same one fire twice")
  holds until a restart. The same way an `unschedule` in between leaves a file behind, and a
  schedule whose save failed, which the owner was told, still fires.
- `fireScheduled` removes the file before it starts the errand: a crash in between loses it. A panic
  while one starts leaves the others of the batch unfired until a restart.

*`Conversations`*

- `move` and `applyNewTime` read a row, and write all of it (`morning/session.go:231-247`,
  `reschedule/session.go:142-166`): a cancel in between is undone. `CancelledForGood` therefore excepts a
  writer that read the row while it was not cancelled. A reminder's run, minutes long, in the same way undoes a move.
- The reply that comes after the briefing's last turn is heard and never answered (`session.go:88`).
- `add` with no start makes an active row without a next time, which never fires.
- `Owns` says yes, the wait ends, and `Feed` finds nobody: the message is neither the conversation's
  nor the bridge's (`agentd.go:388-415` ignores what `Feed` returns). If the wait ends after the look-up in `feed`, the message is put
  into a channel nobody reads, `feed` returns true and the message is marked read (`reschedule.go:234-246`).
- Two conversations with one chat overwrite each other's entry, and the first to end deletes the other's (`reschedule.go:252`): its
  reply is then the bridge's. `FirstReplyIsHeard` excepts waits that this can have hit (`shared`); without the exception TLC refutes it.
- The report of a negotiation is only logged when `ownerChat` is 0 or `SendOn` fails (`reschedule.go:174-187`), and a panic or a
  restart ends a negotiation with none; the comment on `run` has it "report the outcome to the owner".

*`Bridge`*

- `end` answers "Detached" (`bridge.go:147`) and leaves the location; `new` does not restore the seed; selecting a
  location leaves the triage session on; picking a past session leaves an approval awaited.
- `Panic` after `Release`, while the answer is posted, clears the `busy` of a newer turn of the session
  (`bridge.go:405-412`). `OneTurn` and `PlanFits` leave such a session out (`crossed`).
- A turn without a backend drops the files it took. A user who is taken off the allowlist in a turn
  and comes back has a second session beside it.
- The session id a triage turn resumes is read before it waits for the brain (`bridge.go:374`).
- `locations` replaces the list with `locations.json` (`bridge.go:211`), so the caps of the workspaces of `agent.db`
  no longer apply after it.

*`Triage`*

- Two passes may collect the same messages: the owner has two digests of them, and an unlisted sender
  two automatic replies; `triage.go:236-238` promises one reply per sender for a batch, which a second batch does not see.
- A group is stamped as run when its pass was skipped or failed (`agentd.go:262-271`); the comment at
  `triage.go:80` says "will retry next cycle", which for a daily group is the next day.
- `triage reset` takes no lock (`triagereply.go:158-171`, "so the next pass starts fresh"): a pass or turn in flight writes the old
  session back, and so does another user's interactive session that is open and still holds the id. No property says more than
  that the file is gone, so none is stated.
- A daily schedule none of whose times can be read is saved and never due (`agentd.go:298-308`). `EveryMessageTriaged` asks for a
  group that is `timed`.
- When marking fails the owner is told of the messages again by the next pass. `ToldIsMarked` excepts only that.

*`Workspaces`*

- A row the owner hides becomes absent at the next sync, and a root that cannot be read makes all its
  repositories absent (`workspaces.go:86-108`). Both heal at a later sync, when the row is shown or the root read.
- Two syncs that insert the same path: one fails and is over, and its remaining roots wait for the next.
- A sync that began earlier may mark a fresh row absent; the next one corrects it.

*`TimeExpr`*

- The error of `Atoi` is ignored (`timeexpr.go:48`), and `7*n` and the instant wrap (`:54`): an offset the integers have no room
  for may be answered in the past, against the guarantee at `:33-36`. The run has such offsets; `NeverPast` without its exception
  (`TooFar`) fails there, for instance for "8190y" where integers end at 16383.
- January 31 "+1mo" is March 2 or 3, as `AddDate` has it; `AsMeant` says so.

## Bounds, and why they are enough

- **One errand, one contact.** Errands meet only in the choice of `Feed` and in `claims.json`.
  The properties checked are about one errand's own state. The theorems hold for any number.
- **One or two replies, each may arrive any number of times.** Order needs two; duplicates,
  buffering behind a turn and behind another reply happen with them.
- **`SeenCap`** stands for 500: as many as the replies of the run, 2 in `errands_conversation` and 1 elsewhere, so that a repeated
  delivery meets a full list.
- **`MaxCmds = 2`.** Start and one more command at any point: approve, reject, edit, cancel,
  the second of them beside a turn in flight.
- **`Drivers`**: two in `errands_faults`, so that a second driver of the errand could start if
  `busy` allowed it; one elsewhere, which `SingleDriver` shows to be all the errand uses.
- **`MaxWorkerTurns` 1 or 2, `MaxMsgs` 0 or 1** stand for 4 and 3: at, below and above the
  limit all occur. `errands_progress` has 2 so that the limit is not reached in the first turn.
- **`MaxCrashes = 1`**: a crash between any two steps; the files are all that survives one.
- **Two reminders, one recipient**: the pair that shares a key of `waiting`. `MaxRuns = 1` in
  the safety run and 2 in the progress run; `MaxTime` 2 and 3 so that a reminder can become
  due again.

- **Two schedules, two crashes**: one firing while another waits in the batch, and a second restart
  after one that reloaded.

- **An interval, a daily and a one-shot job over five instants** of days of three: a day that turns in the
  middle of a pass, a tick dropped behind a slow job, one failure of the store, one restart.
- **Two events of one contact, and the briefing** (`conversations_talk`): the two negotiations share a key of `waiting`. Two
  messages, so that one can be late; `MaxTurns = 2`, `MaxConv = 1`, `MaxNudges = 1` stand for 14, 12 and 2, so
  that each limit is met. One cancel or reminder's run, one restart.
- **One user, two `userState`s, two turns** (`bridge_turns`): `MaxReloads = 2` takes the user off the allowlist and
  back, so an old turn works beside a new one. Two commands and two texts: a menu or triage session and then a
  turn, a caption behind a turn. One panic, one lock that fails open. `maxTriageReadRounds = 1` stands for 4.
- **Two messages in two chats, one of them listed; two transports; one group** (`triage_passes`): the groups of a
  pass are taken one after the other, and what two groups do to a message two passes do as well, at once. Two
  commands, one failure.
- **Two repositories below one root, two syncs** (`workspaces_sync`): two commands (hide, show, other roots, a sync),
  one change of the disk, one failure or crash.
- **Two ticks a day, 2023 and 2024** (`timeexpr_answers`): an ordinary and a leap year, offsets up to 13, so that months run over
  the year and years over leap days. `Half = 16384` stands for 2^63; counts of 2341 and 8190 (their products wrap), of the largest integer and of
  one more (which saturates) are asked with every unit.

`CHECK_DEADLOCK FALSE` is in every run but `workspaces_sync`: the command and clock bounds let an instance stop, and a
daemon with nothing to do does nothing. The periodic sync never stops.

## Fairness

`Errands!Fairness`: every goroutine with something to do eventually does it. The Go scheduler
guarantees that for runnable goroutines, and an agent turn is killed at `claudeRunTimeout`
(20 minutes, `runner/runner.go:16`), so `Ask` and `Work` end. A turn's *content* is free: it may be an
error each time. Commands, replies, crashes and panics are not fair.

`Reminders!Fairness`: the tick scans and claims, and each run goes on (the wait times out). The
clock is not fair; at its bound it stands still. Nothing says a reply comes.

`ScheduledErrands!FairSpec`: times come, and the scheduler keeps calling `FireDueScheduled`. Saves
and removals have no fairness; the property does not need them to end.

`Scheduler!FairSpec`: the clock and the ticker go on, and so does the goroutine of the passes; a job's `fn`
returns (its commands and queries have time limits), at any later time.

`Conversations!FairSpec`: each conversation's goroutine goes on; a wait has a timer and a turn a time limit. Nobody
has to write, and the router, cancels, runs and panics are not fair.

`Bridge!Fairness`: the subscribe loop goes on once it has a message, the agent returns, a pass ends. Strong fairness
for the two locks, because they are taken and freed over and over: Go's mutex hands over to a waiter that starves (after
1 ms), and a blocking `flock` queues its waiters.

`Triage!Fairness`: schedules come due, the tick comes, and a pass or turn that has begun goes on. The skip of a locked
brain needs no more than that: the lock is free again and again, and the message is still on the list.

`Workspaces!Fairness`: the discovery job comes round, and a sync that runs goes on.

## Proofs

The theorems hold for every value of the constants allowed by `ErrandsAssumption`,
`RemindersAssumption`, `ScheduledAssumption`, `TimeExprAssumption`, `SchedulerAssumption`, `ConversationsAssumption`, `BridgeAssumption`, `TriageAssumption` and `WorkspacesAssumption`: any number of
errands, goroutines, replies, reminders, jobs, years, offsets, negotiations, sessions, turns, files, groups, messages, repositories, commands and restarts, and every set of faults. The assumptions say that kinds of goroutine are disjoint, that prompts and
reply ids are distinct, that limits are numbers, and that days do not run backwards.

**Errands.** `Inductive` proves `Spec => []IInv` with

    IInv == DataOK /\ ThreadsOK /\ SingleDriver

`SingleDriver` (at most one driver per errand, and `busy` exactly while there is one) is not
inductive alone. That `busy` stays set until a driver's `Exit` needs that a driver's `todo`
never just runs out: `ThreadsOK` says it is a `Chain`, a sequence of driver operations ending in
one of the six operations (`Ends`) that go to another chain or exit. Lemmas about `Chain` cover
tail, concatenation, suffix and the sequences a turn can ask for (`LiveChain`); lemmas about
goroutines (`GoesOn`, `RunsOn`, `DriverGoes`, `Begins`, `DriverExits`, `DriverStarts`) say what
each way of continuing preserves; one lemma per group of actions uses them. `TypeCorrect` and
`DriverExclusion` follow.

`SilenceBeforeApproval` proves `Spec => []SilentWhilePending` from `Inductive` and

    SInv == BornOnly /\ LoudApproved /\ SilentWhilePending

`Ahead(K, todo)` says that a `todo` holds an operation of `K` and no `"apply"` before it.
`LoudApproved` says that a goroutine with something ahead that messages the contact (`Speaks`) is on an errand that is
not pending: a turn's messages come ahead when `Apply` reads the status, and nothing sets a status back to pending.
Only `startErrand` makes an errand pending, and `BornOnly` says no goroutine, record or file is
there for an id that was not handed out, so none speaks for the new errand. After a crash a stale
file may well bring a pending status back; no goroutine survives to speak for it.

`NoReplyTwice` proves `Spec => []HeardOnce` from `HInv == RecordsSound /\ FeederOK` where there are no more replies than
`SeenCap` (`RepliesFit`), which the code does not ensure; `NothingDropped` is the step that needs it. What has been heard is among what has
been seen, not only in memory but in every copy of a record: its file, and what a goroutine has read and will write there
(`RecordsSound`), so that a restart from an older file forgets the reply and its mark together. And a reply that
the loop has marked, and is about to append, is not in the transcript yet (`FeederOK`).

`NeverStranded` proves `Spec => []NothingStranded` under two hypotheses: `OneCommand` (the owner's
commands come one at a time) and no `"panic"` among the faults. They are needed, not convenient: both ways of stranding a prompt are real
(see above, and `recover` clears `busy` with the buffer full). Every other fault and any number of restarts are
covered, which the run `errands_conversation` leaves out. The invariant is

    BInv == CommandOK and DriverOK of every goroutine /\ ApprovalsOK /\ Unstarted /\ Kindled

`Kindled` is the property, in terms of a command that still has its `"drive"` to do. It breaks when a status that was over becomes active
again: an approval is stored without looking. So `ApprovalsOK` says that an approval about to be stored finds the
errand pending, or failed; for that, no driver may hand off or finish in between, and `DriverOK` says why none does: what a
driver does of a later phase (`LateOps`) lies ahead of it only once the errand has left pending, and then nobody approves.

`AnsweredInOrder` proves `Spec => []RepliesInOrder` from all of these and

    OInv == CommandsCarryNone /\ ApprovalsPending /\ DriversOpen /\ Drained /\ NothingAsked /\ \A e : InOrder(e)

`InOrder(e)` is the property for one errand: the replies the interviewer was given, followed by those in `Queue(e)` (about to run, buffered,
on their way from the loop), are what was heard. A step moves a reply from one part of the queue to the next, and each move is right only
at the right place: a reply that starts a driver must find nothing buffered (`Drained`), one that is buffered must find the
driver's own prompt before it, a driver must not begin a turn with its last prompt (`DriversOpen`: the only `"turn"` in sight is
what it is about to do, or comes after a hand-off), and no command may bring a prompt that counts as a reply (`CommandsCarryNone`).
The hypotheses are those without which a reply is really lost or counted twice: a turn that fails ends the interview with its buffer unread,
and an approval may still revive it (`"backend"`); a panic leaves the buffer behind, so that the next reply overtakes it; a
restart forgets the buffer, and rolls `heard` back to an older file while the agent's own session remembers; two commands may strand a buffered reply
as above. `send` and `create` failures, repeated deliveries and any number of errands, contacts, drivers and replies are covered.
What a recursion over a sequence yields is proved with no induction theorem that takes a predicate: `EveryNumber` is induction for a *set* of numbers, from the
well-foundedness of inclusion among finite sets (`FS_StrictSubsetOrderingWellFounded`), and `RepliesInConcat` follows from it.

**Reminders.** `Inductive` proves `Spec => []IInv` with

    IInv == TypeOK /\ ClaimedWhileRunning /\ OwnerIsWaiting /\ ScheduledWhileActive /\ CopiesOK

`CopiesOK` is the strengthening, about what has been read and not yet written back: a scanned
row is active and has a next time, a run's copy has a next time exactly when its state is active,
and until the run decides its copy is active. Without it a step of `Save` could put any copy into
the table. Theorems `OneRunEach` and `RepliesReachWaiters` follow. `ScheduledWhileActive` is a statement about what this
component writes, and only a part of the invariant: the briefing's `add` and the moves of a row that is done write other rows.

**ScheduledErrands.** `Inductive` proves `Spec => []IInv` with `StartsOnce`, `ToldIsDurable` and three
strengthenings: `OnePlace` (a schedule is in the map, in the batch or firing, never in two of them),
`BornOnly` (nothing is there for an id not handed out) and `FilesOK` (a file is filled once, before
the owner is told, so that one removed after that cannot come back). `AtMostOneStart`,
`ConfirmedIsDurable` and `RemovedForGood` follow (in `SchedulingProofs`). No assumption is made on which failures happen.

**Scheduler.** `Inductive`'s place is taken by `NextKeeps`:

    IInv == TypeOK /\ TimesForward /\ Accounted /\ Deadlines

`TimesForward` says no stored mark and no last call lies ahead of the pass's time, and that the ticker's time is not behind it; since a calendar's
days only go up, a key that was passed is never due again. `Accounted` balances a job's marks with its calls: a job whose last call has
no mark has had a failure that no repeated call used up. `Deadlines` keeps an interval's next time at least its length
behind the last call. From them `CallsSpaced` follows for `Spaced`, and `ImplementsOncePerKey` shows that each step of `Next` is a step of
`OncePerKey` or leaves its variables alone: the scheduler refines its promise for any jobs and any calendar.

**Triage.** `Inductive` proves `Spec => []IInv` with

    IInv == TypeOK /\ NothingLost /\ RunsOK /\ ToldIsMarked

`RunsOK` is why marking loses nothing: a run knows only messages that came in, and once it is past its digest the important
ones among them are settled, so those it marks are settled by then whatever the other pass has done; a run whose agent passed over
everything has no digest, and nothing important to mark. The same facts keep `ToldIsMarked`: what is settled and still unread was
made so by a run that has not marked yet, or could not. `MessagesSurvive` and `ToldOnce` follow.

**Workspaces.** `Inductive` proves `Spec => []IInv` with

    IInv == TypeOK /\ \A p \in Syncs : Watched(p) /\ Accounts(p) /\ AtRest(p)

`Watched`: the history of a running sync covers what is so now. `Accounts`: of each repository below a root the sync is done
with, it has found it, or it was missing or hidden at some time. That gives `SyncsTellTheTruth`, for
any number of repositories and roots and any overlap.

**Bridge.** `Inductive` proves `Spec => []IInv` with

    IInv == TypeOK /\ RouterOK /\ TurnsOK /\ LocksHeld /\ OneTurn /\ InPlace /\ PlanFits /\ AllKept

`TurnsExclude`, `BrainExclusion`, `PlansFit` and `FilesAccounted` follow. `LocksHeld` is behind `BrainAlone`: a turn that drives
the brain, or did and has not returned, holds `triageMu`; whoever holds the lock file has it alone; and only an attempt that failed open
(`openings`) is without it. `InPlace` is behind `PlanFits`: an unreleased turn of a session works at the place where that session still
is, since each command that moves a session tests `busy`; so the plan the turn makes is of that place. `AllKept` is `FilesKept` with the
loop's own hands: each accepted file is pending in one session, held by the loop between taking and starting, attached or dropped, and in no two of these.
A panic after `Release` may free the session of a newer turn (`crossed`); `OneTurn` and `InPlace` except those sessions, `BrainAlone` and `FilesKept` do not.

**Conversations.** `Inductive` proves `Spec => []IInv` with

    IInv == TypeOK /\ FirstReplyIsHeard /\ Entered /\ Routed /\ ReportedOnce /\ AllAsked /\ Copies

`AllAsked` is `FreshReply` for the whole of a wait: a channel is empty outside it and holds nothing older than it, and the
message the loop is routing is younger than every wait that was there when the loop took it up, which is what lets
the loop send without the lock. `Entered`: an entry is that of a conversation in that chat that waits or is about to take it out.
`Routed`: the channel the loop holds is one of the message's chat, and dead unless the wait it was made for is on; so a message on its way to
a wait that is still on gets there (`FirstReplyIsHeard`). `Copies`: who is about to write a row has read one that exists, a negotiation that of its own
event, and a running reminder one that was active. The proof goes by what an action disturbs: the steps outside a wait
(`Said`) have one shape, so have those that end one (`HearShape`), and what is left is the wait, the loop, the other writers and
the restart. `FirstRepliesHeard`, `RepliesAreFresh` and `OneReport` follow; the last says that one report is made, not that it arrives. `CancelHolds` follows from
`Copies`: a cancelled row becomes anything else only by a copy that says so, which was read while the row was not cancelled.

**TimeExpr.** `NeverInThePast` and `AnsweredAsMeant` prove `AnswerSpec => []NeverPast` and `AnswerSpec => []AsMeant` for any years, offsets, ticks of a day and
width of the integers, the offsets the integers have no room for (`TooFar`) excepted as in the properties; they stand in
`SchedulingProofs` with those of `ScheduledErrands`. `Answering`, the invariant, says little: an answer is
what `Parse` gives. The work is about the calendar, which is two recursions over data. `SumStep` shows that the sum of the
months' lengths does what its recursion says: a solution exists for every length and any two agree, by `EveryNumber`. Then `NextMonth`
(a month follows the days of the one before it, also across December and leap days), `CalendarRight` (every day from the first to the last has a date,
the one the `CHOOSE` of `Calendar` finds) and `LaterMonth`: counting months by their first days, as `AsMeant` does, and Go's normalisation of
month and day, as `AddDate` does, come to the same day. `RoomEnough` and `NotWrapped`
are why the width does no harm to an offset up to `Reach`.

**Model-checked only**: everything under fairness
(`ProducingEnds`, `BufferDrains`, `DueIsActedOn`, `EveryOneFires`, `DueIsServed`, `ConversationsEnd`, `SessionsFree`,
`EveryMessageTriaged`, `PresentSettles`), which is outside what the prover handles.

## Not modelled

- The texts: prompts, phrases, parsing of agent output and of commands beyond its outcome, logs.
- `runner`: starts a child process and reads its output. A turn is an arbitrary answer after a finite time.
- `client`, `cmd`, `agentd/adapter.go`: encode a request, decode an answer.
- `sessions`, `personas`, `bootstrap`: sequential listings, texts and first-run files.
- The comms daemon: external. It delivers a message at least once and may repeat it.
- Standup interviews (`errands/interview.go`): the waiting pattern of `Conversations` with one channel of
  four for a whole interview. A second interview of a chat replaces the first, whose deferred delete then removes the
  second's entry, and a reply after a timeout is taken for the answer to the next question.
- The temporary file that all writers of `claims.json` share (`runner/claims.go:81`), and its readers.
- `agentd`'s socket server, and the commands that are one call into the store (settings, sessions, personas, allowlist): one SQL
  statement each, nothing between two of them. `reloadAllow` (`agentd.go:204`), which lists and then
  pushes the list, is in `Bridge` only as `SetAllow` with any list.
- The errand, reminder, team and commerce commands as the bridge passes them on; what a triage turn sends
  (`handleTriageReplyOutput`), which is texts and sends without state.
- Shifts of the clock's zone in `TimeExpr`.

## What could come next

An abstract mailbox (a reply goes to the question that was open) that `Conversations` implements, with standup
interviews as another user of it; `Reminders` and `Conversations` composed over one table.
