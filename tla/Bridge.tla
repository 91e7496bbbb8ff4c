-------------------------------- MODULE Bridge ---------------------------------
(***************************************************************************)
(* The interactive bridge (src/internal/bridge): allow-listed users drive   *)
(* agent sessions by message.  Three kinds of actors share its state:       *)
(*                                                                          *)
(*   - the subscribe loop, which handles one message at a time (a command,  *)
(*     a file, a text for the agent) and starts turns,                      *)
(*   - the turns, one goroutine each, that run the agent, record the        *)
(*     session and answer,                                                  *)
(*   - owner commands, that swap in another allowlist (SetAllow), and       *)
(*     triage passes, that drive the shared triage brain between turns.     *)
(*                                                                          *)
(* A userState is a value of Sessions: SetAllow may drop one that a turn    *)
(* still works with, and a user who comes back gets a new one.              *)
(*                                                                          *)
(* Abstracted: texts, prompts, menus and routes; of a session id the        *)
(* conversation it continues.  Commands that change no state here (help,    *)
(* status, errand, remind, events, commerce) are left out, and so is the    *)
(* triage session file, which is Triage's.                                  *)
(***************************************************************************)
EXTENDS Integers, FiniteSets

CONSTANTS
  Users,
  Planners,    \* users of the confirm role: their turns in a repository or a chat are plans
  Sessions,    \* userStates
  Turns,       \* goroutines of runAgent
  Files,       \* files the users send
  None,
  maxTriageReadRounds,
  MaxCommands, \* bound: commands handled
  MaxTexts,    \* bound: files, texts and choices of a session handled, which go on to the agent
  MaxOpenings, \* bound: attempts to lock the brain that fail open
  MaxPanics,   \* bound: panics in a turn
  MaxReloads   \* bound: calls of SetAllow

ASSUME BridgeAssumption ==
  /\ Planners \subseteq Users
  /\ None \notin Users \cup Sessions \cup Turns
  /\ {maxTriageReadRounds, MaxCommands, MaxTexts, MaxOpenings, MaxPanics, MaxReloads} \subseteq Nat

Places == {"", "repo", "chat", "triage"}
Conversations == {"", "new", "past", "brain"}  \* "" starts a fresh one

\* A userState.  triageSession stands for triageReply too: both change together.
Session ==
  [user : Users, location : Places, sessionID : Conversations, busy : BOOLEAN,
   pendingKind : {"", "location", "session"}, pendingFiles : SUBSET Files, seed : BOOLEAN,
   awaitingConfirm : BOOLEAN, triageSession : BOOLEAN, teamSession : BOOLEAN]
NewSession(u) ==
  [user |-> u, location |-> "", sessionID |-> "", busy |-> FALSE, pendingKind |-> "",
   pendingFiles |-> {}, seed |-> FALSE, awaitingConfirm |-> FALSE, triageSession |-> FALSE,
   teamSession |-> FALSE]

\* A turn: where its goroutine is, its session, what runAgent snapshot of it, the calls of
\* the agent it has made and how the last one ended, and whether it holds the brain's flock.
\* It is unreleased until it clears busy; then it posts its answer.
Unreleased == {"mutex", "flock", "run", "done"}
Turn == [at : {"none", "post"} \cup Unreleased, st : Sessions \cup {None}, place : Places,
         brain : BOOLEAN, plan : BOOLEAN, calls : 0..(maxTriageReadRounds + 2), ok : BOOLEAN,
         locked : BOOLEAN]
NoTurn == [at |-> "none", st |-> None, place |-> "", brain |-> FALSE, plan |-> FALSE,
           calls |-> 0, ok |-> FALSE, locked |-> FALSE]

\* The subscribe loop: idle, or in dispatchAgentTurn or runAgent with what it has taken.
Router == [at : {"idle", "take", "start", "back"}, st : Sessions \cup {None},
           files : SUBSET Files, seed : BOOLEAN, plan : BOOLEAN]
Idle == [at |-> "idle", st |-> None, files |-> {}, seed |-> FALSE, plan |-> FALSE]

VARIABLES
  allow,     \* the allowlist
  byUser,    \* the userState of each user
  st,        \* the userStates
  router,    \* the subscribe loop
  turn,      \* the goroutines
  triageMu,  \* the turn that holds triageMu
  flock,     \* whether a turn or a pass holds the lockfile
  pass,      \* the triage pass: "none", or it runs with the lock or without ("open")
  commands, texts, openings, panics, reloads,  \* bounds
  sent,      \* history: files accepted
  attached,  \* history: turns a file was attached to
  dropped,   \* history: files whose user left the allowlist or had no agent
  crossed,   \* history: userStates whose busy flag an older turn's panic cleared
  planned    \* history: the place a userState's last plan was made in

vars == <<allow, byUser, st, router, turn, triageMu, flock, pass, commands, texts, openings, panics,
          reloads, sent, attached, dropped, crossed, planned>>
locks == <<triageMu, flock, pass, openings>>
msgs == <<commands, texts>>
listed == <<allow, byUser, reloads>>
history == <<sent, attached, dropped, crossed, planned>>

Init ==
  /\ allow = Users
  /\ byUser = [u \in Users |-> None]
  /\ st \in [Sessions -> {NewSession(u) : u \in Users}]
  /\ router = Idle
  /\ turn = [t \in Turns |-> NoTurn]
  /\ triageMu = None /\ flock = FALSE /\ pass = "none"
  /\ commands = 0 /\ texts = 0 /\ openings = 0 /\ panics = 0 /\ reloads = 0
  /\ sent = {} /\ attached = [f \in Files |-> 0] /\ dropped = {}
  /\ crossed = {} /\ planned = [s \in Sessions |-> ""]

-----------------------------------------------------------------------------
(* The allowlist. *)

\* A userState nobody refers to.
Unused(s) ==
  /\ \A u \in Users : byUser[u] # s
  /\ \A t \in Turns : turn[t].st # s
  /\ router.st # s
Fresh == CHOOSE s \in Sessions : Unused(s)

\* A message of a user who has no userState yet makes one.
stateFor(u) ==
  /\ router.at = "idle" /\ byUser[u] = None /\ u \in allow
  /\ \E s \in Sessions : Unused(s)
  /\ LET s == Fresh IN
       /\ byUser' = [byUser EXCEPT ![u] = s]
       /\ st' = [st EXCEPT ![s] = NewSession(u)]
       /\ dropped' = dropped \cup st[s].pendingFiles
       /\ crossed' = crossed \ {s}
       /\ planned' = [planned EXCEPT ![s] = ""]
  /\ UNCHANGED <<allow, reloads, router, turn, locks, msgs, panics, sent, attached>>

\* Another allowlist; the userStates of those who are no longer on it are dropped.
SetAllow(list) ==
  /\ reloads < MaxReloads /\ reloads' = reloads + 1
  /\ allow' = list
  /\ byUser' = [u \in Users |-> IF u \in list THEN byUser[u] ELSE None]
  /\ UNCHANGED <<st, router, turn, locks, msgs, panics, history>>

-----------------------------------------------------------------------------
(* The subscribe loop. *)

\* The next message is of the user of s: a command, or something for the agent.
From(s) == router.at = "idle" /\ \E u \in Users : byUser[u] = s
Command(s) == From(s) /\ commands < MaxCommands /\ commands' = commands + 1 /\ UNCHANGED texts
ForAgent(s) == From(s) /\ texts < MaxTexts /\ texts' = texts + 1 /\ UNCHANGED commands

\* Neither the team component nor the busy gate takes it.
Gated(s) == ~st[s].teamSession /\ ~st[s].busy

\* A command that is over once it has changed the userState.
Becomes(s, new) ==
  /\ st' = [st EXCEPT ![s] = new]
  /\ UNCHANGED <<listed, router, turn, locks, panics, history>>

\* The team component says whether it expects more; a failed call ends the team session.
handleTeamCommand(s, on) == Command(s) /\ Becomes(s, [st[s] EXCEPT !.teamSession = on])

listLocations(s) == Command(s) /\ Gated(s) /\ Becomes(s, [st[s] EXCEPT !.pendingKind = "location"])

listSessions(s) ==
  /\ Command(s) /\ Gated(s) /\ st[s].location # ""
  /\ Becomes(s, [st[s] EXCEPT !.pendingKind = "session"])

startNew(s) ==
  Command(s) /\ Gated(s) /\ Becomes(s, [st[s] EXCEPT !.sessionID = "", !.pendingKind = "", !.awaitingConfirm = FALSE])

\* The location stays.
end(s) ==
  Command(s) /\ Gated(s) /\ Becomes(s, [st[s] EXCEPT !.sessionID = "", !.pendingKind = "", !.awaitingConfirm = FALSE,
                                       !.triageSession = FALSE, !.seed = FALSE])

startChat(s) ==
  Command(s) /\ Gated(s) /\ Becomes(s, [st[s] EXCEPT !.location = "chat", !.sessionID = "", !.pendingKind = "",
                                       !.awaitingConfirm = FALSE, !.triageSession = FALSE, !.seed = TRUE])

\* Mutant: not behind the busy gate.
startTriageReply_Anytime(s, id) ==
  Command(s) /\ Becomes(s, [st[s] EXCEPT !.location = "triage", !.sessionID = id, !.pendingKind = "",
                            !.awaitingConfirm = FALSE, !.triageSession = TRUE, !.seed = TRUE])

\* With a batch to act on; the brain may have no session yet.
startTriageReply(s, id) ==
  Command(s) /\ Gated(s) /\ Becomes(s, [st[s] EXCEPT !.location = "triage", !.sessionID = id, !.pendingKind = "",
                                       !.awaitingConfirm = FALSE, !.triageSession = TRUE, !.seed = TRUE])

resetTriageBrain(s) ==
  /\ Command(s) /\ Gated(s) /\ st[s].triageSession
  /\ Becomes(s, [st[s] EXCEPT !.sessionID = "", !.triageSession = FALSE, !.seed = FALSE])

\* A number from the menu of locations.  The triage session stays on.
selectLocation(s) ==
  /\ Command(s) /\ Gated(s) /\ st[s].pendingKind = "location"
  /\ Becomes(s, [st[s] EXCEPT !.location = "repo", !.sessionID = "", !.pendingKind = "",
                              !.awaitingConfirm = FALSE, !.seed = TRUE])

\* The loop goes on to runAgent with a prompt of its own.
Ask(s, new) ==
  /\ st' = [st EXCEPT ![s] = new]
  /\ router' = [Idle EXCEPT !.at = "start", !.st = s]
  /\ UNCHANGED <<listed, turn, locks, panics, history>>

\* A number from the menu of sessions: a turn that sums the session up.  An approval that
\* is awaited stays awaited.
selectSession(s) ==
  /\ ForAgent(s) /\ Gated(s) /\ st[s].pendingKind = "session"
  /\ Ask(s, [st[s] EXCEPT !.sessionID = "past", !.pendingKind = "", !.seed = FALSE])

\* "yes" to a plan carries it out, "no" drops it.
approve(s) ==
  /\ ForAgent(s) /\ Gated(s) /\ st[s].location # "" /\ st[s].awaitingConfirm
  /\ Ask(s, [st[s] EXCEPT !.awaitingConfirm = FALSE])

reject(s) ==
  /\ ForAgent(s) /\ Gated(s) /\ st[s].location # "" /\ st[s].awaitingConfirm
  /\ Becomes(s, [st[s] EXCEPT !.awaitingConfirm = FALSE])

\* Any other text is for the agent (a refinement of the plan, when one is awaiting).
text(s) ==
  /\ ForAgent(s) /\ Gated(s) /\ st[s].location # ""
  /\ router' = [Idle EXCEPT !.at = "take", !.st = s]
  /\ UNCHANGED <<listed, st, turn, locks, panics, history>>

\* A file is saved whatever the session does; its caption is a text for the agent.
handleIncomingFile(s, f, caption) ==
  /\ ForAgent(s) /\ st[s].location # "" /\ f \notin sent
  /\ sent' = sent \cup {f}
  /\ st' = [st EXCEPT ![s].pendingFiles = @ \cup {f}]
  /\ router' = IF caption THEN [Idle EXCEPT !.at = "take", !.st = s] ELSE router
  /\ UNCHANGED <<listed, turn, locks, panics, attached, dropped, crossed, planned>>

\* dispatchAgentTurn takes the files and the seed ...
Plans(s) == st[s].user \in Planners /\ st[s].location \in {"repo", "chat"}
dispatchAgentTurn ==
  LET s == router.st IN
  /\ router.at = "take"
  /\ router' = [router EXCEPT !.at = "start", !.files = st[s].pendingFiles, !.seed = st[s].seed,
                              !.plan = Plans(s)]
  /\ st' = [st EXCEPT ![s].pendingFiles = {}, ![s].seed = FALSE]
  /\ UNCHANGED <<listed, turn, locks, msgs, panics, history>>

\* Mutant: the files of a refused text are not kept.
Refused_Drops ==
  /\ router.at = "start" /\ st[router.st].busy
  /\ router' = Idle
  /\ UNCHANGED <<listed, st, turn, locks, msgs, panics, history>>

\* ... and calls runAgent, which refuses while a turn is in flight, ...
Refused ==
  /\ router.at = "start" /\ st[router.st].busy
  /\ router' = IF router.files = {} THEN Idle ELSE [router EXCEPT !.at = "back"]
  /\ UNCHANGED <<listed, st, turn, locks, msgs, panics, history>>

PutBack ==
  /\ router.at = "back"
  /\ st' = [st EXCEPT ![router.st].pendingFiles = @ \cup router.files]
  /\ router' = Idle
  /\ UNCHANGED <<listed, turn, locks, msgs, panics, history>>

\* ... consumes the turn when the session has no backend (none was installed when it was
\* resolved: a choice), ...
NoBackend ==
  /\ router.at = "start" /\ ~st[router.st].busy
  /\ router' = Idle
  /\ dropped' = dropped \cup router.files
  /\ UNCHANGED <<listed, st, turn, locks, msgs, panics, sent, attached, crossed, planned>>

\* Mutant: it does not look whether a turn is in flight.
runAgent_Again ==
  LET s == router.st IN
  /\ router.at = "start"
  /\ \E t \in Turns : turn[t].at = "none"
  /\ turn' = [turn EXCEPT ![CHOOSE t \in Turns : turn[t].at = "none"] =
            [NoTurn EXCEPT !.at = IF st[s].triageSession THEN "mutex" ELSE "run", !.st = s,
                           !.place = st[s].location, !.brain = st[s].triageSession,
                           !.plan = router.plan]]
  /\ st' = [st EXCEPT ![s].busy = TRUE]
  /\ router' = Idle
  /\ attached' = [f \in Files |-> attached[f] + IF f \in router.files THEN 1 ELSE 0]
  /\ UNCHANGED <<listed, locks, msgs, panics, sent, dropped, crossed, planned>>

\* ... and otherwise starts one.
runAgent ==
  LET s == router.st IN
  /\ router.at = "start" /\ ~st[s].busy
  /\ \E t \in Turns : turn[t].at = "none"
  /\ turn' = [turn EXCEPT ![CHOOSE t \in Turns : turn[t].at = "none"] =
            [NoTurn EXCEPT !.at = IF st[s].triageSession THEN "mutex" ELSE "run", !.st = s,
                           !.place = st[s].location, !.brain = st[s].triageSession,
                           !.plan = router.plan]]
  /\ st' = [st EXCEPT ![s].busy = TRUE]
  /\ router' = Idle
  /\ attached' = [f \in Files |-> attached[f] + IF f \in router.files THEN 1 ELSE 0]
  /\ UNCHANGED <<listed, locks, msgs, panics, sent, dropped, crossed, planned>>

-----------------------------------------------------------------------------
(* The turns. *)

\* Mutant: two turns may hold triageMu.
LockMu_Shared(t) ==
  /\ turn[t].at = "mutex"
  /\ triageMu' = t
  /\ turn' = [turn EXCEPT ![t].at = "flock"]
  /\ UNCHANGED <<listed, st, router, flock, pass, openings, msgs, panics, history>>

LockMu(t) ==
  /\ turn[t].at = "mutex" /\ triageMu = None
  /\ triageMu' = t
  /\ turn' = [turn EXCEPT ![t].at = "flock"]
  /\ UNCHANGED <<listed, st, router, flock, pass, openings, msgs, panics, history>>

lockTriageBrain(t) ==
  /\ turn[t].at = "flock" /\ ~flock
  /\ flock' = TRUE
  /\ turn' = [turn EXCEPT ![t].at = "run", ![t].locked = TRUE]
  /\ UNCHANGED <<listed, st, router, triageMu, pass, openings, msgs, panics, history>>

\* A lockfile that cannot be opened or locked does not hold the turn up.
FailOpen(t) ==
  /\ turn[t].at = "flock" /\ openings < MaxOpenings
  /\ openings' = openings + 1
  /\ turn' = [turn EXCEPT ![t].at = "run"]
  /\ UNCHANGED <<listed, st, router, triageMu, flock, pass, msgs, panics, history>>

\* The agent returns; a session it names becomes the userState's.
Recorded(t) ==
  LET id == st[turn[t].st].sessionID
  IN  IF turn[t].brain THEN "brain" ELSE IF id = "" THEN "new" ELSE id
recordSession(t, named) ==
  st' = IF named THEN [st EXCEPT ![turn[t].st].sessionID = Recorded(t)] ELSE st

\* Mutant: no cap on the reads.
ReadRound_Uncapped(t) ==
  /\ turn[t].at = "run" /\ turn[t].brain
  /\ turn' = [turn EXCEPT ![t].calls = @ + 1]
  /\ recordSession(t, TRUE)
  /\ UNCHANGED <<listed, router, locks, msgs, panics, history>>

\* It asks for more of a chat's history: the turn reads it and runs the agent again.  After
\* maxTriageReadRounds reads the next call is the last.
ReadRound(t) ==
  /\ turn[t].at = "run" /\ turn[t].brain /\ turn[t].calls <= maxTriageReadRounds
  /\ turn' = [turn EXCEPT ![t].calls = @ + 1]
  /\ recordSession(t, TRUE)
  /\ UNCHANGED <<listed, router, locks, msgs, panics, history>>

\* It answers, or fails, with or without a session.
Answer(t, ok, named) ==
  /\ turn[t].at = "run" /\ (ok => named)
  /\ turn' = [turn EXCEPT ![t].calls = @ + 1, ![t].at = "done", ![t].ok = ok]
  /\ recordSession(t, named)
  /\ UNCHANGED <<listed, router, locks, msgs, panics, history>>

\* The session is free again; a plan awaits its approval.
Release(t) ==
  LET s == turn[t].st
      asks == turn[t].ok /\ turn[t].plan
  IN
  /\ turn[t].at = "done"
  /\ turn' = [turn EXCEPT ![t].at = "post"]
  /\ st' = [st EXCEPT ![s].busy = FALSE, ![s].awaitingConfirm = @ \/ asks]
  /\ planned' = IF asks THEN [planned EXCEPT ![s] = turn[t].place]
                        ELSE planned
  /\ UNCHANGED <<listed, router, locks, msgs, panics, sent, attached, dropped, crossed>>

\* The goroutine ends; its locks are released when it returns.
Return(t) ==
  /\ turn' = [turn EXCEPT ![t] = NoTurn]
  /\ triageMu' = IF triageMu = t THEN None ELSE triageMu
  /\ flock' = (flock /\ ~turn[t].locked)
  /\ UNCHANGED <<listed, router, pass, openings, msgs>>

Post(t) == turn[t].at = "post" /\ Return(t) /\ UNCHANGED <<st, panics, history>>

\* Mutant: the recovery leaves busy set.
Panic_Wedged(t) ==
  /\ turn[t].at \in {"run", "post"} /\ panics < MaxPanics
  /\ panics' = panics + 1
  /\ crossed' = crossed \cup {s \in {turn[t].st} : turn[t].at = "post" /\ st[s].busy}
  /\ Return(t)
  /\ UNCHANGED <<st, sent, attached, dropped, planned>>

\* A panic in the agent's output, or in the answer, is recovered from and clears busy: of
\* the turn that runs now, when this one had released.
Panic(t) ==
  /\ turn[t].at \in {"run", "post"} /\ panics < MaxPanics
  /\ panics' = panics + 1
  /\ st' = [st EXCEPT ![turn[t].st].busy = FALSE]
  /\ crossed' = crossed \cup {s \in {turn[t].st} : turn[t].at = "post" /\ st[s].busy}
  /\ Return(t)
  /\ UNCHANGED <<sent, attached, dropped, planned>>

-----------------------------------------------------------------------------
(* The triage passes (Triage), which skip when the brain is locked. *)

TryLockTriageBrain ==
  /\ pass = "none" /\ ~flock
  /\ flock' = TRUE /\ pass' = "locked"
  /\ UNCHANGED <<listed, st, router, turn, triageMu, openings, msgs, panics, history>>

PassOpen ==
  /\ pass = "none" /\ openings < MaxOpenings
  /\ openings' = openings + 1 /\ pass' = "open"
  /\ UNCHANGED <<listed, st, router, turn, triageMu, flock, msgs, panics, history>>

PassEnds ==
  /\ pass # "none"
  /\ pass' = "none" /\ flock' = (flock /\ pass # "locked")
  /\ UNCHANGED <<listed, st, router, turn, triageMu, openings, msgs, panics, history>>

-----------------------------------------------------------------------------
Handle(s) ==
  \/ \E on \in BOOLEAN : handleTeamCommand(s, on)
  \/ listLocations(s) \/ listSessions(s) \/ startNew(s) \/ end(s) \/ startChat(s)
  \/ \E id \in {"", "brain"} : startTriageReply(s, id)
  \/ resetTriageBrain(s)
  \/ selectLocation(s) \/ selectSession(s)
  \/ approve(s) \/ reject(s) \/ text(s)
  \/ \E f \in Files, caption \in BOOLEAN : handleIncomingFile(s, f, caption)

Dispatch == dispatchAgentTurn \/ Refused \/ PutBack \/ NoBackend \/ runAgent

Ends(t) == (\E ok, named \in BOOLEAN : Answer(t, ok, named)) \/ Release(t) \/ Post(t)
Step(t) ==
  \/ LockMu(t) \/ lockTriageBrain(t) \/ FailOpen(t)
  \/ ReadRound(t) \/ Ends(t) \/ Panic(t)

Next ==
  \/ \E u \in Users : stateFor(u)
  \/ \E list \in SUBSET Users : SetAllow(list)
  \/ \E s \in Sessions : Handle(s)
  \/ Dispatch
  \/ \E t \in Turns : Step(t)
  \/ TryLockTriageBrain \/ PassOpen \/ PassEnds

Spec == Init /\ [][Next]_vars

\* The loop goes on, the agent returns (runner bounds it by a timeout), a turn goes on, and
\* a pass ends.  Go's mutex and the kernel's flock hand a lock to one who waits for it.
Fairness ==
  /\ WF_vars(Dispatch) /\ WF_vars(PassEnds)
  /\ \A t \in Turns : WF_vars(ReadRound(t) \/ Ends(t)) /\ SF_vars(LockMu(t)) /\ SF_vars(lockTriageBrain(t))
FairSpec == Spec /\ Fairness

-----------------------------------------------------------------------------
(* Properties. *)

\* Every variable keeps to its values; above all a turn never calls the agent more often
\* than the cap on reads allows.
TypeOK ==
  /\ allow \subseteq Users
  /\ byUser \in [Users -> Sessions \cup {None}]
  /\ st \in [Sessions -> Session]
  /\ router \in Router
  /\ turn \in [Turns -> Turn]
  /\ triageMu \in Turns \cup {None} /\ flock \in BOOLEAN /\ pass \in {"none", "locked", "open"}
  /\ commands \in Nat /\ texts \in Nat /\ openings \in Nat /\ panics \in Nat /\ reloads \in Nat
  /\ sent \subseteq Files /\ attached \in [Files -> Nat] /\ dropped \subseteq Files
  /\ crossed \subseteq Sessions
  /\ planned \in [Sessions -> Places]

\* One turn at a time works in a session, and exactly while the session is busy: what a
\* caption, which passes the busy gate, starts is no second turn (runAgent, "a run is
\* already in flight; don't start a second").  Only the panic of an older turn, while it
\* posts its answer, undoes that.
InFlight(s) == {t \in Turns : turn[t].st = s /\ turn[t].at \in Unreleased}
OneTurn ==
  \A s \in Sessions \ crossed :
    /\ \A t1, t2 \in InFlight(s) : t1 = t2
    /\ st[s].busy <=> InFlight(s) # {}

\* Nobody drives the triage brain beside an interactive turn: no other turn ever, and no
\* scheduled pass unless an attempt to lock has failed open (triageMu and the flock).
Driving == {t \in Turns : turn[t].brain /\ turn[t].at = "run"}
BrainAlone ==
  /\ \A t1, t2 \in Driving : t1 = t2
  /\ openings = 0 => (Driving = {} \/ pass = "none")

\* A file that was accepted is attached to one turn, or it still waits for the next one,
\* unless its user has left or had no agent (dispatchAgentTurn keeps the files of a message
\* that comes while a turn runs).
Waiting(f) == {s \in Sessions : f \in st[s].pendingFiles}
FilesKept ==
  \A f \in Files :
    LET held == IF f \in router.files THEN 1 ELSE 0
        lost == IF f \in dropped THEN 1 ELSE 0
    IN  attached[f] + Cardinality(Waiting(f)) + held + lost = IF f \in sent THEN 1 ELSE 0

\* A plan that awaits approval was made in the place where it would be carried out.
PlanFits ==
  \A s \in Sessions \ crossed : st[s].awaitingConfirm => planned[s] = st[s].location

\* Every turn lets its session go, panics and the brain's locks notwithstanding.
SessionsFree == \A s \in Sessions : st[s].busy ~> ~st[s].busy
=============================================================================
