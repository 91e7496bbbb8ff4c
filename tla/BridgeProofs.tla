----------------------------- MODULE BridgeProofs ------------------------------
(* Theorems about Bridge, for every value of its constants. *)
EXTENDS Bridge, FiniteSetTheorems, TLAPS

\* What the loop works with: it holds files only between dispatchAgentTurn and runAgent.
RouterOK ==
  /\ router.at # "idle" => router.st \in Sessions
  /\ router.at \in {"idle", "take"} => router.files = {}

\* A goroutine at work has a session, and is below the cap while it may call the agent.
TurnsOK ==
  \A t \in Turns :
    /\ turn[t].at # "none" => turn[t].st \in Sessions
    /\ turn[t].at \in {"mutex", "flock", "run"} => turn[t].calls <= maxTriageReadRounds + 1

\* Who drives the brain, or did, holds triageMu until it returns; who holds the flock has
\* it from the run on, alone, and only an attempt that failed open is without it.
Inside == {"run", "done", "post"}
LocksHeld ==
  /\ \A t \in Turns :
       /\ turn[t].at \in {"mutex", "flock"} => turn[t].brain
       /\ turn[t].brain /\ turn[t].at \in {"flock"} \cup Inside => triageMu = t
       /\ turn[t].locked => /\ flock /\ pass # "locked"
                            /\ turn[t].brain /\ turn[t].at \in Inside
       /\ openings = 0 /\ turn[t].brain /\ turn[t].at \in Inside => turn[t].locked
  /\ pass = "locked" => flock
  /\ openings = 0 => pass # "open"

\* A turn works where its session still is.
Works(t, s) == turn[t].st = s /\ turn[t].at \in Unreleased
InPlace ==
  \A s \in Sessions \ crossed, t \in Turns : Works(t, s) => turn[t].place = st[s].location

\* A file is in one place at most, and in one exactly once it was accepted.
Kept(f) ==
  /\ attached[f] \in {0, 1}
  /\ \A s1, s2 \in Sessions : f \in st[s1].pendingFiles /\ f \in st[s2].pendingFiles => s1 = s2
  /\ \A s \in Sessions : f \in st[s].pendingFiles => attached[f] = 0 /\ f \notin router.files
                                                     /\ f \notin dropped
  /\ f \in router.files => attached[f] = 0 /\ f \notin dropped
  /\ f \in dropped => attached[f] = 0
  /\ f \in sent <=> \/ attached[f] = 1 \/ f \in router.files \/ f \in dropped
                    \/ \E s \in Sessions : f \in st[s].pendingFiles
AllKept == \A f \in Files : Kept(f)

IInv ==
  TypeOK /\ RouterOK /\ TurnsOK /\ LocksHeld /\ OneTurn /\ InPlace /\ PlanFits /\ AllKept

-----------------------------------------------------------------------------
(* Types and shapes. *)

LEMMA Typing ==
  ASSUME TypeOK
  PROVE  /\ st \in [Sessions -> Session] /\ turn \in [Turns -> Turn] /\ router \in Router
         /\ byUser \in [Users -> Sessions \cup {None}] /\ attached \in [Files -> Nat]
         /\ planned \in [Sessions -> Places]
         /\ \A s \in Sessions : st[s] \in Session
         /\ \A t \in Turns : turn[t] \in Turn
         /\ commands \in Nat /\ texts \in Nat /\ openings \in Nat /\ panics \in Nat /\ reloads \in Nat
BY DEF TypeOK

LEMMA NewTyped ==
  /\ \A u \in Users : NewSession(u) \in Session
  /\ NoTurn \in Turn /\ Idle \in Router
  /\ None \notin Sessions /\ None \notin Turns
<1>1. maxTriageReadRounds + 2 \in Nat /\ None \notin Sessions \cup Turns
  BY BridgeAssumption
<1>2. NoTurn \in Turn
  BY <1>1 DEF NoTurn, Turn, Places, Unreleased
<1>3. \A u \in Users : NewSession(u) \in Session
  BY DEF NewSession, Session, Places, Conversations
<1>4. QED
  BY <1>1, <1>2, <1>3 DEF Idle, Router

\* A userState for a user who had none is one that nobody refers to.
LEMMA FreshUnused ==
  ASSUME \E s \in Sessions : Unused(s)
  PROVE  Fresh \in Sessions /\ Unused(Fresh)
BY DEF Fresh

\* What a handled message does: the userState becomes new, and the loop may go on with it.
\* Nothing but a gated command moves the session or its plan's approval.
Handled(s, new) ==
  /\ router.at = "idle" /\ new \in Session
  /\ st' = [st EXCEPT ![s] = new]
  /\ new.busy = st[s].busy
  /\ new.location = st[s].location \/ ~st[s].busy
  /\ new.awaitingConfirm => st[s].awaitingConfirm /\ new.location = st[s].location
  /\ \/ router' = router
     \/ router' \in Router /\ router'.st = s /\ router'.at \in {"take", "start"} /\ router'.files = {}
  /\ \/ new.pendingFiles = st[s].pendingFiles /\ sent' = sent
     \/ \E f \in Files \ sent :
          new.pendingFiles = st[s].pendingFiles \cup {f} /\ sent' = sent \cup {f}
  /\ commands' \in Nat /\ texts' \in Nat
  /\ UNCHANGED <<allow, byUser, reloads, turn, triageMu, flock, pass, openings, panics, attached,
                 dropped, crossed, planned>>

LEMMA BecomesHandled ==
  ASSUME TypeOK, NEW s \in Sessions, NEW new \in Session, router.at = "idle", Becomes(s, new),
         commands' \in Nat, texts' \in Nat,
         new.busy = st[s].busy, new.pendingFiles = st[s].pendingFiles,
         new.location = st[s].location \/ ~st[s].busy,
         new.awaitingConfirm => st[s].awaitingConfirm /\ new.location = st[s].location
  PROVE  Handled(s, new)
BY DEF Becomes, Handled, listed, locks, history

LEMMA AskHandled ==
  ASSUME TypeOK, NEW s \in Sessions, NEW new \in Session, router.at = "idle", Ask(s, new),
         commands' \in Nat, texts' \in Nat,
         new.busy = st[s].busy, new.pendingFiles = st[s].pendingFiles,
         new.location = st[s].location,
         new.awaitingConfirm => st[s].awaitingConfirm
  PROVE  Handled(s, new)
<1>1. router' = [Idle EXCEPT !.at = "start", !.st = s]
  BY DEF Ask
<1>2. router' \in Router /\ router'.st = s /\ router'.at = "start" /\ router'.files = {}
  BY <1>1, NewTyped DEF Router, Idle
<1>3. QED
  BY <1>2 DEF Ask, Handled, listed, locks, history

LEMMA HandleShape ==
  ASSUME TypeOK, NEW s \in Sessions, Handle(s)
  PROVE  \E new \in Session : Handled(s, new)
<1> DEFINE m == st[s]
           Goal == \E new \in Session : Handled(s, new)
<1>0. /\ m \in Session /\ st \in [Sessions -> Session]
      /\ commands \in Nat /\ texts \in Nat
  BY Typing
<1>1. ASSUME Command(s), NEW new, new \in Session, Becomes(s, new),
             new.busy = m.busy, new.pendingFiles = m.pendingFiles,
             new.location = m.location \/ ~m.busy,
             new.awaitingConfirm => m.awaitingConfirm /\ new.location = m.location
      PROVE  Goal
  <2>1. router.at = "idle" /\ commands' \in Nat /\ texts' \in Nat
    BY <1>0, <1>1 DEF Command, From
  <2>2. QED
    BY <1>1, <2>1, BecomesHandled
<1>2. ASSUME NEW on \in BOOLEAN, handleTeamCommand(s, on) PROVE Goal
  <2> DEFINE new == [m EXCEPT !.teamSession = on]
  <2>1. new \in Session /\ new.busy = m.busy /\ new.pendingFiles = m.pendingFiles
        /\ new.location = m.location /\ new.awaitingConfirm = m.awaitingConfirm
    BY <1>0 DEF Session
  <2>2. Command(s) /\ Becomes(s, new)
    BY <1>2 DEF handleTeamCommand
  <2> HIDE DEF new
  <2>3. QED
    BY <1>1, <2>1, <2>2
<1>3. CASE listLocations(s) \/ listSessions(s)
  <2> DEFINE Menu(kind) == [m EXCEPT !.pendingKind = kind]
  <2>1. \A kind \in {"location", "session"} :
          /\ Menu(kind) \in Session /\ Menu(kind).busy = m.busy
          /\ Menu(kind).pendingFiles = m.pendingFiles /\ Menu(kind).location = m.location
          /\ Menu(kind).awaitingConfirm = m.awaitingConfirm
    BY <1>0 DEF Session
  <2>2. Command(s) /\ \E kind \in {"location", "session"} : Becomes(s, Menu(kind))
    BY <1>3 DEF listLocations, listSessions
  <2> HIDE DEF Menu
  <2>3. QED
    BY <1>1, <2>1, <2>2
<1>4. CASE startNew(s)
  <2> DEFINE new == [m EXCEPT !.sessionID = "", !.pendingKind = "", !.awaitingConfirm = FALSE]
  <2>1. new \in Session /\ new.busy = m.busy /\ new.pendingFiles = m.pendingFiles
        /\ new.location = m.location /\ ~new.awaitingConfirm
    BY <1>0 DEF Session, Conversations
  <2>2. Command(s) /\ Becomes(s, new)
    BY <1>4 DEF startNew
  <2> HIDE DEF new
  <2>3. QED
    BY <1>1, <2>1, <2>2
<1>5. CASE end(s)
  <2> DEFINE new == [m EXCEPT !.sessionID = "", !.pendingKind = "", !.awaitingConfirm = FALSE,
                              !.triageSession = FALSE, !.seed = FALSE]
  <2>1. new \in Session /\ new.busy = m.busy /\ new.pendingFiles = m.pendingFiles
        /\ new.location = m.location /\ ~new.awaitingConfirm
    BY <1>0 DEF Session, Conversations
  <2>2. Command(s) /\ Becomes(s, new)
    BY <1>5 DEF end
  <2> HIDE DEF new
  <2>3. QED
    BY <1>1, <2>1, <2>2
<1>6. CASE startChat(s)
  <2> DEFINE new == [m EXCEPT !.location = "chat", !.sessionID = "", !.pendingKind = "",
                              !.awaitingConfirm = FALSE, !.triageSession = FALSE, !.seed = TRUE]
  <2>1. new \in Session /\ new.busy = m.busy /\ new.pendingFiles = m.pendingFiles
        /\ ~new.awaitingConfirm
    BY <1>0 DEF Session, Conversations, Places
  <2>2. Command(s) /\ Becomes(s, new) /\ ~m.busy
    BY <1>6 DEF startChat, Gated
  <2> HIDE DEF new
  <2>3. QED
    BY <1>1, <2>1, <2>2
<1>7. ASSUME NEW id \in {"", "brain"}, startTriageReply(s, id) PROVE Goal
  <2> DEFINE new == [m EXCEPT !.location = "triage", !.sessionID = id, !.pendingKind = "",
                              !.awaitingConfirm = FALSE, !.triageSession = TRUE, !.seed = TRUE]
  <2>1. new \in Session /\ new.busy = m.busy /\ new.pendingFiles = m.pendingFiles
        /\ ~new.awaitingConfirm
    BY <1>0 DEF Session, Conversations, Places
  <2>2. Command(s) /\ Becomes(s, new) /\ ~m.busy
    BY <1>7 DEF startTriageReply, Gated
  <2> HIDE DEF new
  <2>3. QED
    BY <1>1, <2>1, <2>2
<1>8. CASE resetTriageBrain(s)
  <2> DEFINE new == [m EXCEPT !.sessionID = "", !.triageSession = FALSE, !.seed = FALSE]
  <2>1. new \in Session /\ new.busy = m.busy /\ new.pendingFiles = m.pendingFiles
        /\ new.location = m.location /\ new.awaitingConfirm = m.awaitingConfirm
    BY <1>0 DEF Session, Conversations
  <2>2. Command(s) /\ Becomes(s, new)
    BY <1>8 DEF resetTriageBrain
  <2> HIDE DEF new
  <2>3. QED
    BY <1>1, <2>1, <2>2
<1>9. CASE selectLocation(s)
  <2> DEFINE new == [m EXCEPT !.location = "repo", !.sessionID = "", !.pendingKind = "",
                              !.awaitingConfirm = FALSE, !.seed = TRUE]
  <2>1. new \in Session /\ new.busy = m.busy /\ new.pendingFiles = m.pendingFiles
        /\ ~new.awaitingConfirm
    BY <1>0 DEF Session, Conversations, Places
  <2>2. Command(s) /\ Becomes(s, new) /\ ~m.busy
    BY <1>9 DEF selectLocation, Gated
  <2> HIDE DEF new
  <2>3. QED
    BY <1>1, <2>1, <2>2
<1>10. ASSUME ForAgent(s) PROVE router.at = "idle" /\ commands' \in Nat /\ texts' \in Nat
  BY <1>0, <1>10 DEF ForAgent, From
<1>11. CASE selectSession(s)
  <2> DEFINE new == [m EXCEPT !.sessionID = "past", !.pendingKind = "", !.seed = FALSE]
  <2>1. new \in Session /\ new.busy = m.busy /\ new.pendingFiles = m.pendingFiles
        /\ new.location = m.location /\ new.awaitingConfirm = m.awaitingConfirm
    BY <1>0 DEF Session, Conversations
  <2>2. ForAgent(s) /\ Ask(s, new)
    BY <1>11 DEF selectSession
  <2> HIDE DEF new
  <2>3. QED
    BY <1>10, <2>1, <2>2, AskHandled
<1>12. CASE approve(s) \/ reject(s)
  <2> DEFINE new == [m EXCEPT !.awaitingConfirm = FALSE]
  <2>1. new \in Session /\ new.busy = m.busy /\ new.pendingFiles = m.pendingFiles
        /\ new.location = m.location /\ ~new.awaitingConfirm
    BY <1>0 DEF Session
  <2>2. ForAgent(s) /\ (Ask(s, new) \/ Becomes(s, new))
    BY <1>12 DEF approve, reject
  <2> HIDE DEF new
  <2>3. QED
    BY <1>10, <2>1, <2>2, AskHandled, BecomesHandled
<1>13. ASSUME router.at = "idle", router' = [Idle EXCEPT !.at = "take", !.st = s]
       PROVE  router' \in Router /\ router'.st = s /\ router'.at = "take" /\ router'.files = {}
  BY <1>13, NewTyped DEF Router, Idle
<1>14. CASE text(s)
  <2>1. st' = [st EXCEPT ![s] = m]
    BY <1>0, <1>14 DEF text
  <2>2. Handled(s, m)
    BY <1>0, <1>10, <1>13, <1>14, <2>1 DEF text, Handled, listed, locks, history
  <2>3. QED
    BY <1>0, <2>2
<1>15. ASSUME NEW f \in Files, NEW caption \in BOOLEAN, handleIncomingFile(s, f, caption) PROVE Goal
  <2> DEFINE new == [m EXCEPT !.pendingFiles = @ \cup {f}]
  <2>1. new \in Session /\ new.busy = m.busy /\ new.pendingFiles = m.pendingFiles \cup {f}
        /\ new.location = m.location /\ new.awaitingConfirm = m.awaitingConfirm
    BY <1>0 DEF Session
  <2>2. st' = [st EXCEPT ![s] = new] /\ ForAgent(s) /\ f \notin sent /\ sent' = sent \cup {f}
    BY <1>0, <1>15 DEF handleIncomingFile
  <2>3. \/ router' = router
        \/ router' \in Router /\ router'.st = s /\ router'.at = "take" /\ router'.files = {}
    BY <1>10, <1>13, <1>15, <2>2 DEF handleIncomingFile
  <2> HIDE DEF new
  <2>4. Handled(s, new)
    BY <1>10, <1>15, <2>1, <2>2, <2>3 DEF handleIncomingFile, Handled, listed, locks
  <2>5. QED
    BY <2>1, <2>4
<1>16. QED
  BY <1>2, <1>3, <1>4, <1>5, <1>6, <1>7, <1>8, <1>9, <1>11, <1>12, <1>14, <1>15 DEF Handle

\* What a step of a turn leaves of it.
Same(t, new) ==
  new.st = turn[t].st /\ new.place = turn[t].place /\ new.brain = turn[t].brain
Goes(t, new, at) == Same(t, new) /\ new.at = at /\ new.locked = turn[t].locked

LEMMA StepShape ==
  ASSUME TypeOK, TurnsOK, NEW t \in Turns, Step(t)
  PROVE  \E new \in Turn :
           /\ turn' = [turn EXCEPT ![t] = new]
           /\ new.at = "run" => new.calls <= maxTriageReadRounds + 1
           /\ new.at = "flock" => new.calls <= maxTriageReadRounds + 1
           /\ new.at # "mutex"
           /\ \/ LockMu(t) /\ Goes(t, new, "flock")
              \/ lockTriageBrain(t) /\ Same(t, new) /\ new.at = "run" /\ new.locked
              \/ FailOpen(t) /\ Goes(t, new, "run")
              \/ ReadRound(t) /\ Goes(t, new, "run")
              \/ (\E ok, named \in BOOLEAN : Answer(t, ok, named)) /\ Goes(t, new, "done")
              \/ Release(t) /\ Goes(t, new, "post")
              \/ (Post(t) \/ Panic(t)) /\ new = NoTurn
<1> DEFINE m == turn[t]
           cap == maxTriageReadRounds + 1
           Goal(A, at, locked) ==
             \E new \in Turn : /\ turn' = [turn EXCEPT ![t] = new]
                               /\ new.calls <= cap + 1 /\ (at # "done" /\ at # "post" => new.calls <= cap)
                               /\ A /\ Same(t, new) /\ new.at = at /\ new.locked = locked
<1>0. /\ turn \in [Turns -> Turn] /\ m \in Turn /\ maxTriageReadRounds \in Nat
      /\ m.calls \in 0..(cap + 1)
      /\ m.at \in {"mutex", "flock", "run"} => m.calls <= cap
  BY Typing, BridgeAssumption DEF TurnsOK, Turn
<1>1. CASE LockMu(t)
  <2> DEFINE new == [m EXCEPT !.at = "flock"]
  <2>1. /\ new \in Turn /\ new.calls <= cap /\ Same(t, new) /\ new.at = "flock"
        /\ new.locked = m.locked
    BY <1>0, <1>1 DEF LockMu, Turn, Unreleased, Same
  <2>2. turn' = [turn EXCEPT ![t] = new]
    BY <1>0, <1>1 DEF LockMu
  <2> HIDE DEF new
  <2>3. QED
    BY <1>1, <2>1, <2>2 DEF Goes
<1>2. CASE lockTriageBrain(t)
  <2> DEFINE new == [m EXCEPT !.at = "run", !.locked = TRUE]
  <2>1. /\ new \in Turn /\ new.calls <= cap /\ Same(t, new) /\ new.at = "run" /\ new.locked
    BY <1>0, <1>2 DEF lockTriageBrain, Turn, Unreleased, Same
  <2>2. turn' = [turn EXCEPT ![t] = new]
    BY <1>0, <1>2 DEF lockTriageBrain
  <2> HIDE DEF new
  <2>3. QED
    BY <1>2, <2>1, <2>2
<1>3. CASE FailOpen(t)
  <2> DEFINE new == [m EXCEPT !.at = "run"]
  <2>1. /\ new \in Turn /\ new.calls <= cap /\ Same(t, new) /\ new.at = "run"
        /\ new.locked = m.locked
    BY <1>0, <1>3 DEF FailOpen, Turn, Unreleased, Same
  <2>2. turn' = [turn EXCEPT ![t] = new]
    BY <1>0, <1>3 DEF FailOpen
  <2> HIDE DEF new
  <2>3. QED
    BY <1>3, <2>1, <2>2 DEF Goes
<1>4. CASE ReadRound(t)
  <2> DEFINE new == [m EXCEPT !.calls = @ + 1]
  <2>1. m.calls + 1 \in 0..(cap + 1) /\ m.calls + 1 <= cap /\ m.at = "run"
    BY <1>0, <1>4 DEF ReadRound
  <2>2. /\ new \in Turn /\ new.calls <= cap /\ Same(t, new) /\ new.at = "run"
        /\ new.locked = m.locked
    BY <1>0, <2>1 DEF Turn, Same
  <2>3. turn' = [turn EXCEPT ![t] = new]
    BY <1>0, <1>4 DEF ReadRound
  <2> HIDE DEF new
  <2>4. QED
    BY <1>4, <2>2, <2>3 DEF Goes
<1>5. ASSUME NEW ok \in BOOLEAN, NEW named \in BOOLEAN, Answer(t, ok, named)
      PROVE  \E new \in Turn : /\ turn' = [turn EXCEPT ![t] = new]
                               /\ Goes(t, new, "done")
  <2> DEFINE new == [m EXCEPT !.calls = @ + 1, !.at = "done", !.ok = ok]
  <2>1. m.calls + 1 \in 0..(maxTriageReadRounds + 2) /\ "done" \in Unreleased
    BY <1>0, <1>5 DEF Answer, Unreleased
  <2>2. new \in Turn /\ Same(t, new) /\ new.at = "done" /\ new.locked = m.locked
    BY <1>0, <2>1 DEF Turn, Same
  <2>3. turn' = [turn EXCEPT ![t] = new]
    BY <1>0, <1>5 DEF Answer
  <2> HIDE DEF new
  <2>4. QED
    BY <2>2, <2>3 DEF Goes
<1>6. CASE Release(t)
  <2> DEFINE new == [m EXCEPT !.at = "post"]
  <2>1. new \in Turn /\ Same(t, new) /\ new.at = "post" /\ new.locked = m.locked
    BY <1>0 DEF Turn, Same
  <2>2. turn' = [turn EXCEPT ![t] = new]
    BY <1>0, <1>6 DEF Release
  <2> HIDE DEF new
  <2>3. QED
    BY <1>6, <2>1, <2>2 DEF Goes
<1>7. CASE Post(t) \/ Panic(t)
  <2>1. turn' = [turn EXCEPT ![t] = NoTurn] /\ NoTurn \in Turn /\ NoTurn.at = "none"
    BY <1>7, NewTyped DEF Post, Panic, Return, NoTurn
  <2>2. QED
    BY <1>7, <2>1
<1>8. CASE \E ok, named \in BOOLEAN : Answer(t, ok, named)
  BY <1>5, <1>8 DEF Goes
<1>9. QED
  BY <1>1, <1>2, <1>3, <1>4, <1>6, <1>7, <1>8 DEF Step, Ends

\* What it does to the userState.
LEMMA StepSession ==
  ASSUME TypeOK, TurnsOK, NEW t \in Turns, Step(t)
  PROVE  LET s == turn[t].st IN
         /\ s \in Sessions
         /\ \E new \in Session :
              /\ st' = [st EXCEPT ![s] = new]
              /\ new.location = st[s].location /\ new.pendingFiles = st[s].pendingFiles
              /\ \/ ~Release(t) /\ ~Panic(t) /\ new.busy = st[s].busy
                    /\ new.awaitingConfirm = st[s].awaitingConfirm
                 \/ /\ Release(t) /\ ~new.busy
                    /\ new.awaitingConfirm => st[s].awaitingConfirm \/ (turn[t].ok /\ turn[t].plan)
                 \/ Panic(t) /\ ~new.busy /\ new.awaitingConfirm = st[s].awaitingConfirm
<1> DEFINE s == turn[t].st  m == st[s]
<1>0. panics \in Nat
  BY Typing
<1>1. turn[t].at # "none"
  BY DEF Step, Ends, LockMu, lockTriageBrain, FailOpen, ReadRound, Answer, Release, Post, Panic
<1>2. s \in Sessions /\ m \in Session /\ st \in [Sessions -> Session]
  BY <1>1, Typing DEF TurnsOK
<1>3. st = [st EXCEPT ![s] = m]
  BY <1>2
<1>4. CASE LockMu(t) \/ lockTriageBrain(t) \/ FailOpen(t) \/ Post(t)
  <2>1. st' = st /\ ~Release(t) /\ ~Panic(t)
    BY <1>0, <1>4 DEF LockMu, lockTriageBrain, FailOpen, Post, Release, Panic
  <2>2. QED
    BY <1>2, <1>3, <2>1
<1>5. CASE ReadRound(t) \/ \E ok, named \in BOOLEAN : Answer(t, ok, named)
  <2> DEFINE new == [m EXCEPT !.sessionID = Recorded(t)]
  <2>1. Recorded(t) \in Conversations
    BY <1>2 DEF Recorded, Conversations, Session
  <2>2. new \in Session /\ new.location = m.location /\ new.pendingFiles = m.pendingFiles
        /\ new.busy = m.busy /\ new.awaitingConfirm = m.awaitingConfirm
    BY <1>2, <2>1 DEF Session
  <2>3. st' = [st EXCEPT ![s] = new] \/ st' = [st EXCEPT ![s] = m]
    BY <1>2, <1>3, <1>5 DEF ReadRound, Answer, recordSession
  <2>4. ~Release(t) /\ ~Panic(t)
    <3>1. turn[t].at = "run" /\ panics' = panics
      BY <1>5 DEF ReadRound, Answer
    <3>2. QED
      BY <1>0, <3>1 DEF Release, Panic
  <2> HIDE DEF new
  <2>5. QED
    BY <1>2, <2>2, <2>3, <2>4
<1>6. CASE Release(t)
  <2> DEFINE asks == turn[t].ok /\ turn[t].plan
             new == [m EXCEPT !.busy = FALSE, !.awaitingConfirm = @ \/ asks]
  <2>1. new \in Session /\ new.location = m.location /\ new.pendingFiles = m.pendingFiles
        /\ ~new.busy /\ (new.awaitingConfirm => m.awaitingConfirm \/ asks)
    BY <1>2 DEF Session
  <2>2. st' = [st EXCEPT ![s] = new]
    BY <1>2, <1>6 DEF Release
  <2> HIDE DEF new
  <2>3. QED
    BY <1>2, <1>6, <2>1, <2>2
<1>7. CASE Panic(t)
  <2> DEFINE new == [m EXCEPT !.busy = FALSE]
  <2>1. new \in Session /\ new.location = m.location /\ new.pendingFiles = m.pendingFiles
        /\ ~new.busy /\ new.awaitingConfirm = m.awaitingConfirm
    BY <1>2 DEF Session
  <2>2. st' = [st EXCEPT ![s] = new]
    BY <1>2, <1>7 DEF Panic
  <2> HIDE DEF new
  <2>3. QED
    BY <1>2, <1>7, <2>1, <2>2
<1>8. QED
  BY <1>4, <1>5, <1>6, <1>7 DEF Step, Ends

\* runAgent starts one goroutine that was idle.
LEMMA StartShape ==
  ASSUME TypeOK, RouterOK, runAgent
  PROVE  /\ router.st \in Sessions
         /\ \E t \in Turns : \E new \in Turn :
              /\ turn[t].at = "none" /\ turn' = [turn EXCEPT ![t] = new]
              /\ new.at = IF st[router.st].triageSession THEN "mutex" ELSE "run"
              /\ new.st = router.st /\ new.place = st[router.st].location
              /\ new.brain = st[router.st].triageSession /\ new.plan = router.plan
              /\ new.calls = 0 /\ ~new.locked
<1> DEFINE s == router.st
           t == CHOOSE u \in Turns : turn[u].at = "none"
           new == [NoTurn EXCEPT !.at = IF st[s].triageSession THEN "mutex" ELSE "run", !.st = s,
                                 !.place = st[s].location, !.brain = st[s].triageSession,
                                 !.plan = router.plan]
<1>1. s \in Sessions /\ st[s] \in Session /\ router \in Router
  BY Typing DEF runAgent, RouterOK
<1>2. t \in Turns /\ turn[t].at = "none"
  BY DEF runAgent
<1>3. /\ st[s].location \in Places /\ st[s].triageSession \in BOOLEAN /\ router.plan \in BOOLEAN
  BY <1>1 DEF Session, Router
<1>4. /\ new \in Turn /\ new.at = IF st[s].triageSession THEN "mutex" ELSE "run"
      /\ new.st = s /\ new.place = st[s].location /\ new.brain = st[s].triageSession
      /\ new.plan = router.plan /\ new.calls = 0 /\ ~new.locked
  BY <1>1, <1>3, NewTyped DEF Turn, NoTurn, Unreleased
<1>5. turn' = [turn EXCEPT ![t] = new]
  BY DEF runAgent
<1> HIDE DEF t, new
<1>6. QED
  BY <1>1, <1>2, <1>4, <1>5

-----------------------------------------------------------------------------
(* Every step keeps the invariant: the messages. *)

LEMMA HandleKeeps ==
  ASSUME IInv, NEW s \in Sessions, Handle(s)
  PROVE  IInv'
<1>1. PICK new \in Session : Handled(s, new)
  BY HandleShape DEF IInv
<1>2. /\ st \in [Sessions -> Session] /\ router \in Router /\ router.at = "idle" /\ router.files = {}
  BY <1>1, Typing DEF IInv, Handled, RouterOK
<1>3. /\ st' \in [Sessions -> Session] /\ st'[s] = new
      /\ \A x \in Sessions \ {s} : st'[x] = st[x]
  BY <1>1, <1>2 DEF Handled
<1>4. /\ UNCHANGED <<allow, byUser, reloads, turn, triageMu, flock, pass, openings, panics, attached,
                     dropped, crossed, planned>>
      /\ commands' \in Nat /\ texts' \in Nat /\ new.busy = st[s].busy
      /\ new.location = st[s].location \/ ~st[s].busy
      /\ new.awaitingConfirm => st[s].awaitingConfirm /\ new.location = st[s].location
  BY <1>1 DEF Handled
<1>5. /\ router' \in Router /\ router'.files = {} /\ router'.at \in {"idle", "take", "start"}
      /\ router'.at # "idle" => router'.st \in Sessions
  BY <1>1, <1>2 DEF Handled
<1>6. sent' \subseteq Files
  BY <1>1 DEF Handled, IInv, TypeOK
<1>7. TypeOK'
  BY <1>3, <1>4, <1>5, <1>6 DEF IInv, TypeOK
<1>8. RouterOK' /\ TurnsOK' /\ LocksHeld'
  BY <1>4, <1>5 DEF IInv, RouterOK, TurnsOK, LocksHeld
<1>9. OneTurn'
  BY <1>3, <1>4 DEF IInv, OneTurn, InFlight
<1>10. InPlace'
  <2>1. ASSUME NEW x \in Sessions \ crossed, NEW t \in Turns, Works(t, x)
        PROVE  turn[t].place = st'[x].location
    <3>1. st[x].busy /\ turn[t].place = st[x].location
      BY <2>1 DEF IInv, OneTurn, InFlight, InPlace, Works
    <3>2. QED
      BY <1>3, <1>4, <3>1
  <2>2. QED
    BY <1>4, <2>1 DEF InPlace, Works
<1>11. PlanFits'
  BY <1>3, <1>4 DEF IInv, PlanFits
<1>12. AllKept'
  <2>1. CASE new.pendingFiles = st[s].pendingFiles /\ sent' = sent
    <3>1. \A x \in Sessions : st'[x].pendingFiles = st[x].pendingFiles
      BY <1>3, <2>1
    <3>2. QED
      BY <1>2, <1>4, <1>5, <2>1, <3>1 DEF IInv, AllKept, Kept
  <2>2. ASSUME NEW f \in Files \ sent, new.pendingFiles = st[s].pendingFiles \cup {f},
               sent' = sent \cup {f}
        PROVE  AllKept'
    <3>1. ASSUME NEW g \in Files \ {f} PROVE Kept(g)'
      <4>1. \A x \in Sessions : g \in st'[x].pendingFiles <=> g \in st[x].pendingFiles
        BY <1>3, <2>2, <3>1
      <4>2. QED
        BY <1>2, <1>4, <1>5, <2>2, <4>1 DEF IInv, AllKept, Kept
    <3>2. Kept(f)'
      <4>1. \A x \in Sessions : f \in st'[x].pendingFiles <=> x = s
        BY <1>3, <2>2 DEF IInv, AllKept, Kept
      <4>2. QED
        BY <1>2, <1>4, <1>5, <2>2, <4>1 DEF IInv, AllKept, Kept
    <3>3. QED
      BY <3>1, <3>2 DEF AllKept
  <2>3. QED
    BY <1>1, <2>1, <2>2 DEF Handled
<1>13. QED
  BY <1>7, <1>8, <1>9, <1>10, <1>11, <1>12 DEF IInv

\* A user without a userState gets one that nothing refers to any more.
LEMMA StateForKeeps ==
  ASSUME IInv, NEW u \in Users, stateFor(u)
  PROVE  IInv'
<1>0. PICK s \in Sessions : s = Fresh /\ Unused(s)
  BY FreshUnused DEF stateFor
<1>1. s \in Sessions /\ Unused(s) /\ NewSession(u) \in Session
  BY <1>0, NewTyped
<1>2. /\ byUser' = [byUser EXCEPT ![u] = s] /\ st' = [st EXCEPT ![s] = NewSession(u)]
      /\ dropped' = dropped \cup st[s].pendingFiles /\ crossed' = crossed \ {s}
      /\ planned' = [planned EXCEPT ![s] = ""] /\ router.at = "idle"
      /\ UNCHANGED <<allow, reloads, router, turn, triageMu, flock, pass, openings, commands, texts,
                     panics, sent, attached>>
  BY <1>0 DEF stateFor, locks, msgs
<1>3. /\ st \in [Sessions -> Session] /\ st[s] \in Session /\ planned \in [Sessions -> Places]
      /\ byUser \in [Users -> Sessions \cup {None}] /\ router.files = {}
  BY <1>1, <1>2, Typing DEF IInv, RouterOK
<1>4. /\ ~NewSession(u).busy /\ ~NewSession(u).awaitingConfirm /\ NewSession(u).pendingFiles = {}
  BY DEF NewSession
<1>5. /\ st' \in [Sessions -> Session] /\ st'[s] = NewSession(u)
      /\ \A x \in Sessions \ {s} : st'[x] = st[x] /\ planned'[x] = planned[x]
      /\ planned' \in [Sessions -> Places]
  BY <1>1, <1>2, <1>3 DEF Places
<1>6. st[s].pendingFiles \subseteq Files
  BY <1>3 DEF Session
<1>7. TypeOK'
  BY <1>1, <1>2, <1>3, <1>5, <1>6 DEF IInv, TypeOK
<1>8. RouterOK' /\ TurnsOK' /\ LocksHeld'
  BY <1>2 DEF IInv, RouterOK, TurnsOK, LocksHeld
<1>9. \A t \in Turns : turn[t].st # s
  BY <1>1 DEF Unused
<1>10. OneTurn'
  <2>1. InFlight(s)' = {} /\ ~st'[s].busy
    BY <1>2, <1>4, <1>5, <1>9 DEF InFlight
  <2>2. ASSUME NEW x \in Sessions \ {s} PROVE InFlight(x)' = InFlight(x) /\ st'[x].busy = st[x].busy
    BY <1>2, <1>5 DEF InFlight
  <2>3. \A x \in Sessions \ {s} : x \notin crossed' => x \notin crossed
    BY <1>2
  <2>4. QED
    BY <2>1, <2>2, <2>3 DEF IInv, OneTurn
<1>11. InPlace'
  BY <1>2, <1>5, <1>9 DEF IInv, InPlace, Works
<1>12. PlanFits'
  BY <1>2, <1>4, <1>5 DEF IInv, PlanFits
<1>13. AllKept'
  <2>1. ASSUME NEW f \in Files PROVE Kept(f)'
    <3>1. \A x \in Sessions : f \in st'[x].pendingFiles <=> x # s /\ f \in st[x].pendingFiles
      BY <1>4, <1>5
    <3>2. Kept(f)
      BY DEF IInv, AllKept
    <3>3. QED
      BY <1>1, <1>2, <1>3, <3>1, <3>2 DEF Kept
  <2>2. QED
    BY <2>1 DEF AllKept
<1>14. QED
  BY <1>7, <1>8, <1>10, <1>11, <1>12, <1>13 DEF IInv

LEMMA SetAllowKeeps ==
  ASSUME IInv, NEW list \in SUBSET Users, SetAllow(list)
  PROVE  IInv'
<1>1. /\ reloads' = reloads + 1 /\ allow' = list
      /\ byUser' = [u \in Users |-> IF u \in list THEN byUser[u] ELSE None]
      /\ UNCHANGED <<st, router, turn, triageMu, flock, pass, openings, commands, texts, panics, sent,
                     attached, dropped, crossed, planned>>
  BY DEF SetAllow, locks, msgs, history
<1>2. TypeOK'
  <2>1. byUser' \in [Users -> Sessions \cup {None}] /\ reloads' \in Nat
    BY <1>1 DEF IInv, TypeOK
  <2>2. QED
    BY <1>1, <2>1 DEF IInv, TypeOK
<1>3. QED
  BY <1>1, <1>2 DEF IInv, RouterOK, TurnsOK, LocksHeld, OneTurn, InFlight, InPlace, Works, PlanFits,
                    AllKept, Kept

LEMMA PassKeeps ==
  ASSUME IInv, TryLockTriageBrain \/ PassOpen \/ PassEnds
  PROVE  IInv'
<1>1. UNCHANGED <<allow, byUser, reloads, st, router, turn, triageMu, commands, texts, panics, sent,
                  attached, dropped, crossed, planned>>
  BY DEF TryLockTriageBrain, PassOpen, PassEnds, listed, msgs, history
<1>2. openings \in Nat /\ flock \in BOOLEAN /\ pass \in {"none", "locked", "open"}
  BY DEF IInv, TypeOK
<1>3. TypeOK'
  <2>1. openings' \in Nat /\ pass' \in {"none", "locked", "open"}
    BY <1>2 DEF TryLockTriageBrain, PassOpen, PassEnds
  <2>2. flock' \in BOOLEAN
    BY <1>2 DEF TryLockTriageBrain, PassOpen, PassEnds
  <2>3. QED
    BY <1>1, <2>1, <2>2 DEF IInv, TypeOK
<1>4. LocksHeld'
  <2>1. CASE TryLockTriageBrain
    BY <1>1, <1>2, <2>1 DEF IInv, LocksHeld, TryLockTriageBrain
  <2>2. CASE PassOpen
    BY <1>1, <1>2, <2>2 DEF IInv, LocksHeld, PassOpen
  <2>3. CASE PassEnds
    BY <1>1, <1>2, <2>3 DEF IInv, LocksHeld, PassEnds
  <2>4. QED
    BY <2>1, <2>2, <2>3
<1>5. QED
  BY <1>1, <1>3, <1>4 DEF IInv, RouterOK, TurnsOK, OneTurn, InFlight, InPlace, Works, PlanFits,
                          AllKept, Kept

-----------------------------------------------------------------------------
(* ... the loop's way to the agent ... *)

\* The userState the loop works with changes in nothing a turn looks at.
LEMMA LoopKeepsTurns ==
  ASSUME IInv, router.st \in Sessions,
         UNCHANGED <<turn, crossed, planned>>,
         st' \in [Sessions -> Session],
         \A s \in Sessions : /\ st'[s].busy = st[s].busy /\ st'[s].location = st[s].location
                             /\ st'[s].awaitingConfirm = st[s].awaitingConfirm
  PROVE  OneTurn' /\ InPlace' /\ PlanFits' /\ TurnsOK'
BY DEF IInv, OneTurn, InFlight, InPlace, Works, PlanFits, TurnsOK

LEMMA TakeKeeps ==
  ASSUME IInv, dispatchAgentTurn \/ PutBack
  PROVE  IInv'
<1> DEFINE s == router.st
<1>1. /\ s \in Sessions /\ st \in [Sessions -> Session] /\ st[s] \in Session /\ router \in Router
      /\ router.files \subseteq Files /\ st[s].pendingFiles \subseteq Files
  BY Typing DEF IInv, RouterOK, dispatchAgentTurn, PutBack, Router, Session
<1>2. /\ UNCHANGED <<allow, byUser, reloads, turn, triageMu, flock, pass, openings, commands, texts,
                     panics, sent, attached, dropped, crossed, planned>>
  BY DEF dispatchAgentTurn, PutBack, listed, locks, msgs, history
\* The files go from the userState to the loop, or back.
<1>3. /\ router' \in Router /\ st' \in [Sessions -> Session] /\ RouterOK'
      /\ \A x \in Sessions : /\ st'[x].busy = st[x].busy /\ st'[x].location = st[x].location
                             /\ st'[x].awaitingConfirm = st[x].awaitingConfirm
                             /\ x # s => st'[x].pendingFiles = st[x].pendingFiles
      /\ \/ /\ st'[s].pendingFiles = {} /\ router.files = {}
            /\ router'.files = st[s].pendingFiles
         \/ /\ st'[s].pendingFiles = st[s].pendingFiles \cup router.files
            /\ router'.files = {}
  <2>1. CASE dispatchAgentTurn
    <3> DEFINE new == [st[s] EXCEPT !.pendingFiles = {}, !.seed = FALSE]
    <3>1. /\ new \in Session /\ new.pendingFiles = {} /\ new.busy = st[s].busy
          /\ new.location = st[s].location /\ new.awaitingConfirm = st[s].awaitingConfirm
      BY <1>1 DEF Session
    <3>2. st' = [st EXCEPT ![s] = new]
      BY <1>1, <2>1 DEF dispatchAgentTurn
    <3>3. /\ router' \in Router /\ router'.files = st[s].pendingFiles /\ router'.at = "start"
          /\ router'.st = s
      <4>1. st[s].seed \in BOOLEAN /\ Plans(s) \in BOOLEAN
        BY <1>1 DEF Session, Plans
      <4>2. router' = [router EXCEPT !.at = "start", !.files = st[s].pendingFiles, !.seed = st[s].seed,
                                     !.plan = Plans(s)]
        BY <2>1 DEF dispatchAgentTurn
      <4>3. QED
        BY <1>1, <4>1, <4>2 DEF Router
    <3>4. router.files = {}
      BY <2>1 DEF dispatchAgentTurn, IInv, RouterOK
    <3> HIDE DEF new
    <3>5. QED
      BY <1>1, <3>1, <3>2, <3>3, <3>4 DEF RouterOK
  <2>2. CASE PutBack
    <3> DEFINE new == [st[s] EXCEPT !.pendingFiles = @ \cup router.files]
    <3>1. /\ new \in Session /\ new.pendingFiles = st[s].pendingFiles \cup router.files
          /\ new.busy = st[s].busy
          /\ new.location = st[s].location /\ new.awaitingConfirm = st[s].awaitingConfirm
      BY <1>1 DEF Session
    <3>2. st' = [st EXCEPT ![s] = new]
      BY <1>1, <2>2 DEF PutBack
    <3>3. router' \in Router /\ router'.files = {} /\ router'.at = "idle"
      BY <2>2, NewTyped DEF PutBack, Idle
    <3> HIDE DEF new
    <3>4. QED
      BY <1>1, <3>1, <3>2, <3>3 DEF RouterOK
  <2>3. QED
    BY <2>1, <2>2
<1>4. TypeOK'
  BY <1>2, <1>3 DEF IInv, TypeOK
<1>5. OneTurn' /\ InPlace' /\ PlanFits' /\ TurnsOK'
  BY <1>1, <1>2, <1>3, LoopKeepsTurns
<1>6. LocksHeld'
  BY <1>2 DEF IInv, LocksHeld
<1>7. AllKept'
  <2>1. ASSUME NEW f \in Files PROVE Kept(f)'
    <3>1. Kept(f)
      BY DEF IInv, AllKept
    <3>2. \A x \in Sessions \ {s} : f \in st'[x].pendingFiles <=> f \in st[x].pendingFiles
      BY <1>3
    <3>3. \/ /\ f \notin router.files /\ f \notin st'[s].pendingFiles
             /\ f \in router'.files <=> f \in st[s].pendingFiles
          \/ /\ f \notin router'.files
             /\ f \in st'[s].pendingFiles <=> f \in router.files \/ f \in st[s].pendingFiles
      BY <1>3
    <3> HIDE DEF s
    <3>4. QED
      BY <1>1, <1>2, <3>1, <3>2, <3>3 DEF Kept
  <2>2. QED
    BY <2>1 DEF AllKept
<1>8. QED
  BY <1>3, <1>4, <1>5, <1>6, <1>7 DEF IInv

LEMMA RefuseKeeps ==
  ASSUME IInv, Refused \/ NoBackend
  PROVE  IInv'
<1>1. /\ UNCHANGED <<allow, byUser, reloads, st, turn, triageMu, flock, pass, openings, commands, texts,
                     panics, sent, attached, crossed, planned>>
      /\ router.at = "start"
  BY DEF Refused, NoBackend, listed, locks, msgs, history
<1>2. router \in Router /\ router.st \in Sessions /\ router.files \subseteq Files
  BY <1>1, Typing DEF IInv, RouterOK, Router
<1>3. /\ router' \in Router /\ RouterOK' /\ dropped' \subseteq Files
      /\ \/ router'.files = router.files /\ dropped' = dropped
         \/ router'.files = {} /\ dropped' = dropped \cup router.files
  <2>1. Idle \in Router /\ Idle.files = {} /\ Idle.at = "idle"
    BY NewTyped DEF Idle
  <2>2. /\ [router EXCEPT !.at = "back"] \in Router
        /\ [router EXCEPT !.at = "back"].at = "back"
        /\ [router EXCEPT !.at = "back"].st = router.st
        /\ [router EXCEPT !.at = "back"].files = router.files
    BY <1>2 DEF Router
  <2>3. CASE Refused
    BY <1>2, <2>1, <2>2, <2>3 DEF Refused, history, RouterOK, IInv, TypeOK
  <2>4. CASE NoBackend
    BY <1>2, <2>1, <2>4 DEF NoBackend, RouterOK, IInv, TypeOK
  <2>5. QED
    BY <2>3, <2>4
<1>4. TypeOK'
  BY <1>1, <1>3 DEF IInv, TypeOK
<1>5. OneTurn' /\ InPlace' /\ PlanFits' /\ TurnsOK' /\ LocksHeld'
  BY <1>1 DEF IInv, OneTurn, InFlight, InPlace, Works, PlanFits, TurnsOK, LocksHeld
<1>6. AllKept'
  <2>1. ASSUME NEW f \in Files PROVE Kept(f)'
    <3>1. Kept(f)
      BY DEF IInv, AllKept
    <3>2. QED
      BY <1>1, <1>3, <3>1 DEF Kept
  <2>2. QED
    BY <2>1 DEF AllKept
<1>7. QED
  BY <1>3, <1>4, <1>5, <1>6 DEF IInv

LEMMA StartKeeps ==
  ASSUME IInv, runAgent
  PROVE  IInv'
<1>0. PICK s \in Sessions : s = router.st
  BY StartShape DEF IInv
<1>1. PICK t \in Turns : \E new \in Turn :
        /\ turn[t].at = "none" /\ turn' = [turn EXCEPT ![t] = new]
        /\ new.at = IF st[s].triageSession THEN "mutex" ELSE "run"
        /\ new.st = s /\ new.place = st[s].location
        /\ new.brain = st[s].triageSession /\ new.plan = router.plan
        /\ new.calls = 0 /\ ~new.locked
  BY <1>0, StartShape DEF IInv
<1>2. PICK new \in Turn :
        /\ turn[t].at = "none" /\ turn' = [turn EXCEPT ![t] = new]
        /\ new.at = IF st[s].triageSession THEN "mutex" ELSE "run"
        /\ new.st = s /\ new.place = st[s].location
        /\ new.brain = st[s].triageSession /\ new.plan = router.plan
        /\ new.calls = 0 /\ ~new.locked
  BY <1>1
<1>3. /\ st' = [st EXCEPT ![s].busy = TRUE] /\ ~st[s].busy /\ router' = Idle
      /\ attached' = [f \in Files |-> attached[f] + IF f \in router.files THEN 1 ELSE 0]
      /\ UNCHANGED <<allow, byUser, reloads, triageMu, flock, pass, openings, commands, texts, panics,
                     sent, dropped, crossed, planned>>
  BY <1>0 DEF runAgent, listed, locks, msgs
<1>4. /\ st \in [Sessions -> Session] /\ st[s] \in Session /\ turn \in [Turns -> Turn]
      /\ attached \in [Files -> Nat] /\ maxTriageReadRounds \in Nat
  BY Typing, BridgeAssumption DEF IInv
<1>5. /\ turn' \in [Turns -> Turn] /\ turn'[t] = new
      /\ \A u \in Turns \ {t} : turn'[u] = turn[u]
  BY <1>2, <1>4
<1>6. /\ st' \in [Sessions -> Session] /\ st'[s].busy
      /\ \A x \in Sessions \ {s} : st'[x] = st[x]
      /\ \A x \in Sessions : /\ st'[x].location = st[x].location
                             /\ st'[x].awaitingConfirm = st[x].awaitingConfirm
                             /\ st'[x].pendingFiles = st[x].pendingFiles
  <2> DEFINE m == [st[s] EXCEPT !.busy = TRUE]
  <2>1. /\ m \in Session /\ m.busy /\ m.location = st[s].location
        /\ m.awaitingConfirm = st[s].awaitingConfirm /\ m.pendingFiles = st[s].pendingFiles
    BY <1>4 DEF Session
  <2>2. st' = [st EXCEPT ![s] = m]
    BY <1>3, <1>4
  <2> HIDE DEF m
  <2>3. QED
    BY <1>4, <2>1, <2>2
<1>7. router' \in Router /\ router'.files = {} /\ router'.at = "idle"
  BY <1>3, NewTyped DEF Idle
<1>8. /\ attached' \in [Files -> Nat]
      /\ \A f \in Files : attached'[f] = attached[f] + IF f \in router.files THEN 1 ELSE 0
  BY <1>3, <1>4
<1>9. TypeOK'
  BY <1>3, <1>5, <1>6, <1>7, <1>8 DEF IInv, TypeOK
<1>10. RouterOK'
  BY <1>7 DEF RouterOK
<1>11. TurnsOK'
  BY <1>2, <1>4, <1>5 DEF IInv, TurnsOK
<1>12. LocksHeld'
  <2>1. /\ new.at \in {"mutex", "run"} /\ (new.at = "mutex" => new.brain)
        /\ (new.brain => new.at = "mutex")
    BY <1>2, <1>4 DEF Session
  <2>2. QED
    BY <1>2, <1>3, <1>5, <2>1 DEF IInv, LocksHeld, Inside
<1>13. OneTurn'
  <2>1. InFlight(s)' = InFlight(s) \cup {t}
    BY <1>2, <1>5 DEF InFlight, Unreleased
  <2>2. s \notin crossed => InFlight(s) = {}
    BY <1>3 DEF IInv, OneTurn
  <2>3. ASSUME NEW x \in Sessions \ {s} PROVE InFlight(x)' = InFlight(x) /\ st'[x].busy = st[x].busy
    BY <1>2, <1>5, <1>6 DEF InFlight, Unreleased
  <2>4. ASSUME s \notin crossed PROVE InFlight(s)' = {t} /\ st'[s].busy
    BY <1>6, <2>1, <2>2, <2>4
  <2>5. OneTurn /\ crossed' = crossed
    BY <1>3 DEF IInv
  <2>6. QED
    BY <2>3, <2>4, <2>5 DEF OneTurn
<1>14. InPlace'
  BY <1>2, <1>3, <1>5, <1>6 DEF IInv, InPlace, Works
<1>15. PlanFits'
  BY <1>3, <1>6 DEF IInv, PlanFits
<1>16. AllKept'
  <2>1. ASSUME NEW f \in Files PROVE Kept(f)'
    <3>1. Kept(f) /\ attached[f] \in Nat
      BY <1>4 DEF IInv, AllKept
    <3>2. attached'[f] = IF f \in router.files THEN 1 ELSE attached[f]
      BY <1>8, <3>1 DEF Kept
    <3>3. QED
      BY <1>3, <1>6, <1>7, <3>1, <3>2 DEF Kept
  <2>2. QED
    BY <2>1 DEF AllKept
<1>17. QED
  BY <1>9, <1>10, <1>11, <1>12, <1>13, <1>14, <1>15, <1>16 DEF IInv

-----------------------------------------------------------------------------
(* ... and the turns. *)

\* What a step of a turn leaves alone, and that the rest keeps its type.
LEMMA StepRest ==
  ASSUME IInv, NEW t \in Turns, Step(t)
  PROVE  /\ UNCHANGED <<allow, byUser, reloads, router, pass, commands, texts, sent, attached, dropped>>
         /\ triageMu' \in Turns \cup {None} /\ flock' \in BOOLEAN
         /\ openings' \in Nat /\ panics' \in Nat /\ crossed \subseteq crossed'
         /\ crossed' \subseteq Sessions /\ planned' \in [Sessions -> Places]
<1>0. /\ triageMu \in Turns \cup {None} /\ flock \in BOOLEAN /\ openings \in Nat /\ panics \in Nat
      /\ crossed \subseteq Sessions /\ planned \in [Sessions -> Places]
      /\ turn[t] \in Turn /\ turn[t].st \in Sessions
  BY Typing, StepSession DEF IInv, TypeOK
<1> USE DEF listed, locks, msgs, history
<1>1. CASE LockMu(t) \/ lockTriageBrain(t) \/ ReadRound(t) \/ \E ok, named \in BOOLEAN : Answer(t, ok, named)
  BY <1>0, <1>1 DEF LockMu, lockTriageBrain, ReadRound, Answer
<1>2. CASE FailOpen(t)
  BY <1>0, <1>2 DEF FailOpen
<1>3. CASE Release(t)
  <2>1. turn[t].place \in Places
    BY <1>0 DEF Turn
  <2>2. QED
    BY <1>0, <1>3, <2>1 DEF Release
<1>4. CASE Post(t) \/ Panic(t)
  <2>1. Return(t)
    BY <1>4 DEF Post, Panic
  <2>2. flock' \in BOOLEAN
    BY <2>1 DEF Return
  <2>3. /\ UNCHANGED <<allow, byUser, reloads, router, pass, openings, commands, texts>>
        /\ triageMu' \in Turns \cup {None}
    BY <1>0, <2>1 DEF Return
  <2>4. UNCHANGED <<sent, attached, dropped, planned>>
    BY <1>4 DEF Post, Panic
  <2>5. panics' \in Nat
    BY <1>0, <1>4 DEF Post, Panic
  <2>6. crossed \subseteq crossed' /\ crossed' \subseteq Sessions
    BY <1>0, <1>4 DEF Post, Panic
  <2>7. QED
    BY <1>0, <2>2, <2>3, <2>4, <2>5, <2>6
<1>5. QED
  BY <1>1, <1>2, <1>3, <1>4 DEF Step, Ends

LEMMA StepLocks ==
  ASSUME IInv, NEW t \in Turns, Step(t)
  PROVE  LocksHeld'
<1>1. PICK new \in Turn :
        /\ turn' = [turn EXCEPT ![t] = new]
        /\ \/ LockMu(t) /\ Goes(t, new, "flock")
           \/ lockTriageBrain(t) /\ Same(t, new) /\ new.at = "run" /\ new.locked
           \/ FailOpen(t) /\ Goes(t, new, "run")
           \/ ReadRound(t) /\ Goes(t, new, "run")
           \/ (\E ok, named \in BOOLEAN : Answer(t, ok, named)) /\ Goes(t, new, "done")
           \/ Release(t) /\ Goes(t, new, "post")
           \/ (Post(t) \/ Panic(t)) /\ new = NoTurn
  BY StepShape DEF IInv
<1>2. /\ turn'[t] = new
      /\ \A u \in Turns \ {t} : turn'[u] = turn[u]
  BY <1>1, Typing DEF IInv
<1>3. openings \in Nat /\ pass' = pass /\ LocksHeld /\ t # None
  BY StepRest, Typing, NewTyped DEF IInv
<1> USE DEF listed, locks, msgs, history
<1>4. CASE LockMu(t) /\ Goes(t, new, "flock")
  <2>1. UNCHANGED <<flock, openings>> /\ triageMu = None /\ triageMu' = t /\ turn[t].at = "mutex"
    BY <1>4 DEF LockMu
  <2>2. \A u \in Turns : ~(turn[u].brain /\ turn[u].at \in {"flock"} \cup Inside)
    BY <1>3, <2>1, NewTyped DEF LocksHeld
  <2>3. turn[t].brain /\ ~turn[t].locked /\ new.brain /\ ~new.locked /\ new.at = "flock"
    BY <1>3, <1>4, <2>1, <2>2 DEF LocksHeld, Goes, Same
  <2>4. QED
    BY <1>2, <1>3, <2>1, <2>2, <2>3 DEF LocksHeld, Inside
<1>5. CASE lockTriageBrain(t) /\ Same(t, new) /\ new.at = "run" /\ new.locked
  <2>1. UNCHANGED <<triageMu, openings>> /\ ~flock /\ flock' /\ turn[t].at = "flock"
    BY <1>5 DEF lockTriageBrain
  <2>2. QED
    BY <1>2, <1>3, <1>5, <2>1 DEF LocksHeld, Same, Inside
<1>6. CASE FailOpen(t) /\ Goes(t, new, "run")
  <2>1. UNCHANGED <<triageMu, flock>> /\ openings' = openings + 1 /\ turn[t].at = "flock"
    BY <1>6 DEF FailOpen
  <2>2. openings' # 0
    BY <1>3, <2>1
  <2>3. QED
    BY <1>2, <1>3, <1>6, <2>1, <2>2 DEF LocksHeld, Goes, Same, Inside
<1>7. CASE \/ ReadRound(t) /\ Goes(t, new, "run")
           \/ (\E ok, named \in BOOLEAN : Answer(t, ok, named)) /\ Goes(t, new, "done")
           \/ Release(t) /\ Goes(t, new, "post")
  <2>1. UNCHANGED <<triageMu, flock, openings>> /\ turn[t].at \in Inside /\ new.at \in Inside
        /\ Goes(t, new, new.at)
    BY <1>7 DEF ReadRound, Answer, Release, Inside, Goes
  <2>2. QED
    BY <1>2, <1>3, <2>1 DEF LocksHeld, Goes, Same, Inside
<1>8. CASE (Post(t) \/ Panic(t)) /\ new = NoTurn
  <2>1. /\ openings' = openings /\ turn[t].at \in Inside
        /\ triageMu' = IF triageMu = t THEN None ELSE triageMu
        /\ flock' = (flock /\ ~turn[t].locked)
    BY <1>8 DEF Post, Panic, Return, Inside
  <2>2. new.at = "none" /\ ~new.brain /\ ~new.locked
    BY <1>8 DEF NoTurn
  <2>3. ASSUME NEW u \in Turns \ {t}, turn[u].locked PROVE ~turn[t].locked
    BY <1>3, <2>3 DEF LocksHeld
  <2>4. flock /\ ~turn[t].locked => flock'
    BY <2>1
  <2>5. /\ turn'[t].at \notin {"mutex", "flock"} \cup Inside /\ ~turn'[t].brain
        /\ ~turn'[t].locked /\ turn'[t].at # "mutex" /\ turn'[t].at # "flock"
    BY <1>2, <2>2 DEF Inside
  <2>6. ASSUME NEW u \in Turns \ {t}, turn[u].locked PROVE flock'
    BY <1>3, <2>3, <2>4, <2>6 DEF LocksHeld
  <2>7. ASSUME NEW u \in Turns \ {t}, triageMu = u PROVE triageMu' = u
    BY <2>1, <2>7
  <2>8. pass = "locked" => flock'
    BY <1>3, <2>4 DEF LocksHeld
  <2>9. ASSUME NEW u \in Turns
        PROVE  /\ turn'[u].at \in {"mutex", "flock"} => turn'[u].brain
               /\ turn'[u].brain /\ turn'[u].at \in {"flock"} \cup Inside => triageMu' = u
               /\ turn'[u].locked => /\ flock' /\ pass' # "locked"
                                    /\ turn'[u].brain /\ turn'[u].at \in Inside
               /\ openings' = 0 /\ turn'[u].brain /\ turn'[u].at \in Inside => turn'[u].locked
    <3>1. CASE u = t
      BY <2>5, <3>1
    <3>2. CASE u # t
      <4>1. u \in Turns \ {t} /\ turn'[u] = turn[u]
        BY <1>2, <3>2
      <4>2. QED
        BY <1>3, <2>1, <2>6, <2>7, <4>1 DEF LocksHeld
    <3>3. QED
      BY <3>1, <3>2
  <2>10. QED
    BY <1>3, <2>1, <2>8, <2>9 DEF LocksHeld
<1>9. QED
  BY <1>1, <1>4, <1>5, <1>6, <1>7, <1>8

LEMMA StepSessions ==
  ASSUME IInv, NEW t \in Turns, Step(t)
  PROVE  OneTurn' /\ InPlace' /\ PlanFits'
<1>0. PICK s \in Sessions : s = turn[t].st
  BY StepSession DEF IInv
<1>1. PICK m \in Session :
        /\ st' = [st EXCEPT ![s] = m]
        /\ m.location = st[s].location /\ m.pendingFiles = st[s].pendingFiles
        /\ \/ ~Release(t) /\ ~Panic(t) /\ m.busy = st[s].busy
              /\ m.awaitingConfirm = st[s].awaitingConfirm
           \/ /\ Release(t) /\ ~m.busy
              /\ m.awaitingConfirm => st[s].awaitingConfirm \/ (turn[t].ok /\ turn[t].plan)
           \/ Panic(t) /\ ~m.busy /\ m.awaitingConfirm = st[s].awaitingConfirm
  BY <1>0, StepSession DEF IInv
<1>2. PICK new \in Turn :
        /\ turn' = [turn EXCEPT ![t] = new]
        /\ \/ LockMu(t) /\ Goes(t, new, "flock")
           \/ lockTriageBrain(t) /\ Same(t, new) /\ new.at = "run" /\ new.locked
           \/ FailOpen(t) /\ Goes(t, new, "run")
           \/ ReadRound(t) /\ Goes(t, new, "run")
           \/ (\E ok, named \in BOOLEAN : Answer(t, ok, named)) /\ Goes(t, new, "done")
           \/ Release(t) /\ Goes(t, new, "post")
           \/ (Post(t) \/ Panic(t)) /\ new = NoTurn
  BY StepShape DEF IInv
<1>3. /\ turn'[t] = new /\ \A u \in Turns \ {t} : turn'[u] = turn[u]
      /\ st'[s] = m /\ \A x \in Sessions \ {s} : st'[x] = st[x]
  BY <1>1, <1>2, Typing DEF IInv
<1>4. crossed \subseteq crossed' /\ planned \in [Sessions -> Places]
  BY StepRest, Typing DEF IInv
\* Only its own session is affected, and only if it works there.
<1>5. ASSUME NEW x \in Sessions \ {s}
      PROVE  InFlight(x)' = InFlight(x) /\ planned'[x] = planned[x]
  <2>0. NoTurn.at \notin Unreleased
    BY DEF NoTurn, Unreleased
  <2>1. new.st # x \/ new.at \notin Unreleased
    BY <1>0, <1>2, <1>5, <2>0 DEF Goes, Same
  <2>2. InFlight(x)' = InFlight(x)
    BY <1>0, <1>3, <1>5, <2>1 DEF InFlight
  <2>3. planned' = planned \/ planned' = [planned EXCEPT ![s] = turn[t].place]
    BY <1>0 DEF Step, Ends, LockMu, lockTriageBrain, FailOpen, ReadRound, Answer, Release, Post, Panic,
                history
  <2>4. QED
    BY <1>4, <2>2, <2>3
<1>6. CASE ~Release(t) /\ ~Panic(t) /\ m.busy = st[s].busy /\ m.awaitingConfirm = st[s].awaitingConfirm
  <2>1. UNCHANGED <<crossed, planned>>
    BY <1>6 DEF Step, Ends, LockMu, lockTriageBrain, FailOpen, ReadRound, Answer, Post, history
  <2>2. \/ turn[t].at \in Unreleased /\ new.at \in Unreleased /\ Same(t, new)
        \/ turn[t].at \notin Unreleased /\ new.at \notin Unreleased
    <3>1. CASE Post(t) /\ new = NoTurn
      BY <3>1 DEF Post, NoTurn, Unreleased
    <3>2. CASE ReadRound(t) /\ Goes(t, new, "run")
      BY <3>2 DEF ReadRound, Goes, Unreleased
    <3>3. CASE (\E ok, named \in BOOLEAN : Answer(t, ok, named)) /\ Goes(t, new, "done")
      BY <3>3 DEF Answer, Goes, Unreleased
    <3>4. CASE FailOpen(t) /\ Goes(t, new, "run")
      BY <3>4 DEF FailOpen, Goes, Unreleased
    <3>5. CASE LockMu(t) /\ Goes(t, new, "flock")
      BY <3>5 DEF LockMu, Goes, Unreleased
    <3>6. CASE lockTriageBrain(t) /\ Same(t, new) /\ new.at = "run"
      BY <3>6 DEF lockTriageBrain, Unreleased
    <3>7. QED
      BY <1>2, <1>6, <3>1, <3>2, <3>3, <3>4, <3>5, <3>6
  <2>3. InFlight(s)' = InFlight(s)
    BY <1>0, <1>3, <2>2 DEF InFlight, Same
  <2>4. OneTurn'
    BY <1>3, <1>5, <1>6, <2>1, <2>3 DEF IInv, OneTurn
  <2>5. InPlace'
    BY <1>0, <1>1, <1>3, <2>1, <2>2 DEF IInv, InPlace, Works, Same
  <2>6. PlanFits'
    BY <1>1, <1>3, <1>6, <2>1 DEF IInv, PlanFits
  <2>7. QED
    BY <2>4, <2>5, <2>6
<1>7. CASE /\ Release(t) /\ ~m.busy
           /\ m.awaitingConfirm => st[s].awaitingConfirm \/ (turn[t].ok /\ turn[t].plan)
  <2>1. turn[t].at = "done" /\ crossed' = crossed /\ new.at = "post"
    BY <1>2, <1>7 DEF Release, LockMu, lockTriageBrain, FailOpen, ReadRound, Answer, Post, Panic, Goes
  <2>2. t \in InFlight(s) /\ InFlight(s)' = InFlight(s) \ {t}
    BY <1>0, <1>3, <2>1 DEF InFlight, Unreleased
  <2>3. s \notin crossed => InFlight(s)' = {} /\ turn[t].place = st[s].location
    BY <2>2 DEF IInv, OneTurn, InPlace, InFlight, Works
  <2>4. OneTurn'
    BY <1>3, <1>5, <1>7, <2>1, <2>3 DEF IInv, OneTurn
  <2>5. InPlace'
    BY <1>1, <1>3, <2>1 DEF IInv, InPlace, Works, Unreleased
  <2>6. PlanFits'
    <3>1. planned' = IF turn[t].ok /\ turn[t].plan THEN [planned EXCEPT ![s] = turn[t].place] ELSE planned
      BY <1>0, <1>7 DEF Release
    <3>2. ASSUME s \notin crossed, st'[s].awaitingConfirm PROVE planned'[s] = st'[s].location
      BY <1>1, <1>3, <1>4, <1>7, <2>3, <3>1, <3>2 DEF IInv, PlanFits
    <3>3. QED
      BY <1>3, <1>5, <2>1, <3>2 DEF IInv, PlanFits
  <2>7. QED
    BY <2>4, <2>5, <2>6
<1>8. CASE Panic(t) /\ ~m.busy /\ m.awaitingConfirm = st[s].awaitingConfirm
  <2>1. /\ turn[t].at \in {"run", "post"} /\ planned' = planned
        /\ crossed' = crossed \cup {x \in {s} : turn[t].at = "post" /\ st[x].busy}
        /\ turn' = [turn EXCEPT ![t] = NoTurn]
    BY <1>0, <1>8 DEF Panic, Return
  <2>2. turn'[t] = NoTurn /\ NoTurn.at = "none"
    BY <2>1, Typing DEF IInv, NoTurn
  <2>3. InFlight(s)' = InFlight(s) \ {t}
    BY <1>3, <2>2 DEF InFlight, Unreleased
  <2>4. s \notin crossed' => InFlight(s)' = {} /\ s \notin crossed
    <3>1. CASE turn[t].at = "run"
      <4>1. t \in InFlight(s)
        BY <1>0, <3>1 DEF InFlight, Unreleased
      <4>2. QED
        BY <1>4, <2>3, <4>1 DEF IInv, OneTurn
    <3>2. CASE turn[t].at = "post"
      <4>1. s \notin crossed' => ~st[s].busy /\ s \notin crossed
        BY <2>1, <3>2
      <4>2. s \notin crossed' => InFlight(s) = {}
        BY <4>1 DEF IInv, OneTurn
      <4>3. QED
        BY <2>3, <4>1, <4>2
    <3>3. QED
      BY <2>1, <3>1, <3>2
  <2>5. OneTurn'
    BY <1>3, <1>4, <1>5, <1>8, <2>4 DEF IInv, OneTurn
  <2>6. InPlace'
    BY <1>1, <1>3, <1>4, <2>2 DEF IInv, InPlace, Works, Unreleased
  <2>7. PlanFits'
    BY <1>1, <1>3, <1>4, <1>8, <2>1 DEF IInv, PlanFits
  <2>8. QED
    BY <2>5, <2>6, <2>7
<1>9. QED
  BY <1>1, <1>6, <1>7, <1>8

LEMMA StepKeeps ==
  ASSUME IInv, NEW t \in Turns, Step(t)
  PROVE  IInv'
<1>1. /\ UNCHANGED <<allow, byUser, reloads, router, pass, commands, texts, sent, attached, dropped>>
      /\ triageMu' \in Turns \cup {None} /\ flock' \in BOOLEAN
      /\ openings' \in Nat /\ panics' \in Nat
      /\ crossed' \subseteq Sessions /\ planned' \in [Sessions -> Places]
  BY StepRest
<1>2. PICK new \in Turn :
        /\ turn' = [turn EXCEPT ![t] = new]
        /\ new.at \in {"run", "flock"} => new.calls <= maxTriageReadRounds + 1
        /\ new.at # "mutex" /\ (new.at # "none" => new.st = turn[t].st)
  <2>1. PICK new \in Turn :
          /\ turn' = [turn EXCEPT ![t] = new]
          /\ new.at = "run" => new.calls <= maxTriageReadRounds + 1
          /\ new.at = "flock" => new.calls <= maxTriageReadRounds + 1
          /\ new.at # "mutex"
          /\ Same(t, new) \/ new = NoTurn
    BY StepShape DEF IInv, Goes
  <2>2. NoTurn.at = "none"
    BY DEF NoTurn
  <2>3. QED
    BY <2>1, <2>2 DEF Same
<1>3. PICK s \in Sessions : s = turn[t].st
  BY StepSession DEF IInv
<1>4. /\ st' \in [Sessions -> Session]
      /\ \A x \in Sessions : st'[x].pendingFiles = st[x].pendingFiles
  BY <1>3, StepSession, Typing DEF IInv
<1>5. turn' \in [Turns -> Turn] /\ turn'[t] = new /\ \A u \in Turns \ {t} : turn'[u] = turn[u]
  BY <1>2, Typing DEF IInv
<1>6. TypeOK'
  BY <1>1, <1>4, <1>5 DEF IInv, TypeOK
<1>7. RouterOK'
  BY <1>1 DEF IInv, RouterOK
<1>8. TurnsOK'
  BY <1>2, <1>3, <1>5 DEF IInv, TurnsOK
<1>9. AllKept'
  BY <1>1, <1>4 DEF IInv, AllKept, Kept
<1>10. QED
  BY <1>6, <1>7, <1>8, <1>9, StepLocks, StepSessions DEF IInv

-----------------------------------------------------------------------------
LEMMA InitInv == Init => IInv
<1> SUFFICES ASSUME Init PROVE IInv
  OBVIOUS
<1>1. /\ \A u \in Users : /\ NewSession(u) \in Session /\ ~NewSession(u).busy
                          /\ ~NewSession(u).awaitingConfirm /\ NewSession(u).pendingFiles = {}
      /\ NoTurn \in Turn /\ NoTurn.at = "none" /\ ~NoTurn.brain /\ ~NoTurn.locked
      /\ Idle \in Router /\ Idle.at = "idle" /\ Idle.files = {}
  BY NewTyped DEF NewSession, NoTurn, Idle
<1>2. /\ st \in [Sessions -> Session]
      /\ \A s \in Sessions : ~st[s].busy /\ ~st[s].awaitingConfirm /\ st[s].pendingFiles = {}
  <2>1. st \in [Sessions -> {NewSession(u) : u \in Users}]
    BY DEF Init
  <2>2. ASSUME NEW s \in Sessions
        PROVE  st[s] \in Session /\ ~st[s].busy /\ ~st[s].awaitingConfirm /\ st[s].pendingFiles = {}
    <3>1. PICK u \in Users : st[s] = NewSession(u)
      BY <2>1
    <3>2. QED
      BY <1>1, <3>1
  <2>3. QED
    BY <2>1, <2>2
<1>3. /\ turn = [t \in Turns |-> NoTurn] /\ router = Idle
      /\ triageMu = None /\ flock = FALSE /\ pass = "none" /\ openings = 0
      /\ sent = {} /\ attached = [f \in Files |-> 0] /\ dropped = {} /\ crossed = {}
      /\ planned = [s \in Sessions |-> ""]
  BY DEF Init
<1>4. TypeOK
  <2>1. byUser \in [Users -> Sessions \cup {None}] /\ allow \subseteq Users
    BY DEF Init
  <2>2. turn \in [Turns -> Turn] /\ router \in Router
    BY <1>1, <1>3
  <2>3. attached \in [Files -> Nat]
    BY <1>3
  <2>4. planned \in [Sessions -> Places]
    BY <1>3 DEF Places
  <2>5. commands \in Nat /\ texts \in Nat /\ openings \in Nat /\ panics \in Nat /\ reloads \in Nat
    BY DEF Init
  <2>6. QED
    BY <1>2, <1>3, <2>1, <2>2, <2>3, <2>4, <2>5 DEF TypeOK
<1>5. RouterOK /\ TurnsOK /\ LocksHeld
  BY <1>1, <1>3 DEF RouterOK, TurnsOK, LocksHeld, Inside
<1>6. OneTurn /\ InPlace /\ PlanFits
  BY <1>1, <1>2, <1>3 DEF OneTurn, InFlight, InPlace, Works, PlanFits, Unreleased
<1>7. AllKept
  <2>1. ASSUME NEW f \in Files PROVE Kept(f)
    <3>1. attached[f] = 0 /\ f \notin router.files /\ f \notin dropped /\ f \notin sent
      BY <1>1, <1>3
    <3>2. \A s \in Sessions : f \notin st[s].pendingFiles
      BY <1>2
    <3>3. QED
      BY <3>1, <3>2 DEF Kept
  <2>2. QED
    BY <2>1 DEF AllKept
<1>8. QED
  BY <1>4, <1>5, <1>6, <1>7 DEF IInv

LEMMA StepInv == IInv /\ [Next]_vars => IInv'
<1> SUFFICES ASSUME IInv, [Next]_vars PROVE IInv'
  OBVIOUS
<1>1. CASE Next
  <2>1. CASE Dispatch
    BY <2>1, TakeKeeps, RefuseKeeps, StartKeeps DEF Dispatch
  <2>2. QED
    BY <1>1, <2>1, StateForKeeps, SetAllowKeeps, HandleKeeps, StepKeeps, PassKeeps DEF Next
<1>2. CASE UNCHANGED vars
  BY <1>2 DEF vars, IInv, TypeOK, RouterOK, TurnsOK, LocksHeld, OneTurn, InFlight, InPlace, Works,
              PlanFits, AllKept, Kept
<1>3. QED
  BY <1>1, <1>2

-----------------------------------------------------------------------------
(* The theorems. *)

\* The inductive invariant, of every behaviour of the bridge.
THEOREM Inductive == Spec => []IInv
<1>1. Init => IInv
  BY InitInv
<1>2. IInv /\ [Next]_vars => IInv'
  BY StepInv
<1>3. QED
  BY <1>1, <1>2, PTL DEF Spec

\* Every variable keeps to its values; a turn never calls the agent more often than the cap
\* on reads allows (driveTriageReply, maxTriageReadRounds).
THEOREM TypeCorrect == Spec => []TypeOK
<1>1. IInv => TypeOK
  BY DEF IInv
<1>2. QED
  BY <1>1, Inductive, PTL

\* A session has one turn at a time, and is busy exactly while it has (runAgent), but where
\* the panic of an older turn has cleared its flag.
THEOREM TurnsExclude == Spec => []OneTurn
<1>1. IInv => OneTurn
  BY DEF IInv
<1>2. QED
  BY <1>1, Inductive, PTL

\* Two turns never drive the triage brain together, and a pass does so beside a turn only
\* when an attempt to lock failed open (triageMu, lockTriageBrain).
THEOREM BrainExclusion == Spec => []BrainAlone
<1>1. IInv => BrainAlone
  BY DEF IInv, TypeOK, LocksHeld, Inside, BrainAlone, Driving
<1>2. QED
  BY <1>1, Inductive, PTL

\* An approval is of a plan made where it will be carried out (startRepo, startChat, end).
THEOREM PlansFit == Spec => []PlanFits
<1>1. IInv => PlanFits
  BY DEF IInv
<1>2. QED
  BY <1>1, Inductive, PTL

\* No file is lost or attached twice, however texts, refusals and turns interleave
\* (dispatchAgentTurn, runAgent).
THEOREM FilesAccounted == Spec => []FilesKept
<1>1. IInv => FilesKept
  <2> SUFFICES ASSUME IInv, NEW f \in Files
               PROVE  attached[f] + Cardinality(Waiting(f)) + (IF f \in router.files THEN 1 ELSE 0)
                        + (IF f \in dropped THEN 1 ELSE 0) = IF f \in sent THEN 1 ELSE 0
    BY DEF FilesKept
  <2>1. Kept(f)
    BY DEF IInv, AllKept
  <2>2. CASE Waiting(f) = {}
    <3>1. Cardinality(Waiting(f)) = 0
      BY <2>2, FS_EmptySet
    <3>2. QED
      BY <2>1, <2>2, <3>1 DEF Kept, Waiting
  <2>3. CASE Waiting(f) # {}
    <3>1. PICK s \in Sessions : f \in st[s].pendingFiles /\ Waiting(f) = {s}
      BY <2>1, <2>3 DEF Kept, Waiting
    <3>2. Cardinality(Waiting(f)) = 1
      BY <3>1, FS_Singleton
    <3>3. QED
      BY <2>1, <3>1, <3>2 DEF Kept
  <2>4. QED
    BY <2>2, <2>3
<1>2. QED
  BY <1>1, Inductive, PTL
=============================================================================
