-------------------------------- MODULE Triage ---------------------------------
(***************************************************************************)
(* Triage (src/internal/triage, its schedule in src/internal/agentd, the    *)
(* groups in src/internal/store/triagegroups.go): unread messages are shown *)
(* to the triage brain, the owner gets a digest of the important ones, and  *)
(* what was shown is marked as read.  Its actors:                           *)
(*                                                                          *)
(*   - the dispatch tick, which runs one after the other the groups that    *)
(*     are due, and `triage now`, a goroutine of its own that runs them all,*)
(*   - the owner's commands on groups, and `triage reset`,                  *)
(*   - interactive turns (Bridge), which drive the same brain under the     *)
(*     same lock; a pass that finds it locked skips.                        *)
(*                                                                          *)
(* Abstracted: the clock (a group is due when its slot of the day or its    *)
(* interval has come, which is left to BecomesDue; of a schedule stays      *)
(* whether it names a time of the day at all), texts, and of a session      *)
(* id whether its conversation began before the last reset.  The daemon's   *)
(* unread list has no messages of the owner (dropSelf).                     *)
(***************************************************************************)
EXTENDS Naturals

CONSTANTS
  Groups, Msgs, Chats, Transports,
  ChatOf,      \* [Msgs -> Chats]
  Via,         \* [Chats -> Transports]
  Listed,      \* chats of allow-listed people
  Ticker, Now, Turn, None, \* who may hold the brain's lock
  Sources,     \* the sets of transports the owner gives a group
  MaxCommands, \* bound: what the owner asks for
  MaxFaults    \* bound: failures

ASSUME TriageAssumption ==
  /\ ChatOf \in [Msgs -> Chats] /\ Via \in [Chats -> Transports] /\ Listed \subseteq Chats
  /\ Ticker # Now /\ Turn \notin {Ticker, Now} /\ None \notin {Ticker, Now, Turn}
  /\ Sources \subseteq SUBSET Transports
  /\ MaxCommands \in Nat /\ MaxFaults \in Nat

Passes == {Ticker, Now}
Conversations == {"none", "new", "old"}  \* "old": begun before the last reset

\* A row of triage_groups with the transports of its sources.  A daily schedule of no time that
\* todayAt can read is saved as well, but never due; any other interval is an hour.
Group == [there : BOOLEAN, on : BOOLEAN, timed : BOOLEAN, via : SUBSET Transports]
Deleted == [there |-> FALSE, on |-> FALSE, timed |-> FALSE, via |-> {}]

\* A pass: the sources of the groups it still has to run, as it read them (none: no run);
\* of the run: its group (None: all sources), the messages it collected, the session it
\* resumes and what the brain found important.
Pass == [at : {"idle", "next", "try", "agent", "digest", "reply", "mark", "ran"},
         queue : [Groups -> SUBSET Transports], group : Groups \cup {None},
         msgs : SUBSET Msgs, conversation : Conversations, important : SUBSET Msgs]
Resting == [at |-> "idle", queue |-> [g \in Groups |-> {}], group |-> None,
            msgs |-> {}, conversation |-> "none", important |-> {}]

VARIABLES
  group,         \* the table of groups
  due,           \* groups whose schedule asks for a run: by last_run_at and the clock
  unread,        \* the daemon's unread messages
  pass,
  lock,          \* triage-brain.lock: who holds it
  session,       \* triage-session.json: the brain's conversation, "none" without the file
  batch,         \* last-triage.json has somebody to reply to
  turn,          \* the conversation of the interactive session, "none" without one
  commands, faults, \* bounds: so far
  arrived,       \* history: messages that came in
  settled,       \* history: those the owner was told of, or the brain passed over
  acked,         \* history: chats that got the automatic reply
  unmarked       \* history: messages the owner was told of whose marking then failed

vars == <<group, due, unread, pass, lock, session, batch, turn, commands, faults,
          arrived, settled, acked, unmarked>>
schedule == <<group, due>>
brain == <<lock, session, turn>>
counts == <<commands, faults>>
outcome == <<settled, acked, unmarked>>

\* EnsureDefaultTriageGroup has made a first group, with all transports; it never ran.
Init ==
  /\ \E g \in Groups :
       /\ group = [h \in Groups |-> IF h = g THEN [there |-> TRUE, on |-> TRUE, timed |-> TRUE, via |-> Transports]
                                    ELSE Deleted]
       /\ due = {g}
  /\ unread = {} /\ pass = [p \in Passes |-> Resting]
  /\ lock = None /\ session = "none" /\ batch = FALSE /\ turn = "none"
  /\ commands = 0 /\ faults = 0
  /\ arrived = {} /\ settled = {} /\ acked = {} /\ unmarked = {}

-----------------------------------------------------------------------------
(* Around triage. *)

Arrive(m) ==
  /\ m \notin arrived
  /\ arrived' = arrived \cup {m} /\ unread' = unread \cup {m}
  /\ UNCHANGED <<schedule, pass, brain, batch, counts, outcome>>

\* A slot of the group's day or the end of its interval comes.
BecomesDue(g) ==
  /\ group[g].there /\ group[g].timed /\ g \notin due
  /\ due' = due \cup {g}
  /\ UNCHANGED <<group, unread, pass, brain, batch, counts, arrived, outcome>>

Command == commands < MaxCommands /\ commands' = commands + 1 /\ UNCHANGED faults

\* The owner saves, switches or deletes a group.  A new group never ran, and a changed
\* schedule may ask for a run or no longer ask for one.
GroupCommand(g, new) ==
  /\ Command
  /\ group' = [group EXCEPT ![g] = new]
  /\ UNCHANGED <<unread, pass, brain, batch, arrived, outcome>>
SaveTriageGroup(g) ==
  \E on, timed \in BOOLEAN, via \in Sources :
    /\ GroupCommand(g, [there |-> TRUE, on |-> on, timed |-> timed, via |-> via])
    /\ due' = due \ {g} \/ (timed /\ due' = due \cup {g})
SetTriageGroupEnabled(g) ==
  /\ group[g].there /\ GroupCommand(g, [group[g] EXCEPT !.on = ~@])
  /\ UNCHANGED due
DeleteTriageGroup(g) == group[g].there /\ GroupCommand(g, Deleted) /\ due' = due \ {g}

\* The brain's conversation that a pass or an interactive session begun now continues.
Conversation == IF session = "none" THEN "new" ELSE session

\* `interact triage` reads the brain's session; a turn of it comes to hold the lock later,
\* saves the session it ends with, and the owner goes on or leaves.
startTriageReply ==
  /\ batch /\ turn = "none" /\ Command
  /\ turn' = Conversation
  /\ UNCHANGED <<schedule, unread, pass, lock, session, batch, arrived, outcome>>
TurnBegins ==
  /\ turn # "none" /\ Command
  /\ lock = None /\ lock' = Turn
  /\ UNCHANGED <<schedule, unread, pass, session, turn, batch, arrived, outcome>>
TurnEnds ==
  /\ lock = Turn /\ lock' = None
  /\ session' \in {turn, session}
  /\ turn' \in {turn, "none"}
  /\ UNCHANGED <<schedule, unread, pass, batch, counts, arrived, outcome>>

Aged(c) == IF c = "none" THEN c ELSE "old"

\* `triage reset` removes the file and takes no lock.  The session of the user who asks lets go
\* of the brain, but for a turn of it that is under way; another user's session keeps its
\* conversation.
ResetTriageSession ==
  /\ Command
  /\ session' = "none"
  /\ turn' = Aged(turn) \/ (lock # Turn /\ turn' = "none")
  /\ pass' = [p \in Passes |-> [pass[p] EXCEPT !.conversation = Aged(@)]]
  /\ UNCHANGED <<schedule, unread, lock, batch, arrived, outcome>>

-----------------------------------------------------------------------------
(* When a pass runs which groups. *)

Begin(p, queue) == pass' = [pass EXCEPT ![p] = [Resting EXCEPT !.at = "next", !.queue = queue]]

runDueTriageGroups ==
  LET queue == [g \in Groups |-> IF group[g].on /\ g \in due THEN group[g].via ELSE {}] IN
  /\ pass[Ticker].at = "idle" /\ \E g \in Groups : queue[g] # {}
  /\ Begin(Ticker, queue)
  /\ UNCHANGED <<schedule, unread, brain, batch, counts, arrived, outcome>>

\* Every enabled group; if there is none, one run over all sources.
runTriageNow ==
  LET on == {g \in Groups : group[g].on}
      queue == [g \in Groups |-> IF g \in on THEN group[g].via ELSE {}]
      all == [Resting EXCEPT !.at = "try", !.msgs = unread]
  IN
  /\ pass[Now].at = "idle" /\ Command
  /\ \/ (\E g \in on : queue[g] # {}) /\ Begin(Now, queue)
     \/ on = {} /\ unread # {} /\ pass' = [pass EXCEPT ![Now] = all]
  /\ UNCHANGED <<schedule, unread, brain, batch, arrived, outcome>>

-----------------------------------------------------------------------------
(* runGroup. *)

Move(p, at) == pass' = [pass EXCEPT ![p].at = at]
Over(p) == [Resting EXCEPT !.at = "ran", !.queue = pass[p].queue, !.group = pass[p].group]
Stop(p) == pass' = [pass EXCEPT ![p] = Over(p)]
Fault == faults < MaxFaults /\ faults' = faults + 1 /\ UNCHANGED commands

\* What the group's sources have unread.
collectUnreadFiltered(p, g) ==
  LET q == pass[p].queue
      found == {m \in unread : Via[ChatOf[m]] \in q[g]}
  IN
  /\ pass[p].at = "next" /\ q[g] # {}
  /\ pass' = [pass EXCEPT ![p].at = IF found = {} THEN "ran" ELSE "try", ![p].group = g,
                          ![p].msgs = found, ![p].queue[g] = {}]
  /\ UNCHANGED <<schedule, unread, brain, batch, counts, arrived, outcome>>

\* The owner is unknown, the list unreadable, no agent installed: the run is over.
CannotRun(p) ==
  /\ pass[p].at = "try" /\ Fault /\ Stop(p)
  /\ UNCHANGED <<schedule, unread, brain, batch, arrived, outcome>>

\* The lock is not waited for.
Skip(p) ==
  /\ pass[p].at = "try" /\ lock # None /\ Stop(p)
  /\ UNCHANGED <<schedule, unread, brain, batch, counts, arrived, outcome>>

TryLockTriageBrain(p) ==
  /\ pass[p].at = "try" /\ lock = None
  /\ lock' = p
  /\ pass' = [pass EXCEPT ![p].at = "agent", ![p].conversation = Conversation]
  /\ UNCHANGED <<schedule, unread, session, turn, batch, counts, arrived, outcome>>

\* The lockfile fails: the pass goes on without it.
FailOpen(p) ==
  /\ pass[p].at = "try" /\ Fault
  /\ pass' = [pass EXCEPT ![p].at = "agent", ![p].conversation = Conversation]
  /\ UNCHANGED <<schedule, unread, brain, batch, arrived, outcome>>

\* Mutant: the lock is kept when the agent fails or answers.
Unlock_Keeps(p) ==
  /\ session' \in {pass[p].conversation, session}
  /\ UNCHANGED <<lock, turn>>

\* The brain answers, or fails; the session it names, if it does, is saved, the lock released.
Unlock(p) ==
  /\ session' \in {pass[p].conversation, session}
  /\ lock' = IF lock = p THEN None ELSE lock
  /\ UNCHANGED turn
RunAgent(p, important) ==
  /\ pass[p].at = "agent" /\ important \subseteq pass[p].msgs
  /\ pass' = [pass EXCEPT ![p].at = IF important = {} THEN "mark" ELSE "digest",
                          ![p].important = important, ![p].conversation = "none"]
  /\ Unlock(p)
  /\ UNCHANGED <<schedule, unread, batch, counts, arrived, outcome>>
AgentFails(p) ==
  /\ pass[p].at = "agent" /\ Fault /\ Stop(p) /\ Unlock(p)
  /\ UNCHANGED <<schedule, unread, batch, arrived, outcome>>

\* The owner is told first; without that nothing is marked.
Digest(p) ==
  /\ pass[p].at = "digest" /\ Move(p, "reply")
  /\ settled' = settled \cup pass[p].important
  /\ UNCHANGED <<schedule, unread, brain, batch, counts, arrived, acked, unmarked>>
DigestFails(p) ==
  /\ pass[p].at = "digest" /\ Fault /\ Stop(p)
  /\ UNCHANGED <<schedule, unread, brain, batch, arrived, outcome>>

\* Mutant: with nobody to answer the pass is over.
sendImportantAutoReplies_Returns(p) ==
  /\ pass[p].at = "reply"
  /\ \E chats \in SUBSET ({ChatOf[m] : m \in pass[p].important} \ Listed) :
       /\ acked' = acked \cup chats
       /\ IF chats = {} THEN Stop(p) ELSE Move(p, "mark")
  /\ UNCHANGED <<schedule, unread, brain, batch, counts, arrived, settled, unmarked>>

\* Important senders who are not allow-listed get the automatic reply, if it is switched
\* on and as far as it can be sent.
sendImportantAutoReplies(p) ==
  /\ pass[p].at = "reply" /\ Move(p, "mark")
  /\ \E chats \in SUBSET ({ChatOf[m] : m \in pass[p].important} \ Listed) : acked' = acked \cup chats
  /\ UNCHANGED <<schedule, unread, brain, batch, counts, arrived, settled, unmarked>>

\* Mutant: whatever is unread by then is marked.
markRead_All(p) ==
  /\ pass[p].at = "mark" /\ Stop(p)
  /\ unread' = {}
  /\ settled' = settled \cup (pass[p].msgs \ pass[p].important)
  /\ batch' = TRUE
  /\ UNCHANGED <<schedule, brain, counts, arrived, acked, unmarked>>

\* What was collected is marked, as far as the daemon can, and its senders become the batch
\* of `interact triage` (if that can be written).
markRead(p) ==
  /\ pass[p].at = "mark" /\ Stop(p)
  /\ unread' = unread \ pass[p].msgs
  /\ settled' = settled \cup (pass[p].msgs \ pass[p].important)
  /\ batch' = TRUE
  /\ UNCHANGED <<schedule, brain, counts, arrived, acked, unmarked>>
MarkFails(p, chats) ==
  LET marked == {m \in pass[p].msgs : ChatOf[m] \notin chats} IN
  /\ pass[p].at = "mark" /\ Fault /\ Stop(p)
  /\ unread' = unread \ marked
  /\ settled' = settled \cup (marked \ pass[p].important)
  /\ unmarked' = unmarked \cup (pass[p].important \ marked)
  /\ batch' \in {batch, TRUE}
  /\ UNCHANGED <<schedule, brain, arrived, acked>>

\* The group has run, at the time the pass began, whatever came of it; meanwhile it may have
\* become due once more.
MarkTriageGroupRan(p) ==
  LET g == pass[p].group
      over == \A h \in Groups : pass[p].queue[h] = {}
  IN
  /\ pass[p].at = "ran"
  /\ pass' = [pass EXCEPT ![p] = IF over THEN Resting
                                 ELSE [Over(p) EXCEPT !.at = "next", !.group = None]]
  /\ due' \in {due, due \ {g}}
  /\ UNCHANGED <<group, unread, brain, batch, counts, arrived, outcome>>

-----------------------------------------------------------------------------
Works(p) ==
  \/ \E g \in Groups : collectUnreadFiltered(p, g)
  \/ Skip(p) \/ TryLockTriageBrain(p)
  \/ \E important \in SUBSET Msgs : RunAgent(p, important)
  \/ Digest(p) \/ sendImportantAutoReplies(p)
  \/ markRead(p) \/ MarkTriageGroupRan(p)
Fails(p) ==
  \/ CannotRun(p) \/ FailOpen(p) \/ AgentFails(p) \/ DigestFails(p)
  \/ \E chats \in SUBSET Chats : MarkFails(p, chats)
Commands ==
  \/ \E g \in Groups : SaveTriageGroup(g) \/ SetTriageGroupEnabled(g) \/ DeleteTriageGroup(g)
  \/ runTriageNow \/ startTriageReply \/ TurnBegins \/ ResetTriageSession

Next ==
  \/ \E m \in Msgs : Arrive(m)
  \/ (\E g \in Groups : BecomesDue(g)) \/ runDueTriageGroups \/ Commands \/ TurnEnds
  \/ \E p \in Passes : Works(p) \/ Fails(p)

Spec == Init /\ [][Next]_vars

\* Time passes, the scheduler ticks, and a pass or a turn that has begun goes on (the agent
\* answers or times out, the daemon answers).
Fairness ==
  /\ WF_vars(\E g \in Groups : BecomesDue(g)) /\ WF_vars(runDueTriageGroups) /\ WF_vars(TurnEnds)
  /\ \A p \in Passes : WF_vars(Works(p))
FairSpec == Spec /\ Fairness

-----------------------------------------------------------------------------
(* Properties. *)

\* Every variable keeps to its values; the lock is held by who drives the brain.
TypeOK ==
  /\ group \in [Groups -> Group] /\ due \subseteq Groups
  /\ unread \subseteq arrived /\ arrived \subseteq Msgs /\ batch \in BOOLEAN
  /\ pass \in [Passes -> Pass]
  /\ lock \in Passes \cup {Turn, None}
  /\ (lock = Turn => turn # "none") /\ (lock \in Passes => pass[lock].at = "agent")
  /\ session \in Conversations /\ turn \in Conversations
  /\ commands \in Nat /\ faults \in Nat
  /\ settled \subseteq arrived /\ acked \subseteq Chats
  /\ unmarked \subseteq arrived

\* No message gets lost: what is no longer unread was in a digest the owner got, or a brain
\* that saw it passed over it; and nobody was written to on account of a message before the
\* owner heard of it.  However passes overlap and fail (runGroup, "don't lose important
\* messages").
NothingLost ==
  /\ arrived = unread \cup settled
  /\ acked \subseteq {ChatOf[m] : m \in settled} \ Listed

\* What the owner was told of does not linger among the unread, to be told again by every pass
\* that follows: the pass that told is still to mark it, or its marking failed.  However
\* passes, each with its own list of the unread, overlap and fail after the digest (runGroup).
Marking(p, m) == pass[p].at \in {"reply", "mark"} /\ m \in pass[p].important
ToldIsMarked == \A m \in unread \cap settled : m \in unmarked \/ \E p \in Passes : Marking(p, m)

\* Every message that a switched-on group with a time to run at listens for leaves the unread
\* list in the end: skipped, failed and overlapping passes only delay it.
Covered(m) == \E g \in Groups : group[g].on /\ group[g].timed /\ Via[ChatOf[m]] \in group[g].via
EveryMessageTriaged == \A m \in Msgs : m \in unread ~> (m \notin unread \/ ~Covered(m))
=============================================================================
