----------------------------- MODULE TriageProofs ------------------------------
(* Theorems about Triage, for every value of its constants. *)
EXTENDS Triage, TLAPS

\* A run knows only messages that came in; the important ones among them are settled once
\* the owner has the digest.
RunOK(p) ==
  /\ pass[p].important \subseteq pass[p].msgs /\ pass[p].msgs \subseteq arrived
  /\ pass[p].at \in {"reply", "mark"} => pass[p].important \subseteq settled
  /\ pass[p].at = "next" => pass[p].important = {}
RunsOK == \A p \in Passes : RunOK(p)

IInv == TypeOK /\ NothingLost /\ RunsOK /\ ToldIsMarked

-----------------------------------------------------------------------------
(* Groups of actions, by what they disturb. *)

Around ==
  \/ \E m \in Msgs : Arrive(m)
  \/ \E g \in Groups : BecomesDue(g)
  \/ runDueTriageGroups \/ Commands \/ TurnEnds
Goes(p) ==
  \/ \E g \in Groups : collectUnreadFiltered(p, g)
  \/ CannotRun(p) \/ Skip(p) \/ TryLockTriageBrain(p) \/ FailOpen(p)
  \/ MarkTriageGroupRan(p)
Answers(p) == (\E i \in SUBSET Msgs : RunAgent(p, i)) \/ AgentFails(p)
Marks(p) == markRead(p) \/ \E chats \in SUBSET Chats : MarkFails(p, chats)
Settles(p) == Digest(p) \/ sendImportantAutoReplies(p) \/ Marks(p)

-----------------------------------------------------------------------------
(* Types. *)

LEMMA RestingTyped == Resting \in Pass /\ Deleted \in Group
BY DEF Resting, Deleted, Pass, Conversations, Group

LEMMA ConversationTyped == TypeOK => Conversation \in Conversations \ {"none"}
BY DEF TypeOK, Conversation, Conversations

LEMMA OverTyped ==
  ASSUME TypeOK, NEW p \in Passes
  PROVE  /\ Over(p) \in Pass /\ Over(p).at = "ran" /\ Over(p).msgs = {}
         /\ Over(p).important = {} /\ Over(p).conversation = "none"
<1>1. pass[p] \in Pass
  BY DEF TypeOK
<1>2. QED
  BY <1>1 DEF Over, Resting, Pass, Conversations

LEMMA PassesTyped ==
  TypeOK => /\ pass \in [Passes -> Pass] /\ unread \subseteq arrived
            /\ \A p \in Passes : pass[p] \in Pass
BY DEF TypeOK

\* What a run collects is unread.
LEMMA Collected ==
  ASSUME TypeOK, NEW p \in Passes, NEW g \in Groups, collectUnreadFiltered(p, g)
  PROVE  /\ pass[p].at = "next"
         /\ \E new \in Pass : /\ pass' = [pass EXCEPT ![p] = new]
                              /\ new.msgs \subseteq unread /\ new.important = pass[p].important
                              /\ new.conversation = pass[p].conversation
<1> DEFINE found == {m \in unread : Via[ChatOf[m]] \in pass[p].queue[g]}
           at == IF found = {} THEN "ran" ELSE "try"
           new == [pass[p] EXCEPT !.at = at, !.group = g, !.msgs = found, !.queue = [@ EXCEPT ![g] = {}]]
<1>1. pass[p].at = "next"
  BY DEF collectUnreadFiltered
<1>2. pass' = [pass EXCEPT ![p].at = at, ![p].group = g, ![p].msgs = found, ![p].queue[g] = {}]
  BY Zenon DEF collectUnreadFiltered
<1>3. pass \in [Passes -> Pass] /\ pass[p] \in Pass
  BY PassesTyped
<1>4. found \in SUBSET unread /\ found \in SUBSET Msgs /\ at \in {"ran", "try"}
  BY DEF TypeOK
<1> HIDE DEF found, at
<1>5. pass' = [pass EXCEPT ![p] = new]
  BY <1>2, <1>3
<1>6. [pass[p].queue EXCEPT ![g] = {}] \in [Groups -> SUBSET Transports]
  BY <1>3 DEF Pass
<1>7. new \in Pass
  BY <1>3, <1>4, <1>6 DEF Pass
<1>8. new.msgs = found /\ new.important = pass[p].important /\ new.conversation = pass[p].conversation
  BY <1>3 DEF Pass
<1>9. QED
  BY <1>1, <1>4, <1>5, <1>7, <1>8

\* What is fixed to a pass that takes a step: the lock is not held by a pass that leaves
\* its agent behind.
LEMMA PassTyped ==
  ASSUME TypeOK, NEW p \in Passes, NEW new \in Pass, pass' = [pass EXCEPT ![p] = new],
         \/ lock' = lock /\ (pass[p].at = "agent" => new.at = "agent")
         \/ lock' = p /\ new.at = "agent"
         \/ lock' = IF lock = p THEN None ELSE lock
  PROVE  /\ pass' \in [Passes -> Pass] /\ lock' \in Passes \cup {Turn, None}
         /\ (lock' \in Passes => pass'[lock'].at = "agent")
         /\ (lock' = Turn => lock = Turn)
<1>1. None \notin Passes /\ Turn \notin Passes /\ None # Turn
  BY TriageAssumption DEF Passes
<1>2. /\ pass \in [Passes -> Pass] /\ lock \in Passes \cup {Turn, None}
      /\ lock \in Passes => pass[lock].at = "agent"
  BY DEF TypeOK
<1>3. pass'[p] = new /\ \A q \in Passes \ {p} : pass'[q] = pass[q]
  BY <1>2
<1>4. QED
  BY <1>1, <1>2, <1>3

LEMMA AroundTyped ==
  ASSUME TypeOK, Around
  PROVE  TypeOK'
<1> USE DEF TypeOK, schedule, brain, counts, outcome
<1>0. /\ None \notin Passes /\ Turn \notin Passes /\ None # Turn
      /\ Ticker \in Passes /\ Now \in Passes
  BY TriageAssumption DEF Passes
<1>1. ASSUME NEW m \in Msgs, Arrive(m) PROVE TypeOK'
  BY <1>1 DEF Arrive
<1>2. ASSUME NEW g \in Groups, BecomesDue(g) PROVE TypeOK'
  BY <1>2 DEF BecomesDue
<1>3. ASSUME NEW p \in Passes, NEW queue \in [Groups -> SUBSET Transports],
             pass[p].at = "idle", Begin(p, queue)
      PROVE  /\ pass' \in [Passes -> Pass]
             /\ lock \in Passes => pass'[lock].at = "agent"
  <2>1. [Resting EXCEPT !.at = "next", !.queue = queue] \in Pass
    BY RestingTyped DEF Resting, Pass
  <2>2. QED
    BY <1>3, <2>1 DEF Begin
<1>4. \A g \in Groups : group[g].via \in SUBSET Transports
  BY DEF Group
<1>5. CASE runDueTriageGroups
  <2>1. pass[Ticker].at = "idle"
    BY <1>5 DEF runDueTriageGroups
  <2>2. PICK queue \in [Groups -> SUBSET Transports] : Begin(Ticker, queue)
    BY <1>4, <1>5 DEF runDueTriageGroups
  <2>3. QED
    BY <1>0, <1>3, <1>5, <2>1, <2>2 DEF runDueTriageGroups
<1>6. CASE runTriageNow
  <2>1. pass[Now].at = "idle"
    BY <1>6 DEF runTriageNow
  <2>2. \/ \E queue \in [Groups -> SUBSET Transports] : Begin(Now, queue)
        \/ pass' = [pass EXCEPT ![Now] = [Resting EXCEPT !.at = "try", !.msgs = unread]]
    BY <1>4, <1>6 DEF runTriageNow
  <2>3. [Resting EXCEPT !.at = "try", !.msgs = unread] \in Pass
    BY RestingTyped DEF Resting, Pass
  <2>4. pass' \in [Passes -> Pass] /\ (lock \in Passes => pass'[lock].at = "agent")
    BY <1>0, <1>3, <2>1, <2>2, <2>3
  <2>5. QED
    BY <1>6, <2>4 DEF runTriageNow, Command
<1>7. ASSUME NEW g \in Groups, NEW new \in Group, GroupCommand(g, new), due' \subseteq Groups
      PROVE  TypeOK'
  BY <1>7 DEF GroupCommand, Command
<1>8. ASSUME NEW g \in Groups, SaveTriageGroup(g) PROVE TypeOK'
  <2>1. PICK on \in BOOLEAN, timed \in BOOLEAN, via \in Sources :
          /\ GroupCommand(g, [there |-> TRUE, on |-> on, timed |-> timed, via |-> via])
          /\ due' = due \ {g} \/ (timed /\ due' = due \cup {g})
    BY <1>8 DEF SaveTriageGroup
  <2>2. [there |-> TRUE, on |-> on, timed |-> timed, via |-> via] \in Group
    BY TriageAssumption DEF Group
  <2>3. due' \subseteq Groups
    BY <2>1
  <2>4. QED
    BY <1>7, <2>1, <2>2, <2>3
<1>9. ASSUME NEW g \in Groups, SetTriageGroupEnabled(g) PROVE TypeOK'
  <2>1. [group[g] EXCEPT !.on = ~@] \in Group
    BY DEF Group
  <2>2. QED
    BY <1>7, <1>9, <2>1 DEF SetTriageGroupEnabled
<1>10. ASSUME NEW g \in Groups, DeleteTriageGroup(g) PROVE TypeOK'
  BY <1>7, <1>10, RestingTyped DEF DeleteTriageGroup
<1>11. CASE startTriageReply
  BY <1>11, ConversationTyped DEF startTriageReply, Command
<1>12. CASE TurnBegins
  BY <1>0, <1>12 DEF TurnBegins, Command
<1>13. CASE ResetTriageSession
  <2>1. \A c \in Conversations : Aged(c) \in Conversations /\ (c # "none" => Aged(c) # "none")
    BY DEF Aged, Conversations
  <2>2. ASSUME NEW p \in Passes
        PROVE  /\ [pass[p] EXCEPT !.conversation = Aged(@)] \in Pass
               /\ [pass[p] EXCEPT !.conversation = Aged(@)].at = pass[p].at
    <3>1. pass[p] \in Pass
      OBVIOUS
    <3>2. Aged(pass[p].conversation) \in Conversations
      BY <2>1, <3>1 DEF Pass
    <3>3. QED
      BY <3>1, <3>2 DEF Pass
  <2>3. pass' = [p \in Passes |-> [pass[p] EXCEPT !.conversation = Aged(@)]]
    BY <1>13 DEF ResetTriageSession
  <2>4. pass' \in [Passes -> Pass] /\ (lock \in Passes => pass'[lock].at = "agent")
    BY <2>2, <2>3
  <2>5. /\ session' = "none" /\ "none" \in Conversations
        /\ turn' = Aged(turn) \/ (lock # Turn /\ turn' = "none")
    BY <1>13 DEF ResetTriageSession, Conversations
  <2>6. QED
    BY <1>13, <2>1, <2>4, <2>5 DEF ResetTriageSession, Command
<1>14. CASE TurnEnds
  <2>1. "none" \in Conversations
    BY DEF Conversations
  <2>2. QED
    BY <1>0, <1>14, <2>1 DEF TurnEnds
<1>15. QED
  BY <1>1, <1>2, <1>5, <1>6, <1>8, <1>9, <1>10, <1>11, <1>12, <1>13, <1>14 DEF Around, Commands

\* The steps of a run that may leave the agent or not reach it.
LEMMA RunTyped ==
  ASSUME TypeOK, NEW p \in Passes, Goes(p)
  PROVE  TypeOK'
<1> USE DEF schedule, brain, counts, outcome
<1>0. pass[p] \in Pass /\ UNCHANGED <<group, unread, batch, session, turn, arrived, settled, acked, unmarked>>
  BY DEF TypeOK, Goes, collectUnreadFiltered, CannotRun, Skip, TryLockTriageBrain, FailOpen,
         MarkTriageGroupRan
<1>1. ASSUME NEW new \in Pass, pass' = [pass EXCEPT ![p] = new],
             \/ lock' = lock /\ (pass[p].at = "agent" => new.at = "agent")
             \/ lock' = p /\ new.at = "agent",
             due' \subseteq Groups, commands' \in Nat, faults' \in Nat
      PROVE  TypeOK'
  BY <1>0, <1>1, PassTyped DEF TypeOK
<1>2. ASSUME NEW g \in Groups, collectUnreadFiltered(p, g) PROVE TypeOK'
  <2>1. pass[p].at = "next" /\ \E new \in Pass : pass' = [pass EXCEPT ![p] = new]
    BY <1>2, Collected
  <2>2. UNCHANGED <<due, lock, commands, faults>>
    BY <1>2 DEF collectUnreadFiltered
  <2>3. QED
    BY <1>1, <2>1, <2>2 DEF TypeOK
<1>3. CASE CannotRun(p)
  <2>1. pass[p].at = "try" /\ pass' = [pass EXCEPT ![p] = Over(p)] /\ UNCHANGED <<due, lock>>
    BY <1>3 DEF CannotRun, Stop
  <2>2. QED
    BY <1>1, <1>3, <2>1, OverTyped DEF TypeOK, CannotRun, Fault
<1>4. CASE Skip(p)
  <2>1. pass[p].at = "try" /\ pass' = [pass EXCEPT ![p] = Over(p)] /\ UNCHANGED <<due, lock>>
    BY <1>4 DEF Skip, Stop
  <2>2. QED
    BY <1>1, <1>4, <2>1, OverTyped DEF TypeOK, Skip
<1>5. CASE TryLockTriageBrain(p) \/ FailOpen(p)
  <2> DEFINE new == [pass[p] EXCEPT !.at = "agent", !.conversation = Conversation]
  <2>1. new \in Pass /\ new.at = "agent"
    BY <1>0, ConversationTyped DEF Pass
  <2>2. pass' = [pass EXCEPT ![p] = new] /\ lock' \in {lock, p} /\ due' = due
    BY <1>5 DEF TryLockTriageBrain, FailOpen, TypeOK
  <2>3. commands' \in Nat /\ faults' \in Nat
    BY <1>5 DEF TryLockTriageBrain, FailOpen, TypeOK, Fault
  <2>4. QED
    BY <1>1, <2>1, <2>2, <2>3 DEF TypeOK
<1>6. CASE MarkTriageGroupRan(p)
  <2> DEFINE over == \A h \in Groups : pass[p].queue[h] = {}
             new == IF over THEN Resting ELSE [Over(p) EXCEPT !.at = "next", !.group = None]
  <2>1. new \in Pass
    BY OverTyped, RestingTyped DEF Pass
  <2>2. pass[p].at = "ran" /\ pass' = [pass EXCEPT ![p] = new] /\ UNCHANGED <<lock, commands, faults>>
    BY <1>6 DEF MarkTriageGroupRan
  <2>3. due' \subseteq Groups
    BY <1>6 DEF MarkTriageGroupRan, TypeOK
  <2>4. QED
    BY <1>1, <2>1, <2>2, <2>3 DEF TypeOK
<1>7. QED
  BY <1>2, <1>3, <1>4, <1>5, <1>6 DEF Goes

\* The agent's answer.
LEMMA AgentTyped ==
  ASSUME TypeOK, NEW p \in Passes, Answers(p)
  PROVE  TypeOK'
<1> USE DEF schedule, counts, outcome
<1>1. /\ pass[p] \in Pass /\ lock' = IF lock = p THEN None ELSE lock
      /\ UNCHANGED <<group, due, unread, batch, turn, arrived, settled, acked, unmarked>>
  BY DEF TypeOK, Answers, RunAgent, AgentFails, Unlock
<1>2. session' \in Conversations
  BY <1>1 DEF TypeOK, Pass, Answers, RunAgent, AgentFails, Unlock
<1>3. commands' \in Nat /\ faults' \in Nat
  <2>1. ASSUME NEW i \in SUBSET Msgs, RunAgent(p, i) PROVE UNCHANGED <<commands, faults>>
    BY <2>1 DEF RunAgent
  <2>2. QED
    BY <2>1 DEF Answers, AgentFails, TypeOK, Fault
<1>4. PICK new \in Pass : pass' = [pass EXCEPT ![p] = new]
  <2>1. CASE AgentFails(p)
    BY <2>1, OverTyped DEF AgentFails, Stop
  <2>2. ASSUME NEW i \in SUBSET Msgs, RunAgent(p, i)
        PROVE  \E new \in Pass : pass' = [pass EXCEPT ![p] = new]
    <3> DEFINE new == [pass[p] EXCEPT !.at = IF i = {} THEN "mark" ELSE "digest",
                                      !.important = i, !.conversation = "none"]
    <3>0. "none" \in Conversations /\ (IF i = {} THEN "mark" ELSE "digest") \in {"mark", "digest"}
      BY DEF Conversations
    <3>1. new \in Pass
      BY <1>1, <3>0 DEF Pass
    <3>2. pass' = [pass EXCEPT ![p] = new]
      BY <2>2 DEF RunAgent, TypeOK
    <3>3. QED
      BY <3>1, <3>2
  <2>3. QED
    BY <2>1, <2>2 DEF Answers
<1>5. QED
  BY <1>1, <1>2, <1>3, <1>4, PassTyped DEF TypeOK

\* What follows from the answer.
LEMMA ResultTyped ==
  ASSUME TypeOK, NEW p \in Passes, RunOK(p), Settles(p) \/ DigestFails(p)
  PROVE  TypeOK'
<1> USE DEF schedule, brain, counts, outcome
<1>1. /\ pass[p] \in Pass /\ pass[p].at \in {"digest", "reply", "mark"}
      /\ UNCHANGED <<group, due, lock, session, turn, arrived>>
  BY DEF TypeOK, Settles, Marks, Digest, DigestFails, sendImportantAutoReplies, markRead, MarkFails
<1>2. commands' \in Nat /\ faults' \in Nat /\ batch' \in BOOLEAN
  <2>1. ASSUME NEW chats \in SUBSET Chats, MarkFails(p, chats)
        PROVE  commands' = commands /\ faults' \in Nat /\ batch' \in BOOLEAN
    <3>1. Fault /\ batch' \in {batch, TRUE}
      BY <2>1, Zenon DEF MarkFails
    <3>2. commands' = commands /\ faults' \in Nat
      BY <3>1 DEF TypeOK, Fault
    <3>3. QED
      BY <3>1, <3>2, Zenon DEF TypeOK
  <2>2. CASE Digest(p) \/ sendImportantAutoReplies(p) \/ markRead(p)
    BY <2>2 DEF TypeOK, Digest, sendImportantAutoReplies, markRead
  <2>3. CASE DigestFails(p)
    BY <2>3 DEF TypeOK, DigestFails, Fault
  <2>4. QED
    BY <2>1, <2>2, <2>3 DEF TypeOK, Settles, Marks
<1>3. unread' \subseteq unread /\ settled' \subseteq settled \cup pass[p].msgs
  BY DEF RunOK, Settles, Marks, Digest, DigestFails, sendImportantAutoReplies, markRead, MarkFails
<1>4. acked' \subseteq Chats
  <2>1. pass[p].important \subseteq Msgs
    BY <1>1 DEF Pass
  <2>2. {ChatOf[m] : m \in pass[p].important} \subseteq Chats
    BY <2>1, TriageAssumption
  <2>3. QED
    BY <2>2 DEF TypeOK, Settles, Marks, Digest, DigestFails, sendImportantAutoReplies, markRead, MarkFails
<1>5. unmarked' \subseteq unmarked \cup pass[p].msgs
  BY DEF RunOK, Settles, Marks, Digest, DigestFails, sendImportantAutoReplies, markRead, MarkFails
<1>6. PICK new \in Pass : pass' = [pass EXCEPT ![p] = new]
  <2>1. Over(p) \in Pass /\ \A at \in {"reply", "mark"} : [pass[p] EXCEPT !.at = at] \in Pass
    BY <1>1, OverTyped DEF Pass
  <2>2. QED
    BY <2>1 DEF Settles, Marks, Digest, DigestFails, sendImportantAutoReplies, markRead, MarkFails,
                 Move, Stop, TypeOK
<1>7. QED
  BY <1>1, <1>2, <1>3, <1>4, <1>5, <1>6, PassTyped DEF TypeOK, RunOK

-----------------------------------------------------------------------------
(* Messages and conversations. *)

\* What changes neither the messages nor what is settled, and gives every run a part of
\* the messages it had, or of the unread ones.
LEMMA RunsKept ==
  ASSUME TypeOK, RunsOK, NothingLost, unread' = unread, settled' = settled, acked' = acked,
         arrived' = arrived,
         \A p \in Passes :
           \/ /\ pass'[p].important = pass[p].important /\ pass'[p].msgs = pass[p].msgs
              /\ pass'[p].at \in {pass[p].at, "agent"}
           \/ pass'[p].important = {} /\ pass'[p].msgs \subseteq arrived
  PROVE  RunsOK' /\ NothingLost'
<1>1. NothingLost'
  BY DEF NothingLost
<1>2. ASSUME NEW p \in Passes PROVE RunOK(p)'
  BY DEF RunsOK, RunOK
<1>3. QED
  BY <1>1, <1>2 DEF RunsOK

LEMMA RestingKnows ==
  /\ Resting.important = {} /\ Resting.msgs = {} /\ Resting.conversation = "none"
  /\ Resting.at = "idle"
BY DEF Resting

LEMMA AroundMessages ==
  ASSUME TypeOK, RunsOK, NothingLost, Around
  PROVE  RunsOK' /\ NothingLost'
<1> USE DEF schedule, brain, counts, outcome
<1>1. ASSUME NEW m \in Msgs, Arrive(m) PROVE RunsOK' /\ NothingLost'
  BY <1>1 DEF Arrive, RunsOK, RunOK, NothingLost
<1>2. CASE /\ UNCHANGED <<unread, arrived, settled, acked>>
           /\ \/ UNCHANGED pass
              \/ \E p \in Passes, queue \in [Groups -> SUBSET Transports] : Begin(p, queue)
              \/ \E p \in Passes : pass' = [pass EXCEPT ![p] = [Resting EXCEPT !.at = "try", !.msgs = unread]]
              \/ ResetTriageSession
  <2>1. ASSUME NEW p \in Passes
        PROVE  \/ /\ pass'[p].important = pass[p].important /\ pass'[p].msgs = pass[p].msgs
                  /\ pass'[p].at \in {pass[p].at, "agent"}
               \/ pass'[p].important = {} /\ pass'[p].msgs \subseteq arrived
    <3>1. /\ pass[p] \in Pass /\ pass \in [Passes -> Pass] /\ unread \subseteq arrived
      BY DEF TypeOK
    <3>2. ASSUME NEW r \in Passes, NEW queue \in [Groups -> SUBSET Transports], Begin(r, queue)
          PROVE  pass'[p] = pass[p] \/ (pass'[p].important = {} /\ pass'[p].msgs = {})
      BY <3>1, <3>2 DEF Begin, Resting
    <3>3. ASSUME NEW r \in Passes,
                 pass' = [pass EXCEPT ![r] = [Resting EXCEPT !.at = "try", !.msgs = unread]]
          PROVE  pass'[p] = pass[p] \/ (pass'[p].important = {} /\ pass'[p].msgs = unread)
      BY <3>1, <3>3 DEF Resting
    <3>4. CASE ResetTriageSession
      <4>1. pass'[p] = [pass[p] EXCEPT !.conversation = Aged(@)]
        BY <3>4 DEF ResetTriageSession
      <4>2. QED
        BY <3>1, <4>1 DEF Pass
    <3>5. QED
      BY <1>2, <3>1, <3>2, <3>3, <3>4
  <2>2. QED
    BY <1>2, <2>1, RunsKept
<1>3. Ticker \in Passes /\ Now \in Passes /\ \A g \in Groups : group[g].via \in SUBSET Transports
  BY DEF Passes, TypeOK, Group
<1>4. CASE runDueTriageGroups
  <2>1. \E queue \in [Groups -> SUBSET Transports] : Begin(Ticker, queue)
    BY <1>3, <1>4 DEF runDueTriageGroups
  <2>2. QED
    BY <1>2, <1>3, <1>4, <2>1 DEF runDueTriageGroups
<1>5. CASE runTriageNow
  <2>1. \/ \E queue \in [Groups -> SUBSET Transports] : Begin(Now, queue)
        \/ pass' = [pass EXCEPT ![Now] = [Resting EXCEPT !.at = "try", !.msgs = unread]]
    BY <1>3, <1>5 DEF runTriageNow
  <2>2. QED
    BY <1>2, <1>3, <1>5, <2>1 DEF runTriageNow
<1>6. CASE ResetTriageSession
  BY <1>2, <1>6 DEF ResetTriageSession
<1>7. CASE startTriageReply \/ TurnBegins \/ TurnEnds
  BY <1>2, <1>7 DEF startTriageReply, TurnBegins, TurnEnds
<1>8. ASSUME NEW g \in Groups,
             BecomesDue(g) \/ SaveTriageGroup(g) \/ SetTriageGroupEnabled(g) \/ DeleteTriageGroup(g)
      PROVE  RunsOK' /\ NothingLost'
  BY <1>2, <1>8 DEF BecomesDue, SaveTriageGroup, SetTriageGroupEnabled, DeleteTriageGroup, GroupCommand
<1>9. QED
  BY <1>1, <1>4, <1>5, <1>6, <1>7, <1>8 DEF Around, Commands

\* A step of a run that leaves messages and owner alone.
LEMMA RunMessages ==
  ASSUME TypeOK, RunsOK, NothingLost, NEW p \in Passes,
         Goes(p) \/ Answers(p) \/ DigestFails(p)
  PROVE  RunsOK' /\ NothingLost'
<1> USE DEF schedule, brain, counts, outcome
<1>1. pass[p] \in Pass /\ pass \in [Passes -> Pass] /\ unread \subseteq arrived
  BY PassesTyped, Zenon
<1>2. UNCHANGED <<unread, arrived, settled, acked>>
  BY Zenon DEF Goes, Answers, collectUnreadFiltered, CannotRun, Skip, TryLockTriageBrain, FailOpen, MarkTriageGroupRan,
         AgentFails, DigestFails, RunAgent
<1>3. ASSUME NEW new, pass' = [pass EXCEPT ![p] = new],
             \/ new.important = pass[p].important /\ new.msgs = pass[p].msgs /\ new.at = "agent"
             \/ new.important = {} /\ new.msgs \subseteq arrived
      PROVE  RunsOK' /\ NothingLost'
  <2>1. \A q \in Passes \ {p} : pass'[q] = pass[q]
    BY <1>1, <1>3
  <2>2. pass'[p] = new
    BY <1>1, <1>3
  <2>3. QED
    BY <1>2, <1>3, <2>1, <2>2, RunsKept
<1>4. CASE CannotRun(p) \/ Skip(p) \/ AgentFails(p) \/ DigestFails(p)
  <2>1. pass' = [pass EXCEPT ![p] = Over(p)]
    BY <1>4 DEF CannotRun, Skip, AgentFails, DigestFails, Stop
  <2>2. QED
    BY <1>3, <2>1, OverTyped
<1>5. ASSUME NEW g \in Groups, collectUnreadFiltered(p, g) PROVE RunsOK' /\ NothingLost'
  <2>1. PICK new \in Pass : /\ pass' = [pass EXCEPT ![p] = new]
                            /\ new.msgs \subseteq unread /\ new.important = pass[p].important
    BY <1>5, Collected
  <2>2. pass[p].at = "next" /\ pass[p].important = {}
    BY <1>5, Collected DEF RunsOK, RunOK
  <2>3. QED
    BY <1>1, <1>3, <2>1, <2>2
<1>6. CASE TryLockTriageBrain(p) \/ FailOpen(p)
  <2>1. pass' = [pass EXCEPT ![p] = [pass[p] EXCEPT !.at = "agent", !.conversation = Conversation]]
    BY <1>1, <1>6 DEF TryLockTriageBrain, FailOpen
  <2>2. QED
    BY <1>1, <1>3, <2>1 DEF Pass
<1>7. CASE MarkTriageGroupRan(p)
  <2>1. \E new : /\ pass' = [pass EXCEPT ![p] = new] /\ new.important = {} /\ new.msgs = {}
    <3>1. Resting.important = {} /\ Resting.msgs = {}
      BY RestingKnows
    <3>2. [Over(p) EXCEPT !.at = "next", !.group = None].important = {}
          /\ [Over(p) EXCEPT !.at = "next", !.group = None].msgs = {}
      BY OverTyped DEF Pass
    <3>3. QED
      BY <1>7, <3>1, <3>2 DEF MarkTriageGroupRan
  <2>2. QED
    BY <1>3, <2>1
<1>8. ASSUME NEW i \in SUBSET Msgs, RunAgent(p, i) PROVE RunsOK' /\ NothingLost'
  <2> DEFINE new == [pass[p] EXCEPT !.at = IF i = {} THEN "mark" ELSE "digest",
                                    !.important = i, !.conversation = "none"]
  <2>1. pass' = [pass EXCEPT ![p] = new] /\ i \subseteq pass[p].msgs
    BY <1>1, <1>8 DEF RunAgent
  <2>2. /\ new.important = i /\ new.msgs = pass[p].msgs /\ new.at \in {"mark", "digest"}
        /\ new.at = "mark" => i = {}
    BY <1>1 DEF Pass
  <2>3. pass'[p] = new /\ \A q \in Passes \ {p} : pass'[q] = pass[q]
    BY <1>1, <2>1
  <2>4. NothingLost'
    BY <1>2 DEF NothingLost
  <2>5. RunOK(p)'
    <3>1. RunOK(p)
      BY DEF RunsOK
    <3>2. QED
      BY <1>2, <2>1, <2>2, <2>3, <3>1 DEF RunOK
  <2>6. ASSUME NEW q \in Passes \ {p} PROVE RunOK(q)'
    <3>1. RunOK(q)
      BY DEF RunsOK
    <3>2. QED
      BY <1>2, <2>3, <3>1 DEF RunOK
  <2>7. QED
    BY <2>4, <2>5, <2>6 DEF RunsOK
<1>9. QED
  BY <1>4, <1>5, <1>6, <1>7, <1>8 DEF Goes, Answers

\* The steps that settle messages: the digest, and the marking of what it held.
LEMMA ResultMessages ==
  ASSUME TypeOK, RunsOK, NothingLost, NEW p \in Passes, Settles(p)
  PROVE  RunsOK' /\ NothingLost'
<1> USE DEF schedule, brain, counts, outcome
<1>1. pass[p] \in Pass /\ pass \in [Passes -> Pass] /\ RunOK(p) /\ arrived' = arrived
  BY DEF TypeOK, RunsOK, Settles, Marks, Digest, sendImportantAutoReplies, markRead, MarkFails
<1>2. settled \subseteq settled' /\ \A q \in Passes \ {p} : pass'[q] = pass[q]
  BY <1>1 DEF Settles, Marks, Digest, sendImportantAutoReplies, markRead, MarkFails, Move, Stop
<1>3. ASSUME RunOK(p)' PROVE RunsOK'
  <2>1. ASSUME NEW q \in Passes \ {p} PROVE RunOK(q)'
    BY <1>1, <1>2 DEF RunsOK, RunOK
  <2>2. QED
    BY <1>3, <2>1 DEF RunsOK
<1>4. CASE Digest(p)
  <2>1. /\ settled' = settled \cup pass[p].important /\ unread' = unread /\ acked' = acked
        /\ pass' = [pass EXCEPT ![p].at = "reply"]
    BY <1>4 DEF Digest, Move
  <2>2. /\ pass'[p].at = "reply" /\ pass'[p].important = pass[p].important
        /\ pass'[p].msgs = pass[p].msgs
    BY <1>1, <2>1 DEF Pass
  <2>3. RunOK(p)'
    BY <1>1, <2>1, <2>2 DEF RunOK
  <2>4. NothingLost'
    BY <1>1, <2>1 DEF NothingLost, RunOK
  <2>5. QED
    BY <1>3, <2>3, <2>4
<1>5. CASE sendImportantAutoReplies(p)
  <2>1. /\ pass[p].at = "reply" /\ settled' = settled /\ unread' = unread
        /\ pass' = [pass EXCEPT ![p].at = "mark"]
        /\ acked' \subseteq acked \cup ({ChatOf[m] : m \in pass[p].important} \ Listed)
    BY <1>5 DEF sendImportantAutoReplies, Move
  <2>2. /\ pass'[p].at = "mark" /\ pass'[p].important = pass[p].important
        /\ pass'[p].msgs = pass[p].msgs
    BY <1>1, <2>1 DEF Pass
  <2>3. RunOK(p)'
    BY <1>1, <2>1, <2>2 DEF RunOK
  <2>4. {ChatOf[m] : m \in pass[p].important} \subseteq {ChatOf[m] : m \in settled}
    BY <1>1, <2>1 DEF RunOK
  <2>5. NothingLost'
    BY <1>1, <2>1, <2>4 DEF NothingLost
  <2>6. QED
    BY <1>3, <2>3, <2>5
<1>6. ASSUME pass[p].at = "mark", Stop(p), acked' = acked, NEW marked \in SUBSET pass[p].msgs,
             unread' = unread \ marked, settled' = settled \cup (marked \ pass[p].important)
      PROVE  RunsOK' /\ NothingLost'
  <2>1. pass'[p] = Over(p)
    BY <1>1, <1>6 DEF Stop
  <2>2. RunOK(p)'
    BY <2>1, OverTyped DEF RunOK
  <2>3. pass[p].important \subseteq settled /\ marked \subseteq arrived
    BY <1>1, <1>6 DEF RunOK
  <2>4. arrived' = unread' \cup settled'
    BY <1>1, <1>6, <2>3 DEF NothingLost
  <2>5. {ChatOf[m] : m \in settled} \subseteq {ChatOf[m] : m \in settled'}
    BY <1>2
  <2>6. NothingLost'
    BY <1>6, <2>4, <2>5 DEF NothingLost
  <2>7. QED
    BY <1>3, <2>2, <2>6
<1>7. CASE markRead(p)
  BY <1>6, <1>7 DEF markRead
<1>8. ASSUME NEW chats \in SUBSET Chats, MarkFails(p, chats) PROVE RunsOK' /\ NothingLost'
  <2>1. \E marked \in SUBSET pass[p].msgs :
          unread' = unread \ marked /\ settled' = settled \cup (marked \ pass[p].important)
    BY <1>8 DEF MarkFails
  <2>2. pass[p].at = "mark" /\ Stop(p) /\ acked' = acked
    BY <1>8 DEF MarkFails
  <2>3. QED
    BY <1>6, <2>1, <2>2
<1>9. QED
  BY <1>4, <1>5, <1>7, <1>8 DEF Settles, Marks

-----------------------------------------------------------------------------
(* What the owner was told of. *)

\* A pass that told keeps what it is to mark.
Keeps(p) ==
  pass[p].at \in {"reply", "mark"} =>
    pass'[p].at \in {"reply", "mark"} /\ pass'[p].important = pass[p].important

LEMMA ToldKept ==
  ASSUME ToldIsMarked, unread' \cap settled' \subseteq unread \cap settled,
         unmarked \subseteq unmarked', \A p \in Passes : Keeps(p)
  PROVE  ToldIsMarked'
BY DEF ToldIsMarked, Marking, Keeps

LEMMA AroundTold ==
  ASSUME TypeOK, NothingLost, ToldIsMarked, Around
  PROVE  ToldIsMarked'
<1> USE DEF schedule, brain, counts, outcome
<1>1. pass \in [Passes -> Pass] /\ Ticker \in Passes /\ Now \in Passes
  BY DEF TypeOK, Passes
<1>2. CASE /\ UNCHANGED <<settled, unmarked>> /\ unread' \cap settled \subseteq unread
           /\ \/ UNCHANGED pass
              \/ \E p \in Passes : pass[p].at = "idle" /\ \E new : pass' = [pass EXCEPT ![p] = new]
  <2>1. ASSUME NEW p \in Passes PROVE Keeps(p)
    BY <1>1, <1>2 DEF Keeps
  <2>2. QED
    BY <1>2, <2>1, ToldKept
<1>3. ASSUME NEW m \in Msgs, Arrive(m) PROVE ToldIsMarked'
  BY <1>2, <1>3 DEF Arrive, NothingLost
<1>4. ASSUME NEW g \in Groups,
             BecomesDue(g) \/ SaveTriageGroup(g) \/ SetTriageGroupEnabled(g) \/ DeleteTriageGroup(g)
      PROVE  ToldIsMarked'
  BY <1>2, <1>4 DEF BecomesDue, SaveTriageGroup, SetTriageGroupEnabled, DeleteTriageGroup, GroupCommand
<1>5. CASE runDueTriageGroups
  BY <1>1, <1>2, <1>5 DEF runDueTriageGroups, Begin
<1>6. CASE runTriageNow
  BY <1>1, <1>2, <1>6 DEF runTriageNow, Begin
<1>7. CASE startTriageReply \/ TurnBegins \/ TurnEnds
  BY <1>2, <1>7 DEF startTriageReply, TurnBegins, TurnEnds
<1>8. CASE ResetTriageSession
  <2>1. UNCHANGED <<unread, settled, unmarked>>
    BY <1>8 DEF ResetTriageSession
  <2>2. ASSUME NEW p \in Passes PROVE Keeps(p)
    <3>1. pass[p] \in Pass /\ pass'[p] = [pass[p] EXCEPT !.conversation = Aged(@)]
      BY <1>1, <1>8 DEF ResetTriageSession
    <3>2. QED
      BY <3>1 DEF Keeps, Pass
  <2>3. QED
    BY <2>1, <2>2, ToldKept
<1>9. QED
  BY <1>3, <1>4, <1>5, <1>6, <1>7, <1>8 DEF Around, Commands

\* A step of a run before its digest, or after its marking.
LEMMA RunTold ==
  ASSUME TypeOK, ToldIsMarked, NEW p \in Passes, Goes(p) \/ Answers(p) \/ DigestFails(p)
  PROVE  ToldIsMarked'
<1> USE DEF schedule, brain, counts, outcome
<1>1. pass \in [Passes -> Pass] /\ UNCHANGED <<unread, settled, unmarked>>
  BY PassesTyped, Zenon
  DEF Goes, Answers, collectUnreadFiltered, CannotRun, Skip, TryLockTriageBrain, FailOpen,
      MarkTriageGroupRan, AgentFails, DigestFails, RunAgent
<1>2. pass[p].at \notin {"reply", "mark"}
  BY DEF Goes, Answers, collectUnreadFiltered, CannotRun, Skip, TryLockTriageBrain, FailOpen,
         MarkTriageGroupRan, AgentFails, DigestFails, RunAgent
<1>3. \A q \in Passes \ {p} : pass'[q] = pass[q]
  <2>1. CASE CannotRun(p) \/ Skip(p) \/ TryLockTriageBrain(p) \/ FailOpen(p) \/ MarkTriageGroupRan(p)
             \/ AgentFails(p) \/ DigestFails(p)
    BY <1>1, <2>1 DEF CannotRun, Skip, TryLockTriageBrain, FailOpen, MarkTriageGroupRan, AgentFails,
                      DigestFails, Stop
  <2>2. ASSUME NEW g \in Groups, collectUnreadFiltered(p, g)
        PROVE  \A q \in Passes \ {p} : pass'[q] = pass[q]
    BY <1>1, <2>2, Collected
  <2>3. ASSUME NEW i \in SUBSET Msgs, RunAgent(p, i)
        PROVE  \A q \in Passes \ {p} : pass'[q] = pass[q]
    BY <1>1, <2>3 DEF RunAgent
  <2>4. QED
    BY <2>1, <2>2, <2>3 DEF Goes, Answers
<1>4. \A q \in Passes : Keeps(q)
  BY <1>2, <1>3 DEF Keeps
<1>5. QED
  BY <1>1, <1>4, ToldKept

\* The digest makes its pass answer for what it told; the marking lets go of what it marked.
LEMMA ResultTold ==
  ASSUME TypeOK, RunsOK, ToldIsMarked, NEW p \in Passes, Settles(p)
  PROVE  ToldIsMarked'
<1> USE DEF schedule, brain, counts, outcome
<1>1. pass[p] \in Pass /\ pass \in [Passes -> Pass] /\ RunOK(p)
  BY DEF TypeOK, RunsOK
<1>2. \A q \in Passes \ {p} : pass'[q] = pass[q]
  BY <1>1 DEF Settles, Marks, Digest, sendImportantAutoReplies, markRead, MarkFails, Move, Stop
<1>3. CASE Digest(p)
  <2>1. /\ settled' = settled \cup pass[p].important /\ UNCHANGED <<unread, unmarked>>
        /\ pass[p].at = "digest" /\ pass' = [pass EXCEPT ![p].at = "reply"]
    BY <1>3 DEF Digest, Move
  <2>2. pass'[p].at = "reply" /\ pass'[p].important = pass[p].important
    BY <1>1, <2>1 DEF Pass
  <2>3. QED
    BY <1>2, <2>1, <2>2 DEF ToldIsMarked, Marking
<1>4. CASE sendImportantAutoReplies(p)
  <2>1. /\ UNCHANGED <<unread, settled, unmarked>>
        /\ pass' = [pass EXCEPT ![p].at = "mark"]
    BY <1>4 DEF sendImportantAutoReplies, Move
  <2>2. pass'[p].at = "mark" /\ pass'[p].important = pass[p].important
    BY <1>1, <2>1 DEF Pass
  <2>3. \A q \in Passes : Keeps(q)
    BY <1>2, <2>2 DEF Keeps
  <2>4. QED
    BY <2>1, <2>3, ToldKept
<1>5. ASSUME NEW marked \in SUBSET pass[p].msgs, unread' = unread \ marked,
             settled' = settled \cup (marked \ pass[p].important),
             unmarked \cup (pass[p].important \ marked) \subseteq unmarked'
      PROVE  ToldIsMarked'
  <2> SUFFICES ASSUME NEW m \in unread' \cap settled', m \notin unmarked'
               PROVE  \E q \in Passes : Marking(q, m)'
    BY DEF ToldIsMarked
  <2>1. m \in unread \cap settled /\ m \notin marked /\ m \notin unmarked /\ m \notin pass[p].important
    BY <1>5
  <2>2. PICK q \in Passes : Marking(q, m)
    BY <2>1 DEF ToldIsMarked
  <2>3. q # p
    BY <2>1, <2>2 DEF Marking
  <2>4. QED
    BY <1>2, <2>2, <2>3 DEF Marking
<1>6. CASE markRead(p)
  <2>1. /\ unread' = unread \ pass[p].msgs /\ unmarked' = unmarked
        /\ settled' = settled \cup (pass[p].msgs \ pass[p].important)
    BY <1>6 DEF markRead
  <2>2. pass[p].important \ pass[p].msgs = {}
    BY <1>1 DEF RunOK
  <2>3. QED
    BY <1>5, <2>1, <2>2
<1>7. ASSUME NEW chats \in SUBSET Chats, MarkFails(p, chats) PROVE ToldIsMarked'
  <2>1. \E marked \in SUBSET pass[p].msgs :
          /\ unread' = unread \ marked /\ settled' = settled \cup (marked \ pass[p].important)
          /\ unmarked' = unmarked \cup (pass[p].important \ marked)
    BY <1>7 DEF MarkFails
  <2>2. QED
    BY <1>5, <2>1
<1>8. QED
  BY <1>3, <1>4, <1>6, <1>7 DEF Settles, Marks

-----------------------------------------------------------------------------
(* The theorems. *)

LEMMA InitInv == Init => IInv
<1> SUFFICES ASSUME Init PROVE IInv
  OBVIOUS
<1>1. TypeOK
  <2>1. /\ group \in [Groups -> Group] /\ due \subseteq Groups
    <3>1. PICK g \in Groups :
            /\ group = [h \in Groups |-> IF h = g THEN [there |-> TRUE, on |-> TRUE, timed |-> TRUE, via |-> Transports]
                                         ELSE Deleted]
            /\ due = {g}
      BY DEF Init
    <3>2. [there |-> TRUE, on |-> TRUE, timed |-> TRUE, via |-> Transports] \in Group
      BY DEF Group
    <3>3. QED
      BY <3>1, <3>2, RestingTyped
  <2>2. None \notin Passes /\ None # Turn
    BY TriageAssumption DEF Passes
  <2>3. QED
    BY <2>1, <2>2, RestingTyped DEF Init, TypeOK, Conversations
<1>2. \A p \in Passes : pass[p] = Resting
  BY DEF Init
<1>3. RunsOK
  BY <1>2, RestingKnows DEF RunsOK, RunOK
<1>4. NothingLost
  BY DEF Init, NothingLost
<1>5. ToldIsMarked
  BY DEF Init, ToldIsMarked
<1>6. QED
  BY <1>1, <1>3, <1>4, <1>5 DEF IInv

LEMMA StepInv == IInv /\ [Next]_vars => IInv'
<1> SUFFICES ASSUME IInv, [Next]_vars PROVE IInv'
  OBVIOUS
<1> USE DEF IInv
<1>1. CASE UNCHANGED vars
  BY <1>1 DEF vars, TypeOK, NothingLost, RunsOK, RunOK, ToldIsMarked, Marking
<1>2. CASE Around
  BY <1>2, AroundTyped, AroundMessages, AroundTold
<1>3. ASSUME NEW p \in Passes, Works(p) \/ Fails(p) PROVE IInv'
  <2>1. TypeOK'
    BY <1>3, RunTyped, AgentTyped, ResultTyped DEF Works, Fails, RunsOK, Goes, Answers, Settles, Marks
  <2>2. RunsOK' /\ NothingLost'
    BY <1>3, RunMessages, ResultMessages DEF Works, Fails, Goes, Answers, Settles, Marks
  <2>3. ToldIsMarked'
    BY <1>3, RunTold, ResultTold DEF Works, Fails, Goes, Answers, Settles, Marks
  <2>4. QED
    BY <2>1, <2>2, <2>3
<1>4. QED
  BY <1>1, <1>2, <1>3 DEF Next, Around

\* In every reachable state, whatever the constants, IInv holds.
THEOREM Inductive == Spec => []IInv
BY InitInv, StepInv, PTL DEF Spec

\* Every variable keeps the kind of value the code gives it, and the brain's lock belongs to
\* who drives the brain.
THEOREM TypeCorrect == Spec => []TypeOK
<1>1. IInv => TypeOK
  BY DEF IInv
<1>2. QED
  BY <1>1, Inductive, PTL

\* However passes overlap and fail, no message leaves the unread list untriaged, and nobody
\* is answered on account of one the owner has not heard of (runGroup).
THEOREM MessagesSurvive == Spec => []NothingLost
<1>1. IInv => NothingLost
  BY DEF IInv
<1>2. QED
  BY <1>1, Inductive, PTL

\* However passes overlap and fail, what the owner was told of is marked by the pass that told,
\* unless its marking fails (runGroup).
THEOREM ToldOnce == Spec => []ToldIsMarked
<1>1. IInv => ToldIsMarked
  BY DEF IInv
<1>2. QED
  BY <1>1, Inductive, PTL

=============================================================================
