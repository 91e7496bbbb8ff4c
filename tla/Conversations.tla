---------------------------- MODULE Conversations -----------------------------
(***************************************************************************)
(* The conversations the agent holds on the owner's calendar, and the table *)
(* they write:                                                              *)
(*                                                                          *)
(*   - the morning briefing (src/internal/morning), one goroutine a day     *)
(*     that talks with the owner and adds, moves and cancels events,        *)
(*   - the negotiations (src/internal/reschedule), one goroutine per event  *)
(*     that talks with the event's other party and moves the event,         *)
(*   - agentd's subscribe loop, which asks each runtime whether it owns a   *)
(*     message's chat and then feeds it the message (two calls),            *)
(*   - the other writers of a row (src/internal/store/reminders.go): the    *)
(*     run of a reminder, which writes back the whole row it read when it   *)
(*     began, and the cancel commands.                                      *)
(*                                                                          *)
(* A negotiation is named by its event (Start claims it), the briefing is   *)
(* Morning.  A conversation waits on a channel of its own, made anew for    *)
(* every wait, that it enters in its runtime's map under the chat's key.    *)
(*                                                                          *)
(* Abstracted: texts, names and prompts; what the model says is a choice.   *)
(* An event's end moves with its start.  Messages that errands or reminders *)
(* own are not here (they are asked first), and no chat is another party's  *)
(* and the owner's at once.                                                 *)
(***************************************************************************)
EXTENDS Integers, FiniteSets

CONSTANTS
  Events,      \* ids of rows of the reminders table
  Existing,    \* those that exist at the start
  Morning,     \* the briefing
  Owner,       \* the owner's chat
  Parties,     \* the other parties' chats
  PartyOf,     \* [Events -> Parties]: what resolveOther finds
  Nobody,      \* no channel
  Times,       \* instants an event can be moved to
  MaxConv,     \* maxConvTurns
  MaxTurns,    \* maxTurns
  MaxNudges,   \* maxWakeNudges
  MaxFires,    \* bound: briefings
  MaxStarts,   \* bound: calls of Start
  MaxMsgs,     \* bound: messages that come in
  MaxWrites,   \* bound: cancel commands and runs of reminders
  MaxCrashes,  \* bound: restarts of the process
  Faults       \* which failures happen: "agent", "store", "report", "panic"

ASSUME ConversationsAssumption ==
  /\ Existing \subseteq Events
  /\ PartyOf \in [Events -> Parties]
  /\ Morning \notin Events /\ Nobody \notin Events \cup {Morning}
  /\ Owner \notin Parties
  /\ Times \subseteq Nat \ {0}
  /\ {MaxConv, MaxTurns} \subseteq Nat \ {0}
  /\ {MaxNudges, MaxFires, MaxStarts, MaxMsgs, MaxWrites, MaxCrashes} \subseteq Nat
  /\ Faults \subseteq {"agent", "store", "report", "panic"}

Talks == Events \cup {Morning}
Chats == Parties \cup {Owner}
ChatOf(t) == IF t = Morning THEN Owner ELSE PartyOf[t]

\* A row: 0 is an empty event_start or next_at.
Row == [state : {"absent", "active", "done", "cancelled"}, start : Times \cup {0}, next : Times \cup {0}]
Absent == [state |-> "absent", start |-> 0, next |-> 0]

\* A conversation: where its goroutine is, the turns it has taken, the nudges of the
\* briefing that nobody answered, whether the owner is up, what it heard last, the row it
\* is about to write and whether it ends after that.
Pc == {"idle", "open", "register", "wait", "leave", "turn", "write"}
Talk == [pc : Pc, turns : Nat, nudges : Nat, up : BOOLEAN, heard : Nat,
         event : Events \cup {Nobody}, copy : Row, last : BOOLEAN]
Silent == [pc |-> "idle", turns |-> 0, nudges |-> 0, up |-> FALSE, heard |-> 0,
           event |-> Nobody, copy |-> Absent, last |-> FALSE]

\* A copy of a row with a new time; without one (0) the row as it was read.
MovedTo(r, s) == IF s = 0 THEN r ELSE [r EXCEPT !.start = s, !.next = s]

\* What became of the report of an event's last negotiation.
Fates == {"none", "owed", "told", "unsent", "double"}

\* The subscribe loop: where it is, whose message it has, the conversation whose channel
\* it holds, and whether the wait that channel was made for is over.
Loop == [at : {"idle", "owns", "feed", "send"}, chat : Chats, to : Talks \cup {Nobody},
         dead : BOOLEAN]
Free == [at |-> "idle", chat |-> Owner, to |-> Nobody, dead |-> FALSE]

VARIABLES
  row,       \* the reminders table
  talk,      \* the conversations
  waiting,   \* the runtimes' waiting maps: the conversation whose channel a chat's reply goes to
  box,       \* the message in a conversation's channel (of capacity 1), 0 for none
  starting,  \* calls of Start that have read the row and not claimed the event yet
  router,    \* the subscribe loop
  run,       \* the row a reminder's run works with
  msgs,      \* bound: messages that came in, numbered from 1
  fires, starts, writes, crashes,  \* bounds
  since,     \* history: messages routed when a conversation's wait began
  first,     \* history: the first message of its chat that came in during the wait, 0 for none
  shared,    \* history: another wait in its chat began or ended during the wait
  report     \* history: what became of the report a negotiation owes to the owner

vars == <<row, talk, waiting, box, starting, router, run, msgs, fires, starts, writes, crashes,
          since, first, shared, report>>
calendar == <<row, run, writes>>
routing == <<router, msgs>>
bounds == <<fires, starts, crashes>>
waits == <<since, first, shared>>

Init ==
  /\ row \in [Events -> {r \in Row : r.start = r.next}]
  /\ \A e \in Events : IF e \in Existing THEN row[e].state = "active" /\ row[e].start # 0
                                         ELSE row[e] = Absent
  /\ talk = [t \in Talks |-> Silent]
  /\ waiting = [c \in Chats |-> Nobody]
  /\ box = [t \in Talks |-> 0]
  /\ starting = [e \in Events |-> 0]
  /\ router = Free
  /\ run = [e \in Events |-> Absent]
  /\ msgs = 0 /\ fires = 0 /\ starts = 0 /\ writes = 0 /\ crashes = 0
  /\ since = [t \in Talks |-> 0] /\ first = [t \in Talks |-> 0]
  /\ shared = [t \in Talks |-> FALSE]
  /\ report = [e \in Events |-> "none"]

-----------------------------------------------------------------------------
(* Waiting, the same in both runtimes. *)

At(t, pc) == talk[t].pc = pc
Go(t, pc) == talk' = [talk EXCEPT ![t].pc = pc]
End(t) == talk' = [talk EXCEPT ![t] = Silent]

\* The others that wait in t's chat, whose entry t overwrites or takes out.
Others(t) == {u \in Talks \ {t} : At(u, "wait") /\ ChatOf(u) = ChatOf(t)}

\* A channel, empty, goes into the map, over whatever is there.
waitReply(t) ==
  /\ At(t, "register")
  /\ waiting' = [waiting EXCEPT ![ChatOf(t)] = t]
  /\ since' = [since EXCEPT ![t] = IF router.at = "idle" THEN msgs ELSE msgs - 1]
  /\ shared' = [u \in Talks |-> shared[u] \/ u \in Others(t)]
  /\ Go(t, "wait")
  /\ UNCHANGED <<first, box, calendar, starting, routing, bounds, report>>

\* A reply is taken, or the wait is over first, even with a reply in the channel.
Wake(t) ==
  /\ At(t, "wait")
  /\ \/ /\ box[t] # 0
        /\ talk' = [talk EXCEPT ![t].pc = "leave", ![t].heard = box[t]]
        /\ UNCHANGED since
     \/ Go(t, "leave") /\ since' = [since EXCEPT ![t] = 0]
  /\ first' = [first EXCEPT ![t] = 0] /\ shared' = [shared EXCEPT ![t] = FALSE]
  /\ UNCHANGED <<waiting, box, calendar, starting, routing, bounds, report>>

\* The chat's entry goes, whose ever it is.
Forget(t) ==
  /\ waiting' = [waiting EXCEPT ![ChatOf(t)] = Nobody]
  /\ since' = [since EXCEPT ![t] = 0]
  /\ shared' = [u \in Talks |-> shared[u] \/ u \in Others(t)]
  /\ UNCHANGED first

\* Mutant: one channel for all the waits of a conversation.
Leave_KeepsChannel(t) == Forget(t) /\ UNCHANGED <<box, router>>

\* waitReply's deferred delete.  Nobody receives from the channel again: what it holds is
\* gone, and the loop may still hold it.
Leave(t) ==
  /\ Forget(t)
  /\ box' = [box EXCEPT ![t] = 0]
  /\ router' = IF router.to = t THEN [router EXCEPT !.dead = TRUE] ELSE router

-----------------------------------------------------------------------------
(* The subscribe loop: one message at a time. *)

Arrive(c) ==
  /\ router.at = "idle" /\ msgs < MaxMsgs
  /\ msgs' = msgs + 1
  /\ router' = [Free EXCEPT !.at = "owns", !.chat = c]
  /\ first' = [t \in Talks |-> IF At(t, "wait") /\ ChatOf(t) = c /\ first[t] = 0
                                 THEN msgs' ELSE first[t]]
  /\ UNCHANGED <<talk, waiting, box, calendar, starting, bounds, since, shared, report>>

\* A chat nobody waits on is the bridge's.
Owns ==
  /\ router.at = "owns"
  /\ router' = IF waiting[router.chat] = Nobody THEN Free ELSE [router EXCEPT !.at = "feed"]
  /\ UNCHANGED <<talk, waiting, box, calendar, starting, msgs, bounds, waits, report>>

\* feed looks the channel up under the lock; when the wait has ended meanwhile the message
\* is nobody's.
feed ==
  /\ router.at = "feed"
  /\ router' = IF waiting[router.chat] = Nobody
                 THEN Free
                 ELSE [router EXCEPT !.at = "send", !.to = waiting[router.chat]]
  /\ UNCHANGED <<talk, waiting, box, calendar, starting, msgs, bounds, waits, report>>

\* Mutant: the newest reply takes the place of the one in the channel.
Send_Newest ==
  /\ router.at = "send"
  /\ box' = IF router.dead THEN box ELSE [box EXCEPT ![router.to] = msgs]
  /\ router' = Free
  /\ UNCHANGED <<talk, waiting, calendar, starting, msgs, bounds, waits, report>>

\* ... and sends without the lock and without waiting: a second reply is dropped, and a reply
\* to a wait that is over is lost, though it counts as taken (FeedTelegram returns true).
Send ==
  /\ router.at = "send"
  /\ box' = IF router.dead \/ box[router.to] # 0 THEN box ELSE [box EXCEPT ![router.to] = msgs]
  /\ router' = Free
  /\ UNCHANGED <<talk, waiting, calendar, starting, msgs, bounds, waits, report>>

-----------------------------------------------------------------------------
(* The morning briefing. *)

\* The scheduler's daily hook; a briefing in flight is not joined by a second one.
Fire ==
  /\ fires < MaxFires
  /\ fires' = fires + 1
  /\ talk' = IF At(Morning, "idle") THEN [talk EXCEPT ![Morning].pc = "open"] ELSE talk
  /\ UNCHANGED <<waiting, box, calendar, starting, routing, starts, crashes, waits, report>>

\* The greeting: nothing is sent when the owner's chat is not known or the turn fails.
runSession ==
  /\ At(Morning, "open")
  /\ \/ Go(Morning, "register")
     \/ "agent" \in Faults /\ End(Morning)
  /\ UNCHANGED <<waiting, box, calendar, starting, routing, bounds, waits, report>>

\* awaitWake nudges MaxNudges times; the loop behind it takes MaxConv turns, each with
\* the reply to the one before.
MorningHears ==
  /\ At(Morning, "leave")
  /\ Leave(Morning)
  /\ LET m == talk[Morning]
         nudge == m.heard = 0 /\ ~m.up /\ m.nudges < MaxNudges
         goOn == m.heard # 0 /\ (~m.up \/ m.turns < MaxConv)
     IN talk' = [talk EXCEPT ![Morning] =
                   IF nudge THEN [m EXCEPT !.pc = "register", !.nudges = @ + 1]
                   ELSE IF goOn THEN [m EXCEPT !.pc = "turn", !.up = TRUE, !.heard = 0, !.nudges = 0]
                   ELSE Silent]
  /\ UNCHANGED <<calendar, starting, msgs, bounds, report>>

\* Behind the action the session ends when the model says so, or waits for the reply.
AfterAction ==
  [talk[Morning] EXCEPT !.pc = "register", !.turns = @ + 1, !.event = Nobody, !.copy = Absent,
                        !.last = FALSE]
Then(last) == IF last THEN Silent ELSE AfterAction

\* One turn with the one action the model chose; for `move` it reads the row.
MorningTurn ==
  /\ At(Morning, "turn")
  /\ \/ /\ "agent" \in Faults
        /\ End(Morning)
        /\ UNCHANGED calendar
     \/ \E last \in BOOLEAN :
          \/ /\ talk' = [talk EXCEPT ![Morning] = Then(last)]
             /\ UNCHANGED calendar
          \/ \E e \in Events, s \in Times \cup {0} :
               /\ row[e].state = "absent"
               /\ row' = [row EXCEPT ![e] = [state |-> "active", start |-> s, next |-> s]]
               /\ talk' = [talk EXCEPT ![Morning] = Then(last)]
               /\ UNCHANGED <<run, writes>>
          \/ \E e \in Events :
               /\ row[e].state # "absent"
               /\ row' = [row EXCEPT ![e].state = "cancelled", ![e].next = 0]
               /\ talk' = [talk EXCEPT ![Morning] = Then(last)]
               /\ UNCHANGED <<run, writes>>
          \/ \E e \in Events, s \in Times \cup {0} :
               /\ row[e].state # "absent"
               /\ talk' = [talk EXCEPT ![Morning].pc = "write", ![Morning].event = e,
                                       ![Morning].last = last,
                                       ![Morning].copy = MovedTo(row[e], s)]
               /\ UNCHANGED calendar
  /\ UNCHANGED <<waiting, box, starting, routing, bounds, waits, report>>

\* Mutant: a moved event is made active.
MorningMoves_Revives ==
  /\ At(Morning, "write")
  /\ LET m == talk[Morning] IN
     /\ row' = [row EXCEPT ![m.event] = [m.copy EXCEPT !.state = "active"]]
     /\ talk' = [talk EXCEPT ![Morning] = Then(m.last)]
  /\ UNCHANGED <<waiting, box, run, writes, starting, routing, bounds, waits, report>>

\* `move` writes the whole row it read.
MorningMoves ==
  /\ At(Morning, "write")
  /\ LET m == talk[Morning] IN
     /\ \/ row' = [row EXCEPT ![m.event] = m.copy]
        \/ "store" \in Faults /\ UNCHANGED row
     /\ talk' = [talk EXCEPT ![Morning] = Then(m.last)]
  /\ UNCHANGED <<waiting, box, run, writes, starting, routing, bounds, waits, report>>

-----------------------------------------------------------------------------
(* A negotiation. *)

\* Claiming an event that is claimed, or reporting what is not owed, is a "double".
Owe(e) == report' = [report EXCEPT ![e] = IF @ = "owed" THEN "double" ELSE "owed"]

\* The owner is told; when his chat is not known yet (ownerChat = 0) or SendOn fails, the
\* report is only logged.
Report(e) ==
  \/ report' = [report EXCEPT ![e] = IF @ = "owed" THEN "told" ELSE "double"]
  \/ "report" \in Faults /\ report' = [report EXCEPT ![e] = IF @ = "owed" THEN "unsent" ELSE "double"]
Over(e) == End(e) /\ Report(e)

\* Start reads the row: an event that is missing or cancelled is refused, as is one
\* whose other party is not one contact.
Start(e) ==
  /\ starts < MaxStarts
  /\ starts' = starts + 1
  /\ starting' = IF row[e].state \in {"active", "done"}
                   THEN [starting EXCEPT ![e] = @ + 1] ELSE starting
  /\ UNCHANGED <<talk, waiting, box, calendar, routing, fires, crashes, waits, report>>

\* Mutant: the event's claim is not looked at.
Claim_Anyway(e) ==
  /\ starting[e] > 0
  /\ starting' = [starting EXCEPT ![e] = @ - 1]
  /\ talk' = [talk EXCEPT ![e] = [Silent EXCEPT !.pc = "open"]]
  /\ Owe(e)
  /\ UNCHANGED <<waiting, box, calendar, routing, bounds, waits>>

\* ... asks the contacts, and claims the event, once.
Claim(e) ==
  /\ starting[e] > 0
  /\ starting' = [starting EXCEPT ![e] = @ - 1]
  /\ \/ /\ At(e, "idle")
        /\ Go(e, "open")
        /\ Owe(e)
     \/ UNCHANGED <<talk, report>>
  /\ UNCHANGED <<waiting, box, calendar, routing, bounds, waits>>

\* maybeFinish with the time the model gives (0: none, or one that does not parse): the
\* row is read, and written in the next step, unless it is gone or the read fails.
Finish(e) ==
  \/ Over(e)
  \/ \E s \in Times :
       /\ row[e].state \notin {"absent", "cancelled"}
       /\ talk' = [talk EXCEPT ![e].pc = "write", ![e].event = e,
                               ![e].copy = MovedTo(row[e], s)]
       /\ UNCHANGED report

\* The opening turn: it fails or has no message, or the chat goes on, or is done at once.
OpenChat(e) ==
  /\ At(e, "open")
  /\ \/ "agent" \in Faults /\ Over(e)
     \/ Finish(e)
     \/ Go(e, "register") /\ UNCHANGED report
  /\ UNCHANGED <<waiting, box, calendar, starting, routing, bounds, waits>>

Answer(e) == talk' = [talk EXCEPT ![e].pc = "turn", ![e].heard = 0]

\* Mutant: a party that stays quiet is left without a word to the owner.
NegotiationHears_Quiet(e) ==
  /\ At(e, "leave")
  /\ Leave(e)
  /\ IF talk[e].heard = 0 THEN End(e) ELSE Answer(e)
  /\ UNCHANGED <<calendar, starting, msgs, bounds, report>>

NegotiationHears(e) ==
  /\ At(e, "leave")
  /\ Leave(e)
  /\ IF talk[e].heard = 0 THEN Over(e) ELSE Answer(e) /\ UNCHANGED report
  /\ UNCHANGED <<calendar, starting, msgs, bounds>>

NegotiationTurn(e) ==
  /\ At(e, "turn")
  /\ \/ "agent" \in Faults /\ Over(e)
     \/ Finish(e)
     \/ /\ talk[e].turns + 1 < MaxTurns
        /\ talk' = [talk EXCEPT ![e].pc = "register", ![e].turns = @ + 1]
        /\ UNCHANGED report
     \/ talk[e].turns + 1 >= MaxTurns /\ Over(e)
  /\ UNCHANGED <<waiting, box, calendar, starting, routing, bounds, waits>>

\* applyNewTime writes the whole row it read, and the owner is told.
applyNewTime(e) ==
  /\ At(e, "write")
  /\ \/ row' = [row EXCEPT ![e] = talk[e].copy]
     \/ "store" \in Faults /\ UNCHANGED row
  /\ Over(e)
  /\ UNCHANGED <<waiting, box, run, writes, starting, routing, bounds, waits>>

-----------------------------------------------------------------------------
(* The other writers of a row, panics and restarts. *)

\* CancelReminder, by a command of either party.
Cancel(e) ==
  /\ writes < MaxWrites
  /\ writes' = writes + 1
  /\ row[e].state # "absent"
  /\ row' = [row EXCEPT ![e].state = "cancelled", ![e].next = 0]
  /\ UNCHANGED <<talk, waiting, box, starting, routing, run, bounds, waits, report>>

\* A reminder's run begins with the due row ...
RunBegins(e) ==
  /\ writes < MaxWrites
  /\ writes' = writes + 1
  /\ run[e] = Absent
  /\ row[e].state = "active" /\ row[e].next # 0
  /\ run' = [run EXCEPT ![e] = row[e]]
  /\ UNCHANGED <<row, talk, waiting, box, starting, routing, bounds, waits, report>>

\* ... and ends with a write of its whole copy, or with a failure that leaves the row.
RunEnds(e) ==
  /\ run[e] # Absent
  /\ \/ \E s \in {"done", "cancelled"} :
          row' = [row EXCEPT ![e] = [run[e] EXCEPT !.state = s, !.next = 0]]
     \/ \E n \in Times : row' = [row EXCEPT ![e] = [run[e] EXCEPT !.next = n]]
     \/ Faults \cap {"store", "panic"} # {} /\ UNCHANGED row
  /\ run' = [run EXCEPT ![e] = Absent]
  /\ UNCHANGED <<writes, talk, waiting, box, starting, routing, bounds, waits, report>>

\* Mutant: a panic leaves the conversation in flight.
Panic_Claimed(t) ==
  /\ "panic" \in Faults
  /\ talk[t].pc \in {"open", "turn", "write"}
  /\ Go(t, "panicked")
  /\ UNCHANGED <<waiting, box, calendar, starting, routing, bounds, waits, report>>

\* A panic in a turn or in what follows it ends the conversation; the deferred release
\* lets the next one begin.
Panic(t) ==
  /\ "panic" \in Faults
  /\ talk[t].pc \in {"open", "turn", "write"}
  /\ End(t)
  /\ report' = IF t = Morning THEN report ELSE [report EXCEPT ![t] = "none"]
  /\ UNCHANGED <<waiting, box, calendar, starting, routing, bounds, waits>>

\* Only the table outlives the process.
Crash ==
  /\ crashes < MaxCrashes
  /\ crashes' = crashes + 1
  /\ talk' = [t \in Talks |-> Silent]
  /\ waiting' = [c \in Chats |-> Nobody]
  /\ box' = [t \in Talks |-> 0]
  /\ starting' = [e \in Events |-> 0]
  /\ router' = Free
  /\ run' = [e \in Events |-> Absent]
  /\ report' = [e \in Events |-> "none"]
  /\ since' = [t \in Talks |-> 0] /\ first' = [t \in Talks |-> 0]
  /\ shared' = [t \in Talks |-> FALSE]
  /\ UNCHANGED <<row, msgs, fires, starts, writes>>

Brief == runSession \/ MorningHears \/ MorningTurn \/ MorningMoves
Negotiate(e) == OpenChat(e) \/ NegotiationHears(e) \/ NegotiationTurn(e) \/ applyNewTime(e)
Converse(t) ==
  \/ waitReply(t) \/ Wake(t)
  \/ t = Morning /\ Brief
  \/ t \in Events /\ Negotiate(t)
Route == Owns \/ feed \/ Send

Next ==
  \/ Fire
  \/ \E e \in Events : Start(e) \/ Claim(e) \/ Cancel(e) \/ RunBegins(e) \/ RunEnds(e)
  \/ \E t \in Talks : Converse(t) \/ Panic(t)
  \/ \E c \in Chats : Arrive(c)
  \/ Route
  \/ Crash

Spec == Init /\ [][Next]_vars

\* A conversation's goroutine goes on: its turns have a time limit, its waits a timer. 
FairSpec == Spec /\ (\A t \in Talks : WF_vars(Converse(t)))

-----------------------------------------------------------------------------
(* Properties. *)

\* Every variable keeps the kind of value the code gives it.
TypeOK ==
  /\ row \in [Events -> Row]
  /\ talk \in [Talks -> Talk]
  /\ waiting \in [Chats -> Talks \cup {Nobody}]
  /\ box \in [Talks -> Nat]
  /\ starting \in [Events -> Nat]
  /\ router \in Loop
  /\ run \in [Events -> Row]
  /\ {msgs, fires, starts, writes, crashes} \subseteq Nat
  /\ since \in [Talks -> Nat] /\ first \in [Talks -> Nat] /\ shared \in [Talks -> BOOLEAN]
  /\ report \in [Events -> Fates]

\* The loop has the message for a conversation that still waits: it will find its entry, or
\* holds its channel.
OnItsWay(t) ==
  /\ router.at # "idle" /\ router.chat = ChatOf(t)
  /\ router.at = "send" => router.to = t /\ ~router.dead

\* The first reply that comes in while a conversation waits reaches its channel and stays in
\* it until it is taken, unless one that the loop had before is there already: neither the
\* look-up in two steps (Owns, feed), nor the send without the lock, nor later replies or
\* waits in other chats lose it.  Another conversation with the same chat may: their waits
\* share one entry, which each overwrites and takes out (waitReply); and a reply that finds
\* the wait over as it is sent is lost.
FirstReplyIsHeard ==
  \A t \in Talks :
    At(t, "wait") /\ ~shared[t]
      => /\ waiting[ChatOf(t)] = t
         /\ first[t] # 0 => \/ box[t] # 0 /\ box[t] <= first[t]
                            \/ first[t] = msgs /\ OnItsWay(t)

\* What a conversation hears came in after it had asked, but for the one message that the
\* loop was routing at that moment: no late reply to an earlier question is taken for the
\* answer to the next (waitReply's channel is made anew for each wait).
FreshReply ==
  \A t \in Talks :
    /\ At(t, "wait") /\ box[t] # 0 => box[t] > since[t]
    /\ At(t, "leave") /\ talk[t].heard # 0 => talk[t].heard > since[t]

\* A negotiation owes the owner one report from its start to its end, and its end makes that
\* report, once, whichever of its ways it takes, a panic apart ("report the outcome to the
\* owner", the comment on run).  Whether the report arrives is another matter (reportOwner).
ReportedOnce ==
  \A e \in Events : /\ report[e] # "double"
                     /\ report[e] = "owed" <=> ~At(e, "idle")

\* A cancelled event is cancelled for good, unless a writer had read the row before: a
\* conversation or a run that reads a cancelled row does not bring it back (Start,
\* applyNewTime, applyAction, DueReminders).
CancelledForGood ==
  [][\A e \in Events :
       row[e].state = "cancelled" /\ row'[e].state # "cancelled"
         => \/ run[e].state = "active"
            \/ \E t \in Talks : talk[t].pc = "write" /\ talk[t].event = e
                                /\ talk[t].copy.state \in {"active", "done"}]_vars

\* Every briefing and every negotiation ends, whatever the others say or leave unsaid,
\* and lets the next one begin.
ConversationsEnd ==
  \A t \in Talks : ~At(t, "idle") ~> At(t, "idle")

=============================================================================
