-------------------------- MODULE ConversationsProofs --------------------------
(* Theorems about Conversations, for every value of its constants. *)
EXTENDS Conversations, TLAPS

\* Outside a wait, which lasts until its entry is taken out.
Quiet == {"idle", "open", "register", "turn", "write"}

\* A channel holds nothing older than its wait, and nothing outside it; the message the loop
\* has is younger than every wait that began without it.
Asked(t) ==
  /\ talk[t].pc \in Quiet => box[t] = 0
  /\ talk[t].pc # "wait" => first[t] = 0
  /\ talk[t].heard # 0 => talk[t].pc = "leave" /\ talk[t].heard > since[t]
  /\ box[t] # 0 => box[t] > since[t]
  /\ since[t] <= msgs /\ box[t] <= msgs
  /\ talk[t].pc \notin Quiet /\ router.at # "idle" => since[t] < msgs
AllAsked == (router.at # "idle" => msgs > 0) /\ \A t \in Talks : Asked(t)

\* Who is about to write a row has read one that exists; a negotiation, the one of its event.
Copied(t) ==
  talk[t].pc = "write" => /\ talk[t].copy.state # "absent" /\ talk[t].event # Nobody
                          /\ t # Morning => talk[t].event = t
Copies ==
  /\ \A t \in Talks : Copied(t)
  /\ \A e \in Events : run[e] # Absent => run[e].state = "active"

\* An entry is that of a conversation that waits, or is about to take it out.
Entered ==
  \A c \in Chats :
    waiting[c] # Nobody => ChatOf(waiting[c]) = c /\ talk[waiting[c]].pc \in {"wait", "leave"}

\* The loop holds a channel while it sends, that of a wait in the message's chat, which is dead
\* unless the wait is still on.
Routed ==
  /\ router.at = "send" <=> router.to # Nobody
  /\ router.at # "send" => ~router.dead
  /\ router.at = "send" => /\ ChatOf(router.to) = router.chat
                           /\ ~router.dead => talk[router.to].pc \in {"wait", "leave"}

IInv == TypeOK /\ FirstReplyIsHeard /\ Entered /\ Routed /\ ReportedOnce /\ AllAsked /\ Copies

-----------------------------------------------------------------------------
(* Groups of actions, by what they disturb. *)

Speaks(t) ==
  \/ t = Morning /\ (Fire \/ runSession \/ MorningTurn \/ MorningMoves)
  \/ t \in Events /\ (Claim(t) \/ OpenChat(t) \/ NegotiationTurn(t) \/ applyNewTime(t))
  \/ Panic(t)
Hears(t) == (t = Morning /\ MorningHears) \/ (t \in Events /\ NegotiationHears(t))
Around == \E e \in Events : Start(e) \/ Cancel(e) \/ RunBegins(e) \/ RunEnds(e)

\* A negotiation that goes on owes its report, one that is over owes none.
Settles(e, pc) ==
  \E r \in {"none", "owed", "told", "unsent"} :
    (r = "owed" <=> pc # "idle") /\ report' = [report EXCEPT ![e] = r]

\* A conversation outside a wait goes on outside it, and is reported if it ends so.
Said(t, new) ==
  /\ talk' = [talk EXCEPT ![t] = new]
  /\ talk[t].pc \in Quiet /\ new.pc \in Quiet /\ new.heard = 0
  /\ new.pc = "write" => /\ new.copy.state # "absent" /\ new.event # Nobody
                         /\ t # Morning => new.event = t
  /\ \/ t = Morning /\ report' = report
     \/ t \in Events /\ Settles(t, new.pc)

-----------------------------------------------------------------------------
(* Types. *)

LEMMA Typing ==
  ASSUME TypeOK
  PROVE  /\ row \in [Events -> Row] /\ run \in [Events -> Row] /\ talk \in [Talks -> Talk]
         /\ starting \in [Events -> Nat] /\ report \in [Events -> Fates]
         /\ \A t \in Talks : talk[t] \in Talk
         /\ \A e \in Events : row[e] \in Row /\ run[e] \in Row
         /\ msgs \in Nat /\ fires \in Nat /\ starts \in Nat /\ writes \in Nat /\ crashes \in Nat
BY DEF TypeOK

LEMMA SilentTyped == Silent \in Talk /\ Absent \in Row /\ Free.chat = Owner
BY DEF Silent, Talk, Absent, Row, Pc, Free

LEMMA Names ==
  /\ Morning \in Talks /\ Events \subseteq Talks /\ Morning \notin Events
  /\ Nobody \notin Talks
  /\ \A t \in Talks : t = Morning \/ t \in Events
  /\ \A t \in Talks : ChatOf(t) \in Chats
  /\ Owner \in Chats
BY ConversationsAssumption DEF Talks, Chats, ChatOf

LEMMA MovedTyped ==
  ASSUME NEW r \in Row, NEW s \in Times \cup {0}
  PROVE  MovedTo(r, s) \in Row /\ MovedTo(r, s).state = r.state
BY DEF MovedTo, Row

\* Outside a wait a conversation has heard nothing it has not answered.
LEMMA HeardNothing ==
  ASSUME IInv, NEW t \in Talks, talk[t].pc \in Quiet
  PROVE  talk[t] \in Talk /\ talk[t].heard = 0
BY DEF IInv, TypeOK, AllAsked, Asked, Quiet

\* Behind its action the briefing is over or waits for the reply.
LEMMA ThenTyped ==
  ASSUME IInv, talk[Morning].pc \in Quiet, NEW last \in BOOLEAN
  PROVE  /\ Then(last) \in Talk /\ Then(last).pc \in {"idle", "register"}
         /\ Then(last).heard = 0
<1>1. talk[Morning] \in Talk /\ talk[Morning].heard = 0
  BY HeardNothing, Names
<1>2. AfterAction \in Talk /\ AfterAction.pc = "register" /\ AfterAction.heard = 0
  <2>1. talk[Morning].turns + 1 \in Nat /\ Absent \in Row
    BY <1>1, SilentTyped DEF Talk
  <2>2. QED
    BY <1>1, <2>1 DEF AfterAction, Talk, Pc
<1>3. Silent \in Talk /\ Silent.pc = "idle" /\ Silent.heard = 0
  BY SilentTyped DEF Silent
<1>4. QED
  BY <1>2, <1>3 DEF Then

\* A negotiation under way owes one report.
LEMMA OwesOne ==
  ASSUME IInv, NEW e \in Events, talk[e].pc # "idle"
  PROVE  /\ report[e] = "owed"
         /\ \A pc : pc # "idle" /\ report' = report => Settles(e, pc)
         /\ Report(e) => Settles(e, "idle")
<1>1. /\ report \in [Events -> Fates]
      /\ report[e] = "owed"
  BY DEF IInv, TypeOK, ReportedOnce, At
<1>2. [report EXCEPT ![e] = "owed"] = report
  BY <1>1
<1>3. ASSUME NEW pc, pc # "idle", report' = report PROVE Settles(e, pc)
  BY <1>2, <1>3 DEF Settles
<1>4. ASSUME Report(e) PROVE Settles(e, "idle")
  BY <1>1, <1>4 DEF Settles, Report
<1>5. QED
  BY <1>1, <1>3, <1>4

\* A negotiation that begins owes its report, and none is owed for the event yet.
LEMMA OwesFirst ==
  ASSUME IInv, NEW e \in Events, talk[e].pc = "idle", Owe(e)
  PROVE  Settles(e, "open")
<1>1. /\ report \in [Events -> Fates]
      /\ report[e] # "owed"
  BY DEF IInv, TypeOK, ReportedOnce, At
<1>2. QED
  BY <1>1 DEF Settles, Owe

\* The ways in which a conversation goes on outside a wait.
LEMMA GoesOn ==
  ASSUME IInv, NEW t \in Talks, NEW pc \in {"open", "register"}, talk[t].pc \in Quiet,
         talk' = [talk EXCEPT ![t].pc = pc],
         \/ report' = report /\ (t # Morning => talk[t].pc # "idle")
         \/ t \in Events /\ Settles(t, pc)
  PROVE  \E new \in Talk : Said(t, new)
<1> DEFINE new == [talk[t] EXCEPT !.pc = pc]
<1>1. talk[t] \in Talk /\ talk[t].heard = 0 /\ talk \in [Talks -> Talk]
  BY HeardNothing, Typing DEF IInv
<1>2. new \in Talk /\ new.pc = pc /\ new.heard = 0
  BY <1>1 DEF Talk, Pc
<1>3. talk' = [talk EXCEPT ![t] = new]
  BY <1>1
<1>4. \/ t = Morning /\ report' = report
      \/ t \in Events /\ Settles(t, new.pc)
  BY <1>2, OwesOne, Names
<1> HIDE DEF new
<1>5. QED
  BY <1>2, <1>3, <1>4 DEF Said, Quiet

LEMMA Falls ==
  ASSUME IInv, NEW t \in Talks, talk[t].pc \in Quiet, talk' = [talk EXCEPT ![t] = Silent],
         \/ t = Morning /\ report' = report
         \/ t \in Events /\ Settles(t, "idle")
  PROVE  \E new \in Talk : Said(t, new)
<1>1. Silent \in Talk /\ Silent.pc = "idle" /\ Silent.heard = 0
  BY SilentTyped DEF Silent
<1>2. QED
  BY <1>1 DEF Said, Quiet

LEMMA Writing ==
  ASSUME IInv, NEW t \in Talks, NEW e \in Events, NEW s \in Times \cup {0}, NEW last \in BOOLEAN,
         talk[t].pc \in Quiet \ {"idle"}, row[e].state # "absent", t # Morning => e = t, report' = report,
         \/ talk' = [talk EXCEPT ![t].pc = "write", ![t].event = e, ![t].last = last,
                                 ![t].copy = MovedTo(row[e], s)]
         \/ talk' = [talk EXCEPT ![t].pc = "write", ![t].event = e, ![t].copy = MovedTo(row[e], s)]
  PROVE  \E new \in Talk : Said(t, new)
<1> DEFINE copy == MovedTo(row[e], s)
           long == [talk[t] EXCEPT !.pc = "write", !.event = e, !.last = last, !.copy = copy]
           short == [talk[t] EXCEPT !.pc = "write", !.event = e, !.copy = copy]
<1>1. talk[t] \in Talk /\ talk[t].heard = 0 /\ talk \in [Talks -> Talk]
  BY HeardNothing, Typing DEF IInv
<1>2. copy \in Row /\ copy.state # "absent"
  BY MovedTyped, Typing DEF IInv
<1>3. talk' = [talk EXCEPT ![t] = long] \/ talk' = [talk EXCEPT ![t] = short]
  BY <1>1
<1> HIDE DEF copy
<1>4. e # Nobody /\ (t # Morning => t \in Events)
  BY Names
<1>5. /\ t = Morning => report' = report
      /\ t # Morning => Settles(t, "write")
  BY <1>4, OwesOne
<1>6. long \in Talk /\ long.pc = "write" /\ long.heard = 0 /\ long.copy = copy /\ long.event = e
  BY <1>1, <1>2 DEF Talk, Pc
<1>7. short \in Talk /\ short.pc = "write" /\ short.heard = 0 /\ short.copy = copy /\ short.event = e
  BY <1>1, <1>2 DEF Talk, Pc
<1> HIDE DEF long, short
<1>8. \A new \in {long, short} :
        /\ new \in Talk /\ new.pc = "write" /\ new.heard = 0
        /\ new.copy = copy /\ new.event = e
  BY <1>6, <1>7
<1>9. ASSUME NEW new \in {long, short}, talk' = [talk EXCEPT ![t] = new] PROVE Said(t, new)
  BY <1>2, <1>4, <1>5, <1>8, <1>9 DEF Said, Quiet
<1>10. QED
  BY <1>3, <1>8, <1>9

LEMMA BriefShape ==
  ASSUME IInv, Fire \/ runSession \/ MorningTurn \/ MorningMoves
  PROVE  (talk' = talk /\ report' = report) \/ \E new \in Talk : Said(Morning, new)
<1> DEFINE Goal == (talk' = talk /\ report' = report) \/ \E new \in Talk : Said(Morning, new)
<1>0. Morning \in Talks /\ report' = report
  BY Names DEF Fire, runSession, MorningTurn, MorningMoves
<1>1. CASE Fire
  BY <1>0, <1>1, GoesOn DEF Fire, At, Quiet
<1>2. CASE runSession
  <2>1. talk[Morning].pc = "open"
    BY <1>2 DEF runSession, At
  <2>2. CASE Go(Morning, "register")
    BY <1>0, <2>1, <2>2, GoesOn DEF Go, Quiet
  <2>3. CASE End(Morning)
    BY <1>0, <2>1, <2>3, Falls DEF End, Quiet
  <2>4. QED
    BY <1>2, <2>2, <2>3 DEF runSession
<1>3. ASSUME NEW last \in BOOLEAN, talk[Morning].pc \in Quiet,
             talk' = [talk EXCEPT ![Morning] = Then(last)]
      PROVE  Goal
  <2>1. /\ Then(last) \in Talk /\ Then(last).pc \in {"idle", "register"}
        /\ Then(last).heard = 0
    BY <1>3, ThenTyped
  <2>2. Said(Morning, Then(last))
    BY <1>0, <1>3, <2>1 DEF Said, Quiet
  <2>3. QED
    BY <2>1, <2>2
<1>4. CASE MorningTurn
  <2>1. talk[Morning].pc = "turn"
    BY <1>4 DEF MorningTurn, At
  <2>2. \/ End(Morning)
        \/ \E last \in BOOLEAN :
             \/ talk' = [talk EXCEPT ![Morning] = Then(last)]
             \/ \E e \in Events, s \in Times \cup {0} :
                  /\ row[e].state # "absent"
                  /\ talk' = [talk EXCEPT ![Morning].pc = "write", ![Morning].event = e,
                                          ![Morning].last = last,
                                          ![Morning].copy = MovedTo(row[e], s)]
    BY <1>4 DEF MorningTurn
  <2>3. CASE End(Morning)
    BY <1>0, <2>1, <2>3, Falls DEF End, Quiet
  <2>4. ASSUME NEW last \in BOOLEAN, talk' = [talk EXCEPT ![Morning] = Then(last)]
        PROVE  Goal
    BY <1>3, <2>1, <2>4 DEF Quiet
  <2>5. ASSUME NEW last \in BOOLEAN, NEW e \in Events, NEW s \in Times \cup {0}, row[e].state # "absent",
               talk' = [talk EXCEPT ![Morning].pc = "write", ![Morning].event = e,
                                    ![Morning].last = last, ![Morning].copy = MovedTo(row[e], s)]
        PROVE  Goal
    BY <1>0, <2>1, <2>5, Writing DEF Quiet
  <2>6. QED
    BY <2>2, <2>3, <2>4, <2>5
<1>5. CASE MorningMoves
  <2>1. talk[Morning].pc = "write" /\ talk' = [talk EXCEPT ![Morning] = Then(talk[Morning].last)]
    BY <1>5 DEF MorningMoves, At
  <2>2. talk[Morning].last \in BOOLEAN
    BY <1>0, Typing DEF IInv, Talk
  <2>3. QED
    BY <1>3, <2>1, <2>2 DEF Quiet
<1>6. QED
  BY <1>1, <1>2, <1>4, <1>5

LEMMA NegotiateShape ==
  ASSUME IInv, NEW e \in Events, Claim(e) \/ OpenChat(e) \/ NegotiationTurn(e) \/ applyNewTime(e)
  PROVE  (talk' = talk /\ report' = report) \/ \E new \in Talk : Said(e, new)
<1> DEFINE Goal == (talk' = talk /\ report' = report) \/ \E new \in Talk : Said(e, new)
<1>0. e \in Talks /\ e # Morning /\ Morning \notin Events
  BY Names
<1>1. ASSUME talk[e].pc \in Quiet \ {"idle"}, Over(e) PROVE Goal
  BY <1>0, <1>1, Falls, OwesOne DEF Over, End
<1>2. ASSUME talk[e].pc \in Quiet \ {"idle"}, Finish(e) PROVE Goal
  <2>1. CASE Over(e)
    BY <1>1, <1>2, <2>1
  <2>2. ASSUME NEW s \in Times, row[e].state # "absent", report' = report,
               talk' = [talk EXCEPT ![e].pc = "write", ![e].event = e, ![e].copy = MovedTo(row[e], s)]
        PROVE  Goal
    BY <1>0, <1>2, <2>2, Writing
  <2>3. QED
    BY <1>2, <2>1, <2>2 DEF Finish
<1>3. CASE Claim(e)
  <2>1. CASE UNCHANGED <<talk, report>>
    BY <2>1
  <2>2. CASE At(e, "idle") /\ Go(e, "open") /\ Owe(e)
    <3>1. talk[e].pc = "idle"
      BY <2>2 DEF At
    <3>2. Settles(e, "open")
      BY <2>2, <3>1, OwesFirst
    <3>3. QED
      BY <1>0, <2>2, <3>1, <3>2, GoesOn DEF Go, Quiet
  <2>3. QED
    BY <1>3, <2>1, <2>2 DEF Claim
<1>4. CASE OpenChat(e)
  <2>1. talk[e].pc = "open"
    BY <1>4 DEF OpenChat, At
  <2>2. CASE Go(e, "register") /\ report' = report
    BY <1>0, <2>1, <2>2, GoesOn DEF Go, Quiet
  <2>3. QED
    BY <1>1, <1>2, <1>4, <2>1, <2>2 DEF OpenChat, Quiet
<1>5. CASE NegotiationTurn(e)
  <2>1. talk[e].pc = "turn"
    BY <1>5 DEF NegotiationTurn, At
  <2>2. CASE talk' = [talk EXCEPT ![e].pc = "register", ![e].turns = @ + 1] /\ report' = report
    <3> DEFINE new == [talk[e] EXCEPT !.pc = "register", !.turns = @ + 1]
    <3>1. talk[e] \in Talk /\ talk[e].heard = 0 /\ talk \in [Talks -> Talk]
      BY <1>0, <2>1, HeardNothing, Typing DEF IInv, Quiet
    <3>2. talk[e].turns + 1 \in Nat
      BY <3>1 DEF Talk
    <3>3. new \in Talk /\ new.pc = "register" /\ new.heard = 0
      BY <3>1, <3>2 DEF Talk, Pc
    <3>4. talk' = [talk EXCEPT ![e] = new]
      BY <1>0, <2>2, <3>1
    <3>5. Settles(e, "register")
      BY <2>1, <2>2, OwesOne
    <3> HIDE DEF new
    <3>6. Said(e, new)
      BY <1>0, <2>1, <3>3, <3>4, <3>5 DEF Said, Quiet
    <3>7. QED
      BY <3>3, <3>6
  <2>3. QED
    BY <1>1, <1>2, <1>5, <2>1, <2>2 DEF NegotiationTurn, Quiet
<1>6. CASE applyNewTime(e)
  BY <1>1, <1>6 DEF applyNewTime, At, Quiet
<1>7. QED
  BY <1>3, <1>4, <1>5, <1>6

LEMMA SpeakShape ==
  ASSUME IInv, NEW t \in Talks, Speaks(t)
  PROVE  (talk' = talk /\ report' = report) \/ \E new \in Talk : Said(t, new)
<1>1. CASE t = Morning /\ (Fire \/ runSession \/ MorningTurn \/ MorningMoves)
  BY <1>1, BriefShape
<1>2. CASE t \in Events /\ (Claim(t) \/ OpenChat(t) \/ NegotiationTurn(t) \/ applyNewTime(t))
  BY <1>2, NegotiateShape
<1>3. CASE Panic(t)
  <2>1. talk[t].pc \in {"open", "turn", "write"} /\ End(t)
    BY <1>3 DEF Panic
  <2>2. \/ t = Morning /\ report' = report
        \/ t \in Events /\ Settles(t, "idle")
    BY <1>3, Names DEF Panic, Settles
  <2>3. QED
    BY <2>1, <2>2, Falls DEF End, Quiet
<1>4. QED
  BY <1>1, <1>2, <1>3 DEF Speaks

\* A wait is over: the conversation answers, asks again or ends.
LEMMA HearShape ==
  ASSUME IInv, NEW t \in Talks, Hears(t)
  PROVE  /\ talk[t].pc = "leave" /\ Leave(t)
         /\ \E new \in Talk :
              /\ talk' = [talk EXCEPT ![t] = new]
              /\ new.pc \in {"idle", "register", "turn"} /\ new.heard = 0
              /\ \/ t = Morning /\ report' = report
                 \/ t \in Events /\ Settles(t, new.pc)
<1>0. talk[t] \in Talk /\ talk \in [Talks -> Talk] /\ Morning \notin Events
  BY Typing, Names DEF IInv
<1>s. Silent \in Talk /\ Silent.pc = "idle" /\ Silent.heard = 0
  BY SilentTyped DEF Silent
<1>1. CASE t = Morning /\ MorningHears
  <2> DEFINE m == talk[Morning]
             nudge == m.heard = 0 /\ ~m.up /\ m.nudges < MaxNudges
             goOn == m.heard # 0 /\ (~m.up \/ m.turns < MaxConv)
             asks == [m EXCEPT !.pc = "register", !.nudges = @ + 1]
             answers == [m EXCEPT !.pc = "turn", !.up = TRUE, !.heard = 0, !.nudges = 0]
             new == IF nudge THEN asks ELSE IF goOn THEN answers ELSE Silent
  <2>1. m \in Talk /\ m.nudges + 1 \in Nat
    BY <1>0, <1>1 DEF Talk
  <2>2. asks \in Talk /\ asks.pc = "register" /\ (nudge => asks.heard = 0)
    BY <2>1 DEF Talk, Pc
  <2>3. answers \in Talk /\ answers.pc = "turn" /\ answers.heard = 0
    BY <2>1 DEF Talk, Pc
  <2>4. talk' = [talk EXCEPT ![Morning] = new] /\ report' = report /\ Leave(Morning) /\ m.pc = "leave"
    BY <1>1 DEF MorningHears, At
  <2> HIDE DEF asks, answers, nudge, goOn
  <2>5. new \in Talk /\ new.pc \in {"idle", "register", "turn"} /\ new.heard = 0
    BY <1>s, <2>2, <2>3
  <2> HIDE DEF new
  <2>6. QED
    BY <1>1, <2>4, <2>5
<1>2. CASE t \in Events /\ NegotiationHears(t)
  <2> DEFINE answers == [talk[t] EXCEPT !.pc = "turn", !.heard = 0]
  <2>1. talk[t].pc = "leave" /\ Leave(t)
    BY <1>2 DEF NegotiationHears, At
  <2>2. CASE Over(t)
    <3>1. Settles(t, "idle") /\ talk' = [talk EXCEPT ![t] = Silent]
      BY <1>2, <2>1, <2>2, OwesOne DEF Over, End
    <3>2. QED
      BY <1>2, <1>s, <2>1, <3>1
  <2>3. CASE Answer(t) /\ report' = report
    <3>1. answers \in Talk /\ answers.pc = "turn" /\ answers.heard = 0
      BY <1>0 DEF Talk, Pc
    <3>2. talk' = [talk EXCEPT ![t] = answers]
      BY <1>0, <2>3 DEF Answer
    <3>3. Settles(t, "turn")
      BY <1>2, <2>1, <2>3, OwesOne
    <3> HIDE DEF answers
    <3>4. QED
      BY <1>2, <2>1, <3>1, <3>2, <3>3
  <2>4. QED
    BY <1>2, <2>2, <2>3 DEF NegotiationHears
<1>3. QED
  BY <1>1, <1>2 DEF Hears

LEMMA BriefRows ==
  ASSUME IInv, MorningTurn \/ MorningMoves
  PROVE  row' \in [Events -> Row]
<1>0. row \in [Events -> Row] /\ talk[Morning] \in Talk /\ Morning \in Talks
  BY Typing, Names DEF IInv
<1>1. CASE MorningTurn
  <2>1. ASSUME NEW e \in Events, NEW s \in Times \cup {0},
               row' = [row EXCEPT ![e] = [state |-> "active", start |-> s, next |-> s]]
        PROVE  row' \in [Events -> Row]
    BY <1>0, <2>1 DEF Row
  <2>2. ASSUME NEW e \in Events, row' = [row EXCEPT ![e].state = "cancelled", ![e].next = 0]
        PROVE  row' \in [Events -> Row]
    BY <1>0, <2>2 DEF Row
  <2>3. QED
    BY <1>0, <1>1, <2>1, <2>2 DEF MorningTurn, calendar
<1>2. CASE MorningMoves
  <2>1. talk[Morning].copy \in Row
    BY <1>0 DEF Talk
  <2>2. QED
    BY <1>0, <1>2, <2>1 DEF MorningMoves
<1>3. QED
  BY <1>1, <1>2

\* What else a conversation changes outside a wait.
LEMMA SpeakRest ==
  ASSUME IInv, NEW t \in Talks, Speaks(t)
  PROVE  /\ UNCHANGED <<waiting, box, router, msgs, since, first, shared, run>>
         /\ row' \in [Events -> Row] /\ starting' \in [Events -> Nat]
         /\ fires' \in Nat /\ starts' \in Nat /\ writes' \in Nat /\ crashes' \in Nat
<1> USE DEF calendar, routing, bounds, waits
<1>0. /\ row \in [Events -> Row] /\ starting \in [Events -> Nat]
      /\ fires \in Nat /\ starts \in Nat /\ writes \in Nat /\ crashes \in Nat
  BY Typing DEF IInv
<1>1. CASE Fire \/ runSession
  BY <1>0, <1>1 DEF Fire, runSession
<1>2. CASE MorningTurn
  <2>1. UNCHANGED <<waiting, box, router, msgs, since, first, shared, run, starting, fires, starts, writes, crashes>>
    BY <1>2 DEF MorningTurn
  <2>2. QED
    BY <1>0, <1>2, <2>1, BriefRows
<1>3. CASE MorningMoves
  <2>1. UNCHANGED <<waiting, box, router, msgs, since, first, shared, run, starting, fires, starts, writes, crashes>>
    BY <1>3 DEF MorningMoves
  <2>2. QED
    BY <1>0, <1>3, <2>1, BriefRows
<1>4. CASE t \in Events /\ Claim(t)
  BY <1>0, <1>4 DEF Claim
<1>5. CASE t \in Events /\ (OpenChat(t) \/ NegotiationTurn(t))
  BY <1>0, <1>5 DEF OpenChat, NegotiationTurn
<1>6. CASE t \in Events /\ applyNewTime(t)
  <2>1. talk[t].copy \in Row
    BY Typing DEF IInv, Talk
  <2>2. QED
    BY <1>0, <1>6, <2>1 DEF applyNewTime
<1>7. CASE Panic(t)
  BY <1>0, <1>7 DEF Panic
<1>8. QED
  BY <1>1, <1>2, <1>3, <1>4, <1>5, <1>6, <1>7 DEF Speaks

-----------------------------------------------------------------------------
(* Every step keeps the invariant. *)

LEMMA SpeakKeeps ==
  ASSUME IInv, NEW t \in Talks, Speaks(t)
  PROVE  IInv'
<1>1. /\ UNCHANGED <<waiting, box, router, msgs, since, first, shared, run>>
      /\ row' \in [Events -> Row] /\ starting' \in [Events -> Nat]
      /\ fires' \in Nat /\ starts' \in Nat /\ writes' \in Nat /\ crashes' \in Nat
  BY SpeakRest
<1>2. talk \in [Talks -> Talk] /\ msgs \in Nat
      /\ report \in [Events -> Fates]
  BY Typing DEF IInv
<1>3. CASE talk' = talk /\ report' = report
  BY <1>1, <1>3 DEF IInv, TypeOK, FirstReplyIsHeard, OnItsWay, Entered, Routed, ReportedOnce, At,
     AllAsked, Asked, Copies, Copied
<1>4. ASSUME NEW new \in Talk, Said(t, new) PROVE IInv'
  <2>1. /\ talk' = [talk EXCEPT ![t] = new] /\ talk' \in [Talks -> Talk]
        /\ talk'[t] = new /\ \A u \in Talks \ {t} : talk'[u] = talk[u]
        /\ talk[t].pc \in Quiet /\ new.pc \in Quiet
    BY <1>2, <1>4 DEF Said
  <2>2. /\ report' \in [Events -> Fates]
        /\ \A e \in Events \ {t} : report'[e] = report[e]
        /\ t \in Events => report'[t] # "double" /\ (report'[t] = "owed" <=> new.pc # "idle")
    BY <1>2, <1>4, Names DEF Said, Settles, Fates
  <2>3. TypeOK'
    BY <1>1, <2>1, <2>2 DEF IInv, TypeOK
  <2>4. FirstReplyIsHeard' /\ Entered' /\ Routed'
    <3>1. FirstReplyIsHeard'
      BY <1>1, <2>1 DEF IInv, FirstReplyIsHeard, OnItsWay, At, Quiet
    <3>2. Entered' /\ Routed'
      BY <1>1, <2>1 DEF IInv, Entered, Routed, Quiet, TypeOK, Loop
    <3>3. QED
      BY <3>1, <3>2
  <2>5. ReportedOnce'
    BY <2>1, <2>2, Names DEF IInv, ReportedOnce, At
  <2>6. AllAsked'
    <3>1. Asked(t)'
      <4>1. /\ Asked(t) /\ new.heard = 0
            /\ talk[t].pc # "wait" /\ new.pc # "wait"
        BY <1>4, <2>1 DEF IInv, AllAsked, Said, Quiet
      <4>2. QED
        BY <1>1, <2>1, <4>1 DEF Asked
    <3>2. ASSUME NEW u \in Talks \ {t} PROVE Asked(u)'
      BY <1>1, <2>1 DEF IInv, AllAsked, Asked
    <3>3. QED
      BY <1>1, <3>1, <3>2 DEF IInv, AllAsked
  <2>7. Copies'
    <3>1. Copied(t)'
      BY <1>4, <2>1 DEF Copied, Said
    <3>2. ASSUME NEW u \in Talks \ {t} PROVE Copied(u)'
      BY <2>1 DEF IInv, Copies, Copied
    <3>3. QED
      BY <1>1, <3>1, <3>2 DEF IInv, Copies
  <2>8. QED
    BY <2>3, <2>4, <2>5, <2>6, <2>7 DEF IInv
<1>5. QED
  BY <1>3, <1>4, SpeakShape

LEMMA HearKeeps ==
  ASSUME IInv, NEW t \in Talks, Hears(t)
  PROVE  IInv'
<1> USE DEF calendar, bounds, waits
<1>1. UNCHANGED <<row, run, starting, msgs, fires, starts, writes, crashes>>
  BY DEF Hears, MorningHears, NegotiationHears
<1>2. talk[t].pc = "leave" /\ Leave(t)
  BY HearShape
<1>3. PICK new \in Talk :
        /\ talk' = [talk EXCEPT ![t] = new]
        /\ new.pc \in {"idle", "register", "turn"} /\ new.heard = 0
        /\ \/ t = Morning /\ report' = report
           \/ t \in Events /\ Settles(t, new.pc)
  BY HearShape
<1>4. /\ talk \in [Talks -> Talk] /\ report \in [Events -> Fates] /\ msgs \in Nat
      /\ waiting \in [Chats -> Talks \cup {Nobody}] /\ box \in [Talks -> Nat] /\ since \in [Talks -> Nat]
      /\ router \in Loop
  BY DEF IInv, TypeOK
<1>5. /\ talk' \in [Talks -> Talk]
      /\ talk'[t] = new /\ \A u \in Talks \ {t} : talk'[u] = talk[u]
  BY <1>3, <1>4
<1>6. /\ report' \in [Events -> Fates]
      /\ \A e \in Events \ {t} : report'[e] = report[e]
      /\ t \in Events => report'[t] # "double" /\ (report'[t] = "owed" <=> new.pc # "idle")
  BY <1>3, <1>4, Names DEF Settles, Fates
<1>7. /\ waiting' \in [Chats -> Talks \cup {Nobody}] /\ waiting'[ChatOf(t)] = Nobody
      /\ \A c \in Chats \ {ChatOf(t)} : waiting'[c] = waiting[c]
      /\ box' \in [Talks -> Nat] /\ box'[t] = 0 /\ \A u \in Talks \ {t} : box'[u] = box[u]
      /\ since' \in [Talks -> Nat] /\ since'[t] = 0 /\ \A u \in Talks \ {t} : since'[u] = since[u]
      /\ first' = first
  BY <1>2, <1>4, Names DEF Leave, Forget
<1>s. /\ shared' \in [Talks -> BOOLEAN]
      /\ \A u \in Talks : shared'[u] = (shared[u] \/ u \in Others(t))
  BY <1>2, <1>4 DEF Leave, Forget
<1>8. /\ router' \in Loop /\ router'.at = router.at /\ router'.to = router.to
      /\ router'.chat = router.chat /\ (router.to = t => router'.dead)
      /\ router.to # t => router'.dead = router.dead
  BY <1>2, <1>4 DEF Leave, Loop
<1>9. TypeOK'
  BY <1>1, <1>4, <1>5, <1>6, <1>7, <1>s, <1>8 DEF IInv, TypeOK
<1>10. FirstReplyIsHeard' /\ Entered' /\ Routed'
  <2>1. Entered'
    <3> SUFFICES ASSUME NEW c \in Chats, waiting'[c] # Nobody
                 PROVE  ChatOf(waiting'[c]) = c /\ talk'[waiting'[c]].pc \in {"wait", "leave"}
      BY DEF Entered
    <3>1. c # ChatOf(t) /\ waiting'[c] = waiting[c]
      BY <1>7
    <3>2. waiting[c] # t /\ ChatOf(waiting[c]) = c /\ talk[waiting[c]].pc \in {"wait", "leave"}
      BY <3>1 DEF IInv, Entered
    <3>3. QED
      BY <1>4, <1>5, <3>1, <3>2
  <2>2. Routed'
    BY <1>4, <1>5, <1>8, Names DEF IInv, Routed, Loop
  <2>3. FirstReplyIsHeard'
    <3> SUFFICES ASSUME NEW u \in Talks, talk'[u].pc = "wait", ~shared'[u]
                 PROVE  /\ waiting'[ChatOf(u)] = u
                        /\ first'[u] # 0 => \/ box'[u] # 0 /\ box'[u] <= first'[u]
                                            \/ first'[u] = msgs' /\ OnItsWay(u)'
      BY DEF FirstReplyIsHeard, At
    <3>1. u # t /\ talk[u].pc = "wait" /\ ~shared[u] /\ ChatOf(u) # ChatOf(t)
      BY <1>3, <1>5, <1>s DEF Others, At
    <3>2. ChatOf(u) \in Chats
      BY Names
    <3>3. /\ waiting[ChatOf(u)] = u
          /\ first[u] # 0 => \/ box[u] # 0 /\ box[u] <= first[u]
                             \/ first[u] = msgs /\ OnItsWay(u)
      BY <3>1 DEF IInv, FirstReplyIsHeard, At
    <3>4. OnItsWay(u) => OnItsWay(u)'
      BY <1>8, <3>1 DEF OnItsWay
    <3>5. QED
      BY <1>1, <1>7, <3>1, <3>2, <3>3, <3>4
  <2>4. QED
    BY <2>1, <2>2, <2>3
<1>11. ReportedOnce'
  BY <1>2, <1>5, <1>6, Names DEF IInv, ReportedOnce, At
<1>12. AllAsked'
  <2>1. Asked(t)'
    BY <1>1, <1>2, <1>3, <1>4, <1>5, <1>7 DEF IInv, AllAsked, Asked, Quiet
  <2>2. ASSUME NEW u \in Talks \ {t} PROVE Asked(u)'
    BY <1>1, <1>5, <1>7, <1>8 DEF IInv, AllAsked, Asked
  <2>3. QED
    BY <1>1, <1>8, <2>1, <2>2 DEF IInv, AllAsked
<1>13. Copies'
  BY <1>1, <1>3, <1>5 DEF IInv, Copies, Copied
<1>14. QED
  BY <1>9, <1>10, <1>11, <1>12, <1>13 DEF IInv

LEMMA WaitKeeps ==
  ASSUME IInv, NEW t \in Talks, waitReply(t) \/ Wake(t)
  PROVE  IInv'
<1> USE DEF calendar, routing, bounds
<1>1. UNCHANGED <<row, run, box, starting, router, msgs, fires, starts, writes, crashes, report>>
  BY DEF waitReply, Wake
<1>2. /\ talk \in [Talks -> Talk] /\ talk[t] \in Talk /\ msgs \in Nat
      /\ waiting \in [Chats -> Talks \cup {Nobody}] /\ box \in [Talks -> Nat]
      /\ since \in [Talks -> Nat] /\ first \in [Talks -> Nat] /\ shared \in [Talks -> BOOLEAN]
      /\ router \in Loop /\ ChatOf(t) \in Chats
  BY Names DEF IInv, TypeOK
\* The conversation waits now ...
<1>3. CASE waitReply(t)
  <2> DEFINE new == [talk[t] EXCEPT !.pc = "wait"]
  <2>1. new \in Talk /\ new.pc = "wait" /\ new.heard = talk[t].heard /\ talk[t].pc = "register"
    BY <1>2, <1>3 DEF Talk, Pc, waitReply, At
  <2>2. talk' = [talk EXCEPT ![t] = new]
    BY <1>2, <1>3 DEF waitReply, Go
  <2> HIDE DEF new
  <2>3. /\ talk' \in [Talks -> Talk]
        /\ talk'[t] = new /\ \A u \in Talks \ {t} : talk'[u] = talk[u]
    BY <1>2, <2>1, <2>2
  <2>4. /\ waiting' \in [Chats -> Talks \cup {Nobody}] /\ waiting'[ChatOf(t)] = t
        /\ \A c \in Chats \ {ChatOf(t)} : waiting'[c] = waiting[c]
        /\ first' = first
        /\ shared' \in [Talks -> BOOLEAN]
        /\ \A u \in Talks : shared'[u] = (shared[u] \/ u \in Others(t))
    BY <1>2, <1>3 DEF waitReply
  <2>5. router.at # "idle" => msgs - 1 \in Nat /\ msgs - 1 < msgs
    BY <1>2 DEF IInv, AllAsked
  <2>6. /\ since' \in [Talks -> Nat]
        /\ since'[t] = IF router.at = "idle" THEN msgs ELSE msgs - 1
        /\ \A u \in Talks \ {t} : since'[u] = since[u]
    BY <1>2, <1>3, <2>5 DEF waitReply
  <2>7. talk[t].heard = 0 /\ box[t] = 0 /\ first[t] = 0
    BY <2>1, HeardNothing DEF IInv, AllAsked, Asked, Quiet
  <2>8. TypeOK'
    BY <1>1, <1>2, <2>3, <2>4, <2>6 DEF IInv, TypeOK
  <2>9. FirstReplyIsHeard'
    <3> SUFFICES ASSUME NEW u \in Talks, talk'[u].pc = "wait", ~shared'[u]
                 PROVE  /\ waiting'[ChatOf(u)] = u
                        /\ first'[u] # 0 => \/ box'[u] # 0 /\ box'[u] <= first'[u]
                                            \/ first'[u] = msgs' /\ OnItsWay(u)'
      BY DEF FirstReplyIsHeard, At
    <3>1. CASE u = t
      BY <2>4, <2>7, <3>1
    <3>2. CASE u # t
      <4>1. talk[u].pc = "wait" /\ ~shared[u] /\ ChatOf(u) # ChatOf(t) /\ ChatOf(u) \in Chats
        BY <2>3, <2>4, <3>2, Names DEF Others, At
      <4>2. /\ waiting[ChatOf(u)] = u
            /\ first[u] # 0 => \/ box[u] # 0 /\ box[u] <= first[u]
                               \/ first[u] = msgs /\ OnItsWay(u)
        BY <4>1 DEF IInv, FirstReplyIsHeard, At
      <4>3. OnItsWay(u) => OnItsWay(u)'
        BY <1>1 DEF OnItsWay
      <4>4. QED
        BY <1>1, <2>4, <4>1, <4>2, <4>3
    <3>3. QED
      BY <3>1, <3>2
  <2>10. Entered' /\ Routed'
    <3>1. Entered'
      BY <1>2, <2>1, <2>3, <2>4 DEF IInv, Entered
    <3>2. Routed'
      BY <1>1, <1>2, <2>1, <2>3 DEF IInv, Routed, Loop
    <3>3. QED
      BY <3>1, <3>2
  <2>11. ReportedOnce'
    BY <1>1, <2>1, <2>3, Names DEF IInv, ReportedOnce, At
  <2>12. AllAsked'
    <3>1. Asked(t)'
      BY <1>1, <1>2, <2>1, <2>3, <2>4, <2>5, <2>6, <2>7 DEF Asked, Quiet
    <3>2. ASSUME NEW u \in Talks \ {t} PROVE Asked(u)'
      BY <1>1, <2>3, <2>4, <2>6 DEF IInv, AllAsked, Asked
    <3>3. QED
      BY <1>1, <3>1, <3>2 DEF IInv, AllAsked
  <2>13. Copies'
    BY <1>1, <2>1, <2>3 DEF IInv, Copies, Copied
  <2>14. QED
    BY <2>8, <2>9, <2>10, <2>11, <2>12, <2>13 DEF IInv
\* ... or its wait is over.
<1>4. CASE Wake(t)
  <2> DEFINE took == [talk[t] EXCEPT !.pc = "leave", !.heard = box[t]]
             left == [talk[t] EXCEPT !.pc = "leave"]
  <2>1. /\ took \in Talk /\ took.pc = "leave" /\ took.heard = box[t]
        /\ left \in Talk /\ left.pc = "leave" /\ left.heard = talk[t].heard
        /\ talk[t].pc = "wait" /\ box[t] \in Nat
    BY <1>2, <1>4 DEF Talk, Pc, Wake, At
  <2>2. \/ box[t] # 0 /\ talk' = [talk EXCEPT ![t] = took] /\ since' = since
        \/ talk' = [talk EXCEPT ![t] = left] /\ since' = [since EXCEPT ![t] = 0]
    BY <1>2, <1>4 DEF Wake, Go
  <2>3. talk[t].heard = 0 /\ (box[t] # 0 => box[t] > since[t]) /\ box[t] <= msgs
    BY <2>1 DEF IInv, AllAsked, Asked
  <2> HIDE DEF took, left
  <2>4. PICK new \in {took, left} :
          /\ talk' = [talk EXCEPT ![t] = new] /\ new.pc = "leave" /\ new \in Talk
          /\ since' \in [Talks -> Nat] /\ since'[t] \in {since[t], 0}
          /\ new.heard # 0 => new.heard = box[t] /\ since'[t] = since[t]
          /\ \A u \in Talks \ {t} : since'[u] = since[u]
    <3>1. CASE box[t] # 0 /\ talk' = [talk EXCEPT ![t] = took] /\ since' = since
      BY <1>2, <2>1, <3>1
    <3>2. CASE talk' = [talk EXCEPT ![t] = left] /\ since' = [since EXCEPT ![t] = 0]
      BY <1>2, <2>1, <2>3, <3>2
    <3>3. QED
      BY <2>2, <3>1, <3>2
  <2>5. /\ talk' \in [Talks -> Talk]
        /\ talk'[t] = new /\ \A u \in Talks \ {t} : talk'[u] = talk[u]
    BY <1>2, <2>4
  <2>6. /\ waiting' = waiting
        /\ first' \in [Talks -> Nat] /\ first'[t] = 0 /\ \A u \in Talks \ {t} : first'[u] = first[u]
        /\ shared' \in [Talks -> BOOLEAN] /\ \A u \in Talks \ {t} : shared'[u] = shared[u]
    BY <1>2, <1>4 DEF Wake
  <2>7. TypeOK'
    BY <1>1, <2>4, <2>5, <2>6 DEF IInv, TypeOK
  <2>8. FirstReplyIsHeard'
    <3> SUFFICES ASSUME NEW u \in Talks, talk'[u].pc = "wait", ~shared'[u]
                 PROVE  /\ waiting'[ChatOf(u)] = u
                        /\ first'[u] # 0 => \/ box'[u] # 0 /\ box'[u] <= first'[u]
                                            \/ first'[u] = msgs' /\ OnItsWay(u)'
      BY DEF FirstReplyIsHeard, At
    <3>1. u # t /\ talk[u].pc = "wait" /\ ~shared[u]
      BY <2>4, <2>5, <2>6
    <3>2. /\ waiting[ChatOf(u)] = u
          /\ first[u] # 0 => \/ box[u] # 0 /\ box[u] <= first[u]
                             \/ first[u] = msgs /\ OnItsWay(u)
      BY <3>1 DEF IInv, FirstReplyIsHeard, At
    <3>3. OnItsWay(u) => OnItsWay(u)'
      BY <1>1 DEF OnItsWay
    <3>4. QED
      BY <1>1, <2>6, <3>1, <3>2, <3>3
  <2>9. Entered' /\ Routed'
    <3>1. Entered'
      BY <1>2, <2>4, <2>5, <2>6 DEF IInv, Entered
    <3>2. Routed'
      BY <1>1, <1>2, <2>4, <2>5 DEF IInv, Routed, Loop
    <3>3. QED
      BY <3>1, <3>2
  <2>10. ReportedOnce'
    BY <1>1, <2>1, <2>4, <2>5, Names DEF IInv, ReportedOnce, At
  <2>11. AllAsked'
    <3>1. Asked(t)
      BY DEF IInv, AllAsked
    <3>2. Asked(t)'
      BY <1>1, <1>2, <2>1, <2>3, <2>4, <2>5, <2>6, <3>1 DEF Asked, Quiet
    <3>3. ASSUME NEW u \in Talks \ {t} PROVE Asked(u)'
      BY <1>1, <2>4, <2>5, <2>6 DEF IInv, AllAsked, Asked
    <3>4. QED
      BY <1>1, <3>2, <3>3 DEF IInv, AllAsked
  <2>12. Copies'
    BY <1>1, <2>4, <2>5 DEF IInv, Copies, Copied
  <2>13. QED
    BY <2>7, <2>8, <2>9, <2>10, <2>11, <2>12 DEF IInv
<1>5. QED
  BY <1>3, <1>4

LEMMA ArriveKeeps ==
  ASSUME IInv, NEW c \in Chats, Arrive(c)
  PROVE  IInv'
<1> USE DEF calendar, bounds
<1>1. /\ UNCHANGED <<row, run, talk, waiting, box, starting, fires, starts, writes, crashes>>
      /\ UNCHANGED <<since, shared, report>>
      /\ router.at = "idle" /\ msgs' = msgs + 1
      /\ router' = [Free EXCEPT !.at = "owns", !.chat = c]
  BY DEF Arrive
<1>2. /\ msgs \in Nat /\ since \in [Talks -> Nat] /\ first \in [Talks -> Nat] /\ box \in [Talks -> Nat]
      /\ \A t \in Talks : ChatOf(t) \in Chats
  BY Names DEF IInv, TypeOK
<1>3. /\ router' \in Loop /\ router'.at = "owns" /\ router'.to = Nobody /\ router'.chat = c
      /\ router'.dead = FALSE
  BY <1>1 DEF Free, Loop
<1>4. /\ first' \in [Talks -> Nat]
      /\ \A t \in Talks : \/ first'[t] = first[t]
                          \/ talk[t].pc = "wait" /\ ChatOf(t) = c /\ first'[t] = msgs'
      /\ \A t \in Talks : first[t] # 0 => first'[t] = first[t]
  BY <1>1, <1>2 DEF Arrive, At
<1>5. TypeOK'
  BY <1>1, <1>2, <1>3, <1>4 DEF IInv, TypeOK
<1>6. Entered' /\ Routed' /\ ReportedOnce' /\ Copies'
  BY <1>1, <1>3 DEF IInv, Entered, Routed, ReportedOnce, At, Copies, Copied
<1>7. FirstReplyIsHeard'
  <2> SUFFICES ASSUME NEW t \in Talks, talk[t].pc = "wait", ~shared[t]
               PROVE  /\ waiting[ChatOf(t)] = t
                      /\ first'[t] # 0 => \/ box[t] # 0 /\ box[t] <= first'[t]
                                          \/ first'[t] = msgs' /\ OnItsWay(t)'
    BY <1>1 DEF FirstReplyIsHeard, At
  <2>1. /\ waiting[ChatOf(t)] = t
        /\ first[t] # 0 => box[t] # 0 /\ box[t] <= first[t]
    BY <1>1 DEF IInv, FirstReplyIsHeard, At, OnItsWay
  <2>2. CASE first'[t] = first[t]
    BY <2>1, <2>2
  <2>3. CASE ChatOf(t) = c /\ first'[t] = msgs'
    BY <1>3, <2>1, <2>3 DEF OnItsWay
  <2>4. QED
    BY <1>4, <2>2, <2>3
<1>8. AllAsked'
  <2>1. ASSUME NEW t \in Talks PROVE Asked(t)'
    <3>1. Asked(t)
      BY DEF IInv, AllAsked
    <3>2. since[t] \in Nat /\ box[t] \in Nat /\ first[t] \in Nat
      BY <1>2
    <3>3. QED
      BY <1>1, <1>2, <1>3, <1>4, <3>1, <3>2 DEF Asked
  <2>2. QED
    BY <1>1, <1>2, <2>1 DEF AllAsked
<1>9. QED
  BY <1>5, <1>6, <1>7, <1>8 DEF IInv

LEMMA RouteKeeps ==
  ASSUME IInv, Route
  PROVE  IInv'
<1> USE DEF calendar, bounds, waits
<1>1. /\ UNCHANGED <<row, run, talk, waiting, starting, msgs, fires, starts, writes, crashes>>
      /\ UNCHANGED <<since, first, shared, report>>
      /\ router.at # "idle"
  BY DEF Route, Owns, feed, Send
<1>2. /\ waiting \in [Chats -> Talks \cup {Nobody}] /\ box \in [Talks -> Nat] /\ since \in [Talks -> Nat]
      /\ first \in [Talks -> Nat] /\ router \in Loop /\ msgs \in Nat
      /\ \A t \in Talks : ChatOf(t) \in Chats
  BY Names DEF IInv, TypeOK
<1>3. Free \in Loop /\ Free.to = Nobody /\ Free.at = "idle" /\ Free.dead = FALSE
  BY Names DEF Free, Loop
<1>4. ReportedOnce' /\ Copies'
  BY <1>1 DEF IInv, ReportedOnce, At, Copies, Copied
<1>5. Entered'
  BY <1>1 DEF IInv, Entered
\* The look-ups: what is on its way to a conversation that waits stays on it.
<1>6. CASE Owns \/ feed
  <2>1. box' = box
    BY <1>6 DEF Owns, feed
  <2>2. router.chat \in Chats /\ router.at \in {"owns", "feed"} /\ ~router.dead
    BY <1>2, <1>6 DEF Owns, feed, Loop, IInv, Routed
  <2>3. /\ router' \in Loop
        /\ \/ router' = Free /\ waiting[router.chat] = Nobody
           \/ /\ waiting[router.chat] # Nobody /\ router'.chat = router.chat /\ ~router'.dead
              /\ \/ router'.at = "feed" /\ router'.to = router.to
                 \/ router'.at = "send" /\ router'.to = waiting[router.chat]
    BY <1>2, <1>3, <1>6, <2>2 DEF Owns, feed, Loop
  <2>4. router.to = Nobody
    BY <2>2 DEF IInv, Routed
  <2>5. TypeOK'
    BY <1>1, <2>1, <2>3 DEF IInv, TypeOK
  <2>6. Routed'
    BY <1>1, <1>2, <1>3, <2>2, <2>3, <2>4 DEF IInv, Routed, Entered
  <2>7. FirstReplyIsHeard'
    <3> SUFFICES ASSUME NEW t \in Talks, talk[t].pc = "wait", ~shared[t]
                 PROVE  /\ waiting[ChatOf(t)] = t
                        /\ first[t] # 0 => \/ box[t] # 0 /\ box[t] <= first[t]
                                           \/ first[t] = msgs /\ OnItsWay(t)'
      BY <1>1, <2>1 DEF FirstReplyIsHeard, At
    <3>1. /\ waiting[ChatOf(t)] = t
          /\ first[t] # 0 => \/ box[t] # 0 /\ box[t] <= first[t]
                             \/ first[t] = msgs /\ OnItsWay(t)
      BY DEF IInv, FirstReplyIsHeard, At
    <3>2. t # Nobody
      BY Names
    <3>3. OnItsWay(t) => OnItsWay(t)'
      BY <2>3, <3>1, <3>2 DEF OnItsWay
    <3>4. QED
      BY <3>1, <3>3
  <2>8. AllAsked'
    BY <1>1, <2>1 DEF IInv, AllAsked, Asked
  <2>9. QED
    BY <1>4, <1>5, <2>5, <2>6, <2>7, <2>8 DEF IInv
\* The send: a full channel keeps what it has, a dead one nothing.
<1>7. CASE Send
  <2>1. router' = Free /\ router.at = "send"
    BY <1>7 DEF Send
  <2>2. /\ router.to \in Talks
        /\ ~router.dead => talk[router.to].pc \in {"wait", "leave"}
    BY <1>2, <2>1 DEF IInv, Routed, Loop
  <2>3. /\ box' \in [Talks -> Nat]
        /\ \A u \in Talks :
             \/ box'[u] = box[u] /\ (u = router.to => router.dead \/ box[u] # 0)
             \/ u = router.to /\ box'[u] = msgs /\ box[u] = 0 /\ talk[u].pc \in {"wait", "leave"}
    BY <1>2, <1>7, <2>2 DEF Send
  <2>4. TypeOK'
    BY <1>1, <1>3, <2>1, <2>3 DEF IInv, TypeOK
  <2>5. Routed'
    BY <1>3, <2>1 DEF Routed
  <2>6. ASSUME NEW u \in Talks PROVE Asked(u)'
    <3>1. Asked(u)
      BY DEF IInv, AllAsked
    <3>2. talk[u].pc \in {"wait", "leave"} => talk[u].pc \notin Quiet
      BY DEF Quiet
    <3>3. since[u] \in Nat /\ box[u] \in Nat
      BY <1>2
    <3>4. CASE box'[u] = box[u]
      BY <1>1, <1>3, <2>1, <3>1, <3>4 DEF Asked
    <3>5. CASE box'[u] = msgs /\ talk[u].pc \in {"wait", "leave"}
      <4>1. since[u] < msgs
        BY <1>1, <3>1, <3>2, <3>5 DEF Asked
      <4>2. QED
        BY <1>1, <1>2, <1>3, <2>1, <3>1, <3>2, <3>3, <3>5, <4>1 DEF Asked
    <3>6. QED
      BY <2>3, <3>4, <3>5
  <2>7. AllAsked'
    BY <1>3, <2>1, <2>6 DEF AllAsked
  <2>8. FirstReplyIsHeard'
    <3> SUFFICES ASSUME NEW t \in Talks, talk[t].pc = "wait", ~shared[t]
                 PROVE  /\ waiting[ChatOf(t)] = t
                        /\ first[t] # 0 => box'[t] # 0 /\ box'[t] <= first[t]
      BY <1>1 DEF FirstReplyIsHeard, At
    <3>1. /\ waiting[ChatOf(t)] = t
          /\ first[t] # 0 => \/ box[t] # 0 /\ box[t] <= first[t]
                             \/ first[t] = msgs /\ router.to = t /\ ~router.dead
      BY <2>1 DEF IInv, FirstReplyIsHeard, At, OnItsWay
    <3>2. box[t] <= msgs /\ box[t] \in Nat
      BY <1>2 DEF IInv, AllAsked, Asked
    <3>3. QED
      BY <1>2, <2>3, <3>1, <3>2
  <2>9. QED
    BY <1>4, <1>5, <2>4, <2>5, <2>7, <2>8 DEF IInv
<1>8. QED
  BY <1>6, <1>7 DEF Route

LEMMA AroundKeeps ==
  ASSUME IInv, Around
  PROVE  IInv'
<1> USE DEF calendar, routing, bounds, waits
<1>0. /\ row \in [Events -> Row] /\ run \in [Events -> Row] /\ starting \in [Events -> Nat]
      /\ writes \in Nat /\ starts \in Nat
  BY Typing DEF IInv
<1>1. UNCHANGED <<talk, waiting, box, router, msgs, fires, crashes, since, first, shared, report>>
  BY DEF Around, Start, Cancel, RunBegins, RunEnds
<1>2. /\ row' \in [Events -> Row] /\ run' \in [Events -> Row] /\ starting' \in [Events -> Nat]
      /\ starts' \in Nat /\ writes' \in Nat
      /\ \A e \in Events : run'[e] = run[e] \/ run'[e] = Absent \/ run'[e].state = "active"
  <2>1. PICK e \in Events : Start(e) \/ Cancel(e) \/ RunBegins(e) \/ RunEnds(e)
    BY DEF Around
  <2>2. CASE Start(e)
    BY <1>0, <2>2 DEF Start
  <2>3. CASE Cancel(e)
    <3>1. [row[e] EXCEPT !.state = "cancelled", !.next = 0] \in Row
      BY <1>0 DEF Row
    <3>2. QED
      BY <1>0, <2>3, <3>1 DEF Cancel
  <2>4. CASE RunBegins(e)
    BY <1>0, <2>4 DEF RunBegins
  <2>5. CASE RunEnds(e)
    <3>1. /\ \A s \in {"done", "cancelled"} : [run[e] EXCEPT !.state = s, !.next = 0] \in Row
          /\ \A n \in Times : [run[e] EXCEPT !.next = n] \in Row
      BY <1>0 DEF Row
    <3>2. row' \in [Events -> Row]
      BY <1>0, <2>5, <3>1 DEF RunEnds
    <3>3. QED
      BY <1>0, <2>5, <3>2, SilentTyped DEF RunEnds
  <2>6. QED
    BY <2>1, <2>2, <2>3, <2>4, <2>5
<1>3. TypeOK'
  BY <1>1, <1>2 DEF IInv, TypeOK
<1>4. FirstReplyIsHeard' /\ Entered' /\ Routed' /\ ReportedOnce' /\ AllAsked'
  BY <1>1 DEF IInv, FirstReplyIsHeard, OnItsWay, Entered, Routed, ReportedOnce, At, AllAsked, Asked
<1>5. Copies'
  BY <1>1, <1>2 DEF IInv, Copies, Copied
<1>6. QED
  BY <1>3, <1>4, <1>5 DEF IInv

LEMMA CrashKeeps ==
  ASSUME IInv, Crash
  PROVE  IInv'
<1>1. /\ talk' = [t \in Talks |-> Silent] /\ waiting' = [c \in Chats |-> Nobody]
      /\ box' = [t \in Talks |-> 0] /\ starting' = [e \in Events |-> 0]
      /\ router' = Free /\ run' = [e \in Events |-> Absent]
      /\ report' = [e \in Events |-> "none"] /\ since' = [t \in Talks |-> 0]
      /\ first' = [t \in Talks |-> 0] /\ shared' = [t \in Talks |-> FALSE]
      /\ crashes' = crashes + 1 /\ UNCHANGED <<row, msgs, fires, starts, writes>>
  BY DEF Crash
<1>2. /\ Free \in Loop
      /\ Free.to = Nobody /\ Free.at = "idle" /\ Free.dead = FALSE
  BY Names DEF Free, Loop
<1>3. /\ Silent \in Talk /\ Absent \in Row
      /\ Silent.pc = "idle" /\ Silent.heard = 0
  BY SilentTyped DEF Silent
<1>4. TypeOK'
  BY <1>1, <1>2, <1>3 DEF IInv, TypeOK, Fates
<1>5. /\ FirstReplyIsHeard' /\ Entered' /\ Routed'
      /\ ReportedOnce' /\ Copies'
  BY <1>1, <1>2, <1>3, Names DEF FirstReplyIsHeard, Entered, Routed, ReportedOnce, At, Copies, Copied
<1>6. AllAsked'
  <2>1. msgs \in Nat
    BY DEF IInv, TypeOK
  <2>2. QED
    BY <1>1, <1>2, <1>3, <2>1 DEF AllAsked, Asked, Quiet
<1>7. QED
  BY <1>4, <1>5, <1>6 DEF IInv

LEMMA InitInv == Init => IInv
<1> SUFFICES ASSUME Init PROVE IInv
  OBVIOUS
<1>1. /\ row \in [Events -> Row]
      /\ talk = [t \in Talks |-> Silent] /\ waiting = [c \in Chats |-> Nobody]
      /\ box = [t \in Talks |-> 0] /\ starting = [e \in Events |-> 0]
      /\ router = Free /\ run = [e \in Events |-> Absent]
      /\ report = [e \in Events |-> "none"] /\ since = [t \in Talks |-> 0]
      /\ first = [t \in Talks |-> 0] /\ shared = [t \in Talks |-> FALSE]
      /\ msgs = 0 /\ fires = 0 /\ starts = 0 /\ writes = 0 /\ crashes = 0
  BY DEF Init
<1>2. /\ Free \in Loop
      /\ Free.to = Nobody /\ Free.at = "idle" /\ Free.dead = FALSE
  BY Names DEF Free, Loop
<1>3. /\ Silent \in Talk /\ Absent \in Row
      /\ Silent.pc = "idle" /\ Silent.heard = 0
  BY SilentTyped DEF Silent
<1>4. TypeOK
  BY <1>1, <1>2, <1>3 DEF TypeOK, Fates
<1>5. /\ FirstReplyIsHeard /\ Entered /\ Routed
      /\ ReportedOnce /\ Copies
  BY <1>1, <1>2, <1>3, Names DEF FirstReplyIsHeard, Entered, Routed, ReportedOnce, At, Copies, Copied
<1>6. AllAsked
  BY <1>1, <1>2, <1>3 DEF AllAsked, Asked, Quiet
<1>7. QED
  BY <1>4, <1>5, <1>6 DEF IInv

\* Every step is one of a conversation, of the loop, of the calendar's others or a restart.
LEMMA Steps ==
  ASSUME Next
  PROVE  \/ \E t \in Talks : Speaks(t) \/ Hears(t) \/ waitReply(t) \/ Wake(t)
         \/ \E c \in Chats : Arrive(c)
         \/ Route \/ Around \/ Crash
<1>1. CASE Fire
  BY <1>1, Names DEF Speaks
<1>2. ASSUME NEW e \in Events, Start(e) \/ Claim(e) \/ Cancel(e) \/ RunBegins(e) \/ RunEnds(e)
      PROVE  (\E t \in Talks : Speaks(t)) \/ Around
  BY <1>2, Names DEF Speaks, Around
<1>3. ASSUME NEW t \in Talks, Converse(t) \/ Panic(t)
      PROVE  Speaks(t) \/ Hears(t) \/ waitReply(t) \/ Wake(t)
  BY <1>3 DEF Converse, Brief, Negotiate, Speaks, Hears
<1>4. QED
  BY <1>1, <1>2, <1>3 DEF Next

LEMMA StepInv == IInv /\ [Next]_vars => IInv'
<1> SUFFICES ASSUME IInv, [Next]_vars PROVE IInv'
  OBVIOUS
<1>1. CASE Next
  BY <1>1, Steps, SpeakKeeps, HearKeeps, WaitKeeps, ArriveKeeps, RouteKeeps, AroundKeeps, CrashKeeps
<1>2. CASE UNCHANGED vars
  BY <1>2 DEF vars, calendar, routing, bounds, IInv, TypeOK, FirstReplyIsHeard, OnItsWay, Entered,
     Routed, ReportedOnce, At, AllAsked, Asked, Copies, Copied
<1>3. QED
  BY <1>1, <1>2

-----------------------------------------------------------------------------
(* A cancelled row. *)

Revival(e) ==
  row[e].state = "cancelled" /\ row'[e].state # "cancelled"
    => \/ run[e].state = "active"
       \/ \E t \in Talks : talk[t].pc = "write" /\ talk[t].event = e
                           /\ talk[t].copy.state \in {"active", "done"}

\* A conversation revives an event only with a copy it read before the cancellation.
LEMMA TalkRevives ==
  ASSUME IInv, NEW t \in Talks, NEW e \in Events,
         talk[t].pc = "write", row' = [row EXCEPT ![talk[t].event] = talk[t].copy]
  PROVE  Revival(e)
<1>1. row \in [Events -> Row] /\ talk[t].copy \in Row
  BY Typing DEF IInv, Talk
<1>2. talk[t].copy.state # "absent"
  BY DEF IInv, Copies, Copied
<1>3. talk[t].copy.state \in {"active", "done", "cancelled"}
  BY <1>1, <1>2 DEF Row
<1>4. CASE e = talk[t].event
  <2>1. row'[e] = talk[t].copy
    BY <1>1, <1>4
  <2>2. QED
    BY <1>3, <1>4, <2>1 DEF Revival
<1>5. CASE e # talk[t].event
  BY <1>1, <1>5 DEF Revival
<1>6. QED
  BY <1>4, <1>5

LEMMA StepRevives ==
  ASSUME IInv, Next, NEW e \in Events
  PROVE  Revival(e)
<1> USE DEF calendar
<1>0. row \in [Events -> Row] /\ run \in [Events -> Row]
  BY Typing DEF IInv
<1>1. ASSUME row' = row PROVE Revival(e)
  BY <1>1 DEF Revival
<1>2. ASSUME NEW d \in Events, row' = [row EXCEPT ![d].state = "cancelled", ![d].next = 0]
      PROVE  Revival(e)
  BY <1>0, <1>2 DEF Revival, Row
<1>3. CASE \E c \in Chats : Arrive(c)
  BY <1>1, <1>3 DEF Arrive
<1>4. CASE Route \/ Crash
  BY <1>1, <1>4 DEF Route, Owns, feed, Send, Crash
<1>5. CASE Around
  <2>1. PICK d \in Events : Start(d) \/ Cancel(d) \/ RunBegins(d) \/ RunEnds(d)
    BY <1>5 DEF Around
  <2>2. CASE Start(d) \/ RunBegins(d)
    BY <1>1, <2>2 DEF Start, RunBegins
  <2>3. CASE Cancel(d)
    BY <1>2, <2>3 DEF Cancel
  <2>4. CASE RunEnds(d)
    <3>1. run[d].state = "active"
      BY <2>4 DEF RunEnds, IInv, Copies
    <3>2. \A c \in Events \ {d} : row'[c] = row[c]
      BY <1>0, <2>4 DEF RunEnds
    <3>3. QED
      BY <3>1, <3>2 DEF Revival
  <2>5. QED
    BY <2>1, <2>2, <2>3, <2>4
<1>6. ASSUME NEW t \in Talks, Hears(t) \/ waitReply(t) \/ Wake(t) PROVE Revival(e)
  BY <1>1, <1>6 DEF Hears, MorningHears, NegotiationHears, waitReply, Wake
<1>7. ASSUME NEW t \in Talks, Speaks(t) PROVE Revival(e)
  <2>1. CASE Fire \/ runSession \/ Panic(t)
    BY <1>1, <2>1 DEF Fire, runSession, Panic
  <2>2. CASE t \in Events /\ (Claim(t) \/ OpenChat(t) \/ NegotiationTurn(t))
    BY <1>1, <2>2 DEF Claim, OpenChat, NegotiationTurn
  <2>3. CASE MorningTurn
    <3>1. ASSUME NEW d \in Events, NEW s \in Times \cup {0}, row[d].state = "absent",
                 row' = [row EXCEPT ![d] = [state |-> "active", start |-> s, next |-> s]]
          PROVE  Revival(e)
      <4>1. CASE d = e
        BY <3>1, <4>1 DEF Revival
      <4>2. CASE d # e
        BY <1>0, <3>1, <4>2 DEF Revival
      <4>3. QED
        BY <4>1, <4>2
    <3>2. QED
      BY <1>1, <1>2, <2>3, <3>1 DEF MorningTurn
  <2>4. CASE t = Morning /\ MorningMoves
    <3>1. /\ talk[t].pc = "write"
          /\ row' = [row EXCEPT ![talk[t].event] = talk[t].copy] \/ row' = row
      BY <2>4 DEF MorningMoves, At
    <3>2. QED
      BY <1>1, <3>1, TalkRevives
  <2>5. CASE t \in Events /\ applyNewTime(t)
    <3>1. /\ talk[t].pc = "write" /\ talk[t].event = t
          /\ row' = [row EXCEPT ![t] = talk[t].copy] \/ row' = row
      BY <2>5, Names DEF applyNewTime, At, IInv, Copies, Copied
    <3>2. QED
      BY <1>1, <3>1, TalkRevives
  <2>6. QED
    BY <1>7, <2>1, <2>2, <2>3, <2>4, <2>5 DEF Speaks
<1>8. QED
  BY <1>3, <1>4, <1>5, <1>6, <1>7, Steps

-----------------------------------------------------------------------------
(* The theorems. *)

\* The inductive invariant, of every behaviour of the conversations.
THEOREM Inductive == Spec => []IInv
<1>1. Init => IInv
  BY InitInv
<1>2. IInv /\ [Next]_vars => IInv'
  BY StepInv
<1>3. QED
  BY <1>1, <1>2, PTL DEF Spec

\* Every variable keeps the kind of value the code gives it.
THEOREM TypeCorrect == Spec => []TypeOK
<1>1. IInv => TypeOK
  BY DEF IInv
<1>2. QED
  BY <1>1, Inductive, PTL

\* With any number of conversations and messages in flight, the first reply of a wait reaches
\* its channel and stays in it, unless another conversation waits in the same chat meanwhile
\* (Owns, feed, waitReply).
THEOREM FirstRepliesHeard == Spec => []FirstReplyIsHeard
<1>1. IInv => FirstReplyIsHeard
  BY DEF IInv
<1>2. QED
  BY <1>1, Inductive, PTL

\* No late reply to an earlier question is taken for the answer to the next: each wait has a
\* channel of its own (waitReply).
THEOREM RepliesAreFresh == Spec => []FreshReply
<1>1. IInv => FreshReply
  BY DEF IInv, AllAsked, Asked, FreshReply, At
<1>2. QED
  BY <1>1, Inductive, PTL

\* A negotiation in flight owes its owner one report, its end makes that report once, told or
\* lost on the way to him, and no second one is ever made; only a panic or a restart lets it go
\* (Start, run, reportOwner).
THEOREM OneReport == Spec => []ReportedOnce
<1>1. IInv => ReportedOnce
  BY DEF IInv
<1>2. QED
  BY <1>1, Inductive, PTL

\* Nothing brings a cancelled event back but a writer that read the row before it was
\* cancelled (Start, applyNewTime, applyAction, DueReminders).
THEOREM CancelHolds == Spec => CancelledForGood
<1>1. IInv /\ [Next]_vars
        => [\A e \in Events :
              row[e].state = "cancelled" /\ row'[e].state # "cancelled"
                => \/ run[e].state = "active"
                   \/ \E t \in Talks : talk[t].pc = "write" /\ talk[t].event = e
                                       /\ talk[t].copy.state \in {"active", "done"}]_vars
  <2> SUFFICES ASSUME IInv, Next, NEW e \in Events PROVE Revival(e)
    BY DEF Revival
  <2>1. QED
    BY StepRevives
<1>2. QED
  BY <1>1, Inductive, PTL DEF Spec, CancelledForGood
=============================================================================
