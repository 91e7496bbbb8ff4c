------------------------------- MODULE Errands -------------------------------
(***************************************************************************)
(* The errands component (src/internal/errands): an errand interviews one   *)
(* contact through an agent CLI, hands the collected answers to a producer, *)
(* and reports to the owner.  Four kinds of goroutine touch an errand:      *)
(*                                                                          *)
(*   - a command goroutine serving one `errand ...` line (Cmds),            *)
(*   - the subscribe loop feeding contact messages in (Feeder),             *)
(*   - the errand's driver, a goroutine running agent turns (Drivers).      *)
(*                                                                          *)
(* Comp.mu (d.mu) protects the map, Status, busy and pending for one short  *)
(* section at a time; files are written outside it.  What a goroutine still *)
(* has to do is its `todo`, a sequence of operations run from the front,    *)
(* each operation one section of code that no other goroutine can split.    *)
(* A status in `todo` stands for setErrandStatus storing that status.       *)
(*                                                                          *)
(* Abstracted: prompt and message texts, agent session ids, logs, messages  *)
(* to the owner, the contents of the collected-info file beyond its kind.   *)
(***************************************************************************)
EXTENDS Naturals, Sequences, FiniteSets, SequencesExt

CONSTANTS
  Ids,             \* errand ids, never reused (newErrandID)
  Cmds,            \* command goroutines that may run at the same time
  Feeder,          \* the agent's single subscribe loop
  Drivers,         \* goroutines available to run driveErrand
  Replies,         \* message ids a contact may send (each may arrive again)
  Contacts,
  ContactOf,       \* [Ids -> Contacts]: an errand's TGChat or WAChat
  From,            \* [Replies -> Contacts]: the chat a message arrives on
  DeliverToTarget, \* the errands whose finished files may go to the contact too
  SeenCap,         \* how many message ids SeenMsgIDs keeps (500)
  MaxMsgs,         \* maxErrandMsgsPerTurn
  MaxWorkerTurns,  \* maxWorkerTurns
  MaxCmds,         \* bound: owner commands issued
  MaxCrashes,      \* bound: crashes of the agent process
  Faults           \* which failures happen: "backend", "create", "send", "panic"

ASSUME ErrandsAssumption ==
  /\ Ids # {}
  /\ Drivers \cap (Cmds \cup {Feeder}) = {}
  /\ Feeder \notin Cmds
  /\ ContactOf \in [Ids -> Contacts]
  /\ From \in [Replies -> Contacts]
  /\ Replies \cap {"none", "draft", "begin", "work"} = {}
  /\ DeliverToTarget \subseteq Ids
  /\ SeenCap \in Nat \ {0}
  /\ MaxMsgs \in Nat
  /\ MaxWorkerTurns \in Nat \ {0}
  /\ MaxCmds \in Nat
  /\ MaxCrashes \in Nat
  /\ Faults \subseteq {"backend", "create", "send", "panic"}

VARIABLES
  rec,       \* d.errands: the persisted fields of each errand, in memory
  busy,      \* Errand.busy, never persisted
  pending,   \* Errand.pending, never persisted
  th,        \* what each goroutine is doing
  disk,      \* errands/<id>.json
  info,      \* collected-info.md: nothing, its header, a RECORD or a transcript
  claims,    \* claims.json
  issued,    \* bound: commands issued so far
  crashes,   \* bound: crashes so far
  born,      \* ids newErrandID has handed out
  asked,     \* history: the replies the interviewer was given, in order
  outbox     \* history: the statuses an errand had when it messaged the contact

vars == <<rec, busy, pending, th, disk, info, claims, issued, crashes, born,
          asked, outbox>>
files == <<disk, info, claims>>
bounds == <<issued, crashes, born>>
history == <<asked, outbox>>

-----------------------------------------------------------------------------
Threads == Cmds \cup {Feeder} \cup Drivers

Status == {"pending_approval", "active", "producing", "done", "cancelled", "failed"}

Record == [status : Status \cup {"absent"}, auto : BOOLEAN, file : BOOLEAN,
           seen : Seq(Replies), heard : Seq(Replies), delivered : BOOLEAN]

Unborn == [status |-> "absent", auto |-> FALSE, file |-> FALSE,
           seen |-> <<>>, heard |-> <<>>, delivered |-> FALSE]

\* A JSON file: missing, truncated by os.WriteFile and not yet written, left
\* unparsable by two overlapping writers, or whole.
File == [is : {"missing", "empty", "torn", "whole"}, data : Record]
Missing == [is |-> "missing", data |-> Unborn]
Empty == [is |-> "empty", data |-> Unborn]
Torn == [is |-> "torn", data |-> Unborn]
Whole(r) == [is |-> "whole", data |-> r]

Prompt == {"none", "draft", "begin", "work"} \cup Replies

\* Nothing sets a status back to pending_approval.
Op == (Status \ {"pending_approval"}) \cup
      {"create", "save", "write", "claims", "putClaims", "file", "header", "seen",
       "hear", "drive", "turn", "ask", "apply", "record", "msg", "fallback",
       "handoff", "collected", "next", "work", "outputs", "ensureDelivered", "more",
       "stop"}

Thread == [todo : Seq(Op), on : Ids, prompt : Prompt, turns : Nat,
           snap : Record, claimed : SUBSET Ids]

IdleThread == [todo |-> <<>>, on |-> CHOOSE e \in Ids : TRUE, prompt |-> "none",
               turns |-> 0, snap |-> Unborn, claimed |-> {}]

Idle(t) == th[t].todo = <<>>
At(t, op) == th[t].todo # <<>> /\ Head(th[t].todo) = op

\* Continue goroutine t with `ops`; with nothing left it ends.
Become(t, r) == th' = [th EXCEPT ![t] = IF r.todo = <<>> THEN IdleThread ELSE r]
Goto(t, ops) == Become(t, [th[t] EXCEPT !.todo = ops])
Rest(t) == Tail(th[t].todo)

active(r) == r.status \in {"active", "pending_approval", "producing"}
interviewing(r) == r.status \in {"active", "pending_approval"}

\* setErrandStatus: store, SaveErrand, syncClaims.
SetStatus(s) == <<s, "save", "claims">>

-----------------------------------------------------------------------------
(* Owner commands (handleErrandCommand), each on a goroutine of its own.     *)

Command(c) ==
  /\ Idle(c)
  /\ issued < MaxCmds
  /\ issued' = issued + 1

Begin(c, e, ops, p) ==
  Become(c, [IdleThread EXCEPT !.todo = ops, !.on = e, !.prompt = p])

\* Mutant: the status of an auto-started errand is left at its zero value.
startErrand_NoStatus(c, e, auto) ==
  /\ Command(c)
  /\ e \notin born
  /\ born' = born \cup {e}
  /\ rec' = [rec EXCEPT ![e] = [Unborn EXCEPT
               !.status = IF auto THEN "" ELSE "pending_approval",
               !.auto = auto]]
  /\ Begin(c, e, <<"create", "save", "claims">>
                   \o (IF auto THEN <<"file", "drive">> ELSE <<"drive">>),
           IF auto THEN "begin" ELSE "draft")
  /\ UNCHANGED <<busy, pending, files, crashes, history>>

\* The record goes into the map first; whatever follows, it stays there.
startErrand(c, e, auto) ==
  /\ Command(c)
  /\ e \notin born
  /\ born' = born \cup {e}
  /\ rec' = [rec EXCEPT ![e] = [Unborn EXCEPT
               !.status = IF auto THEN "active" ELSE "pending_approval",
               !.auto = auto]]
  /\ Begin(c, e, <<"create", "save", "claims">>
                   \o (IF auto THEN <<"file", "drive">> ELSE <<"drive">>),
           IF auto THEN "begin" ELSE "draft")
  /\ UNCHANGED <<busy, pending, files, crashes, history>>

pendingErrand(e) == rec[e].status = "pending_approval"

\* `errand yes`: the status is tested here and set, unconditionally, later.
approveErrand(c, e) ==
  /\ Command(c)
  /\ pendingErrand(e)
  /\ Begin(c, e, SetStatus("active") \o <<"file", "drive">>, "begin")
  /\ UNCHANGED <<rec, busy, pending, files, crashes, born, history>>

\* `errand no`
rejectErrand(c, e) ==
  /\ Command(c)
  /\ pendingErrand(e)
  /\ Begin(c, e, SetStatus("cancelled"), "none")
  /\ UNCHANGED <<rec, busy, pending, files, crashes, born, history>>

\* `errand edit`
reviseErrandPlan(c, e) ==
  /\ Command(c)
  /\ pendingErrand(e)
  /\ Begin(c, e, <<"drive">>, "draft")
  /\ UNCHANGED <<rec, busy, pending, files, crashes, born, history>>

\* `errand cancel`: any errand of the map, whatever its status.
cancelErrand(c, e) ==
  /\ Command(c)
  /\ rec[e].status # "absent"
  /\ rec' = [rec EXCEPT ![e].status = "cancelled"]
  /\ Begin(c, e, <<"save", "claims">>, "none")
  /\ UNCHANGED <<busy, pending, files, crashes, born, history>>

-----------------------------------------------------------------------------
(* The subscribe loop hands a contact's message to an active errand of that  *)
(* chat; with several, map iteration picks one.                              *)

Feed(m, e) ==
  /\ Idle(Feeder)
  /\ active(rec[e])
  /\ ContactOf[e] = From[m]
  /\ Begin(Feeder, e, <<"seen">>, m)
  /\ UNCHANGED <<rec, busy, pending, files, bounds, history>>

\* A new id joins the list, whose oldest entry goes when it is full.
markSeen(seen, m) ==
  LET all == Append(seen, m) IN
  IF m \in ToSet(seen) THEN seen ELSE IF Len(all) > SeenCap THEN Tail(all) ELSE all

\* markSeen, in a section of its own: by then the errand may be in any status.
\* A message seen before, or one that comes after the interview, goes no further.
MarkSeen(t) ==
  /\ At(t, "seen")
  /\ LET e == th[t].on  m == th[t].prompt IN
     /\ rec' = [rec EXCEPT ![e].seen = markSeen(@, m)]
     /\ Goto(t, IF m \in ToSet(rec[e].seen) \/ ~interviewing(rec[e])
                  THEN <<>> ELSE <<"save", "hear", "drive">>)
  /\ UNCHANGED <<busy, pending, files, bounds, history>>

\* feedErrand appends the reply to the transcript.
Hear(t) ==
  /\ At(t, "hear")
  /\ rec' = [rec EXCEPT ![th[t].on].heard = Append(@, th[t].prompt)]
  /\ Goto(t, Rest(t))
  /\ UNCHANGED <<busy, pending, files, bounds, history>>

-----------------------------------------------------------------------------
(* Operations every goroutine shares.                                        *)

StoreStatus(t) ==
  /\ \E s \in Status :
       /\ At(t, s)
       /\ rec' = [rec EXCEPT ![th[t].on].status = s]
  /\ Goto(t, Rest(t))
  /\ UNCHANGED <<busy, pending, files, bounds, history>>

\* Mutant: SeenMsgIDs is not part of the JSON.
OpenErrand_NoSeen(t) ==
  /\ At(t, "save") \/ At(t, "create")
  /\ Become(t, [th[t] EXCEPT !.todo = <<"write">> \o Rest(t),
                             !.snap = [rec[th[t].on] EXCEPT !.seen = <<>>]])
  /\ disk' = [disk EXCEPT ![th[t].on] = Empty]
  /\ UNCHANGED <<rec, busy, pending, info, claims, bounds, history>>

\* SaveErrand reads the record with no lock held, then os.WriteFile truncates
\* the file ...
OpenErrand(t) ==
  /\ At(t, "save") \/ At(t, "create")
  /\ Become(t, [th[t] EXCEPT !.todo = <<"write">> \o Rest(t), !.snap = rec[th[t].on]])
  /\ disk' = [disk EXCEPT ![th[t].on] = Empty]
  /\ UNCHANGED <<rec, busy, pending, info, claims, bounds, history>>

\* ... and fills it.  If another writer filled it in between, the two contents
\* overlap: the later one, or what is left of both.
WriteErrand(t) ==
  /\ At(t, "write")
  /\ LET e == th[t].on IN
     \/ disk' = [disk EXCEPT ![e] = Whole(th[t].snap)]
     \/ disk[e] # Empty /\ disk' = [disk EXCEPT ![e] = Torn]
  /\ Become(t, [th[t] EXCEPT !.todo = Rest(t), !.snap = Unborn])
  /\ UNCHANGED <<rec, busy, pending, info, claims, bounds, history>>

\* startErrand alone looks at the error; the errand stays in the map.
CreateFails(t) ==
  /\ "create" \in Faults
  /\ At(t, "create")
  /\ Goto(t, <<>>)
  /\ UNCHANGED <<rec, busy, pending, files, bounds, history>>

activeIds == {e \in Ids : active(rec[e])}

\* syncClaims collects the active errands under d.mu ...
CollectClaims(t) ==
  /\ At(t, "claims")
  /\ Become(t, [th[t] EXCEPT !.todo = <<"putClaims">> \o Rest(t), !.claimed = activeIds])
  /\ UNCHANGED <<rec, busy, pending, files, bounds, history>>

\* ... and SaveClaims replaces claims.json after the lock is released.
SaveClaims(t) ==
  /\ At(t, "putClaims")
  /\ claims' = th[t].claimed
  /\ Become(t, [th[t] EXCEPT !.todo = Rest(t), !.claimed = {}])
  /\ UNCHANGED <<rec, busy, pending, disk, info, bounds, history>>

\* ensureInterviewFile tests the path, and gives up without a directory ...
EnsureInterviewFile(t) ==
  /\ At(t, "file")
  /\ \/ ~rec[th[t].on].file /\ Goto(t, <<"header", "save">> \o Rest(t))
     \/ rec[th[t].on].file /\ Goto(t, Rest(t))
     \/ "backend" \in Faults /\ Goto(t, Rest(t))
  /\ UNCHANGED <<rec, busy, pending, files, bounds, history>>

\* ... and later writes the header over whatever the file holds.
WriteHeader(t) ==
  /\ At(t, "header")
  /\ info' = [info EXCEPT ![th[t].on] = "header"]
  /\ rec' = [rec EXCEPT ![th[t].on].file = TRUE]
  /\ Goto(t, Rest(t))
  /\ UNCHANGED <<busy, pending, disk, claims, bounds, history>>

\* driveErrandAsync: buffer the prompt when a turn is in flight, else start a
\* driver.  Both tests and both stores are one section under d.mu.
Spawn(t, d) ==
  /\ Idle(d)
  /\ th' = [th EXCEPT ![t] = IdleThread,
                      ![d] = [IdleThread EXCEPT !.todo = <<"turn">>, !.on = th[t].on,
                                                !.prompt = th[t].prompt]]

Drive(t) ==
  /\ At(t, "drive")
  /\ LET e == th[t].on IN
     IF busy[e]
       THEN /\ pending' = [pending EXCEPT ![e] = Append(@, th[t].prompt)]
            /\ Goto(t, <<>>)
            /\ UNCHANGED busy
       ELSE /\ busy' = [busy EXCEPT ![e] = TRUE]
            /\ \E d \in Drivers : Spawn(t, d)
            /\ UNCHANGED pending
  /\ UNCHANGED <<rec, files, bounds, history>>

-----------------------------------------------------------------------------
(* driveErrand: the loop of one driver.  Errand.mu, held for the whole loop, *)
(* is left out: busy already admits one driver (SingleDriver).               *)

\* The driver stops and clears busy.
Exit(t) ==
  /\ busy' = [busy EXCEPT ![th[t].on] = FALSE]
  /\ Goto(t, <<>>)

\* The top of the loop: the phase decides which agent runs, if any.
Turn(t) ==
  /\ At(t, "turn")
  /\ LET r == rec[th[t].on] IN
     \/ /\ interviewing(r)
        /\ Goto(t, <<"ask">>)
        /\ asked' = [asked EXCEPT ![th[t].on] =
                        IF th[t].prompt \in Replies THEN Append(@, th[t].prompt) ELSE @]
        /\ UNCHANGED busy
     \/ /\ r.status = "producing"
        /\ Become(t, [th[t] EXCEPT !.todo = <<"work">>, !.turns = @ + 1])
        /\ UNCHANGED <<busy, asked>>
     \/ /\ ~active(r)
        /\ Exit(t)
        /\ UNCHANGED asked
  /\ UNCHANGED <<rec, pending, files, bounds, outbox>>

\* No agent CLI configured, or no staging directory.
CannotRun(t) ==
  /\ "backend" \in Faults
  /\ \/ At(t, "ask") /\ Goto(t, SetStatus("failed") \o <<"next">>)
     \/ At(t, "work") /\ Goto(t, SetStatus("failed") \o <<"stop">>)
  /\ UNCHANGED <<rec, busy, pending, files, bounds, history>>

\* What a live interviewer turn asks for: a RECORD, up to MaxMsgs messages (the
\* rest is held back), and a HANDOFF, which beginProducing carries out.
Live(record, n, handoff) ==
  (IF record THEN <<"file", "record">> ELSE <<>>)
  \o [i \in 1..n |-> "msg"]
  \o (IF handoff
        THEN <<"file", "fallback", "handoff", "save", "collected", "turn">>
        ELSE <<"save", "next">>)

\* The interviewer's turn ends, in an error or with directives.
Ask(t) ==
  /\ At(t, "ask")
  /\ \/ Goto(t, <<"save", "next">>)
     \/ \E record, handoff \in BOOLEAN, n \in 0..MaxMsgs :
          Goto(t, <<"save", "apply">> \o Live(record, n, handoff))
  /\ UNCHANGED <<rec, busy, pending, files, bounds, history>>

\* Mutant: a draft's directives are carried out.
Apply_NoDraftTest(t) ==
  /\ At(t, "apply")
  /\ Goto(t, Rest(t))
  /\ UNCHANGED <<rec, busy, pending, files, bounds, history>>

\* applyInterviewDirectives reads the status only now.  Of a draft nothing but
\* the plan is used.
Apply(t) ==
  /\ At(t, "apply")
  /\ Goto(t, IF pendingErrand(th[t].on) THEN <<"next">> ELSE Rest(t))
  /\ UNCHANGED <<rec, busy, pending, files, bounds, history>>

WriteRecord(t) ==
  /\ At(t, "record")
  /\ info' = [info EXCEPT ![th[t].on] = IF rec[th[t].on].file THEN "record" ELSE @]
  /\ Goto(t, Rest(t))
  /\ UNCHANGED <<rec, busy, pending, disk, claims, bounds, history>>

\* One MSG to the contact; the first that fails drops those after it.
SendMsg(t) ==
  /\ At(t, "msg")
  /\ LET e == th[t].on IN
     \/ /\ outbox' = [outbox EXCEPT ![e] = @ \cup {rec[e].status}]
        /\ Goto(t, Rest(t))
     \/ /\ "send" \in Faults
        /\ \E k \in 2..Len(th[t].todo) :
             /\ th[t].todo[k] # "msg"
             /\ \A i \in 1..(k-1) : th[t].todo[i] = "msg"
             /\ Goto(t, SubSeq(th[t].todo, k, Len(th[t].todo)))
        /\ UNCHANGED outbox
  /\ UNCHANGED <<rec, busy, pending, files, bounds, asked>>

\* beginProducing: a file still showing its header gets the raw transcript ...
TranscriptFallback(t) ==
  /\ At(t, "fallback")
  /\ LET e == th[t].on IN
     info' = [info EXCEPT ![e] = IF rec[e].file /\ @ = "header" THEN "transcript" ELSE @]
  /\ Goto(t, Rest(t))
  /\ UNCHANGED <<rec, busy, pending, disk, claims, bounds, history>>

\* ... and the phase changes, whatever the status has become.
Handoff(t) ==
  /\ At(t, "handoff")
  /\ rec' = [rec EXCEPT ![th[t].on].status = "producing"]
  /\ pending' = [pending EXCEPT ![th[t].on] = <<>>]
  /\ Become(t, [th[t] EXCEPT !.todo = Rest(t), !.prompt = "work"])
  /\ UNCHANGED <<busy, files, bounds, history>>

\* The collected-info file goes to the owner; Delivered is set only on success.
DeliverCollected(t) ==
  /\ At(t, "collected")
  /\ \/ /\ rec[th[t].on].file
        /\ rec' = [rec EXCEPT ![th[t].on].delivered = TRUE]
     \/ /\ ~rec[th[t].on].file \/ "send" \in Faults
        /\ UNCHANGED rec
  /\ Goto(t, Rest(t))
  /\ UNCHANGED <<busy, pending, files, bounds, history>>

\* Mutant: the pending test and the busy clear are two sections.
NextPrompt_TwoSections(t) ==
  /\ At(t, "next")
  /\ LET e == th[t].on IN
     IF pending[e] # <<>>
       THEN /\ Become(t, [th[t] EXCEPT !.todo = <<"turn">>, !.prompt = Head(pending[e])])
            /\ pending' = [pending EXCEPT ![e] = Tail(@)]
            /\ UNCHANGED busy
       ELSE /\ Goto(t, <<"stop">>)
            /\ UNCHANGED <<pending, busy>>
  /\ UNCHANGED <<rec, files, bounds, history>>

\* Mutant: the last buffered prompt is taken first.
NextPrompt_Lifo(t) ==
  /\ At(t, "next")
  /\ LET e == th[t].on IN
     IF pending[e] # <<>>
       THEN /\ Become(t, [th[t] EXCEPT !.todo = <<"turn">>, !.prompt = Last(pending[e])])
            /\ pending' = [pending EXCEPT ![e] = Front(@)]
            /\ UNCHANGED busy
       ELSE /\ Exit(t)
            /\ UNCHANGED pending
  /\ UNCHANGED <<rec, files, bounds, history>>

\* Mutant: the driver goes idle whatever is buffered.
NextPrompt_IgnoresBuffer(t) ==
  /\ At(t, "next")
  /\ Exit(t)
  /\ UNCHANGED <<rec, pending, files, bounds, history>>

\* After an interview turn: the next buffered prompt, or idle, in one section.
NextPrompt(t) ==
  /\ At(t, "next")
  /\ LET e == th[t].on IN
     IF pending[e] # <<>>
       THEN /\ Become(t, [th[t] EXCEPT !.todo = <<"turn">>, !.prompt = Head(pending[e])])
            /\ pending' = [pending EXCEPT ![e] = Tail(@)]
            /\ UNCHANGED busy
       ELSE /\ Exit(t)
            /\ UNCHANGED pending
  /\ UNCHANGED <<rec, files, bounds, history>>

\* The producer's turn ends: an error, no terminal directive, a FLAG or a DONE,
\* each of the last three after the files it asks to send.
Work(t) ==
  /\ At(t, "work")
  /\ \/ Goto(t, <<"save", "more">>)
     \/ Goto(t, <<"save", "outputs", "save", "more">>)
     \/ Goto(t, <<"save", "outputs">> \o SetStatus("failed") \o <<"stop">>)
     \/ Goto(t, <<"save", "outputs", "ensureDelivered">> \o SetStatus("done") \o <<"stop">>)
  /\ UNCHANGED <<rec, busy, pending, files, bounds, history>>

\* Its files: none, or all failed to go; some DELIVERed to the owner; some sent to
\* the contact, where the errand allows it.
SendOutputs(t) ==
  /\ At(t, "outputs")
  /\ LET e == th[t].on IN
     /\ \E sent \in BOOLEAN : rec' = [rec EXCEPT ![e].delivered = @ \/ sent]
     /\ \/ UNCHANGED outbox
        \/ e \in DeliverToTarget /\ outbox' = [outbox EXCEPT ![e] = @ \cup {rec[e].status}]
  /\ Goto(t, Rest(t))
  /\ UNCHANGED <<busy, pending, files, bounds, asked>>

\* finishErrand: the collected info goes out if no file has.
EnsureDelivered(t) ==
  /\ At(t, "ensureDelivered")
  /\ LET r == rec[th[t].on] IN
     Goto(t, IF r.delivered \/ ~r.file THEN Rest(t) ELSE <<"collected">> \o Rest(t))
  /\ UNCHANGED <<rec, busy, pending, files, bounds, history>>

\* Mutant: the turn counter starts afresh with every turn.
More_CountsAfresh(t) ==
  /\ At(t, "more")
  /\ IF th[t].turns >= MaxWorkerTurns
       THEN Goto(t, SetStatus("failed") \o <<"stop">>)
       ELSE Become(t, [th[t] EXCEPT !.todo = <<"turn">>, !.turns = 0])
  /\ UNCHANGED <<rec, busy, pending, files, bounds, history>>

\* At most MaxWorkerTurns producer turns per driver.
More(t) ==
  /\ At(t, "more")
  /\ Goto(t, IF th[t].turns >= MaxWorkerTurns
               THEN SetStatus("failed") \o <<"stop">>
               ELSE <<"turn">>)
  /\ UNCHANGED <<rec, busy, pending, files, bounds, history>>

Stop(t) ==
  /\ At(t, "stop")
  /\ Exit(t)
  /\ UNCHANGED <<rec, pending, files, bounds, history>>

\* Mutant: recover leaves busy set.
Panic_KeepsBusy(t) ==
  /\ "panic" \in Faults
  /\ At(t, "apply") \/ At(t, "work")
  /\ Goto(t, <<>>)
  /\ UNCHANGED <<rec, busy, pending, files, bounds, history>>

\* A panic while a turn's output is handled: recover clears busy, nothing else.
Panic(t) ==
  /\ "panic" \in Faults
  /\ At(t, "apply") \/ At(t, "work")
  /\ Exit(t)
  /\ UNCHANGED <<rec, pending, files, bounds, history>>

-----------------------------------------------------------------------------
(* The process dies and New rebuilds the map from the files it can parse.    *)
(* It resumes no turn, and writes claims.json before anything else runs.     *)
Crash ==
  /\ crashes < MaxCrashes
  /\ crashes' = crashes + 1
  /\ rec' = [e \in Ids |-> IF disk[e].is = "whole" THEN disk[e].data ELSE Unborn]
  /\ busy' = [e \in Ids |-> FALSE]
  /\ pending' = [e \in Ids |-> <<>>]
  /\ th' = [t \in Threads |-> IdleThread]
  /\ claims' = {e \in Ids : active(rec'[e])}
  /\ UNCHANGED <<disk, info, issued, born, history>>

-----------------------------------------------------------------------------
Init ==
  /\ rec = [e \in Ids |-> Unborn]
  /\ busy = [e \in Ids |-> FALSE]
  /\ pending = [e \in Ids |-> <<>>]
  /\ th = [t \in Threads |-> IdleThread]
  /\ disk = [e \in Ids |-> Missing]
  /\ info = [e \in Ids |-> "none"]
  /\ claims = {}
  /\ issued = 0
  /\ crashes = 0
  /\ born = {}
  /\ asked = [e \in Ids |-> <<>>]
  /\ outbox = [e \in Ids |-> {}]

Owner ==
  \E c \in Cmds, e \in Ids :
    \/ \E auto \in BOOLEAN : startErrand(c, e, auto)
    \/ approveErrand(c, e)
    \/ rejectErrand(c, e)
    \/ reviseErrandPlan(c, e)
    \/ cancelErrand(c, e)

Shared(t) ==
  \/ StoreStatus(t) \/ OpenErrand(t) \/ WriteErrand(t) \/ CreateFails(t)
  \/ CollectClaims(t) \/ SaveClaims(t) \/ EnsureInterviewFile(t) \/ WriteHeader(t)
  \/ Drive(t)

Driver(t) ==
  \/ Turn(t) \/ CannotRun(t) \/ Ask(t) \/ Apply(t) \/ WriteRecord(t) \/ SendMsg(t)
  \/ TranscriptFallback(t) \/ Handoff(t) \/ DeliverCollected(t) \/ NextPrompt(t)
  \/ Work(t) \/ SendOutputs(t) \/ EnsureDelivered(t) \/ More(t) \/ Stop(t)

Next ==
  \/ Owner
  \/ \E m \in Replies, e \in Ids : Feed(m, e)
  \/ MarkSeen(Feeder) \/ Hear(Feeder)
  \/ \E t \in Threads : Shared(t)
  \/ \E t \in Drivers : Driver(t) \/ Panic(t)
  \/ Crash

Spec == Init /\ [][Next]_vars

\* The Go scheduler runs every runnable goroutine, and an agent turn ends:
\* RunClaude and RunCodex kill it after a timeout.  Commands, messages, crashes
\* and panics need not happen.
Fairness ==
  /\ WF_vars(MarkSeen(Feeder) \/ Hear(Feeder))
  /\ \A t \in Threads : WF_vars(Shared(t))
  /\ \A t \in Drivers : WF_vars(Driver(t))

FairSpec == Spec /\ Fairness

-----------------------------------------------------------------------------
(* Properties.                                                               *)

\* Every variable keeps the kind of value the code gives it.
TypeOK ==
  /\ rec \in [Ids -> Record]
  /\ busy \in [Ids -> BOOLEAN]
  /\ pending \in [Ids -> Seq(Prompt)]
  /\ th \in [Threads -> Thread]
  /\ disk \in [Ids -> File]
  /\ info \in [Ids -> {"none", "header", "record", "transcript"}]
  /\ claims \in SUBSET Ids
  /\ issued \in Nat
  /\ crashes \in Nat
  /\ born \in SUBSET Ids
  /\ asked \in [Ids -> Seq(Replies)]
  /\ outbox \in [Ids -> SUBSET (Status \cup {"absent"})]

DriversOf(e) == {d \in Drivers : ~Idle(d) /\ th[d].on = e}

\* However commands, replies and drivers interleave, an errand is driven by at
\* most one goroutine, and is busy exactly while it has one: no turn overlaps
\* another, and no errand stays busy with nobody to finish it (driveErrandAsync
\* and the exits of driveErrand).
SingleDriver ==
  \A e \in Ids :
    /\ \A d1, d2 \in DriversOf(e) : d1 = d2
    /\ busy[e] <=> DriversOf(e) # {}

\* The contact hears nothing while the errand waits for the owner's approval,
\* although the status is read long after the turn began (applyInterviewDirectives).
SilentWhilePending ==
  \A e \in Ids : "pending_approval" \notin outbox[e]

\* A message delivered twice is heard once (markSeen in FeedTelegram and
\* FeedWhatsApp), so the transcript never repeats a reply, as long as the replies fit
\* into SeenMsgIDs: an id that was dropped from it would be heard again.
HeardOnce ==
  \A e \in Ids : \A i, j \in DOMAIN rec[e].heard :
    rec[e].heard[i] = rec[e].heard[j] => i = j

\* A reply or prompt that was buffered while a turn ran is never left behind with
\* the errand idle (the comment in driveErrand, "can't be stranded").
NothingStranded ==
  \A e \in Ids :
    interviewing(rec[e]) /\ pending[e] # <<>> /\ ~busy[e]
      => \E c \in Cmds : th[c].on = e /\ "drive" \in ToSet(th[c].todo)

\* The replies in a sequence of prompts: SelectSeq(s, LAMBDA p : p \in Replies), spelled
\* out because the proofs unfold it.
RepliesIn(s) ==
  LET found[i \in 0..Len(s)] ==
        IF i = 0 THEN <<>>
        ELSE IF s[i] \in Replies THEN Append(found[i - 1], s[i]) ELSE found[i - 1]
  IN  found[Len(s)]

\* What the interviewer of errand e has yet to be given: the prompt its driver is about to
\* run, the buffered ones, and a reply the subscribe loop has heard and not handed on.
InFlight(e) == {th[d].prompt : d \in {d \in DriversOf(e) : At(d, "turn")}}
Underway(e) ==
  IF At(Feeder, "drive") /\ th[Feeder].on = e THEN <<th[Feeder].prompt>> ELSE <<>>
Queue(e) == SetToSeq(InFlight(e)) \o pending[e] \o Underway(e)

\* While an errand interviews, the interviewer gets each reply once, in the order the
\* contact sent them: the replies it was given and those in its queue make up what was
\* heard (feedErrand, driveErrandAsync, driveErrand).
RepliesInOrder ==
  \A e \in Ids : interviewing(rec[e]) => asked[e] \o RepliesIn(Queue(e)) = rec[e].heard

\* The producing phase ends, in done or failed or by the owner's cancel: turns
\* end and MaxWorkerTurns bounds them.
ProducingEnds ==
  \A e \in Ids : rec[e].status = "producing" ~> rec[e].status # "producing"

\* Every buffered prompt gets its turn, unless the interview ends first.
BufferDrains ==
  \A e \in Ids, m \in Replies :
    m \in ToSet(pending[e]) ~> m \notin ToSet(pending[e]) \/ ~interviewing(rec[e])

=============================================================================
