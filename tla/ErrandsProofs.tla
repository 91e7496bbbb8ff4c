---------------------------- MODULE ErrandsProofs ----------------------------
(***************************************************************************)
(* Theorems about Errands, for every value of its constants, each part with  *)
(* the invariant it rests on:                                                *)
(*   IInv   types and one driver per errand (TypeCorrect, DriverExclusion),  *)
(*   SInv   silence before the owner's approval (SilenceBeforeApproval),     *)
(*   HInv   no reply is heard twice (NoReplyTwice),                          *)
(*   BInv   no buffered prompt is left behind (NeverStranded),               *)
(*   OInv   replies are put to the interviewer in order (AnsweredInOrder).   *)
(***************************************************************************)
EXTENDS Errands, FiniteSetTheorems, SequenceTheorems, WellFoundedInduction, TLAPS

\* What a driver may still have to do, and the operations it can end on.  Only
\* those six leave the sequence without running the rest of it.
DriverOp == Op \ {"create", "seen", "hear", "drive"}
Ends == {"turn", "ask", "work", "next", "more", "stop"}
Chain(s) == s \in Seq(DriverOp) /\ s # <<>> /\ s[Len(s)] \in Ends

\* Goroutines: a driver's todo is a chain until it exits, and the subscribe loop
\* always carries the reply it was given.
ThreadsOK ==
  /\ th \in [Threads -> Thread]
  /\ \A d \in Drivers : ~Idle(d) => Chain(th[d].todo)
  /\ ~Idle(Feeder) => th[Feeder].prompt \in Replies

DataOK ==
  /\ rec \in [Ids -> Record]
  /\ busy \in [Ids -> BOOLEAN]
  /\ pending \in [Ids -> Seq(Prompt)]
  /\ disk \in [Ids -> File]
  /\ info \in [Ids -> {"none", "header", "record", "transcript"}]
  /\ claims \in SUBSET Ids
  /\ issued \in Nat
  /\ crashes \in Nat
  /\ born \in SUBSET Ids
  /\ asked \in [Ids -> Seq(Replies)]
  /\ outbox \in [Ids -> SUBSET (Status \cup {"absent"})]

IInv == DataOK /\ ThreadsOK /\ SingleDriver

-----------------------------------------------------------------------------
(* Sequences of operations. *)

LEMMA ChainTail ==
  ASSUME NEW s, Chain(s), Head(s) \notin Ends
  PROVE  Chain(Tail(s))
<1>1. Len(s) > 1
  BY DEF Chain, Ends
<1>2. /\ Tail(s) \in Seq(DriverOp)
      /\ Len(Tail(s)) = Len(s) - 1
      /\ Tail(s)[Len(s) - 1] = s[Len(s)]
  BY <1>1, HeadTailProperties DEF Chain
<1>3. Tail(s) # <<>>
  BY <1>1, <1>2 DEF Chain
<1>4. Tail(s)[Len(Tail(s))] = s[Len(s)]
  BY <1>2
<1>5. QED
  BY <1>2, <1>3, <1>4 DEF Chain

LEMMA ChainConcat ==
  ASSUME NEW s \in Seq(DriverOp), NEW r, Chain(r)
  PROVE  Chain(s \o r)
BY DEF Chain

LEMMA ChainSubSeq ==
  ASSUME NEW s, Chain(s), NEW k \in 2..Len(s)
  PROVE  Chain(SubSeq(s, k, Len(s)))
<1>1. /\ SubSeq(s, k, Len(s)) \in Seq(DriverOp)
      /\ Len(SubSeq(s, k, Len(s))) = Len(s) - k + 1
      /\ \A i \in 1 .. Len(s) - k + 1 : SubSeq(s, k, Len(s))[i] = s[k + i - 1]
  BY SubSeqProperties DEF Chain
<1>2. Len(s) \in Nat /\ k \in Int /\ 2 <= k /\ k <= Len(s)
  BY DEF Chain
<1>3. SubSeq(s, k, Len(s))[Len(s) - k + 1] = s[Len(s)]
  BY <1>1, <1>2
<1>4. SubSeq(s, k, Len(s)) # <<>>
  <2>1. \A u \in Seq(DriverOp) : Len(u) > 0 => u # <<>>
    OBVIOUS
  <2>2. Len(s) - k + 1 > 0
    BY <1>2
  <2>3. QED
    BY <1>1, <2>1, <2>2
<1>5. QED
  BY <1>1, <1>3, <1>4 DEF Chain

LEMMA LiveChain ==
  ASSUME NEW record \in BOOLEAN, NEW handoff \in BOOLEAN, NEW n \in Nat
  PROVE  Chain(Live(record, n, handoff))
<1> DEFINE r == IF record THEN <<"file", "record">> ELSE <<>>
           m == [i \in 1..n |-> "msg"]
           h == IF handoff
                  THEN <<"file", "fallback", "handoff", "save", "collected", "turn">>
                  ELSE <<"save", "next">>
<1>1. r \in Seq(DriverOp)
  <2>1. <<"file", "record">> \in Seq(DriverOp)
    BY DEF DriverOp, Op
  <2>2. <<>> \in Seq(DriverOp)
    OBVIOUS
  <2>3. QED
    BY <2>1, <2>2
<1>2. m \in Seq(DriverOp)
  BY DEF DriverOp, Op
<1>3. Chain(h)
  <2>1. Chain(<<"file", "fallback", "handoff", "save", "collected", "turn">>)
    BY DEF Chain, DriverOp, Op, Ends
  <2>2. Chain(<<"save", "next">>)
    BY DEF Chain, DriverOp, Op, Ends
  <2>3. QED
    BY <2>1, <2>2
<1>4. r \o m \in Seq(DriverOp)
  BY <1>1, <1>2
<1>5. Chain((r \o m) \o h)
  BY <1>3, <1>4, ChainConcat
<1>6. QED
  BY <1>5 DEF Live

-----------------------------------------------------------------------------
(* Records. *)

LEMMA UnbornTyped == Unborn \in Record
BY DEF Unborn, Record

LEMMA StatusTyped ==
  ASSUME NEW r \in Record, NEW s \in Status
  PROVE  [r EXCEPT !.status = s] \in Record
BY DEF Record

LEMMA NewbornTyped ==
  ASSUME NEW s \in Status, NEW a \in BOOLEAN
  PROVE  [Unborn EXCEPT !.status = s, !.auto = a] \in Record
BY UnbornTyped DEF Record

LEMMA HeardTyped ==
  ASSUME NEW r \in Record, NEW m \in Replies
  PROVE  [r EXCEPT !.heard = Append(@, m)] \in Record
<1>1. Append(r.heard, m) \in Seq(Replies)
  BY DEF Record
<1>2. QED
  BY <1>1 DEF Record

-----------------------------------------------------------------------------
(* Goroutines. *)

LEMMA IdleTyped == IdleThread \in Thread
<1>1. (CHOOSE e \in Ids : TRUE) \in Ids
  BY ErrandsAssumption
<1>2. QED
  BY <1>1, UnbornTyped DEF IdleThread, Thread, Prompt

LEMMA ChainTyped ==
  ASSUME NEW s, Chain(s)
  PROVE  s \in Seq(Op)
BY DEF Chain, DriverOp

\* A goroutine that goes on: a driver keeps its chain and its errand.
LEMMA GoesOn ==
  ASSUME ThreadsOK, NEW t \in Threads, NEW r \in Thread, Become(t, r),
         t \in Drivers => ~Idle(t) /\ Chain(r.todo) /\ r.on = th[t].on,
         t = Feeder /\ r.todo # <<>> => r.prompt \in Replies
  PROVE  ThreadsOK' /\ \A e \in Ids : DriversOf(e)' = DriversOf(e)
<1> DEFINE n == IF r.todo = <<>> THEN IdleThread ELSE r
<1>1. n \in Thread
  BY IdleTyped
<1>2. th' = [th EXCEPT ![t] = n]
  BY DEF Become
<1>3. th \in [Threads -> Thread]
  BY DEF ThreadsOK
<1>4. th' \in [Threads -> Thread]
  BY <1>1, <1>2, <1>3
<1>5. th'[t] = n /\ \A u \in Threads \ {t} : th'[u] = th[u]
  BY <1>2, <1>3
<1>6. t \in Drivers => n = r /\ r.todo # <<>>
  BY DEF Chain
<1>7. ASSUME NEW d \in Drivers, ~Idle(d)'
      PROVE  Chain(th[d].todo)'
  BY <1>5, <1>6, <1>7 DEF ThreadsOK, Threads, Idle
<1>8. ~Idle(Feeder)' => th'[Feeder].prompt \in Replies
  BY <1>5 DEF ThreadsOK, Threads, Idle, IdleThread
<1>9. ASSUME NEW e \in Ids
      PROVE  DriversOf(e)' = DriversOf(e)
  BY <1>5, <1>6 DEF DriversOf, Idle, Threads
<1>10. QED
  BY <1>4, <1>7, <1>8, <1>9 DEF ThreadsOK

\* A goroutine that replaces the operation at its front by others.
LEMMA RunsOn ==
  ASSUME ThreadsOK, NEW t \in Threads, ~Idle(t), Head(th[t].todo) \notin Ends,
         NEW ops \in Seq(DriverOp), NEW x \in Record, NEW y \in SUBSET Ids,
         Become(t, [th[t] EXCEPT !.todo = ops \o Rest(t), !.snap = x, !.claimed = y])
  PROVE  ThreadsOK' /\ \A e \in Ids : DriversOf(e)' = DriversOf(e)
<1> DEFINE r == [th[t] EXCEPT !.todo = ops \o Rest(t), !.snap = x, !.claimed = y]
<1>1. th[t] \in Thread
  BY DEF ThreadsOK
<1>2. Rest(t) \in Seq(Op)
  BY <1>1 DEF Thread, Rest, Idle
<1>3. ops \in Seq(Op)
  BY DEF DriverOp
<1>4. ops \o Rest(t) \in Seq(Op)
  BY <1>2, <1>3
<1>5. r \in Thread
  BY <1>1, <1>4 DEF Thread
<1>6. r.todo = ops \o Rest(t) /\ r.on = th[t].on /\ r.prompt = th[t].prompt
  BY <1>1 DEF Thread
<1>7. ASSUME t \in Drivers
      PROVE  Chain(r.todo)
  <2>1. Chain(Rest(t))
    BY <1>7, ChainTail DEF ThreadsOK, Rest
  <2>2. QED
    BY <1>6, <2>1, ChainConcat
<1>8. t = Feeder => r.prompt \in Replies
  BY <1>6 DEF ThreadsOK
<1> HIDE DEF r
<1>9. QED
  BY <1>5, <1>6, <1>7, <1>8, GoesOn DEF r

LEMMA RestGoesOn ==
  ASSUME ThreadsOK, NEW t \in Threads, ~Idle(t), Head(th[t].todo) \notin Ends,
         Goto(t, Rest(t))
  PROVE  ThreadsOK' /\ \A e \in Ids : DriversOf(e)' = DriversOf(e)
<1>1. th[t] \in Thread
  BY DEF ThreadsOK
<1>2. Rest(t) \in Seq(Op)
  BY <1>1 DEF Thread, Rest, Idle
<1>3. <<>> \o Rest(t) = Rest(t) /\ <<>> \in Seq(DriverOp)
  BY <1>2
<1>4. th[t].snap \in Record /\ th[t].claimed \in SUBSET Ids
  BY <1>1 DEF Thread
<1>5. [th[t] EXCEPT !.todo = Rest(t)]
        = [th[t] EXCEPT !.todo = <<>> \o Rest(t), !.snap = th[t].snap,
                        !.claimed = th[t].claimed]
  BY <1>1, <1>3 DEF Thread
<1>6. Become(t, [th[t] EXCEPT !.todo = <<>> \o Rest(t), !.snap = th[t].snap,
                             !.claimed = th[t].claimed])
  BY <1>5 DEF Goto
<1>7. QED
  BY <1>3, <1>4, <1>6, RunsOn

\* A driver that goes to a chain of its own.
LEMMA DriverGoes ==
  ASSUME ThreadsOK, NEW t \in Drivers, ~Idle(t), NEW ops, Chain(ops), Goto(t, ops)
  PROVE  ThreadsOK' /\ \A e \in Ids : DriversOf(e)' = DriversOf(e)
<1> DEFINE r == [th[t] EXCEPT !.todo = ops]
<1>1. t \in Threads /\ t # Feeder
  BY ErrandsAssumption DEF Threads
<1>2. th[t] \in Thread
  BY <1>1 DEF ThreadsOK
<1>3. r \in Thread /\ r.todo = ops /\ r.on = th[t].on
  BY <1>2, ChainTyped DEF Thread
<1>4. Become(t, r)
  BY DEF Goto
<1> HIDE DEF r
<1>5. QED
  BY <1>1, <1>3, <1>4, GoesOn

\* A command goroutine or the subscribe loop takes on new work.
LEMMA Begins ==
  ASSUME ThreadsOK, NEW t \in Threads \ Drivers, NEW e \in Ids,
         NEW ops \in Seq(Op), NEW p \in Prompt, t = Feeder => p \in Replies,
         Begin(t, e, ops, p)
  PROVE  ThreadsOK' /\ \A i \in Ids : DriversOf(i)' = DriversOf(i)
<1> DEFINE r == [IdleThread EXCEPT !.todo = ops, !.on = e, !.prompt = p]
<1>1. r \in Thread /\ r.prompt = p
  BY IdleTyped DEF Thread
<1>2. Become(t, r)
  BY DEF Begin
<1> HIDE DEF r
<1>3. QED
  BY <1>1, <1>2, GoesOn

\* A driver that exits leaves its errand without one.
LEMMA DriverExits ==
  ASSUME IInv, NEW t \in Drivers, ~Idle(t), Exit(t)
  PROVE  ThreadsOK' /\ SingleDriver' /\ busy' \in [Ids -> BOOLEAN]
<1> DEFINE e0 == th[t].on
<1>1. th \in [Threads -> Thread] /\ t \in Threads
  BY DEF IInv, ThreadsOK, Threads
<1>2. e0 \in Ids
  BY <1>1 DEF Thread
<1>3. th' = [th EXCEPT ![t] = IdleThread]
  BY <1>1 DEF Exit, Goto, Become, Thread
<1>4. th' \in [Threads -> Thread]
  BY <1>1, <1>3, IdleTyped
<1>5. Idle(t)' /\ \A u \in Threads \ {t} : th'[u] = th[u]
  BY <1>1, <1>3 DEF Idle, IdleThread
<1>6. ThreadsOK'
  <2>1. \A d \in Drivers : ~Idle(d)' => Chain(th'[d].todo)
    BY <1>5 DEF IInv, ThreadsOK, Idle, Threads
  <2>2. ~Idle(Feeder)' => th'[Feeder].prompt \in Replies
    BY <1>5 DEF IInv, ThreadsOK, Idle, Threads
  <2>3. QED
    BY <1>4, <2>1, <2>2 DEF ThreadsOK
<1>7. busy' = [busy EXCEPT ![e0] = FALSE] /\ busy \in [Ids -> BOOLEAN]
  BY DEF Exit, IInv, DataOK
<1>8. ASSUME NEW e \in Ids
      PROVE  DriversOf(e)' = DriversOf(e) \ {t}
  BY <1>5 DEF DriversOf, Idle, Threads
<1>9. t \in DriversOf(e0)
  BY DEF DriversOf
<1>10. \A e \in Ids : (t \in DriversOf(e) <=> e = e0)
  BY DEF DriversOf
<1>11. SingleDriver'
  <2>1. ASSUME NEW e \in Ids
        PROVE  /\ \A d1, d2 \in DriversOf(e)' : d1 = d2
               /\ busy'[e] <=> DriversOf(e)' # {}
    <3>1. CASE e = e0
      <4>1. DriversOf(e)' = {}
        BY <1>8, <1>9, <3>1 DEF IInv, SingleDriver
      <4>2. ~busy'[e]
        BY <1>2, <1>7, <3>1
      <4>3. QED
        BY <4>1, <4>2
    <3>2. CASE e # e0
      <4>1. DriversOf(e)' = DriversOf(e)
        BY <1>8, <1>10, <3>2
      <4>2. busy'[e] = busy[e]
        BY <1>7, <3>2
      <4>3. QED
        BY <4>1, <4>2 DEF IInv, SingleDriver
    <3>3. QED
      BY <3>1, <3>2
  <2>2. QED
    BY <2>1 DEF SingleDriver
<1>12. QED
  BY <1>6, <1>7, <1>11

\* driveErrandAsync with busy clear: the new driver is the errand's only one.
LEMMA DriverStarts ==
  ASSUME IInv, NEW t \in Threads \ Drivers, ~Idle(t), NEW d \in Drivers,
         NEW e0 \in Ids, th[t].on = e0, ~busy[e0],
         Spawn(t, d), busy' = [busy EXCEPT ![e0] = TRUE]
  PROVE  ThreadsOK' /\ SingleDriver' /\ busy' \in [Ids -> BOOLEAN]
<1> DEFINE r == [IdleThread EXCEPT !.todo = <<"turn">>, !.on = e0, !.prompt = th[t].prompt]
<1>1. th \in [Threads -> Thread] /\ d \in Threads /\ t # d
  BY DEF IInv, ThreadsOK, Threads
<1>2. th[t].prompt \in Prompt
  BY <1>1 DEF Thread
<1>3. Chain(<<"turn">>)
  BY DEF Chain, DriverOp, Op, Ends
<1>4. r \in Thread /\ r.todo = <<"turn">> /\ r.on = e0
  BY <1>2, <1>3, IdleTyped, ChainTyped DEF Thread
<1>5. th' = [th EXCEPT ![t] = IdleThread, ![d] = r]
  BY DEF Spawn
<1> HIDE DEF r
<1>6. th' \in [Threads -> Thread]
  BY <1>1, <1>4, <1>5, IdleTyped
<1>7. th'[t] = IdleThread /\ th'[d] = r /\ \A u \in Threads \ {t, d} : th'[u] = th[u]
  BY <1>1, <1>5
<1>8. ThreadsOK'
  <2>1. \A u \in Drivers : ~Idle(u)' => Chain(th'[u].todo)
    BY <1>3, <1>4, <1>7 DEF IInv, ThreadsOK, Idle, Threads
  <2>2. ~Idle(Feeder)' => th'[Feeder].prompt \in Replies
    BY <1>7, ErrandsAssumption DEF IInv, ThreadsOK, Idle, Threads, IdleThread
  <2>3. QED
    BY <1>6, <2>1, <2>2 DEF ThreadsOK
<1>9. busy \in [Ids -> BOOLEAN]
  BY DEF IInv, DataOK
<1>10. DriversOf(e0) = {}
  BY <1>2 DEF IInv, SingleDriver
<1>11. DriversOf(e0)' = {d}
  <2>1. \A u \in Drivers \ {d} : th'[u] = th[u]
    BY <1>7 DEF Threads
  <2>2. ~Idle(d)' /\ th'[d].on = e0
    BY <1>3, <1>4, <1>7 DEF Idle, Chain
  <2>3. d \in DriversOf(e0)'
    BY <2>2 DEF DriversOf
  <2>4. \A u \in Drivers \ {d} : u \notin DriversOf(e0)'
    BY <1>10, <2>1 DEF DriversOf, Idle
  <2>5. DriversOf(e0)' \subseteq Drivers
    BY DEF DriversOf
  <2>6. QED
    BY <2>3, <2>4, <2>5
<1>12. ASSUME NEW e \in Ids, e # e0
       PROVE  DriversOf(e)' = DriversOf(e)
  <2>1. \A u \in Drivers \ {d} : th'[u] = th[u]
    BY <1>7 DEF Threads
  <2>2. th'[d].on # e /\ Idle(d)
    BY <1>4, <1>7, <1>12 DEF Spawn
  <2>3. QED
    BY <2>1, <2>2 DEF DriversOf, Idle
<1>13. SingleDriver'
  <2>1. ASSUME NEW e \in Ids
        PROVE  /\ \A d1, d2 \in DriversOf(e)' : d1 = d2
               /\ busy'[e] <=> DriversOf(e)' # {}
    <3>1. CASE e = e0
      <4>1. busy'[e]
        BY <1>2, <1>9, <3>1
      <4>2. QED
        BY <1>11, <3>1, <4>1
    <3>2. CASE e # e0
      <4>1. busy'[e] = busy[e]
        BY <1>9, <3>2
      <4>2. QED
        BY <1>12, <3>2, <4>1 DEF IInv, SingleDriver
    <3>3. QED
      BY <3>1, <3>2
  <2>2. QED
    BY <2>1 DEF SingleDriver
<1>14. QED
  BY <1>8, <1>9, <1>13

LEMMA SameDrivers ==
  ASSUME SingleDriver, busy' = busy, \A e \in Ids : DriversOf(e)' = DriversOf(e)
  PROVE  SingleDriver'
BY DEF SingleDriver

-----------------------------------------------------------------------------
(* The invariant, one lemma per kind of step. *)

LEMMA InitInv == Init => IInv
<1> SUFFICES ASSUME Init PROVE IInv
  OBVIOUS
<1>1. Unborn \in Record /\ Missing \in File
  BY DEF Unborn, Record, Missing, File
<1>2. DataOK
  BY <1>1 DEF Init, DataOK
<1>3. ThreadsOK
  BY IdleTyped DEF Init, ThreadsOK, Threads, Idle, IdleThread
<1>4. \A e \in Ids : DriversOf(e) = {}
  BY DEF Init, DriversOf, Idle, Threads, IdleThread
<1>5. SingleDriver
  BY <1>4 DEF Init, SingleDriver
<1>6. QED
  BY <1>2, <1>3, <1>5 DEF IInv

LEMMA OwnerInv ==
  ASSUME IInv, Owner
  PROVE  IInv'
<1> USE DEF bounds, history, files
<1>1. PICK c \in Cmds, e \in Ids :
        \/ \E auto \in BOOLEAN : startErrand(c, e, auto)
        \/ approveErrand(c, e)
        \/ rejectErrand(c, e)
        \/ reviseErrandPlan(c, e)
        \/ cancelErrand(c, e)
  BY DEF Owner
<1>2. c \in Threads \ Drivers /\ c # Feeder
  BY ErrandsAssumption DEF Threads
<1>3. ASSUME NEW ops \in Seq(Op), NEW p \in Prompt, Begin(c, e, ops, p), busy' = busy
      PROVE  ThreadsOK' /\ SingleDriver'
  BY <1>2, <1>3, Begins, SameDrivers DEF IInv
<1>4. ASSUME Command(c)
      PROVE  issued' \in Nat
  BY <1>4 DEF Command, IInv, DataOK
<1>5. ASSUME NEW auto \in BOOLEAN, startErrand(c, e, auto)
      PROVE  IInv'
  <2>1. [Unborn EXCEPT !.status = IF auto THEN "active" ELSE "pending_approval",
                       !.auto = auto] \in Record
    BY NewbornTyped DEF Status
  <2>2. DataOK'
    BY <1>4, <1>5, <2>1 DEF startErrand, IInv, DataOK
  <2>3. /\ <<"create", "save", "claims">> \o <<"file", "drive">> \in Seq(Op)
        /\ <<"create", "save", "claims">> \o <<"drive">> \in Seq(Op)
    BY DEF Op
  <2>4. CASE auto
    BY <1>3, <1>5, <2>2, <2>3, <2>4 DEF startErrand, IInv, Prompt
  <2>5. CASE ~auto
    BY <1>3, <1>5, <2>2, <2>3, <2>5 DEF startErrand, IInv, Prompt
  <2>6. QED
    BY <2>4, <2>5
<1>6. CASE approveErrand(c, e)
  <2>1. DataOK'
    BY <1>4, <1>6 DEF approveErrand, IInv, DataOK
  <2>2. SetStatus("active") \o <<"file", "drive">> \in Seq(Op)
    BY DEF SetStatus, Op, Status
  <2>3. QED
    BY <1>3, <1>6, <2>1, <2>2 DEF approveErrand, IInv, Prompt
<1>7. CASE rejectErrand(c, e)
  <2>1. DataOK'
    BY <1>4, <1>7 DEF rejectErrand, IInv, DataOK
  <2>2. SetStatus("cancelled") \in Seq(Op)
    BY DEF SetStatus, Op, Status
  <2>3. QED
    BY <1>3, <1>7, <2>1, <2>2 DEF rejectErrand, IInv, Prompt
<1>8. CASE reviseErrandPlan(c, e)
  <2>1. DataOK'
    BY <1>4, <1>8 DEF reviseErrandPlan, IInv, DataOK
  <2>2. <<"drive">> \in Seq(Op)
    BY DEF Op
  <2>3. QED
    BY <1>3, <1>8, <2>1, <2>2 DEF reviseErrandPlan, IInv, Prompt
<1>9. CASE cancelErrand(c, e)
  <2>1. DataOK'
    <3>1. [rec[e] EXCEPT !.status = "cancelled"] \in Record
      BY StatusTyped DEF IInv, DataOK, Status
    <3>2. QED
      BY <1>4, <1>9, <3>1 DEF cancelErrand, IInv, DataOK
  <2>2. <<"save", "claims">> \in Seq(Op)
    BY DEF Op
  <2>3. QED
    BY <1>3, <1>9, <2>1, <2>2 DEF cancelErrand, IInv, Prompt
<1>10. QED
  BY <1>1, <1>5, <1>6, <1>7, <1>8, <1>9

LEMMA FeedInv ==
  ASSUME IInv, NEW m \in Replies, NEW e \in Ids, Feed(m, e)
  PROVE  IInv'
<1> USE DEF bounds, history, files
<1>1. Feeder \in Threads \ Drivers
  BY ErrandsAssumption DEF Threads
<1>2. DataOK'
  BY DEF Feed, IInv, DataOK
<1>3. <<"seen">> \in Seq(Op) /\ m \in Prompt
  BY DEF Op, Prompt
<1>4. ThreadsOK' /\ \A i \in Ids : DriversOf(i)' = DriversOf(i)
  BY <1>1, <1>3, Begins DEF Feed, IInv
<1>5. QED
  BY <1>2, <1>4, SameDrivers DEF Feed, IInv

LEMMA MarkSeenTyped ==
  ASSUME NEW s \in Seq(Replies), NEW m \in Replies
  PROVE  markSeen(s, m) \in Seq(Replies)
<1>1. Append(s, m) \in Seq(Replies) /\ Len(Append(s, m)) = Len(s) + 1 /\ Len(s) \in Nat
  OBVIOUS
<1> DEFINE a == Append(s, m)
<1>2. Tail(a) \in Seq(Replies)
  <2> HIDE DEF a
  <2>1. a \in Seq(Replies) /\ Len(a) \in Nat \ {0}
    BY <1>1 DEF a
  <2>2. a # <<>>
    BY <2>1
  <2>3. QED
    BY <2>1, <2>2
<1>3. QED
  BY <1>1, <1>2 DEF markSeen

LEMMA MarkSeenInv ==
  ASSUME IInv, MarkSeen(Feeder)
  PROVE  IInv'
<1> USE DEF bounds, history, files
<1>1. Feeder \in Threads /\ Feeder \notin Drivers /\ ~Idle(Feeder)
  BY ErrandsAssumption DEF MarkSeen, At, Idle, Threads
<1>2. /\ th[Feeder] \in Thread /\ th[Feeder].prompt \in Replies
      /\ th[Feeder].on \in Ids /\ rec[th[Feeder].on] \in Record
  BY <1>1 DEF IInv, ThreadsOK, DataOK, Thread
<1>3. PICK ops \in {<<>>, <<"save", "hear", "drive">>} : Goto(Feeder, ops)
  BY DEF MarkSeen
<1>4. <<>> \in Seq(Op) /\ <<"save", "hear", "drive">> \in Seq(Op)
  BY DEF Op
<1>5. ops \in Seq(Op)
  BY <1>3, <1>4
<1> DEFINE r == [th[Feeder] EXCEPT !.todo = ops]
<1>6. r \in Thread /\ r.prompt = th[Feeder].prompt
  BY <1>2, <1>5 DEF Thread
<1>7. Become(Feeder, r)
  BY <1>3 DEF Goto
<1> HIDE DEF r
<1>8. ThreadsOK' /\ SingleDriver'
  BY <1>1, <1>2, <1>6, <1>7, GoesOn, SameDrivers DEF MarkSeen, IInv
<1>9. [rec[th[Feeder].on] EXCEPT !.seen = markSeen(@, th[Feeder].prompt)] \in Record
  BY <1>2, MarkSeenTyped DEF Record
<1>10. DataOK'
  BY <1>2, <1>9 DEF MarkSeen, IInv, DataOK
<1>11. QED
  BY <1>8, <1>10 DEF IInv

LEMMA HearInv ==
  ASSUME IInv, Hear(Feeder)
  PROVE  IInv'
<1> USE DEF bounds, history, files
<1>1. Feeder \in Threads /\ ~Idle(Feeder) /\ Head(th[Feeder].todo) \notin Ends
  BY DEF Hear, At, Idle, Threads, Ends
<1>2. ThreadsOK' /\ \A e \in Ids : DriversOf(e)' = DriversOf(e)
  BY <1>1, RestGoesOn DEF Hear, IInv
<1>3. th[Feeder].prompt \in Replies /\ th[Feeder].on \in Ids
  BY <1>1 DEF IInv, ThreadsOK, Thread
<1>4. rec' \in [Ids -> Record]
  <2>1. [rec[th[Feeder].on] EXCEPT !.heard = Append(@, th[Feeder].prompt)] \in Record
    BY <1>3, HeardTyped DEF IInv, DataOK
  <2>2. QED
    BY <1>3, <2>1 DEF Hear, IInv, DataOK
<1>5. DataOK'
  BY <1>4 DEF Hear, IInv, DataOK
<1>6. QED
  BY <1>2, <1>5, SameDrivers DEF Hear, IInv

\* Two facts every operation of a running goroutine starts from.
LEMMA Runs ==
  ASSUME IInv, NEW t \in Threads, NEW op, At(t, op)
  PROVE  /\ ~Idle(t) /\ Head(th[t].todo) = op
         /\ th[t] \in Thread /\ th[t].on \in Ids
         /\ rec[th[t].on] \in Record
BY DEF At, Idle, IInv, ThreadsOK, DataOK, Thread

\* No driver comes to an operation that only the others have.
LEMMA DriverRuns ==
  ASSUME IInv, NEW t \in Drivers, ~Idle(t)
  PROVE  Head(th[t].todo) \in DriverOp
BY DEF IInv, ThreadsOK, Chain

LEMMA SharedInv ==
  ASSUME IInv, NEW t \in Threads, Shared(t)
  PROVE  IInv'
<1> USE DEF bounds, history, files
<1>1. CASE StoreStatus(t)
  <2>1. PICK s \in Status : /\ At(t, s)
                            /\ rec' = [rec EXCEPT ![th[t].on].status = s]
    BY <1>1 DEF StoreStatus
  <2>2. s \notin Ends
    BY DEF Status, Ends
  <2>3. ThreadsOK' /\ SingleDriver'
    BY <1>1, <2>1, <2>2, Runs, RestGoesOn, SameDrivers DEF StoreStatus, IInv
  <2>4. [rec[th[t].on] EXCEPT !.status = s] \in Record
    BY <2>1, Runs, StatusTyped
  <2>5. DataOK'
    BY <1>1, <2>1, <2>4, Runs DEF StoreStatus, IInv, DataOK
  <2>6. QED
    BY <2>3, <2>5 DEF IInv
<1>2. CASE OpenErrand(t)
  <2>1. ~Idle(t) /\ Head(th[t].todo) \notin Ends
    BY <1>2, Runs DEF OpenErrand, Ends
  <2>2. th[t] \in Thread /\ th[t].on \in Ids /\ rec[th[t].on] \in Record
    BY <1>2, Runs DEF OpenErrand
  <2>3. <<"write">> \in Seq(DriverOp)
    BY DEF DriverOp, Op
  <2>4. [th[t] EXCEPT !.todo = <<"write">> \o Rest(t), !.snap = rec[th[t].on]]
          = [th[t] EXCEPT !.todo = <<"write">> \o Rest(t), !.snap = rec[th[t].on],
                          !.claimed = th[t].claimed]
    BY <2>2 DEF Thread
  <2>5. th[t].claimed \in SUBSET Ids
    BY <2>2 DEF Thread
  <2>6. Become(t, [th[t] EXCEPT !.todo = <<"write">> \o Rest(t),
                                !.snap = rec[th[t].on], !.claimed = th[t].claimed])
    BY <1>2, <2>4 DEF OpenErrand
  <2>7. ThreadsOK' /\ SingleDriver'
    BY <1>2, <2>1, <2>2, <2>3, <2>5, <2>6, RunsOn, SameDrivers DEF OpenErrand, IInv
  <2>8. Empty \in File
    BY UnbornTyped DEF Empty, File
  <2>9. DataOK'
    BY <1>2, <2>2, <2>8 DEF OpenErrand, IInv, DataOK
  <2>10. QED
    BY <2>7, <2>9 DEF IInv
<1>3. CASE WriteErrand(t)
  <2>1. ~Idle(t) /\ Head(th[t].todo) \notin Ends
    BY <1>3, Runs DEF WriteErrand, Ends
  <2>2. th[t] \in Thread /\ th[t].on \in Ids
    BY <1>3, Runs DEF WriteErrand
  <2>3. Rest(t) \in Seq(Op) /\ <<>> \in Seq(DriverOp)
    BY <2>1, <2>2 DEF Thread, Rest, Idle
  <2>4. [th[t] EXCEPT !.todo = Rest(t), !.snap = Unborn]
          = [th[t] EXCEPT !.todo = <<>> \o Rest(t), !.snap = Unborn,
                          !.claimed = th[t].claimed]
    <3>1. <<>> \o Rest(t) = Rest(t)
      BY <2>3
    <3>2. QED
      BY <2>2, <3>1 DEF Thread
  <2>5. th[t].claimed \in SUBSET Ids
    BY <2>2 DEF Thread
  <2>6. Become(t, [th[t] EXCEPT !.todo = <<>> \o Rest(t), !.snap = Unborn,
                                !.claimed = th[t].claimed])
    BY <1>3, <2>4 DEF WriteErrand
  <2>7. ThreadsOK' /\ SingleDriver'
    BY <1>3, <2>1, <2>3, <2>5, <2>6, RunsOn, SameDrivers, UnbornTyped DEF WriteErrand, IInv
  <2>8. Torn \in File /\ Whole(th[t].snap) \in File
    BY <2>2, UnbornTyped DEF Torn, Whole, File, Thread
  <2>9. DataOK'
    <3>1. disk \in [Ids -> File]
      BY DEF IInv, DataOK
    <3>2. \/ disk' = [disk EXCEPT ![th[t].on] = Whole(th[t].snap)]
          \/ disk' = [disk EXCEPT ![th[t].on] = Torn]
      BY <1>3 DEF WriteErrand
    <3>3. disk' \in [Ids -> File]
      BY <2>2, <2>8, <3>1, <3>2
    <3>4. UNCHANGED <<rec, busy, pending, info, claims, bounds, history>>
      BY <1>3 DEF WriteErrand
    <3>5. QED
      BY <3>3, <3>4 DEF IInv, DataOK, bounds, history
  <2>10. QED
    BY <2>7, <2>9 DEF IInv
<1>4. CASE CreateFails(t)
  <2>1. t \notin Drivers /\ ~Idle(t) /\ th[t] \in Thread
    BY <1>4, Runs, DriverRuns DEF CreateFails, DriverOp
  <2>2. [th[t] EXCEPT !.todo = <<>>] \in Thread
    <3>1. <<>> \in Seq(Op)
      OBVIOUS
    <3>2. QED
      BY <2>1, <3>1 DEF Thread
  <2>3. [th[t] EXCEPT !.todo = <<>>].todo = <<>>
    BY <2>1 DEF Thread
  <2>4. Become(t, [th[t] EXCEPT !.todo = <<>>])
    BY <1>4 DEF CreateFails, Goto
  <2>5. ThreadsOK' /\ SingleDriver'
    BY <1>4, <2>1, <2>2, <2>3, <2>4, GoesOn, SameDrivers DEF CreateFails, IInv
  <2>6. QED
    BY <1>4, <2>5 DEF CreateFails, IInv, DataOK
<1>5. CASE CollectClaims(t)
  <2>1. ~Idle(t) /\ Head(th[t].todo) \notin Ends /\ th[t] \in Thread
    BY <1>5, Runs DEF CollectClaims, Ends
  <2>2. <<"putClaims">> \in Seq(DriverOp)
    BY DEF DriverOp, Op
  <2>3. [th[t] EXCEPT !.todo = <<"putClaims">> \o Rest(t), !.claimed = activeIds]
          = [th[t] EXCEPT !.todo = <<"putClaims">> \o Rest(t), !.snap = th[t].snap,
                          !.claimed = activeIds]
    BY <2>1 DEF Thread
  <2>4. th[t].snap \in Record /\ activeIds \in SUBSET Ids
    BY <2>1 DEF Thread, activeIds
  <2>5. Become(t, [th[t] EXCEPT !.todo = <<"putClaims">> \o Rest(t), !.snap = th[t].snap,
                                !.claimed = activeIds])
    BY <1>5, <2>3 DEF CollectClaims
  <2>6. ThreadsOK' /\ SingleDriver'
    BY <1>5, <2>1, <2>2, <2>4, <2>5, RunsOn, SameDrivers DEF CollectClaims, IInv
  <2>7. QED
    BY <1>5, <2>6 DEF CollectClaims, IInv, DataOK
<1>6. CASE SaveClaims(t)
  <2>1. ~Idle(t) /\ Head(th[t].todo) \notin Ends /\ th[t] \in Thread
    BY <1>6, Runs DEF SaveClaims, Ends
  <2>2. Rest(t) \in Seq(Op) /\ <<>> \in Seq(DriverOp)
    BY <2>1 DEF Thread, Rest, Idle
  <2>3. [th[t] EXCEPT !.todo = Rest(t), !.claimed = {}]
          = [th[t] EXCEPT !.todo = <<>> \o Rest(t), !.snap = th[t].snap, !.claimed = {}]
    <3>1. <<>> \o Rest(t) = Rest(t)
      BY <2>2
    <3>2. QED
      BY <2>1, <3>1 DEF Thread
  <2>4. th[t].snap \in Record /\ th[t].claimed \in SUBSET Ids
    BY <2>1 DEF Thread
  <2>5. Become(t, [th[t] EXCEPT !.todo = <<>> \o Rest(t), !.snap = th[t].snap,
                                !.claimed = {}])
    BY <1>6, <2>3 DEF SaveClaims
  <2>6. ThreadsOK' /\ SingleDriver'
    BY <1>6, <2>1, <2>2, <2>4, <2>5, RunsOn, SameDrivers DEF SaveClaims, IInv
  <2>7. QED
    BY <1>6, <2>4, <2>6 DEF SaveClaims, IInv, DataOK
<1>7. CASE EnsureInterviewFile(t)
  <2>1. ~Idle(t) /\ Head(th[t].todo) \notin Ends /\ th[t] \in Thread
    BY <1>7, Runs DEF EnsureInterviewFile, Ends
  <2>2. CASE Goto(t, Rest(t))
    BY <1>7, <2>1, <2>2, RestGoesOn, SameDrivers
       DEF EnsureInterviewFile, IInv, DataOK
  <2>3. CASE Goto(t, <<"header", "save">> \o Rest(t))
    <3>1. <<"header", "save">> \in Seq(DriverOp)
      BY DEF DriverOp, Op
    <3>2. [th[t] EXCEPT !.todo = <<"header", "save">> \o Rest(t)]
            = [th[t] EXCEPT !.todo = <<"header", "save">> \o Rest(t),
                            !.snap = th[t].snap, !.claimed = th[t].claimed]
      BY <2>1 DEF Thread
    <3>3. th[t].snap \in Record /\ th[t].claimed \in SUBSET Ids
      BY <2>1 DEF Thread
    <3>4. Become(t, [th[t] EXCEPT !.todo = <<"header", "save">> \o Rest(t),
                                  !.snap = th[t].snap, !.claimed = th[t].claimed])
      BY <2>3, <3>2 DEF Goto
    <3>5. ThreadsOK' /\ SingleDriver'
      BY <1>7, <2>1, <3>1, <3>3, <3>4, RunsOn, SameDrivers DEF EnsureInterviewFile, IInv
    <3>6. QED
      BY <1>7, <3>5 DEF EnsureInterviewFile, IInv, DataOK
  <2>4. QED
    BY <1>7, <2>2, <2>3 DEF EnsureInterviewFile
<1>8. CASE WriteHeader(t)
  <2>1. ~Idle(t) /\ Head(th[t].todo) \notin Ends
    BY <1>8, Runs DEF WriteHeader, Ends
  <2>2. ThreadsOK' /\ SingleDriver'
    BY <1>8, <2>1, RestGoesOn, SameDrivers DEF WriteHeader, IInv
  <2>3. th[t].on \in Ids /\ [rec[th[t].on] EXCEPT !.file = TRUE] \in Record
    BY <1>8, Runs DEF WriteHeader, Record
  <2>4. DataOK'
    BY <1>8, <2>3 DEF WriteHeader, IInv, DataOK
  <2>5. QED
    BY <2>2, <2>4 DEF IInv
<1>9. CASE Drive(t)
  <2>1. t \in Threads \ Drivers /\ ~Idle(t) /\ th[t] \in Thread
    BY <1>9, Runs, DriverRuns DEF Drive, DriverOp
  <2>2. PICK e \in Ids : th[t].on = e
    BY <2>1 DEF Thread
  <2>3. CASE busy[e]
    <3>1. [th[t] EXCEPT !.todo = <<>>] \in Thread
      <4>1. <<>> \in Seq(Op)
        OBVIOUS
      <4>2. QED
        BY <2>1, <4>1 DEF Thread
    <3>2. [th[t] EXCEPT !.todo = <<>>].todo = <<>>
      BY <2>1 DEF Thread
    <3>3. Become(t, [th[t] EXCEPT !.todo = <<>>])
      BY <1>9, <2>2, <2>3 DEF Drive, Goto
    <3>4. busy' = busy
      BY <1>9, <2>2, <2>3 DEF Drive
    <3>5. ThreadsOK' /\ SingleDriver'
      BY <2>1, <3>1, <3>2, <3>3, <3>4, GoesOn, SameDrivers DEF IInv
    <3>6. Append(pending[e], th[t].prompt) \in Seq(Prompt)
      BY <2>1 DEF IInv, DataOK, Thread
    <3>7. pending' = [pending EXCEPT ![e] = Append(@, th[t].prompt)]
      BY <1>9, <2>2, <2>3 DEF Drive
    <3>8. DataOK'
      BY <1>9, <3>4, <3>6, <3>7 DEF Drive, IInv, DataOK
    <3>9. QED
      BY <3>5, <3>8 DEF IInv
  <2>4. CASE ~busy[e]
    <3>1. PICK d \in Drivers : Spawn(t, d)
      BY <1>9, <2>2, <2>4 DEF Drive
    <3>2. busy' = [busy EXCEPT ![e] = TRUE] /\ pending' = pending
      BY <1>9, <2>2, <2>4 DEF Drive
    <3>3. ThreadsOK' /\ SingleDriver' /\ busy' \in [Ids -> BOOLEAN]
      BY <2>1, <2>2, <2>4, <3>1, <3>2, DriverStarts
    <3>4. QED
      BY <1>9, <3>2, <3>3 DEF Drive, IInv, DataOK
  <2>5. QED
    BY <2>3, <2>4
<1>10. QED
  BY <1>1, <1>2, <1>3, <1>4, <1>5, <1>6, <1>7, <1>8, <1>9 DEF Shared

\* What a step of a driver does to the rest of the state, in the two cases: the
\* driver goes on, or it exits.
LEMMA DriverInv ==
  ASSUME IInv, NEW t \in Drivers, Driver(t)
  PROVE  IInv'
<1> USE DEF bounds, history, files
<1>0. t \in Threads
  BY DEF Threads
<1>1. ASSUME NEW ops, Chain(ops), ~Idle(t), Goto(t, ops), busy' = busy
      PROVE  ThreadsOK' /\ SingleDriver'
  BY <1>1, DriverGoes, SameDrivers DEF IInv
<1>2. ASSUME ~Idle(t), Head(th[t].todo) \notin Ends, Goto(t, Rest(t)), busy' = busy
      PROVE  ThreadsOK' /\ SingleDriver'
  BY <1>0, <1>2, RestGoesOn, SameDrivers DEF IInv
<1>3. /\ Chain(<<"ask">>) /\ Chain(<<"work">>) /\ Chain(<<"next">>) /\ Chain(<<"turn">>)
      /\ Chain(<<"save", "next">>) /\ Chain(<<"save", "more">>)
  BY DEF Chain, DriverOp, Op, Ends
<1>4. /\ \A s \in {"active", "done", "failed", "cancelled"} :
           /\ SetStatus(s) \in Seq(DriverOp)
           /\ Chain(SetStatus(s) \o <<"next">>)
           /\ Chain(SetStatus(s) \o <<"stop">>)
  BY DEF SetStatus, Status, Chain, DriverOp, Op, Ends
<1>5. ASSUME NEW p \in Prompt, NEW k \in Nat, NEW ops, Chain(ops), ~Idle(t), busy' = busy,
             Become(t, [th[t] EXCEPT !.todo = ops, !.prompt = p, !.turns = k])
      PROVE  ThreadsOK' /\ SingleDriver'
  <2> DEFINE r == [th[t] EXCEPT !.todo = ops, !.prompt = p, !.turns = k]
  <2>1. th[t] \in Thread
    BY <1>0 DEF IInv, ThreadsOK
  <2>2. r \in Thread /\ r.todo = ops /\ r.on = th[t].on
    BY <1>5, <2>1, ChainTyped DEF Thread
  <2>3. t # Feeder
    BY ErrandsAssumption
  <2> HIDE DEF r
  <2>4. QED
    BY <1>0, <1>5, <2>2, <2>3, GoesOn, SameDrivers DEF IInv, r
<1>6. CASE Turn(t)
  <2>1. ~Idle(t) /\ th[t] \in Thread /\ th[t].on \in Ids /\ rec[th[t].on] \in Record
    BY <1>0, <1>6, Runs DEF Turn
  <2>2. CASE /\ Goto(t, <<"ask">>)
             /\ asked' = [asked EXCEPT ![th[t].on] =
                             IF th[t].prompt \in Replies THEN Append(@, th[t].prompt) ELSE @]
             /\ UNCHANGED busy
    <3>1. asked' \in [Ids -> Seq(Replies)]
      <4>1. CASE th[t].prompt \in Replies
        <5>1. Append(asked[th[t].on], th[t].prompt) \in Seq(Replies)
          BY <2>1, <4>1 DEF IInv, DataOK
        <5>2. QED
          BY <2>1, <2>2, <4>1, <5>1 DEF IInv, DataOK
      <4>2. CASE th[t].prompt \notin Replies
        BY <2>1, <2>2, <4>2 DEF IInv, DataOK
      <4>3. QED
        BY <4>1, <4>2
    <3>2. DataOK'
      BY <1>6, <2>2, <3>1 DEF Turn, IInv, DataOK
    <3>3. QED
      BY <1>1, <1>3, <2>1, <2>2, <3>2 DEF IInv
  <2>3. CASE /\ Become(t, [th[t] EXCEPT !.todo = <<"work">>, !.turns = @ + 1])
             /\ UNCHANGED <<busy, asked>>
    <3>1. [th[t] EXCEPT !.todo = <<"work">>, !.turns = @ + 1]
            = [th[t] EXCEPT !.todo = <<"work">>, !.prompt = th[t].prompt,
                            !.turns = th[t].turns + 1]
      BY <2>1 DEF Thread
    <3>2. th[t].prompt \in Prompt /\ th[t].turns + 1 \in Nat
      BY <2>1 DEF Thread
    <3>3. Become(t, [th[t] EXCEPT !.todo = <<"work">>, !.prompt = th[t].prompt,
                                  !.turns = th[t].turns + 1])
      BY <2>3, <3>1
    <3>4. ThreadsOK' /\ SingleDriver'
      BY <1>3, <1>5, <2>1, <2>3, <3>2, <3>3
    <3>5. QED
      BY <1>6, <2>3, <3>4 DEF Turn, IInv, DataOK
  <2>4. CASE Exit(t) /\ UNCHANGED asked
    <3>1. ThreadsOK' /\ SingleDriver' /\ busy' \in [Ids -> BOOLEAN]
      BY <2>1, <2>4, DriverExits
    <3>2. QED
      BY <1>6, <2>4, <3>1 DEF Turn, IInv, DataOK
  <2>5. QED
    BY <1>6, <2>2, <2>3, <2>4 DEF Turn
<1>7. CASE CannotRun(t)
  <2>1. ~Idle(t)
    BY <1>0, <1>7, Runs DEF CannotRun
  <2>2. ThreadsOK' /\ SingleDriver'
    BY <1>1, <1>4, <1>7, <2>1 DEF CannotRun
  <2>3. QED
    BY <1>7, <2>2 DEF CannotRun, IInv, DataOK
<1>8. CASE Ask(t)
  <2>1. ~Idle(t)
    BY <1>0, <1>8, Runs DEF Ask
  <2>2. CASE Goto(t, <<"save", "next">>)
    BY <1>1, <1>3, <1>8, <2>1, <2>2 DEF Ask, IInv, DataOK
  <2>3. ASSUME NEW record \in BOOLEAN, NEW handoff \in BOOLEAN, NEW n \in 0..MaxMsgs,
               Goto(t, <<"save", "apply">> \o Live(record, n, handoff))
        PROVE  IInv'
    <3>1. n \in Nat
      BY ErrandsAssumption
    <3>2. Chain(Live(record, n, handoff))
      BY <3>1, LiveChain
    <3>3. <<"save", "apply">> \in Seq(DriverOp)
      BY DEF DriverOp, Op
    <3>4. Chain(<<"save", "apply">> \o Live(record, n, handoff))
      BY <3>2, <3>3, ChainConcat
    <3>5. ThreadsOK' /\ SingleDriver'
      BY <1>1, <1>8, <2>1, <2>3, <3>4 DEF Ask
    <3>6. QED
      BY <1>8, <3>5 DEF Ask, IInv, DataOK
  <2>4. QED
    BY <1>8, <2>2, <2>3 DEF Ask
<1>9. CASE Apply(t)
  <2>1. ~Idle(t) /\ Head(th[t].todo) \notin Ends
    BY <1>0, <1>9, Runs DEF Apply, Ends
  <2>2. ThreadsOK' /\ SingleDriver'
    BY <1>1, <1>2, <1>3, <1>9, <2>1 DEF Apply
  <2>3. QED
    BY <1>9, <2>2 DEF Apply, IInv, DataOK
<1>10. CASE WriteRecord(t)
  <2>1. ~Idle(t) /\ Head(th[t].todo) \notin Ends
    BY <1>0, <1>10, Runs DEF WriteRecord, Ends
  <2>2. ThreadsOK' /\ SingleDriver'
    BY <1>2, <1>10, <2>1 DEF WriteRecord
  <2>3. QED
    BY <1>10, <2>2 DEF WriteRecord, IInv, DataOK
<1>11. CASE SendMsg(t)
  <2>1. /\ ~Idle(t) /\ Head(th[t].todo) \notin Ends
        /\ th[t].on \in Ids /\ rec[th[t].on] \in Record
    BY <1>0, <1>11, Runs DEF SendMsg, Ends
  <2>2. outbox' \in [Ids -> SUBSET (Status \cup {"absent"})]
    <3>1. PICK e \in Ids : th[t].on = e
      BY <2>1
    <3>2. outbox \in [Ids -> SUBSET (Status \cup {"absent"})]
      BY DEF IInv, DataOK
    <3>3. rec[e].status \in Status \cup {"absent"}
      BY <2>1, <3>1 DEF Record
    <3>4. outbox[e] \cup {rec[e].status} \in SUBSET (Status \cup {"absent"})
      BY <3>2, <3>3
    <3>5. outbox' = [outbox EXCEPT ![e] = outbox[e] \cup {rec[e].status}] \/ outbox' = outbox
      BY <1>11, <3>1 DEF SendMsg
    <3>6. QED
      BY <3>2, <3>4, <3>5
  <2>3. DataOK'
    BY <1>11, <2>2 DEF SendMsg, IInv, DataOK
  <2>4. CASE Goto(t, Rest(t))
    BY <1>2, <1>11, <2>1, <2>3, <2>4 DEF SendMsg, IInv
  <2>5. ASSUME NEW k \in 2..Len(th[t].todo),
               Goto(t, SubSeq(th[t].todo, k, Len(th[t].todo)))
        PROVE  IInv'
    <3>1. Chain(SubSeq(th[t].todo, k, Len(th[t].todo)))
      BY <2>1, ChainSubSeq DEF IInv, ThreadsOK
    <3>2. QED
      BY <1>1, <1>11, <2>1, <2>3, <2>5, <3>1 DEF SendMsg, IInv
  <2>6. QED
    BY <1>11, <2>4, <2>5 DEF SendMsg
<1>12. CASE TranscriptFallback(t)
  <2>1. ~Idle(t) /\ Head(th[t].todo) \notin Ends /\ th[t].on \in Ids
    BY <1>0, <1>12, Runs DEF TranscriptFallback, Ends
  <2>2. ThreadsOK' /\ SingleDriver'
    BY <1>2, <1>12, <2>1 DEF TranscriptFallback
  <2>3. QED
    BY <1>12, <2>1, <2>2 DEF TranscriptFallback, IInv, DataOK
<1>13. CASE Handoff(t)
  <2>1. /\ ~Idle(t) /\ Head(th[t].todo) \notin Ends
        /\ th[t] \in Thread /\ th[t].on \in Ids /\ rec[th[t].on] \in Record
    BY <1>0, <1>13, Runs DEF Handoff, Ends
  <2>2. Chain(Rest(t))
    BY <2>1, ChainTail DEF IInv, ThreadsOK, Rest
  <2>3. [th[t] EXCEPT !.todo = Rest(t), !.prompt = "work"]
          = [th[t] EXCEPT !.todo = Rest(t), !.prompt = "work", !.turns = th[t].turns]
    BY <2>1 DEF Thread
  <2>4. th[t].turns \in Nat /\ "work" \in Prompt
    BY <2>1 DEF Thread, Prompt
  <2>5. Become(t, [th[t] EXCEPT !.todo = Rest(t), !.prompt = "work",
                                !.turns = th[t].turns])
    BY <1>13, <2>3 DEF Handoff
  <2>6. ThreadsOK' /\ SingleDriver'
    BY <1>5, <1>13, <2>1, <2>2, <2>4, <2>5 DEF Handoff
  <2>7. [rec[th[t].on] EXCEPT !.status = "producing"] \in Record
    BY <2>1, StatusTyped DEF Status
  <2>8. <<>> \in Seq(Prompt)
    OBVIOUS
  <2>9. DataOK'
    BY <1>13, <2>1, <2>7, <2>8 DEF Handoff, IInv, DataOK
  <2>10. QED
    BY <2>6, <2>9 DEF IInv
<1>14. CASE DeliverCollected(t)
  <2>1. /\ ~Idle(t) /\ Head(th[t].todo) \notin Ends
        /\ th[t].on \in Ids /\ rec[th[t].on] \in Record
    BY <1>0, <1>14, Runs DEF DeliverCollected, Ends
  <2>2. ThreadsOK' /\ SingleDriver'
    BY <1>2, <1>14, <2>1 DEF DeliverCollected
  <2>3. [rec[th[t].on] EXCEPT !.delivered = TRUE] \in Record
    BY <2>1 DEF Record
  <2>4. rec' \in [Ids -> Record]
    BY <1>14, <2>1, <2>3 DEF DeliverCollected, IInv, DataOK
  <2>5. QED
    BY <1>14, <2>2, <2>4 DEF DeliverCollected, IInv, DataOK
<1>15. CASE NextPrompt(t)
  <2>1. ~Idle(t) /\ th[t] \in Thread
    BY <1>0, <1>15, Runs DEF NextPrompt
  <2>2. PICK e \in Ids : th[t].on = e
    BY <2>1 DEF Thread
  <2>3. CASE pending[e] # <<>>
    <3>1. Head(pending[e]) \in Prompt /\ Tail(pending[e]) \in Seq(Prompt)
      BY <2>3 DEF IInv, DataOK
    <3>2. [th[t] EXCEPT !.todo = <<"turn">>, !.prompt = Head(pending[e])]
            = [th[t] EXCEPT !.todo = <<"turn">>, !.prompt = Head(pending[e]),
                            !.turns = th[t].turns]
      BY <2>1 DEF Thread
    <3>3. Become(t, [th[t] EXCEPT !.todo = <<"turn">>, !.prompt = Head(pending[e]),
                                  !.turns = th[t].turns])
      BY <1>15, <2>2, <2>3, <3>2 DEF NextPrompt
    <3>4. th[t].turns \in Nat /\ busy' = busy
      BY <1>15, <2>1, <2>2, <2>3 DEF NextPrompt, Thread
    <3>5. ThreadsOK' /\ SingleDriver'
      BY <1>3, <1>5, <2>1, <3>1, <3>3, <3>4
    <3>6. pending' = [pending EXCEPT ![e] = Tail(@)]
      BY <1>15, <2>2, <2>3 DEF NextPrompt
    <3>7. DataOK'
      BY <1>15, <3>1, <3>4, <3>6 DEF NextPrompt, IInv, DataOK
    <3>8. QED
      BY <3>5, <3>7 DEF IInv
  <2>4. CASE pending[e] = <<>>
    <3>1. Exit(t) /\ pending' = pending
      BY <1>15, <2>2, <2>4 DEF NextPrompt
    <3>2. ThreadsOK' /\ SingleDriver' /\ busy' \in [Ids -> BOOLEAN]
      BY <2>1, <3>1, DriverExits
    <3>3. QED
      BY <1>15, <3>1, <3>2 DEF NextPrompt, IInv, DataOK
  <2>5. QED
    BY <2>3, <2>4
<1>16. CASE Work(t)
  <2>1. ~Idle(t)
    BY <1>0, <1>16, Runs DEF Work
  <2>2. /\ Chain(<<"save", "outputs", "save", "more">>)
        /\ Chain(<<"save", "outputs">> \o SetStatus("failed") \o <<"stop">>)
        /\ Chain(<<"save", "outputs", "ensureDelivered">> \o SetStatus("done") \o <<"stop">>)
    BY DEF SetStatus, Status, Chain, DriverOp, Op, Ends
  <2>3. ThreadsOK' /\ SingleDriver'
    BY <1>1, <1>3, <1>16, <2>1, <2>2 DEF Work
  <2>4. QED
    BY <1>16, <2>3 DEF Work, IInv, DataOK
<1>17. CASE EnsureDelivered(t)
  <2>1. ~Idle(t) /\ Head(th[t].todo) \notin Ends
    BY <1>0, <1>17, Runs DEF EnsureDelivered, Ends
  <2>2. Chain(Rest(t))
    BY <2>1, ChainTail DEF IInv, ThreadsOK, Rest
  <2>3. <<"collected">> \in Seq(DriverOp)
    BY DEF DriverOp, Op
  <2>4. Chain(<<"collected">> \o Rest(t))
    BY <2>2, <2>3, ChainConcat
  <2>5. ThreadsOK' /\ SingleDriver'
    BY <1>1, <1>17, <2>1, <2>2, <2>4 DEF EnsureDelivered
  <2>6. QED
    BY <1>17, <2>5 DEF EnsureDelivered, IInv, DataOK
<1>18. CASE More(t)
  <2>1. ~Idle(t)
    BY <1>0, <1>18, Runs DEF More
  <2>2. ThreadsOK' /\ SingleDriver'
    BY <1>1, <1>3, <1>4, <1>18, <2>1 DEF More
  <2>3. QED
    BY <1>18, <2>2 DEF More, IInv, DataOK
<1>19. CASE Stop(t)
  <2>1. ~Idle(t)
    BY <1>0, <1>19, Runs DEF Stop
  <2>2. ThreadsOK' /\ SingleDriver' /\ busy' \in [Ids -> BOOLEAN]
    BY <1>19, <2>1, DriverExits DEF Stop
  <2>3. QED
    BY <1>19, <2>2 DEF Stop, IInv, DataOK
<1>20. CASE SendOutputs(t)
  <2>1. /\ ~Idle(t) /\ Head(th[t].todo) \notin Ends
        /\ th[t].on \in Ids /\ rec[th[t].on] \in Record
    BY <1>0, <1>20, Runs DEF SendOutputs, Ends
  <2>2. ThreadsOK' /\ SingleDriver'
    BY <1>2, <1>20, <2>1 DEF SendOutputs
  <2>3. PICK e \in Ids : th[t].on = e
    BY <2>1
  <2>4. rec' \in [Ids -> Record]
    <3>1. PICK sent \in BOOLEAN : rec' = [rec EXCEPT ![e].delivered = @ \/ sent]
      BY <1>20, <2>3 DEF SendOutputs
    <3>2. rec[e].delivered \in BOOLEAN /\ rec[e] \in Record
      BY <2>1, <2>3 DEF Record
    <3>3. (rec[e].delivered \/ sent) \in BOOLEAN
      BY <3>2
    <3>4. [rec[e] EXCEPT !.delivered = @ \/ sent] \in Record
      BY <3>2, <3>3 DEF Record
    <3>5. QED
      BY <3>1, <3>4 DEF IInv, DataOK
  <2>5. outbox' \in [Ids -> SUBSET (Status \cup {"absent"})]
    <3>1. outbox \in [Ids -> SUBSET (Status \cup {"absent"})]
      BY DEF IInv, DataOK
    <3>2. outbox[e] \cup {rec[e].status} \in SUBSET (Status \cup {"absent"})
      BY <2>1, <2>3, <3>1 DEF Record
    <3>3. outbox' = [outbox EXCEPT ![e] = outbox[e] \cup {rec[e].status}] \/ outbox' = outbox
      BY <1>20, <2>3 DEF SendOutputs
    <3>4. QED
      BY <3>1, <3>2, <3>3
  <2>6. DataOK'
    BY <1>20, <2>4, <2>5 DEF SendOutputs, IInv, DataOK
  <2>7. QED
    BY <2>2, <2>6 DEF IInv
<1>21. QED
  BY <1>6, <1>7, <1>8, <1>9, <1>10, <1>11, <1>12, <1>13, <1>14, <1>15, <1>16,
     <1>17, <1>18, <1>19, <1>20 DEF Driver

LEMMA PanicInv ==
  ASSUME IInv, NEW t \in Drivers, Panic(t)
  PROVE  IInv'
<1>1. t \in Threads
  BY DEF Threads
<1>2. ~Idle(t)
  BY <1>1, Runs DEF Panic
<1>3. ThreadsOK' /\ SingleDriver' /\ busy' \in [Ids -> BOOLEAN]
  BY <1>2, DriverExits DEF Panic
<1>4. QED
  BY <1>3 DEF Panic, IInv, DataOK, files, bounds, history

LEMMA CrashInv ==
  ASSUME IInv, Crash
  PROVE  IInv'
<1>1. rec' \in [Ids -> Record]
  <2>1. \A e \in Ids : disk[e].data \in Record
    BY DEF IInv, DataOK, File
  <2>2. QED
    BY <2>1, UnbornTyped DEF Crash
<1>2. pending' \in [Ids -> Seq(Prompt)]
  BY DEF Crash
<1>3. claims' \in SUBSET Ids /\ busy' \in [Ids -> BOOLEAN] /\ crashes' \in Nat
  BY DEF Crash, IInv, DataOK
<1>4. DataOK'
  BY <1>1, <1>2, <1>3 DEF Crash, IInv, DataOK, history
<1>5. th' = [u \in Threads |-> IdleThread]
  BY DEF Crash
<1>6. ThreadsOK'
  BY <1>5, IdleTyped DEF ThreadsOK, Threads, Idle, IdleThread
<1>7. \A e \in Ids : DriversOf(e)' = {} /\ ~busy'[e]
  BY <1>5 DEF Crash, DriversOf, Idle, Threads, IdleThread
<1>8. SingleDriver'
  BY <1>7 DEF SingleDriver
<1>9. QED
  BY <1>4, <1>6, <1>8 DEF IInv

LEMMA StepInv == IInv /\ [Next]_vars => IInv'
<1> SUFFICES ASSUME IInv, [Next]_vars PROVE IInv'
  OBVIOUS
<1>1. CASE UNCHANGED vars
  BY <1>1 DEF vars, IInv, DataOK, ThreadsOK, SingleDriver, DriversOf, Idle, Threads
<1>2. CASE Next
  <2>1. ASSUME NEW t \in Drivers, Driver(t) \/ Panic(t)
        PROVE  IInv'
    BY <2>1, DriverInv, PanicInv
  <2>2. QED
    BY <1>2, <2>1, OwnerInv, FeedInv, MarkSeenInv, HearInv, SharedInv, CrashInv DEF Next
<1>3. QED
  BY <1>1, <1>2

-----------------------------------------------------------------------------
(* The theorems. *)

\* In every reachable state, whatever the constants, IInv holds.
THEOREM Inductive == Spec => []IInv
<1>1. Init => IInv
  BY InitInv
<1>2. IInv /\ [Next]_vars => IInv'
  BY StepInv
<1>3. QED
  BY <1>1, <1>2, PTL DEF Spec

\* Every variable keeps the kind of value the code gives it.
THEOREM TypeCorrect == Spec => []TypeOK
<1>1. IInv => TypeOK
  BY DEF IInv, DataOK, ThreadsOK, TypeOK
<1>2. QED
  BY <1>1, Inductive, PTL

\* For any number of errands, commands, replies, drivers, panics and restarts, at
\* most one goroutine drives an errand, and busy says exactly whether one does
\* (driveErrandAsync, driveErrand and its recover).
THEOREM DriverExclusion == Spec => []SingleDriver
<1>1. IInv => SingleDriver
  BY DEF IInv
<1>2. QED
  BY <1>1, Inductive, PTL

-----------------------------------------------------------------------------
(* The contact hears nothing while an errand waits for approval. *)

\* An operation of K that is sure to be reached: what stands behind an "apply" depends on
\* the status read there, so only what comes before one counts.
Ahead(K, s) == \E i \in 1..Len(s) : s[i] \in K /\ \A j \in 1..(i-1) : s[j] # "apply"

\* What may message the contact.
Speaks == {"work", "msg", "outputs"}

\* Only errands that were born have a record, a file or a goroutine.
BornOnly ==
  /\ \A e \in Ids \ born : rec[e].status = "absent" /\ disk[e].data.status = "absent"
  /\ \A t \in Threads : ~Idle(t) => th[t].on \in born

\* A goroutine about to speak is on an errand that has left pending_approval, a
\* status nothing comes back to.
LoudApproved ==
  \A t \in Threads : Ahead(Speaks, th[t].todo) => rec[th[t].on].status # "pending_approval"

SInv == BornOnly /\ LoudApproved /\ SilentWhilePending

-----------------------------------------------------------------------------
(* Sequences of operations. *)

LEMMA QuietSeq ==
  ASSUME NEW K, NEW s \in Seq(Op \ K)
  PROVE  ~Ahead(K, s)
BY DEF Ahead

LEMMA QuietConcat ==
  ASSUME NEW K, NEW s \in Seq(Op \ K), NEW r \in Seq(Op), Ahead(K, s \o r)
  PROVE  Ahead(K, r)
<1>1. PICK i \in 1..Len(s \o r) :
        (s \o r)[i] \in K /\ \A j \in 1..(i-1) : (s \o r)[j] # "apply"
  BY DEF Ahead
<1>2. /\ Len(s) \in Nat /\ Len(r) \in Nat
      /\ Len(s \o r) = Len(s) + Len(r)
      /\ \A k \in 1..Len(s) : (s \o r)[k] = s[k] /\ s[k] \notin K
      /\ \A k \in 1..Len(r) : (s \o r)[Len(s) + k] = r[k]
  <2>1. s \in Seq(Op)
    OBVIOUS
  <2>2. QED
    BY <2>1
<1>3. i > Len(s)
  BY <1>1, <1>2
<1>4. i - Len(s) \in 1..Len(r) /\ r[i - Len(s)] \in K
  <2>1. i - Len(s) \in 1..Len(r) /\ Len(s) + (i - Len(s)) = i
    BY <1>2, <1>3
  <2>2. QED
    BY <1>1, <1>2, <2>1
<1>5. ASSUME NEW j \in 1..((i - Len(s)) - 1)
      PROVE  r[j] # "apply"
  <2>1. j \in 1..Len(r) /\ Len(s) + j \in 1..(i-1)
    BY <1>2, <1>3
  <2>2. QED
    BY <1>1, <1>2, <2>1
<1>6. QED
  BY <1>4, <1>5 DEF Ahead

LEMMA AheadTail ==
  ASSUME NEW K, NEW s \in Seq(Op), s # <<>>, Head(s) # "apply", Ahead(K, Tail(s))
  PROVE  Ahead(K, s)
<1>1. PICK i \in 1..Len(Tail(s)) :
        Tail(s)[i] \in K /\ \A j \in 1..(i-1) : Tail(s)[j] # "apply"
  BY DEF Ahead
<1>2. /\ Len(s) \in Nat \ {0} /\ Len(Tail(s)) = Len(s) - 1
      /\ \A k \in 1..Len(Tail(s)) : Tail(s)[k] = s[k + 1]
  BY HeadTailProperties
<1>3. i + 1 \in 1..Len(s) /\ s[i + 1] \in K
  BY <1>1, <1>2
<1>4. ASSUME NEW j \in 1..((i + 1) - 1)
      PROVE  s[j] # "apply"
  <2>1. CASE j = 1
    BY <2>1
  <2>2. CASE j # 1
    <3>1. j - 1 \in 1..(i-1) /\ j - 1 \in 1..Len(Tail(s)) /\ (j - 1) + 1 = j
      BY <1>2, <2>2
    <3>2. QED
      BY <1>1, <1>2, <3>1
  <2>3. QED
    BY <2>1, <2>2
<1>5. QED
  BY <1>3, <1>4 DEF Ahead

\* Whatever a turn asked for, nothing of it is reached before its status is read.
LEMMA AskQuiet ==
  ASSUME NEW K, "save" \notin K, "apply" \notin K, NEW r \in Seq(Op)
  PROVE  ~Ahead(K, <<"save", "apply">> \o r)
<1> DEFINE s == <<"save", "apply">> \o r
<1>1. s[1] = "save" /\ s[2] = "apply" /\ Len(s) = 2 + Len(r) /\ Len(r) \in Nat
  <2>1. <<"save", "apply">> \in Seq(Op)
    BY DEF Op
  <2>2. QED
    BY <2>1
<1>2. SUFFICES ASSUME NEW i \in 1..Len(s), s[i] \in K,
                      \A j \in 1..(i-1) : s[j] # "apply"
               PROVE  FALSE
  BY DEF Ahead
<1>3. i # 1 /\ i # 2
  BY <1>1, <1>2
<1>4. 2 \in 1..(i-1)
  BY <1>1, <1>3
<1>5. QED
  BY <1>1, <1>2, <1>4

-----------------------------------------------------------------------------
(* Goroutines. *)

\* A goroutine t that continues as r, in a step that makes no errand pending but a
\* new one.
LEMMA Moves ==
  ASSUME IInv, SInv, NEW t \in Threads, NEW r, Become(t, r),
         born \subseteq born',
         r.todo # <<>> => r.on \in born',
         Ahead(Speaks, r.todo) => rec'[r.on].status # "pending_approval",
         \A e \in Ids : rec'[e].status = "pending_approval"
                          => rec[e].status = "pending_approval" \/ e \notin born,
         \A e \in Ids \ born' : rec'[e].status = "absent" /\ disk'[e].data.status = "absent",
         SilentWhilePending'
  PROVE  SInv'
<1> DEFINE n == IF r.todo = <<>> THEN IdleThread ELSE r
<1>1. th \in [Threads -> Thread]
  BY DEF IInv, ThreadsOK
<1>2. th' = [th EXCEPT ![t] = n]
  BY DEF Become
<1>3. th'[t] = n /\ \A u \in Threads \ {t} : th'[u] = th[u]
  BY <1>1, <1>2
<1>4. ~Ahead(Speaks, <<>>)
  BY DEF Ahead
<1>5. ASSUME NEW u \in Threads
      PROVE  /\ ~Idle(u)' => th'[u].on \in born'
             /\ Ahead(Speaks, th'[u].todo) => rec'[th'[u].on].status # "pending_approval"
  <2>1. CASE u = t /\ r.todo = <<>>
    BY <1>3, <1>4, <2>1 DEF Idle, IdleThread
  <2>2. CASE u = t /\ r.todo # <<>>
    BY <1>3, <2>2
  <2>3. CASE u # t
    <3>1. th'[u] = th[u] /\ th[u].on \in Ids
      BY <1>1, <1>3, <2>3 DEF Thread
    <3>2. ~Idle(u) => th[u].on \in born
      BY DEF SInv, BornOnly
    <3>3. Ahead(Speaks, th[u].todo) => ~Idle(u) /\ rec[th[u].on].status # "pending_approval"
      BY <1>4 DEF SInv, LoudApproved, Idle
    <3>4. QED
      BY <3>1, <3>2, <3>3 DEF Idle
  <2>4. QED
    BY <2>1, <2>2, <2>3
<1>6. BornOnly'
  BY <1>5 DEF BornOnly
<1>7. LoudApproved'
  BY <1>5 DEF LoudApproved
<1>8. QED
  BY <1>6, <1>7 DEF SInv

\* What a running goroutine leaves as it was: it touches its own errand only, sets
\* no status to pending_approval, and sends nothing while it is.
Kept(t) ==
  /\ born' = born
  /\ \A e \in Ids : \/ rec'[e].status = rec[e].status
                    \/ e = th[t].on /\ rec'[e].status # "pending_approval"
  /\ \A e \in Ids : disk'[e] = disk[e] \/ e = th[t].on
  /\ \A e \in Ids : "pending_approval" \in outbox'[e] => "pending_approval" \in outbox[e]

LEMMA Continues ==
  ASSUME IInv, SInv, NEW t \in Threads, ~Idle(t), NEW r, Become(t, r),
         r.on = th[t].on, Kept(t),
         Ahead(Speaks, r.todo) => rec'[th[t].on].status # "pending_approval"
  PROVE  SInv'
<1>1. th[t].on \in born
  BY DEF SInv, BornOnly
<1>2. \A e \in Ids \ born' : rec'[e].status = "absent" /\ disk'[e].data.status = "absent"
  BY <1>1 DEF Kept, SInv, BornOnly
<1>3. SilentWhilePending'
  BY DEF Kept, SInv, SilentWhilePending
<1>4. \A e \in Ids : rec'[e].status = "pending_approval"
                       => rec[e].status = "pending_approval" \/ e \notin born
  BY DEF Kept
<1>5. born \subseteq born' /\ r.on \in born'
  BY <1>1 DEF Kept
<1>6. QED
  BY <1>2, <1>3, <1>4, <1>5, Moves

\* It goes on with nothing that speaks ...
LEMMA ContinuesQuietly ==
  ASSUME IInv, SInv, NEW t \in Threads, ~Idle(t), NEW r, Become(t, r),
         r.on = th[t].on, Kept(t), r.todo \in Seq(Op \ Speaks)
  PROVE  SInv'
BY QuietSeq, Continues

\* ... or with the rest of what it had to do, after something that does not.
LEMMA ContinuesWithRest ==
  ASSUME IInv, SInv, NEW t \in Threads, ~Idle(t), Head(th[t].todo) # "apply",
         NEW ops \in Seq(Op \ Speaks), NEW r, Become(t, r),
         r.on = th[t].on, Kept(t), r.todo = ops \o Rest(t)
  PROVE  SInv'
<1>1. th[t].todo \in Seq(Op) /\ th[t].todo # <<>> /\ th[t].on \in Ids
  BY DEF IInv, ThreadsOK, Thread, Idle
<1>2. Rest(t) \in Seq(Op)
  BY <1>1 DEF Rest
<1>3. ASSUME Ahead(Speaks, r.todo)  PROVE  Ahead(Speaks, th[t].todo)
  <2>1. Ahead(Speaks, ops \o Rest(t))
    BY <1>3
  <2>2. Ahead(Speaks, Rest(t))
    BY <1>2, <2>1, QuietConcat
  <2>3. Ahead(Speaks, Tail(th[t].todo))
    BY <2>2 DEF Rest
  <2>4. QED
    BY <1>1, <2>3, AheadTail
<1>4. Ahead(Speaks, r.todo) => rec'[th[t].on].status # "pending_approval"
  BY <1>1, <1>3 DEF SInv, LoudApproved, Kept
<1>5. QED
  BY <1>4, Continues

LEMMA GoesQuietly ==
  ASSUME IInv, SInv, NEW t \in Threads, ~Idle(t), NEW ops \in Seq(Op \ Speaks),
         Goto(t, ops), Kept(t)
  PROVE  SInv'
<1> DEFINE r == [th[t] EXCEPT !.todo = ops]
<1>1. th[t] \in Thread
  BY DEF IInv, ThreadsOK
<1>2. r.todo = ops /\ r.on = th[t].on
  BY <1>1 DEF Thread
<1>3. Become(t, r)
  BY DEF Goto
<1> HIDE DEF r
<1>4. QED
  BY <1>2, <1>3, ContinuesQuietly

LEMMA GoesToRest ==
  ASSUME IInv, SInv, NEW t \in Threads, ~Idle(t), Head(th[t].todo) # "apply",
         NEW ops \in Seq(Op \ Speaks), Goto(t, ops \o Rest(t)), Kept(t)
  PROVE  SInv'
<1> DEFINE r == [th[t] EXCEPT !.todo = ops \o Rest(t)]
<1>1. th[t] \in Thread
  BY DEF IInv, ThreadsOK
<1>2. r.todo = ops \o Rest(t) /\ r.on = th[t].on
  BY <1>1 DEF Thread
<1>3. Become(t, r)
  BY DEF Goto
<1> HIDE DEF r
<1>4. QED
  BY <1>2, <1>3, ContinuesWithRest

LEMMA TakesRest ==
  ASSUME IInv, SInv, NEW t \in Threads, ~Idle(t), Head(th[t].todo) # "apply",
         Goto(t, Rest(t)), Kept(t)
  PROVE  SInv'
<1>1. th[t].todo \in Seq(Op) /\ th[t].todo # <<>>
  BY DEF IInv, ThreadsOK, Thread, Idle
<1>2. Rest(t) \in Seq(Op) /\ <<>> \o Rest(t) = Rest(t) /\ <<>> \in Seq(Op \ Speaks)
  BY <1>1 DEF Rest
<1>3. QED
  BY <1>2, GoesToRest

\* On an errand that is not pending it may go on with anything ...
LEMMA GoesFreely ==
  ASSUME IInv, SInv, NEW t \in Threads, ~Idle(t), NEW ops, Goto(t, ops), Kept(t),
         rec'[th[t].on].status # "pending_approval"
  PROVE  SInv'
<1> DEFINE r == [th[t] EXCEPT !.todo = ops]
<1>1. r.on = th[t].on
  BY DEF IInv, ThreadsOK, Thread
<1>2. Become(t, r)
  BY DEF Goto
<1> HIDE DEF r
<1>3. QED
  BY <1>1, <1>2, Continues

\* ... and it is on one when it speaks.
LEMMA SpeakerApproved ==
  ASSUME IInv, SInv, NEW t \in Threads, NEW op \in Speaks, At(t, op)
  PROVE  ~Idle(t) /\ rec[th[t].on].status # "pending_approval"
<1>1. ~Idle(t) /\ Head(th[t].todo) = op /\ th[t].todo \in Seq(Op)
  BY Runs DEF Thread
<1>2. 1 \in 1..Len(th[t].todo) /\ th[t].todo[1] \in Speaks
  BY <1>1 DEF Idle
<1>3. \A j \in 1..(1-1) : th[t].todo[j] # "apply"
  OBVIOUS
<1>4. Ahead(Speaks, th[t].todo)
  BY <1>2, <1>3 DEF Ahead
<1>5. QED
  BY <1>1, <1>4 DEF SInv, LoudApproved

\* A command goroutine or the subscribe loop takes on a born errand.
LEMMA BeginsQuietly ==
  ASSUME IInv, SInv, NEW t \in Threads, NEW e \in born', NEW ops \in Seq(Op \ Speaks),
         NEW p, Begin(t, e, ops, p), born \subseteq born',
         \A i \in Ids : rec'[i].status = "pending_approval"
                          => rec[i].status = "pending_approval" \/ i \notin born,
         \A i \in Ids \ born' : rec'[i].status = "absent",
         UNCHANGED <<disk, outbox>>
  PROVE  SInv'
<1> DEFINE r == [IdleThread EXCEPT !.todo = ops, !.on = e, !.prompt = p]
<1>1. r.todo = ops /\ r.on = e
  BY DEF IdleThread
<1>2. Become(t, r)
  BY DEF Begin
<1>3. ~Ahead(Speaks, ops)
  BY QuietSeq
<1>4. \A i \in Ids \ born' : rec'[i].status = "absent" /\ disk'[i].data.status = "absent"
  BY DEF SInv, BornOnly
<1>5. SilentWhilePending'
  BY DEF SInv, SilentWhilePending
<1> HIDE DEF r
<1>6. QED
  BY <1>1, <1>2, <1>3, <1>4, <1>5, Moves

-----------------------------------------------------------------------------
(* Every step. *)

LEMMA InitSilent == Init => SInv
<1> SUFFICES ASSUME Init PROVE SInv
  OBVIOUS
<1>1. BornOnly
  BY DEF Init, BornOnly, Unborn, Missing, Idle, IdleThread
<1>2. ~Ahead(Speaks, <<>>)
  BY DEF Ahead
<1>3. LoudApproved
  BY <1>2 DEF Init, LoudApproved, IdleThread
<1>4. QED
  BY <1>1, <1>3 DEF Init, SInv, SilentWhilePending

LEMMA StatusIsQuiet ==
  ASSUME NEW s \in Status \ {"pending_approval"}
  PROVE  SetStatus(s) \in Seq(Op \ Speaks)
BY DEF SetStatus, Op, Speaks, Status

LEMMA OwnerSilent ==
  ASSUME IInv, SInv, Owner
  PROVE  SInv'
<1> USE DEF bounds, history, files
<1>1. PICK c \in Cmds, e \in Ids :
        \/ \E auto \in BOOLEAN : startErrand(c, e, auto)
        \/ approveErrand(c, e)
        \/ rejectErrand(c, e)
        \/ reviseErrandPlan(c, e)
        \/ cancelErrand(c, e)
  BY DEF Owner
<1>2. c \in Threads
  BY DEF Threads
<1>3. \A i \in Ids \ born : rec[i].status = "absent"
  BY DEF SInv, BornOnly
<1>4. rec \in [Ids -> Record]
  BY DEF IInv, DataOK
<1>5. ASSUME NEW auto \in BOOLEAN, startErrand(c, e, auto)
      PROVE  SInv'
  <2>1. PICK ops \in {<<"create", "save", "claims">> \o <<"file", "drive">>,
                      <<"create", "save", "claims">> \o <<"drive">>} :
          \E p : Begin(c, e, ops, p)
    BY <1>5 DEF startErrand
  <2>2. ops \in Seq(Op \ Speaks)
    <3>1. <<"create", "save", "claims">> \in Seq(Op \ Speaks)
      BY DEF Op, Speaks
    <3>2. <<"file", "drive">> \in Seq(Op \ Speaks) /\ <<"drive">> \in Seq(Op \ Speaks)
      BY DEF Op, Speaks
    <3>3. \A u, v \in Seq(Op \ Speaks) : u \o v \in Seq(Op \ Speaks)
      OBVIOUS
    <3>4. QED
      BY <2>1, <3>1, <3>2, <3>3
  <2>3. e \in born' /\ born \subseteq born' /\ e \notin born
    BY <1>5 DEF startErrand
  <2>4. \A i \in Ids \ {e} : rec'[i] = rec[i]
    BY <1>4, <1>5 DEF startErrand
  <2>5. QED
    BY <1>2, <1>3, <1>5, <2>1, <2>2, <2>3, <2>4, BeginsQuietly DEF startErrand
<1>6. ASSUME rec[e].status # "absent", NEW ops \in Seq(Op \ Speaks), NEW p,
             Begin(c, e, ops, p), UNCHANGED <<rec, born, disk, outbox>>
      PROVE  SInv'
  <2>1. e \in born'
    BY <1>3, <1>6
  <2>2. QED
    BY <1>2, <1>3, <1>6, <2>1, BeginsQuietly
<1>7. CASE approveErrand(c, e)
  <2>1. SetStatus("active") \o <<"file", "drive">> \in Seq(Op \ Speaks)
    <3>1. SetStatus("active") \in Seq(Op \ Speaks)
      BY StatusIsQuiet DEF Status
    <3>2. <<"file", "drive">> \in Seq(Op \ Speaks)
      BY DEF Op, Speaks
    <3>3. QED
      BY <3>1, <3>2
  <2>2. QED
    BY <1>6, <1>7, <2>1 DEF approveErrand, pendingErrand
<1>8. CASE rejectErrand(c, e)
  <2>1. SetStatus("cancelled") \in Seq(Op \ Speaks)
    BY StatusIsQuiet DEF Status
  <2>2. QED
    BY <1>6, <1>8, <2>1 DEF rejectErrand, pendingErrand
<1>9. CASE reviseErrandPlan(c, e)
  <2>1. <<"drive">> \in Seq(Op \ Speaks)
    BY DEF Op, Speaks
  <2>2. QED
    BY <1>6, <1>9, <2>1 DEF reviseErrandPlan, pendingErrand
<1>10. CASE cancelErrand(c, e)
  <2>1. <<"save", "claims">> \in Seq(Op \ Speaks)
    BY DEF Op, Speaks
  <2>2. e \in born' /\ born' = born
    BY <1>3, <1>10 DEF cancelErrand
  <2>3. /\ \A i \in Ids \ {e} : rec'[i] = rec[i]
        /\ rec'[e].status = "cancelled"
    BY <1>4, <1>10 DEF cancelErrand, Record
  <2>4. QED
    BY <1>2, <1>3, <1>10, <2>1, <2>2, <2>3, BeginsQuietly DEF cancelErrand
<1>11. QED
  BY <1>1, <1>5, <1>7, <1>8, <1>9, <1>10

LEMMA FeedSilent ==
  ASSUME IInv, SInv, NEW m \in Replies, NEW e \in Ids, Feed(m, e)
  PROVE  SInv'
<1>1. Feeder \in Threads
  BY DEF Threads
<1>2. e \in born'
  BY DEF Feed, active, SInv, BornOnly, bounds
<1>3. <<"seen">> \in Seq(Op \ Speaks)
  BY DEF Op, Speaks
<1>4. \A i \in Ids \ born : rec[i].status = "absent"
  BY DEF SInv, BornOnly
<1>5. QED
  BY <1>1, <1>2, <1>3, <1>4, BeginsQuietly DEF Feed, bounds, files, history

LEMMA MarkSeenSilent ==
  ASSUME IInv, SInv, MarkSeen(Feeder)
  PROVE  SInv'
<1>1. Feeder \in Threads /\ ~Idle(Feeder)
  BY Runs DEF MarkSeen, Threads
<1>2. PICK ops \in {<<>>, <<"save", "hear", "drive">>} : Goto(Feeder, ops)
  BY DEF MarkSeen
<1>3. ops \in Seq(Op \ Speaks)
  <2>1. <<>> \in Seq(Op \ Speaks)
    OBVIOUS
  <2>2. <<"save", "hear", "drive">> \in Seq(Op \ Speaks)
    BY DEF Op, Speaks
  <2>3. QED
    BY <2>1, <2>2
<1>4. \A e \in Ids : rec'[e].status = rec[e].status
  <2> DEFINE x == markSeen(rec[th[Feeder].on].seen, th[Feeder].prompt)
  <2>1. rec' = [rec EXCEPT ![th[Feeder].on].seen = x]
    BY DEF MarkSeen
  <2> HIDE DEF x
  <2>2. QED
    BY <2>1 DEF IInv, DataOK, Record
<1>5. Kept(Feeder)
  BY <1>4 DEF MarkSeen, Kept, bounds, files, history
<1>6. QED
  BY <1>1, <1>2, <1>3, <1>5, GoesQuietly

LEMMA HearSilent ==
  ASSUME IInv, SInv, Hear(Feeder)
  PROVE  SInv'
<1>1. Feeder \in Threads /\ ~Idle(Feeder) /\ Head(th[Feeder].todo) # "apply"
  BY Runs DEF Hear, Threads
<1>2. \A e \in Ids : rec'[e].status = rec[e].status
  BY DEF Hear, IInv, DataOK, Record
<1>3. Kept(Feeder)
  BY <1>2 DEF Hear, Kept, bounds, files, history
<1>4. QED
  BY <1>1, <1>3, TakesRest DEF Hear

LEMMA DriveSilent ==
  ASSUME IInv, SInv, NEW t \in Threads, Drive(t)
  PROVE  SInv'
<1> USE DEF bounds, history, files
<1>1. ~Idle(t) /\ th[t].on \in born
  BY Runs DEF Drive, SInv, BornOnly
<1>2. CASE Goto(t, <<>>)
  <2>1. Kept(t)
    BY DEF Drive, Kept
  <2>2. <<>> \in Seq(Op \ Speaks)
    OBVIOUS
  <2>3. QED
    BY <1>1, <1>2, <2>1, <2>2, GoesQuietly
<1>3. CASE \E d \in Drivers : Spawn(t, d)
  <2>1. PICK d \in Drivers : Spawn(t, d)
    BY <1>3
  <2>2. th \in [Threads -> Thread] /\ d \in Threads
    BY DEF IInv, ThreadsOK, Threads
  <2>3. /\ \A u \in Threads \ {t, d} : th'[u] = th[u]
        /\ th'[d].todo = <<"turn">> /\ th'[d].on = th[t].on
        /\ t # d => th'[t] = IdleThread
    BY <2>1, <2>2 DEF Spawn, IdleThread
  <2>4. ~Ahead(Speaks, <<>>) /\ ~Ahead(Speaks, <<"turn">>)
    <3>1. <<"turn">> \in Seq(Op \ Speaks)
      BY DEF Op, Speaks
    <3>2. QED
      BY <3>1, QuietSeq DEF Ahead
  <2>5. ASSUME NEW u \in Threads
        PROVE  /\ ~Idle(u)' => th'[u].on \in born
               /\ Ahead(Speaks, th'[u].todo) => rec[th'[u].on].status # "pending_approval"
    <3>1. CASE u \notin {t, d}
      BY <2>3, <3>1 DEF Idle, SInv, BornOnly, LoudApproved
    <3>2. CASE u = d
      BY <1>1, <2>3, <2>4, <3>2
    <3>3. CASE u = t /\ u # d
      BY <2>3, <2>4, <3>3 DEF Idle, IdleThread
    <3>4. QED
      BY <3>1, <3>2, <3>3
  <2>6. BornOnly'
    BY <2>5 DEF Drive, SInv, BornOnly
  <2>7. LoudApproved'
    BY <2>5 DEF Drive, LoudApproved
  <2>8. QED
    BY <2>6, <2>7 DEF Drive, SInv, SilentWhilePending
<1>4. QED
  BY <1>2, <1>3 DEF Drive

LEMMA SharedSilent ==
  ASSUME IInv, SInv, NEW t \in Threads, Shared(t)
  PROVE  SInv'
<1> USE DEF bounds, history, files
<1>0. rec \in [Ids -> Record] /\ disk \in [Ids -> File] /\ th \in [Threads -> Thread]
  BY DEF IInv, DataOK, ThreadsOK
<1>1. CASE StoreStatus(t)
  <2>1. PICK s \in Status : At(t, s) /\ rec' = [rec EXCEPT ![th[t].on].status = s]
    BY <1>1 DEF StoreStatus
  <2>2. ~Idle(t) /\ Head(th[t].todo) = s /\ th[t].todo \in Seq(Op)
    BY <2>1, Runs DEF Thread
  <2>3. s # "apply" /\ s # "pending_approval"
    <3>1. Head(th[t].todo) \in Op
      BY <2>2 DEF Idle
    <3>2. QED
      BY <2>2, <3>1 DEF Op, Status
  <2>4. Kept(t)
    BY <1>0, <1>1, <2>1, <2>3 DEF StoreStatus, Kept, Record
  <2>5. QED
    BY <1>1, <2>2, <2>3, <2>4, TakesRest DEF StoreStatus
<1>2. CASE OpenErrand(t)
  <2> DEFINE r == [th[t] EXCEPT !.todo = <<"write">> \o Rest(t), !.snap = rec[th[t].on]]
  <2>1. ~Idle(t) /\ Head(th[t].todo) # "apply" /\ th[t] \in Thread
    BY <1>2, Runs DEF OpenErrand
  <2>2. <<"write">> \in Seq(Op \ Speaks)
    BY DEF Op, Speaks
  <2>3. r.todo = <<"write">> \o Rest(t) /\ r.on = th[t].on
    BY <2>1 DEF Thread
  <2>4. Kept(t)
    BY <1>0, <1>2 DEF OpenErrand, Kept
  <2>5. Become(t, r)
    BY <1>2 DEF OpenErrand
  <2> HIDE DEF r
  <2>6. QED
    BY <2>1, <2>2, <2>3, <2>4, <2>5, ContinuesWithRest
<1>3. CASE WriteErrand(t)
  <2> DEFINE r == [th[t] EXCEPT !.todo = Rest(t), !.snap = Unborn]
  <2>1. ~Idle(t) /\ Head(th[t].todo) # "apply" /\ th[t] \in Thread
    BY <1>3, Runs DEF WriteErrand
  <2>2. <<>> \in Seq(Op \ Speaks) /\ <<>> \o Rest(t) = Rest(t)
    BY <2>1 DEF Rest, Thread, Idle
  <2>3. r.todo = <<>> \o Rest(t) /\ r.on = th[t].on
    BY <2>1, <2>2 DEF Thread
  <2>4. Kept(t)
    BY <1>0, <1>3 DEF WriteErrand, Kept
  <2>5. Become(t, r)
    BY <1>3 DEF WriteErrand
  <2> HIDE DEF r
  <2>6. QED
    BY <2>1, <2>2, <2>3, <2>4, <2>5, ContinuesWithRest
<1>4. CASE CreateFails(t)
  <2>1. ~Idle(t)
    BY <1>4, Runs DEF CreateFails
  <2>2. Kept(t)
    BY <1>4 DEF CreateFails, Kept
  <2>3. <<>> \in Seq(Op \ Speaks)
    OBVIOUS
  <2>4. QED
    BY <1>4, <2>1, <2>2, <2>3, GoesQuietly DEF CreateFails
<1>5. CASE CollectClaims(t)
  <2> DEFINE r == [th[t] EXCEPT !.todo = <<"putClaims">> \o Rest(t), !.claimed = activeIds]
  <2>1. ~Idle(t) /\ Head(th[t].todo) # "apply" /\ th[t] \in Thread
    BY <1>5, Runs DEF CollectClaims
  <2>2. <<"putClaims">> \in Seq(Op \ Speaks)
    BY DEF Op, Speaks
  <2>3. r.todo = <<"putClaims">> \o Rest(t) /\ r.on = th[t].on
    BY <2>1 DEF Thread
  <2>4. Kept(t)
    BY <1>5 DEF CollectClaims, Kept
  <2>5. Become(t, r)
    BY <1>5 DEF CollectClaims
  <2> HIDE DEF r
  <2>6. QED
    BY <2>1, <2>2, <2>3, <2>4, <2>5, ContinuesWithRest
<1>6. CASE SaveClaims(t)
  <2> DEFINE r == [th[t] EXCEPT !.todo = Rest(t), !.claimed = {}]
  <2>1. ~Idle(t) /\ Head(th[t].todo) # "apply" /\ th[t] \in Thread
    BY <1>6, Runs DEF SaveClaims
  <2>2. <<>> \in Seq(Op \ Speaks) /\ <<>> \o Rest(t) = Rest(t)
    BY <2>1 DEF Rest, Thread, Idle
  <2>3. r.todo = <<>> \o Rest(t) /\ r.on = th[t].on
    BY <2>1, <2>2 DEF Thread
  <2>4. Kept(t)
    BY <1>6 DEF SaveClaims, Kept
  <2>5. Become(t, r)
    BY <1>6 DEF SaveClaims
  <2> HIDE DEF r
  <2>6. QED
    BY <2>1, <2>2, <2>3, <2>4, <2>5, ContinuesWithRest
<1>7. CASE EnsureInterviewFile(t)
  <2>1. ~Idle(t) /\ Head(th[t].todo) # "apply"
    BY <1>7, Runs DEF EnsureInterviewFile
  <2>2. Kept(t)
    BY <1>7 DEF EnsureInterviewFile, Kept
  <2>3. <<"header", "save">> \in Seq(Op \ Speaks)
    BY DEF Op, Speaks
  <2>4. Goto(t, <<"header", "save">> \o Rest(t)) \/ Goto(t, Rest(t))
    BY <1>7 DEF EnsureInterviewFile
  <2>5. QED
    BY <2>1, <2>2, <2>3, <2>4, GoesToRest, TakesRest
<1>8. CASE WriteHeader(t)
  <2>1. ~Idle(t) /\ Head(th[t].todo) # "apply"
    BY <1>8, Runs DEF WriteHeader
  <2>2. \A e \in Ids : rec'[e].status = rec[e].status
    BY <1>0, <1>8 DEF WriteHeader, Record
  <2>3. Kept(t)
    BY <1>8, <2>2 DEF WriteHeader, Kept
  <2>4. QED
    BY <1>8, <2>1, <2>3, TakesRest DEF WriteHeader
<1>9. CASE Drive(t)
  BY <1>9, DriveSilent
<1>10. QED
  BY <1>1, <1>2, <1>3, <1>4, <1>5, <1>6, <1>7, <1>8, <1>9 DEF Shared

LEMMA DriverSilent ==
  ASSUME IInv, SInv, NEW t \in Drivers, Driver(t) \/ Panic(t)
  PROVE  SInv'
<1> USE DEF bounds, history, files
<1>0. /\ rec \in [Ids -> Record] /\ outbox \in [Ids -> SUBSET (Status \cup {"absent"})]
      /\ t \in Threads
  BY DEF IInv, DataOK, Threads
<1>1. /\ <<>> \in Seq(Op \ Speaks)
      /\ <<"ask">> \in Seq(Op \ Speaks)
      /\ <<"next">> \in Seq(Op \ Speaks)
      /\ <<"stop">> \in Seq(Op \ Speaks)
      /\ <<"turn">> \in Seq(Op \ Speaks)
      /\ <<"collected">> \in Seq(Op \ Speaks)
      /\ <<"save", "next">> \in Seq(Op \ Speaks)
      /\ <<"save", "more">> \in Seq(Op \ Speaks)
  <2>1. <<>> \in Seq(Op \ Speaks)
    OBVIOUS
  <2>2. QED
    BY <2>1 DEF Op, Speaks
<1>2. SetStatus("failed") \in Seq(Op \ Speaks)
  BY StatusIsQuiet DEF Status
<1>3. /\ SetStatus("failed") \o <<"next">> \in Seq(Op \ Speaks)
      /\ SetStatus("failed") \o <<"stop">> \in Seq(Op \ Speaks)
  BY <1>1, <1>2
<1>4. ASSUME NEW k, NEW p, NEW ops \in Seq(Op \ Speaks), ~Idle(t), Kept(t),
             Become(t, [th[t] EXCEPT !.todo = ops, !.prompt = p, !.turns = k])
      PROVE  SInv'
  <2> DEFINE r == [th[t] EXCEPT !.todo = ops, !.prompt = p, !.turns = k]
  <2>1. th[t] \in Thread
    BY <1>0 DEF IInv, ThreadsOK
  <2>2. r.todo = ops /\ r.on = th[t].on
    BY <2>1 DEF Thread
  <2>3. Become(t, r)
    BY <1>4
  <2> HIDE DEF r
  <2>4. QED
    BY <1>0, <1>4, <2>2, <2>3, ContinuesQuietly
<1>5. CASE Turn(t)
  <2>1. ~Idle(t) /\ th[t] \in Thread
    BY <1>0, <1>5, Runs DEF Turn
  <2>2. Kept(t)
    BY <1>5 DEF Turn, Kept
  <2>3. CASE Goto(t, <<"ask">>) \/ Goto(t, <<>>)
    BY <1>0, <1>1, <2>1, <2>2, <2>3, GoesQuietly
  <2>4. CASE /\ rec[th[t].on].status = "producing"
             /\ Become(t, [th[t] EXCEPT !.todo = <<"work">>, !.turns = @ + 1])
    <3> DEFINE r == [th[t] EXCEPT !.todo = <<"work">>, !.turns = @ + 1]
    <3>1. r.on = th[t].on
      BY <2>1 DEF Thread
    <3>2. rec'[th[t].on].status # "pending_approval"
      BY <1>5, <2>4 DEF Turn
    <3>3. Become(t, r)
      BY <2>4
    <3> HIDE DEF r
    <3>4. QED
      BY <1>0, <2>1, <2>2, <3>1, <3>2, <3>3, Continues
  <2>5. QED
    BY <1>5, <2>3, <2>4 DEF Turn, Exit
<1>6. CASE CannotRun(t)
  <2>1. ~Idle(t)
    BY <1>0, <1>6, Runs DEF CannotRun
  <2>2. Kept(t)
    BY <1>6 DEF CannotRun, Kept
  <2>3. QED
    BY <1>0, <1>3, <1>6, <2>1, <2>2, GoesQuietly DEF CannotRun
<1>7. CASE Ask(t)
  <2>1. ~Idle(t)
    BY <1>0, <1>7, Runs DEF Ask
  <2>2. Kept(t)
    BY <1>7 DEF Ask, Kept
  <2>3. CASE Goto(t, <<"save", "next">>)
    BY <1>0, <1>1, <2>1, <2>2, <2>3, GoesQuietly
  <2>4. ASSUME NEW record \in BOOLEAN, NEW handoff \in BOOLEAN, NEW n \in 0..MaxMsgs,
               Goto(t, <<"save", "apply">> \o Live(record, n, handoff))
        PROVE  SInv'
    <3> DEFINE ops == <<"save", "apply">> \o Live(record, n, handoff)
               r == [th[t] EXCEPT !.todo = ops]
    <3>1. Live(record, n, handoff) \in Seq(Op)
      <4>1. n \in Nat
        BY ErrandsAssumption
      <4>2. QED
        BY <4>1, LiveChain, ChainTyped
    <3>2. ~Ahead(Speaks, ops)
      BY <3>1, AskQuiet DEF Speaks
    <3> HIDE DEF ops
    <3>3. r.todo = ops /\ r.on = th[t].on
      BY <1>0 DEF IInv, ThreadsOK, Thread
    <3>4. Become(t, r)
      BY <2>4 DEF Goto, ops
    <3> HIDE DEF r
    <3>5. QED
      BY <1>0, <2>1, <2>2, <3>2, <3>3, <3>4, Continues
  <2>5. QED
    BY <1>7, <2>3, <2>4 DEF Ask
<1>8. CASE Apply(t)
  <2>1. ~Idle(t)
    BY <1>0, <1>8, Runs DEF Apply
  <2>2. Kept(t)
    BY <1>8 DEF Apply, Kept
  <2>3. CASE pendingErrand(th[t].on)
    BY <1>0, <1>1, <1>8, <2>1, <2>2, <2>3, GoesQuietly DEF Apply
  <2>4. CASE ~pendingErrand(th[t].on)
    BY <1>0, <1>8, <2>1, <2>2, <2>4, GoesFreely DEF Apply, pendingErrand
  <2>5. QED
    BY <2>3, <2>4
<1>9. CASE WriteRecord(t) \/ TranscriptFallback(t)
  <2>1. ~Idle(t) /\ Head(th[t].todo) # "apply"
    BY <1>0, <1>9, Runs DEF WriteRecord, TranscriptFallback
  <2>2. Kept(t)
    BY <1>9 DEF WriteRecord, TranscriptFallback, Kept
  <2>3. QED
    BY <1>0, <1>9, <2>1, <2>2, TakesRest DEF WriteRecord, TranscriptFallback
<1>10. CASE SendMsg(t)
  <2>1. ~Idle(t) /\ rec[th[t].on].status # "pending_approval"
    BY <1>0, <1>10, SpeakerApproved DEF SendMsg, Speaks
  <2>2. Kept(t)
    BY <1>0, <1>10, <2>1 DEF SendMsg, Kept
  <2>3. PICK ops : Goto(t, ops)
    BY <1>10 DEF SendMsg
  <2>4. QED
    BY <1>0, <1>10, <2>1, <2>2, <2>3, GoesFreely DEF SendMsg
<1>11. CASE Handoff(t)
  <2> DEFINE r == [th[t] EXCEPT !.todo = Rest(t), !.prompt = "work"]
  <2>1. ~Idle(t) /\ th[t].on \in Ids /\ th[t] \in Thread
    BY <1>0, <1>11, Runs DEF Handoff
  <2>2. rec'[th[t].on].status = "producing"
    BY <1>0, <1>11, <2>1 DEF Handoff, Record
  <2>3. Kept(t)
    BY <1>0, <1>11, <2>2 DEF Handoff, Kept
  <2>4. r.on = th[t].on
    BY <2>1 DEF Thread
  <2>5. Become(t, r)
    BY <1>11 DEF Handoff
  <2> HIDE DEF r
  <2>6. QED
    BY <1>0, <2>1, <2>2, <2>3, <2>4, <2>5, Continues
<1>12. CASE DeliverCollected(t)
  <2>1. ~Idle(t) /\ Head(th[t].todo) # "apply"
    BY <1>0, <1>12, Runs DEF DeliverCollected
  <2>2. \A e \in Ids : rec'[e].status = rec[e].status
    <3>1. CASE rec' = [rec EXCEPT ![th[t].on].delivered = TRUE]
      BY <1>0, <3>1 DEF Record
    <3>2. CASE rec' = rec
      BY <3>2
    <3>3. QED
      BY <1>12, <3>1, <3>2 DEF DeliverCollected
  <2>3. Kept(t)
    BY <1>12, <2>2 DEF DeliverCollected, Kept
  <2>4. QED
    BY <1>0, <1>12, <2>1, <2>3, TakesRest DEF DeliverCollected
<1>13. CASE NextPrompt(t)
  <2>1. ~Idle(t) /\ th[t] \in Thread
    BY <1>0, <1>13, Runs DEF NextPrompt
  <2>2. Kept(t)
    BY <1>13 DEF NextPrompt, Kept
  <2>3. CASE Goto(t, <<>>)
    BY <1>0, <1>1, <2>1, <2>2, <2>3, GoesQuietly
  <2>4. ASSUME NEW p, Become(t, [th[t] EXCEPT !.todo = <<"turn">>, !.prompt = p])
        PROVE  SInv'
    <3>1. [th[t] EXCEPT !.todo = <<"turn">>, !.prompt = p]
            = [th[t] EXCEPT !.todo = <<"turn">>, !.prompt = p, !.turns = th[t].turns]
      BY <2>1 DEF Thread
    <3>2. QED
      BY <1>1, <1>4, <2>1, <2>2, <2>4, <3>1
  <2>5. QED
    BY <1>13, <2>3, <2>4 DEF NextPrompt, Exit
<1>14. CASE Work(t)
  <2>1. ~Idle(t) /\ rec[th[t].on].status # "pending_approval"
    BY <1>0, <1>14, SpeakerApproved DEF Work, Speaks
  <2>2. Kept(t)
    BY <1>14 DEF Work, Kept
  <2>3. PICK ops : Goto(t, ops)
    BY <1>14 DEF Work
  <2>4. QED
    BY <1>0, <1>14, <2>1, <2>2, <2>3, GoesFreely DEF Work
<1>15. CASE SendOutputs(t)
  <2>1. ~Idle(t) /\ rec[th[t].on].status # "pending_approval"
    BY <1>0, <1>15, SpeakerApproved DEF SendOutputs, Speaks
  <2>2. \A e \in Ids : rec'[e].status = rec[e].status
    <3> DEFINE e0 == th[t].on
    <3>1. PICK sent \in BOOLEAN : rec' = [rec EXCEPT ![e0].delivered = @ \/ sent]
      BY <1>15 DEF SendOutputs
    <3> DEFINE b == rec[e0].delivered \/ sent
    <3>2. rec' = [rec EXCEPT ![e0].delivered = b]
      BY <3>1
    <3> HIDE DEF b
    <3>3. QED
      BY <1>0, <3>2 DEF Record
  <2>3. \A e \in Ids : "pending_approval" \in outbox'[e] => "pending_approval" \in outbox[e]
    BY <1>0, <1>15, <2>1 DEF SendOutputs
  <2>4. Kept(t)
    BY <1>15, <2>2, <2>3 DEF SendOutputs, Kept
  <2>5. th[t].on \in Ids /\ Goto(t, Rest(t))
    BY <1>0, <1>15, Runs DEF SendOutputs
  <2>6. QED
    BY <1>0, <2>1, <2>2, <2>4, <2>5, GoesFreely
<1>16. CASE EnsureDelivered(t)
  <2>1. ~Idle(t) /\ Head(th[t].todo) # "apply"
    BY <1>0, <1>16, Runs DEF EnsureDelivered
  <2>2. Kept(t)
    BY <1>16 DEF EnsureDelivered, Kept
  <2>3. Goto(t, Rest(t)) \/ Goto(t, <<"collected">> \o Rest(t))
    BY <1>16 DEF EnsureDelivered
  <2>4. QED
    BY <1>0, <1>1, <2>1, <2>2, <2>3, GoesToRest, TakesRest
<1>17. CASE More(t)
  <2>1. ~Idle(t)
    BY <1>0, <1>17, Runs DEF More
  <2>2. Kept(t)
    BY <1>17 DEF More, Kept
  <2>3. Goto(t, SetStatus("failed") \o <<"stop">>) \/ Goto(t, <<"turn">>)
    BY <1>17 DEF More
  <2>4. QED
    BY <1>0, <1>1, <1>3, <2>1, <2>2, <2>3, GoesQuietly
<1>18. CASE Stop(t) \/ Panic(t)
  <2>1. ~Idle(t)
    BY <1>0, <1>18, Runs DEF Stop, Panic
  <2>2. Kept(t)
    BY <1>18 DEF Stop, Panic, Kept
  <2>3. QED
    BY <1>0, <1>1, <1>18, <2>1, <2>2, GoesQuietly DEF Stop, Panic, Exit
<1>19. QED
  BY <1>5, <1>6, <1>7, <1>8, <1>9, <1>10, <1>11, <1>12, <1>13, <1>14, <1>15, <1>16,
     <1>17, <1>18 DEF Driver

LEMMA CrashSilent ==
  ASSUME IInv, SInv, Crash
  PROVE  SInv'
<1>1. th' = [u \in Threads |-> IdleThread]
  BY DEF Crash
<1>2. \A u \in Threads : th'[u].todo = <<>>
  BY <1>1 DEF IdleThread
<1>3. \A e \in Ids \ born : rec'[e].status = "absent"
  BY DEF Crash, SInv, BornOnly, Unborn
<1>4. BornOnly'
  BY <1>2, <1>3 DEF Crash, SInv, BornOnly, Idle
<1>5. ~Ahead(Speaks, <<>>)
  BY DEF Ahead
<1>6. LoudApproved'
  BY <1>2, <1>5 DEF LoudApproved
<1>7. QED
  BY <1>4, <1>6 DEF Crash, SInv, SilentWhilePending, history

LEMMA StepSilent == IInv /\ SInv /\ [Next]_vars => SInv'
<1> SUFFICES ASSUME IInv, SInv, [Next]_vars PROVE SInv'
  OBVIOUS
<1>1. CASE UNCHANGED vars
  BY <1>1 DEF vars, SInv, BornOnly, LoudApproved, SilentWhilePending, Idle
<1>2. CASE Next
  BY <1>2, OwnerSilent, FeedSilent, MarkSeenSilent, HearSilent, SharedSilent,
     DriverSilent, CrashSilent DEF Next
<1>3. QED
  BY <1>1, <1>2

LEMMA Silent == Spec => []SInv
<1>1. Init => SInv
  BY InitSilent
<1>2. IInv /\ SInv /\ [Next]_vars => SInv'
  BY StepSilent
<1>3. QED
  BY <1>1, <1>2, Inductive, PTL DEF Spec

\* However late a turn ends, whatever fails and whenever the process restarts, the
\* contact hears nothing of an errand that waits for the owner's approval
\* (applyInterviewDirectives, applyWorkerDirectives).
THEOREM SilenceBeforeApproval == Spec => []SilentWhilePending
<1>1. SInv => SilentWhilePending
  BY DEF SInv
<1>2. QED
  BY <1>1, Silent, PTL

-----------------------------------------------------------------------------
(* A message delivered twice is heard once. *)

\* No more replies than SeenMsgIDs keeps.
RepliesFit == IsFiniteSet(Replies) /\ Cardinality(Replies) <= SeenCap

\* Then a record repeats no reply, in what was heard and in what was seen, and the ones it has
\* heard are among those it has seen.
Sound(r) ==
  RepliesFit =>
    /\ \A i, j \in DOMAIN r.heard : r.heard[i] = r.heard[j] => i = j
    /\ \A i, j \in DOMAIN r.seen : r.seen[i] = r.seen[j] => i = j
    /\ \A i \in DOMAIN r.heard : r.heard[i] \in ToSet(r.seen)

\* A reply that is marked as seen and was not heard yet.
Fresh(m, r) ==
  RepliesFit => m \in ToSet(r.seen) /\ \A i \in DOMAIN r.heard : r.heard[i] # m

\* What the subscribe loop may have to do, and when a reply is on its way.
ToHear == {<<"save", "hear", "drive">>, <<"write", "hear", "drive">>, <<"hear", "drive">>}
FeederTodo == {<<>>, <<"seen">>, <<"drive">>} \cup ToHear

\* Every copy of a record is sound: in memory, in its file, and in a goroutine between the
\* two halves of SaveErrand.
RecordsSound ==
  /\ \A e \in Ids : Sound(rec[e]) /\ Sound(disk[e].data)
  /\ \A t \in Threads : Sound(th[t].snap)
FeederOK ==
  /\ th[Feeder].todo \in FeederTodo
  /\ th[Feeder].todo \in ToHear => Fresh(th[Feeder].prompt, rec[th[Feeder].on])

HInv == RecordsSound /\ FeederOK

LEMMA UnbornSound == Sound(Unborn)
<1>1. /\ Unborn.heard = <<>> /\ DOMAIN Unborn.heard = {}
      /\ Unborn.seen = <<>> /\ DOMAIN Unborn.seen = {}
  BY DEF Unborn
<1>2. QED
  BY <1>1 DEF Sound

\* A list without repetitions is no longer than the replies are many.
LEMMA Distinct ==
  ASSUME IsFiniteSet(Replies), NEW s \in Seq(Replies),
         \A i, j \in DOMAIN s : s[i] = s[j] => i = j
  PROVE  Len(s) <= Cardinality(Replies)
<1> DEFINE n == Len(s)
<1>1. n \in Nat /\ DOMAIN s = 1..n
  OBVIOUS
<1>2. s \in Injection(1..n, Replies)
  BY <1>1 DEF Injection, IsInjective
<1>3. Cardinality(1..n) <= Cardinality(Replies)
  BY <1>2, FS_Injection
<1>4. Cardinality(1..n) = n
  BY <1>1, FS_Interval
<1>5. QED
  BY <1>3, <1>4

\* So nothing is dropped from it when they fit: it is as before, or has the new one at its end.
LEMMA NothingDropped ==
  ASSUME RepliesFit, NEW s \in Seq(Replies), NEW m \in Replies,
         \A i, j \in DOMAIN s : s[i] = s[j] => i = j
  PROVE  /\ \A i, j \in DOMAIN markSeen(s, m) : markSeen(s, m)[i] = markSeen(s, m)[j] => i = j
         /\ ToSet(s) \subseteq ToSet(markSeen(s, m)) /\ m \in ToSet(markSeen(s, m))
<1> DEFINE a == Append(s, m)
<1>1. CASE m \in ToSet(s)
  BY <1>1 DEF markSeen
<1>2. CASE m \notin ToSet(s)
  <2>1. /\ a \in Seq(Replies) /\ Len(s) \in Nat /\ DOMAIN s = 1..Len(s)
        /\ Len(a) = Len(s) + 1 /\ DOMAIN a = 1..(Len(s) + 1) /\ a[Len(s) + 1] = m
        /\ \A i \in 1..Len(s) : a[i] = s[i]
    OBVIOUS
  <2>2. \A i \in DOMAIN s : s[i] # m
    BY <1>2, <2>1 DEF ToSet
  <2> HIDE DEF a
  <2>3. \A i \in DOMAIN a : i \in 1..Len(s) \/ i = Len(s) + 1
    BY <2>1
  <2>4. ASSUME NEW i \in DOMAIN a, NEW j \in DOMAIN a, a[i] = a[j] PROVE i = j
    BY <2>1, <2>2, <2>3, <2>4
  <2>5. Len(a) <= SeenCap
    <3>1. Len(a) <= Cardinality(Replies)
      BY <2>1, <2>4, Distinct DEF RepliesFit
    <3>2. Cardinality(Replies) \in Nat /\ SeenCap \in Nat
      BY FS_CardinalityType, ErrandsAssumption DEF RepliesFit
    <3>3. QED
      BY <2>1, <3>1, <3>2 DEF RepliesFit
  <2>6. markSeen(s, m) = a
    <3>1. ~(Len(a) > SeenCap)
      BY <2>1, <2>5, ErrandsAssumption
    <3>2. QED
      BY <1>2, <3>1 DEF markSeen, a
  <2>7. \A i \in DOMAIN s : i \in DOMAIN a /\ a[i] = s[i]
    BY <2>1
  <2>8. ToSet(s) \subseteq ToSet(a)
    BY <2>7 DEF ToSet
  <2>9. m \in ToSet(a)
    <3>1. Len(s) + 1 \in DOMAIN a
      BY <2>1
    <3>2. QED
      BY <2>1, <3>1 DEF ToSet
  <2>10. QED
    BY <2>4, <2>6, <2>8, <2>9
<1>3. QED
  BY <1>1, <1>2

\* Nothing is heard or seen for errand e in this step.
SameTalk(e) == rec'[e].heard = rec[e].heard /\ rec'[e].seen = rec[e].seen

LEMMA SameTalkSound ==
  ASSUME NEW e \in Ids, SameTalk(e), Sound(rec[e])
  PROVE  Sound(rec'[e])
BY DEF SameTalk, Sound

LEMMA WriteThenHear == <<"write">> \o <<"hear", "drive">> = <<"write", "hear", "drive">>
<1> DEFINE w == <<"write">>
           h == <<"hear", "drive">>
           v == <<"write", "hear", "drive">>
<1>1. w \in Seq(Op) /\ h \in Seq(Op) /\ v \in Seq(Op)
  BY DEF Op
<1>2. /\ Len(w) = 1 /\ Len(h) = 2 /\ w[1] = "write" /\ h[1] = "hear" /\ h[2] = "drive"
      /\ Len(v) = 3 /\ v[1] = "write" /\ v[2] = "hear" /\ v[3] = "drive"
  OBVIOUS
<1> HIDE DEF w, h, v
<1>3. w \o h \in Seq(Op) /\ Len(w \o h) = 3
  BY <1>1, <1>2, ConcatProperties
<1>4. /\ (w \o h)[1] = w[1] /\ (w \o h)[2] = h[2 - 1] /\ (w \o h)[3] = h[3 - 1]
  <2>1. \A i \in 1..Len(w) + Len(h) : (w \o h)[i] = IF i <= Len(w) THEN w[i] ELSE h[i - Len(w)]
    BY <1>1, ConcatProperties
  <2>2. 1 \in 1..Len(w) + Len(h) /\ 2 \in 1..Len(w) + Len(h) /\ 3 \in 1..Len(w) + Len(h)
    BY <1>2
  <2>3. (w \o h)[1] = IF 1 <= Len(w) THEN w[1] ELSE h[1 - Len(w)]
    BY <2>1, <2>2
  <2>4. (w \o h)[2] = IF 2 <= Len(w) THEN w[2] ELSE h[2 - Len(w)]
    BY <2>1, <2>2
  <2>5. (w \o h)[3] = IF 3 <= Len(w) THEN w[3] ELSE h[3 - Len(w)]
    BY <2>1, <2>2
  <2>6. QED
    BY <1>2, <2>3, <2>4, <2>5
<1>5. ASSUME NEW i \in 1..3
      PROVE  (w \o h)[i] = v[i]
  <2>1. i = 1 \/ i = 2 \/ i = 3
    OBVIOUS
  <2>2. (w \o h)[1] = v[1] /\ (w \o h)[2] = v[2] /\ (w \o h)[3] = v[3]
    BY <1>2, <1>4
  <2>3. QED
    BY <2>1, <2>2
<1>6. w \o h = v
  BY <1>1, <1>2, <1>3, <1>5, SeqEqual
<1>7. QED
  BY <1>6 DEF w, h, v

\* What the subscribe loop goes on with is again something it may have to do.
LEMMA FeederOps ==
  ASSUME FeederOK, NEW op, At(Feeder, op)
  PROVE  /\ op \in {"seen", "drive", "save", "write", "hear"}
         /\ op = "save" => <<"write">> \o Rest(Feeder) \in ToHear /\ th[Feeder].todo \in ToHear
         /\ op = "write" => Rest(Feeder) \in ToHear /\ th[Feeder].todo \in ToHear
         /\ op = "hear" => Rest(Feeder) = <<"drive">> /\ th[Feeder].todo \in ToHear
<1>1. CASE th[Feeder].todo = <<"save", "hear", "drive">>
  <2>1. op = "save" /\ Rest(Feeder) = <<"hear", "drive">>
    BY <1>1 DEF At, Rest
  <2>2. QED
    BY <1>1, <2>1, WriteThenHear DEF ToHear
<1>2. CASE th[Feeder].todo = <<"write", "hear", "drive">>
  <2>1. op = "write" /\ Rest(Feeder) = <<"hear", "drive">>
    BY <1>2 DEF At, Rest
  <2>2. QED
    BY <1>2, <2>1 DEF ToHear
<1>3. CASE th[Feeder].todo = <<"hear", "drive">>
  <2>1. op = "hear" /\ Rest(Feeder) = <<"drive">>
    BY <1>3 DEF At, Rest
  <2>2. QED
    BY <1>3, <2>1 DEF ToHear
<1>4. CASE th[Feeder].todo \in {<<"seen">>, <<"drive">>}
  BY <1>4 DEF At
<1>5. th[Feeder].todo # <<>>
  BY DEF At
<1>6. QED
  BY <1>1, <1>2, <1>3, <1>4, <1>5 DEF FeederOK, FeederTodo, ToHear

-----------------------------------------------------------------------------
(* Steps of one goroutine. *)

\* Goroutine t continues as r; another one leaves what the subscribe loop is about to hear.
LEMMA Speech ==
  ASSUME IInv, HInv, NEW t \in Threads, NEW r, Become(t, r), Sound(r.snap),
         t = Feeder => /\ r.todo \in FeederTodo
                       /\ r.todo \in ToHear => Fresh(r.prompt, rec'[r.on]),
         t # Feeder /\ th[Feeder].todo \in ToHear => SameTalk(th[Feeder].on),
         \A e \in Ids : Sound(rec'[e]) /\ Sound(disk'[e].data)
  PROVE  HInv'
<1> DEFINE n == IF r.todo = <<>> THEN IdleThread ELSE r
<1>1. th \in [Threads -> Thread] /\ Feeder \in Threads
  BY DEF IInv, ThreadsOK, Threads
<1>2. th' = [th EXCEPT ![t] = n]
  BY DEF Become
<1>3. th'[t] = n /\ \A u \in Threads \ {t} : th'[u] = th[u]
  BY <1>1, <1>2
<1>4. Sound(n.snap)
  BY UnbornSound DEF IdleThread
<1>5. \A u \in Threads : Sound(th'[u].snap)
  BY <1>3, <1>4 DEF HInv, RecordsSound
<1>6. RecordsSound'
  BY <1>5 DEF RecordsSound, Sound
<1>7. CASE t = Feeder
  <2>1. <<>> \in FeederTodo /\ <<>> \notin ToHear
    BY DEF FeederTodo, ToHear
  <2>2. n.todo \in FeederTodo /\ (n.todo \in ToHear => n = r)
    BY <1>7, <2>1 DEF IdleThread
  <2>3. FeederOK'
    BY <1>3, <1>7, <2>2 DEF FeederOK, FeederTodo, ToHear, Fresh
  <2>4. QED
    BY <1>6, <2>3 DEF HInv
<1>8. CASE t # Feeder
  <2>1. th'[Feeder] = th[Feeder]
    BY <1>1, <1>3, <1>8
  <2>2. FeederOK'
    BY <1>8, <2>1 DEF HInv, FeederOK, FeederTodo, ToHear, Fresh, SameTalk
  <2>3. QED
    BY <1>6, <2>2 DEF HInv
<1>9. QED
  BY <1>7, <1>8

\* A step in which nothing is heard or seen, and a file becomes at most what its writer
\* holds.
Tame(t) ==
  /\ \A e \in Ids : SameTalk(e)
  /\ \A e \in Ids : disk'[e] = disk[e] \/ disk'[e].data \in {Unborn, th[t].snap}

LEMMA Tamely ==
  ASSUME IInv, HInv, NEW t \in Threads, NEW r, Become(t, r), Tame(t), Sound(r.snap),
         t = Feeder => /\ r.todo \in FeederTodo
                       /\ r.todo \in ToHear => /\ th[t].todo \in ToHear
                                               /\ r.prompt = th[t].prompt /\ r.on = th[t].on
  PROVE  HInv'
<1>1. th[Feeder].on \in Ids
  BY DEF IInv, ThreadsOK, Thread, Threads
<1>2. \A e \in Ids : Sound(rec'[e]) /\ Sound(disk'[e].data)
  BY UnbornSound, SameTalkSound DEF Tame, HInv, RecordsSound
<1>3. SameTalk(th[Feeder].on)
  BY <1>1 DEF Tame
<1>4. t = Feeder /\ r.todo \in ToHear => Fresh(r.prompt, rec'[r.on])
  BY <1>3 DEF HInv, FeederOK, Fresh, SameTalk
<1>5. QED
  BY <1>2, <1>3, <1>4, Speech

\* It keeps what it holds, and if it is the subscribe loop it has nothing more to hear.
LEMMA TamelyGoes ==
  ASSUME IInv, HInv, NEW t \in Threads, NEW ops, Goto(t, ops), Tame(t),
         t = Feeder => ops \in FeederTodo \ ToHear
  PROVE  HInv'
<1> DEFINE r == [th[t] EXCEPT !.todo = ops]
<1>1. th[t] \in Thread
  BY DEF IInv, ThreadsOK
<1>2. r.todo = ops /\ r.snap = th[t].snap
  BY <1>1 DEF Thread
<1>3. Become(t, r)
  BY DEF Goto
<1>4. Sound(th[t].snap)
  BY DEF HInv, RecordsSound
<1> HIDE DEF r
<1>5. QED
  BY <1>2, <1>3, <1>4, Tamely

\* A command goroutine or the subscribe loop takes on new work.
LEMMA TamelyBegins ==
  ASSUME IInv, HInv, NEW t \in Threads, NEW e, NEW ops, NEW p, Begin(t, e, ops, p),
         t = Feeder => ops \in FeederTodo \ ToHear,
         th[Feeder].todo \in ToHear => SameTalk(th[Feeder].on),
         \A i \in Ids : Sound(rec'[i]), disk' = disk
  PROVE  HInv'
<1> DEFINE r == [IdleThread EXCEPT !.todo = ops, !.on = e, !.prompt = p]
<1>1. r.todo = ops /\ r.snap = Unborn
  BY DEF IdleThread
<1>2. Become(t, r)
  BY DEF Begin
<1>3. \A i \in Ids : Sound(rec'[i]) /\ Sound(disk'[i].data)
  BY DEF HInv, RecordsSound
<1> HIDE DEF r
<1>4. QED
  BY <1>1, <1>2, <1>3, UnbornSound, Speech

-----------------------------------------------------------------------------
(* Every step. *)

LEMMA InitHeard == Init => HInv
<1> SUFFICES ASSUME Init PROVE HInv
  OBVIOUS
<1>1. Feeder \in Threads
  BY DEF Threads
<1>2. \A t \in Threads : th[t].snap = Unborn /\ th[t].todo = <<>>
  BY DEF Init, IdleThread
<1>3. \A e \in Ids : rec[e] = Unborn /\ disk[e].data = Unborn
  BY DEF Init, Missing
<1>4. <<>> \in FeederTodo /\ <<>> \notin ToHear
  BY DEF FeederTodo, ToHear
<1>5. QED
  BY <1>1, <1>2, <1>3, <1>4, UnbornSound DEF HInv, RecordsSound, FeederOK

LEMMA OwnerHeard ==
  ASSUME IInv, SInv, HInv, Owner
  PROVE  HInv'
<1> USE DEF files
<1>1. PICK c \in Cmds, e \in Ids :
        \/ \E auto \in BOOLEAN : startErrand(c, e, auto)
        \/ approveErrand(c, e)
        \/ rejectErrand(c, e)
        \/ reviseErrandPlan(c, e)
        \/ cancelErrand(c, e)
  BY DEF Owner
<1>2. c \in Threads /\ c # Feeder /\ Feeder \in Threads
  BY ErrandsAssumption DEF Threads
<1>3. rec \in [Ids -> Record] /\ \A i \in Ids : Sound(rec[i])
  BY DEF IInv, DataOK, HInv, RecordsSound
<1>4. th[Feeder].todo \in ToHear => th[Feeder].on \in born
  <2>1. <<>> \notin ToHear
    BY DEF ToHear
  <2>2. QED
    BY <1>2, <2>1 DEF SInv, BornOnly, Idle
<1>5. th[Feeder].on \in Ids
  BY <1>2 DEF IInv, ThreadsOK, Thread
<1>6. ASSUME NEW auto \in BOOLEAN, startErrand(c, e, auto)
      PROVE  HInv'
  <2>1. /\ e \notin born /\ disk' = disk
        /\ \A i \in Ids \ {e} : rec'[i] = rec[i]
        /\ rec'[e].heard = <<>> /\ rec'[e].seen = <<>>
    BY <1>3, <1>6 DEF startErrand, Unborn
  <2>2. \A i \in Ids : Sound(rec'[i])
    <3>1. DOMAIN <<>> = {}
      OBVIOUS
    <3>2. Sound(rec'[e])
      BY <2>1, <3>1 DEF Sound
    <3>3. QED
      BY <1>3, <2>1, <3>2
  <2>3. th[Feeder].todo \in ToHear => SameTalk(th[Feeder].on)
    BY <1>4, <1>5, <2>1 DEF SameTalk
  <2>4. \E ops, p : Begin(c, e, ops, p)
    BY <1>6 DEF startErrand
  <2>5. QED
    BY <1>2, <2>1, <2>2, <2>3, <2>4, TamelyBegins
<1>7. CASE approveErrand(c, e) \/ rejectErrand(c, e) \/ reviseErrandPlan(c, e)
  <2>1. rec' = rec /\ disk' = disk /\ \E ops, p : Begin(c, e, ops, p)
    BY <1>7 DEF approveErrand, rejectErrand, reviseErrandPlan
  <2>2. QED
    BY <1>2, <1>3, <2>1, TamelyBegins DEF SameTalk
<1>8. CASE cancelErrand(c, e)
  <2>1. disk' = disk /\ \E ops, p : Begin(c, e, ops, p)
    BY <1>8 DEF cancelErrand
  <2>2. \A i \in Ids : SameTalk(i)
    BY <1>3, <1>8 DEF cancelErrand, Record, SameTalk
  <2>3. QED
    BY <1>2, <1>3, <1>5, <2>1, <2>2, SameTalkSound, TamelyBegins
<1>9. QED
  BY <1>1, <1>6, <1>7, <1>8

LEMMA FeedHeard ==
  ASSUME IInv, HInv, NEW m \in Replies, NEW e \in Ids, Feed(m, e)
  PROVE  HInv'
<1>1. Feeder \in Threads /\ <<"seen">> \in FeederTodo \ ToHear
  BY DEF Threads, FeederTodo, ToHear
<1>2. rec' = rec /\ disk' = disk /\ Begin(Feeder, e, <<"seen">>, m)
  BY DEF Feed, files
<1>3. \A i \in Ids : Sound(rec'[i])
  BY <1>2 DEF HInv, RecordsSound
<1>4. SameTalk(th[Feeder].on)
  BY <1>2 DEF SameTalk
<1>5. QED
  BY <1>1, <1>2, <1>3, <1>4, TamelyBegins

LEMMA MarkSeenHeard ==
  ASSUME IInv, HInv, MarkSeen(Feeder)
  PROVE  HInv'
<1> DEFINE e == th[Feeder].on
           m == th[Feeder].prompt
           x == markSeen(rec[e].seen, m)
           ops == IF m \in ToSet(rec[e].seen) \/ ~interviewing(rec[e])
                    THEN <<>> ELSE <<"save", "hear", "drive">>
           r == [th[Feeder] EXCEPT !.todo = ops]
<1>1. /\ Feeder \in Threads /\ th[Feeder] \in Thread /\ e \in Ids
      /\ m \in Replies
  BY DEF IInv, ThreadsOK, Threads, Thread, MarkSeen, At, Idle
<1>2. rec \in [Ids -> Record] /\ \A i \in Ids : Sound(rec[i]) /\ Sound(disk[i].data)
  BY DEF IInv, DataOK, HInv, RecordsSound
<1>3. /\ rec' = [rec EXCEPT ![e].seen = x] /\ disk' = disk /\ Become(Feeder, r)
  BY DEF MarkSeen, Goto, files
<1>4. r.todo = ops /\ r.on = e /\ r.prompt = m /\ r.snap = th[Feeder].snap
  BY <1>1 DEF Thread
<1>5. RepliesFit => /\ \A i, j \in DOMAIN x : x[i] = x[j] => i = j
                    /\ ToSet(rec[e].seen) \subseteq ToSet(x) /\ m \in ToSet(x)
  <2>1. rec[e].seen \in Seq(Replies)
    BY <1>1, <1>2 DEF Record
  <2>2. RepliesFit => \A i, j \in DOMAIN rec[e].seen : rec[e].seen[i] = rec[e].seen[j] => i = j
    BY <1>1, <1>2 DEF Sound
  <2>3. QED
    BY <1>1, <2>1, <2>2, NothingDropped
<1>6. ops \in FeederTodo /\ (ops \in ToHear => m \notin ToSet(rec[e].seen))
  BY DEF FeederTodo, ToHear
<1> HIDE DEF x
<1>7. /\ \A i \in Ids : rec'[i].heard = rec[i].heard
      /\ \A i \in Ids \ {e} : rec'[i].seen = rec[i].seen
      /\ rec'[e].seen = x
  BY <1>1, <1>2, <1>3 DEF Record
<1>8. \A i \in Ids : Sound(rec'[i])
  <2>1. Sound(rec'[e])
    BY <1>1, <1>2, <1>5, <1>7 DEF Sound
  <2>2. ASSUME NEW i \in Ids \ {e} PROVE Sound(rec'[i])
    BY <1>2, <1>7 DEF Sound
  <2>3. QED
    BY <2>1, <2>2
<1>9. ops \in ToHear => Fresh(m, rec'[e])
  BY <1>1, <1>2, <1>5, <1>6, <1>7 DEF Sound, Fresh
<1>10. Sound(r.snap)
  BY <1>1, <1>4 DEF HInv, RecordsSound
<1> HIDE DEF r, ops
<1>11. QED
  BY <1>1, <1>2, <1>3, <1>4, <1>6, <1>8, <1>9, <1>10, Speech

LEMMA HearHeard ==
  ASSUME IInv, HInv, Hear(Feeder)
  PROVE  HInv'
<1> DEFINE e == th[Feeder].on
           m == th[Feeder].prompt
           r == [th[Feeder] EXCEPT !.todo = Rest(Feeder)]
<1>1. Feeder \in Threads /\ th[Feeder] \in Thread /\ e \in Ids
  BY DEF IInv, ThreadsOK, Threads, Thread
<1>2. rec \in [Ids -> Record] /\ \A i \in Ids : Sound(rec[i]) /\ Sound(disk[i].data)
  BY DEF IInv, DataOK, HInv, RecordsSound
<1>3. rec' = [rec EXCEPT ![e].heard = Append(@, m)] /\ disk' = disk /\ Become(Feeder, r)
  BY DEF Hear, Goto, files
<1>4. Rest(Feeder) = <<"drive">> /\ th[Feeder].todo \in ToHear
  BY FeederOps DEF Hear, HInv
<1>5. r.todo = <<"drive">> /\ r.snap = th[Feeder].snap
  BY <1>1, <1>4 DEF Thread
<1>6. Fresh(m, rec[e])
  BY <1>4 DEF HInv, FeederOK
<1>7. Sound(rec'[e])
  <2> DEFINE h == rec[e].heard
  <2>1. h \in Seq(Replies) /\ Len(h) \in Nat /\ DOMAIN h = 1..Len(h)
    BY <1>1, <1>2 DEF Record
  <2>2. /\ rec'[e].heard = Append(h, m) /\ rec'[e].seen = rec[e].seen
    BY <1>1, <1>2, <1>3 DEF Record
  <2>3. m \in Replies
    BY <1>4 DEF IInv, ThreadsOK, Idle, ToHear
  <2>4. /\ DOMAIN Append(h, m) = 1..(Len(h) + 1)
        /\ Append(h, m)[Len(h) + 1] = m
        /\ \A i \in 1..Len(h) : Append(h, m)[i] = h[i]
    <3> HIDE DEF h, m
    <3>1. QED
      BY <2>1, <2>3
  <2>5. RepliesFit => \A i, j \in 1..Len(h) : h[i] = h[j] => i = j
    BY <1>1, <1>2, <2>1 DEF Sound
  <2>6. RepliesFit => \A i \in 1..Len(h) : h[i] \in ToSet(rec[e].seen) /\ h[i] # m
    BY <1>1, <1>2, <1>6, <2>1 DEF Sound, Fresh
  <2>7. \A i \in 1..(Len(h) + 1) : i \in 1..Len(h) \/ i = Len(h) + 1
    BY <2>1
  <2>8. RepliesFit => m \in ToSet(rec[e].seen)
    BY <1>6 DEF Fresh
  <2>9. RepliesFit => \A i, j \in DOMAIN rec[e].seen : rec[e].seen[i] = rec[e].seen[j] => i = j
    BY <1>1, <1>2 DEF Sound
  <2> HIDE DEF h
  <2>10. ASSUME RepliesFit, NEW i \in DOMAIN Append(h, m), NEW j \in DOMAIN Append(h, m),
                Append(h, m)[i] = Append(h, m)[j]
         PROVE  i = j
    BY <2>4, <2>5, <2>6, <2>7, <2>10
  <2>11. RepliesFit => \A i \in DOMAIN Append(h, m) : Append(h, m)[i] \in ToSet(rec[e].seen)
    BY <2>4, <2>6, <2>7, <2>8
  <2>12. QED
    BY <2>2, <2>9, <2>10, <2>11 DEF Sound
<1>8. \A i \in Ids \ {e} : rec'[i] = rec[i]
  BY <1>1, <1>2, <1>3
<1>9. \A i \in Ids : Sound(rec'[i])
  BY <1>2, <1>7, <1>8
<1>10. <<"drive">> \in FeederTodo /\ <<"drive">> \notin ToHear
  BY DEF FeederTodo, ToHear
<1>11. Sound(r.snap)
  BY <1>1, <1>5 DEF HInv, RecordsSound
<1> HIDE DEF r
<1>12. QED
  BY <1>1, <1>2, <1>3, <1>5, <1>9, <1>10, <1>11, Speech

LEMMA DriveHeard ==
  ASSUME IInv, HInv, NEW t \in Threads, Drive(t)
  PROVE  HInv'
<1>1. rec' = rec /\ disk' = disk /\ Tame(t)
  BY DEF Drive, files, Tame, SameTalk
<1>2. <<>> \in FeederTodo \ ToHear
  BY DEF FeederTodo, ToHear
<1>3. CASE Goto(t, <<>>)
  BY <1>1, <1>2, <1>3, TamelyGoes
<1>4. CASE \E d \in Drivers : Spawn(t, d)
  <2>1. PICK d \in Drivers : Spawn(t, d)
    BY <1>4
  <2> DEFINE r == [IdleThread EXCEPT !.todo = <<"turn">>, !.on = th[t].on, !.prompt = th[t].prompt]
  <2>2. th \in [Threads -> Thread] /\ d \in Threads /\ d # Feeder /\ Feeder \in Threads
    BY ErrandsAssumption DEF IInv, ThreadsOK, Threads
  <2>3. th' = [th EXCEPT ![t] = IdleThread, ![d] = r]
    BY <2>1 DEF Spawn
  <2>4. r.snap = Unborn /\ IdleThread.snap = Unborn /\ IdleThread.todo = <<>>
    BY DEF IdleThread
  <2> HIDE DEF r
  <2>5. \A u \in Threads : th'[u] = th[u] \/ th'[u] = IdleThread \/ (u # Feeder /\ th'[u] = r)
    BY <2>2, <2>3
  <2>6. \A u \in Threads : Sound(th'[u].snap)
    BY <2>4, <2>5, UnbornSound DEF HInv, RecordsSound
  <2>7. RecordsSound'
    BY <1>1, <2>6 DEF HInv, RecordsSound, Sound
  <2>8. FeederOK'
    BY <1>1, <1>2, <2>2, <2>4, <2>5 DEF HInv, FeederOK, Fresh, FeederTodo, ToHear
  <2>9. QED
    BY <2>7, <2>8 DEF HInv
<1>5. QED
  BY <1>3, <1>4 DEF Drive

LEMMA SharedHeard ==
  ASSUME IInv, HInv, NEW t \in Threads, Shared(t)
  PROVE  HInv'
<1> USE DEF files
<1>1. /\ rec \in [Ids -> Record] /\ disk \in [Ids -> File]
      /\ th[t] \in Thread /\ th[t].on \in Ids
  BY DEF IInv, DataOK, ThreadsOK, Thread
<1>2. \A i \in Ids : Sound(rec[i]) /\ Sound(disk[i].data)
  BY DEF HInv, RecordsSound
<1>3. CASE StoreStatus(t)
  <2>1. PICK s \in Status : At(t, s) /\ rec' = [rec EXCEPT ![th[t].on].status = s]
    BY <1>3 DEF StoreStatus
  <2>2. Tame(t)
    BY <1>1, <1>3, <2>1 DEF StoreStatus, Tame, SameTalk, Record
  <2>3. t # Feeder
    BY <2>1, FeederOps DEF HInv, Status
  <2>4. QED
    BY <1>3, <2>2, <2>3, TamelyGoes DEF StoreStatus
<1>4. CASE OpenErrand(t)
  <2> DEFINE r == [th[t] EXCEPT !.todo = <<"write">> \o Rest(t), !.snap = rec[th[t].on]]
  <2>1. /\ r.todo = <<"write">> \o Rest(t) /\ r.snap = rec[th[t].on]
        /\ r.on = th[t].on /\ r.prompt = th[t].prompt
    BY <1>1 DEF Thread
  <2>2. Become(t, r) /\ (At(t, "save") \/ At(t, "create"))
    BY <1>4 DEF OpenErrand
  <2>3. Tame(t)
    BY <1>1, <1>4 DEF OpenErrand, Tame, SameTalk, Empty
  <2>4. Sound(r.snap)
    BY <1>1, <1>2, <2>1
  <2> HIDE DEF r
  <2>5. t = Feeder => <<"write">> \o Rest(t) \in ToHear /\ th[t].todo \in ToHear
    BY <2>2, FeederOps DEF HInv
  <2>6. QED
    BY <2>1, <2>2, <2>3, <2>4, <2>5, Tamely DEF FeederTodo
<1>5. CASE WriteErrand(t)
  <2> DEFINE r == [th[t] EXCEPT !.todo = Rest(t), !.snap = Unborn]
  <2>1. /\ r.todo = Rest(t) /\ r.snap = Unborn
        /\ r.on = th[t].on /\ r.prompt = th[t].prompt
    BY <1>1 DEF Thread
  <2>2. Become(t, r) /\ At(t, "write")
    BY <1>5 DEF WriteErrand
  <2>3. Tame(t)
    BY <1>1, <1>5 DEF WriteErrand, Tame, SameTalk, Whole, Torn
  <2>4. t = Feeder => Rest(t) \in ToHear /\ th[t].todo \in ToHear
    BY <2>2, FeederOps DEF HInv
  <2> HIDE DEF r
  <2>5. QED
    BY <2>1, <2>2, <2>3, <2>4, UnbornSound, Tamely DEF FeederTodo
<1>6. CASE CreateFails(t) \/ EnsureInterviewFile(t)
  <2>1. rec' = rec /\ disk' = disk /\ \E ops : Goto(t, ops)
    BY <1>6 DEF CreateFails, EnsureInterviewFile
  <2>2. At(t, "create") \/ At(t, "file")
    BY <1>6 DEF CreateFails, EnsureInterviewFile
  <2>3. t # Feeder
    BY <2>2, FeederOps DEF HInv
  <2>4. QED
    BY <2>1, <2>3, TamelyGoes DEF Tame, SameTalk
<1>7. CASE CollectClaims(t) \/ SaveClaims(t)
  <2>1. PICK ops, x : Become(t, [th[t] EXCEPT !.todo = ops, !.claimed = x])
    BY <1>7 DEF CollectClaims, SaveClaims
  <2> DEFINE r == [th[t] EXCEPT !.todo = ops, !.claimed = x]
  <2>2. r.snap = th[t].snap /\ Become(t, r)
    BY <1>1, <2>1 DEF Thread
  <2>3. At(t, "claims") \/ At(t, "putClaims")
    BY <1>7 DEF CollectClaims, SaveClaims
  <2>4. t # Feeder
    BY <2>3, FeederOps DEF HInv
  <2>5. Tame(t)
    BY <1>7 DEF CollectClaims, SaveClaims, Tame, SameTalk
  <2>6. Sound(th[t].snap)
    BY DEF HInv, RecordsSound
  <2> HIDE DEF r
  <2>7. QED
    BY <2>2, <2>4, <2>5, <2>6, Tamely
<1>8. CASE WriteHeader(t)
  <2>1. At(t, "header") /\ Goto(t, Rest(t))
    BY <1>8 DEF WriteHeader
  <2>2. t # Feeder
    BY <2>1, FeederOps DEF HInv
  <2>3. Tame(t)
    BY <1>1, <1>8 DEF WriteHeader, Tame, SameTalk, Record
  <2>4. QED
    BY <2>1, <2>2, <2>3, TamelyGoes
<1>9. CASE Drive(t)
  BY <1>9, DriveHeard
<1>10. QED
  BY <1>3, <1>4, <1>5, <1>6, <1>7, <1>8, <1>9 DEF Shared

LEMMA DriverHeard ==
  ASSUME IInv, HInv, NEW t \in Drivers, Driver(t) \/ Panic(t)
  PROVE  HInv'
<1> USE DEF files
<1>1. /\ rec \in [Ids -> Record] /\ t \in Threads /\ t # Feeder
      /\ th[t] \in Thread /\ th[t].on \in Ids
  BY ErrandsAssumption DEF IInv, DataOK, ThreadsOK, Thread, Threads
<1>2. Sound(th[t].snap)
  BY <1>1 DEF HInv, RecordsSound
<1>3. disk' = disk
  BY DEF Driver, Turn, CannotRun, Ask, Apply, WriteRecord, SendMsg, TranscriptFallback, Handoff,
         DeliverCollected, NextPrompt, Work, SendOutputs, EnsureDelivered, More, Stop, Panic
<1>4. \A e \in Ids : SameTalk(e)
  <2>1. CASE Handoff(t)
    BY <1>1, <2>1 DEF Handoff, SameTalk, Record
  <2>2. CASE rec' = [rec EXCEPT ![th[t].on].delivered = TRUE]
    BY <1>1, <2>2 DEF SameTalk, Record
  <2>3. CASE SendOutputs(t)
    <3>1. PICK sent \in BOOLEAN : rec' = [rec EXCEPT ![th[t].on].delivered = @ \/ sent]
      BY <2>3 DEF SendOutputs
    <3> DEFINE b == rec[th[t].on].delivered \/ sent
    <3>2. rec' = [rec EXCEPT ![th[t].on].delivered = b]
      BY <3>1
    <3> HIDE DEF b
    <3>3. QED
      BY <1>1, <3>2 DEF SameTalk, Record
  <2>4. CASE rec' = rec
    BY <2>4 DEF SameTalk
  <2>5. QED
    BY <2>1, <2>2, <2>3, <2>4
       DEF Driver, Turn, CannotRun, Ask, Apply, WriteRecord, SendMsg, TranscriptFallback,
           DeliverCollected, NextPrompt, Work, EnsureDelivered, More, Stop, Panic
<1>5. Tame(t)
  BY <1>3, <1>4 DEF Tame
<1>6. ASSUME NEW ops, Goto(t, ops) PROVE HInv'
  BY <1>1, <1>5, <1>6, TamelyGoes
<1>7. ASSUME NEW r, Become(t, r), r.snap = th[t].snap PROVE HInv'
  BY <1>1, <1>2, <1>5, <1>7, Tamely
<1>8. CASE Turn(t)
  <2>1. CASE Become(t, [th[t] EXCEPT !.todo = <<"work">>, !.turns = @ + 1])
    <3> DEFINE r == [th[t] EXCEPT !.todo = <<"work">>, !.turns = @ + 1]
    <3>1. r.snap = th[t].snap /\ Become(t, r)
      BY <1>1, <2>1 DEF Thread
    <3> HIDE DEF r
    <3>2. QED
      BY <1>7, <3>1
  <2>2. QED
    BY <1>6, <1>8, <2>1 DEF Turn, Exit
<1>9. CASE Handoff(t)
  <2> DEFINE r == [th[t] EXCEPT !.todo = Rest(t), !.prompt = "work"]
  <2>1. r.snap = th[t].snap /\ Become(t, r)
    BY <1>1, <1>9 DEF Handoff, Thread
  <2> HIDE DEF r
  <2>2. QED
    BY <1>7, <2>1
<1>10. CASE NextPrompt(t)
  <2>1. ASSUME NEW p, Become(t, [th[t] EXCEPT !.todo = <<"turn">>, !.prompt = p])
        PROVE  HInv'
    <3> DEFINE r == [th[t] EXCEPT !.todo = <<"turn">>, !.prompt = p]
    <3>1. r.snap = th[t].snap /\ Become(t, r)
      BY <1>1, <2>1 DEF Thread
    <3> HIDE DEF r
    <3>2. QED
      BY <1>7, <3>1
  <2>2. QED
    BY <1>6, <1>10, <2>1 DEF NextPrompt, Exit
<1>11. CASE ~Turn(t) /\ ~Handoff(t) /\ ~NextPrompt(t)
  <2>1. \E ops : Goto(t, ops)
    BY <1>11 DEF Driver, CannotRun, Ask, Apply, WriteRecord, SendMsg, TranscriptFallback,
                 DeliverCollected, Work, SendOutputs, EnsureDelivered, More, Stop, Panic, Exit
  <2>2. QED
    BY <1>6, <2>1
<1>12. QED
  BY <1>8, <1>9, <1>10, <1>11

LEMMA CrashHeard ==
  ASSUME HInv, Crash
  PROVE  HInv'
<1>1. Feeder \in Threads
  BY DEF Threads
<1>2. \A u \in Threads : th'[u].todo = <<>> /\ th'[u].snap = Unborn
  BY DEF Crash, IdleThread
<1>3. \A e \in Ids : rec'[e] \in {disk[e].data, Unborn} /\ disk'[e] = disk[e]
  BY DEF Crash
<1>4. <<>> \in FeederTodo /\ <<>> \notin ToHear
  BY DEF FeederTodo, ToHear
<1>5. RecordsSound'
  BY <1>2, <1>3, UnbornSound DEF HInv, RecordsSound, Sound
<1>6. QED
  BY <1>1, <1>2, <1>4, <1>5 DEF HInv, FeederOK, FeederTodo, ToHear

LEMMA StepHeard == IInv /\ SInv /\ HInv /\ [Next]_vars => HInv'
<1> SUFFICES ASSUME IInv, SInv, HInv, [Next]_vars PROVE HInv'
  OBVIOUS
<1>1. CASE UNCHANGED vars
  BY <1>1 DEF vars, HInv, RecordsSound, FeederOK, Sound, Fresh, FeederTodo, ToHear
<1>2. CASE Next
  BY <1>2, OwnerHeard, FeedHeard, MarkSeenHeard, HearHeard, SharedHeard, DriverHeard,
     CrashHeard DEF Next
<1>3. QED
  BY <1>1, <1>2

\* Where no more replies come in than SeenMsgIDs keeps (500), a reply that is delivered again,
\* overlaps a save, or comes back after a restart from the files is not heard a second time
\* (markSeen, feedErrand, SaveErrand, New).
THEOREM NoReplyTwice ==
  ASSUME RepliesFit
  PROVE  Spec => []HeardOnce
<1>1. Init => HInv
  BY InitHeard
<1>2. IInv /\ SInv /\ HInv /\ [Next]_vars => HInv'
  BY StepHeard
<1>3. HInv => HeardOnce
  BY DEF HInv, RecordsSound, Sound, HeardOnce
<1>4. QED
  BY <1>1, <1>2, <1>3, Inductive, Silent, PTL DEF Spec

-----------------------------------------------------------------------------
(* A buffered prompt is not left behind. *)

\* The code these hypotheses stand for: one owner command runs at a time (Cmds), and no
\* turn's output makes the driver panic (Faults).
OneCommand == \A c1, c2 \in Cmds : c1 = c2

\* What a driver that has passed "apply" may do only in a later phase; what it does once
\* the errand produces; and the statuses it interviews in.
LateOps == {"handoff", "work", "more", "stop", "outputs", "ensureDelivered", "done"}
WorkOps == LateOps \ {"handoff"}
OpenStatus == {"pending_approval", "active"}
Interview == {"ask", "apply"}

\* A command that has seen the errand pending and is about to store its approval.
Approving(c, e) == At(c, "active") /\ th[c].on = e

\* An approval is stored first, and the interview driven after that.
CommandOK(c) ==
  /\ ~Idle(c) => "active" \notin Range(Rest(c))
  /\ At(c, "active") => "drive" \in Range(th[c].todo) /\ "create" \notin Range(th[c].todo)

\* A driver about to hand off is beyond the reach of an approval, and one that produces
\* has left the interview; a failed errand's driver asks nothing more, even if an approval
\* still comes.
DriverOK(d) ==
  LET e == th[d].on
      ops == Range(th[d].todo)
  IN
  /\ ops \cap Status \subseteq {"failed", "done"}
  /\ "failed" \in ops => ops \cap Interview = {}
  /\ Ahead(LateOps, th[d].todo) => /\ rec[e].status # "pending_approval"
                                   /\ \A c \in Cmds : ~Approving(c, e)
  /\ ops \cap WorkOps # {} => rec[e].status \notin OpenStatus
  /\ \A c \in Cmds : Approving(c, e) /\ rec[e].status = "failed" => ops \cap Interview = {}

\* A command that will drive the errand.
Returns(e) ==
  \E c \in Cmds : th[c].on = e /\ "drive" \in Range(th[c].todo) /\ "create" \notin Range(th[c].todo)

ApprovalsOK ==
  \A c \in Cmds, e \in Ids : Approving(c, e) => rec[e].status \in {"pending_approval", "failed"}
Unstarted == \A e \in Ids \ born : pending[e] = <<>>
Kindled ==
  \A e \in Ids : rec[e].status \in OpenStatus /\ pending[e] # <<>> /\ ~busy[e] => Returns(e)

BInv ==
  /\ \A c \in Cmds : CommandOK(c)
  /\ \A d \in Drivers : ~Idle(d) => DriverOK(d)
  /\ ApprovalsOK
  /\ Unstarted
  /\ Kindled

-----------------------------------------------------------------------------
(* Sequences of operations, and the operations in them. *)

LEMMA RangeTail ==
  ASSUME NEW s \in Seq(Op), s # <<>>
  PROVE  Range(s) = {Head(s)} \cup Range(Tail(s))
<1>1. /\ Len(s) \in Nat \ {0} /\ Len(Tail(s)) = Len(s) - 1 /\ Tail(s) \in Seq(Op)
      /\ \A k \in 1..Len(Tail(s)) : Tail(s)[k] = s[k + 1]
      /\ Head(s) = s[1]
  BY HeadTailProperties
<1>2. /\ Range(s) = {s[i] : i \in 1..Len(s)}
      /\ Range(Tail(s)) = {Tail(s)[i] : i \in 1..Len(Tail(s))}
  BY <1>1, RangeEquality
<1>3. ASSUME NEW i \in 1..Len(s)
      PROVE  s[i] \in {Head(s)} \cup Range(Tail(s))
  <2>1. CASE i = 1
    BY <1>1, <2>1
  <2>2. CASE i # 1
    <3>1. i - 1 \in 1..Len(Tail(s)) /\ (i - 1) + 1 = i
      BY <1>1, <2>2
    <3>2. QED
      BY <1>1, <1>2, <3>1
  <2>3. QED
    BY <2>1, <2>2
<1>4. Head(s) \in Range(s)
  BY <1>1, <1>2
<1>5. ASSUME NEW i \in 1..Len(Tail(s))
      PROVE  Tail(s)[i] \in Range(s)
  <2>1. i + 1 \in 1..Len(s)
    BY <1>1
  <2>2. QED
    BY <1>1, <1>2, <2>1
<1>6. QED
  BY <1>2, <1>3, <1>4, <1>5

LEMMA RangeLiterals ==
  /\ Range(<<>>) = {}
  /\ \A a : Range(<<a>>) = {a}
  /\ \A a, b : Range(<<a, b>>) = {a, b}
  /\ \A a, b, c : Range(<<a, b, c>>) = {a, b, c}
<1>1. DOMAIN <<>> = {}
  OBVIOUS
<1>2. Range(<<>>) = {}
  BY <1>1 DEF Range
<1>3. ASSUME NEW a PROVE Range(<<a>>) = {a}
  <2>1. DOMAIN <<a>> = {1}
    OBVIOUS
  <2>2. QED
    BY <2>1 DEF Range
<1>4. ASSUME NEW a, NEW b PROVE Range(<<a, b>>) = {a, b}
  <2>1. DOMAIN <<a, b>> = {1, 2}
    OBVIOUS
  <2>2. QED
    BY <2>1 DEF Range
<1>5. ASSUME NEW a, NEW b, NEW c PROVE Range(<<a, b, c>>) = {a, b, c}
  <2>1. DOMAIN <<a, b, c>> = {1, 2, 3}
    OBVIOUS
  <2>2. QED
    BY <2>1 DEF Range
<1>6. QED
  BY <1>2, <1>3, <1>4, <1>5

LEMMA RangeSubSeq ==
  ASSUME NEW s \in Seq(Op), NEW k \in 1..Len(s)
  PROVE  Range(SubSeq(s, k, Len(s))) \subseteq Range(s)
<1> DEFINE u == SubSeq(s, k, Len(s))
<1>1. /\ u \in Seq(Op) /\ Len(u) = Len(s) - k + 1 /\ Len(s) \in Nat
      /\ \A i \in 1 .. Len(s) - k + 1 : u[i] = s[k + i - 1]
  BY SubSeqProperties
<1> HIDE DEF u
<1>2. /\ Range(s) = {s[i] : i \in 1..Len(s)}
      /\ Range(u) = {u[i] : i \in 1..Len(u)}
  BY <1>1, RangeEquality
<1>3. ASSUME NEW i \in 1..Len(u)
      PROVE  u[i] \in Range(s)
  <2>1. k + i - 1 \in 1..Len(s) /\ i \in 1 .. Len(s) - k + 1
    BY <1>1
  <2>2. QED
    BY <1>1, <1>2, <2>1
<1>4. QED
  BY <1>2, <1>3 DEF u

\* Dropping messages brings nothing nearer.
LEMMA AheadSubSeq ==
  ASSUME NEW K, NEW s \in Seq(Op), NEW k \in 1..Len(s), \A i \in 1..(k-1) : s[i] = "msg",
         Ahead(K, SubSeq(s, k, Len(s)))
  PROVE  Ahead(K, s)
<1> DEFINE u == SubSeq(s, k, Len(s))
<1>1. /\ u \in Seq(Op) /\ Len(u) = Len(s) - k + 1 /\ Len(s) \in Nat
      /\ \A i \in 1 .. Len(s) - k + 1 : u[i] = s[k + i - 1]
  BY SubSeqProperties
<1> HIDE DEF u
<1>2. PICK i \in 1..Len(u) : u[i] \in K /\ \A j \in 1..(i-1) : u[j] # "apply"
  BY DEF Ahead, u
<1>3. k + i - 1 \in 1..Len(s) /\ s[k + i - 1] \in K
  BY <1>1, <1>2
<1>4. ASSUME NEW j \in 1..((k + i - 1) - 1)
      PROVE  s[j] # "apply"
  <2>1. CASE j < k
    <3>1. j \in 1..(k-1)
      BY <2>1
    <3>2. QED
      BY <3>1
  <2>2. CASE j >= k
    <3>1. j - k + 1 \in 1..(i-1) /\ j - k + 1 \in 1 .. Len(s) - k + 1 /\ k + (j - k + 1) - 1 = j
      BY <1>1, <2>2
    <3>2. QED
      BY <1>1, <1>2, <3>1
  <2>3. QED
    BY <2>1, <2>2
<1>5. QED
  BY <1>3, <1>4 DEF Ahead

\* Without an "apply" everything is reached.
LEMMA AheadAll ==
  ASSUME NEW K, NEW s \in Seq(Op), "apply" \notin Range(s), Range(s) \cap K # {}
  PROVE  Ahead(K, s)
<1>1. Range(s) = {s[i] : i \in 1..Len(s)} /\ Len(s) \in Nat
  BY RangeEquality
<1>2. PICK i \in 1..Len(s) : s[i] \in K
  BY <1>1
<1>3. \A j \in 1..(i-1) : j \in 1..Len(s)
  BY <1>1
<1>4. QED
  BY <1>1, <1>2, <1>3 DEF Ahead

LEMMA AheadHead ==
  ASSUME NEW K, NEW s \in Seq(Op), s # <<>>, Head(s) \in K
  PROVE  Ahead(K, s)
<1>1. 1 \in 1..Len(s) /\ s[1] \in K /\ \A j \in 1..(1-1) : s[j] # "apply"
  OBVIOUS
<1>2. QED
  BY <1>1 DEF Ahead

\* Of what an interviewer's turn asks for, only the hand-off is a step of a later phase.
Asked == {"file", "record", "msg", "fallback", "handoff", "save", "collected", "turn", "next"}
LEMMA LiveRange ==
  ASSUME NEW record \in BOOLEAN, NEW handoff \in BOOLEAN, NEW n \in Nat
  PROVE  Live(record, n, handoff) \in Seq(Asked)
<1> DEFINE r == IF record THEN <<"file", "record">> ELSE <<>>
           m == [i \in 1..n |-> "msg"]
           h == IF handoff
                  THEN <<"file", "fallback", "handoff", "save", "collected", "turn">>
                  ELSE <<"save", "next">>
<1>1. r \in Seq(Asked)
  <2>1. <<"file", "record">> \in Seq(Asked)
    BY DEF Asked
  <2>2. <<>> \in Seq(Asked)
    OBVIOUS
  <2>3. QED
    BY <2>1, <2>2
<1>2. m \in Seq(Asked)
  BY DEF Asked
<1>3. h \in Seq(Asked)
  <2>1. <<"file", "fallback", "handoff", "save", "collected", "turn">> \in Seq(Asked)
    BY DEF Asked
  <2>2. <<"save", "next">> \in Seq(Asked)
    BY DEF Asked
  <2>3. QED
    BY <2>1, <2>2
<1>4. (r \o m) \o h \in Seq(Asked)
  BY <1>1, <1>2, <1>3
<1>5. QED
  BY <1>4 DEF Live

\* What an approval does after it is stored.
LEMMA ApprovalRest ==
  LET s == SetStatus("active") \o <<"file", "drive">> IN
  /\ s \in Seq(Op) /\ Head(s) = "active" /\ s # <<>>
  /\ Range(s) = {"active", "save", "claims", "file", "drive"}
  /\ "active" \notin Range(Tail(s))
<1> DEFINE a == SetStatus("active")
           b == <<"file", "drive">>
           s == a \o b
<1>1. a \in Seq(Op) /\ b \in Seq(Op)
  BY DEF SetStatus, Op, Status
<1>2. /\ Len(a) = 3 /\ Len(b) = 2 /\ a[1] = "active" /\ a[2] = "save" /\ a[3] = "claims"
      /\ b[1] = "file" /\ b[2] = "drive"
  BY DEF SetStatus
<1>3. Range(a) = {"active", "save", "claims"} /\ Range(b) = {"file", "drive"}
  BY RangeLiterals DEF SetStatus
<1> HIDE DEF a, b
<1>4. /\ s \in Seq(Op) /\ Len(s) = Len(a) + Len(b) /\ Range(s) = Range(a) \cup Range(b)
      /\ \A i \in 1..Len(a) + Len(b) : s[i] = IF i <= Len(a) THEN a[i] ELSE b[i - Len(a)]
  <2>1. Range(s) = Range(a) \cup Range(b)
    BY <1>1, RangeConcatenation
  <2>2. QED
    BY <1>1, <2>1, ConcatProperties
<1> HIDE DEF s
<1>5. Len(s) = 5 /\ Range(s) = {"active", "save", "claims", "file", "drive"}
  BY <1>2, <1>3, <1>4
<1>6. s[1] = "active" /\ \A i \in 2..5 : s[i] # "active"
  <2>1. \A i \in {1, 2, 3, 4, 5} : i \in 1..Len(a) + Len(b)
    BY <1>2
  <2>2. /\ s[1] = IF 1 <= Len(a) THEN a[1] ELSE b[1 - Len(a)]
        /\ s[2] = IF 2 <= Len(a) THEN a[2] ELSE b[2 - Len(a)]
        /\ s[3] = IF 3 <= Len(a) THEN a[3] ELSE b[3 - Len(a)]
    BY <1>4, <2>1
  <2>3. /\ s[4] = IF 4 <= Len(a) THEN a[4] ELSE b[4 - Len(a)]
        /\ s[5] = IF 5 <= Len(a) THEN a[5] ELSE b[5 - Len(a)]
    BY <1>4, <2>1
  <2>4. s[4] = "file" /\ s[5] = "drive"
    BY <1>2, <2>3
  <2>5. \A i \in 2..5 : i = 2 \/ i = 3 \/ i = 4 \/ i = 5
    OBVIOUS
  <2>6. QED
    BY <1>2, <2>2, <2>4, <2>5
<1>7. s # <<>> /\ Head(s) = s[1]
  BY <1>4, <1>5
<1>8. /\ Tail(s) \in Seq(Op) /\ Len(Tail(s)) = 4
      /\ \A k \in 1..4 : Tail(s)[k] = s[k + 1]
  <2>1. /\ Tail(s) \in Seq(Op) /\ Len(Tail(s)) = Len(s) - 1
        /\ \A k \in 1..Len(Tail(s)) : Tail(s)[k] = s[k + 1]
    BY <1>4, <1>7, HeadTailProperties
  <2>2. Len(Tail(s)) = 4
    BY <1>5, <2>1
  <2>3. QED
    BY <2>1, <2>2
<1>9. Range(Tail(s)) = {Tail(s)[k] : k \in 1..4}
  BY <1>8, RangeEquality
<1>10. \A k \in 1..4 : k + 1 \in 2..5
  OBVIOUS
<1>11. "active" \notin Range(Tail(s))
  BY <1>6, <1>8, <1>9, <1>10
<1>12. QED
  BY <1>4, <1>5, <1>6, <1>7, <1>11 DEF s, a, b

-----------------------------------------------------------------------------
(* Steps of one goroutine. *)

\* An operation in front is the first of those still to be done.
LEMMA FrontOp ==
  ASSUME IInv, NEW t \in Threads, ~Idle(t)
  PROVE  /\ th[t].todo \in Seq(Op) /\ th[t].todo # <<>> /\ Rest(t) \in Seq(Op)
         /\ Range(th[t].todo) = {Head(th[t].todo)} \cup Range(Rest(t))
         /\ th[t].on \in Ids
<1>1. th[t] \in Thread
  BY DEF IInv, ThreadsOK
<1>2. th[t].todo \in Seq(Op) /\ th[t].todo # <<>> /\ th[t].on \in Ids
  BY <1>1 DEF Thread, Idle
<1>3. Rest(t) \in Seq(Op)
  BY <1>2 DEF Rest
<1>4. QED
  BY <1>2, <1>3, RangeTail DEF Rest

\* A driver whose errand and whose approval stand as they stood.
LEMMA DriverStays ==
  ASSUME NEW d \in Drivers, DriverOK(d), th'[d] = th[d],
         rec'[th[d].on].status = rec[th[d].on].status,
         \A c \in Cmds : Approving(c, th[d].on)' => Approving(c, th[d].on)
  PROVE  DriverOK(d)'
BY DEF DriverOK, Ahead

\* An errand that was not stranded stays so, if none of it changes for the worse.
LEMMA StaysKindled ==
  ASSUME Kindled, NEW i \in Ids,
         rec'[i].status \in OpenStatus => rec[i].status \in OpenStatus,
         pending'[i] = pending[i], busy'[i] = busy[i], Returns(i) => Returns(i)'
  PROVE  rec'[i].status \in OpenStatus /\ pending'[i] # <<>> /\ ~busy'[i] => Returns(i)'
BY DEF Kindled

\* Driver d goes on as r; its errand is busy, so nothing of it can be left behind.
LEMMA DriverMoves ==
  ASSUME IInv, SInv, BInv, NEW d \in Drivers, ~Idle(d), NEW r, Become(d, r), r.todo # <<>>,
         r.on = th[d].on, busy' = busy, born' = born,
         \A i \in Ids \ {th[d].on} : rec'[i] = rec[i] /\ pending'[i] = pending[i],
         Range(r.todo) \cap Status \subseteq {"failed", "done"},
         "failed" \in Range(r.todo) => Range(r.todo) \cap Interview = {},
         Ahead(LateOps, r.todo) => /\ rec'[th[d].on].status # "pending_approval"
                                   /\ \A c \in Cmds : ~Approving(c, th[d].on),
         Range(r.todo) \cap WorkOps # {} => rec'[th[d].on].status \notin OpenStatus,
         \A c \in Cmds : Approving(c, th[d].on) /\ rec'[th[d].on].status = "failed"
                           => Range(r.todo) \cap Interview = {},
         \A c \in Cmds : Approving(c, th[d].on)
                           => rec'[th[d].on].status \in {"pending_approval", "failed"}
  PROVE  BInv'
<1> DEFINE e == th[d].on
<1>1. th \in [Threads -> Thread] /\ d \in Threads /\ e \in Ids
  BY DEF IInv, ThreadsOK, Threads, Thread
<1>2. th' = [th EXCEPT ![d] = r]
  BY DEF Become
<1>3. th'[d] = r /\ \A u \in Threads \ {d} : th'[u] = th[u]
  BY <1>1, <1>2
<1>4. \A c \in Cmds : c \in Threads \ {d} /\ th'[c] = th[c]
  BY <1>3, ErrandsAssumption DEF Threads
<1>5. \A c \in Cmds : CommandOK(c)'
  BY <1>4 DEF BInv, CommandOK, Idle, Rest, At
<1>6. \A c \in Cmds, i \in Ids : Approving(c, i)' <=> Approving(c, i)
  BY <1>4 DEF Approving, At
<1>7. DriverOK(d)'
  BY <1>1, <1>3, <1>6 DEF DriverOK, Ahead
<1>8. ASSUME NEW u \in Drivers \ {d}, ~Idle(u)'
      PROVE  DriverOK(u)'
  <2>1. u \in Threads /\ th'[u] = th[u] /\ ~Idle(u) /\ th[u].on \in Ids
    BY <1>1, <1>3, <1>8 DEF Idle, Threads, Thread
  <2>2. th[u].on # e
    BY <1>1, <1>8, <2>1 DEF IInv, SingleDriver, DriversOf
  <2>3. DriverOK(u) /\ rec'[th[u].on] = rec[th[u].on]
    BY <2>1, <2>2 DEF BInv
  <2>4. \A c \in Cmds : Approving(c, th[u].on)' => Approving(c, th[u].on)
    BY <1>6, <2>1
  <2>5. QED
    BY <2>1, <2>3, <2>4, DriverStays
<1>9. ApprovalsOK'
  <2>1. ASSUME NEW c \in Cmds, NEW i \in Ids, Approving(c, i)
        PROVE  rec'[i].status \in {"pending_approval", "failed"}
    <3>1. CASE i = e
      BY <2>1, <3>1
    <3>2. CASE i # e
      BY <2>1, <3>2 DEF BInv, ApprovalsOK
    <3>3. QED
      BY <3>1, <3>2
  <2>2. QED
    BY <1>6, <2>1 DEF ApprovalsOK
<1>10. e \in born
  BY <1>1 DEF SInv, BornOnly
<1>11. Unstarted'
  BY <1>10 DEF BInv, Unstarted
<1>12. busy[e]
  BY <1>1 DEF IInv, SingleDriver, DriversOf
<1>13. \A i \in Ids : Returns(i) => Returns(i)'
  BY <1>4 DEF Returns
<1>14. Kindled'
  <2>1. ASSUME NEW i \in Ids
        PROVE  rec'[i].status \in OpenStatus /\ pending'[i] # <<>> /\ ~busy'[i] => Returns(i)'
    <3>1. CASE i = e
      BY <1>12, <3>1
    <3>2. CASE i # e
      BY <1>13, <3>2, StaysKindled DEF BInv
    <3>3. QED
      BY <3>1, <3>2
  <2>2. QED
    BY <2>1 DEF Kindled
<1>15. QED
  BY <1>5, <1>7, <1>8, <1>9, <1>11, <1>14 DEF BInv

\* The errand and what is buffered for it stay as they were.
Apart(d) ==
  /\ busy' = busy /\ born' = born /\ pending' = pending
  /\ \A i \in Ids : rec'[i].status = rec[i].status
  /\ \A i \in Ids \ {th[d].on} : rec'[i] = rec[i]

\* A driver that goes on with what it had to do, and with operations of no phase.
Plain == {"write", "putClaims", "header", "save", "collected"}
Mild == Plain \cup {"turn", "next"}
LEMMA PlainIsMild == Seq(Plain) \subseteq Seq(Mild)
BY SeqMonotonic DEF Mild

LEMMA DriverRests ==
  ASSUME IInv, SInv, BInv, NEW d \in Drivers, ~Idle(d), NEW r, Become(d, r), r.todo # <<>>,
         r.on = th[d].on, Apart(d),
         Range(r.todo) \subseteq Range(th[d].todo) \cup Mild,
         Ahead(LateOps, r.todo) => Ahead(LateOps, th[d].todo)
  PROVE  BInv'
<1> DEFINE e == th[d].on
           ops == Range(th[d].todo)
           new == Range(r.todo)
<1>1. DriverOK(d) /\ e \in Ids
  BY DEF BInv, IInv, ThreadsOK, Thread, Threads
<1>2. rec'[e].status = rec[e].status
  BY <1>1 DEF Apart
<1>3. Mild \cap (Status \cup Interview \cup WorkOps) = {}
  BY DEF Mild, Plain, Status, Interview, WorkOps, LateOps
<1>4. /\ new \cap Status \subseteq ops \cap Status
      /\ new \cap Interview \subseteq ops \cap Interview
      /\ new \cap WorkOps \subseteq ops \cap WorkOps
      /\ "failed" \in new => "failed" \in ops
  BY <1>3 DEF Status
<1>5. /\ new \cap Status \subseteq {"failed", "done"}
      /\ "failed" \in new => new \cap Interview = {}
      /\ Ahead(LateOps, r.todo) => /\ rec'[e].status # "pending_approval"
                                   /\ \A c \in Cmds : ~Approving(c, e)
      /\ new \cap WorkOps # {} => rec'[e].status \notin OpenStatus
      /\ \A c \in Cmds : Approving(c, e) /\ rec'[e].status = "failed" => new \cap Interview = {}
  BY <1>1, <1>2, <1>4 DEF DriverOK
<1>6. \A c \in Cmds : Approving(c, e) => rec'[e].status \in {"pending_approval", "failed"}
  BY <1>1, <1>2 DEF BInv, ApprovalsOK
<1>7. \A i \in Ids \ {e} : rec'[i] = rec[i] /\ pending'[i] = pending[i]
  BY DEF Apart
<1>8. busy' = busy /\ born' = born
  BY DEF Apart
<1>9. QED
  BY <1>5, <1>6, <1>7, <1>8, DriverMoves

\* It takes the rest of what it had to do after something that reads no status.
LEMMA DriverTakesRest ==
  ASSUME IInv, SInv, BInv, NEW d \in Drivers, ~Idle(d), Head(th[d].todo) \notin Ends \cup {"apply"},
         NEW ops \in Seq(Mild), NEW r, Become(d, r), r.on = th[d].on, Apart(d),
         r.todo = ops \o Rest(d)
  PROVE  BInv'
<1>1. d \in Threads
  BY DEF Threads
<1>2. /\ th[d].todo \in Seq(Op) /\ th[d].todo # <<>> /\ Rest(d) \in Seq(Op)
      /\ Range(th[d].todo) = {Head(th[d].todo)} \cup Range(Rest(d))
  BY <1>1, FrontOp
<1>3. Rest(d) # <<>>
  BY ChainTail DEF IInv, ThreadsOK, Rest, Chain
<1>4. ops \in Seq(Op \ LateOps) /\ ops \in Seq(Op)
  BY DEF Mild, Plain, Op, LateOps, Status
<1>5. Range(r.todo) \subseteq Range(th[d].todo) \cup Mild
  <2>1. Range(ops \o Rest(d)) = Range(ops) \cup Range(Rest(d))
    BY <1>2, <1>4, RangeConcatenation
  <2>2. Range(ops) \subseteq Mild
    BY RangeOfSeq
  <2>3. QED
    BY <1>2, <2>1, <2>2
<1>6. ASSUME Ahead(LateOps, r.todo) PROVE Ahead(LateOps, th[d].todo)
  <2>1. Ahead(LateOps, ops \o Rest(d))
    BY <1>6
  <2>2. Ahead(LateOps, Rest(d))
    BY <1>2, <1>4, <2>1, QuietConcat
  <2>3. Ahead(LateOps, Tail(th[d].todo))
    BY <2>2 DEF Rest
  <2>4. QED
    BY <1>2, <2>3, AheadTail
<1>7. r.todo # <<>>
  <2>1. ops \o Rest(d) # <<>>
    BY <1>2, <1>3, <1>4
  <2>2. QED
    BY <2>1
<1>8. QED
  BY <1>5, <1>6, <1>7, DriverRests

LEMMA DriverGoesToRest ==
  ASSUME IInv, SInv, BInv, NEW d \in Drivers, ~Idle(d), Head(th[d].todo) \notin Ends \cup {"apply"},
         Goto(d, Rest(d)), Apart(d)
  PROVE  BInv'
<1> DEFINE r == [th[d] EXCEPT !.todo = Rest(d)]
<1>1. d \in Threads /\ th[d] \in Thread
  BY DEF IInv, ThreadsOK, Threads
<1>2. r.todo = Rest(d) /\ r.on = th[d].on /\ Become(d, r)
  BY <1>1 DEF Thread, Goto
<1>3. Rest(d) = <<>> \o Rest(d) /\ <<>> \in Seq(Mild)
  BY <1>1, FrontOp
<1> HIDE DEF r
<1>4. QED
  BY <1>2, <1>3, DriverTakesRest

\* It goes to operations of no phase.
LEMMA DriverGoesMildly ==
  ASSUME IInv, SInv, BInv, NEW d \in Drivers, ~Idle(d), NEW ops \in Seq(Mild), ops # <<>>,
         Goto(d, ops), Apart(d)
  PROVE  BInv'
<1> DEFINE r == [th[d] EXCEPT !.todo = ops]
<1>1. th[d] \in Thread
  BY DEF IInv, ThreadsOK, Threads
<1>2. r.todo = ops /\ r.on = th[d].on /\ Become(d, r)
  BY <1>1 DEF Thread, Goto
<1>3. ops \in Seq(Op \ LateOps)
  BY DEF Mild, Plain, Op, LateOps, Status
<1>4. ~Ahead(LateOps, ops) /\ Range(ops) \subseteq Mild
  BY <1>3, QuietSeq, RangeOfSeq
<1> HIDE DEF r
<1>5. QED
  BY <1>2, <1>4, DriverRests

\* A driver leaves an errand that is over or has nothing buffered.
LEMMA DriverLeaves ==
  ASSUME IInv, SInv, BInv, NEW d \in Drivers, ~Idle(d), Exit(d), UNCHANGED <<rec, pending, born>>,
         pending[th[d].on] = <<>> \/ rec[th[d].on].status \notin OpenStatus
  PROVE  BInv'
<1> DEFINE e == th[d].on
<1>1. /\ th \in [Threads -> Thread] /\ d \in Threads /\ e \in Ids
      /\ busy \in [Ids -> BOOLEAN]
  BY DEF IInv, ThreadsOK, DataOK, Threads, Thread
<1>2. th' = [th EXCEPT ![d] = IdleThread] /\ busy' = [busy EXCEPT ![e] = FALSE]
  BY <1>1 DEF Exit, Goto, Become, Thread
<1>3. Idle(d)' /\ \A u \in Threads \ {d} : th'[u] = th[u]
  BY <1>1, <1>2 DEF Idle, IdleThread
<1>4. \A c \in Cmds : th'[c] = th[c]
  BY <1>3, ErrandsAssumption DEF Threads
<1>5. \A c \in Cmds : CommandOK(c)'
  BY <1>4 DEF BInv, CommandOK, Idle, Rest, At
<1>6. \A c \in Cmds, i \in Ids : Approving(c, i)' <=> Approving(c, i)
  BY <1>4 DEF Approving, At
<1>7. ASSUME NEW u \in Drivers, ~Idle(u)'
      PROVE  DriverOK(u)'
  <2>1. u \in Threads /\ th'[u] = th[u] /\ ~Idle(u) /\ th[u].on \in Ids
    BY <1>1, <1>3, <1>7 DEF Idle, Threads, Thread
  <2>2. DriverOK(u)
    BY <2>1 DEF BInv
  <2>3. QED
    BY <1>6, <2>1, <2>2, DriverStays
<1>8. ApprovalsOK' /\ Unstarted'
  BY <1>6 DEF BInv, ApprovalsOK, Unstarted
<1>9. \A i \in Ids : Returns(i) => Returns(i)'
  BY <1>4 DEF Returns
<1>10. Kindled'
  <2>1. ASSUME NEW i \in Ids
        PROVE  rec'[i].status \in OpenStatus /\ pending'[i] # <<>> /\ ~busy'[i] => Returns(i)'
    <3>1. CASE i = e
      BY <3>1
    <3>2. CASE i # e
      <4>1. busy'[i] = busy[i]
        BY <1>1, <1>2, <3>2
      <4>2. QED
        BY <1>9, <4>1, StaysKindled DEF BInv
    <3>3. QED
      BY <3>1, <3>2
  <2>2. QED
    BY <2>1 DEF Kindled
<1>11. QED
  BY <1>5, <1>7, <1>8, <1>10 DEF BInv

\* Neither drivers nor the bookkeeping of an errand is touched.
Aside ==
  /\ UNCHANGED <<busy, pending, born>>
  /\ \A i \in Ids : rec'[i].status = rec[i].status

\* The command goroutine c goes on, with what drives the errand still to be done.
LEMMA CommandMoves ==
  ASSUME OneCommand, IInv, SInv, BInv, NEW c \in Cmds, ~Idle(c), Head(th[c].todo) # "active",
         NEW r, Become(c, r), r.on = th[c].on, Aside,
         r.todo \in Seq(Op), "active" \notin Range(r.todo),
         "drive" \in Range(th[c].todo) /\ "create" \notin Range(th[c].todo)
           => "drive" \in Range(r.todo) /\ "create" \notin Range(r.todo)
  PROVE  BInv'
<1> DEFINE n == IF r.todo = <<>> THEN IdleThread ELSE r
<1>1. th \in [Threads -> Thread] /\ c \in Threads /\ c \notin Drivers
  BY ErrandsAssumption DEF IInv, ThreadsOK, Threads
<1>2. th' = [th EXCEPT ![c] = n]
  BY DEF Become
<1>3. th'[c] = n /\ \A u \in Threads \ {c} : th'[u] = th[u]
  BY <1>1, <1>2
<1>4. \A d \in Drivers : th'[d] = th[d] /\ d \in Threads
  BY <1>1, <1>3 DEF Threads
<1>5. n.todo = r.todo /\ (r.todo # <<>> => n = r)
  BY DEF IdleThread
<1>6. \A x \in Cmds, i \in Ids : ~Approving(x, i)'
  <2>1. r.todo # <<>> => Head(r.todo) # "active"
    <3>1. r.todo # <<>> => Range(r.todo) = {Head(r.todo)} \cup Range(Tail(r.todo))
      BY RangeTail
    <3>2. QED
      BY <3>1
  <2>2. QED
    BY <1>3, <1>5, <2>1 DEF OneCommand, Approving, At
<1>7. \A x \in Cmds : CommandOK(x)'
  <2>1. r.todo # <<>> => "active" \notin Range(Tail(r.todo)) /\ Head(r.todo) # "active"
    <3>1. r.todo # <<>> => Range(r.todo) = {Head(r.todo)} \cup Range(Tail(r.todo))
      BY RangeTail
    <3>2. QED
      BY <3>1
  <2>2. CommandOK(c)'
    BY <1>3, <1>5, <2>1 DEF CommandOK, Idle, Rest, At
  <2>3. QED
    BY <2>2 DEF OneCommand
<1>8. ASSUME NEW d \in Drivers, ~Idle(d)'
      PROVE  DriverOK(d)'
  <2>1. ~Idle(d) /\ th'[d] = th[d] /\ th[d].on \in Ids
    BY <1>1, <1>4, <1>8 DEF Idle, Thread
  <2>2. DriverOK(d)
    BY <2>1 DEF BInv
  <2>3. QED
    BY <1>6, <2>1, <2>2, DriverStays DEF Aside
<1>9. ApprovalsOK' /\ Unstarted'
  BY <1>6 DEF BInv, ApprovalsOK, Unstarted, Aside
<1>10. ASSUME NEW i \in Ids, Returns(i) PROVE Returns(i)'
  <2>1. th[c].on = i /\ "drive" \in Range(th[c].todo) /\ "create" \notin Range(th[c].todo)
    BY <1>10 DEF Returns, OneCommand
  <2>2. r.todo # <<>>
    BY <2>1, RangeLiterals
  <2>3. th'[c] = r
    BY <1>3, <1>5, <2>2
  <2>4. QED
    BY <2>1, <2>3 DEF Returns
<1>11. Kindled'
  <2>1. ASSUME NEW i \in Ids
        PROVE  rec'[i].status \in OpenStatus /\ pending'[i] # <<>> /\ ~busy'[i] => Returns(i)'
    BY <1>10, StaysKindled DEF BInv, Aside
  <2>2. QED
    BY <2>1 DEF Kindled
<1>12. QED
  BY <1>7, <1>8, <1>9, <1>11 DEF BInv

\* A command that takes on a born errand, when it was idle.
LEMMA CommandBegins ==
  ASSUME OneCommand, IInv, SInv, BInv, NEW c \in Cmds, Idle(c), NEW e \in Ids, NEW ops \in Seq(Op),
         NEW p, ops # <<>>, Begin(c, e, ops, p), UNCHANGED <<busy, pending>>,
         born \subseteq born', \A i \in Ids \ {e} : rec'[i] = rec[i],
         "active" \notin Range(Tail(ops)),
         \/ Head(ops) # "active" /\ (rec'[e].status = "cancelled" \/ rec'[e] = rec[e] \/ e \notin born)
         \/ /\ "drive" \in Range(ops) /\ "create" \notin Range(ops)
            /\ rec'[e] = rec[e] /\ rec[e].status = "pending_approval"
  PROVE  BInv'
<1> DEFINE r == [IdleThread EXCEPT !.todo = ops, !.on = e, !.prompt = p]
<1>1. th \in [Threads -> Thread] /\ c \in Threads /\ c \notin Drivers
  BY ErrandsAssumption DEF IInv, ThreadsOK, Threads
<1>2. r.todo = ops /\ r.on = e
  BY DEF IdleThread
<1>3. th' = [th EXCEPT ![c] = r]
  BY <1>2 DEF Begin, Become
<1> HIDE DEF r
<1>4. th'[c] = r /\ \A u \in Threads \ {c} : th'[u] = th[u]
  BY <1>1, <1>3
<1>5. \A d \in Drivers : th'[d] = th[d] /\ d \in Threads
  BY <1>1, <1>4 DEF Threads
<1>6. /\ \A x \in Cmds, i \in Ids : ~Approving(x, i)
      /\ \A x \in Cmds, i \in Ids : Approving(x, i)' => /\ i = e /\ Head(ops) = "active"
                                                        /\ rec'[i].status = "pending_approval"
                                                        /\ rec'[i] = rec[i]
  BY <1>2, <1>4 DEF OneCommand, Approving, At, Idle
<1>7. \A x \in Cmds : CommandOK(x)'
  BY <1>2, <1>4 DEF OneCommand, CommandOK, Idle, Rest, At
<1>8. ASSUME NEW d \in Drivers, ~Idle(d)'
      PROVE  DriverOK(d)'
  <2>1. ~Idle(d) /\ th'[d] = th[d] /\ th[d].on \in Ids /\ th[d].on \in born
    BY <1>1, <1>5, <1>8 DEF Idle, Thread, SInv, BornOnly
  <2>2. DriverOK(d)
    BY <2>1 DEF BInv
  <2>3. \/ th[d].on # e \/ rec'[e] = rec[e]
        \/ th[d].on = e /\ rec'[e].status = "cancelled" /\ Head(ops) # "active"
    BY <2>1
  <2>4. CASE th[d].on # e
    <3>1. rec'[th[d].on] = rec[th[d].on] /\ \A x \in Cmds : ~Approving(x, th[d].on)'
      BY <1>6, <2>1, <2>4
    <3>2. QED
      BY <2>1, <2>2, <3>1, DriverStays
  <2>5. CASE th[d].on = e /\ rec'[e] = rec[e]
    BY <1>6, <2>1, <2>2, <2>5 DEF DriverOK, Ahead
  <2>6. CASE th[d].on = e /\ rec'[e].status = "cancelled" /\ Head(ops) # "active"
    <3>1. \A x \in Cmds : ~Approving(x, e)'
      BY <1>6, <2>6
    <3>2. QED
      BY <2>1, <2>2, <2>6, <3>1 DEF DriverOK, Ahead, OpenStatus
  <2>7. QED
    BY <2>3, <2>4, <2>5, <2>6
<1>9. ApprovalsOK' /\ Unstarted'
  BY <1>6 DEF BInv, ApprovalsOK, Unstarted
<1>10. \A i \in Ids : ~Returns(i)
  BY RangeLiterals DEF OneCommand, Returns, Idle
<1>11. Kindled'
  <2>1. ASSUME NEW i \in Ids, rec'[i].status \in OpenStatus, pending'[i] # <<>>, ~busy'[i]
        PROVE  Returns(i)'
    <3>1. CASE i # e \/ rec'[i] = rec[i]
      BY <1>10, <2>1, <3>1 DEF BInv, Kindled
    <3>2. CASE i = e /\ rec'[e].status = "cancelled"
      BY <2>1, <3>2 DEF OpenStatus
    <3>3. CASE i = e /\ e \notin born
      BY <2>1, <3>3 DEF BInv, Unstarted
    <3>4. QED
      BY <3>1, <3>2, <3>3
  <2>2. QED
    BY <2>1 DEF Kindled
<1>12. QED
  BY <1>7, <1>8, <1>9, <1>11 DEF BInv

\* The subscribe loop goes on.
LEMMA FeederMoves ==
  ASSUME IInv, BInv, NEW r, Become(Feeder, r), Aside
  PROVE  BInv'
<1>1. th \in [Threads -> Thread] /\ Feeder \in Threads
  BY DEF IInv, ThreadsOK, Threads
<1>2. \A u \in Threads \ {Feeder} : th'[u] = th[u]
  BY <1>1 DEF Become
<1>3. /\ \A c \in Cmds : th'[c] = th[c]
      /\ \A d \in Drivers : th'[d] = th[d] /\ th[d].on \in Ids
  BY <1>1, <1>2, ErrandsAssumption DEF Threads, Thread
<1>4. \A c \in Cmds : CommandOK(c)'
  BY <1>3 DEF BInv, CommandOK, Idle, Rest, At
<1>5. \A c \in Cmds, i \in Ids : Approving(c, i)' <=> Approving(c, i)
  BY <1>3 DEF Approving, At
<1>6. ASSUME NEW d \in Drivers, ~Idle(d)'
      PROVE  DriverOK(d)'
  <2>1. DriverOK(d) /\ th'[d] = th[d] /\ th[d].on \in Ids
    BY <1>3, <1>6 DEF Idle, BInv
  <2>2. QED
    BY <1>5, <2>1, DriverStays DEF Aside
<1>7. ApprovalsOK' /\ Unstarted'
  BY <1>5 DEF BInv, ApprovalsOK, Unstarted, Aside
<1>8. \A i \in Ids : Returns(i) => Returns(i)'
  BY <1>3 DEF Returns
<1>9. Kindled'
  <2>1. ASSUME NEW i \in Ids
        PROVE  rec'[i].status \in OpenStatus /\ pending'[i] # <<>> /\ ~busy'[i] => Returns(i)'
    BY <1>8, StaysKindled DEF BInv, Aside
  <2>2. QED
    BY <2>1 DEF Kindled
<1>10. QED
  BY <1>4, <1>6, <1>7, <1>9 DEF BInv

-----------------------------------------------------------------------------
(* Every step. *)

LEMMA InitBuffered == Init => BInv
<1> SUFFICES ASSUME Init PROVE BInv
  OBVIOUS
<1>1. \A t \in Threads : Idle(t)
  BY DEF Init, Idle, IdleThread
<1>2. Cmds \subseteq Threads /\ Drivers \subseteq Threads
  BY DEF Threads
<1>3. \A c \in Cmds : CommandOK(c) /\ \A e \in Ids : ~Approving(c, e)
  BY <1>1, <1>2 DEF CommandOK, Approving, At, Idle
<1>4. \A e \in Ids : pending[e] = <<>>
  BY DEF Init
<1>5. QED
  BY <1>1, <1>2, <1>3, <1>4 DEF BInv, ApprovalsOK, Unstarted, Kindled

LEMMA OwnerBuffered ==
  ASSUME OneCommand, IInv, SInv, BInv, Owner
  PROVE  BInv'
<1> USE DEF bounds
<1>1. PICK c \in Cmds, e \in Ids :
        \/ \E auto \in BOOLEAN : startErrand(c, e, auto)
        \/ approveErrand(c, e)
        \/ rejectErrand(c, e)
        \/ reviseErrandPlan(c, e)
        \/ cancelErrand(c, e)
  BY DEF Owner
<1>2. rec \in [Ids -> Record] /\ Idle(c)
  BY <1>1 DEF IInv, DataOK, Command, startErrand, approveErrand, rejectErrand, reviseErrandPlan,
              cancelErrand
<1>3. ASSUME NEW auto \in BOOLEAN, startErrand(c, e, auto)
      PROVE  BInv'
  <2> DEFINE a == <<"create", "save", "claims">>
  <2>1. PICK b \in {<<"file", "drive">>, <<"drive">>} : \E p : Begin(c, e, a \o b, p)
    BY <1>3 DEF startErrand
  <2>2. a \in Seq(Op) /\ b \in Seq(Op) /\ Len(a) = 3 /\ a[1] = "create"
    <3>1. <<"file", "drive">> \in Seq(Op) /\ <<"drive">> \in Seq(Op) /\ a \in Seq(Op)
      BY DEF Op
    <3>2. QED
      BY <2>1, <3>1
  <2>3. Range(a) = {"create", "save", "claims"} /\ Range(b) \subseteq {"file", "drive"}
    BY <2>1, RangeLiterals
  <2> HIDE DEF a
  <2>4. a \o b \in Seq(Op) /\ Range(a \o b) = Range(a) \cup Range(b) /\ a \o b # <<>>
    BY <2>2, RangeConcatenation
  <2>5. "active" \notin Range(a \o b)
    BY <2>3, <2>4
  <2>6. Range(a \o b) = {Head(a \o b)} \cup Range(Tail(a \o b))
    BY <2>4, RangeTail
  <2>7. Head(a \o b) # "active" /\ "active" \notin Range(Tail(a \o b))
    BY <2>5, <2>6
  <2>8. /\ e \notin born /\ born \subseteq born' /\ UNCHANGED <<busy, pending>>
        /\ \A i \in Ids \ {e} : rec'[i] = rec[i]
    BY <1>2, <1>3 DEF startErrand
  <2>9. QED
    BY <1>2, <2>1, <2>4, <2>7, <2>8, CommandBegins
<1>4. ASSUME NEW ops \in {<<"drive">>, SetStatus("cancelled"), <<"save", "claims">>}, NEW p,
             Begin(c, e, ops, p), UNCHANGED <<busy, pending, born>>,
             \A i \in Ids \ {e} : rec'[i] = rec[i],
             rec'[e] = rec[e] \/ rec'[e].status = "cancelled"
      PROVE  BInv'
  <2>1. ops \in Seq(Op) /\ ops # <<>> /\ "active" \notin Range(ops)
    <3>1. /\ <<"drive">> \in Seq(Op) /\ <<"cancelled", "save", "claims">> \in Seq(Op)
          /\ <<"save", "claims">> \in Seq(Op)
      BY DEF Op, Status
    <3>2. /\ Range(<<"drive">>) = {"drive"} /\ Range(<<"save", "claims">>) = {"save", "claims"}
          /\ Range(<<"cancelled", "save", "claims">>) = {"cancelled", "save", "claims"}
      BY RangeLiterals
    <3>3. ops \in {<<"drive">>, <<"cancelled", "save", "claims">>, <<"save", "claims">>}
      BY <1>4 DEF SetStatus
    <3>4. "active" \notin Range(ops)
      BY <3>2, <3>3
    <3>5. ops \in Seq(Op)
      BY <3>1, <3>3
    <3>6. ops # <<>>
      BY <3>3
    <3>7. QED
      BY <3>4, <3>5, <3>6
  <2>2. Head(ops) # "active" /\ "active" \notin Range(Tail(ops))
    BY <2>1, RangeTail
  <2>3. QED
    BY <1>2, <1>4, <2>1, <2>2, CommandBegins
<1>5. CASE approveErrand(c, e)
  <2> DEFINE ops == SetStatus("active") \o <<"file", "drive">>
  <2>1. /\ ops \in Seq(Op) /\ ops # <<>> /\ "active" \notin Range(Tail(ops))
        /\ "drive" \in Range(ops) /\ "create" \notin Range(ops)
    BY ApprovalRest
  <2>2. /\ Begin(c, e, ops, "begin") /\ UNCHANGED <<rec, busy, pending, born>>
        /\ rec[e].status = "pending_approval"
    BY <1>5 DEF approveErrand, pendingErrand
  <2> HIDE DEF ops
  <2>3. QED
    BY <1>2, <2>1, <2>2, CommandBegins
<1>6. CASE rejectErrand(c, e) \/ reviseErrandPlan(c, e)
  BY <1>4, <1>6 DEF rejectErrand, reviseErrandPlan
<1>7. CASE cancelErrand(c, e)
  <2>1. /\ \A i \in Ids \ {e} : rec'[i] = rec[i]
        /\ rec'[e].status = "cancelled"
    BY <1>2, <1>7 DEF cancelErrand, Record
  <2>2. QED
    BY <1>4, <1>7, <2>1 DEF cancelErrand
<1>8. QED
  BY <1>1, <1>3, <1>5, <1>6, <1>7

LEMMA FeederBuffered ==
  ASSUME IInv, BInv,
         MarkSeen(Feeder) \/ Hear(Feeder) \/ \E m \in Replies, e \in Ids : Feed(m, e)
  PROVE  BInv'
<1> USE DEF bounds
<1>1. rec \in [Ids -> Record]
  BY DEF IInv, DataOK
<1>2. \E r : Become(Feeder, r)
  BY DEF MarkSeen, Hear, Feed, Begin, Goto
<1>3. UNCHANGED <<busy, pending, born>>
  BY DEF MarkSeen, Hear, Feed
<1>4. \A i \in Ids : rec'[i].status = rec[i].status
  <2>1. CASE MarkSeen(Feeder)
    <3> DEFINE x == markSeen(rec[th[Feeder].on].seen, th[Feeder].prompt)
    <3>1. rec' = [rec EXCEPT ![th[Feeder].on].seen = x]
      BY <2>1 DEF MarkSeen
    <3> HIDE DEF x
    <3>2. QED
      BY <1>1, <3>1 DEF Record
  <2>2. CASE Hear(Feeder)
    <3> DEFINE x == Append(rec[th[Feeder].on].heard, th[Feeder].prompt)
    <3>1. rec' = [rec EXCEPT ![th[Feeder].on].heard = x]
      BY <2>2 DEF Hear
    <3> HIDE DEF x
    <3>2. QED
      BY <1>1, <3>1 DEF Record
  <2>3. QED
    BY <2>1, <2>2 DEF Feed
<1>5. QED
  BY <1>2, <1>3, <1>4, FeederMoves DEF Aside

\* Approving, in the one section that stores it.
LEMMA ApprovalStored ==
  ASSUME OneCommand, IInv, SInv, BInv, NEW c \in Cmds, StoreStatus(c)
  PROVE  BInv'
<1> DEFINE e == th[c].on
           r == [th[c] EXCEPT !.todo = Rest(c)]
<1>1. /\ th \in [Threads -> Thread] /\ c \in Threads /\ c \notin Drivers /\ th[c] \in Thread
      /\ rec \in [Ids -> Record]
  BY ErrandsAssumption DEF IInv, ThreadsOK, DataOK, Threads
<1>2. PICK s \in Status : At(c, s) /\ rec' = [rec EXCEPT ![e].status = s]
  BY DEF StoreStatus
<1>3. ~Idle(c) /\ Head(th[c].todo) = s
  BY <1>2 DEF At, Idle
<1>4. /\ th[c].todo \in Seq(Op) /\ Rest(c) \in Seq(Op) /\ e \in Ids
      /\ Range(th[c].todo) = {s} \cup Range(Rest(c))
  BY <1>1, <1>3, FrontOp
<1>5. s # "pending_approval"
  <2>1. th[c].todo \in Seq(Op) /\ th[c].todo # <<>>
    BY <1>3, <1>4 DEF Idle
  <2>2. s \in Op
    BY <1>3, <2>1
  <2>3. QED
    BY <2>2 DEF Op
<1>6. /\ rec'[e].status = s /\ \A i \in Ids \ {e} : rec'[i] = rec[i]
      /\ UNCHANGED <<busy, pending, born>>
  BY <1>1, <1>2, <1>4 DEF StoreStatus, Record, bounds
<1>7. /\ th'[c] = (IF Rest(c) = <<>> THEN IdleThread ELSE r)
      /\ \A u \in Threads \ {c} : th'[u] = th[u]
      /\ th'[c].todo = Rest(c) /\ (Rest(c) # <<>> => th'[c].on = e)
  <2>1. r.todo = Rest(c) /\ r.on = e
    BY <1>1 DEF Thread
  <2>2. th' = [th EXCEPT ![c] = IF Rest(c) = <<>> THEN IdleThread ELSE r]
    BY <2>1 DEF StoreStatus, Goto, Become
  <2>3. QED
    BY <1>1, <2>1, <2>2 DEF IdleThread
<1> HIDE DEF r
<1>8. "active" \notin Range(Rest(c))
  BY <1>3 DEF BInv, CommandOK
<1>9. Rest(c) # <<>> => /\ Head(Rest(c)) # "active"
                        /\ Range(Tail(Rest(c))) \subseteq Range(Rest(c))
  BY <1>4, <1>8, RangeTail
<1>10. \A x \in Cmds : CommandOK(x)' /\ \A i \in Ids : ~Approving(x, i)'
  <2>1. CommandOK(c)' /\ \A i \in Ids : ~Approving(c, i)'
    BY <1>7, <1>8, <1>9 DEF CommandOK, Idle, Rest, At, Approving
  <2>2. QED
    BY <2>1 DEF OneCommand
<1>11. s = "active" => Approving(c, e) /\ rec[e].status \in {"pending_approval", "failed"}
  BY <1>2, <1>4 DEF Approving, BInv, ApprovalsOK
<1>12. ASSUME NEW d \in Drivers, ~Idle(d)'
       PROVE  DriverOK(d)'
  <2>1. /\ d \in Threads /\ ~Idle(d) /\ th'[d] = th[d] /\ th[d].on \in Ids
        /\ th[d].todo \in Seq(Op)
    BY <1>1, <1>7, <1>12 DEF Idle, Threads, Thread
  <2>2. DriverOK(d)
    BY <2>1 DEF BInv
  <2>3. CASE th[d].on # e
    BY <1>6, <1>10, <2>1, <2>2, <2>3, DriverStays
  <2>4. CASE th[d].on = e /\ s # "active"
    BY <1>5, <1>6, <1>10, <2>1, <2>2, <2>4 DEF DriverOK, Ahead, OpenStatus
  <2>5. CASE th[d].on = e /\ s = "active"
    <3>1. ~Ahead(LateOps, th[d].todo)
      BY <1>11, <2>2, <2>5 DEF DriverOK
    <3>2. Range(th[d].todo) \cap WorkOps = {}
      <4>1. SUFFICES ASSUME Range(th[d].todo) \cap WorkOps # {} PROVE FALSE
        OBVIOUS
      <4>2. rec[e].status = "failed"
        BY <1>11, <2>2, <2>5, <4>1 DEF DriverOK, OpenStatus
      <4>3. "apply" \notin Range(th[d].todo)
        BY <1>11, <2>2, <2>5, <4>2 DEF DriverOK, Interview
      <4>4. QED
        BY <2>1, <3>1, <4>1, <4>3, AheadAll DEF WorkOps
    <3>3. QED
      BY <1>10, <2>1, <2>2, <2>5, <3>1, <3>2 DEF DriverOK, Ahead
  <2>6. QED
    BY <2>3, <2>4, <2>5
<1>13. ApprovalsOK' /\ Unstarted'
  BY <1>6, <1>10 DEF BInv, ApprovalsOK, Unstarted
<1>14. Kindled'
  <2>1. ASSUME NEW i \in Ids, rec'[i].status \in OpenStatus, pending'[i] # <<>>, ~busy'[i]
        PROVE  Returns(i)'
    <3>1. CASE i # e
      <4>1. Returns(i)
        BY <1>6, <2>1, <3>1 DEF BInv, Kindled
      <4>2. QED
        BY <3>1, <4>1 DEF Returns, OneCommand
    <3>2. CASE i = e
      <4>1. s = "active"
        BY <1>5, <1>6, <2>1, <3>2 DEF OpenStatus
      <4>2. "drive" \in Range(th[c].todo) /\ "create" \notin Range(th[c].todo)
        BY <1>2, <4>1 DEF BInv, CommandOK
      <4>3. "drive" \in Range(Rest(c)) /\ "create" \notin Range(Rest(c)) /\ Rest(c) # <<>>
        BY <1>4, <4>1, <4>2, RangeLiterals
      <4>4. QED
        BY <1>7, <3>2, <4>3 DEF Returns
    <3>3. QED
      BY <3>1, <3>2
  <2>2. QED
    BY <2>1 DEF Kindled
<1>15. QED
  BY <1>10, <1>12, <1>13, <1>14 DEF BInv

\* Goroutine t goes on, as r, with the errand and the prompt it has.
SameErrand(t, r) == r.on = th[t].on /\ r.prompt = th[t].prompt

\* The shared operations that store no status and start no driver run on in the same way
\* in every goroutine.
LEMMA SharedGoesOn ==
  ASSUME IInv, NEW t \in Threads, Shared(t), ~StoreStatus(t), ~Drive(t), ~CreateFails(t)
  PROVE  /\ ~Idle(t)
         /\ Head(th[t].todo) \in {"save", "create", "write", "claims", "putClaims", "file", "header"}
         /\ \E ops \in Seq(Plain) : \E r : Become(t, r) /\ SameErrand(t, r) /\ r.todo = ops \o Rest(t)
         /\ UNCHANGED <<busy, pending, born, asked>>
         /\ \A i \in Ids : rec'[i].status = rec[i].status /\ rec'[i].heard = rec[i].heard
         /\ \A i \in Ids \ {th[t].on} : rec'[i] = rec[i]
<1> USE DEF bounds, history
<1>1. /\ ~Idle(t)
      /\ Head(th[t].todo) \in {"save", "create", "write", "claims", "putClaims", "file", "header"}
  BY DEF Shared, OpenErrand, WriteErrand, CollectClaims, SaveClaims, EnsureInterviewFile,
         WriteHeader, At, Idle
<1>2. th[t] \in Thread /\ rec \in [Ids -> Record] /\ Rest(t) \in Seq(Op)
  BY <1>1, FrontOp DEF IInv, ThreadsOK, DataOK
<1>3. UNCHANGED <<busy, pending, born, asked>>
  BY DEF Shared, OpenErrand, WriteErrand, CollectClaims, SaveClaims, EnsureInterviewFile,
         WriteHeader
<1>4. rec' = rec \/ rec' = [rec EXCEPT ![th[t].on].file = TRUE]
  BY DEF Shared, OpenErrand, WriteErrand, CollectClaims, SaveClaims, EnsureInterviewFile,
         WriteHeader
<1>5. /\ \A i \in Ids : rec'[i].status = rec[i].status /\ rec'[i].heard = rec[i].heard
      /\ \A i \in Ids \ {th[t].on} : rec'[i] = rec[i]
  <2>1. CASE rec' = [rec EXCEPT ![th[t].on].file = TRUE]
    BY <1>2, <2>1 DEF Record
  <2>2. QED
    BY <1>4, <2>1
<1>6. ASSUME NEW ops \in Seq(Plain), NEW todo, todo = ops \o Rest(t),
             \/ \E x : Become(t, [th[t] EXCEPT !.todo = todo, !.snap = x])
             \/ \E x : Become(t, [th[t] EXCEPT !.todo = todo, !.claimed = x])
             \/ Goto(t, todo)
      PROVE  \E q \in Seq(Plain) : \E r : Become(t, r) /\ SameErrand(t, r) /\ r.todo = q \o Rest(t)
  <2>1. \A x : /\ [th[t] EXCEPT !.todo = todo, !.snap = x].todo = todo
               /\ [th[t] EXCEPT !.todo = todo, !.snap = x].on = th[t].on
               /\ [th[t] EXCEPT !.todo = todo, !.snap = x].prompt = th[t].prompt
    BY <1>2 DEF Thread
  <2>2. \A x : /\ [th[t] EXCEPT !.todo = todo, !.claimed = x].todo = todo
               /\ [th[t] EXCEPT !.todo = todo, !.claimed = x].on = th[t].on
               /\ [th[t] EXCEPT !.todo = todo, !.claimed = x].prompt = th[t].prompt
    BY <1>2 DEF Thread
  <2>3. /\ [th[t] EXCEPT !.todo = todo].todo = todo
        /\ [th[t] EXCEPT !.todo = todo].on = th[t].on
        /\ [th[t] EXCEPT !.todo = todo].prompt = th[t].prompt
    BY <1>2 DEF Thread
  <2>4. \E r : Become(t, r) /\ SameErrand(t, r) /\ r.todo = todo
    BY <1>6, <2>1, <2>2, <2>3 DEF Goto, SameErrand
  <2>5. QED
    BY <1>6, <2>4
<1>7. Rest(t) = <<>> \o Rest(t) /\ <<>> \in Seq(Plain)
  BY <1>2
<1>8. /\ <<"write">> \in Seq(Plain) /\ <<"putClaims">> \in Seq(Plain)
      /\ <<"header", "save">> \in Seq(Plain)
  BY DEF Plain
<1>9. \E q \in Seq(Plain) : \E r : Become(t, r) /\ SameErrand(t, r) /\ r.todo = q \o Rest(t)
  <2>1. CASE OpenErrand(t)
    BY <1>6, <1>8, <2>1 DEF OpenErrand
  <2>2. CASE WriteErrand(t)
    BY <1>6, <1>7, <2>2 DEF WriteErrand
  <2>3. CASE CollectClaims(t)
    BY <1>6, <1>8, <2>3 DEF CollectClaims
  <2>4. CASE SaveClaims(t)
    BY <1>6, <1>7, <2>4 DEF SaveClaims
  <2>5. CASE EnsureInterviewFile(t)
    BY <1>6, <1>7, <1>8, <2>5 DEF EnsureInterviewFile
  <2>6. CASE WriteHeader(t)
    BY <1>6, <1>7, <2>6 DEF WriteHeader
  <2>7. QED
    BY <2>1, <2>2, <2>3, <2>4, <2>5, <2>6 DEF Shared
<1>10. QED
  BY <1>1, <1>3, <1>5, <1>9

LEMMA CommandBuffered ==
  ASSUME OneCommand, IInv, SInv, BInv, NEW c \in Cmds, Shared(c), ~Drive(c)
  PROVE  BInv'
<1>1. c \in Threads
  BY DEF Threads
<1>2. CASE StoreStatus(c)
  BY <1>2, ApprovalStored
<1>3. CASE CreateFails(c)
  <2> DEFINE r == [th[c] EXCEPT !.todo = <<>>]
  <2>1. th[c] \in Thread
    BY <1>1 DEF IInv, ThreadsOK
  <2>2. r.todo = <<>> /\ r.on = th[c].on /\ Become(c, r)
    BY <1>3, <2>1 DEF CreateFails, Goto, Thread
  <2> HIDE DEF r
  <2>3. ~Idle(c) /\ Head(th[c].todo) = "create"
    BY <1>3 DEF CreateFails, At, Idle
  <2>4. "create" \in Range(th[c].todo)
    BY <1>1, <2>3, FrontOp
  <2>5. Aside
    BY <1>3 DEF CreateFails, Aside, bounds
  <2>6. r.todo \in Seq(Op) /\ "active" \notin Range(r.todo)
    BY <2>2, RangeLiterals
  <2>7. QED
    BY <2>2, <2>3, <2>4, <2>5, <2>6, CommandMoves
<1>4. CASE ~StoreStatus(c) /\ ~CreateFails(c)
  <2>1. /\ ~Idle(c) /\ Aside
        /\ Head(th[c].todo) \in {"save", "create", "write", "claims", "putClaims", "file", "header"}
        /\ \E ops \in Seq(Mild) : \E r : Become(c, r) /\ r.on = th[c].on /\ r.todo = ops \o Rest(c)
    BY <1>1, <1>4, SharedGoesOn, PlainIsMild DEF Aside, SameErrand
  <2>2. PICK ops \in Seq(Mild) :
          \E r : Become(c, r) /\ r.on = th[c].on /\ r.todo = ops \o Rest(c)
    BY <2>1
  <2>3. PICK r : Become(c, r) /\ r.on = th[c].on /\ r.todo = ops \o Rest(c)
    BY <2>2
  <2>4. /\ Rest(c) \in Seq(Op)
        /\ Range(th[c].todo) = {Head(th[c].todo)} \cup Range(Rest(c))
    BY <1>1, <2>1, FrontOp
  <2>5. ops \in Seq(Op) /\ Range(ops) \subseteq Mild
    <3>1. Mild \subseteq Op
      BY DEF Mild, Plain, Op
    <3>2. QED
      BY <3>1, RangeOfSeq
  <2>6. ops \o Rest(c) \in Seq(Op) /\ Range(ops \o Rest(c)) = Range(ops) \cup Range(Rest(c))
    BY <2>4, <2>5, RangeConcatenation
  <2>7. "active" \notin Range(Rest(c))
    BY <2>1 DEF BInv, CommandOK
  <2>8. r.todo \in Seq(Op) /\ Range(r.todo) = Range(ops) \cup Range(Rest(c))
    BY <2>3, <2>6
  <2>9. "active" \notin Range(r.todo)
    BY <2>5, <2>7, <2>8 DEF Mild, Plain
  <2>10. "drive" \in Range(th[c].todo) /\ "create" \notin Range(th[c].todo)
           => "drive" \in Range(r.todo) /\ "create" \notin Range(r.todo)
    BY <2>1, <2>4, <2>5, <2>8 DEF Mild, Plain
  <2>11. QED
    BY <2>1, <2>3, <2>8, <2>9, <2>10, CommandMoves
<1>5. QED
  BY <1>2, <1>3, <1>4

LEMMA FeederSharedBuffered ==
  ASSUME IInv, HInv, BInv, Shared(Feeder), ~Drive(Feeder)
  PROVE  BInv'
<1>1. Feeder \in Threads
  BY DEF Threads
<1>2. ~StoreStatus(Feeder)
  BY FeederOps DEF StoreStatus, HInv, Status
<1>3. CASE CreateFails(Feeder)
  <2>1. \E r : Become(Feeder, r)
    BY <1>3 DEF CreateFails, Goto
  <2>2. Aside
    BY <1>3 DEF CreateFails, Aside, bounds
  <2>3. QED
    BY <2>1, <2>2, FeederMoves
<1>4. CASE ~CreateFails(Feeder)
  <2>1. Aside /\ \E r : Become(Feeder, r)
    BY <1>1, <1>2, <1>4, SharedGoesOn DEF Aside
  <2>2. QED
    BY <2>1, FeederMoves
<1>5. QED
  BY <1>3, <1>4

\* What only a driver has left to do, and that the operation in front is one of its own.
LEMMA DriverFront ==
  ASSUME IInv, BInv, NEW d \in Drivers, NEW op, At(d, op)
  PROVE  /\ d \in Threads /\ ~Idle(d) /\ Head(th[d].todo) = op /\ DriverOK(d)
         /\ th[d] \in Thread /\ th[d].on \in Ids /\ rec \in [Ids -> Record]
         /\ th[d].todo \in Seq(Op) /\ th[d].todo # <<>> /\ Rest(d) \in Seq(Op)
         /\ Range(th[d].todo) = {op} \cup Range(Rest(d))
         /\ op \in DriverOp
         /\ op \notin Ends => Rest(d) # <<>>
<1>1. d \in Threads /\ ~Idle(d) /\ Head(th[d].todo) = op
  BY DEF Threads, At, Idle
<1>2. op \in DriverOp
  BY <1>1, DriverRuns
<1>3. op \notin Ends => Rest(d) # <<>>
  BY <1>1, ChainTail DEF IInv, ThreadsOK, Rest, Chain
<1>4. /\ th[d].todo \in Seq(Op) /\ th[d].todo # <<>> /\ Rest(d) \in Seq(Op)
      /\ Range(th[d].todo) = {op} \cup Range(Rest(d))
  BY <1>1, FrontOp
<1>5. QED
  BY <1>1, <1>2, <1>3, <1>4 DEF IInv, ThreadsOK, DataOK, Thread, BInv

LEMMA DriverSharedBuffered ==
  ASSUME IInv, SInv, BInv, NEW d \in Drivers, Shared(d)
  PROVE  BInv'
<1>1. d \in Threads /\ ~Drive(d) /\ ~CreateFails(d)
  BY DriverFront DEF Threads, Drive, CreateFails, DriverOp
<1>2. CASE StoreStatus(d)
  <2> DEFINE e == th[d].on
             r == [th[d] EXCEPT !.todo = Rest(d)]
  <2>1. PICK s \in Status : At(d, s) /\ rec' = [rec EXCEPT ![e].status = s]
    BY <1>2 DEF StoreStatus
  <2>2. s \notin Ends \cup {"apply"}
    BY DEF Ends, Status
  <2>3. /\ ~Idle(d) /\ Head(th[d].todo) = s /\ DriverOK(d) /\ th[d] \in Thread /\ e \in Ids
        /\ rec \in [Ids -> Record] /\ th[d].todo \in Seq(Op) /\ th[d].todo # <<>>
        /\ Range(th[d].todo) = {s} \cup Range(Rest(d)) /\ Rest(d) # <<>>
    BY <2>1, <2>2, DriverFront
  <2>4. s \in {"failed", "done"}
    BY <2>3 DEF DriverOK
  <2>5. rec'[e].status = s /\ \A i \in Ids \ {e} : rec'[i] = rec[i]
    BY <2>1, <2>3 DEF Record
  <2>6. UNCHANGED <<busy, pending, born>>
    BY <1>2 DEF StoreStatus, bounds
  <2>7. r.todo = Rest(d) /\ r.on = e /\ Become(d, r)
    BY <1>2, <2>3 DEF StoreStatus, Goto, Thread
  <2> HIDE DEF r
  <2>8. s = "done" => \A c \in Cmds : ~Approving(c, e)
    <3>1. s = "done" => Ahead(LateOps, th[d].todo)
      BY <2>3, AheadHead DEF LateOps
    <3>2. QED
      BY <2>3, <3>1 DEF DriverOK
  <2>9. s = "failed" => Range(Rest(d)) \cap Interview = {}
    BY <2>3 DEF DriverOK
  <2>10. "failed" \in Range(Rest(d)) => Range(Rest(d)) \cap Interview = {}
    BY <2>3 DEF DriverOK
  <2>11. ASSUME Ahead(LateOps, Rest(d)) PROVE \A c \in Cmds : ~Approving(c, e)
    <3>1. Ahead(LateOps, th[d].todo)
      BY <2>2, <2>3, <2>11, AheadTail DEF Rest
    <3>2. QED
      BY <2>3, <3>1 DEF DriverOK
  <2>12. Range(r.todo) \cap Status \subseteq {"failed", "done"}
    BY <2>3, <2>7 DEF DriverOK
  <2>13. rec'[e].status \notin OpenStatus /\ rec'[e].status # "pending_approval"
    BY <2>4, <2>5 DEF OpenStatus
  <2>14. \A c \in Cmds : Approving(c, e) => rec'[e].status = "failed"
    BY <2>4, <2>5, <2>8
  <2>15. QED
    BY <2>3, <2>4, <2>5, <2>6, <2>7, <2>8, <2>9, <2>10, <2>11, <2>12, <2>13, <2>14, DriverMoves
<1>3. CASE ~StoreStatus(d)
  <2>1. /\ ~Idle(d) /\ Apart(d)
        /\ Head(th[d].todo) \in {"save", "create", "write", "claims", "putClaims", "file", "header"}
        /\ \E ops \in Seq(Mild) : \E r : Become(d, r) /\ r.on = th[d].on /\ r.todo = ops \o Rest(d)
    BY <1>1, <1>3, SharedGoesOn, PlainIsMild DEF Apart, SameErrand
  <2>2. PICK ops \in Seq(Mild) :
          \E r : Become(d, r) /\ r.on = th[d].on /\ r.todo = ops \o Rest(d)
    BY <2>1
  <2>3. PICK r : Become(d, r) /\ r.on = th[d].on /\ r.todo = ops \o Rest(d)
    BY <2>2
  <2>4. Head(th[d].todo) \notin Ends \cup {"apply"}
    BY <2>1 DEF Ends
  <2>5. QED
    BY <2>1, <2>3, <2>4, DriverTakesRest
<1>4. QED
  BY <1>2, <1>3

\* A prompt is buffered behind the driver that runs, or starts one.
LEMMA DriveBuffered ==
  ASSUME IInv, SInv, BInv, NEW t \in Threads, Drive(t)
  PROVE  BInv'
<1> DEFINE e == th[t].on
<1>1. /\ th \in [Threads -> Thread] /\ ~Idle(t) /\ e \in Ids /\ e \in born
      /\ busy \in [Ids -> BOOLEAN] /\ pending \in [Ids -> Seq(Prompt)]
  BY DEF Drive, At, Idle, IInv, ThreadsOK, DataOK, Thread, SInv, BornOnly
<1>2. t \notin Drivers
  BY DriverFront DEF Drive, DriverOp
<1>3. /\ Idle(t)'
      /\ \A u \in Threads \ ({t} \cup Drivers) : th'[u] = th[u]
      /\ \A u \in Drivers : th'[u] = th[u] \/ th'[u].todo = <<"turn">>
  <2>1. CASE Goto(t, <<>>)
    <3>1. [th[t] EXCEPT !.todo = <<>>].todo = <<>>
      BY <1>1 DEF Thread
    <3>2. th' = [th EXCEPT ![t] = IdleThread]
      BY <2>1, <3>1 DEF Goto, Become
    <3>3. QED
      BY <1>1, <1>2, <3>2 DEF Idle, IdleThread, Threads
  <2>2. CASE \E d \in Drivers : Spawn(t, d)
    <3>1. PICK d \in Drivers : Spawn(t, d)
      BY <2>2
    <3>2. QED
      BY <1>1, <1>2, <3>1 DEF Spawn, Idle, IdleThread, Threads
  <2>3. QED
    BY <2>1, <2>2 DEF Drive
<1>4. /\ rec' = rec /\ born' = born /\ busy'[e]
      /\ \A i \in Ids \ {e} : busy'[i] = busy[i] /\ pending'[i] = pending[i]
  BY <1>1 DEF Drive, bounds
<1>5. \A c \in Cmds : c \in Threads \ Drivers
  BY ErrandsAssumption DEF Threads
<1>6. \A c \in Cmds : CommandOK(c)'
  BY <1>3, <1>5 DEF BInv, CommandOK, Idle, Rest, At
<1>7. \A c \in Cmds, i \in Ids : Approving(c, i)' => Approving(c, i)
  BY <1>3, <1>5 DEF Approving, At, Idle
<1>8. ASSUME NEW u \in Drivers, ~Idle(u)'
      PROVE  DriverOK(u)'
  <2>1. CASE th'[u] = th[u]
    <3>1. DriverOK(u) /\ th[u].on \in Ids
      BY <1>1, <1>8, <2>1 DEF Idle, BInv, Threads, Thread
    <3>2. QED
      BY <1>4, <1>7, <2>1, <3>1, DriverStays
  <2>2. CASE th'[u].todo = <<"turn">>
    <3>1. Range(th'[u].todo) = {"turn"}
      BY <2>2, RangeLiterals
    <3>2. ~Ahead(LateOps, th'[u].todo)
      <4>1. <<"turn">> \in Seq(Op \ LateOps)
        BY DEF Op, LateOps
      <4>2. QED
        BY <2>2, <4>1, QuietSeq
    <3>3. {"turn"} \cap (Status \cup WorkOps \cup Interview) = {} /\ "failed" \notin {"turn"}
      BY DEF Status, WorkOps, LateOps, Interview
    <3>4. QED
      BY <3>1, <3>2, <3>3 DEF DriverOK, Ahead
  <2>3. QED
    BY <1>3, <2>1, <2>2
<1>9. ApprovalsOK' /\ Unstarted'
  BY <1>1, <1>4, <1>7 DEF BInv, ApprovalsOK, Unstarted
<1>10. ASSUME NEW i \in Ids, i # e, Returns(i) PROVE Returns(i)'
  BY <1>3, <1>5, <1>10 DEF Returns
<1>11. Kindled'
  <2>1. ASSUME NEW i \in Ids
        PROVE  rec'[i].status \in OpenStatus /\ pending'[i] # <<>> /\ ~busy'[i] => Returns(i)'
    <3>1. CASE i = e
      BY <1>4, <3>1
    <3>2. CASE i # e
      BY <1>4, <1>10, <3>2, StaysKindled DEF BInv
    <3>3. QED
      BY <3>1, <3>2
  <2>2. QED
    BY <2>1 DEF Kindled
<1>12. QED
  BY <1>6, <1>8, <1>9, <1>11 DEF BInv

\* A driver in a later phase goes on with nothing of the interview's.
LEMMA DriverWorks ==
  ASSUME IInv, SInv, BInv, NEW d \in Drivers, NEW op \in WorkOps, At(d, op),
         NEW r, Become(d, r), r.todo # <<>>, r.on = th[d].on, Apart(d),
         Range(r.todo) \cap Status \subseteq {"failed", "done"}, Range(r.todo) \cap Interview = {}
  PROVE  BInv'
<1> DEFINE e == th[d].on
<1>1. /\ ~Idle(d) /\ Head(th[d].todo) = op /\ DriverOK(d) /\ e \in Ids
      /\ th[d].todo \in Seq(Op) /\ th[d].todo # <<>>
      /\ op \in Range(th[d].todo)
  BY DriverFront
<1>2. rec[e].status \notin OpenStatus
  BY <1>1 DEF DriverOK
<1>3. \A c \in Cmds : ~Approving(c, e)
  <2>1. Ahead(LateOps, th[d].todo)
    BY <1>1, AheadHead DEF WorkOps
  <2>2. QED
    BY <1>1, <2>1 DEF DriverOK
<1>4. /\ rec'[e].status = rec[e].status
      /\ \A i \in Ids \ {e} : rec'[i] = rec[i] /\ pending'[i] = pending[i]
      /\ busy' = busy /\ born' = born
  BY <1>1 DEF Apart
<1>5. rec'[e].status \notin OpenStatus /\ rec'[e].status # "pending_approval"
  BY <1>2, <1>4 DEF OpenStatus
<1>6. QED
  BY <1>1, <1>3, <1>4, <1>5, DriverMoves

\* The same, for a step that sets nothing but what is left to do.
LEMMA DriverWorksOn ==
  ASSUME IInv, SInv, BInv, NEW d \in Drivers, NEW op \in WorkOps, At(d, op),
         NEW ops, Goto(d, ops), ops # <<>>, Apart(d),
         Range(ops) \cap Status \subseteq {"failed", "done"}, Range(ops) \cap Interview = {}
  PROVE  BInv'
<1> DEFINE r == [th[d] EXCEPT !.todo = ops]
<1>1. th[d] \in Thread
  BY DriverFront
<1>2. r.todo = ops /\ r.on = th[d].on /\ Become(d, r)
  BY <1>1 DEF Thread, Goto
<1> HIDE DEF r
<1>3. QED
  BY <1>2, DriverWorks

\* The statuses and records of errands stand.
LEMMA Untouched ==
  ASSUME NEW d, UNCHANGED <<rec, busy, pending, born>>
  PROVE  Apart(d)
BY DEF Apart

LEMMA TurnBuffered ==
  ASSUME IInv, SInv, BInv, NEW d \in Drivers, Turn(d)
  PROVE  BInv'
<1> DEFINE e == th[d].on
<1>1. /\ ~Idle(d) /\ DriverOK(d) /\ e \in Ids /\ th[d] \in Thread
  BY DriverFront DEF Turn
<1>2. UNCHANGED <<rec, pending, born>>
  BY DEF Turn, bounds
<1>3. \A c \in Cmds : Approving(c, e) => rec[e].status \in {"pending_approval", "failed"}
  BY <1>1 DEF BInv, ApprovalsOK
<1>4. CASE interviewing(rec[e]) /\ Goto(d, <<"ask">>) /\ UNCHANGED busy
  <2> DEFINE r == [th[d] EXCEPT !.todo = <<"ask">>]
  <2>1. r.todo = <<"ask">> /\ r.on = e /\ Become(d, r)
    BY <1>1, <1>4 DEF Goto, Thread
  <2> HIDE DEF r
  <2>2. Range(r.todo) = {"ask"} /\ r.todo # <<>>
    BY <2>1, RangeLiterals
  <2>3. ~Ahead(LateOps, r.todo)
    <3>1. <<"ask">> \in Seq(Op \ LateOps)
      BY DEF Op, LateOps
    <3>2. QED
      BY <2>1, <3>1, QuietSeq
  <2>4. Range(r.todo) \cap Status = {} /\ Range(r.todo) \cap WorkOps = {}
    BY <2>2 DEF Status, WorkOps, LateOps
  <2>5. rec[e].status # "failed"
    BY <1>4 DEF interviewing
  <2>6. /\ busy' = busy /\ born' = born /\ rec'[e].status = rec[e].status
        /\ \A i \in Ids \ {e} : rec'[i] = rec[i] /\ pending'[i] = pending[i]
    BY <1>2, <1>4
  <2>7. "failed" \notin Range(r.todo)
    BY <2>2
  <2>8. QED
    BY <1>1, <1>3, <2>1, <2>2, <2>3, <2>4, <2>5, <2>6, <2>7, DriverMoves
<1>5. CASE /\ rec[e].status = "producing" /\ UNCHANGED busy
           /\ Become(d, [th[d] EXCEPT !.todo = <<"work">>, !.turns = @ + 1])
  <2> DEFINE n == th[d].turns + 1
             r == [th[d] EXCEPT !.todo = <<"work">>, !.turns = n]
  <2>1. r.todo = <<"work">> /\ r.on = e /\ Become(d, r)
    BY <1>1, <1>5 DEF Thread
  <2> HIDE DEF r
  <2>2. Range(r.todo) = {"work"} /\ r.todo # <<>>
    BY <2>1, RangeLiterals
  <2>3. Range(r.todo) \cap Status = {} /\ Range(r.todo) \cap Interview = {}
    BY <2>2 DEF Status, Interview
  <2>4. rec[e].status \notin OpenStatus \cup {"failed"}
    BY <1>5 DEF OpenStatus
  <2>5. \A c \in Cmds : ~Approving(c, e)
    BY <1>3, <1>5
  <2>6. /\ busy' = busy /\ born' = born /\ rec'[e].status = rec[e].status
        /\ \A i \in Ids \ {e} : rec'[i] = rec[i] /\ pending'[i] = pending[i]
    BY <1>2, <1>5
  <2>7. "failed" \notin Range(r.todo) /\ rec[e].status # "pending_approval"
    BY <1>5, <2>2
  <2>8. QED
    BY <1>1, <2>1, <2>2, <2>3, <2>4, <2>5, <2>6, <2>7, DriverMoves
<1>6. CASE ~active(rec[e]) /\ Exit(d)
  <2>1. rec[e].status \notin OpenStatus
    BY <1>6 DEF active, OpenStatus
  <2>2. QED
    BY <1>1, <1>2, <1>6, <2>1, DriverLeaves
<1>7. QED
  BY <1>4, <1>5, <1>6 DEF Turn

\* What a driver goes on with when its agent cannot run or the producer's turn has ended.
LEMMA WorkRange ==
  /\ Range(SetStatus("failed") \o <<"next">>) = {"failed", "save", "claims", "next"}
  /\ Range(SetStatus("failed") \o <<"stop">>) = {"failed", "save", "claims", "stop"}
  /\ Range(<<"save", "outputs">> \o SetStatus("failed") \o <<"stop">>)
       = {"save", "outputs", "failed", "claims", "stop"}
  /\ Range(<<"save", "outputs", "ensureDelivered">> \o SetStatus("done") \o <<"stop">>)
       = {"save", "outputs", "ensureDelivered", "done", "claims", "stop"}
  /\ Range(<<"save", "outputs", "save", "more">>) = {"save", "outputs", "more"}
<1> DEFINE f == SetStatus("failed")
           g == SetStatus("done")
           a == <<"save", "outputs">>
           b == <<"save", "outputs", "ensureDelivered">>
           z == <<"stop">>
           x == <<"next">>
<1>1. /\ f \in Seq(Op) /\ g \in Seq(Op) /\ a \in Seq(Op) /\ b \in Seq(Op) /\ z \in Seq(Op)
      /\ x \in Seq(Op)
  <2>1. f \in Seq(Op) /\ g \in Seq(Op)
    BY DEF SetStatus, Op, Status
  <2>2. a \in Seq(Op) /\ b \in Seq(Op) /\ z \in Seq(Op) /\ x \in Seq(Op)
    BY DEF Op
  <2>3. QED
    BY <2>1, <2>2
<1>2. /\ Range(f) = {"failed", "save", "claims"} /\ Range(g) = {"done", "save", "claims"}
      /\ Range(a) = {"save", "outputs"} /\ Range(b) = {"save", "outputs", "ensureDelivered"}
      /\ Range(z) = {"stop"} /\ Range(x) = {"next"}
  BY RangeLiterals DEF SetStatus
<1>3. Range(<<"save", "outputs", "save", "more">>) = {"save", "outputs", "more"}
  <2>1. DOMAIN <<"save", "outputs", "save", "more">> = {1, 2, 3, 4}
    OBVIOUS
  <2>2. QED
    BY <2>1 DEF Range
<1> HIDE DEF f, g, a, b, x, z
<1>4. a \o f \in Seq(Op) /\ b \o g \in Seq(Op)
  BY <1>1
<1>5. /\ Range(f \o x) = Range(f) \cup Range(x)
      /\ Range(f \o z) = Range(f) \cup Range(z)
      /\ Range(a \o f) = Range(a) \cup Range(f)
      /\ Range(b \o g) = Range(b) \cup Range(g)
      /\ Range((a \o f) \o z) = Range(a \o f) \cup Range(z)
      /\ Range((b \o g) \o z) = Range(b \o g) \cup Range(z)
  <2>1. \A s, t \in Seq(Op) : Range(s \o t) = Range(s) \cup Range(t)
    BY RangeConcatenation
  <2>2. Range(f \o x) = Range(f) \cup Range(x) /\ Range(f \o z) = Range(f) \cup Range(z)
    BY <1>1, <2>1
  <2>3. Range(a \o f) = Range(a) \cup Range(f) /\ Range(b \o g) = Range(b) \cup Range(g)
    BY <1>1, <2>1
  <2>4. Range((a \o f) \o z) = Range(a \o f) \cup Range(z)
    BY <1>1, <1>4, <2>1
  <2>5. Range((b \o g) \o z) = Range(b \o g) \cup Range(z)
    BY <1>1, <1>4, <2>1
  <2>6. QED
    BY <2>2, <2>3, <2>4, <2>5
<1>6. /\ Range(f \o x) = {"failed", "save", "claims", "next"}
      /\ Range(f \o z) = {"failed", "save", "claims", "stop"}
      /\ Range((a \o f) \o z) = {"save", "outputs", "failed", "claims", "stop"}
      /\ Range((b \o g) \o z) = {"save", "outputs", "ensureDelivered", "done", "claims", "stop"}
  BY <1>2, <1>5
<1>7. QED
  BY <1>3, <1>6 DEF f, g, a, b, x, z

LEMMA CannotRunBuffered ==
  ASSUME IInv, SInv, BInv, NEW d \in Drivers, CannotRun(d)
  PROVE  BInv'
<1> DEFINE e == th[d].on
<1>1. Apart(d)
  BY Untouched DEF CannotRun, bounds
<1>2. SetStatus("failed") \in Seq(Op \ LateOps)
  <2>1. <<"failed", "save", "claims">> \in Seq(Op \ LateOps)
    BY DEF Op, Status, LateOps
  <2>2. QED
    BY <2>1 DEF SetStatus
<1>3. <<"next">> \in Seq(Op \ LateOps)
  BY DEF Op, LateOps
<1>4. CASE At(d, "ask") /\ Goto(d, SetStatus("failed") \o <<"next">>)
  <2> DEFINE ops == SetStatus("failed") \o <<"next">>
             r == [th[d] EXCEPT !.todo = ops]
  <2>1. /\ ~Idle(d) /\ DriverOK(d) /\ e \in Ids /\ th[d] \in Thread
    BY <1>4, DriverFront
  <2>2. ops \in Seq(Op \ LateOps) /\ ops # <<>> /\ Range(ops) = {"failed", "save", "claims", "next"}
    <3>1. ops \in Seq(Op \ LateOps)
      BY <1>2, <1>3
    <3>2. Range(ops) = {"failed", "save", "claims", "next"}
      BY WorkRange
    <3> HIDE DEF ops
    <3>3. ops # <<>>
      BY <3>2, RangeLiterals
    <3>4. QED
      BY <3>1, <3>2, <3>3
  <2>3. r.todo = ops /\ r.on = e /\ Become(d, r)
    BY <1>4, <2>1 DEF Goto, Thread
  <2> HIDE DEF r, ops
  <2>4. ~Ahead(LateOps, r.todo)
    BY <2>2, <2>3, QuietSeq
  <2>5. /\ Range(r.todo) \cap Status \subseteq {"failed", "done"}
        /\ Range(r.todo) \cap Interview = {} /\ Range(r.todo) \cap WorkOps = {}
    BY <2>2, <2>3 DEF Status, Interview, WorkOps, LateOps
  <2>6. /\ busy' = busy /\ born' = born /\ rec'[e].status = rec[e].status
        /\ \A i \in Ids \ {e} : rec'[i] = rec[i] /\ pending'[i] = pending[i]
    BY <1>1, <2>1 DEF Apart
  <2>7. \A c \in Cmds : Approving(c, e) => rec'[e].status \in {"pending_approval", "failed"}
    BY <2>1, <2>6 DEF BInv, ApprovalsOK
  <2>8. r.todo # <<>>
    BY <2>2, <2>3
  <2>9. QED
    BY <2>1, <2>3, <2>4, <2>5, <2>6, <2>7, <2>8, DriverMoves
<1>5. CASE At(d, "work") /\ Goto(d, SetStatus("failed") \o <<"stop">>)
  <2> DEFINE ops == SetStatus("failed") \o <<"stop">>
  <2>1. Range(ops) = {"failed", "save", "claims", "stop"}
    BY WorkRange
  <2>2. ops # <<>>
    BY <2>1, RangeLiterals
  <2>3. Goto(d, ops)
    BY <1>5
  <2> HIDE DEF ops
  <2>4. Range(ops) \cap Status \subseteq {"failed", "done"} /\ Range(ops) \cap Interview = {}
    BY <2>1 DEF Status, Interview
  <2>5. "work" \in WorkOps
    BY DEF WorkOps, LateOps
  <2>6. QED
    BY <1>1, <1>5, <2>2, <2>3, <2>4, <2>5, DriverWorksOn
<1>6. QED
  BY <1>4, <1>5 DEF CannotRun

LEMMA AskBuffered ==
  ASSUME IInv, SInv, BInv, NEW d \in Drivers, Ask(d)
  PROVE  BInv'
<1> DEFINE e == th[d].on
<1>1. /\ ~Idle(d) /\ DriverOK(d) /\ e \in Ids /\ th[d] \in Thread
      /\ "ask" \in Range(th[d].todo)
  BY DriverFront DEF Ask
<1>2. Apart(d)
  BY Untouched DEF Ask, bounds
<1>3. CASE Goto(d, <<"save", "next">>)
  <2>1. <<"save", "next">> \in Seq(Mild) /\ <<"save", "next">> # <<>>
    BY DEF Mild, Plain
  <2>2. QED
    BY <1>1, <1>2, <1>3, <2>1, DriverGoesMildly
<1>4. ASSUME NEW record \in BOOLEAN, NEW handoff \in BOOLEAN, NEW n \in 0..MaxMsgs,
             Goto(d, <<"save", "apply">> \o Live(record, n, handoff))
      PROVE  BInv'
  <2> DEFINE a == <<"save", "apply">>
             b == Live(record, n, handoff)
             ops == a \o b
             r == [th[d] EXCEPT !.todo = ops]
  <2>1. r.todo = ops /\ r.on = e /\ Become(d, r)
    BY <1>1, <1>4 DEF Goto, Thread
  <2>2. b \in Seq(Asked)
    <3>1. n \in Nat
      BY ErrandsAssumption
    <3>2. QED
      BY <3>1, LiveRange
  <2>3. b \in Seq(Op) /\ Range(b) \subseteq Asked
    <3>1. Asked \subseteq Op
      BY DEF Asked, Op
    <3> HIDE DEF b
    <3>2. QED
      BY <2>2, <3>1, RangeOfSeq
  <2>4. a \in Seq(Op) /\ Range(a) = {"save", "apply"}
    <3>1. a \in Seq(Op)
      BY DEF Op
    <3>2. QED
      BY <3>1, RangeLiterals
  <2>5. ~Ahead(LateOps, ops)
    <3>1. "save" \notin LateOps /\ "apply" \notin LateOps
      BY DEF LateOps
    <3> HIDE DEF b
    <3>2. QED
      BY <2>3, <3>1, AskQuiet
  <2> HIDE DEF a, b, r
  <2>6. Range(ops) = Range(a) \cup Range(b)
    BY <2>3, <2>4, RangeConcatenation
  <2> HIDE DEF ops
  <2>7. Range(r.todo) \subseteq {"save", "apply"} \cup Asked /\ "save" \in Range(r.todo)
    BY <2>1, <2>3, <2>4, <2>6
  <2>8. r.todo # <<>>
    BY <2>7, RangeLiterals
  <2>9. ({"save", "apply"} \cup Asked) \cap (Status \cup WorkOps) = {}
    BY DEF Asked, Status, WorkOps, LateOps
  <2>10. /\ Range(r.todo) \cap Status = {} /\ Range(r.todo) \cap WorkOps = {}
         /\ "failed" \notin Range(r.todo)
    BY <2>7, <2>9 DEF Status
  <2>11. /\ busy' = busy /\ born' = born /\ rec'[e].status = rec[e].status
         /\ \A i \in Ids \ {e} : rec'[i] = rec[i] /\ pending'[i] = pending[i]
    BY <1>1, <1>2 DEF Apart
  <2>12. \A c \in Cmds : Approving(c, e) => rec'[e].status = "pending_approval"
    BY <1>1, <2>11 DEF BInv, ApprovalsOK, DriverOK, Interview
  <2>13. ~Ahead(LateOps, r.todo)
    BY <2>1, <2>5
  <2>14. QED
    BY <1>1, <2>1, <2>8, <2>10, <2>11, <2>12, <2>13, DriverMoves
<1>5. QED
  BY <1>3, <1>4 DEF Ask

LEMMA ApplyBuffered ==
  ASSUME IInv, SInv, BInv, NEW d \in Drivers, Apply(d)
  PROVE  BInv'
<1> DEFINE e == th[d].on
<1>1. /\ ~Idle(d) /\ DriverOK(d) /\ e \in Ids /\ th[d] \in Thread
      /\ Range(th[d].todo) = {"apply"} \cup Range(Rest(d))
      /\ Rest(d) # <<>>
  BY DriverFront DEF Apply, Ends
<1>2. Apart(d)
  BY Untouched DEF Apply, bounds
<1>3. CASE pendingErrand(e)
  <2>1. Goto(d, <<"next">>)
    BY <1>3 DEF Apply
  <2>2. <<"next">> \in Seq(Mild) /\ <<"next">> # <<>>
    BY DEF Mild, Plain
  <2>3. QED
    BY <1>1, <1>2, <2>1, <2>2, DriverGoesMildly
<1>4. CASE ~pendingErrand(e)
  <2> DEFINE r == [th[d] EXCEPT !.todo = Rest(d)]
  <2>1. r.todo = Rest(d) /\ r.on = e /\ Become(d, r)
    BY <1>1, <1>4 DEF Apply, Goto, Thread
  <2> HIDE DEF r
  <2>2. rec[e].status # "pending_approval"
    BY <1>4 DEF pendingErrand
  <2>3. \A c \in Cmds : ~Approving(c, e)
    BY <1>1, <2>2 DEF BInv, ApprovalsOK, DriverOK, Interview
  <2>4. /\ busy' = busy /\ born' = born /\ rec'[e].status = rec[e].status
        /\ \A i \in Ids \ {e} : rec'[i] = rec[i] /\ pending'[i] = pending[i]
    BY <1>1, <1>2 DEF Apart
  <2>5. /\ Range(r.todo) \cap Status \subseteq {"failed", "done"}
        /\ "failed" \in Range(r.todo) => Range(r.todo) \cap Interview = {}
        /\ Range(r.todo) \cap WorkOps # {} => rec[e].status \notin OpenStatus
    BY <1>1, <2>1 DEF DriverOK
  <2>6. QED
    BY <1>1, <2>1, <2>2, <2>3, <2>4, <2>5, DriverMoves
<1>5. QED
  BY <1>3, <1>4

LEMMA SendMsgBuffered ==
  ASSUME IInv, SInv, BInv, NEW d \in Drivers, SendMsg(d)
  PROVE  BInv'
<1>1. /\ ~Idle(d) /\ th[d] \in Thread /\ th[d].todo \in Seq(Op)
      /\ Head(th[d].todo) = "msg"
  BY DriverFront DEF SendMsg
<1>2. Apart(d)
  BY Untouched DEF SendMsg, bounds
<1>3. CASE Goto(d, Rest(d))
  BY <1>1, <1>2, <1>3, DriverGoesToRest DEF Ends
<1>4. ASSUME NEW k \in 2..Len(th[d].todo), \A i \in 1..(k-1) : th[d].todo[i] = "msg",
             Goto(d, SubSeq(th[d].todo, k, Len(th[d].todo)))
      PROVE  BInv'
  <2> DEFINE u == SubSeq(th[d].todo, k, Len(th[d].todo))
             r == [th[d] EXCEPT !.todo = u]
  <2>1. r.todo = u /\ r.on = th[d].on /\ Become(d, r)
    BY <1>1, <1>4 DEF Goto, Thread
  <2> HIDE DEF r
  <2>2. k \in 1..Len(th[d].todo)
    OBVIOUS
  <2>3. u # <<>>
    <3>1. Len(u) = Len(th[d].todo) - k + 1
      BY <1>1, <2>2, SubSeqProperties
    <3>2. Len(u) # 0
      BY <1>1, <2>2, <3>1
    <3> HIDE DEF u
    <3>3. QED
      BY <3>2
  <2>4. Range(u) \subseteq Range(th[d].todo)
    BY <1>1, <2>2, RangeSubSeq
  <2>5. Ahead(LateOps, u) => Ahead(LateOps, th[d].todo)
    BY <1>1, <1>4, <2>2, AheadSubSeq
  <2> HIDE DEF u
  <2>6. QED
    BY <1>1, <1>2, <2>1, <2>3, <2>4, <2>5, DriverRests
<1>5. QED
  BY <1>3, <1>4 DEF SendMsg

LEMMA HandoffBuffered ==
  ASSUME IInv, SInv, BInv, NEW d \in Drivers, Handoff(d)
  PROVE  BInv'
<1> DEFINE e == th[d].on
           r == [th[d] EXCEPT !.todo = Rest(d), !.prompt = "work"]
<1>1. /\ ~Idle(d) /\ Head(th[d].todo) = "handoff" /\ DriverOK(d) /\ e \in Ids /\ th[d] \in Thread
      /\ th[d].todo \in Seq(Op) /\ th[d].todo # <<>>
      /\ Range(th[d].todo) = {"handoff"} \cup Range(Rest(d))
      /\ Rest(d) # <<>> /\ rec \in [Ids -> Record]
  BY DriverFront DEF Handoff, Ends
<1>2. r.todo = Rest(d) /\ r.on = e /\ Become(d, r)
  BY <1>1 DEF Handoff, Thread
<1> HIDE DEF r
<1>3. \A c \in Cmds : ~Approving(c, e)
  <2>1. Ahead(LateOps, th[d].todo)
    BY <1>1, AheadHead DEF LateOps
  <2>2. QED
    BY <1>1, <2>1 DEF DriverOK
<1>4. /\ rec'[e].status = "producing" /\ busy' = busy /\ born' = born
      /\ \A i \in Ids \ {e} : rec'[i] = rec[i] /\ pending'[i] = pending[i]
  <2>1. \A i \in Ids \ {e} : rec'[i] = rec[i]
    BY <1>1 DEF Handoff
  <2>2. pending' = [pending EXCEPT ![e] = <<>>] /\ pending \in [Ids -> Seq(Prompt)]
    BY DEF Handoff, IInv, DataOK
  <2>3. rec'[e].status = "producing"
    BY <1>1 DEF Handoff, Record
  <2>4. QED
    BY <2>1, <2>2, <2>3 DEF Handoff, bounds
<1>5. /\ Range(r.todo) \cap Status \subseteq {"failed", "done"}
      /\ "failed" \in Range(r.todo) => Range(r.todo) \cap Interview = {}
  BY <1>1, <1>2 DEF DriverOK
<1>6. "producing" \notin OpenStatus \cup {"pending_approval", "failed"}
  BY DEF OpenStatus
<1>7. QED
  BY <1>1, <1>2, <1>3, <1>4, <1>5, <1>6, DriverMoves

LEMMA NextPromptBuffered ==
  ASSUME IInv, SInv, BInv, NEW d \in Drivers, NextPrompt(d)
  PROVE  BInv'
<1> DEFINE e == th[d].on
<1>1. /\ ~Idle(d) /\ DriverOK(d) /\ e \in Ids /\ th[d] \in Thread
  BY DriverFront DEF NextPrompt
<1>2. UNCHANGED <<rec, born>>
  BY DEF NextPrompt, bounds
<1>3. CASE pending[e] # <<>>
  <2> DEFINE p == Head(pending[e])
             r == [th[d] EXCEPT !.todo = <<"turn">>, !.prompt = p]
  <2>1. r.todo = <<"turn">> /\ r.on = e /\ Become(d, r)
    BY <1>1, <1>3 DEF NextPrompt, Thread
  <2> HIDE DEF r
  <2>2. Range(r.todo) = {"turn"} /\ r.todo # <<>>
    BY <2>1, RangeLiterals
  <2>3. ~Ahead(LateOps, r.todo)
    <3>1. <<"turn">> \in Seq(Op \ LateOps)
      BY DEF Op, LateOps
    <3>2. QED
      BY <2>1, <3>1, QuietSeq
  <2>4. /\ Range(r.todo) \cap Status = {} /\ Range(r.todo) \cap WorkOps = {}
        /\ Range(r.todo) \cap Interview = {}
    BY <2>2 DEF Status, WorkOps, LateOps, Interview
  <2>5. /\ busy' = busy /\ born' = born /\ rec'[e].status = rec[e].status
        /\ \A i \in Ids \ {e} : rec'[i] = rec[i] /\ pending'[i] = pending[i]
    <3>1. pending' = [pending EXCEPT ![e] = Tail(pending[e])] /\ pending \in [Ids -> Seq(Prompt)]
      BY <1>3 DEF NextPrompt, IInv, DataOK
    <3>2. QED
      BY <1>2, <1>3, <3>1 DEF NextPrompt
  <2>6. \A c \in Cmds : Approving(c, e) => rec'[e].status \in {"pending_approval", "failed"}
    BY <1>1, <2>5 DEF BInv, ApprovalsOK
  <2>7. QED
    BY <1>1, <2>1, <2>2, <2>3, <2>4, <2>5, <2>6, DriverMoves
<1>4. CASE pending[e] = <<>>
  <2>1. Exit(d) /\ UNCHANGED pending
    BY <1>4 DEF NextPrompt
  <2>2. QED
    BY <1>1, <1>2, <1>4, <2>1, DriverLeaves
<1>5. QED
  BY <1>3, <1>4

LEMMA WorkBuffered ==
  ASSUME IInv, SInv, BInv, NEW d \in Drivers, Work(d) \/ More(d)
  PROVE  BInv'
<1>1. Apart(d)
  BY Untouched DEF Work, More, bounds
<1>2. PICK op \in {"work", "more"} : At(d, op)
  BY DEF Work, More
<1>3. op \in WorkOps /\ ~Idle(d)
  BY <1>2 DEF WorkOps, LateOps, At, Idle
<1>4. PICK ops : /\ Goto(d, ops)
                 /\ \/ ops = <<"save", "more">>
                    \/ ops = <<"save", "outputs", "save", "more">>
                    \/ ops = <<"save", "outputs">> \o SetStatus("failed") \o <<"stop">>
                    \/ ops = <<"save", "outputs", "ensureDelivered">> \o SetStatus("done") \o <<"stop">>
                    \/ ops = SetStatus("failed") \o <<"stop">>
                    \/ ops = <<"turn">>
  BY DEF Work, More
<1>5. \/ Range(ops) = {"save", "more"} \/ Range(ops) = {"save", "outputs", "more"}
      \/ Range(ops) = {"save", "outputs", "failed", "claims", "stop"}
      \/ Range(ops) = {"save", "outputs", "ensureDelivered", "done", "claims", "stop"}
      \/ Range(ops) = {"failed", "save", "claims", "stop"} \/ Range(ops) = {"turn"}
  <2>1. /\ Range(<<"save", "more">>) = {"save", "more"} /\ Range(<<"turn">>) = {"turn"}
    BY RangeLiterals
  <2>2. CASE ops \in {<<"save", "more">>, <<"turn">>}
    BY <2>1, <2>2
  <2>3. CASE ops = <<"save", "outputs", "save", "more">>
    BY <2>3, WorkRange
  <2>4. CASE ops = <<"save", "outputs">> \o SetStatus("failed") \o <<"stop">>
    BY <2>4, WorkRange
  <2>5. CASE ops = <<"save", "outputs", "ensureDelivered">> \o SetStatus("done") \o <<"stop">>
    BY <2>5, WorkRange
  <2>6. CASE ops = SetStatus("failed") \o <<"stop">>
    BY <2>6, WorkRange
  <2>7. QED
    BY <1>4, <2>2, <2>3, <2>4, <2>5, <2>6
<1>6. Range(ops) \cap Status \subseteq {"failed", "done"}
  BY <1>5 DEF Status
<1>7. Range(ops) \cap Interview = {}
  BY <1>5 DEF Interview
<1>8. ops # <<>>
  BY <1>5, RangeLiterals
<1>9. QED
  BY <1>1, <1>2, <1>3, <1>4, <1>6, <1>7, <1>8, DriverWorksOn

LEMMA StopBuffered ==
  ASSUME IInv, SInv, BInv, NEW d \in Drivers, Stop(d)
  PROVE  BInv'
<1>1. /\ ~Idle(d) /\ DriverOK(d) /\ "stop" \in Range(th[d].todo)
  BY DriverFront DEF Stop
<1>2. rec[th[d].on].status \notin OpenStatus
  BY <1>1 DEF DriverOK, WorkOps, LateOps
<1>3. QED
  BY <1>1, <1>2, DriverLeaves DEF Stop, bounds

LEMMA DeliveryBuffered ==
  ASSUME IInv, SInv, BInv, NEW d \in Drivers,
         \/ WriteRecord(d) \/ TranscriptFallback(d) \/ DeliverCollected(d) \/ SendOutputs(d)
         \/ EnsureDelivered(d)
  PROVE  BInv'
<1>1. PICK op \in {"record", "fallback", "collected", "outputs", "ensureDelivered"} : At(d, op)
  BY DEF WriteRecord, TranscriptFallback, DeliverCollected, SendOutputs, EnsureDelivered
<1>2. op \notin Ends \cup {"apply"}
  BY DEF Ends
<1>3. /\ ~Idle(d) /\ Head(th[d].todo) = op /\ th[d] \in Thread /\ rec \in [Ids -> Record]
      /\ Rest(d) \in Seq(Op)
  BY <1>1, DriverFront
<1>4. /\ UNCHANGED <<busy, pending, born>>
      /\ \E x : rec' = [rec EXCEPT ![th[d].on].delivered = x] \/ rec' = rec
  BY DEF WriteRecord, TranscriptFallback, DeliverCollected, SendOutputs, EnsureDelivered, bounds
<1>5. Apart(d)
  <2>1. PICK x : rec' = [rec EXCEPT ![th[d].on].delivered = x] \/ rec' = rec
    BY <1>4
  <2>2. CASE rec' = [rec EXCEPT ![th[d].on].delivered = x]
    BY <1>3, <1>4, <2>2 DEF Apart, Record
  <2>3. QED
    BY <1>4, <2>1, <2>2, Untouched
<1>6. CASE Goto(d, Rest(d))
  BY <1>2, <1>3, <1>5, <1>6, DriverGoesToRest
<1>7. CASE Goto(d, <<"collected">> \o Rest(d))
  <2> DEFINE ops == <<"collected">> \o Rest(d)
             r == [th[d] EXCEPT !.todo = ops]
  <2>1. r.todo = <<"collected">> \o Rest(d) /\ r.on = th[d].on /\ Become(d, r)
    BY <1>3, <1>7 DEF Goto, Thread
  <2>2. <<"collected">> \in Seq(Mild)
    BY DEF Mild, Plain
  <2> HIDE DEF r
  <2>3. QED
    BY <1>2, <1>3, <1>5, <2>1, <2>2, DriverTakesRest
<1>8. Goto(d, Rest(d)) \/ Goto(d, <<"collected">> \o Rest(d))
  BY DEF WriteRecord, TranscriptFallback, DeliverCollected, SendOutputs, EnsureDelivered
<1>9. QED
  BY <1>6, <1>7, <1>8

LEMMA CrashBuffered ==
  ASSUME Crash
  PROVE  BInv'
<1>1. \A t \in Threads : Idle(t)'
  BY DEF Crash, Idle, IdleThread
<1>2. Cmds \subseteq Threads /\ Drivers \subseteq Threads
  BY DEF Threads
<1>3. \A c \in Cmds : CommandOK(c)' /\ \A e \in Ids : ~Approving(c, e)'
  BY <1>1, <1>2 DEF CommandOK, Approving, At, Idle
<1>4. \A e \in Ids : pending'[e] = <<>>
  BY DEF Crash
<1>5. QED
  BY <1>1, <1>2, <1>3, <1>4 DEF BInv, ApprovalsOK, Unstarted, Kindled

LEMMA StepBuffered ==
  ASSUME OneCommand, "panic" \notin Faults
  PROVE  IInv /\ SInv /\ HInv /\ BInv /\ [Next]_vars => BInv'
<1> SUFFICES ASSUME IInv, SInv, HInv, BInv, [Next]_vars PROVE BInv'
  OBVIOUS
<1>1. CASE UNCHANGED vars
  <2>1. UNCHANGED <<th, rec, busy, pending, born>>
    BY <1>1 DEF vars
  <2>2. /\ \A c \in Cmds : CommandOK(c)' /\ \A e \in Ids : Approving(c, e)' <=> Approving(c, e)
        /\ \A e \in Ids : Returns(e) => Returns(e)'
    BY <2>1 DEF BInv, CommandOK, Idle, Rest, At, Approving, Returns
  <2>3. \A d \in Drivers : ~Idle(d)' => DriverOK(d)'
    BY <2>1 DEF BInv, DriverOK, Ahead, Approving, At, Idle
  <2>4. ApprovalsOK' /\ Unstarted' /\ Kindled'
    BY <2>1, <2>2 DEF BInv, ApprovalsOK, Unstarted, Kindled
  <2>5. QED
    BY <2>2, <2>3, <2>4 DEF BInv
<1>2. CASE Owner
  BY <1>2, OwnerBuffered
<1>3. CASE MarkSeen(Feeder) \/ Hear(Feeder) \/ \E m \in Replies, e \in Ids : Feed(m, e)
  BY <1>3, FeederBuffered
<1>4. ASSUME NEW t \in Threads, Shared(t) PROVE BInv'
  <2>1. CASE Drive(t)
    BY <2>1, DriveBuffered
  <2>2. CASE ~Drive(t) /\ t \in Cmds
    BY <1>4, <2>2, CommandBuffered
  <2>3. CASE ~Drive(t) /\ t = Feeder
    BY <1>4, <2>3, FeederSharedBuffered
  <2>4. CASE t \in Drivers
    BY <1>4, <2>4, DriverSharedBuffered
  <2>5. QED
    BY <2>1, <2>2, <2>3, <2>4 DEF Threads
<1>5. ASSUME NEW d \in Drivers, Driver(d) PROVE BInv'
  BY <1>5, TurnBuffered, CannotRunBuffered, AskBuffered, ApplyBuffered, SendMsgBuffered,
     HandoffBuffered, NextPromptBuffered, WorkBuffered, StopBuffered, DeliveryBuffered DEF Driver
<1>6. \A d \in Drivers : ~Panic(d)
  BY DEF Panic
<1>7. QED
  BY <1>1, <1>2, <1>3, <1>4, <1>5, <1>6, CrashBuffered DEF Next

\* With one owner command at a time and no panic, a reply or prompt that was buffered while
\* a turn ran is never left behind with the errand idle: whoever leaves it idle has emptied
\* the buffer, or a command that drives it is still under way (driveErrand's last section,
\* driveErrandAsync, approveErrand).
THEOREM NeverStranded ==
  ASSUME OneCommand, "panic" \notin Faults
  PROVE  Spec => []NothingStranded
<1>1. Init => BInv
  BY InitBuffered
<1>2. Init => HInv
  BY InitHeard
<1>3. IInv /\ SInv /\ HInv /\ [Next]_vars => HInv'
  BY StepHeard
<1>4. IInv /\ SInv /\ HInv /\ BInv /\ [Next]_vars => BInv'
  BY StepBuffered
<1>5. IInv /\ BInv => NothingStranded
  <2> SUFFICES ASSUME IInv, BInv, NEW e \in Ids, interviewing(rec[e]), pending[e] # <<>>, ~busy[e]
               PROVE  \E c \in Cmds : th[c].on = e /\ "drive" \in ToSet(th[c].todo)
    BY DEF NothingStranded
  <2>1. Returns(e)
    BY DEF BInv, Kindled, interviewing, OpenStatus
  <2>2. QED
    BY <2>1 DEF Returns, ToSet, Range
<1>6. QED
  BY <1>1, <1>2, <1>3, <1>4, <1>5, Inductive, Silent, PTL DEF Spec

-----------------------------------------------------------------------------
(* Induction, and the replies in a sequence of prompts. *)

\* Induction over the naturals, for a set: of the intervals that end outside S one
\* would be the smallest.
LEMMA EveryNumber ==
  ASSUME NEW S, 0 \in S, \A n \in Nat : n \in S => n + 1 \in S
  PROVE  Nat \subseteq S
<1> SUFFICES ASSUME NEW m \in Nat, m \notin S PROVE FALSE
  OBVIOUS
<1> DEFINE T == {1..n : n \in Nat \ S}
<1>1. T \subseteq FiniteSubsetsOf(Nat) /\ T # {}
  <2>1. \A n \in Nat : IsFiniteSet(1..n) /\ 1..n \subseteq Nat
    BY FS_Interval
  <2>2. QED
    BY <2>1 DEF FiniteSubsetsOf
<1>2. PICK x \in T : \A y \in T : ~(<<y, x>> \in StrictSubsetOrdering(Nat))
  BY <1>1, FS_StrictSubsetOrderingWellFounded, WFMin, Zenon
<1>3. PICK n \in Nat \ S : x = 1..n
  BY <1>2
<1>4. n # 0 /\ n - 1 \in Nat /\ (n - 1) + 1 = n
  BY <1>3
<1>5. n - 1 \in Nat \ S
  BY <1>3, <1>4
<1>6. 1..(n - 1) \in T
  BY <1>5
<1>7. 1..(n - 1) \subseteq 1..n /\ n \in 1..n /\ n \notin 1..(n - 1) /\ 1..n \subseteq Nat
  BY <1>4
<1>8. <<1..(n - 1), x>> \in StrictSubsetOrdering(Nat)
  BY <1>3, <1>7 DEF StrictSubsetOrdering
<1>9. QED
  BY <1>2, <1>6, <1>8

\* The recursion of RepliesIn over the sequence s has a solution,
Solves(f, s) ==
  f = [i \in 0..Len(s) |->
         IF i = 0 THEN <<>>
         ELSE IF s[i] \in Replies THEN Append(f[i - 1], s[i]) ELSE f[i - 1]]

LEMMA PrefixSolution ==
  ASSUME NEW s \in Seq(Prompt)
  PROVE  \E f : Solves(f, s)
<1> DEFINE G(f, n) ==
             f = [i \in 0..n |->
                    IF i = 0 THEN <<>>
                    ELSE IF s[i] \in Replies THEN Append(f[i - 1], s[i]) ELSE f[i - 1]]
           S == {n \in Nat : \E f : G(f, n)}
<1>1. 0 \in S
  <2>1. G([i \in 0..0 |-> <<>>], 0)
    OBVIOUS
  <2>2. QED
    BY <2>1
<1>2. ASSUME NEW n \in Nat, n \in S
      PROVE  n + 1 \in S
  <2>1. PICK f : G(f, n)
    BY <1>2
  <2> DEFINE v == IF s[n + 1] \in Replies THEN Append(f[n], s[n + 1]) ELSE f[n]
             g == [i \in 0..(n + 1) |-> IF i = n + 1 THEN v ELSE f[i]]
  <2>2. \A i \in 0..n : g[i] = f[i]
    OBVIOUS
  <2>3. g[n + 1] = v
    OBVIOUS
  <2>4. ASSUME NEW i \in 0..(n + 1)
        PROVE  g[i] = IF i = 0 THEN <<>>
                      ELSE IF s[i] \in Replies THEN Append(g[i - 1], s[i]) ELSE g[i - 1]
    <3>1. CASE i = n + 1
      <4>1. i # 0 /\ i - 1 = n /\ n \in 0..n
        BY <3>1
      <4>2. QED
        BY <2>2, <2>3, <3>1, <4>1
    <3>2. CASE i # n + 1
      <4>1. i \in 0..n /\ (i # 0 => i - 1 \in 0..n)
        BY <3>2
      <4>2. f[i] = IF i = 0 THEN <<>>
                   ELSE IF s[i] \in Replies THEN Append(f[i - 1], s[i]) ELSE f[i - 1]
        BY <2>1, <4>1
      <4>3. QED
        BY <2>2, <4>1, <4>2
    <3>3. QED
      BY <3>1, <3>2
  <2>5. g = [i \in 0..(n + 1) |-> g[i]]
    OBVIOUS
  <2> HIDE DEF g
  <2>6. G(g, n + 1)
    BY <2>4, <2>5
  <2>7. QED
    BY <2>6
<1> HIDE DEF S
<1>3. Len(s) \in S
  BY <1>1, <1>2, EveryNumber, LenProperties
<1>4. QED
  BY <1>3 DEF Solves, S

LEMMA RepliesInSolution ==
  ASSUME NEW s \in Seq(Prompt)
  PROVE  \E f : Solves(f, s) /\ RepliesIn(s) = f[Len(s)]
<1>1. Solves(CHOOSE f : Solves(f, s), s)
  BY PrefixSolution, Zenon
<1>2. RepliesIn(s) = (CHOOSE f : Solves(f, s))[Len(s)]
  BY Zenon DEF RepliesIn, Solves
<1>3. QED
  BY <1>1, <1>2

AsReply(p) == IF p \in Replies THEN <<p>> ELSE <<>>

\* What a solution holds at each position.
LEMMA SolutionTyped ==
  ASSUME NEW s \in Seq(Prompt), NEW f, Solves(f, s)
  PROVE  /\ f[0] = <<>>
         /\ \A i \in 1..Len(s) :
              /\ f[i - 1] \in Seq(Replies) /\ f[i] \in Seq(Replies)
              /\ f[i] = f[i - 1] \o AsReply(s[i])
         /\ f[Len(s)] \in Seq(Replies)
<1> DEFINE S == {n \in Nat : n <= Len(s) => f[n] \in Seq(Replies)}
<1>1. Len(s) \in Nat
  BY LenProperties
<1>2. \A i \in 0..Len(s) :
        f[i] = IF i = 0 THEN <<>>
               ELSE IF s[i] \in Replies THEN Append(f[i - 1], s[i]) ELSE f[i - 1]
  BY DEF Solves
<1>3. f[0] = <<>>
  BY <1>1, <1>2
<1>4. 0 \in S
  <2>1. <<>> \in Seq(Replies)
    OBVIOUS
  <2>2. QED
    BY <1>3, <2>1
<1>5. ASSUME NEW n \in Nat, n \in S
      PROVE  n + 1 \in S
  <2> SUFFICES ASSUME n + 1 <= Len(s) PROVE f[n + 1] \in Seq(Replies)
    OBVIOUS
  <2>1. n + 1 \in 0..Len(s) /\ n + 1 # 0 /\ (n + 1) - 1 = n /\ n <= Len(s)
    BY <1>1
  <2>2. f[n + 1] = IF s[n + 1] \in Replies THEN Append(f[n], s[n + 1]) ELSE f[n]
    BY <1>2, <2>1
  <2>3. f[n] \in Seq(Replies)
    BY <1>5, <2>1
  <2>4. QED
    BY <2>2, <2>3, AppendProperties
<1>6. ASSUME NEW n \in 0..Len(s) PROVE f[n] \in Seq(Replies)
  <2> HIDE DEF S
  <2>1. n \in S
    BY <1>1, <1>4, <1>5, EveryNumber
  <2>2. QED
    BY <1>1, <2>1 DEF S
<1>7. ASSUME NEW i \in 1..Len(s)
      PROVE  /\ f[i - 1] \in Seq(Replies) /\ f[i] \in Seq(Replies)
             /\ f[i] = f[i - 1] \o AsReply(s[i])
  <2>1. i \in 0..Len(s) /\ i # 0 /\ i - 1 \in 0..Len(s)
    BY <1>1
  <2>2. f[i] = IF s[i] \in Replies THEN Append(f[i - 1], s[i]) ELSE f[i - 1]
    BY <1>2, <2>1
  <2>3. f[i - 1] \in Seq(Replies) /\ f[i] \in Seq(Replies)
    BY <1>6, <2>1
  <2>4. CASE s[i] \in Replies
    BY <2>2, <2>3, <2>4, AppendIsConcat DEF AsReply
  <2>5. CASE s[i] \notin Replies
    BY <2>2, <2>3, <2>5, ConcatEmptySeq DEF AsReply
  <2>6. QED
    BY <2>3, <2>4, <2>5
<1>8. f[Len(s)] \in Seq(Replies)
  BY <1>1, <1>6
<1> HIDE DEF S
<1>9. QED
  BY <1>3, <1>7, <1>8

LEMMA RepliesInTyped ==
  ASSUME NEW s \in Seq(Prompt)
  PROVE  RepliesIn(s) \in Seq(Replies)
BY RepliesInSolution, SolutionTyped

\* The replies of two sequences, one after the other.
LEMMA RepliesInConcat ==
  ASSUME NEW a \in Seq(Prompt), NEW b \in Seq(Prompt)
  PROVE  RepliesIn(a \o b) = RepliesIn(a) \o RepliesIn(b)
<1> DEFINE c == a \o b
           x == Len(a)
           y == Len(b)
<1>1. /\ x \in Nat /\ y \in Nat /\ c \in Seq(Prompt) /\ Len(c) = x + y
      /\ \A i \in 1..x : c[i] = a[i]
      /\ \A i \in 1..y : c[x + i] = b[i]
  <2>1. x \in Nat /\ y \in Nat /\ c \in Seq(Prompt) /\ Len(c) = x + y
    BY LenProperties, ConcatProperties
  <2>2. \A i \in 1..(x + y) : c[i] = IF i <= x THEN a[i] ELSE b[i - x]
    BY ConcatProperties
  <2>3. \A i \in 1..y : x + i \in 1..(x + y) /\ ~(x + i <= x) /\ (x + i) - x = i
    BY <2>1
  <2>4. QED
    BY <2>1, <2>2, <2>3
<1>2. PICK f : Solves(f, a) /\ RepliesIn(a) = f[x]
  BY RepliesInSolution
<1>3. PICK g : Solves(g, b) /\ RepliesIn(b) = g[y]
  BY RepliesInSolution
<1>4. PICK h : Solves(h, c) /\ RepliesIn(c) = h[Len(c)]
  BY <1>1, RepliesInSolution
<1> HIDE DEF c, x, y
<1>5. /\ f[0] = <<>> /\ f[x] \in Seq(Replies)
      /\ \A i \in 1..x : f[i] = f[i - 1] \o AsReply(a[i])
  BY <1>2, SolutionTyped DEF x
<1>6. /\ g[0] = <<>>
      /\ \A i \in 1..y : g[i - 1] \in Seq(Replies) /\ g[i] = g[i - 1] \o AsReply(b[i])
  BY <1>3, SolutionTyped DEF y
<1>7. h[0] = <<>> /\ \A i \in 1..(x + y) : h[i] = h[i - 1] \o AsReply(c[i])
  <2>1. \A i \in 1..Len(c) : h[i] = h[i - 1] \o AsReply(c[i])
    BY <1>1, <1>4, SolutionTyped
  <2>2. h[0] = <<>>
    BY <1>1, <1>4, SolutionTyped
  <2>3. QED
    BY <1>1, <2>1, <2>2
<1>8. \A p : AsReply(p) \in Seq(Replies)
  BY DEF AsReply
<1> DEFINE S == {n \in Nat : n <= x => h[n] = f[n]}
           v == [n \in Nat |-> f[x] \o g[n]]
           T == {n \in Nat : n <= y => h[x + n] = v[n]}
<1>9. h[x] = f[x]
  <2>1. 0 \in S
    BY <1>5, <1>7
  <2>2. ASSUME NEW n \in Nat, n \in S
        PROVE  n + 1 \in S
    <3> SUFFICES ASSUME n + 1 <= x PROVE h[n + 1] = f[n + 1]
      OBVIOUS
    <3>1. n + 1 \in 1..x /\ n + 1 \in 1..(x + y) /\ (n + 1) - 1 = n /\ n <= x
      BY <1>1
    <3>2. h[n + 1] = h[n] \o AsReply(c[n + 1]) /\ f[n + 1] = f[n] \o AsReply(a[n + 1])
      BY <1>5, <1>7, <3>1
    <3>3. c[n + 1] = a[n + 1] /\ h[n] = f[n]
      BY <1>1, <2>2, <3>1
    <3>4. QED
      BY <3>2, <3>3
  <2> HIDE DEF S
  <2>3. x \in S
    BY <1>1, <2>1, <2>2, EveryNumber
  <2>4. QED
    BY <1>1, <2>3 DEF S
<1>10. h[x + y] = f[x] \o g[y]
  <2>1. 0 \in T
    <3>1. f[x] \o <<>> = f[x] /\ x + 0 = x
      BY <1>1, <1>5, ConcatEmptySeq
    <3>2. h[x + 0] = v[0]
      BY <1>6, <1>9, <3>1
    <3> HIDE DEF v
    <3>3. QED
      BY <3>2
  <2>2. ASSUME NEW n \in Nat, n \in T
        PROVE  n + 1 \in T
    <3>1. ASSUME n + 1 <= y
          PROVE  h[x + (n + 1)] = v[n + 1]
      <4>1. /\ n + 1 \in 1..y /\ x + (n + 1) \in 1..(x + y) /\ (n + 1) - 1 = n /\ n <= y
            /\ (x + (n + 1)) - 1 = x + n
        BY <1>1, <3>1
      <4>2. /\ h[x + (n + 1)] = h[x + n] \o AsReply(b[n + 1])
            /\ g[n + 1] = g[n] \o AsReply(b[n + 1]) /\ g[n] \in Seq(Replies)
        BY <1>1, <1>6, <1>7, <4>1
      <4>3. h[x + n] = f[x] \o g[n]
        BY <2>2, <4>1
      <4> DEFINE p == f[x]
                 q == g[n]
                 w == AsReply(b[n + 1])
      <4>4. p \in Seq(Replies) /\ q \in Seq(Replies) /\ w \in Seq(Replies)
        BY <1>5, <1>8, <4>2
      <4>5. (p \o q) \o w = p \o (q \o w)
        <5> HIDE DEF p, q, w
        <5>1. QED
          BY <4>4, ConcatAssociative
      <4>6. v[n + 1] = p \o g[n + 1]
        <5>1. n + 1 \in Nat
          OBVIOUS
        <5>2. QED
          BY <5>1, Zenon
      <4>7. h[x + n] = p \o q /\ g[n + 1] = q \o w /\ h[x + (n + 1)] = h[x + n] \o w
        BY <4>2, <4>3
      <4> HIDE DEF p, q, w, v
      <4>8. QED
        BY <4>5, <4>6, <4>7
    <3> HIDE DEF v
    <3>2. QED
      BY <3>1
  <2> HIDE DEF T
  <2>3. y \in T
    BY <1>1, <2>1, <2>2, EveryNumber
  <2>4. h[x + y] = v[y]
    <3> HIDE DEF v
    <3>1. QED
      BY <1>1, <2>3 DEF T
  <2>5. QED
    BY <1>1, <2>4
<1>11. QED
  BY <1>1, <1>2, <1>3, <1>4, <1>10 DEF c

LEMMA RepliesInOne ==
  /\ RepliesIn(<<>>) = <<>>
  /\ \A p \in Prompt : RepliesIn(<<p>>) = AsReply(p)
<1>1. <<>> \in Seq(Prompt) /\ Len(<<>>) = 0
  OBVIOUS
<1>2. RepliesIn(<<>>) = <<>>
  BY <1>1, RepliesInSolution, SolutionTyped
<1>3. ASSUME NEW p \in Prompt
      PROVE  RepliesIn(<<p>>) = AsReply(p)
  <2> DEFINE s == <<p>>
  <2>1. s \in Seq(Prompt) /\ Len(s) = 1 /\ s[1] = p
    OBVIOUS
  <2> HIDE DEF s
  <2>2. PICK f : Solves(f, s) /\ RepliesIn(s) = f[Len(s)]
    BY <2>1, RepliesInSolution
  <2>3. 1 \in 1..Len(s) /\ 1 - 1 = 0
    BY <2>1
  <2>4. f[0] = <<>> /\ f[1] = f[0] \o AsReply(p)
    <3>1. f[0] = <<>> /\ \A i \in 1..Len(s) : f[i] = f[i - 1] \o AsReply(s[i])
      BY <2>1, <2>2, SolutionTyped
    <3>2. QED
      BY <2>1, <2>3, <3>1
  <2>5. AsReply(p) \in Seq(Replies)
    BY DEF AsReply
  <2>6. f[1] = AsReply(p)
    BY <2>4, <2>5, ConcatEmptySeq
  <2>7. QED
    BY <2>1, <2>2, <2>6 DEF s
<1>4. QED
  BY <1>2, <1>3

LEMMA SetToSeqOne ==
  /\ SetToSeq({}) = <<>>
  /\ \A p : SetToSeq({p}) = <<p>>
<1>1. ASSUME NEW S, NEW s, s \in [1..Cardinality(S) -> S], IsInjective(s)
      PROVE  SetToSeq(S) \in [1..Cardinality(S) -> S]
  <2>1. \E f \in [1..Cardinality(S) -> S] : IsInjective(f)
    BY <1>1
  <2>2. QED
    BY <2>1, Zenon DEF SetToSeq
<1>2. SetToSeq({}) = <<>>
  <2>1. Cardinality({}) = 0 /\ 1..0 = {}
    BY FS_EmptySet
  <2>2. <<>> \in [1..Cardinality({}) -> {}] /\ IsInjective(<<>>)
    BY <2>1 DEF IsInjective
  <2>3. SetToSeq({}) \in [1..0 -> {}]
    BY <1>1, <2>1, <2>2
  <2>4. SetToSeq({}) \in Seq({})
    BY <2>3, SeqDef
  <2>5. Len(SetToSeq({})) = 0
    BY <2>3, <2>4, LenProperties
  <2>6. QED
    BY <2>4, <2>5, EmptySeq
<1>3. ASSUME NEW p
      PROVE  SetToSeq({p}) = <<p>>
  <2>1. Cardinality({p}) = 1 /\ 1..1 = {1}
    <3>1. Cardinality({p}) = 1
      BY FS_Singleton
    <3>2. 1..1 = {1}
      OBVIOUS
    <3>3. QED
      BY <3>1, <3>2
  <2>2. <<p>> \in [1..1 -> {p}] /\ IsInjective(<<p>>)
    BY <2>1 DEF IsInjective
  <2>3. SetToSeq({p}) \in [1..1 -> {p}]
    BY <1>1, <2>1, <2>2
  <2>4. SetToSeq({p}) \in Seq({p})
    BY <2>3, SeqDef
  <2>5. Len(SetToSeq({p})) = 1 /\ SetToSeq({p})[1] = p
    BY <2>3, <2>4, LenProperties
  <2>6. <<p>> \in Seq({p}) /\ Len(<<p>>) = 1 /\ <<p>>[1] = p
    OBVIOUS
  <2>7. QED
    BY <2>4, <2>5, <2>6, SeqEqual
<1>4. QED
  BY <1>2, <1>3

-----------------------------------------------------------------------------
(* The interviewer gets the replies in the order they were heard. *)

\* A turn that comes later in what a driver has to do comes after a hand-off, and so
\* not in the interview; only a turn that is all it has to do is an interview's.
TurnsLate(s) == \A i \in 1..Len(s) : s[i] = "turn" => \E j \in 1..(i - 1) : s[j] = "handoff"
Turns(s) == s = <<"turn">> \/ TurnsLate(s)

\* A command carries no reply.
CommandsCarryNone == \A c \in Cmds : th[c].prompt \notin Replies

\* An approval finds its errand still pending, and no interview fails.
ApprovalsPending ==
  \A c \in Cmds, e \in Ids : Approving(c, e) => rec[e].status = "pending_approval"
DriversOpen ==
  \A d \in Drivers :
    ~Idle(d) /\ interviewing(rec[th[d].on])
      => "failed" \notin Range(th[d].todo) /\ Turns(th[d].todo)

\* Nothing is buffered for an idle errand, and an errand that was not started has asked
\* nothing.
Drained == \A e \in Ids : interviewing(rec[e]) /\ ~busy[e] => pending[e] = <<>>
NothingAsked == \A e \in Ids \ born : asked[e] = <<>>

InOrder(e) == interviewing(rec[e]) => asked[e] \o RepliesIn(Queue(e)) = rec[e].heard

OInv ==
  /\ CommandsCarryNone
  /\ ApprovalsPending
  /\ DriversOpen
  /\ Drained
  /\ NothingAsked
  /\ \A e \in Ids : InOrder(e)

-----------------------------------------------------------------------------
(* The queue of an errand. *)

\* Driver d is about to run a turn for e; the subscribe loop is about to hand a reply to e.
Turning(d, e) == At(d, "turn") /\ th[d].on = e
Handing(e) == At(Feeder, "drive") /\ th[Feeder].on = e

\* The same drivers are about to run the same prompts.
LEMMA InFlightKept ==
  ASSUME NEW e,
         \A d \in Drivers : /\ Turning(d, e)' <=> Turning(d, e)
                            /\ Turning(d, e) => th'[d].prompt = th[d].prompt
  PROVE  InFlight(e)' = InFlight(e)
BY DEF InFlight, DriversOf, Turning, At, Idle

LEMMA UnderwayKept ==
  ASSUME NEW e, Handing(e)' <=> Handing(e), Handing(e) => th'[Feeder].prompt = th[Feeder].prompt
  PROVE  Underway(e)' = Underway(e)
BY DEF Underway, Handing

\* An errand of which nothing changes that the queue is made of.
LEMMA QueueKept ==
  ASSUME NEW e, InFlight(e)' = InFlight(e), Underway(e)' = Underway(e), pending'[e] = pending[e]
  PROVE  Queue(e)' = Queue(e)
BY DEF Queue

LEMMA OrderKept ==
  ASSUME NEW e, InOrder(e), InFlight(e)' = InFlight(e), Underway(e)' = Underway(e),
         pending'[e] = pending[e], asked'[e] = asked[e], rec'[e].heard = rec[e].heard,
         interviewing(rec'[e]) => interviewing(rec[e])
  PROVE  InOrder(e)'
BY QueueKept DEF InOrder

\* An errand whose driver runs no turn, and one whose driver is about to.
LEMMA NoTurn ==
  ASSUME NEW e, \A d \in Drivers : ~Turning(d, e)
  PROVE  InFlight(e) = {}
BY DEF InFlight, DriversOf, Turning, At, Idle

LEMMA OneTurn ==
  ASSUME IInv, NEW e \in Ids, NEW d \in Drivers, Turning(d, e)
  PROVE  InFlight(e) = {th[d].prompt}
<1>1. d \in DriversOf(e) /\ \A u \in DriversOf(e) : u = d
  BY DEF IInv, SingleDriver, DriversOf, Turning, At, Idle
<1>2. QED
  BY <1>1 DEF InFlight, Turning

\* The parts of a queue are sequences of prompts.
LEMMA QueueParts ==
  ASSUME IInv, NEW e \in Ids
  PROVE  /\ SetToSeq(InFlight(e)) \in Seq(Prompt)
         /\ pending[e] \in Seq(Prompt)
         /\ Underway(e) \in Seq(Prompt)
         /\ Queue(e) \in Seq(Prompt)
<1>1. th \in [Threads -> Thread] /\ pending[e] \in Seq(Prompt)
  BY DEF IInv, ThreadsOK, DataOK
<1>2. SetToSeq(InFlight(e)) \in Seq(Prompt)
  <2>1. CASE \A d \in Drivers : ~Turning(d, e)
    <3>1. SetToSeq(InFlight(e)) = <<>>
      BY <2>1, NoTurn, SetToSeqOne
    <3>2. <<>> \in Seq(Prompt)
      OBVIOUS
    <3>3. QED
      BY <3>1, <3>2
  <2>2. CASE \E d \in Drivers : Turning(d, e)
    <3>1. PICK d \in Drivers : Turning(d, e)
      BY <2>2
    <3>2. SetToSeq(InFlight(e)) = <<th[d].prompt>>
      BY <3>1, OneTurn, SetToSeqOne
    <3>3. th[d].prompt \in Prompt
      BY <1>1 DEF Thread, Threads
    <3>4. QED
      BY <3>2, <3>3
  <2>3. QED
    BY <2>1, <2>2
<1>3. Underway(e) \in Seq(Prompt)
  <2>1. th[Feeder].prompt \in Prompt
    BY <1>1 DEF Thread, Threads
  <2>2. QED
    BY <2>1 DEF Underway
<1>4. QED
  BY <1>1, <1>2, <1>3, ConcatProperties DEF Queue

\* What a sequence of three parts has of replies.
LEMMA RepliesInThree ==
  ASSUME NEW a \in Seq(Prompt), NEW b \in Seq(Prompt), NEW c \in Seq(Prompt)
  PROVE  RepliesIn(a \o b \o c) = RepliesIn(a) \o RepliesIn(b) \o RepliesIn(c)
<1>1. a \o b \in Seq(Prompt)
  BY ConcatProperties
<1>2. QED
  BY <1>1, RepliesInConcat

-----------------------------------------------------------------------------
(* Steps of one goroutine. *)

\* Driver d goes on as r or ends, and its errand's replies are still in order.
LEMMA DriverOrdered ==
  ASSUME IInv, SInv, OInv, NEW d \in Drivers, ~Idle(d), NEW e \in Ids, th[d].on = e, NEW r, Become(d, r),
         r.on = e, born' = born,
         \A i \in Ids \ {e} :
           /\ rec'[i].status = rec[i].status /\ rec'[i].heard = rec[i].heard
           /\ busy'[i] = busy[i] /\ pending'[i] = pending[i] /\ asked'[i] = asked[i],
         \A c \in Cmds : Approving(c, e) => rec'[e].status = rec[e].status,
         interviewing(rec'[e]) =>
           /\ "failed" \notin Range(r.todo) /\ Turns(r.todo)
           /\ ~busy'[e] => pending'[e] = <<>>,
         InOrder(e)'
  PROVE  OInv'
<1> DEFINE n == IF r.todo = <<>> THEN IdleThread ELSE r
<1>1. th \in [Threads -> Thread] /\ d \in Threads /\ e \in born
  BY DEF IInv, ThreadsOK, Threads, Thread, SInv, BornOnly
<1>2. th' = [th EXCEPT ![d] = n]
  BY DEF Become
<1>3. th'[d] = n /\ \A u \in Threads \ {d} : th'[u] = th[u]
  BY <1>1, <1>2
<1>4. \A u \in Cmds \cup {Feeder} : u \in Threads \ {d} /\ th'[u] = th[u]
  BY <1>3, ErrandsAssumption DEF Threads
<1>5. CommandsCarryNone'
  BY <1>4 DEF OInv, CommandsCarryNone
<1>6. \A c \in Cmds, i \in Ids : Approving(c, i)' <=> Approving(c, i)
  BY <1>4 DEF Approving, At
<1>7. ApprovalsPending'
  <2>1. ASSUME NEW c \in Cmds, NEW i \in Ids, Approving(c, i)
        PROVE  rec'[i].status = "pending_approval"
    <3>1. rec[i].status = "pending_approval"
      BY <2>1 DEF OInv, ApprovalsPending
    <3>2. QED
      BY <2>1, <3>1
  <2>2. QED
    BY <1>6, <2>1 DEF ApprovalsPending
<1>8. \A u \in Drivers \ {d} : ~Idle(u) => th[u].on \in Ids \ {e}
  BY <1>1 DEF IInv, SingleDriver, DriversOf, Threads, Thread
<1>9. DriversOpen'
  <2>1. ASSUME NEW u \in Drivers, ~Idle(u)', interviewing(rec'[th'[u].on])
        PROVE  "failed" \notin Range(th'[u].todo) /\ Turns(th'[u].todo)
    <3>1. CASE u = d
      <4>1. n = r
        BY <1>3, <2>1, <3>1 DEF Idle, IdleThread
      <4>2. QED
        BY <1>3, <2>1, <3>1, <4>1
    <3>2. CASE u # d
      <4>1. th'[u] = th[u] /\ ~Idle(u) /\ th[u].on \in Ids \ {e}
        BY <1>3, <1>8, <2>1, <3>2 DEF Idle, Threads
      <4>2. interviewing(rec[th[u].on])
        BY <2>1, <4>1 DEF interviewing
      <4>3. QED
        BY <4>1, <4>2 DEF OInv, DriversOpen
    <3>3. QED
      BY <3>1, <3>2
  <2>2. QED
    BY <2>1 DEF DriversOpen
<1>10. Drained'
  <2>1. ASSUME NEW i \in Ids, interviewing(rec'[i]), ~busy'[i]
        PROVE  pending'[i] = <<>>
    <3>1. CASE i = e
      BY <2>1, <3>1
    <3>2. CASE i # e
      BY <2>1, <3>2 DEF OInv, Drained, interviewing
    <3>3. QED
      BY <3>1, <3>2
  <2>2. QED
    BY <2>1 DEF Drained
<1>11. NothingAsked'
  BY <1>1 DEF OInv, NothingAsked
<1>12. ASSUME NEW i \in Ids
       PROVE  InOrder(i)'
  <2>1. CASE i = e
    BY <2>1
  <2>2. CASE i # e
    <3>1. InFlight(i)' = InFlight(i)
      <4>1. ASSUME NEW u \in Drivers
            PROVE  /\ Turning(u, i)' <=> Turning(u, i)
                   /\ Turning(u, i) => th'[u].prompt = th[u].prompt
        <5>1. CASE u = d
          BY <1>3, <2>2, <5>1 DEF Turning, At, IdleThread
        <5>2. CASE u # d
          BY <1>3, <5>2 DEF Turning, At, Threads
        <5>3. QED
          BY <5>1, <5>2
      <4>2. QED
        BY <4>1, InFlightKept
    <3>2. Underway(i)' = Underway(i)
      BY <1>4 DEF Underway, At
    <3>3. interviewing(rec'[i]) => interviewing(rec[i])
      BY <2>2 DEF interviewing
    <3>4. InOrder(i)
      BY DEF OInv
    <3>5. pending'[i] = pending[i] /\ asked'[i] = asked[i] /\ rec'[i].heard = rec[i].heard
      BY <2>2
    <3>6. Queue(i)' = Queue(i)
      BY <3>1, <3>2, <3>5, QueueKept
    <3>7. QED
      BY <3>3, <3>4, <3>5, <3>6 DEF InOrder
  <2>3. QED
    BY <2>1, <2>2
<1>13. QED
  BY <1>5, <1>7, <1>9, <1>10, <1>11, <1>12 DEF OInv

\* What drivers other than d are about to run for e: nothing, when d drives e.
LEMMA OnlyDriver ==
  ASSUME IInv, NEW d \in Drivers, ~Idle(d), NEW e \in Ids, th[d].on = e, NEW r, Become(d, r)
  PROVE  /\ th'[d] = IF r.todo = <<>> THEN IdleThread ELSE r
         /\ Underway(e)' = Underway(e)
         /\ \A u \in Drivers \ {d} : ~Turning(u, e) /\ ~Turning(u, e)'
<1> DEFINE n == IF r.todo = <<>> THEN IdleThread ELSE r
<1>1. th \in [Threads -> Thread] /\ d \in Threads /\ Feeder \in Threads \ {d}
  BY ErrandsAssumption DEF IInv, ThreadsOK, Threads
<1>2. th' = [th EXCEPT ![d] = n]
  BY DEF Become
<1>3. th'[d] = n /\ \A u \in Threads \ {d} : th'[u] = th[u]
  BY <1>1, <1>2
<1>4. Underway(e)' = Underway(e)
  BY <1>1, <1>3 DEF Underway, At
<1>5. ASSUME NEW u \in Drivers \ {d}
      PROVE  ~Turning(u, e) /\ ~Turning(u, e)'
  <2>1. Idle(u) \/ th[u].on # e
    BY DEF IInv, SingleDriver, DriversOf
  <2>2. th'[u] = th[u]
    BY <1>3 DEF Threads
  <2>3. QED
    BY <2>1, <2>2 DEF Turning, At, Idle
<1>6. QED
  BY <1>3, <1>4, <1>5

\* Driver d goes on with nothing that starts a turn of the interview, nothing is asked or
\* heard, and what is buffered stays, unless the interview ends.
LEMMA DriverKeepsOrder ==
  ASSUME IInv, SInv, OInv, NEW d \in Drivers, ~Idle(d), NEW e \in Ids, th[d].on = e,
         NEW r, Become(d, r), r.on = e, born' = born, asked' = asked,
         \A i \in Ids : rec'[i].heard = rec[i].heard,
         \A i \in Ids \ {e} :
           rec'[i].status = rec[i].status /\ busy'[i] = busy[i] /\ pending'[i] = pending[i],
         \A c \in Cmds : Approving(c, e) => rec'[e].status = rec[e].status,
         interviewing(rec'[e]) =>
           /\ interviewing(rec[e]) /\ pending'[e] = pending[e] /\ ~At(d, "turn")
           /\ "failed" \notin Range(r.todo) /\ TurnsLate(r.todo) /\ r.todo \in Seq(Op)
           /\ busy'[e] = busy[e] \/ pending[e] = <<>>
  PROVE  OInv'
<1>1. /\ th'[d] = IF r.todo = <<>> THEN IdleThread ELSE r
      /\ Underway(e)' = Underway(e)
      /\ \A u \in Drivers \ {d} : ~Turning(u, e) /\ ~Turning(u, e)'
  BY OnlyDriver
<1>2. ASSUME interviewing(rec'[e])
      PROVE  asked'[e] \o RepliesIn(Queue(e)') = rec'[e].heard
  <2>1. ~Turning(d, e)
    BY <1>2 DEF Turning
  <2>2. ~Turning(d, e)'
    <3> SUFFICES ASSUME r.todo # <<>>, Head(r.todo) = "turn"
                 PROVE  FALSE
      BY <1>1 DEF Turning, At, IdleThread
    <3>1. r.todo[1] = "turn" /\ 1 \in 1..Len(r.todo) /\ 1..(1 - 1) = {}
      BY <1>2
    <3>2. QED
      BY <1>2, <3>1 DEF TurnsLate
  <2>3. InFlight(e)' = InFlight(e)
    BY <1>1, <2>1, <2>2, InFlightKept
  <2>4. Queue(e)' = Queue(e)
    BY <1>1, <1>2, <2>3, QueueKept
  <2>5. InOrder(e)
    BY DEF OInv
  <2>6. QED
    BY <1>2, <2>4, <2>5 DEF InOrder
<1>3. InOrder(e)'
  BY <1>2 DEF InOrder
<1>4. interviewing(rec'[e]) =>
        /\ "failed" \notin Range(r.todo) /\ Turns(r.todo)
        /\ ~busy'[e] => pending'[e] = <<>>
  BY DEF OInv, Drained, Turns
<1>5. \A i \in Ids \ {e} :
        /\ rec'[i].status = rec[i].status /\ rec'[i].heard = rec[i].heard
        /\ busy'[i] = busy[i] /\ pending'[i] = pending[i] /\ asked'[i] = asked[i]
  OBVIOUS
<1>6. QED
  BY <1>3, <1>4, <1>5, DriverOrdered

\* Driver d ends, and leaves no prompt of an interview behind.
LEMMA DriverEnds ==
  ASSUME IInv, SInv, OInv, NEW d \in Drivers, ~Idle(d), Exit(d),
         UNCHANGED <<rec, pending, born, asked>>,
         interviewing(rec[th[d].on]) => pending[th[d].on] = <<>> /\ ~At(d, "turn")
  PROVE  OInv'
<1> DEFINE e == th[d].on
           r == [th[d] EXCEPT !.todo = <<>>]
<1>1. th[d] \in Thread /\ e \in Ids /\ busy \in [Ids -> BOOLEAN]
  BY DEF IInv, ThreadsOK, DataOK, Threads, Thread
<1>2. Become(d, r) /\ r.on = e /\ r.todo = <<>>
  BY <1>1 DEF Exit, Goto, Thread
<1>3. \A i \in Ids \ {e} : busy'[i] = busy[i]
  BY <1>1 DEF Exit
<1>4. "failed" \notin Range(r.todo) /\ TurnsLate(r.todo) /\ r.todo \in Seq(Op)
  BY <1>2, RangeLiterals DEF TurnsLate
<1> HIDE DEF r
<1>5. PICK k \in Ids : th[d].on = k
  BY <1>1
<1>6. /\ r.on = k /\ born' = born /\ asked' = asked
      /\ \A i \in Ids : rec'[i].heard = rec[i].heard
      /\ \A i \in Ids \ {k} :
           rec'[i].status = rec[i].status /\ busy'[i] = busy[i] /\ pending'[i] = pending[i]
      /\ \A c \in Cmds : Approving(c, k) => rec'[k].status = rec[k].status
  BY <1>2, <1>3, <1>5
<1>7. interviewing(rec'[k]) =>
        /\ interviewing(rec[k]) /\ pending'[k] = pending[k] /\ ~At(d, "turn")
        /\ pending[k] = <<>>
  BY <1>5
<1>8. QED
  BY <1>2, <1>4, <1>5, <1>6, <1>7, DriverKeepsOrder

\* A driver that drops the front of what it has to do, and puts operations of no phase there.
LEMMA TurnsLateRest ==
  ASSUME NEW s \in Seq(Op), s # <<>>, TurnsLate(s), Head(s) # "handoff", NEW p \in Seq(Plain)
  PROVE  TurnsLate(p \o Tail(s))
<1> DEFINE t == Tail(s)
           w == p \o t
<1>1. /\ Len(s) \in Nat \ {0} /\ t \in Seq(Op) /\ Len(t) = Len(s) - 1
      /\ \A i \in 1..Len(t) : t[i] = s[i + 1]
      /\ s[1] = Head(s)
  BY HeadTailProperties
<1>2. p \in Seq(Op)
  BY SeqMonotonic DEF Plain, Op, Status
<1>3. /\ Len(p) \in Nat /\ Len(w) = Len(p) + Len(t)
      /\ \A i \in 1..Len(p) + Len(t) : w[i] = IF i <= Len(p) THEN p[i] ELSE t[i - Len(p)]
  BY <1>1, <1>2, ConcatProperties, LenProperties
<1>4. ASSUME NEW i \in 1..Len(w), w[i] = "turn"
      PROVE  \E j \in 1..(i - 1) : w[j] = "handoff"
  <2>1. CASE i <= Len(p)
    <3>1. w[i] = p[i] /\ p[i] \in Plain
      BY <1>3, <2>1, ElementOfSeq
    <3>2. QED
      BY <1>4, <3>1 DEF Plain
  <2>2. CASE ~(i <= Len(p))
    <3> DEFINE k == i - Len(p)
    <3>1. k \in 1..Len(t) /\ k + 1 \in 1..Len(s) /\ t[k] = s[k + 1] /\ w[i] = t[k]
      BY <1>1, <1>3, <2>2
    <3>2. PICK j \in 1..k : s[j] = "handoff"
      <4>1. (k + 1) - 1 = k /\ s[k + 1] = "turn"
        BY <1>4, <3>1
      <4>2. QED
        BY <3>1, <4>1 DEF TurnsLate
    <3>3. j # 1
      BY <1>1, <3>2
    <3>4. j - 1 \in 1..Len(t) /\ t[j - 1] = s[j]
      <4>1. j - 1 \in 1..Len(t) /\ (j - 1) + 1 = j
        BY <1>1, <3>1, <3>2, <3>3
      <4>2. QED
        BY <1>1, <4>1
    <3>5. /\ Len(p) + (j - 1) \in 1..(i - 1) /\ Len(p) + (j - 1) \in 1..Len(p) + Len(t)
          /\ ~(Len(p) + (j - 1) <= Len(p)) /\ (Len(p) + (j - 1)) - Len(p) = j - 1
      BY <1>1, <1>3, <2>2, <3>1, <3>2, <3>3
    <3>6. w[Len(p) + (j - 1)] = t[j - 1]
      BY <1>3, <3>5
    <3>7. QED
      BY <3>2, <3>4, <3>5, <3>6
  <2>3. QED
    BY <2>1, <2>2
<1>5. QED
  BY <1>4 DEF TurnsLate

\* A driver in the middle of what it has to do goes on with the rest of it.
LEMMA DriverRestsInOrder ==
  ASSUME IInv, SInv, OInv, NEW d \in Drivers, ~Idle(d), ~At(d, "turn"), ~At(d, "handoff"),
         NEW ops \in Seq(Plain), NEW r, Become(d, r), r.on = th[d].on, r.todo = ops \o Rest(d),
         UNCHANGED <<born, asked, busy, pending>>,
         \A i \in Ids : rec'[i].heard = rec[i].heard /\ rec'[i].status = rec[i].status
  PROVE  OInv'
<1>1. /\ th[d].todo \in Seq(Op) /\ th[d].todo # <<>> /\ Rest(d) \in Seq(Op)
      /\ Range(th[d].todo) = {Head(th[d].todo)} \cup Range(Rest(d))
      /\ th[d].on \in Ids
  BY FrontOp DEF Threads
<1>2. PICK e \in Ids : th[d].on = e
  BY <1>1
<1>3. ops \in Seq(Op) /\ r.todo \in Seq(Op) /\ Range(r.todo) = Range(ops) \cup Range(Rest(d))
  <2>1. ops \in Seq(Op)
    BY SeqMonotonic DEF Plain, Op, Status
  <2>2. QED
    BY <1>1, <2>1, ConcatProperties, RangeConcatenation
<1>4. Range(ops) \subseteq Plain
  BY RangeEquality
<1>5. ASSUME interviewing(rec[e])
      PROVE  "failed" \notin Range(r.todo) /\ TurnsLate(r.todo)
  <2>1. "failed" \notin Range(th[d].todo) /\ Turns(th[d].todo)
    BY <1>2, <1>5 DEF OInv, DriversOpen
  <2>2. th[d].todo # <<"turn">>
    BY <1>1 DEF At
  <2>3. TurnsLate(th[d].todo) /\ Head(th[d].todo) # "handoff"
    BY <1>1, <2>1, <2>2 DEF Turns, At
  <2>4. TurnsLate(r.todo)
    BY <1>1, <2>3, TurnsLateRest DEF Rest
  <2>5. "failed" \notin Range(r.todo)
    BY <1>1, <1>3, <1>4, <2>1 DEF Plain
  <2>6. QED
    BY <2>4, <2>5
<1>6. /\ \A i \in Ids \ {e} :
           rec'[i].status = rec[i].status /\ busy'[i] = busy[i] /\ pending'[i] = pending[i]
      /\ \A c \in Cmds : Approving(c, e) => rec'[e].status = rec[e].status
      /\ r.on = e /\ born' = born /\ asked' = asked
      /\ \A i \in Ids : rec'[i].heard = rec[i].heard
  BY <1>2
<1>7. interviewing(rec'[e]) =>
        /\ interviewing(rec[e]) /\ pending'[e] = pending[e] /\ ~At(d, "turn")
        /\ "failed" \notin Range(r.todo) /\ TurnsLate(r.todo) /\ r.todo \in Seq(Op)
        /\ busy'[e] = busy[e]
  BY <1>3, <1>5 DEF interviewing
<1>8. QED
  BY <1>2, <1>6, <1>7, DriverKeepsOrder

\* A command goroutine goes on as r, in a step that asks and buffers nothing; an errand
\* that comes to be interviewed is a new one.
LEMMA CommandOrdered ==
  ASSUME IInv, SInv, BInv, OInv, NEW c \in Cmds, NEW r, Become(c, r), r.prompt \notin Replies,
         born \subseteq born', UNCHANGED <<busy, pending, asked>>,
         \A i \in Ids : \/ /\ rec'[i].heard = rec[i].heard
                           /\ interviewing(rec'[i]) => interviewing(rec[i])
                        \/ i \notin born /\ rec'[i].heard = <<>>,
         \A k \in Cmds, i \in Ids : Approving(k, i)' => rec'[i].status = "pending_approval"
  PROVE  OInv'
<1> DEFINE n == IF r.todo = <<>> THEN IdleThread ELSE r
<1>1. th \in [Threads -> Thread] /\ c \in Threads /\ c \notin Drivers \cup {Feeder}
  BY ErrandsAssumption DEF IInv, ThreadsOK, Threads
<1>2. th' = [th EXCEPT ![c] = n]
  BY DEF Become
<1>3. th'[c] = n /\ \A u \in Threads \ {c} : th'[u] = th[u]
  BY <1>1, <1>2
<1>4. \A u \in Drivers \cup {Feeder} : u \in Threads /\ th'[u] = th[u]
  BY <1>1, <1>3 DEF Threads
<1>5. CommandsCarryNone'
  <2>1. IdleThread.prompt \notin Replies
    BY ErrandsAssumption DEF IdleThread
  <2>2. \A k \in Cmds : th'[k].prompt \notin Replies
    BY <1>3, <2>1 DEF OInv, CommandsCarryNone, Threads
  <2>3. QED
    BY <2>2 DEF CommandsCarryNone
<1>6. ApprovalsPending'
  BY DEF ApprovalsPending
<1>7. \A t \in Threads : ~Idle(t) => th[t].on \in born /\ th[t].on \in Ids
  BY <1>1 DEF SInv, BornOnly, Thread
<1>8. DriversOpen'
  <2>1. ASSUME NEW u \in Drivers, ~Idle(u)', interviewing(rec'[th'[u].on])
        PROVE  "failed" \notin Range(th'[u].todo) /\ Turns(th'[u].todo)
    <3>1. th'[u] = th[u] /\ ~Idle(u) /\ th[u].on \in born /\ th[u].on \in Ids
      BY <1>4, <1>7, <2>1 DEF Idle
    <3>2. interviewing(rec[th[u].on])
      BY <2>1, <3>1
    <3>3. QED
      BY <3>1, <3>2 DEF OInv, DriversOpen
  <2>2. QED
    BY <2>1 DEF DriversOpen
<1>9. Drained'
  <2>1. ASSUME NEW i \in Ids, interviewing(rec'[i]), ~busy'[i]
        PROVE  pending'[i] = <<>>
    <3>1. CASE i \notin born
      BY <3>1 DEF BInv, Unstarted
    <3>2. CASE i \in born
      BY <2>1, <3>2 DEF OInv, Drained
    <3>3. QED
      BY <3>1, <3>2
  <2>2. QED
    BY <2>1 DEF Drained
<1>10. NothingAsked'
  BY DEF OInv, NothingAsked
<1>11. ASSUME NEW i \in Ids
       PROVE  InOrder(i)'
  <2>1. InFlight(i)' = InFlight(i)
    <3>1. \A u \in Drivers : /\ Turning(u, i)' <=> Turning(u, i)
                             /\ Turning(u, i) => th'[u].prompt = th[u].prompt
      BY <1>4 DEF Turning, At
    <3>2. QED
      BY <3>1, InFlightKept
  <2>2. Underway(i)' = Underway(i)
    BY <1>4 DEF Underway, At
  <2>3. Queue(i)' = Queue(i)
    BY <2>1, <2>2, QueueKept
  <2>4. CASE i \in born
    <3>1. InOrder(i)
      BY DEF OInv
    <3>2. rec'[i].heard = rec[i].heard /\ (interviewing(rec'[i]) => interviewing(rec[i]))
      BY <2>4
    <3>3. QED
      BY <2>3, <3>1, <3>2 DEF InOrder
  <2>5. CASE i \notin born
    <3>1. pending[i] = <<>> /\ asked[i] = <<>>
      BY <2>5 DEF BInv, Unstarted, OInv, NothingAsked
    <3>2. \A t \in Drivers \cup {Feeder} : Idle(t) \/ th[t].on # i
      BY <1>4, <1>7, <2>5
    <3>3. SetToSeq(InFlight(i)) = <<>>
      <4>1. \A u \in Drivers : ~Turning(u, i)
        BY <3>2 DEF Turning, At, Idle
      <4>2. QED
        BY <4>1, NoTurn, SetToSeqOne
    <3>4. Underway(i) = <<>>
      BY <3>2 DEF Underway, At, Idle
    <3>5. Queue(i) = <<>> \o <<>> \o <<>>
      BY <3>1, <3>3, <3>4 DEF Queue
    <3>6. Queue(i) = <<>>
      BY <3>5
    <3>7. asked'[i] \o RepliesIn(Queue(i)') = <<>>
      BY <2>3, <3>1, <3>6, RepliesInOne
    <3>8. (rec'[i].heard = rec[i].heard /\ ~interviewing(rec[i])) \/ rec'[i].heard = <<>>
      BY <2>5 DEF SInv, BornOnly, interviewing
    <3>9. interviewing(rec'[i]) => rec'[i].heard = <<>>
      BY <2>5, <3>8 DEF SInv, BornOnly, interviewing
    <3>10. QED
      BY <3>7, <3>9 DEF InOrder
  <2>6. QED
    BY <2>4, <2>5
<1>12. QED
  BY <1>5, <1>6, <1>8, <1>9, <1>10, <1>11 DEF OInv

\* The subscribe loop goes on as r in a step that asks and buffers nothing.
LEMMA FeederOrdered ==
  ASSUME IInv, OInv, NEW r, Become(Feeder, r), UNCHANGED <<busy, pending, asked, born>>,
         \A i \in Ids : rec'[i].status = rec[i].status,
         \A i \in Ids : InOrder(i)'
  PROVE  OInv'
<1> DEFINE n == IF r.todo = <<>> THEN IdleThread ELSE r
<1>1. th \in [Threads -> Thread] /\ Feeder \in Threads
  BY DEF IInv, ThreadsOK, Threads
<1>2. th' = [th EXCEPT ![Feeder] = n]
  BY DEF Become
<1>3. \A u \in Threads \ {Feeder} : th'[u] = th[u]
  BY <1>1, <1>2
<1>4. \A u \in Drivers \cup Cmds : u \in Threads /\ th'[u] = th[u]
  BY <1>3, ErrandsAssumption DEF Threads
<1>5. CommandsCarryNone'
  BY <1>4 DEF OInv, CommandsCarryNone
<1>6. ApprovalsPending'
  BY <1>4 DEF OInv, ApprovalsPending, Approving, At
<1>7. DriversOpen'
  <2>1. ASSUME NEW u \in Drivers, ~Idle(u)', interviewing(rec'[th'[u].on])
        PROVE  "failed" \notin Range(th'[u].todo) /\ Turns(th'[u].todo)
    <3>1. th'[u] = th[u] /\ ~Idle(u) /\ th[u].on \in Ids
      BY <1>1, <1>4, <2>1 DEF Idle, Thread
    <3>2. interviewing(rec[th[u].on])
      BY <2>1, <3>1 DEF interviewing
    <3>3. QED
      BY <3>1, <3>2 DEF OInv, DriversOpen
  <2>2. QED
    BY <2>1 DEF DriversOpen
<1>8. Drained' /\ NothingAsked'
  BY DEF OInv, Drained, NothingAsked, interviewing
<1>9. QED
  BY <1>5, <1>6, <1>7, <1>8 DEF OInv

\* For an errand of which the step hears nothing and nothing is underway.
LEMMA FeederKeeps ==
  ASSUME IInv, OInv, NEW r, Become(Feeder, r), UNCHANGED <<pending, asked>>, NEW i \in Ids,
         rec'[i].status = rec[i].status, rec'[i].heard = rec[i].heard,
         ~Handing(i), ~Handing(i)'
  PROVE  InOrder(i)'
<1> DEFINE n == IF r.todo = <<>> THEN IdleThread ELSE r
<1>1. th \in [Threads -> Thread] /\ Feeder \in Threads
  BY DEF IInv, ThreadsOK, Threads
<1>2. th' = [th EXCEPT ![Feeder] = n]
  BY DEF Become
<1>3. \A u \in Drivers : th'[u] = th[u]
  BY <1>1, <1>2, ErrandsAssumption DEF Threads
<1>4. InFlight(i)' = InFlight(i)
  <2>1. \A u \in Drivers : /\ Turning(u, i)' <=> Turning(u, i)
                           /\ Turning(u, i) => th'[u].prompt = th[u].prompt
    BY <1>3 DEF Turning, At
  <2>2. QED
    BY <2>1, InFlightKept
<1>5. Underway(i)' = Underway(i)
  BY UnderwayKept
<1>6. Queue(i)' = Queue(i)
  BY <1>4, <1>5, QueueKept
<1>7. InOrder(i)
  BY DEF OInv
<1>8. QED
  BY <1>6, <1>7 DEF InOrder, interviewing

\* A prompt that is no reply leaves the replies of a queue as they are, wherever it joins.
LEMMA PromptJoins ==
  ASSUME NEW a \in Seq(Prompt), NEW b \in Seq(Prompt), NEW c \in Seq(Prompt), NEW p \in Prompt,
         p \notin Replies
  PROVE  /\ RepliesIn(a \o Append(b, p) \o c) = RepliesIn(a \o b \o c)
         /\ RepliesIn(<<p>> \o b \o c) = RepliesIn(<<>> \o b \o c)
<1> DEFINE q == <<p>>
           o == <<>>
<1>1. q \in Seq(Prompt) /\ o \in Seq(Prompt)
  OBVIOUS
<1>2. RepliesIn(q) = o /\ RepliesIn(o) = o
  BY RepliesInOne DEF AsReply
<1>3. \A s \in Seq(Replies) : s \o o = s
  BY ConcatEmptySeq
<1>4. Append(b, p) = b \o q
  BY AppendIsConcat
<1> HIDE DEF q, o
<1>5. RepliesIn(b \o q) = RepliesIn(b) /\ b \o q \in Seq(Prompt)
  <2>1. RepliesIn(b \o q) = RepliesIn(b) \o o
    BY <1>1, <1>2, RepliesInConcat
  <2>2. QED
    BY <1>1, <1>3, <2>1, RepliesInTyped, ConcatProperties
<1>6. RepliesIn(a \o Append(b, p) \o c) = RepliesIn(a \o b \o c)
  <2>1. RepliesIn(a \o b \o c) = RepliesIn(a) \o RepliesIn(b) \o RepliesIn(c)
    BY RepliesInThree
  <2> DEFINE w == b \o q
  <2>2. w \in Seq(Prompt) /\ RepliesIn(w) = RepliesIn(b) /\ Append(b, p) = w
    BY <1>4, <1>5
  <2> HIDE DEF w
  <2>3. RepliesIn(a \o w \o c) = RepliesIn(a) \o RepliesIn(w) \o RepliesIn(c)
    BY <2>2, RepliesInThree
  <2>4. QED
    BY <2>1, <2>2, <2>3
<1>7. RepliesIn(q \o b \o c) = RepliesIn(o \o b \o c)
  <2>1. RepliesIn(q \o b \o c) = RepliesIn(q) \o RepliesIn(b) \o RepliesIn(c)
    BY <1>1, RepliesInThree
  <2>2. RepliesIn(o \o b \o c) = RepliesIn(o) \o RepliesIn(b) \o RepliesIn(c)
    BY <1>1, RepliesInThree
  <2>3. QED
    BY <1>2, <2>1, <2>2
<1>8. QED
  BY <1>6, <1>7 DEF q, o

\* driveErrandAsync moves a reply from the subscribe loop to the buffer or the driver, at the
\* end of the errand's queue either way; a command's prompt is no reply.
LEMMA DriveInOrder ==
  ASSUME IInv, SInv, HInv, OInv, IInv', NEW t \in Threads, Drive(t), NEW e \in Ids, th[t].on = e
  PROVE  InOrder(e)'
<1> DEFINE p == th[t].prompt
           a == SetToSeq(InFlight(e))
           b == pending[e]
           c == Underway(e)
<1>1. /\ th \in [Threads -> Thread] /\ ~Idle(t) /\ t \in Cmds \cup {Feeder} /\ Feeder \in Threads
      /\ pending \in [Ids -> Seq(Prompt)] /\ p \in Prompt /\ Head(th[t].todo) = "drive"
  <2>1. th \in [Threads -> Thread] /\ pending \in [Ids -> Seq(Prompt)] /\ Feeder \in Threads
    BY DEF IInv, ThreadsOK, DataOK, Threads
  <2>2. ~Idle(t) /\ Head(th[t].todo) = "drive"
    BY DEF Drive, At, Idle
  <2>3. t \notin Drivers
    BY <2>2, DriverRuns DEF Drive, DriverOp
  <2>4. QED
    BY <2>1, <2>2, <2>3 DEF Threads, Thread
<1>2. t \notin Drivers /\ (t # Feeder => p \notin Replies)
  BY <1>1, ErrandsAssumption DEF OInv, CommandsCarryNone
<1>3. a \in Seq(Prompt) /\ b \in Seq(Prompt) /\ c \in Seq(Prompt) /\ Queue(e) = a \o b \o c
  BY QueueParts DEF Queue
<1>4. t = Feeder => c = <<p>>
  BY <1>1 DEF Underway, At, Idle
<1>5. /\ rec' = rec /\ asked' = asked
  BY DEF Drive, history
<1>6. t # Feeder /\ th'[Feeder] = th[Feeder] => Underway(e)' = c
  BY DEF Underway, At
<1>7. t = Feeder /\ th'[t] = IdleThread => Underway(e)' = <<>>
  BY DEF Underway, At, IdleThread
<1>8. <<>> \in Seq(Prompt) /\ <<p>> \in Seq(Prompt)
  BY <1>1
<1>9. ASSUME RepliesIn(Queue(e)') = RepliesIn(Queue(e))
      PROVE  InOrder(e)'
  BY <1>5, <1>9 DEF OInv, InOrder
<1>10. CASE busy[e]
  <2>1. pending' = [pending EXCEPT ![e] = Append(b, p)] /\ Goto(t, <<>>)
    BY <1>10 DEF Drive
  <2>2. th' = [th EXCEPT ![t] = IdleThread]
    <3>1. [th[t] EXCEPT !.todo = <<>>].todo = <<>>
      BY <1>1 DEF Thread
    <3>2. QED
      BY <2>1, <3>1 DEF Goto, Become
  <2>3. th'[t] = IdleThread /\ \A u \in Threads \ {t} : th'[u] = th[u]
    BY <1>1, <2>2
  <2>4. InFlight(e)' = InFlight(e)
    <3>1. \A u \in Drivers : /\ Turning(u, e)' <=> Turning(u, e)
                             /\ Turning(u, e) => th'[u].prompt = th[u].prompt
      BY <1>2, <2>3 DEF Turning, At, Threads
    <3>2. QED
      BY <3>1, InFlightKept
  <2>5. Queue(e)' = a \o Append(b, p) \o Underway(e)'
    BY <1>1, <2>1, <2>4 DEF Queue
  <2>6. CASE t = Feeder
    <3>1. Queue(e)' = a \o Append(b, p) \o <<>>
      BY <1>7, <2>3, <2>5, <2>6
    <3>2. Append(b, p) = b \o <<p>> /\ b \o <<p>> \in Seq(Prompt) /\ a \o (b \o <<p>>) \in Seq(Prompt)
      BY <1>1, <1>3, <1>8, AppendIsConcat, ConcatProperties
    <3>3. (a \o (b \o <<p>>)) \o <<>> = a \o (b \o <<p>>)
      BY <3>2, ConcatEmptySeq
    <3>4. (a \o b) \o <<p>> = a \o (b \o <<p>>)
      <4> DEFINE q == <<p>>
      <4>1. q \in Seq(Prompt)
        BY <1>8
      <4> HIDE DEF a, b, q
      <4>2. (a \o b) \o q = a \o (b \o q)
        BY <1>3, <4>1, ConcatAssociative
      <4>3. QED
        BY <4>2 DEF q
    <3>5. Queue(e)' = Queue(e)
      BY <1>3, <1>4, <2>6, <3>1, <3>2, <3>3, <3>4
    <3>6. QED
      BY <1>9, <3>5
  <2>7. CASE t # Feeder
    <3>1. th'[Feeder] = th[Feeder]
      BY <1>1, <2>3, <2>7
    <3>2. Queue(e)' = a \o Append(b, p) \o c
      BY <1>6, <2>5, <2>7, <3>1
    <3>3. RepliesIn(a \o Append(b, p) \o c) = RepliesIn(a \o b \o c)
      <4>1. p \notin Replies
        BY <1>2, <2>7
      <4> HIDE DEF a, b, c, p
      <4>2. QED
        BY <1>1, <1>3, <4>1, PromptJoins
    <3>4. QED
      BY <1>3, <1>9, <3>2, <3>3
  <2>8. QED
    BY <2>6, <2>7
<1>11. CASE ~busy[e]
  <2>1. PICK d \in Drivers : Spawn(t, d)
    BY <1>11 DEF Drive
  <2>2. pending' = pending
    BY <1>11 DEF Drive
  <2>3. /\ th'[t] = IdleThread /\ th'[d].todo = <<"turn">> /\ th'[d].on = e
        /\ th'[d].prompt = p /\ Idle(d) /\ d \in Threads /\ d # t
        /\ \A u \in Threads \ {t, d} : th'[u] = th[u]
    BY <1>1, <1>2, <2>1 DEF Spawn, IdleThread, Threads
  <2>4. \A u \in Drivers : ~Turning(u, e)
    BY <1>11 DEF IInv, SingleDriver, DriversOf, Turning, At, Idle
  <2>5. a = <<>>
    BY <2>4, NoTurn, SetToSeqOne
  <2>6. InFlight(e)' = {p}
    <3>1. \A u \in Drivers : Turning(u, e)' <=> u = d
      <4>1. Turning(d, e)'
        BY <2>3 DEF Turning, At
      <4>2. \A u \in Drivers \ {d} : Turning(u, e)' <=> Turning(u, e)
        BY <1>2, <2>3 DEF Turning, At, Threads
      <4>3. QED
        BY <2>4, <4>1, <4>2
    <3>2. InFlight(e)' = {th'[u].prompt : u \in {u \in Drivers : Turning(u, e)'}}
      BY DEF InFlight, DriversOf, Turning, At, Idle
    <3>3. QED
      BY <2>3, <3>1, <3>2
  <2>7. Queue(e)' = <<p>> \o b \o Underway(e)'
    BY <2>2, <2>6, SetToSeqOne DEF Queue
  <2>8. CASE t = Feeder
    <3> SUFFICES ASSUME interviewing(rec[e])
                 PROVE  InOrder(e)'
      BY <1>5 DEF InOrder
    <3>1. b = <<>>
      BY <1>11 DEF OInv, Drained
    <3>2. Queue(e)' = <<p>> \o <<>> \o <<>>
      BY <1>7, <2>3, <2>7, <2>8, <3>1
    <3>3. Queue(e) = <<>> \o <<>> \o <<p>>
      BY <1>3, <1>4, <2>5, <2>8, <3>1
    <3>4. <<p>> \o <<>> \o <<>> = <<p>> /\ <<>> \o <<>> \o <<p>> = <<p>>
      BY <1>8, ConcatEmptySeq
    <3>5. QED
      BY <1>9, <3>2, <3>3, <3>4
  <2>9. CASE t # Feeder
    <3>1. Underway(e)' = c
      BY <1>1, <1>2, <1>6, <2>3, <2>9, ErrandsAssumption
    <3>2. RepliesIn(<<p>> \o b \o c) = RepliesIn(<<>> \o b \o c)
      BY <1>1, <1>2, <1>3, <1>8, <2>9, PromptJoins
    <3>3. QED
      BY <1>3, <1>9, <2>5, <2>7, <3>1, <3>2
  <2>10. QED
    BY <2>8, <2>9
<1>12. QED
  BY <1>10, <1>11

LEMMA DriveOrdered ==
  ASSUME IInv, SInv, HInv, OInv, IInv', NEW t \in Threads, Drive(t)
  PROVE  OInv'
<1>1. PICK e \in Ids : th[t].on = e
  BY DEF IInv, ThreadsOK, Thread
<1>2. /\ th \in [Threads -> Thread] /\ ~Idle(t) /\ Feeder \in Threads
      /\ busy \in [Ids -> BOOLEAN] /\ pending \in [Ids -> Seq(Prompt)] /\ e \in born
  BY <1>1 DEF Drive, At, Idle, IInv, ThreadsOK, DataOK, Threads, SInv, BornOnly
<1>3. t \notin Drivers
  BY DriverRuns DEF Drive, DriverOp, At, Idle
<1>4. /\ th'[t] = IdleThread
      /\ \A u \in Threads \ ({t} \cup Drivers) : th'[u] = th[u]
      /\ \A u \in Drivers :
           th'[u] = th[u] \/ (Idle(u) /\ th'[u].todo = <<"turn">> /\ th'[u].on = e)
  <2>1. CASE Goto(t, <<>>)
    <3>1. [th[t] EXCEPT !.todo = <<>>].todo = <<>>
      BY <1>2 DEF Thread
    <3>2. th' = [th EXCEPT ![t] = IdleThread]
      BY <2>1, <3>1 DEF Goto, Become
    <3>3. QED
      BY <1>2, <1>3, <3>2 DEF Threads
  <2>2. CASE \E d \in Drivers : Spawn(t, d)
    <3>1. PICK d \in Drivers : Spawn(t, d)
      BY <2>2
    <3>2. QED
      BY <1>1, <1>2, <1>3, <3>1 DEF Spawn, IdleThread, Threads
  <2>3. QED
    BY <2>1, <2>2 DEF Drive
<1>5. /\ rec' = rec /\ born' = born /\ busy'[e] /\ asked' = asked
      /\ \A i \in Ids \ {e} : busy'[i] = busy[i] /\ pending'[i] = pending[i]
  BY <1>1, <1>2 DEF Drive, bounds, history
<1>6. \A c \in Cmds : c \in Threads \ Drivers /\ (th'[c] = th[c] \/ th'[c] = IdleThread)
  BY <1>4, ErrandsAssumption DEF Threads
<1>7. CommandsCarryNone'
  <2>1. IdleThread.prompt \notin Replies
    BY ErrandsAssumption DEF IdleThread
  <2>2. QED
    BY <1>6, <2>1 DEF OInv, CommandsCarryNone
<1>8. ApprovalsPending'
  <2>1. \A c \in Cmds, i \in Ids : Approving(c, i)' => Approving(c, i)
    <3>1. IdleThread.todo = <<>>
      BY DEF IdleThread
    <3>2. QED
      BY <1>6, <3>1 DEF Approving, At
  <2>2. QED
    BY <1>5, <2>1 DEF OInv, ApprovalsPending
<1>9. DriversOpen'
  <2>1. ASSUME NEW u \in Drivers, ~Idle(u)', interviewing(rec'[th'[u].on])
        PROVE  "failed" \notin Range(th'[u].todo) /\ Turns(th'[u].todo)
    <3>1. CASE th'[u] = th[u]
      BY <1>5, <2>1, <3>1 DEF OInv, DriversOpen, Idle
    <3>2. CASE th'[u].todo = <<"turn">>
      BY <3>2, RangeLiterals DEF Turns
    <3>3. QED
      BY <1>4, <3>1, <3>2
  <2>2. QED
    BY <2>1 DEF DriversOpen
<1>10. Drained' /\ NothingAsked'
  BY <1>2, <1>5 DEF OInv, Drained, NothingAsked
<1>11. ASSUME NEW i \in Ids
       PROVE  InOrder(i)'
  <2>1. CASE i = e
    BY <1>1, <2>1, DriveInOrder
  <2>2. CASE i # e
    <3>1. InFlight(i)' = InFlight(i)
      <4>1. \A u \in Drivers : /\ Turning(u, i)' <=> Turning(u, i)
                               /\ Turning(u, i) => th'[u].prompt = th[u].prompt
        BY <1>4, <2>2 DEF Turning, At, Idle
      <4>2. QED
        BY <4>1, InFlightKept
    <3>2. Underway(i)' = Underway(i)
      <4>1. (~Handing(i) /\ ~Handing(i)') \/ th'[Feeder] = th[Feeder]
        BY <1>1, <1>2, <1>4, <2>2, ErrandsAssumption DEF Handing, At, IdleThread
      <4>2. QED
        BY <4>1, UnderwayKept DEF Handing, At
    <3>3. Queue(i)' = Queue(i)
      BY <1>5, <2>2, <3>1, <3>2, QueueKept
    <3>4. InOrder(i)
      BY DEF OInv
    <3>5. QED
      BY <1>5, <3>3, <3>4 DEF InOrder
  <2>3. QED
    BY <2>1, <2>2
<1>12. QED
  BY <1>7, <1>8, <1>9, <1>10, <1>11 DEF OInv

\* A reply that joins the end of a queue is the last that will be asked.
LEMMA ReplyJoins ==
  ASSUME NEW s \in Seq(Replies), NEW a \in Seq(Prompt), NEW b \in Seq(Prompt), NEW m \in Replies
  PROVE  s \o RepliesIn(a \o b \o <<m>>) = Append(s \o RepliesIn(a \o b \o <<>>), m)
<1> DEFINE q == <<m>>
           o == <<>>
           v == RepliesIn(a \o b)
<1>1. m \in Prompt /\ q \in Seq(Prompt) /\ o \in Seq(Prompt) /\ q \in Seq(Replies)
  BY DEF Prompt
<1>2. RepliesIn(q) = q
  BY <1>1, RepliesInOne DEF AsReply
<1>3. a \o b \in Seq(Prompt)
  BY ConcatProperties
<1>4. v \in Seq(Replies)
  BY <1>3, RepliesInTyped
<1>5. (a \o b) \o o = a \o b
  BY <1>3, ConcatEmptySeq
<1>6. \A x \in Seq(Replies) : Append(x, m) = x \o q
  BY AppendIsConcat
<1>7. RepliesIn((a \o b) \o q) = v \o q
  <2> HIDE DEF q
  <2>1. RepliesIn((a \o b) \o q) = RepliesIn(a \o b) \o RepliesIn(q)
    BY <1>1, <1>3, RepliesInConcat
  <2>2. QED
    BY <1>2, <2>1
<1>8. (s \o v) \o q = s \o (v \o q) /\ s \o v \in Seq(Replies)
  <2> HIDE DEF v, q
  <2>1. QED
    BY <1>1, <1>4, ConcatAssociative, ConcatProperties
<1>9. Append(s \o v, m) = (s \o v) \o q
  <2> HIDE DEF v, q
  <2>1. QED
    BY <1>6, <1>8
<1>10. QED
  BY <1>5, <1>7, <1>8, <1>9

\* The prompt in front of a queue is asked next, if it is a reply.
LEMMA FrontAsked ==
  ASSUME NEW s \in Seq(Replies), NEW p \in Prompt, NEW b \in Seq(Prompt), NEW c \in Seq(Prompt)
  PROVE  s \o RepliesIn(<<p>> \o b \o c)
           = (IF p \in Replies THEN Append(s, p) ELSE s) \o RepliesIn(<<>> \o b \o c)
<1> DEFINE q == <<p>>
           o == <<>>
           v == RepliesIn(b \o c)
<1>1. q \in Seq(Prompt) /\ o \in Seq(Prompt) /\ b \o c \in Seq(Prompt)
  BY ConcatProperties
<1>2. RepliesIn(q) = AsReply(p) /\ AsReply(p) \in Seq(Replies)
  BY RepliesInOne DEF AsReply
<1>3. (IF p \in Replies THEN Append(s, p) ELSE s) = s \o AsReply(p)
  <2>1. CASE p \in Replies
    BY <2>1, AppendIsConcat DEF AsReply
  <2>2. CASE p \notin Replies
    BY <2>2, ConcatEmptySeq DEF AsReply
  <2>3. QED
    BY <2>1, <2>2
<1>4. v \in Seq(Replies)
  BY <1>1, RepliesInTyped
<1>5. o \o b = b
  BY ConcatEmptySeq
<1> HIDE DEF q, o, v
<1>6. (q \o b) \o c = q \o (b \o c)
  BY <1>1, ConcatAssociative
<1>7. RepliesIn((q \o b) \o c) = AsReply(p) \o v
  <2>1. RepliesIn(q \o (b \o c)) = RepliesIn(q) \o RepliesIn(b \o c)
    BY <1>1, RepliesInConcat
  <2>2. QED
    BY <1>2, <1>6, <2>1 DEF v
<1>8. (s \o AsReply(p)) \o v = s \o (AsReply(p) \o v)
  BY <1>2, <1>4, ConcatAssociative
<1>9. QED
  BY <1>3, <1>5, <1>7, <1>8 DEF q, o, v

-----------------------------------------------------------------------------
(* Every step of the subscribe loop. *)

LEMMA FeederNotHanding ==
  ASSUME IInv, NEW r, Become(Feeder, r), r.todo = <<>> \/ Head(r.todo) # "drive"
  PROVE  \A i : ~Handing(i)'
<1>1. th'[Feeder] = IF r.todo = <<>> THEN IdleThread ELSE r
  BY DEF IInv, ThreadsOK, Threads, Become
<1>2. IdleThread.todo = <<>>
  BY DEF IdleThread
<1>3. QED
  BY <1>1, <1>2 DEF Handing, At

LEMMA FeedOrdered ==
  ASSUME IInv, OInv, NEW m, NEW e, Feed(m, e)
  PROVE  OInv'
<1> DEFINE r == [IdleThread EXCEPT !.todo = <<"seen">>, !.on = e, !.prompt = m]
<1>1. Become(Feeder, r) /\ r.todo = <<"seen">>
  BY DEF Feed, Begin, IdleThread
<1> HIDE DEF r
<1>2. UNCHANGED <<rec, busy, pending, asked, born>>
  BY DEF Feed, bounds, history
<1>3. \A i : ~Handing(i) /\ ~Handing(i)'
  <2>1. Head(r.todo) # "drive"
    BY <1>1
  <2>2. QED
    BY <1>1, <2>1, FeederNotHanding DEF Feed, Idle, Handing, At
<1>4. \A i \in Ids : InOrder(i)'
  BY <1>1, <1>2, <1>3, FeederKeeps
<1>5. QED
  BY <1>1, <1>2, <1>4, FeederOrdered

LEMMA MarkSeenOrdered ==
  ASSUME IInv, HInv, OInv, MarkSeen(Feeder)
  PROVE  OInv'
<1>1. PICK ops \in {<<>>, <<"save", "hear", "drive">>} : Goto(Feeder, ops)
  BY DEF MarkSeen
<1> DEFINE r == [th[Feeder] EXCEPT !.todo = ops]
           x == markSeen(rec[th[Feeder].on].seen, th[Feeder].prompt)
<1>2. th[Feeder] \in Thread /\ rec \in [Ids -> Record]
  BY DEF IInv, ThreadsOK, DataOK, Threads
<1>3. Become(Feeder, r) /\ r.todo = ops
  BY <1>1, <1>2 DEF Goto, Thread
<1> HIDE DEF r
<1>4. UNCHANGED <<busy, pending, asked, born>> /\ rec' = [rec EXCEPT ![th[Feeder].on].seen = x]
  BY DEF MarkSeen, bounds, history
<1> HIDE DEF x
<1>5. \A i \in Ids : rec'[i].status = rec[i].status /\ rec'[i].heard = rec[i].heard
  BY <1>2, <1>4 DEF Record
<1>6. \A i : ~Handing(i) /\ ~Handing(i)'
  <2>1. r.todo = <<>> \/ Head(r.todo) # "drive"
    BY <1>1, <1>3
  <2>2. QED
    BY <1>3, <2>1, FeederNotHanding DEF MarkSeen, Handing, At
<1>7. \A i \in Ids : InOrder(i)'
  BY <1>3, <1>4, <1>5, <1>6, FeederKeeps
<1>8. QED
  BY <1>3, <1>4, <1>5, <1>7, FeederOrdered

\* A reply that is heard joins the end of the queue.
LEMMA HearOrdered ==
  ASSUME IInv, HInv, OInv, Hear(Feeder)
  PROVE  OInv'
<1> DEFINE m == th[Feeder].prompt
           r == [th[Feeder] EXCEPT !.todo = Rest(Feeder)]
<1>1. /\ th \in [Threads -> Thread] /\ rec \in [Ids -> Record] /\ Feeder \in Threads
      /\ asked \in [Ids -> Seq(Replies)] /\ m \in Replies /\ th[Feeder].on \in Ids
  BY DEF IInv, ThreadsOK, DataOK, Threads, Hear, At, Idle, Thread
<1>2. PICK e \in Ids : th[Feeder].on = e
  BY <1>1
<1>3. Rest(Feeder) = <<"drive">>
  BY FeederOps DEF Hear, HInv
<1>4. Become(Feeder, r) /\ r.todo = <<"drive">> /\ r.on = e /\ r.prompt = m
  BY <1>1, <1>2, <1>3 DEF Hear, Goto, Thread
<1> HIDE DEF r
<1>5. /\ th' = [th EXCEPT ![Feeder] = r]
      /\ \A u \in Drivers : th'[u] = th[u]
  BY <1>1, <1>4, ErrandsAssumption DEF Become, Threads
<1>6. UNCHANGED <<busy, pending, asked, born>>
  BY DEF Hear, bounds, history
<1>7. /\ \A i \in Ids : rec'[i].status = rec[i].status
      /\ rec'[e].heard = Append(rec[e].heard, m)
      /\ \A i \in Ids \ {e} : rec'[i].heard = rec[i].heard
  <2>1. rec' = [rec EXCEPT ![e].heard = Append(rec[e].heard, m)]
    BY <1>2 DEF Hear
  <2>2. QED
    BY <1>1, <2>1 DEF Record
<1>8. /\ \A i : ~Handing(i)
      /\ \A i : Handing(i)' <=> i = e
  <2>1. Head(th[Feeder].todo) = "hear"
    BY DEF Hear, At
  <2>2. th'[Feeder] = r
    BY <1>1, <1>5
  <2>3. r.todo # <<>> /\ Head(r.todo) = "drive"
    BY <1>4
  <2>4. \A i : ~Handing(i)
    BY <2>1 DEF Handing, At
  <2>5. \A i : Handing(i)' <=> i = e
    BY <1>4, <2>2, <2>3 DEF Handing, At
  <2>6. QED
    BY <2>4, <2>5
<1>9. InOrder(e)'
  <2> DEFINE a == SetToSeq(InFlight(e))
             b == pending[e]
  <2>1. InFlight(e)' = InFlight(e)
    <3>1. \A u \in Drivers : /\ Turning(u, e)' <=> Turning(u, e)
                             /\ Turning(u, e) => th'[u].prompt = th[u].prompt
      BY <1>5 DEF Turning, At
    <3>2. QED
      BY <3>1, InFlightKept
  <2>2. Underway(e) = <<>> /\ Underway(e)' = <<m>>
    BY <1>1, <1>4, <1>5, <1>8 DEF Underway, Handing
  <2>3. Queue(e) = a \o b \o <<>> /\ Queue(e)' = a \o b \o <<m>>
    BY <1>6, <2>1, <2>2 DEF Queue
  <2>4. a \in Seq(Prompt) /\ b \in Seq(Prompt) /\ asked[e] \in Seq(Replies)
    BY <1>1, QueueParts
  <2>5. asked[e] \o RepliesIn(a \o b \o <<m>>) = Append(asked[e] \o RepliesIn(a \o b \o <<>>), m)
    <3> HIDE DEF a, b, m
    <3>1. m \in Replies
      BY <1>1
    <3>2. QED
      BY <2>4, <3>1, ReplyJoins
  <2>6. InOrder(e)
    BY DEF OInv
  <2>7. QED
    BY <1>6, <1>7, <2>3, <2>5, <2>6 DEF InOrder, interviewing
<1>10. ASSUME NEW i \in Ids, i # e
       PROVE  InOrder(i)'
  BY <1>4, <1>6, <1>7, <1>8, <1>10, FeederKeeps
<1>11. \A i \in Ids : InOrder(i)'
  BY <1>9, <1>10
<1>12. QED
  BY <1>4, <1>6, <1>7, <1>11, FeederOrdered

LEMMA FeederSharedOrdered ==
  ASSUME IInv, HInv, OInv, Shared(Feeder), ~Drive(Feeder)
  PROVE  OInv'
<1>1. Feeder \in Threads /\ ~StoreStatus(Feeder) /\ ~CreateFails(Feeder)
  BY FeederOps DEF StoreStatus, CreateFails, HInv, Status, Threads
<1>2. /\ ~Idle(Feeder) /\ UNCHANGED <<busy, pending, born, asked>>
      /\ Head(th[Feeder].todo) \in {"save", "create", "write", "claims", "putClaims", "file", "header"}
      /\ \A i \in Ids : rec'[i].status = rec[i].status /\ rec'[i].heard = rec[i].heard
  BY <1>1, SharedGoesOn
<1>3. PICK r : Become(Feeder, r) /\ (r.todo = <<>> \/ Head(r.todo) # "drive")
  <2>1. PICK op : At(Feeder, op)
    BY <1>2 DEF At, Idle
  <2>2. op \in {"save", "write"}
    BY <1>2, <2>1, FeederOps DEF At, HInv
  <2>3. CASE op = "save"
    <3>1. \E r : Become(Feeder, r) /\ r.todo = <<"write">> \o Rest(Feeder)
      <4>1. Become(Feeder, [th[Feeder] EXCEPT !.todo = <<"write">> \o Rest(Feeder),
                                              !.snap = rec[th[Feeder].on]])
        BY <1>1, <2>1, <2>3 DEF Shared, Drive, StoreStatus, CreateFails, OpenErrand, WriteErrand,
           CollectClaims, SaveClaims, EnsureInterviewFile, WriteHeader, At
      <4>2. th[Feeder] \in Thread
        BY DEF IInv, ThreadsOK, Threads
      <4>3. [th[Feeder] EXCEPT !.todo = <<"write">> \o Rest(Feeder), !.snap = rec[th[Feeder].on]].todo
              = <<"write">> \o Rest(Feeder)
        BY <4>2 DEF Thread
      <4>4. QED
        BY <4>1, <4>3
    <3>2. <<"write">> \o Rest(Feeder) \in ToHear
      BY <2>1, <2>3, FeederOps DEF HInv
    <3>3. \A s \in ToHear : Head(s) # "drive"
      BY DEF ToHear
    <3>4. QED
      BY <3>1, <3>2, <3>3
  <2>4. CASE op = "write"
    <3>1. \E r : Become(Feeder, r) /\ r.todo = Rest(Feeder)
      <4>1. Become(Feeder, [th[Feeder] EXCEPT !.todo = Rest(Feeder), !.snap = Unborn])
        BY <1>1, <2>1, <2>4 DEF Shared, Drive, StoreStatus, CreateFails, OpenErrand, WriteErrand,
           CollectClaims, SaveClaims, EnsureInterviewFile, WriteHeader, At
      <4>2. th[Feeder] \in Thread
        BY DEF IInv, ThreadsOK, Threads
      <4>3. [th[Feeder] EXCEPT !.todo = Rest(Feeder), !.snap = Unborn].todo = Rest(Feeder)
        BY <4>2 DEF Thread
      <4>4. QED
        BY <4>1, <4>3
    <3>2. Rest(Feeder) \in ToHear
      BY <2>1, <2>4, FeederOps DEF HInv
    <3>3. \A s \in ToHear : Head(s) # "drive"
      BY DEF ToHear
    <3>4. QED
      BY <3>1, <3>2, <3>3
  <2>5. QED
    BY <2>2, <2>3, <2>4
<1>4. \A i : ~Handing(i) /\ ~Handing(i)'
  BY <1>2, <1>3, FeederNotHanding DEF Handing, At
<1>5. \A i \in Ids : InOrder(i)'
  BY <1>2, <1>3, <1>4, FeederKeeps
<1>6. QED
  BY <1>2, <1>3, <1>5, FeederOrdered

-----------------------------------------------------------------------------
(* Every step of a command. *)

\* What the only command does next.
LEMMA OnlyCommand ==
  ASSUME OneCommand, IInv, NEW c \in Cmds, NEW r, Become(c, r), r.todo = <<>> \/ Head(r.todo) # "active"
  PROVE  \A k \in Cmds, i \in Ids : ~Approving(k, i)'
<1>1. \A k \in Cmds : k = c
  BY DEF OneCommand
<1>2. th'[c] = IF r.todo = <<>> THEN IdleThread ELSE r
  BY DEF IInv, ThreadsOK, Threads, Become
<1>3. IdleThread.todo = <<>>
  BY DEF IdleThread
<1>4. ~At(c, "active")'
  BY <1>2, <1>3 DEF At
<1>5. QED
  BY <1>1, <1>4 DEF Approving

LEMMA OwnerOrdered ==
  ASSUME OneCommand, IInv, SInv, BInv, OInv, Owner
  PROVE  OInv'
<1> USE DEF bounds, history
<1>1. PICK c \in Cmds, e \in Ids :
        \/ \E auto \in BOOLEAN : startErrand(c, e, auto)
        \/ approveErrand(c, e)
        \/ rejectErrand(c, e)
        \/ reviseErrandPlan(c, e)
        \/ cancelErrand(c, e)
  BY DEF Owner
<1>2. rec \in [Ids -> Record] /\ th \in [Threads -> Thread] /\ c \in Threads
  BY DEF IInv, DataOK, ThreadsOK, Threads
<1>3. "none" \notin Replies /\ "draft" \notin Replies /\ "begin" \notin Replies
  BY ErrandsAssumption
<1>4. ASSUME NEW ops, NEW p, Begin(c, e, ops, p)
      PROVE  \E r : Become(c, r) /\ r.todo = ops /\ r.on = e /\ r.prompt = p
  <2> DEFINE r == [IdleThread EXCEPT !.todo = ops, !.on = e, !.prompt = p]
  <2>1. r.todo = ops /\ r.on = e /\ r.prompt = p
    BY DEF IdleThread
  <2>2. Become(c, r)
    BY <1>4 DEF Begin
  <2> HIDE DEF r
  <2>3. QED
    BY <2>1, <2>2
<1>5. ASSUME NEW auto \in BOOLEAN, startErrand(c, e, auto)
      PROVE  OInv'
  <2> DEFINE a == <<"create", "save", "claims">>
  <2>1. PICK b \in {<<"file", "drive">>, <<"drive">>}, p \in {"begin", "draft"} :
          Begin(c, e, a \o b, p)
    BY <1>5 DEF startErrand
  <2>2. PICK r : Become(c, r) /\ r.todo = a \o b /\ r.prompt = p
    <3> DEFINE ops == a \o b
    <3>1. Begin(c, e, ops, p)
      BY <2>1
    <3> HIDE DEF ops
    <3>2. \E r : Become(c, r) /\ r.todo = ops /\ r.prompt = p
      BY <1>4, <3>1
    <3>3. QED
      BY <3>2 DEF ops
  <2>3. a \in Seq(Op) /\ b \in Seq(Op) /\ Len(a) = 3 /\ a[1] = "create"
    <3>1. <<"file", "drive">> \in Seq(Op) /\ <<"drive">> \in Seq(Op) /\ a \in Seq(Op)
      BY DEF Op
    <3>2. QED
      BY <2>1, <3>1
  <2> HIDE DEF a
  <2>4. /\ a \o b \in Seq(Op) /\ Len(a \o b) = Len(a) + Len(b)
        /\ \A i \in 1..Len(a) + Len(b) : (a \o b)[i] = IF i <= Len(a) THEN a[i] ELSE b[i - Len(a)]
    BY <2>3, ConcatProperties
  <2>5. Head(r.todo) = "create"
    <3>1. Len(b) \in Nat
      BY <2>3, LenProperties
    <3>2. 1 \in 1..Len(a) + Len(b) /\ 1 <= Len(a)
      BY <2>3, <3>1
    <3>3. (a \o b)[1] = "create"
      BY <2>3, <2>4, <3>2
    <3>4. a \o b # <<>>
      BY <2>3, <2>4, <3>1
    <3>5. QED
      BY <2>2, <2>4, <3>3, <3>4
  <2>6. \A k \in Cmds, i \in Ids : ~Approving(k, i)'
    BY <2>2, <2>5, OnlyCommand
  <2>7. /\ e \notin born /\ born \subseteq born' /\ UNCHANGED <<busy, pending, asked>>
        /\ \A i \in Ids \ {e} : rec'[i] = rec[i]
        /\ rec'[e].heard = <<>>
    <3>1. \E s : rec' = [rec EXCEPT ![e] = [Unborn EXCEPT !.status = s, !.auto = auto]]
      BY <1>5 DEF startErrand
    <3>2. rec'[e].heard = <<>> /\ \A i \in Ids \ {e} : rec'[i] = rec[i]
      BY <1>2, <3>1 DEF Unborn
    <3>3. QED
      BY <1>5, <3>2 DEF startErrand
  <2>8. r.prompt \notin Replies
    BY <1>3, <2>2
  <2>9. \A i \in Ids : \/ /\ rec'[i].heard = rec[i].heard
                          /\ interviewing(rec'[i]) => interviewing(rec[i])
                       \/ i \notin born /\ rec'[i].heard = <<>>
    BY <2>7
  <2>10. QED
    BY <2>2, <2>6, <2>7, <2>8, <2>9, CommandOrdered
<1>6. ASSUME NEW ops, NEW p, Begin(c, e, ops, p), p \notin Replies,
             UNCHANGED <<busy, pending, asked, born>>,
             rec' = rec \/ rec' = [rec EXCEPT ![e].status = "cancelled"],
             \/ ops = <<>> \/ Head(ops) # "active"
             \/ rec' = rec /\ rec[e].status = "pending_approval"
      PROVE  OInv'
  <2>1. PICK r : Become(c, r) /\ r.todo = ops /\ r.on = e /\ r.prompt = p
    BY <1>4, <1>6
  <2>2. \A i \in Ids : /\ rec'[i].heard = rec[i].heard
                       /\ interviewing(rec'[i]) => interviewing(rec[i])
    <3>1. CASE rec' = rec
      BY <3>1
    <3>2. CASE rec' = [rec EXCEPT ![e].status = "cancelled"]
      <4>1. /\ \A i \in Ids \ {e} : rec'[i] = rec[i]
            /\ rec'[e].heard = rec[e].heard /\ rec'[e].status = "cancelled"
        BY <1>2, <3>2 DEF Record
      <4>2. QED
        BY <4>1 DEF interviewing
    <3>3. QED
      BY <1>6, <3>1, <3>2
  <2>3. \A k \in Cmds, i \in Ids : Approving(k, i)' => rec'[i].status = "pending_approval"
    <3>1. CASE ops = <<>> \/ Head(ops) # "active"
      BY <2>1, <3>1, OnlyCommand
    <3>2. CASE rec' = rec /\ rec[e].status = "pending_approval"
      <4>1. \A k \in Cmds : k = c
        BY DEF OneCommand
      <4>2. th'[c] = IF r.todo = <<>> THEN IdleThread ELSE r
        BY <1>2, <2>1 DEF Become
      <4>3. IdleThread.todo = <<>>
        BY DEF IdleThread
      <4>4. At(c, "active")' => th'[c].on = e
        BY <2>1, <4>2, <4>3 DEF At
      <4>5. QED
        BY <3>2, <4>1, <4>4 DEF Approving
    <3>3. QED
      BY <1>6, <3>1, <3>2
  <2>4. r.prompt \notin Replies /\ born \subseteq born'
    BY <1>6, <2>1
  <2>5. QED
    BY <1>6, <2>1, <2>2, <2>3, <2>4, CommandOrdered
<1>7. CASE approveErrand(c, e)
  BY <1>3, <1>6, <1>7 DEF approveErrand, pendingErrand
<1>8. CASE rejectErrand(c, e)
  <2>1. Head(SetStatus("cancelled")) # "active"
    BY DEF SetStatus
  <2>2. QED
    BY <1>3, <1>6, <1>8, <2>1 DEF rejectErrand
<1>9. CASE reviseErrandPlan(c, e)
  <2>1. Head(<<"drive">>) # "active"
    OBVIOUS
  <2>2. QED
    BY <1>3, <1>6, <1>9, <2>1 DEF reviseErrandPlan
<1>10. CASE cancelErrand(c, e)
  <2>1. Head(<<"save", "claims">>) # "active"
    OBVIOUS
  <2>2. QED
    BY <1>3, <1>6, <1>10, <2>1 DEF cancelErrand
<1>11. QED
  BY <1>1, <1>5, <1>7, <1>8, <1>9, <1>10

LEMMA CommandSharedOrdered ==
  ASSUME OneCommand, IInv, SInv, BInv, OInv, NEW c \in Cmds, Shared(c), ~Drive(c)
  PROVE  OInv'
<1>1. c \in Threads /\ th[c] \in Thread /\ rec \in [Ids -> Record] /\ th[c].prompt \notin Replies
  BY DEF IInv, ThreadsOK, DataOK, Threads, OInv, CommandsCarryNone
<1>2. ~Idle(c)
  BY <1>1, SharedGoesOn DEF StoreStatus, CreateFails, At, Idle
<1>3. "active" \notin Range(Rest(c)) /\ Rest(c) \in Seq(Op)
  BY <1>1, <1>2, FrontOp DEF BInv, CommandOK
<1>4. ASSUME NEW s \in Seq(Op), s # <<>>, "active" \notin Range(s)
      PROVE  Head(s) # "active"
  BY <1>4, RangeTail
<1>5. CASE StoreStatus(c)
  <2> DEFINE r == [th[c] EXCEPT !.todo = Rest(c)]
  <2>1. PICK s \in Status : At(c, s) /\ rec' = [rec EXCEPT ![th[c].on].status = s]
    BY <1>5 DEF StoreStatus
  <2>2. th[c].on \in Ids
    BY <1>1 DEF Thread
  <2>3. Become(c, r) /\ r.todo = Rest(c) /\ r.prompt \notin Replies
    BY <1>1, <1>5 DEF StoreStatus, Goto, Thread
  <2> HIDE DEF r
  <2>4. UNCHANGED <<busy, pending, asked, born>>
    BY <1>5 DEF StoreStatus, bounds, history
  <2>5. \A i \in Ids : rec'[i].heard = rec[i].heard
    BY <1>1, <2>1, <2>2 DEF Record
  <2>6. s # "pending_approval"
    <3>1. s \in Op
      BY <1>1, <1>2, <2>1, FrontOp, HeadTailProperties DEF At
    <3>2. QED
      BY <3>1 DEF Op, Status
  <2>7. ASSUME NEW i \in Ids, interviewing(rec'[i])
        PROVE  interviewing(rec[i])
    <3>1. CASE i = th[c].on
      <4>1. s = "active"
        BY <1>1, <2>1, <2>6, <2>7, <3>1 DEF Record, interviewing
      <4>2. rec[i].status = "pending_approval"
        BY <2>1, <3>1, <4>1 DEF OInv, ApprovalsPending, Approving
      <4>3. QED
        BY <4>2 DEF interviewing
    <3>2. CASE i # th[c].on
      BY <1>1, <2>1, <2>7, <3>2
    <3>3. QED
      BY <3>1, <3>2
  <2>8. \A k \in Cmds, i \in Ids : ~Approving(k, i)'
    BY <1>3, <1>4, <2>3, OnlyCommand
  <2>9. QED
    BY <2>3, <2>4, <2>5, <2>7, <2>8, CommandOrdered
<1>6. CASE CreateFails(c)
  <2> DEFINE r == [th[c] EXCEPT !.todo = <<>>]
  <2>1. Become(c, r) /\ r.todo = <<>> /\ r.prompt \notin Replies
    BY <1>1, <1>6 DEF CreateFails, Goto, Thread
  <2> HIDE DEF r
  <2>2. UNCHANGED <<rec, busy, pending, asked, born>>
    BY <1>6 DEF CreateFails, bounds, history
  <2>3. \A k \in Cmds, i \in Ids : ~Approving(k, i)'
    BY <2>1, OnlyCommand
  <2>4. QED
    BY <2>1, <2>2, <2>3, CommandOrdered
<1>7. CASE ~StoreStatus(c) /\ ~CreateFails(c)
  <2>1. /\ UNCHANGED <<busy, pending, born, asked>>
        /\ \E ops \in Seq(Plain) : \E r : Become(c, r) /\ SameErrand(c, r) /\ r.todo = ops \o Rest(c)
        /\ \A i \in Ids : rec'[i].status = rec[i].status /\ rec'[i].heard = rec[i].heard
    BY <1>1, <1>7, SharedGoesOn
  <2>2. PICK ops \in Seq(Plain) :
          \E r : Become(c, r) /\ SameErrand(c, r) /\ r.todo = ops \o Rest(c)
    BY <2>1
  <2>3. PICK r : Become(c, r) /\ SameErrand(c, r) /\ r.todo = ops \o Rest(c)
    BY <2>2
  <2>4. /\ ops \o Rest(c) \in Seq(Op) /\ "active" \notin Range(ops \o Rest(c))
    <3>1. ops \in Seq(Op) /\ Range(ops) \subseteq Plain
      <4>1. Plain \subseteq Op
        BY DEF Plain, Op
      <4>2. QED
        BY <4>1, SeqMonotonic, RangeOfSeq
    <3>2. Range(ops \o Rest(c)) = Range(ops) \cup Range(Rest(c)) /\ ops \o Rest(c) \in Seq(Op)
      BY <1>3, <3>1, RangeConcatenation
    <3>3. QED
      BY <1>3, <3>1, <3>2 DEF Plain
  <2>5. r.prompt \notin Replies /\ (r.todo = <<>> \/ Head(r.todo) # "active")
    BY <1>1, <1>4, <2>3, <2>4 DEF SameErrand
  <2>6. \A k \in Cmds, i \in Ids : ~Approving(k, i)'
    BY <2>3, <2>5, OnlyCommand
  <2>7. \A i \in Ids : interviewing(rec'[i]) => interviewing(rec[i])
    BY <2>1 DEF interviewing
  <2>8. QED
    BY <2>1, <2>3, <2>5, <2>6, <2>7, CommandOrdered
<1>8. QED
  BY <1>5, <1>6, <1>7

\* What a driver has to do, put together and taken apart.
LEMMA NoTurns ==
  ASSUME NEW s \in Seq(Op), "turn" \notin Range(s)
  PROVE  TurnsLate(s)
<1>1. Range(s) = {s[i] : i \in 1..Len(s)}
  BY RangeEquality
<1>2. QED
  BY <1>1 DEF TurnsLate

LEMMA TurnsLateConcat ==
  ASSUME NEW a \in Seq(Op), "turn" \notin Range(a), NEW b \in Seq(Op), TurnsLate(b)
  PROVE  TurnsLate(a \o b)
<1> DEFINE w == a \o b
<1>1. /\ Len(a) \in Nat /\ Len(b) \in Nat /\ Len(w) = Len(a) + Len(b)
      /\ \A i \in 1..Len(a) + Len(b) : w[i] = IF i <= Len(a) THEN a[i] ELSE b[i - Len(a)]
  BY ConcatProperties, LenProperties
<1> HIDE DEF w
<1>2. \A i \in 1..Len(a) : a[i] # "turn"
  <2>1. Range(a) = {a[i] : i \in 1..Len(a)}
    BY RangeEquality
  <2>2. QED
    BY <2>1
<1>3. ASSUME NEW i \in 1..Len(w), w[i] = "turn"
      PROVE  \E j \in 1..(i - 1) : w[j] = "handoff"
  <2>1. ~(i <= Len(a))
    BY <1>1, <1>2, <1>3
  <2> DEFINE k == i - Len(a)
  <2>2. k \in 1..Len(b) /\ b[k] = "turn"
    BY <1>1, <1>3, <2>1
  <2>3. PICK j \in 1..(k - 1) : b[j] = "handoff"
    BY <2>2 DEF TurnsLate
  <2>4. /\ Len(a) + j \in 1..(i - 1) /\ Len(a) + j \in 1..Len(a) + Len(b)
        /\ ~(Len(a) + j <= Len(a)) /\ (Len(a) + j) - Len(a) = j
    BY <1>1, <2>1, <2>2, <2>3
  <2>5. w[Len(a) + j] = "handoff"
    BY <1>1, <2>3, <2>4
  <2>6. QED
    BY <2>4, <2>5
<1>4. QED
  BY <1>3 DEF TurnsLate, w

\* Messages that are dropped were no hand-off.
LEMMA TurnsLateSubSeq ==
  ASSUME NEW s \in Seq(Op), NEW k \in 1..Len(s), \A i \in 1..(k - 1) : s[i] = "msg", TurnsLate(s)
  PROVE  TurnsLate(SubSeq(s, k, Len(s)))
<1> DEFINE u == SubSeq(s, k, Len(s))
<1>1. /\ u \in Seq(Op) /\ Len(u) = Len(s) - k + 1 /\ Len(s) \in Nat
      /\ \A i \in 1 .. Len(s) - k + 1 : u[i] = s[k + i - 1]
  BY SubSeqProperties
<1> HIDE DEF u
<1>2. ASSUME NEW i \in 1..Len(u), u[i] = "turn"
      PROVE  \E j \in 1..(i - 1) : u[j] = "handoff"
  <2>1. k + i - 1 \in 1..Len(s) /\ s[k + i - 1] = "turn"
    BY <1>1, <1>2
  <2>2. PICK j \in 1..((k + i - 1) - 1) : s[j] = "handoff"
    BY <2>1 DEF TurnsLate
  <2>3. ~(j \in 1..(k - 1))
    BY <2>2
  <2>4. /\ j - k + 1 \in 1..(i - 1) /\ j - k + 1 \in 1 .. Len(s) - k + 1
        /\ k + (j - k + 1) - 1 = j
    BY <1>1, <2>2, <2>3
  <2>5. u[j - k + 1] = "handoff"
    BY <1>1, <2>2, <2>4
  <2>6. QED
    BY <2>4, <2>5
<1>3. QED
  BY <1>2 DEF TurnsLate, u

\* What a live interviewer turn asks for fails nothing, and turns to the producer only.
LEMMA LiveTurns ==
  ASSUME NEW record \in BOOLEAN, NEW handoff \in BOOLEAN, NEW n \in Nat
  PROVE  LET s == Live(record, n, handoff) IN
         s \in Seq(Op) /\ "failed" \notin Range(s) /\ "apply" \notin Range(s) /\ TurnsLate(s)
<1> DEFINE r == IF record THEN <<"file", "record">> ELSE <<>>
           m == [i \in 1..n |-> "msg"]
           h == IF handoff
                  THEN <<"file", "fallback", "handoff", "save", "collected", "turn">>
                  ELSE <<"save", "next">>
<1>1. r \in Seq(Op) /\ "turn" \notin Range(r)
  <2>1. <<"file", "record">> \in Seq(Op) /\ <<>> \in Seq(Op)
    BY DEF Op
  <2>2. "turn" \notin Range(<<"file", "record">>) /\ "turn" \notin Range(<<>>)
    BY RangeLiterals
  <2>3. QED
    BY <2>1, <2>2
<1>2. m \in Seq(Op) /\ "turn" \notin Range(m)
  <2>1. m \in Seq(Op)
    BY DEF Op
  <2>2. DOMAIN m = 1..n /\ \A i \in 1..n : m[i] = "msg"
    OBVIOUS
  <2>3. "turn" \notin Range(m)
    BY <2>2 DEF Range
  <2>4. QED
    BY <2>1, <2>3
<1>3. h \in Seq(Op) /\ TurnsLate(h)
  <2>1. CASE handoff
    <3> DEFINE x == <<"file", "fallback", "handoff", "save", "collected", "turn">>
    <3>1. x \in Seq(Op) /\ Len(x) = 6
      BY DEF Op
    <3>2. x[1] # "turn" /\ x[2] # "turn" /\ x[3] = "handoff" /\ x[4] # "turn" /\ x[5] # "turn"
      OBVIOUS
    <3> HIDE DEF x
    <3>3. ASSUME NEW i \in 1..6, x[i] = "turn" PROVE i = 6
      <4>1. i = 1 \/ i = 2 \/ i = 3 \/ i = 4 \/ i = 5 \/ i = 6
        OBVIOUS
      <4>2. QED
        BY <3>2, <3>3, <4>1
    <3>4. 3 \in 1..(6 - 1)
      OBVIOUS
    <3>5. TurnsLate(x)
      BY <3>1, <3>2, <3>3, <3>4 DEF TurnsLate
    <3>6. QED
      BY <2>1, <3>1, <3>5 DEF x
  <2>2. CASE ~handoff
    <3> DEFINE x == <<"save", "next">>
    <3>1. x \in Seq(Op)
      BY DEF Op
    <3>2. "turn" \notin Range(x)
      BY RangeLiterals
    <3>3. TurnsLate(x)
      BY <3>1, <3>2, NoTurns
    <3>4. QED
      BY <2>2, <3>1, <3>3
  <2>3. QED
    BY <2>1, <2>2
<1>4. Live(record, n, handoff) = (r \o m) \o h
  BY DEF Live
<1>5. Live(record, n, handoff) \in Seq(Asked)
  BY LiveRange
<1> HIDE DEF r, m, h
<1>6. r \o m \in Seq(Op) /\ Range(r \o m) = Range(r) \cup Range(m)
  BY <1>1, <1>2, ConcatProperties, RangeConcatenation
<1>7. TurnsLate((r \o m) \o h)
  BY <1>1, <1>2, <1>3, <1>6, TurnsLateConcat
<1>8. Range(Live(record, n, handoff)) \subseteq Asked
  BY <1>5, RangeOfSeq
<1>9. (r \o m) \o h \in Seq(Op)
  BY <1>3, <1>6, ConcatProperties
<1>10. QED
  BY <1>4, <1>7, <1>8, <1>9 DEF Asked

-----------------------------------------------------------------------------
(* The steps of a driver. *)

\* It goes on with operations of its interview, if it has one.
LEMMA DriverTakesInOrder ==
  ASSUME IInv, SInv, OInv, NEW d \in Drivers, ~Idle(d), ~At(d, "turn"), NEW ops, Goto(d, ops),
         UNCHANGED <<rec, busy, pending, born, asked>>,
         interviewing(rec[th[d].on])
           => ops \in Seq(Op) /\ "failed" \notin Range(ops) /\ TurnsLate(ops)
  PROVE  OInv'
<1> DEFINE r == [th[d] EXCEPT !.todo = ops]
<1>1. th[d] \in Thread /\ th[d].on \in Ids
  BY DEF IInv, ThreadsOK, Threads, Thread
<1>2. r.todo = ops /\ r.on = th[d].on /\ Become(d, r)
  BY <1>1 DEF Goto, Thread
<1> HIDE DEF r
<1>3. PICK e \in Ids : th[d].on = e
  BY <1>1
<1>4. /\ r.on = e
      /\ \A i \in Ids : rec'[i].heard = rec[i].heard
      /\ \A i \in Ids \ {e} :
           rec'[i].status = rec[i].status /\ busy'[i] = busy[i] /\ pending'[i] = pending[i]
      /\ \A c \in Cmds : Approving(c, e) => rec'[e].status = rec[e].status
  BY <1>2, <1>3
<1>5. interviewing(rec'[e]) =>
        /\ interviewing(rec[e]) /\ pending'[e] = pending[e] /\ ~At(d, "turn")
        /\ "failed" \notin Range(r.todo) /\ TurnsLate(r.todo) /\ r.todo \in Seq(Op)
        /\ busy'[e] = busy[e]
  BY <1>2, <1>3
<1>6. QED
  BY <1>2, <1>3, <1>4, <1>5, DriverKeepsOrder

\* It goes on with the rest of what it has to do.
LEMMA DriverGoesOnInOrder ==
  ASSUME IInv, SInv, OInv, NEW d \in Drivers, ~Idle(d), ~At(d, "turn"), ~At(d, "handoff"),
         NEW ops \in Seq(Plain), Goto(d, ops \o Rest(d)), UNCHANGED <<born, asked, busy, pending>>,
         \A i \in Ids : rec'[i].heard = rec[i].heard /\ rec'[i].status = rec[i].status
  PROVE  OInv'
<1> DEFINE todo == ops \o Rest(d)
           r == [th[d] EXCEPT !.todo = todo]
<1>1. th[d] \in Thread
  BY DEF IInv, ThreadsOK, Threads
<1>2. r.todo = ops \o Rest(d) /\ r.on = th[d].on /\ Become(d, r)
  BY <1>1 DEF Goto, Thread
<1> HIDE DEF r
<1>3. QED
  BY <1>2, DriverRestsInOrder

LEMMA DriverGoesToRestInOrder ==
  ASSUME IInv, SInv, OInv, NEW d \in Drivers, ~Idle(d), ~At(d, "turn"), ~At(d, "handoff"),
         Goto(d, Rest(d)), UNCHANGED <<born, asked, busy, pending>>,
         \A i \in Ids : rec'[i].heard = rec[i].heard /\ rec'[i].status = rec[i].status
  PROVE  OInv'
<1>1. Rest(d) = <<>> \o Rest(d) /\ <<>> \in Seq(Plain)
  BY FrontOp DEF Threads
<1>2. QED
  BY <1>1, DriverGoesOnInOrder

\* A driver stores that its errand is over.
LEMMA StoreOrdered ==
  ASSUME IInv, SInv, BInv, OInv, NEW d \in Drivers, StoreStatus(d)
  PROVE  OInv'
<1> DEFINE r == [th[d] EXCEPT !.todo = Rest(d)]
<1>1. PICK s \in Status : At(d, s) /\ rec' = [rec EXCEPT ![th[d].on].status = s]
  BY DEF StoreStatus
<1>2. /\ ~Idle(d) /\ Head(th[d].todo) = s /\ DriverOK(d) /\ th[d] \in Thread /\ th[d].on \in Ids
      /\ rec \in [Ids -> Record]
      /\ Range(th[d].todo) = {s} \cup Range(Rest(d))
  BY <1>1, DriverFront
<1>3. PICK e \in Ids : th[d].on = e
  BY <1>2
<1>4. s \in {"failed", "done"}
  BY <1>2 DEF DriverOK
<1>5. rec'[e].status = s /\ \A i \in Ids \ {e} : rec'[i] = rec[i]
  BY <1>1, <1>2, <1>3 DEF Record
<1>6. \A i \in Ids : rec'[i].heard = rec[i].heard
  BY <1>1, <1>2, <1>3 DEF Record
<1>7. UNCHANGED <<busy, pending, born, asked>>
  BY DEF StoreStatus, bounds, history
<1>8. r.todo = Rest(d) /\ r.on = e /\ Become(d, r)
  BY <1>2, <1>3 DEF StoreStatus, Goto, Thread
<1> HIDE DEF r
<1>9. \A c \in Cmds : ~Approving(c, e)
  <2>1. CASE interviewing(rec[e])
    <3>1. "failed" \notin Range(th[d].todo)
      BY <1>2, <1>3, <2>1 DEF OInv, DriversOpen
    <3>2. s \in WorkOps
      BY <1>2, <1>4, <3>1 DEF WorkOps, LateOps
    <3>3. rec[e].status \notin OpenStatus
      BY <1>2, <1>3, <3>2 DEF DriverOK
    <3>4. QED
      BY <2>1, <3>3 DEF OpenStatus, interviewing
  <2>2. CASE ~interviewing(rec[e])
    BY <2>2 DEF OInv, ApprovalsPending, interviewing
  <2>3. QED
    BY <2>1, <2>2
<1>10. ~interviewing(rec'[e])
  BY <1>4, <1>5 DEF interviewing
<1>11. \A i \in Ids \ {e} :
         rec'[i].status = rec[i].status /\ busy'[i] = busy[i] /\ pending'[i] = pending[i]
  BY <1>5, <1>7
<1>12. QED
  BY <1>2, <1>3, <1>6, <1>7, <1>8, <1>9, <1>10, <1>11, DriverKeepsOrder

LEMMA DriverSharedOrdered ==
  ASSUME IInv, SInv, BInv, OInv, NEW d \in Drivers, Shared(d)
  PROVE  OInv'
<1>1. d \in Threads /\ ~Drive(d) /\ ~CreateFails(d)
  BY DriverFront DEF Threads, Drive, CreateFails, DriverOp
<1>2. CASE ~StoreStatus(d)
  <2>1. /\ ~Idle(d) /\ UNCHANGED <<busy, pending, born, asked>>
        /\ Head(th[d].todo) \in {"save", "create", "write", "claims", "putClaims", "file", "header"}
        /\ \A i \in Ids : rec'[i].status = rec[i].status /\ rec'[i].heard = rec[i].heard
    BY <1>1, <1>2, SharedGoesOn
  <2>2. PICK ops \in Seq(Plain) :
          \E r : Become(d, r) /\ SameErrand(d, r) /\ r.todo = ops \o Rest(d)
    BY <1>1, <1>2, SharedGoesOn
  <2>3. PICK r : Become(d, r) /\ SameErrand(d, r) /\ r.todo = ops \o Rest(d)
    BY <2>2
  <2>4. ~At(d, "turn") /\ ~At(d, "handoff") /\ r.on = th[d].on
    BY <2>1, <2>3 DEF At, SameErrand
  <2>5. QED
    BY <2>1, <2>3, <2>4, DriverRestsInOrder
<1>3. QED
  BY <1>2, StoreOrdered

\* The interviewer is given the prompt in front of the queue.
LEMMA TurnOrdered ==
  ASSUME IInv, SInv, BInv, OInv, NEW d \in Drivers, Turn(d)
  PROVE  OInv'
<1>1. /\ ~Idle(d) /\ th[d] \in Thread /\ th[d].on \in Ids /\ At(d, "turn")
  BY DriverFront DEF Turn
<1>2. UNCHANGED <<rec, pending, born>>
  BY DEF Turn, bounds
<1>3. PICK e \in Ids : th[d].on = e
  BY <1>1
<1> DEFINE p == th[d].prompt
           b == pending[e]
           c == Underway(e)
           s == asked[e]
<1>4. CASE /\ interviewing(rec[e]) /\ Goto(d, <<"ask">>) /\ UNCHANGED busy
           /\ asked' = [asked EXCEPT ![e] = IF p \in Replies THEN Append(@, p) ELSE @]
  <2> DEFINE r == [th[d] EXCEPT !.todo = <<"ask">>]
  <2>1. r.todo = <<"ask">> /\ r.on = e /\ Become(d, r)
    BY <1>1, <1>3, <1>4 DEF Goto, Thread
  <2> HIDE DEF r
  <2>2. r.todo \in Seq(Op) /\ Range(r.todo) = {"ask"} /\ r.todo # <<>> /\ Head(r.todo) = "ask"
    <3>1. <<"ask">> \in Seq(Op)
      BY DEF Op
    <3>2. QED
      BY <2>1, <3>1, RangeLiterals
  <2>3. "failed" \notin Range(r.todo) /\ TurnsLate(r.todo)
    BY <2>2, NoTurns
  <2>4. /\ th'[d] = r /\ Underway(e)' = c
        /\ \A u \in Drivers \ {d} : ~Turning(u, e) /\ ~Turning(u, e)'
    BY <1>1, <1>3, <2>1, <2>2, OnlyDriver
  <2>5. ~Turning(d, e)'
    BY <2>2, <2>4 DEF Turning, At
  <2>6. InFlight(e)' = {}
    <3>1. \A u \in Drivers : ~Turning(u, e)'
      BY <2>4, <2>5
    <3>2. QED
      BY <3>1 DEF InFlight, DriversOf, Turning, At, Idle
  <2>7. InFlight(e) = {p}
    BY <1>1, <1>3, OneTurn DEF Turning
  <2>8. SetToSeq(InFlight(e)) = <<p>> /\ SetToSeq(InFlight(e)') = <<>>
    BY <2>6, <2>7, SetToSeqOne
  <2>9. Queue(e) = <<p>> \o b \o c /\ Queue(e)' = <<>> \o b \o c
    BY <1>2, <2>4, <2>8 DEF Queue
  <2>10. /\ p \in Prompt /\ b \in Seq(Prompt) /\ c \in Seq(Prompt) /\ s \in Seq(Replies)
         /\ asked \in [Ids -> Seq(Replies)]
    BY <1>1, QueueParts DEF Thread, IInv, DataOK
  <2>11. asked'[e] = IF p \in Replies THEN Append(s, p) ELSE s
    BY <1>4, <2>10
  <2>12. s \o RepliesIn(<<p>> \o b \o c) = asked'[e] \o RepliesIn(<<>> \o b \o c)
    <3> HIDE DEF p, b, c, s
    <3>1. s \o RepliesIn(<<p>> \o b \o c)
            = (IF p \in Replies THEN Append(s, p) ELSE s) \o RepliesIn(<<>> \o b \o c)
      BY <2>10, FrontAsked
    <3>2. QED
      BY <2>11, <3>1
  <2>13. s \o RepliesIn(Queue(e)) = rec[e].heard
    BY <1>4 DEF OInv, InOrder
  <2>14. InOrder(e)'
    <3>1. asked'[e] \o RepliesIn(Queue(e)') = rec'[e].heard
      BY <1>2, <2>9, <2>12, <2>13
    <3>2. QED
      BY <3>1 DEF InOrder
  <2>15. busy'[e]
    BY <1>1, <1>3, <1>4 DEF IInv, SingleDriver, DriversOf
  <2>16. \A i \in Ids \ {e} :
           /\ rec'[i].status = rec[i].status /\ rec'[i].heard = rec[i].heard
           /\ busy'[i] = busy[i] /\ pending'[i] = pending[i] /\ asked'[i] = asked[i]
    BY <1>2, <1>4, <2>10
  <2>17. \A x \in Cmds : Approving(x, e) => rec'[e].status = rec[e].status
    BY <1>2
  <2>18. Turns(r.todo)
    BY <2>3 DEF Turns
  <2> HIDE DEF p, b, c, s
  <2>19. QED
    BY <1>1, <1>2, <1>3, <2>1, <2>3, <2>14, <2>15, <2>16, <2>17, <2>18, DriverOrdered
<1>5. CASE /\ rec[e].status = "producing" /\ UNCHANGED <<busy, asked>>
           /\ Become(d, [th[d] EXCEPT !.todo = <<"work">>, !.turns = @ + 1])
  <2> DEFINE n == th[d].turns + 1
             r == [th[d] EXCEPT !.todo = <<"work">>, !.turns = n]
  <2>1. r.on = e /\ Become(d, r)
    BY <1>1, <1>3, <1>5 DEF Thread
  <2> HIDE DEF r
  <2>2. ~interviewing(rec'[e])
    BY <1>2, <1>5 DEF interviewing
  <2>3. /\ \A i \in Ids : rec'[i].heard = rec[i].heard
        /\ \A i \in Ids \ {e} :
             rec'[i].status = rec[i].status /\ busy'[i] = busy[i] /\ pending'[i] = pending[i]
        /\ \A x \in Cmds : Approving(x, e) => rec'[e].status = rec[e].status
        /\ born' = born /\ asked' = asked
    BY <1>2, <1>5
  <2>4. QED
    BY <1>1, <1>3, <2>1, <2>2, <2>3, DriverKeepsOrder
<1>6. CASE ~active(rec[e]) /\ Exit(d) /\ UNCHANGED asked
  <2>1. ~interviewing(rec[e])
    BY <1>6 DEF active, interviewing
  <2>2. QED
    BY <1>1, <1>2, <1>3, <1>6, <2>1, DriverEnds
<1>7. QED
  BY <1>3, <1>4, <1>5, <1>6 DEF Turn

LEMMA AskOrdered ==
  ASSUME IInv, SInv, BInv, OInv, NEW d \in Drivers, Ask(d)
  PROVE  OInv'
<1>1. ~Idle(d) /\ ~At(d, "turn")
  BY DEF Ask, At, Idle
<1>2. UNCHANGED <<rec, busy, pending, born, asked>>
  BY DEF Ask, bounds, history
<1>3. CASE Goto(d, <<"save", "next">>)
  <2> DEFINE ops == <<"save", "next">>
  <2>1. ops \in Seq(Op) /\ Range(ops) = {"save", "next"}
    BY RangeLiterals DEF Op
  <2>2. Goto(d, ops)
    BY <1>3
  <2> HIDE DEF ops
  <2>3. "failed" \notin Range(ops) /\ TurnsLate(ops)
    BY <2>1, NoTurns
  <2>4. QED
    BY <1>1, <1>2, <2>1, <2>2, <2>3, DriverTakesInOrder
<1>4. ASSUME NEW record \in BOOLEAN, NEW handoff \in BOOLEAN, NEW n \in 0..MaxMsgs,
             Goto(d, <<"save", "apply">> \o Live(record, n, handoff))
      PROVE  OInv'
  <2> DEFINE a == <<"save", "apply">>
             b == Live(record, n, handoff)
             ops == a \o b
  <2>1. a \in Seq(Op) /\ Range(a) = {"save", "apply"}
    BY RangeLiterals DEF Op
  <2>2. b \in Seq(Op) /\ "failed" \notin Range(b) /\ TurnsLate(b)
    <3>1. n \in Nat
      BY ErrandsAssumption
    <3>2. QED
      BY <3>1, LiveTurns
  <2>3. Goto(d, ops)
    BY <1>4
  <2> HIDE DEF a, b
  <2>4. ops \in Seq(Op) /\ Range(ops) = Range(a) \cup Range(b)
    BY <2>1, <2>2, ConcatProperties, RangeConcatenation
  <2>5. TurnsLate(ops)
    BY <2>1, <2>2, TurnsLateConcat
  <2>6. "failed" \notin Range(ops)
    BY <2>1, <2>2, <2>4
  <2> HIDE DEF ops
  <2>7. QED
    BY <1>1, <1>2, <2>3, <2>4, <2>5, <2>6, DriverTakesInOrder
<1>5. QED
  BY <1>3, <1>4 DEF Ask

LEMMA ApplyOrdered ==
  ASSUME IInv, SInv, BInv, OInv, NEW d \in Drivers, Apply(d)
  PROVE  OInv'
<1>1. ~Idle(d) /\ ~At(d, "turn") /\ ~At(d, "handoff")
  BY DEF Apply, At, Idle
<1>2. UNCHANGED <<rec, busy, pending, born, asked>>
  BY DEF Apply, bounds, history
<1>3. CASE Goto(d, <<"next">>)
  <2> DEFINE ops == <<"next">>
  <2>1. ops \in Seq(Op) /\ Range(ops) = {"next"}
    BY RangeLiterals DEF Op
  <2>2. Goto(d, ops)
    BY <1>3
  <2> HIDE DEF ops
  <2>3. "failed" \notin Range(ops) /\ TurnsLate(ops)
    BY <2>1, NoTurns
  <2>4. QED
    BY <1>1, <1>2, <2>1, <2>2, <2>3, DriverTakesInOrder
<1>4. CASE Goto(d, Rest(d))
  BY <1>1, <1>2, <1>4, DriverGoesToRestInOrder
<1>5. QED
  BY <1>3, <1>4 DEF Apply

LEMMA SendMsgOrdered ==
  ASSUME IInv, SInv, BInv, OInv, NEW d \in Drivers, SendMsg(d)
  PROVE  OInv'
<1>1. /\ ~Idle(d) /\ ~At(d, "turn") /\ ~At(d, "handoff") /\ th[d].todo \in Seq(Op)
      /\ th[d].on \in Ids /\ Head(th[d].todo) = "msg"
  <2>1. ~At(d, "turn") /\ ~At(d, "handoff")
    BY DEF SendMsg, At
  <2>2. QED
    BY <2>1, DriverFront DEF SendMsg
<1>2. UNCHANGED <<rec, busy, pending, born, asked>>
  BY DEF SendMsg, bounds
<1>3. CASE Goto(d, Rest(d))
  BY <1>1, <1>2, <1>3, DriverGoesToRestInOrder
<1>4. ASSUME NEW k \in 2..Len(th[d].todo), \A i \in 1..(k - 1) : th[d].todo[i] = "msg",
             Goto(d, SubSeq(th[d].todo, k, Len(th[d].todo)))
      PROVE  OInv'
  <2> DEFINE u == SubSeq(th[d].todo, k, Len(th[d].todo))
  <2>1. k \in 1..Len(th[d].todo)
    OBVIOUS
  <2>2. u \in Seq(Op) /\ Range(u) \subseteq Range(th[d].todo)
    BY <1>1, <2>1, RangeSubSeq, SubSeqProperties
  <2>3. ASSUME interviewing(rec[th[d].on])
        PROVE  "failed" \notin Range(u) /\ TurnsLate(u)
    <3>1. "failed" \notin Range(th[d].todo) /\ Turns(th[d].todo)
      BY <1>1, <2>3 DEF OInv, DriversOpen
    <3>2. th[d].todo # <<"turn">>
      BY <1>1
    <3>3. TurnsLate(th[d].todo)
      BY <3>1, <3>2 DEF Turns
    <3>4. QED
      BY <1>1, <1>4, <2>1, <2>2, <3>1, <3>3, TurnsLateSubSeq
  <2> HIDE DEF u
  <2>4. Goto(d, u)
    BY <1>4 DEF u
  <2>5. QED
    BY <1>1, <1>2, <2>2, <2>3, <2>4, DriverTakesInOrder
<1>5. QED
  BY <1>3, <1>4 DEF SendMsg

LEMMA HandoffOrdered ==
  ASSUME IInv, SInv, BInv, OInv, NEW d \in Drivers, Handoff(d)
  PROVE  OInv'
<1> DEFINE r == [th[d] EXCEPT !.todo = Rest(d), !.prompt = "work"]
<1>1. /\ ~Idle(d) /\ Head(th[d].todo) = "handoff" /\ DriverOK(d) /\ th[d].on \in Ids
      /\ th[d] \in Thread /\ th[d].todo \in Seq(Op) /\ th[d].todo # <<>> /\ rec \in [Ids -> Record]
  BY DriverFront DEF Handoff
<1>2. PICK e \in Ids : th[d].on = e
  BY <1>1
<1>3. r.on = e /\ Become(d, r)
  BY <1>1, <1>2 DEF Handoff, Thread
<1> HIDE DEF r
<1>4. \A c \in Cmds : ~Approving(c, e)
  <2>1. Ahead(LateOps, th[d].todo)
    BY <1>1, AheadHead DEF LateOps
  <2>2. QED
    BY <1>1, <1>2, <2>1 DEF DriverOK
<1>5. /\ rec'[e].status = "producing" /\ \A i \in Ids \ {e} : rec'[i] = rec[i]
      /\ \A i \in Ids : rec'[i].heard = rec[i].heard
  BY <1>1, <1>2 DEF Handoff, Record
<1>6. \A i \in Ids \ {e} : pending'[i] = pending[i]
  BY <1>2 DEF Handoff, IInv, DataOK
<1>7. busy' = busy /\ born' = born /\ asked' = asked
  BY DEF Handoff, bounds, history
<1>8. ~interviewing(rec'[e])
  BY <1>5 DEF interviewing
<1>9. \A i \in Ids \ {e} :
        rec'[i].status = rec[i].status /\ busy'[i] = busy[i] /\ pending'[i] = pending[i]
  BY <1>5, <1>6, <1>7
<1>10. QED
  BY <1>1, <1>2, <1>3, <1>4, <1>5, <1>7, <1>8, <1>9, DriverKeepsOrder

\* The prompt that was buffered first is the next to run.
LEMMA NextPromptOrdered ==
  ASSUME IInv, SInv, BInv, OInv, NEW d \in Drivers, NextPrompt(d)
  PROVE  OInv'
<1>1. /\ ~Idle(d) /\ ~At(d, "turn") /\ th[d].on \in Ids /\ th[d] \in Thread
  <2>1. ~At(d, "turn")
    BY DEF NextPrompt, At
  <2>2. QED
    BY <2>1, DriverFront DEF NextPrompt
<1>2. UNCHANGED <<rec, born, asked>>
  BY DEF NextPrompt, bounds, history
<1>3. PICK e \in Ids : th[d].on = e
  BY <1>1
<1> DEFINE b == pending[e]
           c == Underway(e)
<1>4. CASE b # <<>>
  <2> DEFINE p == Head(b)
             r == [th[d] EXCEPT !.todo = <<"turn">>, !.prompt = p]
  <2>1. r.todo = <<"turn">> /\ r.on = e /\ r.prompt = p /\ Become(d, r) /\ UNCHANGED busy
    BY <1>1, <1>3, <1>4 DEF NextPrompt, Thread
  <2>2. /\ b \in Seq(Prompt) /\ c \in Seq(Prompt) /\ p \in Prompt /\ Tail(b) \in Seq(Prompt)
        /\ pending \in [Ids -> Seq(Prompt)]
    BY <1>4, QueueParts, HeadTailProperties DEF IInv, DataOK
  <2>3. pending' = [pending EXCEPT ![e] = Tail(@)]
    BY <1>3, <1>4 DEF NextPrompt
  <2>4. pending'[e] = Tail(b) /\ \A i \in Ids \ {e} : pending'[i] = pending[i]
    BY <2>2, <2>3
  <2> HIDE DEF r
  <2>5. Range(r.todo) = {"turn"} /\ r.todo # <<>> /\ Head(r.todo) = "turn"
    BY <2>1, RangeLiterals
  <2>6. /\ th'[d] = r /\ Underway(e)' = c
        /\ \A u \in Drivers \ {d} : ~Turning(u, e) /\ ~Turning(u, e)'
    BY <1>1, <1>3, <2>1, <2>5, OnlyDriver
  <2>7. Turning(d, e)'
    BY <2>1, <2>5, <2>6 DEF Turning, At
  <2>8. InFlight(e) = {}
    <3>1. \A u \in Drivers : ~Turning(u, e)
      BY <1>1, <2>6 DEF Turning
    <3>2. QED
      BY <3>1, NoTurn
  <2>9. InFlight(e)' = {p}
    <3>1. \A u \in Drivers : Turning(u, e)' <=> u = d
      BY <2>6, <2>7
    <3>2. InFlight(e)' = {th'[d].prompt}
      BY <3>1 DEF InFlight, DriversOf, Turning, At, Idle
    <3>3. QED
      BY <2>1, <2>6, <3>2
  <2>10. SetToSeq(InFlight(e)) = <<>> /\ SetToSeq(InFlight(e)') = <<p>>
    BY <2>8, <2>9, SetToSeqOne
  <2>11. Queue(e) = <<>> \o b \o c /\ Queue(e)' = <<p>> \o Tail(b) \o c
    BY <2>4, <2>6, <2>10 DEF Queue
  <2>12. b = <<p>> \o Tail(b)
    <3> HIDE DEF b
    <3>1. QED
      BY <1>4, <2>2, HeadTailProperties
  <2>13. <<>> \o b = b
    BY <2>2
  <2>14. Queue(e)' = Queue(e)
    BY <2>11, <2>12, <2>13
  <2>15. InOrder(e)'
    BY <1>2, <2>14 DEF OInv, InOrder
  <2>16. busy'[e]
    BY <1>1, <1>3, <2>1 DEF IInv, SingleDriver, DriversOf
  <2>17. \A i \in Ids \ {e} :
           /\ rec'[i].status = rec[i].status /\ rec'[i].heard = rec[i].heard
           /\ busy'[i] = busy[i] /\ pending'[i] = pending[i] /\ asked'[i] = asked[i]
    BY <1>2, <2>1, <2>4
  <2>18. "failed" \notin Range(r.todo) /\ Turns(r.todo)
    BY <2>1, <2>5 DEF Turns
  <2>19. \A x \in Cmds : Approving(x, e) => rec'[e].status = rec[e].status
    BY <1>2
  <2> HIDE DEF b, c, p
  <2>20. QED
    BY <1>1, <1>2, <1>3, <2>1, <2>15, <2>16, <2>17, <2>18, <2>19, DriverOrdered
<1>5. CASE b = <<>>
  <2>1. Exit(d) /\ UNCHANGED pending
    BY <1>3, <1>5 DEF NextPrompt
  <2>2. QED
    BY <1>1, <1>2, <1>3, <1>5, <2>1, DriverEnds
<1>6. QED
  BY <1>4, <1>5

\* A producer's driver has left the interview.
LEMMA WorkOrdered ==
  ASSUME IInv, SInv, BInv, OInv, NEW d \in Drivers, Work(d) \/ More(d) \/ Stop(d)
  PROVE  OInv'
<1>1. PICK op \in {"work", "more", "stop"} : At(d, op)
  BY DEF Work, More, Stop
<1>2. ~Idle(d) /\ DriverOK(d) /\ op \in Range(th[d].todo) /\ ~At(d, "turn")
  <2>1. ~At(d, "turn")
    BY <1>1 DEF At
  <2>2. QED
    BY <1>1, <2>1, DriverFront
<1>3. ~interviewing(rec[th[d].on])
  BY <1>2 DEF DriverOK, WorkOps, LateOps, OpenStatus, interviewing
<1>4. UNCHANGED <<rec, pending, born, asked>>
  BY DEF Work, More, Stop, bounds, history
<1>5. CASE Stop(d)
  <2>1. Exit(d)
    BY <1>5 DEF Stop
  <2>2. QED
    BY <1>2, <1>3, <1>4, <2>1, DriverEnds
<1>6. CASE Work(d) \/ More(d)
  <2>1. (\E ops : Goto(d, ops)) /\ UNCHANGED busy
    BY <1>6 DEF Work, More
  <2>2. QED
    BY <1>2, <1>3, <1>4, <2>1, DriverTakesInOrder
<1>7. QED
  BY <1>5, <1>6

LEMMA DeliveryOrdered ==
  ASSUME IInv, SInv, BInv, OInv, NEW d \in Drivers,
         \/ WriteRecord(d) \/ TranscriptFallback(d) \/ DeliverCollected(d) \/ SendOutputs(d)
         \/ EnsureDelivered(d)
  PROVE  OInv'
<1>1. PICK op \in {"record", "fallback", "collected", "outputs", "ensureDelivered"} : At(d, op)
  BY DEF WriteRecord, TranscriptFallback, DeliverCollected, SendOutputs, EnsureDelivered
<1>2. ~At(d, "turn") /\ ~At(d, "handoff")
  BY <1>1 DEF At
<1>3. ~Idle(d) /\ rec \in [Ids -> Record]
  BY <1>1, DriverFront
<1>4. /\ UNCHANGED <<busy, pending, born, asked>>
      /\ \E x : rec' = [rec EXCEPT ![th[d].on].delivered = x] \/ rec' = rec
  BY DEF WriteRecord, TranscriptFallback, DeliverCollected, SendOutputs, EnsureDelivered, bounds,
         history
<1>5. \A i \in Ids : rec'[i].heard = rec[i].heard /\ rec'[i].status = rec[i].status
  <2>1. PICK x : rec' = [rec EXCEPT ![th[d].on].delivered = x] \/ rec' = rec
    BY <1>4
  <2>2. \A i \in Ids : rec[i] \in Record
    BY <1>3
  <2>3. \A i \in Ids : rec'[i] = rec[i] \/ rec'[i] = [rec[i] EXCEPT !.delivered = x]
    BY <1>3, <2>1
  <2>4. QED
    BY <2>2, <2>3 DEF Record
<1>6. CASE Goto(d, Rest(d))
  BY <1>2, <1>3, <1>4, <1>5, <1>6, DriverGoesToRestInOrder
<1>7. CASE Goto(d, <<"collected">> \o Rest(d))
  <2>1. <<"collected">> \in Seq(Plain)
    BY DEF Plain
  <2>2. QED
    BY <1>2, <1>3, <1>4, <1>5, <1>7, <2>1, DriverGoesOnInOrder
<1>8. Goto(d, Rest(d)) \/ Goto(d, <<"collected">> \o Rest(d))
  BY DEF WriteRecord, TranscriptFallback, DeliverCollected, SendOutputs, EnsureDelivered
<1>9. QED
  BY <1>6, <1>7, <1>8

LEMMA InitOrdered == Init => OInv
<1> SUFFICES ASSUME Init PROVE OInv
  OBVIOUS
<1>1. \A t \in Threads : Idle(t) /\ th[t].prompt = "none"
  BY DEF Init, Idle, IdleThread
<1>2. Cmds \subseteq Threads /\ Drivers \subseteq Threads
  BY DEF Threads
<1>3. CommandsCarryNone
  BY <1>1, <1>2, ErrandsAssumption DEF CommandsCarryNone
<1>4. ApprovalsPending /\ DriversOpen
  BY <1>1, <1>2 DEF ApprovalsPending, Approving, At, Idle, DriversOpen
<1>5. Drained /\ NothingAsked
  BY DEF Init, Drained, NothingAsked
<1>6. \A e \in Ids : ~interviewing(rec[e])
  BY DEF Init, interviewing, Unborn
<1>7. QED
  BY <1>3, <1>4, <1>5, <1>6 DEF OInv, InOrder

LEMMA StepOrdered ==
  ASSUME OneCommand, Faults \cap {"backend", "panic"} = {}, MaxCrashes = 0
  PROVE  IInv /\ SInv /\ HInv /\ BInv /\ OInv /\ crashes \in Nat /\ [Next]_vars => OInv'
<1> SUFFICES ASSUME IInv, SInv, HInv, BInv, OInv, crashes \in Nat, [Next]_vars PROVE OInv'
  OBVIOUS
<1>1. IInv'
  BY StepInv
<1>2. CASE UNCHANGED vars
  <2>1. UNCHANGED <<th, rec, busy, pending, born, asked>>
    BY <1>2 DEF vars
  <2>2. CommandsCarryNone' /\ ApprovalsPending' /\ Drained' /\ NothingAsked'
    BY <2>1 DEF OInv, CommandsCarryNone, ApprovalsPending, Approving, At, Drained, NothingAsked
  <2>3. DriversOpen'
    BY <2>1 DEF OInv, DriversOpen, Idle
  <2>4. ASSUME NEW e \in Ids PROVE InOrder(e)'
    <3>1. InFlight(e)' = InFlight(e) /\ Underway(e)' = Underway(e)
      BY <2>1 DEF InFlight, DriversOf, Idle, Underway, At
    <3>2. InOrder(e)
      BY DEF OInv
    <3>3. QED
      BY <2>1, <3>1, <3>2, OrderKept
  <2>5. QED
    BY <2>2, <2>3, <2>4 DEF OInv
<1>3. CASE Owner
  BY <1>3, OwnerOrdered
<1>4. CASE MarkSeen(Feeder) \/ Hear(Feeder) \/ \E m \in Replies, e \in Ids : Feed(m, e)
  BY <1>4, FeedOrdered, MarkSeenOrdered, HearOrdered
<1>5. ASSUME NEW t \in Threads, Shared(t) PROVE OInv'
  <2>1. CASE Drive(t)
    BY <1>1, <2>1, DriveOrdered
  <2>2. CASE ~Drive(t) /\ t \in Cmds
    BY <1>5, <2>2, CommandSharedOrdered
  <2>3. CASE ~Drive(t) /\ t = Feeder
    BY <1>5, <2>3, FeederSharedOrdered
  <2>4. CASE t \in Drivers
    BY <1>5, <2>4, DriverSharedOrdered
  <2>5. QED
    BY <2>1, <2>2, <2>3, <2>4 DEF Threads
<1>6. ASSUME NEW d \in Drivers, Driver(d) PROVE OInv'
  <2>1. ~CannotRun(d)
    BY DEF CannotRun
  <2>2. QED
    BY <1>6, <2>1, TurnOrdered, AskOrdered, ApplyOrdered, SendMsgOrdered, HandoffOrdered,
       NextPromptOrdered, WorkOrdered, DeliveryOrdered DEF Driver
<1>7. \A d \in Drivers : ~Panic(d)
  BY DEF Panic
<1>8. ~Crash
  BY DEF Crash
<1>9. QED
  BY <1>2, <1>3, <1>4, <1>5, <1>6, <1>7, <1>8 DEF Next

\* Where no turn fails or panics, the process does not restart, and the owner issues one
\* command at a time, every reply is put to the interviewer once and in the order it was
\* heard, through however many drivers, buffered prompts and overlapping deliveries
\* (feedErrand, driveErrandAsync, driveErrand).
THEOREM AnsweredInOrder ==
  ASSUME OneCommand, Faults \cap {"backend", "panic"} = {}, MaxCrashes = 0
  PROVE  Spec => []RepliesInOrder
<1>1. Init => HInv /\ BInv /\ OInv
  BY InitHeard, InitBuffered, InitOrdered
<1>2. IInv /\ SInv /\ HInv /\ [Next]_vars => HInv'
  BY StepHeard
<1>3. IInv /\ SInv /\ HInv /\ BInv /\ [Next]_vars => BInv'
  BY StepBuffered
<1>4. IInv /\ SInv /\ HInv /\ BInv /\ OInv /\ crashes \in Nat /\ [Next]_vars => OInv'
  BY StepOrdered
<1>5. IInv => crashes \in Nat
  BY DEF IInv, DataOK
<1>6. OInv => RepliesInOrder
  BY DEF OInv, InOrder, RepliesInOrder
<1>7. QED
  BY <1>1, <1>2, <1>3, <1>4, <1>5, <1>6, Inductive, Silent, PTL DEF Spec

=============================================================================
