----------------------------- MODULE MCScheduler ------------------------------
(* A day of three hours; a tick of agentd's three kinds of job. *)
EXTENDS Scheduler

MCKind == <<"interval", "daily", "once">>
MCWhen == <<2, 2, 2>>
MCDay == [t \in Times |-> 1 + (t \div 3)]
MCHour == [t \in Times |-> 1 + (t % 3)]
=============================================================================
