------------------------------- MODULE MCTriage --------------------------------
(* Small instances of Triage for TLC. *)
EXTENDS Triage, TLC

\* Every message comes in a chat of its own, one of them by another transport.
CONSTANTS m1, m2, c1, c2, t1, t2
MCChatOf == (m1 :> c1) @@ (m2 :> c2)
MCVia == (c1 :> t1) @@ (c2 :> t2)

\* A saved group listens to one transport.
MCSources == {{t1}}
=============================================================================
