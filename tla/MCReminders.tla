----------------------------- MODULE MCReminders -----------------------------
(* Small instances of Reminders for TLC. *)
EXTENDS Reminders, TLC

\* Every reminder is for the one recipient.
MCRecipientOf == [id \in Ids |-> CHOOSE p \in Recipients : TRUE]

Symmetry == Permutations(Ids)
=============================================================================
