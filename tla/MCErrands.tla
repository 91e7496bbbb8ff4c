------------------------------ MODULE MCErrands ------------------------------
(* Small instances of Errands for TLC. *)
EXTENDS Errands, TLC

\* One contact: every errand of an instance, and every reply, is in one chat.
MCContactOf == [e \in Ids |-> CHOOSE c \in Contacts : TRUE]
MCFrom == [m \in Replies |-> CHOOSE c \in Contacts : TRUE]

\* Command goroutines are alike, drivers are alike, and every reply comes from the
\* one contact (safety runs only).
Goroutines == Permutations(Cmds) \cup Permutations(Drivers) \cup Permutations(Replies)
=============================================================================
