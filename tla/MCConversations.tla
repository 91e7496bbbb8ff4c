--------------------------- MODULE MCConversations ----------------------------
(* Small instances of Conversations for TLC. *)
EXTENDS Conversations, TLC

\* Every event's other party is the same contact.
MCPartyOf == [e \in Events |-> CHOOSE p \in Parties : TRUE]
=============================================================================
