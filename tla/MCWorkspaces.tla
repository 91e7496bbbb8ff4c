----------------------------- MODULE MCWorkspaces ------------------------------
(* Small instances of Workspaces for TLC. *)
EXTENDS Workspaces, TLC

\* One root with two repositories.
CONSTANTS p1, p2, d1
MCBelow == d1 :> {p1, p2}
=============================================================================
