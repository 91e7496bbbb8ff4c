------------------------------- MODULE Workspaces -------------------------------
(***************************************************************************)
(* The workspace registry (src/internal/workspaces, its table in            *)
(* src/internal/store/workspaces.go): the rows follow the git repositories  *)
(* found on disk below the discovery roots.  A sync reads the roots and the *)
(* hidden rows, scans the roots, writes what it found and last marks what   *)
(* it did not find, statement by statement.  Its actors:                    *)
(*                                                                          *)
(*   - Tick, the sync at start and of the "workspace-discovery" job,        *)
(*   - Socket, the sync of the `workspace sync` command,                    *)
(*   - the owner, who hides rows and changes the roots, and the disk.       *)
(*                                                                          *)
(* Nothing is locked: syncs overlap one another and the owner's commands.   *)
(* Of a row only its path, `present` and `ignored` are kept: discovery      *)
(* leaves name, cap and pin alone.                                          *)
(***************************************************************************)
EXTENDS Naturals

CONSTANTS
  Repos, Roots,
  Below,       \* [Roots -> SUBSET Repos]: the root itself and its children
  Tick, Socket,
  MaxChanges,  \* bound: what happens to the disk
  MaxCommands, \* bound: what the owner asks for
  MaxFaults    \* bound: failures and crashes

ASSUME WorkspacesAssumption ==
  /\ Below \in [Roots -> SUBSET Repos]
  /\ Tick # Socket
  /\ MaxChanges \in Nat /\ MaxCommands \in Nat /\ MaxFaults \in Nat

Syncs == {Tick, Socket}

\* A row of the table.
Row == [there : BOOLEAN, present : BOOLEAN, ignored : BOOLEAN]
Unknown == [there |-> FALSE, present |-> FALSE, ignored |-> FALSE]

\* A sync: the roots it still scans, the hidden rows as it read them, the repos of the root
\* at hand it still writes, what it wrote so far, and the rows it is about to write: the one
\* it looked up, in the end those it did not find.
Sync == [at : {"idle", "begun", "scan", "update", "insert", "absent"}, todo : SUBSET Roots,
         ignored : SUBSET Repos, found : SUBSET Repos, present : SUBSET Repos,
         rows : SUBSET Repos]
Idle == [at |-> "idle", todo |-> {}, ignored |-> {}, found |-> {}, present |-> {}, rows |-> {}]

VARIABLES
  disk,   \* the git repositories there are
  roots,  \* the setting discovery_roots
  ws,     \* the table
  sync,
  changes, commands, faults, \* bounds: so far
  since   \* history: what held at some time since a sync began

vars == <<disk, roots, ws, sync, changes, commands, faults, since>>
counts == <<changes, commands, faults>>

Hidden == {r \in Repos : ws[r].ignored}

\* What a sync that looks now finds.
BelowSome(rs) == UNION {Below[root] : root \in rs}
Visible == (disk \ Hidden) \cap BelowSome(roots)

\* History of a running sync: the roots it read and could scan; the repositories that were on
\* disk, were not, were shown, were hidden at some time.
History == [roots : SUBSET Roots, there : SUBSET Repos, missing : SUBSET Repos,
            shown : SUBSET Repos, hidden : SUBSET Repos]
Forgotten == [roots |-> {}, there |-> {}, missing |-> {}, shown |-> {}, hidden |-> {}]
FromNow == [roots |-> roots, there |-> disk, missing |-> Repos \ disk,
            shown |-> Repos \ Hidden, hidden |-> Hidden]

Init ==
  /\ disk \in SUBSET Repos /\ roots \in SUBSET Roots
  /\ ws = [r \in Repos |-> Unknown]
  /\ sync = [p \in Syncs |-> Idle]
  /\ changes = 0 /\ commands = 0 /\ faults = 0
  /\ since = [p \in Syncs |-> Forgotten]

-----------------------------------------------------------------------------
(* Around the syncs. *)

Running == {p \in Syncs : sync[p].at # "idle"}
Watch ==
  since' = [p \in Syncs |->
              IF p \in Running
              THEN [since[p] EXCEPT !.there = @ \cup disk', !.missing = @ \cup (Repos \ disk'),
                                    !.shown = @ \cup (Repos \ Hidden'), !.hidden = @ \cup Hidden']
              ELSE since[p]]

\* A repo is cloned or removed.
DiskChanges(r) ==
  /\ changes < MaxChanges /\ changes' = changes + 1
  /\ disk' = IF r \in disk THEN disk \ {r} ELSE disk \cup {r}
  /\ UNCHANGED <<roots, ws, sync, commands, faults>> /\ Watch

Command == commands < MaxCommands /\ commands' = commands + 1

SetRoots(rs) ==
  /\ Command /\ roots' = rs
  /\ UNCHANGED <<disk, ws, sync, changes, faults, since>>

\* `workspace ignore` and `unignore` name an existing row.
SetIgnored(r) ==
  /\ ws[r].there /\ Command
  /\ ws' = [ws EXCEPT ![r].ignored = ~@]
  /\ UNCHANGED <<disk, roots, sync, changes, faults>> /\ Watch

Fault == faults < MaxFaults /\ faults' = faults + 1

\* The agent dies and starts again; what a sync had found is lost.
Crash ==
  /\ Running # {} /\ Fault
  /\ sync' = [p \in Syncs |-> Idle] /\ since' = [p \in Syncs |-> Forgotten]
  /\ UNCHANGED <<disk, roots, ws, changes, commands>>

-----------------------------------------------------------------------------
(* Registry.Sync. *)

BeginSync(p) ==
  /\ sync[p].at = "idle"
  /\ IF p = Socket THEN Command ELSE UNCHANGED commands
  /\ sync' = [sync EXCEPT ![p] = [Idle EXCEPT !.at = "begun", !.todo = roots]]
  /\ since' = [since EXCEPT ![p] = FromNow]
  /\ UNCHANGED <<disk, roots, ws, changes, faults>>

ReadIgnored(p) ==
  /\ sync[p].at = "begun"
  /\ sync' = [sync EXCEPT ![p].at = "scan", ![p].ignored = Hidden]
  /\ UNCHANGED <<disk, roots, ws, counts, since>>

\* One root is scanned when the repos of the one before are written.
Scanning(p, root) == sync[p].at = "scan" /\ sync[p].found = {} /\ root \in sync[p].todo
\* Mutant: hidden repositories are written again.
findGitRepos_Hidden(p, root) ==
  /\ Scanning(p, root)
  /\ sync' = [sync EXCEPT ![p].todo = @ \ {root}, ![p].found = disk \cap Below[root]]
  /\ UNCHANGED <<disk, roots, ws, counts, since>>

findGitRepos(p, root) ==
  /\ Scanning(p, root)
  /\ sync' = [sync EXCEPT ![p].todo = @ \ {root}, ![p].found = (disk \cap Below[root]) \ sync[p].ignored]
  /\ UNCHANGED <<disk, roots, ws, counts, since>>

\* A root that cannot be read is passed over, its own repository with it.
Unreadable(p, root) ==
  /\ Scanning(p, root) /\ Fault
  /\ sync' = [sync EXCEPT ![p].todo = @ \ {root}]
  /\ since' = [since EXCEPT ![p].roots = @ \ {root}]
  /\ UNCHANGED <<disk, roots, ws, changes, commands>>

\* UpsertDiscovered asks for the row, then updates it or inserts one.
GetWorkspaceByPath(p, r) ==
  /\ sync[p].at = "scan" /\ r \in sync[p].found
  /\ sync' = [sync EXCEPT ![p].at = IF ws[r].there THEN "update" ELSE "insert",
                          ![p].found = @ \ {r}, ![p].rows = {r}]
  /\ UNCHANGED <<disk, roots, ws, counts, since>>

Wrote(p) == sync' = [sync EXCEPT ![p].at = "scan", ![p].rows = {},
                                 ![p].present = @ \cup sync[p].rows]

\* Mutant: a known row is left as it is.
Update_Leaves(p) ==
  /\ sync[p].at = "update" /\ Wrote(p)
  /\ UNCHANGED <<disk, roots, ws, counts, since>>

Update(p) ==
  /\ sync[p].at = "update" /\ Wrote(p)
  /\ ws' = [r \in Repos |-> IF r \in sync[p].rows THEN [ws[r] EXCEPT !.present = TRUE] ELSE ws[r]]
  /\ UNCHANGED <<disk, roots, counts, since>>
Insert(p) ==
  /\ sync[p].at = "insert" /\ \A r \in sync[p].rows : ~ws[r].there
  /\ Wrote(p)
  /\ ws' = [r \in Repos |-> IF r \in sync[p].rows THEN [Unknown EXCEPT !.there = TRUE, !.present = TRUE]
                            ELSE ws[r]]
  /\ UNCHANGED <<disk, roots, counts, since>>

\* The sync is over and forgets what it found.
Return(p) ==
  /\ sync' = [sync EXCEPT ![p] = Idle]
  /\ since' = [since EXCEPT ![p] = Forgotten]
  /\ UNCHANGED <<disk, roots, ws>>

\* The other sync inserted the row meanwhile: paths are unique, the whole sync fails.
Conflict(p) ==
  /\ sync[p].at = "insert" /\ \E r \in sync[p].rows : ws[r].there
  /\ Return(p) /\ UNCHANGED counts

\* A statement fails, and with it the sync; what it wrote stays.
StoreFails(p) == sync[p].at # "idle" /\ Fault /\ Return(p) /\ UNCHANGED <<changes, commands>>

\* MarkAbsent lists the present rows first and then marks them one by one.
ListGone(p) ==
  /\ sync[p].at = "scan" /\ sync[p].todo = {} /\ sync[p].found = {}
  /\ sync' = [sync EXCEPT ![p].at = "absent",
                          ![p].rows = {r \in Repos : ws[r].present} \ sync[p].present]
  /\ UNCHANGED <<disk, roots, ws, counts, since>>
MarkAbsent(p, r) ==
  /\ sync[p].at = "absent" /\ r \in sync[p].rows
  /\ ws' = [ws EXCEPT ![r].present = FALSE]
  /\ sync' = [sync EXCEPT ![p].rows = @ \ {r}]
  /\ UNCHANGED <<disk, roots, counts, since>>
Done(p) == sync[p].at = "absent" /\ sync[p].rows = {} /\ Return(p) /\ UNCHANGED counts

-----------------------------------------------------------------------------
Steps(p) ==
  \/ ReadIgnored(p)
  \/ \E root \in Roots : findGitRepos(p, root)
  \/ \E r \in Repos : GetWorkspaceByPath(p, r) \/ MarkAbsent(p, r)
  \/ Update(p) \/ Insert(p) \/ Conflict(p) \/ ListGone(p) \/ Done(p)

Next ==
  \/ \E r \in Repos : DiskChanges(r) \/ SetIgnored(r)
  \/ \E rs \in SUBSET Roots : SetRoots(rs)
  \/ \E p \in Syncs : BeginSync(p) \/ Steps(p) \/ StoreFails(p) \/ \E root \in Roots : Unreadable(p, root)
  \/ Crash

Spec == Init /\ [][Next]_vars

\* The scheduler comes round to the job, and a sync that runs goes on.
Fairness == WF_vars(BeginSync(Tick)) /\ \A p \in Syncs : WF_vars(Steps(p))
FairSpec == Spec /\ Fairness

-----------------------------------------------------------------------------
(* Properties. *)

\* Every variable keeps to its values; only rows that exist are present or hidden.
TypeOK ==
  /\ disk \subseteq Repos /\ roots \subseteq Roots
  /\ ws \in [Repos -> Row] /\ \A r \in Repos : ws[r].present \/ ws[r].ignored => ws[r].there
  /\ sync \in [Syncs -> Sync]
  /\ changes \in Nat /\ commands \in Nat /\ faults \in Nat
  /\ since \in [Syncs -> History]

\* What a sync concludes was so since it began: it writes as present only repositories below
\* its roots that were on disk at some time and not hidden at some time, and marks as absent
\* only rows that were not on disk or hidden at some time or are below no root it could read.
\* However syncs, commands and the disk interleave ("derive-from-ground-truth").
SyncSeesTruth ==
  \A p \in Syncs :
    /\ sync[p].present \subseteq since[p].there \cap since[p].shown \cap BelowSome(since[p].roots)
    /\ sync[p].at = "absent" =>
         sync[p].rows \cap BelowSome(since[p].roots) \subseteq since[p].missing \cup since[p].hidden

\* Once disk, roots and hidden rows are left alone, the table comes to show exactly what is
\* there, and goes on to: what overlapping syncs, failures and crashes left wrong does not
\* stay ("the list can't drift from what's actually there").
PresentSettles == <>[](\A r \in Repos : ws[r].present <=> r \in Visible)
=============================================================================
