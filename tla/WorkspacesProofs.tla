---------------------------- MODULE WorkspacesProofs ----------------------------
(* Theorems about Workspaces, for every value of its constants. *)
EXTENDS Workspaces, TLAPS

\* A running sync is told of all that changes: its history covers what is so now.
Watched(p) ==
  sync[p].at # "idle" =>
    /\ disk \subseteq since[p].there /\ Repos \ disk \subseteq since[p].missing
    /\ Repos \ Hidden \subseteq since[p].shown /\ Hidden \subseteq since[p].hidden
    /\ sync[p].todo \subseteq since[p].roots

\* What is below the roots a sync is done with.
Scanned(p) == BelowSome(since[p].roots \ sync[p].todo)

\* The row a sync looked up and has not written yet.
AtHand(p) == {r \in sync[p].rows : sync[p].at \in {"update", "insert"}}

\* What a sync writes was below a root it scanned, on disk and not hidden; it leaves nothing
\* out but what was missing or hidden.
Accounts(p) ==
  LET handled == sync[p].found \cup AtHand(p) \cup sync[p].present IN
  /\ handled \subseteq since[p].there \cap since[p].shown \cap Scanned(p)
  /\ sync[p].at \notin {"idle", "begun"} =>
       Repos \ sync[p].ignored \subseteq since[p].shown /\ sync[p].ignored \subseteq since[p].hidden
  /\ sync[p].at # "absent" => Scanned(p) \subseteq handled \cup since[p].missing \cup since[p].hidden
  /\ sync[p].at = "absent" =>
       /\ sync[p].todo = {}
       /\ sync[p].rows \cap Scanned(p) \subseteq since[p].missing \cup since[p].hidden
  /\ sync[p].at = "update" => \A r \in sync[p].rows : ws[r].there

\* A sync that does not run remembers nothing.
AtRest(p) == sync[p].at = "idle" => sync[p] = Idle /\ since[p] = Forgotten

SyncOK(p) == Watched(p) /\ Accounts(p) /\ AtRest(p)
Each == \A p \in Syncs : SyncOK(p)
IInv == TypeOK /\ Each

-----------------------------------------------------------------------------
(* Types. *)

LEMMA IdleTyped == Idle \in Sync /\ Forgotten \in History /\ Unknown \in Row
BY DEF Idle, Sync, Forgotten, History, Unknown, Row

LEMMA WatchTyped ==
  ASSUME TypeOK, disk' \subseteq Repos, Watch
  PROVE  since' \in [Syncs -> History]
<1>1. Hidden' \subseteq Repos
  BY DEF Hidden
<1>2. ASSUME NEW p \in Syncs
      PROVE  [since[p] EXCEPT !.there = @ \cup disk', !.missing = @ \cup (Repos \ disk'),
                !.shown = @ \cup (Repos \ Hidden'), !.hidden = @ \cup Hidden'] \in History
  BY <1>1 DEF TypeOK, History
<1>3. QED
  BY <1>2 DEF TypeOK, Watch

LEMMA AroundTyped ==
  ASSUME TypeOK,
         \/ \E r \in Repos : DiskChanges(r) \/ SetIgnored(r)
         \/ \E rs \in SUBSET Roots : SetRoots(rs)
         \/ Crash
  PROVE  TypeOK'
<1> USE DEF TypeOK
<1>1. ASSUME NEW r \in Repos, DiskChanges(r) PROVE TypeOK'
  BY <1>1, WatchTyped DEF DiskChanges
<1>2. ASSUME NEW r \in Repos, SetIgnored(r) PROVE TypeOK'
  <2>1. ws[r].there /\ ws' = [ws EXCEPT ![r].ignored = ~@]
    BY <1>2 DEF SetIgnored
  <2>2. ws' \in [Repos -> Row]
    BY <2>1 DEF Row
  <2>3. \A q \in Repos : ws'[q].present \/ ws'[q].ignored => ws'[q].there
    BY <2>1 DEF Row
  <2>4. since' \in [Syncs -> History]
    BY <1>2, WatchTyped DEF SetIgnored
  <2>5. QED
    BY <1>2, <2>2, <2>3, <2>4 DEF SetIgnored, Command
<1>3. ASSUME NEW rs \in SUBSET Roots, SetRoots(rs) PROVE TypeOK'
  BY <1>3 DEF SetRoots, Command
<1>4. CASE Crash
  BY <1>4, IdleTyped DEF Crash, Fault
<1>5. QED
  BY <1>1, <1>2, <1>3, <1>4

LEMMA ReturnTyped ==
  ASSUME TypeOK, NEW p \in Syncs, Conflict(p) \/ StoreFails(p) \/ Done(p)
  PROVE  TypeOK'
BY IdleTyped DEF TypeOK, Conflict, StoreFails, Done, Return, Fault, counts

LEMMA WroteTyped ==
  ASSUME TypeOK, NEW p \in Syncs, Wrote(p)
  PROVE  sync' \in [Syncs -> Sync]
<1> DEFINE s == [sync[p] EXCEPT !.at = "scan", !.rows = {}, !.present = @ \cup sync[p].rows]
<1>1. s \in Sync
  BY DEF TypeOK, Sync
<1>2. sync' = [sync EXCEPT ![p] = s]
  BY DEF TypeOK, Wrote
<1>3. QED
  BY <1>1, <1>2 DEF TypeOK

LEMMA SyncTyped ==
  ASSUME TypeOK, Each, NEW p \in Syncs,
         \/ BeginSync(p) \/ Steps(p) \/ StoreFails(p)
         \/ \E root \in Roots : Unreadable(p, root)
  PROVE  TypeOK'
<1> USE DEF TypeOK, counts
<1>1. CASE BeginSync(p)
  <2>1. FromNow \in History
    BY DEF FromNow, History, Hidden
  <2>2. [Idle EXCEPT !.at = "begun", !.todo = roots] \in Sync
    BY DEF Idle, Sync
  <2>3. QED
    BY <1>1, <2>1, <2>2 DEF BeginSync, Command
<1>2. CASE ReadIgnored(p)
  <2>1. [sync[p] EXCEPT !.at = "scan", !.ignored = Hidden] \in Sync
    BY DEF Sync, Hidden
  <2>2. sync' = [sync EXCEPT ![p] = [sync[p] EXCEPT !.at = "scan", !.ignored = Hidden]]
    BY <1>2 DEF ReadIgnored
  <2>3. sync' \in [Syncs -> Sync]
    BY <2>1, <2>2
  <2>4. QED
    BY <1>2, <2>3 DEF ReadIgnored
<1>3. ASSUME NEW root \in Roots, findGitRepos(p, root) PROVE TypeOK'
  <2>1. [sync[p] EXCEPT !.todo = @ \ {root}, !.found = (disk \cap Below[root]) \ sync[p].ignored] \in Sync
    BY DEF Sync, Hidden
  <2>2. sync' = [sync EXCEPT ![p] = [sync[p] EXCEPT !.todo = @ \ {root}, !.found = (disk \cap Below[root]) \ sync[p].ignored]]
    BY <1>3 DEF findGitRepos, Scanning
  <2>3. sync' \in [Syncs -> Sync]
    BY <2>1, <2>2
  <2>4. QED
    BY <1>3, <2>3 DEF findGitRepos, Scanning
<1>4. ASSUME NEW root \in Roots, Unreadable(p, root) PROVE TypeOK'
  <2>1. since' \in [Syncs -> History]
    <3>1. [since[p] EXCEPT !.roots = @ \ {root}] \in History
      BY DEF History
    <3>2. since' = [since EXCEPT ![p] = [since[p] EXCEPT !.roots = @ \ {root}]]
      BY <1>4 DEF Unreadable
    <3>3. QED
      BY <3>1, <3>2
  <2>2. sync' \in [Syncs -> Sync]
    <3>1. [sync[p] EXCEPT !.todo = @ \ {root}] \in Sync
      BY DEF Sync
    <3>2. sync' = [sync EXCEPT ![p] = [sync[p] EXCEPT !.todo = @ \ {root}]]
      BY <1>4 DEF Unreadable
    <3>3. QED
      BY <3>1, <3>2
  <2>3. QED
    BY <1>4, <2>1, <2>2 DEF Unreadable, Fault
<1>5. ASSUME NEW r \in Repos, GetWorkspaceByPath(p, r) PROVE TypeOK'
  <2>1. [sync[p] EXCEPT !.at = IF ws[r].there THEN "update" ELSE "insert", !.found = @ \ {r}, !.rows = {r}] \in Sync
    BY DEF Sync, Hidden
  <2>2. sync' = [sync EXCEPT ![p] = [sync[p] EXCEPT !.at = IF ws[r].there THEN "update" ELSE "insert", !.found = @ \ {r}, !.rows = {r}]]
    BY <1>5 DEF GetWorkspaceByPath
  <2>3. sync' \in [Syncs -> Sync]
    BY <2>1, <2>2
  <2>4. QED
    BY <1>5, <2>3 DEF GetWorkspaceByPath
<1>6. CASE Update(p)
  <2>1. \A r \in sync[p].rows : ws[r].there
    BY <1>6 DEF Update, Each, SyncOK, Accounts
  <2>2. ws' = [r \in Repos |-> IF r \in sync[p].rows THEN [ws[r] EXCEPT !.present = TRUE] ELSE ws[r]]
    BY <1>6 DEF Update
  <2>3. \A r \in Repos : [ws[r] EXCEPT !.present = TRUE] \in Row
    BY DEF Row
  <2>4. ws' \in [Repos -> Row]
    BY <2>2, <2>3
  <2>5. \A r \in Repos : ws'[r].present \/ ws'[r].ignored => ws'[r].there
    BY <2>1, <2>2 DEF Row
  <2>6. QED
    BY <1>6, <2>4, <2>5, WroteTyped DEF Update
<1>7. CASE Insert(p)
  <2>1. ws' = [r \in Repos |-> IF r \in sync[p].rows
                              THEN [Unknown EXCEPT !.there = TRUE, !.present = TRUE] ELSE ws[r]]
    BY <1>7 DEF Insert
  <2>2. [Unknown EXCEPT !.there = TRUE, !.present = TRUE] \in Row
    BY DEF Unknown, Row
  <2>3. ws' \in [Repos -> Row]
    BY <2>1, <2>2
  <2>4. \A r \in Repos : ws'[r].present \/ ws'[r].ignored => ws'[r].there
    BY <2>1 DEF Unknown
  <2>5. QED
    BY <1>7, <2>3, <2>4, WroteTyped DEF Insert
<1>8. CASE ListGone(p)
  <2>1. [sync[p] EXCEPT !.at = "absent", !.rows = {r \in Repos : ws[r].present} \ sync[p].present] \in Sync
    BY DEF Sync, Hidden
  <2>2. sync' = [sync EXCEPT ![p] = [sync[p] EXCEPT !.at = "absent", !.rows = {r \in Repos : ws[r].present} \ sync[p].present]]
    BY <1>8 DEF ListGone
  <2>3. sync' \in [Syncs -> Sync]
    BY <2>1, <2>2
  <2>4. QED
    BY <1>8, <2>3 DEF ListGone
<1>9. ASSUME NEW r \in Repos, MarkAbsent(p, r) PROVE TypeOK'
  <2>1. [sync[p] EXCEPT !.rows = @ \ {r}] \in Sync
    BY DEF Sync
  <2>2. /\ sync' = [sync EXCEPT ![p] = [sync[p] EXCEPT !.rows = @ \ {r}]]
        /\ ws' = [ws EXCEPT ![r].present = FALSE]
    BY <1>9 DEF MarkAbsent
  <2>3. sync' \in [Syncs -> Sync]
    BY <2>1, <2>2
  <2>4. ws' \in [Repos -> Row]
    BY <2>2 DEF Row
  <2>5. \A q \in Repos : ws'[q].present \/ ws'[q].ignored => ws'[q].there
    BY <2>2 DEF Row
  <2>6. QED
    BY <1>9, <2>3, <2>4, <2>5 DEF MarkAbsent
<1>10. QED
  BY <1>1, <1>2, <1>3, <1>4, <1>5, <1>6, <1>7, <1>8, <1>9, ReturnTyped DEF Steps

-----------------------------------------------------------------------------
(* What a sync knows. *)

\* A sync is as it was when neither it, nor the disk, nor what is hidden changes.
LEMMA Kept ==
  ASSUME NEW p \in Syncs, SyncOK(p), sync'[p] = sync[p], since'[p] = since[p],
         TypeOK, disk' = disk, Hidden' = Hidden,
         \A r \in Repos : ws[r].there => ws'[r].there
  PROVE  SyncOK(p)'
<1>1. Watched(p)' /\ AtRest(p)'
  BY DEF SyncOK, Watched, AtRest
<1>2. Scanned(p)' = Scanned(p) /\ AtHand(p)' = AtHand(p)
  BY DEF Scanned, AtHand, BelowSome
<1>3. sync[p].at = "update" => \A r \in sync[p].rows : ws'[r].there
  BY DEF SyncOK, Accounts, TypeOK, Sync
<1>4. Accounts(p)'
  BY <1>2, <1>3 DEF SyncOK, Accounts
<1>5. QED
  BY <1>1, <1>4 DEF SyncOK

\* What changes on disk or is hidden or shown goes into every history.
LEMMA WatchKeeps ==
  ASSUME TypeOK, Each, Watch, UNCHANGED sync,
         \A r \in Repos : ws[r].there => ws'[r].there
  PROVE  Each'
<1> SUFFICES ASSUME NEW p \in Syncs PROVE SyncOK(p)'
  BY DEF Each
<1> DEFINE h == since[p]
<1>1. SyncOK(p)
  BY DEF Each
<1>2. CASE sync[p].at = "idle"
  <2>1. since'[p] = since[p]
    BY <1>2 DEF Watch, Running
  <2>2. Scanned(p)' = Scanned(p) /\ AtHand(p)' = AtHand(p)
    BY <2>1 DEF Scanned, AtHand, BelowSome
  <2>3. QED
    BY <1>1, <1>2, <2>1, <2>2 DEF SyncOK, Watched, Accounts, AtRest
<1>3. CASE sync[p].at # "idle"
  <2>1. since'[p] = [since[p] EXCEPT !.there = @ \cup disk', !.missing = @ \cup (Repos \ disk'),
                                     !.shown = @ \cup (Repos \ Hidden'), !.hidden = @ \cup Hidden']
    BY <1>3 DEF Watch, Running
  <2>2. since[p] \in History
    BY DEF TypeOK
  <2>3. /\ since'[p].roots = h.roots
        /\ since'[p].there = h.there \cup disk' /\ since'[p].missing = h.missing \cup (Repos \ disk')
        /\ since'[p].shown = h.shown \cup (Repos \ Hidden') /\ since'[p].hidden = h.hidden \cup Hidden'
    BY <2>1, <2>2 DEF History
  <2>4. Scanned(p)' = Scanned(p) /\ AtHand(p)' = AtHand(p)
    BY <2>3 DEF Scanned, AtHand, BelowSome
  <2>5. Watched(p)'
    BY <1>1, <1>3, <2>3 DEF SyncOK, Watched
  <2>6. sync[p].at = "update" => \A r \in sync[p].rows : ws'[r].there
    BY <1>1 DEF SyncOK, Accounts, TypeOK, Sync
  <2>7. Accounts(p)'
    BY <1>1, <2>3, <2>4, <2>6 DEF SyncOK, Accounts
  <2>8. QED
    BY <1>3, <2>5, <2>7 DEF SyncOK, AtRest
<1>4. QED
  BY <1>2, <1>3

LEMMA AroundKeeps ==
  ASSUME TypeOK, Each,
         \/ \E r \in Repos : DiskChanges(r) \/ SetIgnored(r)
         \/ \E rs \in SUBSET Roots : SetRoots(rs)
         \/ Crash
  PROVE  Each'
<1>1. ASSUME NEW r \in Repos, DiskChanges(r) PROVE Each'
  BY <1>1, WatchKeeps DEF DiskChanges
<1>2. ASSUME NEW r \in Repos, SetIgnored(r) PROVE Each'
  BY <1>2, WatchKeeps DEF SetIgnored, TypeOK, Row
<1>3. ASSUME NEW rs \in SUBSET Roots, SetRoots(rs) PROVE Each'
  BY <1>3, Kept DEF SetRoots, Each, Hidden
<1>4. CASE Crash
  <2> SUFFICES ASSUME NEW p \in Syncs PROVE SyncOK(p)'
    BY DEF Each
  <2>1. sync'[p] = Idle /\ since'[p] = Forgotten
    BY <1>4 DEF Crash
  <2>2. Scanned(p)' = {} /\ AtHand(p)' = {}
    BY <2>1 DEF Scanned, AtHand, BelowSome, Idle, Forgotten
  <2>3. QED
    BY <2>1, <2>2 DEF SyncOK, Watched, Accounts, AtRest, Idle, Forgotten
<1>5. QED
  BY <1>1, <1>2, <1>3, <1>4

\* The syncs that do not take the step are as they were.
LEMMA OthersKept ==
  ASSUME TypeOK, Each, NEW p \in Syncs, UNCHANGED disk, Hidden' = Hidden,
         \A q \in Syncs \ {p} : sync'[q] = sync[q] /\ since'[q] = since[q],
         \A r \in Repos : ws[r].there => ws'[r].there,
         SyncOK(p)'
  PROVE  Each'
<1> SUFFICES ASSUME NEW q \in Syncs PROVE SyncOK(q)'
  BY DEF Each
<1>1. CASE q = p
  BY <1>1
<1>2. CASE q # p
  BY <1>2, Kept DEF Each
<1>3. QED
  BY <1>1, <1>2

LEMMA SyncKeeps ==
  ASSUME TypeOK, Each, NEW p \in Syncs,
         \/ BeginSync(p) \/ Steps(p) \/ StoreFails(p)
         \/ \E root \in Roots : Unreadable(p, root)
  PROVE  Each'
<1> DEFINE s == sync[p]
           h == since[p]
<1>0. SyncOK(p) /\ s \in Sync /\ h \in History
  BY DEF Each, TypeOK
<1>1. CASE BeginSync(p)
  <2>1. /\ sync' = [sync EXCEPT ![p] = [Idle EXCEPT !.at = "begun", !.todo = roots]]
        /\ since' = [since EXCEPT ![p] = FromNow] /\ UNCHANGED <<disk, ws>>
    BY <1>1 DEF BeginSync
  <2>2. /\ sync'[p] = [Idle EXCEPT !.at = "begun", !.todo = roots] /\ since'[p] = FromNow
        /\ \A q \in Syncs \ {p} : sync'[q] = sync[q] /\ since'[q] = since[q]
    BY <2>1 DEF TypeOK
  <2>3. Hidden' = Hidden
    BY <2>1 DEF Hidden
  <2>4. Scanned(p)' = {} /\ AtHand(p)' = {}
    BY <2>2 DEF Scanned, AtHand, BelowSome, Idle, FromNow
  <2>5. /\ sync'[p].at = "begun" /\ sync'[p].todo = roots
        /\ sync'[p].found = {} /\ sync'[p].present = {}
    BY <2>2 DEF Idle
  <2>6. /\ since'[p].roots = roots /\ since'[p].there = disk /\ since'[p].missing = Repos \ disk
        /\ since'[p].shown = Repos \ Hidden /\ since'[p].hidden = Hidden
    BY <2>2 DEF FromNow
  <2>7. Watched(p)' /\ AtRest(p)'
    BY <2>1, <2>3, <2>5, <2>6 DEF Watched, AtRest
  <2>8. Accounts(p)'
    BY <2>4, <2>5 DEF Accounts
  <2>9. QED
    BY <2>1, <2>2, <2>3, <2>7, <2>8, OthersKept DEF SyncOK
<1>2. CASE ReadIgnored(p)
  <2>1. /\ s.at = "begun" /\ UNCHANGED <<disk, ws, since>>
        /\ sync' = [sync EXCEPT ![p].at = "scan", ![p].ignored = Hidden]
    BY <1>2 DEF ReadIgnored
  <2>2. /\ sync'[p] = [s EXCEPT !.at = "scan", !.ignored = Hidden]
        /\ \A q \in Syncs \ {p} : sync'[q] = sync[q] /\ since'[q] = since[q]
    BY <2>1 DEF TypeOK
  <2>3. /\ sync'[p].at = "scan" /\ sync'[p].ignored = Hidden /\ sync'[p].todo = s.todo
        /\ sync'[p].found = s.found /\ sync'[p].present = s.present
    BY <1>0, <2>2 DEF Sync
  <2>4. Hidden' = Hidden
    BY <2>1 DEF Hidden
  <2>5. Scanned(p)' = Scanned(p) /\ AtHand(p)' = {} /\ AtHand(p) = {}
    BY <2>1, <2>3 DEF Scanned, AtHand, BelowSome
  <2>6. Watched(p)' /\ AtRest(p)'
    BY <1>0, <2>1, <2>3, <2>4 DEF SyncOK, Watched, AtRest
  <2>7. Accounts(p)'
    BY <1>0, <2>1, <2>3, <2>5 DEF SyncOK, Watched, Accounts
  <2>8. QED
    BY <2>1, <2>2, <2>4, <2>6, <2>7, OthersKept DEF SyncOK
<1>3. ASSUME NEW root \in Roots, findGitRepos(p, root) PROVE Each'
  <2>0. s.at = "scan" /\ s.found = {} /\ root \in s.todo
    BY <1>3 DEF findGitRepos, Scanning
  <2>1. /\ UNCHANGED <<disk, ws, since>>
        /\ sync' = [sync EXCEPT ![p].todo = @ \ {root},
                                ![p].found = (disk \cap Below[root]) \ sync[p].ignored]
    BY <1>3 DEF findGitRepos, Scanning
  <2>2. /\ sync'[p] = [s EXCEPT !.todo = @ \ {root}, !.found = (disk \cap Below[root]) \ s.ignored]
        /\ \A q \in Syncs \ {p} : sync'[q] = sync[q] /\ since'[q] = since[q]
    BY <2>1 DEF TypeOK
  <2>3. /\ sync'[p].at = "scan" /\ sync'[p].ignored = s.ignored /\ sync'[p].todo = s.todo \ {root}
        /\ sync'[p].found = (disk \cap Below[root]) \ s.ignored /\ sync'[p].present = s.present
    BY <1>0, <2>0, <2>2 DEF Sync
  <2>4. Hidden' = Hidden
    BY <2>1 DEF Hidden
  <2>5. Watched(p) /\ Accounts(p)
    BY <1>0 DEF SyncOK
  <2>6. Scanned(p)' = Scanned(p) \cup Below[root]
    <3>1. h.roots \ sync'[p].todo = (h.roots \ s.todo) \cup {root}
      BY <2>0, <2>1, <2>3, <2>5 DEF Watched
    <3>2. QED
      BY <2>0, <2>1, <3>1 DEF Scanned, BelowSome
  <2>7. AtHand(p)' = {} /\ AtHand(p) = {}
    BY <2>0, <2>1, <2>3 DEF AtHand
  <2>8. Watched(p)' /\ AtRest(p)'
    BY <2>0, <2>1, <2>3, <2>4, <2>5 DEF Watched, AtRest
  <2>9. Below[root] \subseteq Repos
    BY WorkspacesAssumption
  <2>10. Accounts(p)'
    <3>1. /\ disk \subseteq h.there /\ Repos \ disk \subseteq h.missing
          /\ Repos \ s.ignored \subseteq h.shown /\ s.ignored \subseteq h.hidden
      BY <2>0, <2>1, <2>5 DEF Watched, Accounts
    <3>2. s.present \subseteq h.there \cap h.shown \cap Scanned(p)
      BY <2>5 DEF Accounts
    <3>3. Scanned(p) \subseteq s.present \cup h.missing \cup h.hidden
      BY <2>0, <2>1, <2>5, <2>7 DEF Accounts
    <3>4. QED
      BY <2>0, <2>1, <2>3, <2>6, <2>7, <2>9, <3>1, <3>2, <3>3 DEF Accounts
  <2>11. QED
    BY <2>0, <2>1, <2>2, <2>4, <2>8, <2>10, OthersKept DEF SyncOK
<1>4. ASSUME NEW root \in Roots, Unreadable(p, root) PROVE Each'
  <2>0. s.at = "scan" /\ root \in s.todo
    BY <1>4 DEF Unreadable, Scanning
  <2>1. /\ UNCHANGED <<disk, ws>>
        /\ sync' = [sync EXCEPT ![p].todo = @ \ {root}]
        /\ since' = [since EXCEPT ![p].roots = @ \ {root}]
    BY <1>4 DEF Unreadable, Scanning
  <2>2. /\ sync'[p] = [s EXCEPT !.todo = @ \ {root}] /\ since'[p] = [h EXCEPT !.roots = @ \ {root}]
        /\ \A q \in Syncs \ {p} : sync'[q] = sync[q] /\ since'[q] = since[q]
    BY <2>1 DEF TypeOK
  <2>3. /\ sync'[p].at = "scan" /\ sync'[p].ignored = s.ignored /\ sync'[p].todo = s.todo \ {root}
        /\ sync'[p].found = s.found /\ sync'[p].present = s.present
        /\ since'[p].roots = h.roots \ {root} /\ since'[p].there = h.there
        /\ since'[p].missing = h.missing /\ since'[p].shown = h.shown /\ since'[p].hidden = h.hidden
    BY <1>0, <2>0, <2>2 DEF Sync, History
  <2>4. Hidden' = Hidden
    BY <2>1 DEF Hidden
  <2>5. sync'[p].todo = s.todo \ {root} /\ since'[p].roots \ sync'[p].todo = h.roots \ s.todo
    BY <2>0, <2>1, <2>3
  <2>6. Scanned(p)' = Scanned(p) /\ AtHand(p)' = {} /\ AtHand(p) = {}
    BY <2>0, <2>1, <2>3, <2>5 DEF Scanned, AtHand, BelowSome
  <2>7. Watched(p)' /\ AtRest(p)'
    BY <1>0, <2>0, <2>1, <2>3, <2>4 DEF SyncOK, Watched, AtRest
  <2>8. Accounts(p)'
    BY <1>0, <2>0, <2>1, <2>3, <2>6 DEF SyncOK, Accounts
  <2>9. QED
    BY <2>0, <2>1, <2>2, <2>4, <2>7, <2>8, OthersKept DEF SyncOK
<1>5. ASSUME NEW r \in Repos, GetWorkspaceByPath(p, r) PROVE Each'
  <2>0. s.at = "scan" /\ r \in s.found
    BY <1>5 DEF GetWorkspaceByPath
  <2>1. /\ UNCHANGED <<disk, ws, since>>
        /\ sync' = [sync EXCEPT ![p].at = IF ws[r].there THEN "update" ELSE "insert",
                                ![p].found = @ \ {r}, ![p].rows = {r}]
    BY <1>5 DEF GetWorkspaceByPath
  <2>2. /\ sync'[p] = [s EXCEPT !.at = IF ws[r].there THEN "update" ELSE "insert",
                                !.found = @ \ {r}, !.rows = {r}]
        /\ \A q \in Syncs \ {p} : sync'[q] = sync[q] /\ since'[q] = since[q]
    BY <2>1 DEF TypeOK
  <2>3. /\ sync'[p].at = IF ws[r].there THEN "update" ELSE "insert"
        /\ sync'[p].ignored = s.ignored /\ sync'[p].todo = s.todo
        /\ sync'[p].found = s.found \ {r} /\ sync'[p].rows = {r} /\ sync'[p].present = s.present
    BY <1>0, <2>0, <2>2 DEF Sync
  <2>4. Hidden' = Hidden
    BY <2>1 DEF Hidden
  <2>5. sync'[p].at \in {"update", "insert"}
    BY <2>3
  <2>6. Scanned(p)' = Scanned(p) /\ AtHand(p)' = {r} /\ AtHand(p) = {}
    BY <2>0, <2>1, <2>3, <2>5 DEF Scanned, AtHand, BelowSome
  <2>7. Watched(p)' /\ AtRest(p)'
    BY <1>0, <2>0, <2>1, <2>3, <2>4, <2>5 DEF SyncOK, Watched, AtRest
  <2>8. Accounts(p)'
    <3>1. sync'[p].found \cup AtHand(p)' \cup sync'[p].present = s.found \cup AtHand(p) \cup s.present
      BY <2>0, <2>3, <2>6
    <3>2. sync'[p].at = "update" => \A q \in sync'[p].rows : ws'[q].there
      <4>1. ws' = ws /\ ws[r].there \in BOOLEAN
        BY <2>1 DEF TypeOK, Row
      <4>2. sync'[p].at = "update" => ws[r].there
        BY <2>3
      <4>3. QED
        BY <2>3, <4>1, <4>2
    <3>3. sync'[p].ignored = s.ignored /\ since'[p] = h
      BY <2>1, <2>3
    <3>4. s.at = "scan" /\ Accounts(p)
      BY <1>0, <2>0 DEF SyncOK
    <3>5. QED
      BY <2>5, <2>6, <3>1, <3>2, <3>3, <3>4 DEF Accounts
  <2>9. QED
    BY <2>0, <2>1, <2>2, <2>4, <2>7, <2>8, OthersKept DEF SyncOK
<1>6. CASE Update(p) \/ Insert(p)
  <2>0. s.at \in {"update", "insert"}
    BY <1>6 DEF Update, Insert, Wrote
  <2>1. /\ UNCHANGED <<disk, since>>
        /\ sync' = [sync EXCEPT ![p].at = "scan", ![p].rows = {}, ![p].present = @ \cup sync[p].rows]
    BY <1>6 DEF Update, Insert, Wrote
  <2>2. /\ sync'[p] = [s EXCEPT !.at = "scan", !.rows = {}, !.present = @ \cup s.rows]
        /\ \A q \in Syncs \ {p} : sync'[q] = sync[q] /\ since'[q] = since[q]
    BY <2>1 DEF TypeOK
  <2>3. /\ sync'[p].at = "scan" /\ sync'[p].ignored = s.ignored /\ sync'[p].todo = s.todo
        /\ sync'[p].found = s.found /\ sync'[p].present = s.present \cup s.rows
    BY <1>0, <2>0, <2>2 DEF Sync
  <2>4. ASSUME NEW r \in Repos
        PROVE  ws'[r].ignored = ws[r].ignored /\ (ws[r].there => ws'[r].there)
    <3>1. ws[r] \in Row /\ (ws[r].ignored => ws[r].there)
      BY DEF TypeOK
    <3>2. \/ ws'[r] = ws[r] \/ ws'[r] = [ws[r] EXCEPT !.present = TRUE]
          \/ ~ws[r].there /\ ws'[r] = [Unknown EXCEPT !.there = TRUE, !.present = TRUE]
      BY <1>6 DEF Update, Insert
    <3>3. QED
      BY <3>1, <3>2 DEF Row, Unknown
  <2>5. Hidden' = Hidden
    BY <2>4 DEF Hidden
  <2>6. Scanned(p)' = Scanned(p) /\ AtHand(p)' = {} /\ AtHand(p) = s.rows
    BY <2>0, <2>1, <2>3 DEF Scanned, AtHand, BelowSome
  <2>7. Watched(p)' /\ AtRest(p)'
    BY <1>0, <2>0, <2>1, <2>3, <2>5 DEF SyncOK, Watched, AtRest
  <2>8. Accounts(p)'
    BY <1>0, <2>0, <2>1, <2>3, <2>6 DEF SyncOK, Accounts
  <2>9. QED
    BY <2>0, <2>1, <2>2, <2>4, <2>5, <2>7, <2>8, OthersKept DEF SyncOK
<1>7. CASE Conflict(p) \/ StoreFails(p) \/ Done(p)
  <2>1. /\ sync' = [sync EXCEPT ![p] = Idle] /\ since' = [since EXCEPT ![p] = Forgotten]
        /\ UNCHANGED <<disk, ws>>
    BY <1>7 DEF Conflict, StoreFails, Done, Return
  <2>2. /\ sync'[p] = Idle /\ since'[p] = Forgotten
        /\ \A q \in Syncs \ {p} : sync'[q] = sync[q] /\ since'[q] = since[q]
    BY <2>1 DEF TypeOK
  <2>3. Hidden' = Hidden
    BY <2>1 DEF Hidden
  <2>4. Scanned(p)' = {} /\ AtHand(p)' = {}
    BY <2>2 DEF Scanned, AtHand, BelowSome, Idle, Forgotten
  <2>5. SyncOK(p)'
    BY <2>2, <2>4 DEF SyncOK, Watched, Accounts, AtRest, Idle, Forgotten
  <2>6. QED
    BY <2>1, <2>2, <2>3, <2>5, OthersKept
<1>8. CASE ListGone(p)
  <2>0. s.at = "scan" /\ s.todo = {} /\ s.found = {}
    BY <1>8 DEF ListGone
  <2>1. /\ UNCHANGED <<disk, ws, since>>
        /\ sync' = [sync EXCEPT ![p].at = "absent",
                                ![p].rows = {r \in Repos : ws[r].present} \ sync[p].present]
    BY <1>8 DEF ListGone
  <2>2. /\ sync'[p] = [s EXCEPT !.at = "absent", !.rows = {r \in Repos : ws[r].present} \ s.present]
        /\ \A q \in Syncs \ {p} : sync'[q] = sync[q] /\ since'[q] = since[q]
    BY <2>1 DEF TypeOK
  <2>3. /\ sync'[p].at = "absent" /\ sync'[p].ignored = s.ignored /\ sync'[p].todo = {}
        /\ sync'[p].found = {} /\ sync'[p].present = s.present
        /\ sync'[p].rows \cap s.present = {}
    BY <1>0, <2>0, <2>2 DEF Sync
  <2>4. Hidden' = Hidden
    BY <2>1 DEF Hidden
  <2>5. Scanned(p)' = Scanned(p) /\ AtHand(p)' = {} /\ AtHand(p) = {}
    BY <2>0, <2>1, <2>3 DEF Scanned, AtHand, BelowSome
  <2>6. Watched(p)' /\ AtRest(p)'
    BY <1>0, <2>0, <2>1, <2>3, <2>4 DEF SyncOK, Watched, AtRest
  <2>7. Accounts(p)'
    BY <1>0, <2>0, <2>1, <2>3, <2>5 DEF SyncOK, Accounts
  <2>8. QED
    BY <2>0, <2>1, <2>2, <2>4, <2>6, <2>7, OthersKept DEF SyncOK
<1>9. ASSUME NEW r \in Repos, MarkAbsent(p, r) PROVE Each'
  <2>0. s.at = "absent" /\ r \in s.rows
    BY <1>9 DEF MarkAbsent
  <2>1. /\ UNCHANGED <<disk, since>>
        /\ sync' = [sync EXCEPT ![p].rows = @ \ {r}] /\ ws' = [ws EXCEPT ![r].present = FALSE]
    BY <1>9 DEF MarkAbsent
  <2>2. /\ sync'[p] = [s EXCEPT !.rows = @ \ {r}]
        /\ \A q \in Syncs \ {p} : sync'[q] = sync[q] /\ since'[q] = since[q]
    BY <2>1 DEF TypeOK
  <2>3. /\ sync'[p].at = "absent" /\ sync'[p].ignored = s.ignored /\ sync'[p].todo = s.todo
        /\ sync'[p].found = s.found /\ sync'[p].present = s.present
        /\ sync'[p].rows = s.rows \ {r}
    BY <1>0, <2>0, <2>2 DEF Sync
  <2>4. \A q \in Repos : ws'[q].ignored = ws[q].ignored /\ (ws[q].there => ws'[q].there)
    BY <2>1 DEF TypeOK, Row
  <2>5. Hidden' = Hidden
    BY <2>4 DEF Hidden
  <2>6. Scanned(p)' = Scanned(p) /\ AtHand(p)' = {} /\ AtHand(p) = {}
    BY <2>0, <2>1, <2>3 DEF Scanned, AtHand, BelowSome
  <2>7. Watched(p)' /\ AtRest(p)'
    BY <1>0, <2>0, <2>1, <2>3, <2>5 DEF SyncOK, Watched, AtRest
  <2>8. Accounts(p)'
    BY <1>0, <2>0, <2>1, <2>3, <2>6 DEF SyncOK, Accounts
  <2>9. QED
    BY <2>0, <2>1, <2>2, <2>4, <2>5, <2>7, <2>8, OthersKept DEF SyncOK
<1>10. QED
  BY <1>1, <1>2, <1>3, <1>4, <1>5, <1>6, <1>7, <1>8, <1>9 DEF Steps

-----------------------------------------------------------------------------
(* The theorems. *)

LEMMA InitInv == Init => IInv
<1> SUFFICES ASSUME Init PROVE IInv
  OBVIOUS
<1>1. TypeOK
  BY WorkspacesAssumption, IdleTyped DEF Init, TypeOK, Unknown
<1>2. ASSUME NEW p \in Syncs PROVE SyncOK(p)
  <2>1. sync[p] = Idle /\ since[p] = Forgotten
    BY DEF Init
  <2>2. Scanned(p) = {} /\ AtHand(p) = {}
    BY <2>1 DEF Scanned, AtHand, BelowSome, Idle, Forgotten
  <2>3. QED
    BY <2>1, <2>2 DEF SyncOK, Watched, Accounts, AtRest, Idle, Forgotten
<1>3. QED
  BY <1>1, <1>2 DEF IInv, Each

LEMMA StepInv == IInv /\ [Next]_vars => IInv'
<1> SUFFICES ASSUME IInv, [Next]_vars PROVE IInv'
  OBVIOUS
<1>1. CASE UNCHANGED vars
  <2>1. TypeOK' /\ Hidden' = Hidden
    BY <1>1 DEF vars, IInv, TypeOK, Hidden
  <2>2. Each'
    BY <1>1, <2>1, Kept DEF vars, IInv, Each
  <2>3. QED
    BY <2>1, <2>2 DEF IInv
<1>2. CASE Next
  BY <1>2, AroundTyped, AroundKeeps, SyncTyped, SyncKeeps DEF Next, IInv
<1>3. QED
  BY <1>1, <1>2

\* In every reachable state, whatever the constants, IInv holds.
THEOREM Inductive == Spec => []IInv
BY InitInv, StepInv, PTL DEF Spec

\* Every variable keeps the kind of value the code gives it.
THEOREM TypeCorrect == Spec => []TypeOK
<1>1. IInv => TypeOK
  BY DEF IInv
<1>2. QED
  BY <1>1, Inductive, PTL

\* However syncs, the owner's commands, the disk, failures and crashes interleave, a sync
\* writes and marks only what was so while it ran (Registry.Sync).
THEOREM SyncsTellTheTruth == Spec => []SyncSeesTruth
<1>1. IInv => SyncSeesTruth
  <2> SUFFICES ASSUME IInv, NEW p \in Syncs
               PROVE  /\ sync[p].present \subseteq
                           since[p].there \cap since[p].shown \cap BelowSome(since[p].roots)
                      /\ sync[p].at = "absent" =>
                           sync[p].rows \cap BelowSome(since[p].roots) \subseteq
                             since[p].missing \cup since[p].hidden
    BY DEF SyncSeesTruth
  <2>1. Accounts(p)
    BY DEF IInv, Each, SyncOK
  <2>2. Scanned(p) \subseteq BelowSome(since[p].roots)
    BY DEF Scanned, BelowSome
  <2>3. sync[p].at = "absent" => Scanned(p) = BelowSome(since[p].roots)
    <3>1. sync[p].at = "absent" => since[p].roots \ sync[p].todo = since[p].roots
      BY <2>1 DEF Accounts
    <3>2. QED
      BY <3>1 DEF Scanned
  <2>4. QED
    BY <2>1, <2>2, <2>3 DEF Accounts
<1>2. QED
  BY <1>1, Inductive, PTL

=============================================================================
