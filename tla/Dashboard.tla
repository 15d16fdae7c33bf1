------------------------------ MODULE Dashboard ------------------------------
(***************************************************************************)
(* The dashboard's model (src/internal/tui/model.go) with the part of its   *)
(* backend it talks to (src/internal/cmd/tui_backend.go).  The Bubble Tea   *)
(* model is one value that Update replaces at each message; here it is the  *)
(* record ui, and each handler is an operator from a ui to the next one.    *)
(* Commands run in goroutines of their own and answer in any order: an      *)
(* inventory query first observes the machine and is delivered later, a     *)
(* fleet overlay carries the rows it was dispatched with, a creation        *)
(* publishes its worktree before its setup commands end.  Other processes   *)
(* create, remove and commit at any time.                                   *)
(*                                                                          *)
(* A row is the worktree at a path: its generation, its HEAD, whether a     *)
(* status-bearing answer brought it, and its two flags.  The cursor is left *)
(* to the user, who may select any visible row.  Sessions, layouts, text    *)
(* filters and directory workspaces are not modelled; an answer whose       *)
(* sequence was superseded is delivered and ignored.                        *)
(***************************************************************************)
EXTENDS Naturals, Sequences, FiniteSets

CONSTANTS
  Paths,          \* worktree directories
  Mains,          \* those that are main checkouts, at least one of every project
  ProjectOf,      \* [Paths -> project]
  Hub,            \* the linked worktrees whose branch another host publishes to the hub
  Elsewhere,      \* the paths a creation may land on against its preview
  Missing,        \* the paths without a worktree when the dashboard starts
  Launches,       \* where the dashboard may be started: paths or None
  All, None,      \* the unscoped perspective; no path, row or prompt
  MaxGen,         \* bound: generations of one path
  MaxCommands,    \* bound: commands the user gives
  MaxOutside,     \* bound: changes made by other processes
  MaxFailures,    \* bound: queries and operations that fail
  MaxEvents       \* bound: the three together

Projects == {ProjectOf[p] : p \in Paths}

VARIABLES
  ui,             \* the dashboard's Model
  disk,           \* [Paths -> [gen, head]]: generation 0 is "no worktree"
  created,        \* [Paths -> 0..MaxGen]: generations handed out at a path
  cache,          \* the rows of the daemon's cached dashboard snapshot
  queries,        \* inventory commands under way, asked or observed
  overlays,       \* fleet merges under way
  creations,      \* worktree creations and materializations under way
  removal,        \* how the active removal ended on disk, None before
  acts,           \* session commands under way (open, kill)
  gone,           \* history: <<path, generation>> of every removal reported
  shared,         \* history: <<path, generation>> that joined answers carried
  commands, outside, failures

vars == <<ui, disk, created, cache, queries, overlays, creations, removal, acts,
          gone, shared, commands, outside, failures>>
----------------------------------------------------------------------------
(* Rows and requests. *)

Request == [scope : {"cached", "repository", "dashboard"},
            project : Projects \cup {All}, from : SUBSET Paths, statuses : BOOLEAN]

Cached == [scope |-> "cached", project |-> All, from |-> {}, statuses |-> FALSE]
Structural == [scope |-> "dashboard", project |-> All, from |-> {}, statuses |-> FALSE]
Everything == [Structural EXCEPT !.statuses = TRUE]
Repository(project, from) ==
  [scope |-> "repository", project |-> project, from |-> from, statuses |-> TRUE]

Listed(d, statuses) ==
  [p \in {q \in Paths : d[q].gen # 0} |->
     [gen |-> d[p].gen, head |-> d[p].head, status |-> statuses,
      creating |-> FALSE, removing |-> FALSE]]

Placeholder == [gen |-> 0, head |-> 0, status |-> FALSE, creating |-> TRUE, removing |-> FALSE]

OfProject(rows, project) == {p \in DOMAIN rows : ProjectOf[p] = project}
Only(rows, paths) == [p \in DOMAIN rows \cap paths |-> rows[p]]
Key(p, row) == <<p, row.gen>>

sameCheckout(before, now) == before.gen = now.gen /\ before.head = now.head

QueuedKeys(u) ==
  {<<u.removalQueue[i].path, u.removalQueue[i].gen>> : i \in DOMAIN u.removalQueue}
    \cup (IF u.removalActive = None THEN {}
          ELSE {<<u.removalActive.path, u.removalActive.gen>>})

applyRemovalState(u, rows) ==
  [p \in DOMAIN rows |-> [rows[p] EXCEPT !.removing = Key(p, rows[p]) \in QueuedKeys(u)]]

\* Mutant: a listing that discovers a pending worktree is taken as it is.
mergeListedRows(listed, shown, creating) ==
  LET kept == {p \in DOMAIN shown \ DOMAIN listed : shown[p].creating}
  IN [p \in DOMAIN listed \cup kept |-> IF p \in kept THEN shown[p] ELSE listed[p]]

mergeCreatingRows(listed, shown, creating) ==
  LET kept == {p \in DOMAIN shown \ DOMAIN listed : shown[p].creating}
  IN [p \in DOMAIN listed \cup kept |->
        IF p \in kept THEN shown[p]
        ELSE [listed[p] EXCEPT !.creating = @ \/ p \in creating]]

Visible(u) ==
  {p \in DOMAIN u.rows : u.perspective \in {All, ProjectOf[p]}}

rowScopeCurrent(u, p) == u.fresh[ProjectOf[p]].current

\* A remote-only row has no entry: the global observation speaks for it.
remoteScopeCurrent(u) ==
  IF u.global.seen \/ u.global.diagnostic THEN u.global.current ELSE u.inventoryCurrent
----------------------------------------------------------------------------
(* Starting loads. *)

startInventory(u, request) ==
  [u EXCEPT !.loadSeq = @ + 1, !.inventorySeq = @ + 1, !.fleetPending = FALSE,
            !.fetching = TRUE, !.request = request]

startFleetMerge(u) ==
  IF DOMAIN u.rows = {} /\ u.remote = {} THEN u ELSE [u EXCEPT !.fleetPending = TRUE]

Stale(u, projects) ==
  [u EXCEPT !.fresh = [p \in Projects |->
     IF p \in projects THEN [u.fresh[p] EXCEPT !.current = FALSE] ELSE u.fresh[p]]]

\* The main checkout's directory when its row is shown, else that of any row.
repositoryDirs(u, project) ==
  LET rows == OfProject(u.rows, project)
  IN IF rows \cap Mains # {} THEN rows \cap Mains ELSE rows

perspectiveRequest(u, project) ==
  IF repositoryDirs(u, project) = {} THEN Structural
  ELSE Repository(project, repositoryDirs(u, project))

startFetch(u) ==
  LET idle == [u EXCEPT !.inventoryCurrent = FALSE]
      request == perspectiveRequest(u, u.perspective)
  IN IF u.perspective = All
     THEN startInventory([Stale(idle, Projects) EXCEPT !.global.current = FALSE], Everything)
     ELSE IF request.scope = "repository"
     THEN startInventory(Stale(idle, {u.perspective}), request)
     ELSE startInventory([idle EXCEPT !.global.current = FALSE], request)

startPendingRefresh(u) ==
  IF u.pendingRefresh THEN startFetch([u EXCEPT !.pendingRefresh = FALSE]) ELSE u

startNextRemovalRefresh(u) ==
  IF u.refreshQueue = <<>> THEN u
  ELSE LET request == Head(u.refreshQueue)
       IN startInventory(Stale([u EXCEPT !.refreshQueue = Tail(@)], {request.project}), request)

startBackground(u) == startInventory([u EXCEPT !.backgroundStarted = TRUE], Structural)
----------------------------------------------------------------------------
(* Applying inventory answers. *)

launchPerspective(rows, anchor) == IF anchor \in DOMAIN rows THEN ProjectOf[anchor] ELSE All

replaceInventoryRows(u, listed, current) ==
  LET hadRows == DOMAIN u.rows # {} \/ u.remote # {}
      rows == applyRemovalState(u, mergeCreatingRows(listed, u.rows, u.creating))
  IN [u EXCEPT !.rows = rows, !.remote = {}, !.inventoryCurrent = current,
               !.fleetPending = FALSE,
               !.perspective = IF ~hadRows /\ u.anchor # None
                               THEN launchPerspective(rows, u.anchor) ELSE @,
               !.anchor = IF hadRows \/ DOMAIN rows # {} THEN None ELSE @]

mergeRepositoryRows(u, listed, project) ==
  LET others == DOMAIN u.rows \ OfProject(u.rows, project)
      merged == [p \in others \cup OfProject(listed, project) |->
                   IF p \in others THEN u.rows[p] ELSE listed[p]]
  IN [u EXCEPT !.rows = applyRemovalState(u, mergeCreatingRows(merged, u.rows, u.creating)),
               !.remote = {p \in @ : ProjectOf[p] # project}]

\* A status-free listing keeps the status of a row whose project was current
\* and whose checkout is the same; every other row makes its project stale.
mergeStructuralDashboard(u, listed) ==
  LET known == {p \in DOMAIN listed \cap DOMAIN u.rows : u.fresh[ProjectOf[p]].current}
      same == {p \in known : sameCheckout(u.rows[p], listed[p])}
      rows == [p \in DOMAIN listed |->
                 IF p \in same THEN [listed[p] EXCEPT !.status = u.rows[p].status]
                 ELSE listed[p]]
      stale == {ProjectOf[p] : p \in DOMAIN listed \ same}
  IN replaceInventoryRows(Stale(u, stale), rows, FALSE)

markProjectsFresh(u, listed) ==
  [u EXCEPT !.fresh = [p \in Projects |->
     IF OfProject(listed, p) # {} THEN [current |-> TRUE, diagnostic |-> FALSE]
     ELSE u.fresh[p]]]

cachedAnswer(u, listed) ==
  LET painted == replaceInventoryRows([u EXCEPT !.global = [seen |-> TRUE, current |-> FALSE,
                                                            diagnostic |-> FALSE]], listed, FALSE)
      scoped == IF painted.perspective = All /\ painted.anchor # None
                THEN [painted EXCEPT !.perspective = launchPerspective(painted.rows, painted.anchor)]
                ELSE painted
      request == perspectiveRequest(scoped, scoped.perspective)
  IN IF scoped.perspective = All
     THEN startInventory([scoped EXCEPT !.backgroundStarted = TRUE], Everything)
     ELSE startInventory([scoped EXCEPT !.backgroundStarted = @ \/ request.scope = "dashboard"],
                         request)

\* Mutant: a repository answer goes straight on to the fleet.
repositoryAnswerOnly(u, listed, project) ==
  LET first == IF DOMAIN u.rows = {} /\ u.remote = {}
               THEN replaceInventoryRows(u, listed, TRUE) ELSE u
      next == [mergeRepositoryRows(first, listed, project) EXCEPT
                 !.fresh[project] = [current |-> TRUE, diagnostic |-> FALSE],
                 !.inventoryCurrent = TRUE]
  IN IF next.refreshQueue # <<>> THEN startNextRemovalRefresh(next)
     ELSE IF ~next.backgroundStarted THEN startBackground(next)
     ELSE startFleetMerge(next)

repositoryAnswer(u, listed, project) ==
  LET first == IF DOMAIN u.rows = {} /\ u.remote = {}
               THEN replaceInventoryRows(u, listed, TRUE) ELSE u
      next == [mergeRepositoryRows(first, listed, project) EXCEPT
                 !.fresh[project] = [current |-> TRUE, diagnostic |-> FALSE],
                 !.inventoryCurrent = TRUE]
  IN IF next.refreshQueue # <<>> THEN startNextRemovalRefresh(next)
     ELSE IF next.pendingRefresh THEN startPendingRefresh(next)
     ELSE IF ~next.backgroundStarted THEN startBackground(next)
     ELSE startFleetMerge(next)

dashboardAnswer(u, listed, statuses) ==
  LET rows == IF statuses
              THEN markProjectsFresh(replaceInventoryRows(u, listed, TRUE), listed)
              ELSE mergeStructuralDashboard(u, listed)
      next == [rows EXCEPT !.inventoryCurrent = TRUE,
                           !.global = [seen |-> TRUE, current |-> TRUE, diagnostic |-> FALSE]]
  IN IF next.pendingRefresh THEN startPendingRefresh(next) ELSE startFleetMerge(next)

failedAnswer(u, request) ==
  LET next == IF request.scope = "repository"
              THEN [u EXCEPT !.fresh[request.project] = [current |-> FALSE, diagnostic |-> TRUE]]
              ELSE [u EXCEPT !.global.current = FALSE, !.global.diagnostic = TRUE]
  IN IF next.refreshQueue # <<>> THEN startNextRemovalRefresh(next)
     ELSE IF request.scope = "repository" /\ ~next.backgroundStarted THEN startBackground(next)
     ELSE startPendingRefresh(next)

applyInventory(u, answer) ==
  LET next == [u EXCEPT !.fetching = FALSE]
      request == answer.request
  IN IF answer.seq # u.inventorySeq THEN u
     ELSE IF answer.stage = "failed" THEN failedAnswer(next, request)
     ELSE IF request.scope = "cached" THEN cachedAnswer(next, answer.rows)
     ELSE IF request.scope = "repository"
     THEN repositoryAnswer(next, answer.rows, request.project)
     ELSE dashboardAnswer(next, answer.rows, request.statuses)

\* The overlay brings back the rows it was dispatched with, plus one remote-only
\* row per hub branch without a local row among them.
applyFleetRows(u, overlay, remote) ==
  IF overlay.seq # u.loadSeq THEN u
  ELSE [u EXCEPT !.fleetPending = FALSE,
                 !.rows = applyRemovalState(u, mergeCreatingRows(overlay.rows, u.rows, u.creating)),
                 !.remote = remote]
----------------------------------------------------------------------------
(* Applying the ends of actions. *)

\* Mutant: the overlay in flight survives the row it carries.
dropRowAlone(u, p) == [u EXCEPT !.rows = Only(u.rows, Paths \ {p}), !.fleetPending = FALSE]

dropPendingRow(u, p) ==
  [u EXCEPT !.rows = Only(u.rows, Paths \ {p}), !.fleetPending = FALSE, !.loadSeq = @ + 1]

refreshAfter(u) == IF u.fetching THEN [u EXCEPT !.pendingRefresh = TRUE] ELSE startFetch(u)

creationDone(u, c) ==
  LET ended == [u EXCEPT !.creating = @ \ {c.path}]
      \* the worktree landed somewhere else than the preview said
      placed == IF c.dest # c.path THEN dropPendingRow(ended, c.path) ELSE ended
  IN IF c.stage = "failed" THEN dropPendingRow(ended, c.path)
     ELSE refreshAfter([placed EXCEPT !.anchor = c.dest])

materializeDone(u, c) ==
  IF c.stage = "failed" THEN u
  ELSE startInventory([Stale(u, Projects) EXCEPT !.anchor = c.dest, !.inventoryCurrent = FALSE,
                                                 !.global.current = FALSE], Everything)

actionDone(u, c) == IF c.kind = "create" THEN creationDone(u, c) ELSE materializeDone(u, c)

startNextRemoval(u) ==
  IF u.removalActive # None \/ u.removalQueue = <<>> THEN u
  ELSE [u EXCEPT !.removalActive = Head(u.removalQueue), !.removalQueue = Tail(@)]

enqueueRemoval(u, p, row) ==
  LET mains == OfProject(u.rows, ProjectOf[p]) \cap Mains
      job == [path |-> p, gen |-> row.gen, from |-> IF mains = {} THEN {p} ELSE mains]
      queued == [u EXCEPT !.removalQueue = Append(@, job)]
  IN IF Key(p, row) \in QueuedKeys(u) THEN u
     ELSE startNextRemoval([queued EXCEPT !.rows = applyRemovalState(queued, u.rows)])

\* Mutant: the loads under way when a removal ends are not superseded.
applyRemovalKeepingLoads(u, job, removed, refresh) ==
  LET gone_ == IF removed THEN {job.path} ELSE {}
      next == [u EXCEPT !.removalActive = None, !.rows = Only(u.rows, Paths \ gone_)]
      asked == IF refresh
               THEN [next EXCEPT !.refreshQueue =
                       Append(@, Repository(ProjectOf[job.path], job.from))]
               ELSE next
  IN IF asked.removalQueue # <<>> THEN startNextRemoval(asked)
     ELSE startNextRemovalRefresh(asked)

applyRemovalDone(u, job, removed, refresh) ==
  LET idle == [u EXCEPT !.removalActive = None]
      next == IF removed
              THEN [idle EXCEPT !.inventorySeq = @ + 1, !.loadSeq = @ + 1, !.fetching = FALSE,
                                !.fleetPending = FALSE, !.rows = Only(u.rows, Paths \ {job.path})]
              ELSE [idle EXCEPT !.rows = [p \in DOMAIN u.rows |->
                      [u.rows[p] EXCEPT !.removing = @ /\ Key(p, u.rows[p]) # <<job.path, job.gen>>]]]
      asked == IF refresh
               THEN [next EXCEPT !.refreshQueue =
                       Append(@, Repository(ProjectOf[job.path], job.from))]
               ELSE next
  IN IF asked.removalQueue # <<>> THEN startNextRemoval(asked)
     ELSE startNextRemovalRefresh(asked)
----------------------------------------------------------------------------
(* The machine around the model.  Update replaces the model and starts its   *)
(* commands: an inventory query if a sequence was taken and a fetch is on, a  *)
(* fleet merge of the rows shown if one became pending.                       *)

Empty == [p \in {} |-> Placeholder]

Query(seq, request) == [seq |-> seq, request |-> request, stage |-> "asked", rows |-> Empty]

Update(next, asked, merging) ==
  /\ ui' = next
  /\ queries' = IF next.inventorySeq # ui.inventorySeq /\ next.fetching
                THEN asked \cup {Query(next.inventorySeq, next.request)} ELSE asked
  /\ overlays' = IF next.fleetPending /\ (~ui.fleetPending \/ next.loadSeq # ui.loadSeq)
                 THEN merging \cup {[seq |-> next.loadSeq, rows |-> next.rows]} ELSE merging

\* Launched inside a repository the first query is that checkout's, otherwise
\* the cached dashboard.
NewModel(launch, inRepository) ==
  [rows |-> Empty, remote |-> {}, perspective |-> IF inRepository THEN ProjectOf[launch] ELSE All,
   anchor |-> launch, fetching |-> TRUE, inventorySeq |-> 0, loadSeq |-> 0,
   request |-> IF inRepository THEN Repository(ProjectOf[launch], {launch}) ELSE Cached,
   inventoryCurrent |-> FALSE,
   fresh |-> [p \in Projects |-> [current |-> FALSE, diagnostic |-> FALSE]],
   global |-> [seen |-> FALSE, current |-> FALSE, diagnostic |-> FALSE],
   backgroundStarted |-> FALSE, fleetPending |-> FALSE, pendingRefresh |-> FALSE,
   creating |-> {}, removalQueue |-> <<>>, removalActive |-> None, refreshQueue |-> <<>>,
   prompt |-> None, confirm |-> None]

Init ==
  /\ \E launch \in Launches, inRepository \in BOOLEAN :
       /\ inRepository => launch # None
       /\ ui = NewModel(launch, inRepository)
  /\ queries = {Query(0, ui.request)}
  /\ disk = [p \in Paths |-> [gen |-> IF p \in Missing THEN 0 ELSE 1, head |-> 0]]
  /\ created = [p \in Paths |-> disk[p].gen]
  /\ cache = Listed(disk, FALSE)
  /\ overlays = {} /\ creations = {} /\ removal = None /\ acts = 0 /\ gone = {} /\ shared = {}
  /\ commands = 0 /\ outside = 0 /\ failures = 0

Bounded == commands + outside + failures < MaxEvents

Fail == Bounded /\ failures < MaxFailures /\ failures' = failures + 1

\* The backend's mutex is held from a worktree's publication until its command
\* returns.
Unlocked == \A c \in creations : c.stage # "published"

(* Inventory queries and fleet merges. *)

\* What the daemon's source observes: the worktrees of one repository with their
\* statuses, or those of every registered project.
RepositoryRows(project) == Only(Listed(disk, TRUE), OfProject(disk, project))
DashboardRows(statuses) == Listed(disk, statuses)

\* A query reads the machine at one moment of its life.  A repository query
\* needs its working directory; a dashboard query also feeds the daemon's cache.
LoadInventory(q) ==
  /\ q \in queries /\ q.stage = "asked"
  /\ LET missing == q.request.scope = "repository" /\ \E p \in q.request.from : disk[p].gen = 0
         rows == CASE q.request.scope = "cached" -> cache
                   [] q.request.scope = "dashboard" -> DashboardRows(q.request.statuses)
                   [] OTHER -> RepositoryRows(q.request.project)
     IN \/ /\ ~missing
           /\ queries' = (queries \ {q}) \cup {[q EXCEPT !.stage = "observed", !.rows = rows]}
           /\ cache' = IF q.request.scope = "dashboard" THEN DashboardRows(FALSE) ELSE cache
           /\ UNCHANGED failures
        \/ /\ IF missing THEN UNCHANGED failures ELSE Fail
           /\ queries' = (queries \ {q}) \cup {[q EXCEPT !.stage = "failed"]}
           /\ UNCHANGED cache
  /\ UNCHANGED <<ui, disk, created, overlays, creations, removal, acts, gone, shared, commands, outside>>

\* The daemon answers equal requests with one flight: a query that arrives while
\* an older one is still loading gets what that one has already observed.  The
\* dashboard collects statuses itself, so the daemon does not tell them apart.
JoinInventory(q, r) ==
  /\ q \in queries /\ r \in queries /\ r.seq < q.seq /\ q.request.scope # "cached"
  /\ [r.request EXCEPT !.statuses = q.request.statuses] = q.request
  /\ q.stage = "asked" /\ r.stage = "observed"
  /\ LET rows == [p \in DOMAIN r.rows |-> [r.rows[p] EXCEPT !.status = q.request.statuses]]
     IN queries' = (queries \ {q}) \cup {[q EXCEPT !.stage = "observed", !.rows = rows]}
  /\ shared' = shared \cup {Key(p, r.rows[p]) : p \in DOMAIN r.rows}
  /\ UNCHANGED <<ui, disk, created, cache, overlays, creations, removal, acts, gone,
                 commands, outside, failures>>

DeliverInventory(q) ==
  /\ q \in queries /\ q.stage # "asked"
  /\ Update(applyInventory(ui, q), queries \ {q}, overlays)
  /\ UNCHANGED <<disk, created, cache, creations, removal, acts, gone, shared, commands, outside, failures>>

\* The hub answers with its rows or not at all.
DeliverFleet(o) ==
  /\ o \in overlays
  /\ \E remote \in {{}, Hub \ DOMAIN o.rows} :
       Update(applyFleetRows(ui, o, remote), queries, overlays \ {o})
  /\ UNCHANGED <<disk, created, cache, creations, removal, acts, gone, shared, commands, outside, failures>>

(* Keys.  The model takes them one at a time; prompts capture the others. *)

Command ==
  /\ ui.prompt = None /\ ui.confirm = None
  /\ Bounded /\ commands < MaxCommands /\ commands' = commands + 1

UserOnly == UNCHANGED <<disk, created, cache, removal, gone, shared, outside, failures>>

Refresh ==
  /\ Command /\ ~ui.fetching
  /\ Update(startFetch(ui), queries, overlays)
  /\ UserOnly /\ UNCHANGED <<creations, acts>>

\* P, or escape for the unscoped view.
chooseProjectPerspective(project) ==
  /\ Command
  /\ project = All \/ OfProject(ui.rows, project) # {}
  /\ Update(startFetch([ui EXCEPT !.perspective = project]), queries, overlays)
  /\ UserOnly /\ UNCHANGED <<creations, acts>>

Selectable(p) == p \in Visible(ui) /\ ~ui.rows[p].removing /\ ~ui.rows[p].creating

startNewBranch(p) ==
  /\ Command /\ Selectable(p) /\ rowScopeCurrent(ui, p)
  /\ ui' = [ui EXCEPT !.prompt = [path |-> p, row |-> ui.rows[p]]]
  /\ UserOnly /\ UNCHANGED <<queries, overlays, creations, acts>>

startDelete(p) ==
  /\ Command /\ Selectable(p) /\ rowScopeCurrent(ui, p) /\ p \notin Mains
  /\ ui' = [ui EXCEPT !.confirm = [kind |-> "delete", path |-> p, row |-> ui.rows[p]]]
  /\ UserOnly /\ UNCHANGED <<queries, overlays, creations, acts>>

startKill(p) ==
  /\ Command /\ Selectable(p) /\ rowScopeCurrent(ui, p)
  /\ ui' = [ui EXCEPT !.confirm = [kind |-> "kill", path |-> p, row |-> ui.rows[p]]]
  /\ UserOnly /\ UNCHANGED <<queries, overlays, creations, acts>>

\* Enter: the branch's directory is d, once the mutex lets it be planned.  The target row must still be there,
\* of the same generation and current, and no row may show d already.
startCreateWorktree(d) ==
  /\ ui.prompt # None /\ Unlocked
  /\ d \in Paths \ Mains /\ ProjectOf[d] = ProjectOf[ui.prompt.path]
  /\ LET p == ui.prompt.path
         next == [ui EXCEPT !.prompt = None]
         ok == /\ p \in DOMAIN ui.rows /\ ui.rows[p].gen = ui.prompt.row.gen
               /\ rowScopeCurrent(ui, p) /\ d \notin DOMAIN ui.rows
         shown == [r \in DOMAIN ui.rows \cup {d} |-> IF r = d THEN Placeholder ELSE ui.rows[r]]
     IN IF ok
        THEN /\ ui' = [next EXCEPT !.creating = @ \cup {d}, !.rows = shown]
             /\ creations' = creations \cup {[kind |-> "create", path |-> d, dest |-> d, stage |-> "running"]}
        ELSE ui' = next /\ UNCHANGED creations
  /\ UserOnly /\ UNCHANGED <<queries, overlays, acts, commands>>

\* y, after looking the confirmed row up again; any other answer cancels.
handleConfirmKey(yes) ==
  /\ ui.confirm # None
  /\ LET c == ui.confirm
         next == [ui EXCEPT !.confirm = None]
         ok == /\ yes /\ c.path \in DOMAIN ui.rows
               /\ rowScopeCurrent(ui, c.path) /\ sameCheckout(c.row, ui.rows[c.path])
     IN /\ ui' = IF ok /\ c.kind = "delete"
                 THEN enqueueRemoval(next, c.path, ui.rows[c.path]) ELSE next
        /\ acts' = IF ok /\ c.kind = "kill" THEN acts + 1 ELSE acts
  /\ UserOnly /\ UNCHANGED <<queries, overlays, creations, commands>>

\* s on a remote-only row: its branch is checked out at p.
syncSelected(p) ==
  /\ Command /\ p \in ui.remote /\ ui.perspective \in {All, ProjectOf[p]}
  /\ remoteScopeCurrent(ui)
  /\ creations' = creations \cup {[kind |-> "sync", path |-> p, dest |-> p, stage |-> "running"]}
  /\ UserOnly /\ UNCHANGED <<ui, queries, overlays, acts>>

\* Enter: the session is started or attached; while the row's scope is not
\* current only one that lives, which any row's may, is attached.
openSelected(p) ==
  /\ Command /\ Selectable(p)
  /\ acts' = acts + 1
  /\ UserOnly /\ UNCHANGED <<ui, queries, overlays, creations>>

(* The ends of commands. *)

\* Git publishes the worktree before setup ends, where the branch decides.
PublishWorktree(c) ==
  /\ c \in creations /\ c.stage = "running" /\ Unlocked
  /\ \E dest \in {c.path} \cup {p \in Elsewhere : ProjectOf[p] = ProjectOf[c.path]} :
       /\ disk[dest].gen = 0 /\ created[dest] < MaxGen
       /\ disk' = [disk EXCEPT ![dest] = [gen |-> created[dest] + 1, head |-> 0]]
       /\ created' = [created EXCEPT ![dest] = @ + 1]
       /\ creations' = (creations \ {c}) \cup {[c EXCEPT !.stage = "published", !.dest = dest]}
  /\ UNCHANGED <<ui, cache, queries, overlays, removal, acts, gone, shared, commands, outside, failures>>

\* The command ends in an error: nothing was published, or what was is rejected
\* (its head is not the one the hub reported, its setup failed) and rolled back,
\* or left if that fails too.
Rejected(c) ==
  /\ c.stage \in {"running", "published"} /\ Fail
  /\ creations' = (creations \ {c}) \cup {[c EXCEPT !.stage = "failed"]}
  /\ \/ UNCHANGED disk
     \/ c.stage = "published" /\ disk' = [disk EXCEPT ![c.dest] = [gen |-> 0, head |-> 0]]

\* The command returns.  One whose directory is taken cannot publish.
CreateWorktree(c) ==
  /\ c \in creations
  /\ \/ /\ c.stage = "published"
        /\ creations' = (creations \ {c}) \cup {[c EXCEPT !.stage = "returned"]}
        /\ UNCHANGED <<disk, failures>>
     \/ /\ c.stage = "running" /\ (disk[c.path].gen # 0 \/ created[c.path] = MaxGen)
        /\ creations' = (creations \ {c}) \cup {[c EXCEPT !.stage = "failed"]}
        /\ UNCHANGED <<disk, failures>>
     \/ Rejected(c)
  /\ UNCHANGED <<ui, created, cache, queries, overlays, removal, acts, gone, shared, commands, outside>>

DeliverCreation(c) ==
  /\ c \in creations /\ c.stage \in {"returned", "failed"}
  /\ Update(actionDone(ui, c), queries, overlays)
  /\ creations' = creations \ {c}
  /\ UNCHANGED <<disk, created, cache, removal, acts, gone, shared, commands, outside, failures>>

\* The daemon removes the generation the job names, or refuses.
RemoveWorktree ==
  /\ ui.removalActive # None /\ removal = None
  /\ LET job == ui.removalActive
         there == disk[job.path].gen = job.gen
     IN \/ /\ there /\ removal' = "removed"
           /\ disk' = [disk EXCEPT ![job.path] = [gen |-> 0, head |-> 0]]
           /\ UNCHANGED failures
        \/ /\ ~there /\ removal' = "conflict" /\ UNCHANGED <<disk, failures>>
        \/ /\ there /\ Fail /\ removal' \in {"conflict", "refused"} /\ UNCHANGED disk
  /\ UNCHANGED <<ui, created, cache, queries, overlays, creations, acts, gone, shared, commands, outside>>

DeliverRemoval ==
  /\ removal # None /\ removal' = None
  /\ LET job == ui.removalActive
     IN /\ Update(applyRemovalDone(ui, job, removal = "removed", removal # "refused"),
                  queries, overlays)
        /\ gone' = IF removal = "removed" THEN gone \cup {<<job.path, job.gen>>} ELSE gone
  /\ UNCHANGED <<disk, created, cache, creations, acts, shared, commands, outside, failures>>

\* A session command ends: with a refresh, or with an error and none.
ActionDone ==
  /\ acts > 0 /\ acts' = acts - 1
  /\ \/ Update(refreshAfter(ui), queries, overlays) /\ UNCHANGED failures
     \/ Fail /\ UNCHANGED <<ui, queries, overlays>>
  /\ UNCHANGED <<disk, created, cache, creations, removal, gone, shared, commands, outside>>

\* Other processes: a worktree is added, removed, or commits.
OutsideChange(p) ==
  /\ p \notin Mains /\ Bounded /\ outside < MaxOutside /\ outside' = outside + 1
  /\ \/ /\ disk[p].gen = 0 /\ created[p] < MaxGen
        /\ disk' = [disk EXCEPT ![p] = [gen |-> created[p] + 1, head |-> 0]]
        /\ created' = [created EXCEPT ![p] = @ + 1]
     \/ /\ disk[p].gen # 0
        /\ disk' = [disk EXCEPT ![p] = [gen |-> 0, head |-> 0]]
        /\ UNCHANGED created
     \/ /\ disk[p].gen # 0 /\ disk[p].head = 0
        /\ disk' = [disk EXCEPT ![p].head = 1]
        /\ UNCHANGED created
  /\ UNCHANGED <<ui, cache, queries, overlays, creations, removal, acts, gone, shared, commands, failures>>

Backend ==
  \/ \E q \in queries : LoadInventory(q) \/ DeliverInventory(q) \/ \E r \in queries : JoinInventory(q, r)
  \/ \E o \in overlays : DeliverFleet(o)
  \/ \E c \in creations : PublishWorktree(c) \/ CreateWorktree(c) \/ DeliverCreation(c)
  \/ RemoveWorktree \/ DeliverRemoval \/ ActionDone

User ==
  \/ Refresh
  \/ \E project \in Projects \cup {All} : chooseProjectPerspective(project)
  \/ \E p \in Paths : \/ startNewBranch(p) \/ startDelete(p) \/ startKill(p)
                      \/ startCreateWorktree(p) \/ syncSelected(p) \/ openSelected(p)
  \/ \E yes \in BOOLEAN : handleConfirmKey(yes)

Next == Backend \/ User \/ \E p \in Paths : OutsideChange(p)

Spec == Init /\ [][Next]_vars
----------------------------------------------------------------------------
(* Properties. *)

Row == [gen : 0..MaxGen, head : 0..1, status : BOOLEAN, creating : BOOLEAN, removing : BOOLEAN]

\* The shape of the model's parts that outlive a message.
TypeOK ==
  /\ DOMAIN ui.rows \subseteq Paths /\ \A p \in DOMAIN ui.rows : ui.rows[p] \in Row
  /\ ui.remote \subseteq Hub /\ ui.creating \subseteq Paths \ Mains
  /\ ui.perspective \in Projects \cup {All} /\ ui.request \in Request
  /\ removal \in {None, "removed", "conflict", "refused"}
  /\ removal # None => ui.removalActive # None

\* A row whose removal was reported never comes back, whatever answer or overlay
\* was under way when the removal ended (docs/design/tui-projects.md:77, "These
\* rules prevent a slow background response from restoring a deleted row").
DeletedRowsStayDeleted == \A p \in DOMAIN ui.rows : Key(p, ui.rows[p]) \notin gone

\* The dashboard's part of it: such a row can only come back in the answer to a
\* query asked after the removal, if the daemon let it join an older flight.
OldAnswersRestoreNothing ==
  \A p \in DOMAIN ui.rows : Key(p, ui.rows[p]) \in gone => Key(p, ui.rows[p]) \in shared

\* A project is current only while every row of it that is shown came with the
\* status-bearing answer, through every merge: the status-free background
\* refresh never authorizes a mutation.
CurrentRowsHaveStatus ==
  \A p \in DOMAIN ui.rows :
    rowScopeCurrent(ui, p) /\ ~ui.rows[p].creating => ui.rows[p].status

\* A row says "removing" exactly while a removal of its generation is queued or
\* active: a flag left behind would refuse every key on the row for good, a flag
\* lost in a merge would let the user act on a worktree that is going away.
RemovingRowsAreQueued ==
  \A p \in DOMAIN ui.rows : ui.rows[p].removing <=> Key(p, ui.rows[p]) \in QueuedKeys(ui)

\* A worktree whose setup commands still run is never shown as usable: every
\* listing that discovers it, and every overlay that carries it, flags it.
\* Pending creations are known by path, so the end of one unflags a second one
\* at its path; two need a removal report that came after the first began.
UnfinishedWorktreesAreFlagged ==
  \A c \in creations :
    /\ c.kind = "create" /\ c.stage = "published" /\ c.dest = c.path
    /\ c.path \in DOMAIN ui.rows /\ c.path \in ui.creating
    => ui.rows[c.path].creating

\* What a row claims is so: the work under way on it, and that it is current.
RowsAreTrue ==
  CurrentRowsHaveStatus /\ RemovingRowsAreQueued /\ UnfinishedWorktreesAreFlagged

\* A fleet overlay only adds what the hub knows.  The rows it carries are as old
\* as its dispatch, and every change of a row since then must have retired it.
OverlayChangesNoRow == \A o \in overlays : DeliverFleet(o) => ui'.rows = ui.rows

\* Nothing is forgotten.  Once every command has returned, the refresh an action
\* asked for while a load ran has been served, although a removal that ended
\* meanwhile called that load off; the removal queue has been processed to its
\* end; and no spinner is left without a query behind it.
Quiet == queries = {} /\ overlays = {} /\ creations = {} /\ acts = 0 /\ removal = None

NothingIsForgotten ==
  Quiet /\ ui.removalActive = None =>
    ~ui.pendingRefresh /\ ui.removalQueue = <<>> /\ ~ui.fetching /\ ~ui.fleetPending
      /\ ui.creating = {}
----------------------------------------------------------------------------
(* What makes NothingIsForgotten inductive. *)

Rows == UNION {[paths -> Row] : paths \in SUBSET Paths}

Target == [path : Paths, row : Row]
Job == [path : Paths, gen : 0..MaxGen, from : SUBSET Paths]

Model ==
  [rows : Rows, remote : SUBSET Hub, perspective : Projects \cup {All},
   anchor : Paths \cup {None}, fetching : BOOLEAN, inventorySeq : Nat, loadSeq : Nat,
   request : Request, inventoryCurrent : BOOLEAN,
   fresh : [Projects -> [current : BOOLEAN, diagnostic : BOOLEAN]],
   global : [seen : BOOLEAN, current : BOOLEAN, diagnostic : BOOLEAN],
   backgroundStarted : BOOLEAN, fleetPending : BOOLEAN, pendingRefresh : BOOLEAN,
   creating : SUBSET Paths, removalQueue : Seq(Job), removalActive : Job \cup {None},
   refreshQueue : Seq(Request), prompt : Target \cup {None},
   confirm : [kind : {"delete", "kill"}, path : Paths, row : Row] \cup {None}]

Queries == [seq : Nat, request : Request, stage : {"asked", "observed", "failed"}, rows : Rows]
Creations == [kind : {"create", "sync"}, path : Paths, dest : Paths,
              stage : {"running", "published", "returned", "failed"}]

ModelIsTyped ==
  /\ ui \in Model
  /\ disk \in [Paths -> [gen : 0..MaxGen, head : 0..1]] /\ created \in [Paths -> 0..MaxGen]
  /\ cache \in Rows /\ queries \subseteq Queries /\ overlays \subseteq [seq : Nat, rows : Rows]
  /\ creations \subseteq Creations /\ acts \in Nat

\* What has been asked for has something under way that will serve it: a refresh
\* noted down during a load survives that load's end only while another removal
\* is to end, which starts the refreshes that removals asked for.
LoadsAreServed(u) ==
  /\ u.pendingRefresh => u.fetching \/ (u.removalActive # None /\ u.refreshQueue # <<>>)
  /\ u.removalQueue # <<>> => u.removalActive # None

NothingIsDropped ==
  /\ LoadsAreServed(ui)
  /\ ui.fetching => \E q \in queries : q.seq = ui.inventorySeq
  /\ ui.fleetPending => \E o \in overlays : o.seq = ui.loadSeq
  /\ ui.creating \subseteq {c.path : c \in {d \in creations : d.kind = "create"}}
  /\ removal # None => ui.removalActive # None

DashboardInv == ModelIsTyped /\ NothingIsDropped
=============================================================================
