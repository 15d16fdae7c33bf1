# Verification of kwt

kwt keeps git worktrees: it creates, lists, opens and removes them, keeps tmux
sessions and SSH connections for them, imports pull requests, and runs a
per-home daemon that other kwt processes share. Almost everything it guards
against comes from that shape: several short-lived commands, a daemon that is
replaced while it serves, plain files under file locks, and programs (git,
tmux, ssh, the user) that ask nobody. This directory models those protocols in
TLA+, checks them with TLC on small instances and proves the central invariants
with TLAPS for every value of the constants.

Paths below are relative to the repository (`internal/...`, `worktree/...`).

## The system and its components

| component | state | operations | correct if | module |
|---|---|---|---|---|
| operation hub (`internal/daemon/operation.go`) | operations by id, event logs, subscribers, prompts, loss timers, retention | start, emit, prompt, respond, cancel, subscribe, close, drain | one worker per id; a follower sees every event and one completion; no double close; drain ends | OperationHub |
| gate and host (`gate.go`, `host.go`) | reservations by kind, accepting/draining, deadlines | reserve, release, begin/abort drain, serve, close | a released drain stays quiet; a drain completes | DaemonHost |
| SSH lease registry (`ssh_lifecycle.go`) | leases with holds and timers, gate reservations | acquire, touch, hold, release, close | no lease in use is released; every unheld lease has a timer | DaemonHost |
| HTTP server (`server.go`) | none but the request it serves | route, authenticate, admit | nothing is served past the gate | DaemonHost, OperationHub |
| controller, runtime records (`controller.go`, `runtime.go`) | records, owner lock, start lock, processes | inspect, start, stop, restart, replace | one owner, always discoverable; a replaced daemon is gone before its successor | DaemonControl |
| build order (`build.go`) | none | compare | an order, so that clients settle on one daemon | BuildOrder, AutoReplacement |
| operation client (`operation_client.go`) | cursor, connection | follow, reconnect, answer, cancel | every event once, an answer only to its prompt | OperationFollow |
| daemon client (`client.go`, `internal/cmd/daemon_client.go`) | none | call, retry, reconcile a lost answer | a lost answer is not reported as the wrong outcome | InventoryQuery, SSHClient |
| worktree registry (`internal/registry`) | entries, creation lock files | claim, complete, release, acknowledge, compare-and-swap | a claim stays its owner's; remote content nobody opened stays flagged | CreationLock, WorktreeLifecycle, Doctor |
| worktree library (`worktree/`, `internal/worktree`) | git's worktrees, repository lock, identity of each worktree | create, remove, list, repair | only the selected generation is removed; a creation is left alone | WorktreeLifecycle |
| warm spares, quarantine, recovery (`warm.go`, `quarantine.go`, `recovery.go`, `registration*.go`) | a spare's registration, marker, native lock, files | prepare, claim, recover, prune, quarantine | a claim hands out a whole checkout; what others took is spared | WarmSpare |
| base sync (`base.go`) | a branch, its source ref, backups | sync | no commit is lost to a sync | BaseSync |
| projects (`internal/lifecycle/project_*.go`) | registrations, transition lock, identity fences | observe, guard, register, remove | an operation's registration stays; a removed project has no live session | ProjectFence |
| pull requests (`internal/pullrequest`, `internal/cmd/pr.go`) | provenance file under a lock | import, attach, open, roll back | imports converge, push to their source, and are not opened as plain worktrees | PullRequestImport, ProjectFence |
| prune (`internal/cmd/prune*.go`, `internal/prunepolicy`) | none | inspect, confirm, remove | only merged work, or expired worktrees, are removed | MergedPrune, WorktreeLifecycle |
| doctor, recover (`internal/maintenance`, `internal/cmd/doctor.go`, `projects_recover.go`) | none, they repair the stores above | inspect, fix, relocate | a repair loses no mark, record or registration in use; repairs settle | Doctor, ProjectRepair |
| inventory service and cache (`internal/lifecycle/service.go`, `cache.go`) | flights, generation, cached inventory | query, publish | a cache never gets older | InventoryQuery |
| SSH manager (`internal/ssh/manager.go`) | routes with leases, deadlines and heartbeats, one gate per identity | acquire, release, idle sweep, close | leases are counted exactly; no master goes under a lease; Close leaves none | SSHManager |
| SSH runner, askpass (`internal/ssh/runner.go`, `askpass.go`, `browser_authentication.go`) | a process, its socket, questions | ask, answer, refuse, close | answers in time, nothing left behind | SSHPrompt |
| ssh commands (`internal/cmd/ssh.go`) | a lease and its hold | exec, forward, lease | a process runs only over a held lease of the reviewed route | SSHClient |
| fleet (`internal/fleet`) | manifests of machines | build, publish, forget, join | what is shown was observed; collisions are flagged | FleetSync |
| tmux (`internal/tmux`) | sessions and their markers | resolve, build, repair, attach, kill | only a worktree's own sessions are opened or ended | TmuxSessions |
| TUI (`internal/tui`, `internal/cmd/tui_backend.go`) | the displayed inventory, request sequences, removal queue | load, merge, create, remove | a late answer changes nothing that is newer | Dashboard |
| configuration trust (`internal/config`) | files, trust store | resolve, ask, approve | only reviewed content applies | ConfigTrust |
| agent state, status, git wrapper, discovery, URLs, presentation | small files or none | read, write, parse, format | | none |

Interaction: a command finds or starts the daemon through the controller, calls
its HTTP server, whose handlers reserve at the gate; long work runs as an
operation of the hub, SSH connections stay as leases; both hold reservations
until they end, which is what a drain waits for. Commands and daemon write the
registry, the global configuration, the provenance file and the trust store,
each under its own file lock, and call git and tmux while they hold other locks:
the creation lock of a path, the repository lock, the transition lock of the
home, the fence of an identity.

The hard behaviours are therefore interleavings of processes between a read and
the act it justifies, crashes between the steps of an operation on several
stores, timers and callbacks that fire too late to be stopped, answers lost
after their effect, and waiting across several locks. `PROJECT.json` lists them
as hazards, each at its line, with the properties that cover it or the reason
none does.

## The plan

1. The daemon: hub, gate with host and leases, controller with records, build
   order. *Done, proved.*
2. The worktree stores: creation lock, claim and registry, creation and removal
   beside prune, doctor, rollback and plain git. *Done, proved.*
3. Projects: registration, fences, removal, guarded operations, provenance and
   protected sessions. *Done, proved.*
4. The clients: following an operation, the inventory service, SSH manager, SSH
   commands and prompts, the dashboard. *Done, proved but for what the rows of
   the dashboard say.*
5. The tools on one store each: warm spares and base branches, trust, fleet,
   merged prune, tmux sessions, pull-request imports, doctor, recovery of
   projects. *Done, proved but for the two repairs.*
6. More proofs, in order of value: `RowsAreTrue` (Dashboard), `RepairsAreSafe`
   (Doctor, ProjectRepair).

## Modules

Every module with a theorem, and what it uses, is free of RECURSIVE operators;
`MC*` modules hold model values and definitions for TLC only.

### The daemon

**OperationHub** models `operation.go` and the handlers of `operation_http.go`.
`entries` are operations in order of their start, several may share an
identifier after pruning; each has a log of events with sizes, subscribers with
a bounded channel, a prompt of one place, a loss timer with an epoch, and the
position of its worker. Each exported method that takes the hub's mutex is one
action; what happens after the mutex is given back (returning the reservation, a
handler's deferred close, a timer's callback waiting for the mutex) is another.

**DaemonHost** models `gate.go`, `host.go` and `ssh_lifecycle.go` and the
admission part of `server.go`: requests, operations and leases that reserve at
one gate, drains with their deadline, leases with holds, timers and clean-up,
and the registry's close. A callback that already fired is a state of its own,
because `Stop` does not reach it.

**BuildOrder** is `CompareBuilds`; **AutoReplacement** lets clients of several
builds act on it (`auto_restart = "newer"`).

**DaemonControl** models `controller.go` and `runtime.go`: daemon processes,
their records and the owner lock; commands with the start lock, their
observations and decisions; the `host.go` steps that take the lock, write the
record, remove it and exit; kills and lost answers. `Inspect` lists the records
in one step and then looks at each process in steps of their own.

**OperationFollow** is one client that follows one operation over a connection
that may break once (`FollowOperation`): the sequence it has acknowledged, what
it has shown and asked, the answer it is sending. The hub behind it is reduced
to a log, an open prompt and an end.

**InventoryQuery** is `InventoryService` with the loads that equal requests
share, their generations, `publishDashboard` in the two steps its mutexes make
of it, the cache in memory and on disk, restarts, and a removal whose response
is lost and reconciled by a query.

### Worktrees and their stores

**CreationLock** models the creation lock of `internal/registry` at the level of
inodes (open, lock, compare, unlink, unlock), because `release` unlinks before it
unlocks. **CreationOwnership** is what it promises: one owner of the path. The
worktree model uses the lock as one atomic ownership, justified by that
refinement.

**WorktreeLifecycle** models one path of one repository: the registry's entry
with its claim, the worktree with its generation, the unreviewed flag, and
processes that create (local or from a remote branch, with hooks), remove by
selection, prune by expiration, fix with doctor, open and acknowledge, roll
back a dashboard creation, or crash at any step. `origin` and `seen` are history
variables: where the content came from and whether anybody opened it.

**WarmSpare** is a spare checkout at one path: registration with marker and
native lock, files that may be partial, pool lock and repository lock, and the
processes of `PrepareWarm`, `ClaimWarm`, `Recover`, `PruneRegistration` and
`Quarantine`, any of which may die. **BaseSync** is `SyncBase`, with a commit
history, beside a native Git that commits, resets, deletes and checks out.

**Doctor** is `kwt doctor --fix` on a repository: records, backlinks and entries
of three paths and an alias, inspected without a lock and repaired one by one,
beside git, the user and creations from unreviewed sources.
**ProjectRepair** is its repair of registrations and `kwt projects recover`.

**MergedPrune** follows one path through `prune --merged`: inspection, evidence
of the provider as `EvaluateMerged` classifies it, confirmation, guards, the
last check of the removal's conditions, git's removal as a step of its own, and
the clean-up of the record. Between the last two nothing holds the user back: what
is committed or changed there is git's to refuse, and the property speaks of what
the check saw.

**ConfigTrust** is the trust of a `.kwt.toml`: prompt, approval that reads the
file again, the store under its lock, and the loop of the command line.

### Projects and pull requests

**ProjectFence** models one project path: the raw registration, the transition
lock, the fences of each identity and of the path, an imported worktree, its
provenance under the store's lock and its protected session. Processes create,
import, attach, prune, remove and register; git and tmux change worktree and
session by themselves. **ProjectAuthority** is what it promises: no session
without a registration, no unregistration under a session.

**PullRequestImport** is one project's import service: `Import` with what it
finds recorded, branch names, creation, the routing of pushes, save, roll-back,
crashes; `attach` with what its client expects; `open` that must refuse. An
import may be guarded (`--expected-registration`): then it begins only under the
registration it prepared with, and otherwise under any of that name or identity.
The repository may be renamed once, pull requests may move, worktrees be moved,
switched and removed.

### Connections, sessions, display

**SSHManager** models `manager.go`: per identity (one hop of a route) the managed
route with its generation, lease count, idle deadline and heartbeat, the live
master, and the gate that serialises operations; callers lease the hops of a
chain in order, roll back, release the last hop first and retry what failed; the
sweep and Close visit the deepest hop first. Where the code works under a gate or
under `m.mu` is one action, so that what it checked before the gate may be out of
date. **SSHPrompt** is one run of ssh with its helpers, **SSHClient** the
commands over a lease, with daemons that drain, die and are replaced.

**FleetSync** has machines that build manifests project by project while
worktrees change, a hub that stores one per host identifier, and the joined rows.
A machine has a host name and platform (`info`), which is all the hub compares:
two machines that share both, and with them the default `host_id`, replace each
other's file without a warning, in the model as in the code.

**TmuxSessions** has sessions with the markers of their bootstrap on kwt's
server, the default one and an import's sockets; opening, repair, guarded
removal, clean-up, and a user who ends, renames and moves.

**Dashboard** is the Bubble Tea model as a record and each handler as an operator
on it; queries, overlays, creations and removals run beside it and answer in any
order. `gone` and `shared` are history: what was removed, and what came in an
answer that the daemon shared with an older query.

| module | proofs | proved |
|---|---|---|
| OperationHub | OperationHubProofs | types; one worker per id and a reservation for all work; no double close, `Respond` never blocks; one completion per terminal log; subscribers see every event; retention is bounded; a detached operation gets its whole grace period |
| DaemonHost | DaemonHostProofs | types; a released drain is quiet; connections are counted; close is complete; timers |
| AutoReplacement | AutoReplacementProofs | no two builds are mutually newer; comparable builds settle |
| DaemonControl | DaemonControlProofs | types; owners are discoverable; no phantom conflict; replacement waits; unproven order never replaces |
| WorktreeLifecycle | WorktreeLifecycleProofs | types; a claim is kept; removals are fenced; what is created stays marked and is left alone |
| ProjectFence | ProjectFenceProofs | types; claims stay current; endpoints stay known; implements ProjectAuthority |
| CreationLock, ConfigTrust, OperationFollow, InventoryQuery | ServicesProofs | confirmed owners are linked, implements CreationOwnership; only reviewed content applies; what a follower shows is the log; errors are current, loads are counted, the cache never goes back |
| WarmSpare, BaseSync, MergedPrune, FleetSync | ServicesProofs | spares are prepared undisturbed, claimed whole and stay of use, others' work at the path is spared; a branch loses no commit to a sync, whose outcome is true; only merged work is pruned, later imports keep their record; manifests are observed, rows are joined, a host file taken over by another name or platform is flagged |
| TmuxSessions, PullRequestImport | ServicesProofs | no marker lies, a guarded removal leaves no session, only a worktree's own are ended or opened; opens avoid imports, an import is recorded once, pushes return, roll-backs take their own |
| SSHPrompt, SSHClient, SSHManager, Dashboard | ClientsProofs | prompts stay within their limits and end; a command runs on a lease that is its own; no master under a lease is cut and Close leaves none; nothing the dashboard was asked for is forgotten |

## The runs

Counts are distinct states. Three runs explore components that share no state:
each behaviour picks one (`focus`) and keeps its variables in slots that all of
them use, so a run is the union of their state spaces and a property says
something of one of them.

| run | instance | shows |
|---|---|---|
| hub_streams | 1 operation, 2 subscribers, 4 events, 7 bytes, sizes to 2; 1.31 M | streams, channels, timers and prompts. Four events and two subscribers are enough for an overflow, a replay joined to live dispatch, and a completion that displaces events at both limits |
| hub_operations | 3 operations of 2 identifiers, 2 active, 1 retained; 370 k | identifiers reused after pruning, admission at the limit, retention, reservations |
| hub_liveness | 1 operation, 1 subscriber, 3 events, fair; 109 k | drains end, abandoned operations end, streams of finished operations are given back |
| host_drain | 1 request, 1 lease, 2 holds, 2 timers pending at once, fair; 265 k | drain beside racing requests, operations and leases; two pending timers let a stale one meet a current one, and a lease may be rescheduled without end |
| control_races | 2 daemons, 2 commands, 1 build, fair; 218 k | an owner stays discoverable, commands end |
| worktree_races | 2 processes, 3 operations, fair; 398 k | claims, flags, removals and creations; three operations give a leftover of the first to two that race |
| project_fences | 2 processes, 4 operations with that of the initial state, fair; 431 k | guarded operations, registrations and removals over two identities and one path |
| services | ten components; 3.17 M | creation lock (3 processes: an owner that leaves, one with the old file, one with a new one), followed operation (5 events, one reconnection), trust (2 clients, 2 files, 2 edits), inventory (3 loads, 2 worktrees, 1 fault), fleet (3 machines, 2 spellings), warm spare (2 spares, 1 crash, 2 touches), base branch (3 commits, 2 syncs), merged prune (2 heads, 2 requests), tmux (2 sessions, 2 worktrees, 2 directories), imports (1 importer, 1 visitor, 2 worktrees, 2 acts of provider or user) |
| clients | four components; 1.37 M | SSH manager (2 callers, a jump host, 3 masters), ssh prompts, ssh commands (retry at another daemon), dashboard (2 commands, 1 outside change, 1 failure) |
| maintenance | three components; 1.59 M | controller with 3 daemons and 3 builds, one of unknown order; doctor (3 paths, an alias, 2 worktrees, 2 runs, 2 steps of others); registrations (2 concurrent runs of doctor or recover) |
| dashboard_revival | the dashboard with a daemon that shares equal queries | *violation*: see Findings |
| replacement_mixed | 3 builds, one without a version | *violation*: see Findings |

The bounds cap operations, events, schedules, inodes and acts of others in
guards; none stops an operation half way. In every module the interesting
meetings are of two actors over something a third step left behind, which is
what the instances hold: one act of the user between a look and an act, two
operations that overlap, a third that finds what they left.

`CHECK_DEADLOCK FALSE` is set where all operations may be spent or a daemon has
stopped for good; that nothing waits for ever is a liveness property there.

What the conjunctions say. `HubNeverWedges`: no channel closed twice or sent to
when closed, no second answer in a prompt's one place. `QuietShutdown`,
`ConnectionsAndReservationsAgree`, `HostSettles`: the gate's counts the end of a
drain, and of a lease nobody uses. `CreatedIsProtected`: what a creation is making is not listed,
adopted or removed, and what nobody reviewed stays flagged. `InventoryIsConsistent`:
`ErrorsAreCurrent`, `LoadsAreCounted`, `ReportedRemovalsHappened`,
`CacheNeverGoesBack`. `FleetIsTrue`: what the hub stores was observed, a dashboard
shows a branch in one row with every host that has it and none that never had
it, a manifest of another name or platform leaves a warning. `SparesAndBasesAreSafe`: `ResetIsUndisturbed`,
`ClaimsAreComplete`, `OthersAreSpared`, `InterruptedSparesAreUsable`,
`OutcomeIsTrue`, `HistoryIsKept`. `PruneIsSafe`: `OnlyMergedWorkIsLost`,
`LaterImportsKeepTheirRecord`. `SessionsAreKept`: markers never lie, a guarded
removal finds no session, only its own are ended or opened, a clean-up that
reports success is complete. `ImportsAreProtected`: `OpensAvoidImports`,
`OneImportIsRecorded` (while the project is registered under its old name: two
imports on either side of a renaming and re-registration are two records by
design), `PushesReturnToTheirSource`, `RollbacksTakeTheirOwn`,
`GuardedAttachmentsAreExact`. `ConnectionsAreKept`: leases are counted exactly,
no master under a lease is cut, Close leaves none. `RepairsAreSafe`:
Doctor's `UnreviewedStaysMarked`, `ExpirationIsOfItsWorktree`,
`CreationKeepsItsEntry`, `RepairsSettle`, `PruneSparesCheckouts` and
ProjectRepair's `RepairsAreSound`, `RepairsSettle`, `RecoveryIsTruthful`.

Fairness. Hub: goroutines, timers and handlers that see their stream closed
take their steps, a cancelled worker returns. Host: goroutines, deadlines and
timers; releasing a connection has a timeout; clients owe nothing, and nothing is
assumed of the outcome of a clean-up: it may fail and be rescheduled for ever.
`DrainCompletes` holds all the same. `UnheldLeasesAreReleased` cannot, and states
its two premises in the formula: clean-ups of the lease that are tried again and
again succeed in the end, and from some moment on no client touches it. Control:
processes and commands take their steps, a drain ends (shown in host_drain),
polling has a deadline. Worktrees and projects: every process takes the step it
can take (`WF(Step(p))`); locks are polled or tried and git and tmux calls end.
A process is not starved at a lock because the operations are finitely many.
Users, crashes, kills, plain git and tmux are never fair. The other modules
state safety; where the end of something matters it is stated of quiet states
(`NothingIsForgotten` of the dashboard, `RepairsSettle`, `OutcomeIsTrue`).

## Findings

*dashboard_revival*: `InventoryService.Query` answers equal requests with one
flight (`internal/lifecycle/service.go:67`). The dashboard drops the answers of
superseded queries by their sequence, but the refresh it asks for when a removal
ends may equal the one it superseded; while that still loads, the new one joins
it and is answered, as fresh, with what was seen before the removal. The deleted
row comes back, against `docs/design/tui-projects.md:77`. That no other way
restores a row (`OldAnswersRestoreNothing`) is part of `RowsAreTrue` in the
clients run.

*replacement_mixed*: `CompareBuilds` compares by version when both builds have
one and by source time otherwise. That is not transitive once a build stamped
with a bare hash takes part, so the clients of three builds keep draining each
other's daemon, where `docs/design/daemon.md:22` says they share the newest.
For builds with comparable versions it is proved that they settle
(`ReleasesSettle`).

Seen while modelling, stated in the modules or here but not run:

- `AcknowledgeRemoteSource` clears the mark of whatever entry the path has, a
  provisional one included. If a creation from a remote branch has claimed the
  path while an older checkout there is opened and deleted, its content ends up
  unflagged although nobody opened it (`UnreviewedIsFlagged` of
  WorktreeLifecycle, `internal/registry/registry.go:774`).
- A second import replaces the one record of a pull request, so the worktree of
  the first, if plain git moved or switched it, may be opened by `kwt open`
  (`OpensRefuseImports` of PullRequestImport,
  `docs/reference/pull-requests.md:36`).
- Two publications of one host that overlap may leave the older manifest at the
  hub (`LatestManifestIsKept` of FleetSync). A project whose listing fails is
  left out of the manifest without a word.
- A removal whose response was lost may be settled by joining a load that began
  before it (`docs/reference/cli.md:701`).
- `doctor` removes a stale duplicate registration without looking again whether
  the entry it duplicates is still there; `RegisterProject` may itself make two
  entries for one path when an earlier one has the same identity.
- `kwt projects recover --to` of a path registered under a weak identity answers
  `registration_changed` though nothing changed.
- After a prompt has expired, its reader still waits on standard input and may
  swallow the next answer (`internal/cmd/ssh.go`).

## Proofs

Each is an inductive invariant, found with TLC and proved for any number of
processes and any bound, from the named assumption of the module.

- *Hub*: `WorkInv` ties positions of workers to identifiers and reservations,
  `PromptInv` bounds what was sent on a prompt, `LogInv` says where a completion
  may stand, `ChannelInv` ties a channel's state to the subscriber map, and
  `GraceInv` compares the token of the last attachment with that of the loss
  timer. None of the checked properties is inductive without them: a completion's
  position follows only if a terminal operation cannot emit again; a subscriber
  sees every event because its queue and what it has read continue what it was
  replayed, and one whose channel was full is no subscriber any more.
- *Host*: `CountInv` counts the reservations of each kind against their holders
  (a drain is quiet because the count is exact), `ReleasedInv`, `CloseInv`,
  `TimerInv`.
- *Replacement*: `RankInv`, the rank of the running build only grows.
- *Control*: `OwnerInv` (owner lock and record), `LookInv` (what an Inspect in
  progress may still find), `TargetInv`, `AskInv`.
- *Worktrees*: types, no claim for generation 0, and `Sound(p)`, what each
  process knows at each position; `Frame(p)` is what its steps leave to others,
  so each action is proved once and not against every other. For what a creation
  makes, `KInv` adds three facts: a number that has not been stamped yet is used
  nowhere (`NumbersAreFresh`); what a removal or a fix means to drop is not the
  entry of a worktree still to be opened (`DropsAreSafe`: it read the entry when
  that worktree was not there, or under an earlier identity); and no rollback is
  of the worktree another creation has just made (`UndoIsSafe`). Fencing alone
  does not give this: it compares with what was read, and says nothing of when.
- *Projects*: the same shape: a process behind its fences holds all it wants,
  and its registration is the entry; for the refinement, `Found(p)`: what a
  removal has read and probed stays true while its entry is there, because every
  writer of the provenance or of a session holds a fence the removal holds too.
  None of it assumes that origin stays: a registration takes the fence of the
  path and a removal that of the identity the entry was observed under, so for
  an entry that names its repository the theorems hold wherever origin points.
  For one that names none they say what is left: it is not replaced, and it
  stays, and the refinement holds for its steps too, if origin is not repointed
  behind a fence (`origin` is then its only name). `KInv` adds
  what is known of the worktree: an operation's number is its own, an import has
  saved its record before it starts the session, and a record is forgotten only
  when the worktree is gone.
- *Creation lock*: `LockInv` (who has which inode open and locked), and every
  step of the lock is one of the abstract ownership or none.
- *Trust*: `TrustInv`: what the store approves was shown to a client with that
  content, and a client's decision is about what it read; approvals of two
  clients do not lose each other because the store is read and written under its
  lock.
- *Following*: `FollowInv`: an open prompt is the last event and no end precedes
  an event; a client has shown what is acknowledged and the event it handles, so
  a reconnection continues without a gap or a repetition.
- *Inventory*: `QueryInv`: loads under way are ordered by their generation, only
  the holder of the publication lock stores, and nothing later than its load is
  stored; a removal is settled by a load that began after its response was lost.
- *Prompts*: `PromptInv`: what a run has to clean up follows from where it is,
  and the count of rounds is the number of helpers that asked.
- *SSH commands*: `ClientInv`: only the last attempt of a command may have a
  lease that is alive, and it is of the reviewed route; while the stream of a
  hold is open its lease is held and the daemon serves.
- *SSH manager*: `ManagerInv`: leases are counted exactly (a set of callers per
  hop, so the count is a cardinality and each step adds or takes one element); a
  caller leases its path in order (`CallerIsSound`); who connects or disconnects
  holds the gate (`HolderIsSound`); the masters a master goes through live and
  have a route (`MasterIsSound`), which is why a release from the far end or a
  sweep never cuts a transport; Close comes by every master and every
  acquisition under way (`CloseIsSound`). For any number of callers and hops,
  where the identity of a hop determines the hops before it (it digests them).
- *Dashboard*: `DashboardInv`: what is wanted has something under way that will
  serve it (`LoadsAreServed`), every spinner has its query, every placeholder its
  creation. `RemovalEnds` and `StartsLoad` state what the handlers do to these
  once, so that the proof of a handler does not open the others.

- *Warm spares*: `WarmInv`: at every position a process knows which lock it has
  and what it remembers of the registration (`Knows`). A step of another process
  keeps that (`Keeps`, `OtherKnows`) because the native lock of a spare is
  written and taken off by preparations alone, and a number is never made again.
  While only kwt touched the path a spare is as its marker says
  (`SpareIsUsable`), wherever crashes cut its preparation short. The processes
  may overlap: one that both claims and recovers is covered.
- *Base sync*: `BaseInv`: past the reading of the branch its old tip is in the
  history of the source or in a backup. Native Git may change anything between
  two steps, but only adds to the history of a commit (`CommitsExtend`), which
  is why `History` is written as what every set closed under parents contains.
- *Merged prune*: `PruneInv`: the candidate was merged when it was inspected, and
  merged stays merged; past the guard no session runs there; a record that a
  later import wrote has a later generation than the candidate's.
- *Fleet*: `FleetInv`: whatever is on its way to the hub (a request, the file to be
  renamed, the store) is what its publisher observed once, and a file about to
  take the place of one of another name or platform warns of it.
- *Tmux*: `TmuxInv`: a marker tells the worktree a session was made for or nothing
  (`SessionIsSound`); who opens or removes has the lock while its worktree is
  there (`HasLock`), so what bears the name it asks for is the worktree's
  (`HasSession`); a guarded removal has cleared the servers behind it
  (`HasCleared`), and a sweep has every name still left on its list, or knows
  that a server kept silent (`HasListed`).
- *Imports*: `ImportInv`: the claim has one holder; records stand under the present
  name of their repository (`RecordsAgree`), so an import finds the one there is
  (`KnowsProject`); the file about to be written forgets no worktree but the one
  it replaces (`KnowsFile`); and a worktree made and not yet recorded is named by
  no record, so a roll-back takes its own (`KnowsItsOwn`).

The assumptions on constants (`Assumption`, `ClientsAssumption`,
`FenceAssumption`, ...) say that bounds are natural numbers, that sets whose
elements are counted are finite, that a publisher runs on a machine, and that
the markers "nobody" and "none" are not processes, leases, jobs or records.

Only model-checked: liveness under fairness and ENABLED, which the prover does
not reach (`DrainReleasesEveryWorker`, `NothingIsHeldForever`, `HostSettles`,
`CommandsEnd`, both `OperationsEnd`); and for want of a proof so far
`RowsAreTrue` and `RepairsAreSafe`.

## Abstractions and assumptions

- No process number is reused while an Inspect runs; a directory listing is
  atomic; an incompatible daemon answers like an unresponsive one;
  `auto_restart = "newer"` (the other settings only drop replacements).
- Events, records and configurations are what the properties tell apart: an
  event is a kind and a size, a build the fields it is compared by, a
  registration its identity and a stamp for the rest of the entry. The stamp may
  repeat, because `last_touched` counts seconds.
- *Builds and control*: a revision time that does not parse counts as unknown.
  A daemon's own states "failed" and "incompatible" (`host.go:347`) and a failing
  removal of its record (`host.go:505`) are left out of `LeaveOwner`; a record
  that stays is a stale one, which Inspect removes.
- *Trust*: a prompt shows the content, in the code its first 4096 bytes
  (`trust.go:247`), so "shown" says no more than that of a longer file.
- *Worktrees*: whether the path is there is read with the release of the mutex
  (`GiveUp`), in the code right after it (`worktree.go:198`). The number of an operation stands for its token, time and
  generation; one path of one repository; opening a worktree and acknowledging it
  are one step; a git child ends with its process. Left out: session guards,
  branch deletion, remounts.
- *Projects*: one path, one pull request, two repositories; each worktree
  generation has an endpoint of its own; in the run origin
  is repointed only while no fence is held (`RepointsAnytime` lifts this, and then
  a removal may run beside an operation whose entry names no repository: a hazard
  without property); edits of the configuration by hand are
  left out.
- *Inventory*: requests are reduced to two dashboards and one repository view.
  *Following*: the hub to log, prompt and end.
- *Warm spares*: a `git reset` that outlives its process is not modelled; the
  evidence check and the RemoveAll are one step; a crash inside git's own
  `worktree add`, and a claim killed after it attached a branch, leave a spare
  nobody can use; `Recover` that only adopts changes nothing. `Recover` is public
  and nothing in the repository calls it: its caller is taken to name a workspace
  it owns (`CallersOwn`), never a spare that is still the pool's, where
  `recovery.go:57` itself does not ask.
- *Base sync*: a sync's commands fail only by cancellation; between its last look
  and its write native Git may check the branch out, as the code says.
- *Fleet*: a forgotten host comes back with its next publication.
- *Merged prune*: one path; what the inventory found is one value; the provider
  fails as it likes; dry runs are left out.
- *Tmux*: a worktree's session has a generation (sessions of directory
  workspaces do not); a session half built by a crash after its bootstrap is
  attached as it is; users rename only marked sessions; resolution reads all
  servers in one step, since `ensure` looks again; attaching by name after the
  lock is given back is not covered.
- *Imports*: the claims of a project are exclusive, so its imports, attachments
  and opens come one after the other; an open looks up the provenance outside
  the claim but waits for the store's lock; an importer that dies between git's
  import and the save leaves an unrecorded import, which open accepts. One clone;
  every record has a generation.
- *SSH manager*: one reviewed route identity with one chain; a caller whose
  rollback could not release a lease keeps it counted and does not return. Two
  behaviours stay outside the properties on purpose: a refused acquisition and an
  immediate release ask only for leases of the hop itself, not for connections
  through it as the sweep does; and a sweep that finds a route through a hop
  schedules no other. Not modelled: masterless leases, heartbeats in flight, the
  directory that `PublicService.Close` removes.
- *SSH prompts and commands*: removing the askpass directory (`askpass.go:202`) and
  the client's configuration (`runner.go:118`) succeeds. What questions say, host keys and the encoding are
  abstracted; ssh succeeds only when its helpers are done; a lease may expire at
  any time when it is not held; a broken hold may be noticed after ssh's exit.
- *Dashboard*: creations are known by path, so a late removal report drops the
  placeholder of a creation at its path and the end of one creation unflags
  another there; the cursor is left to the user; the legacy merge functions that
  nothing calls, filters, layout and directory workspaces are left out; `b.mu` is
  modelled only from publication to return; attaching to an existing session
  while the rows are not current (`model.go:1590`) is left out.
- *Doctor*: locked worktrees, findings about the identity of a repository and
  inspections that fail are left out; the reservation of a repository lasts from
  `AddTree` to `CompleteCreation`; `git worktree repair` is a step after the look
  it was decided on; worktrees that vanish between the last look
  and git's own prune are excepted. *Registrations*: a path stands for what it
  resolves to; reading the entries and looking at the path are one step, as is
  recover's confirmation; a path that exists but is no directory is left out.

## Not modelled

- Agent state: a hook writes one option of a tmux pane, the last write wins.
- Status collection: a bounded pool of git queries and the parsing of output.
- Git wrapper, discovery, finder, URLs, templates, tables, duration parsing:
  external commands and pure functions; their effects are in the models that
  call them.
- SSH: parsing of the OpenSSH configuration, projection of a route, platform
  code; tmux layouts, nested attachment, stripping of credentials.
- Of the command line: argument parsing, output, `get`, `config`, shell
  integration, completion; `pr list`; dry runs.
- Registry files and provenance records of older releases.
