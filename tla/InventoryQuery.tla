--------------------------- MODULE InventoryQuery ---------------------------
(***************************************************************************)
(* The daemon's inventory and the client that asks it: InventoryService    *)
(* and its cache (internal/lifecycle/service.go, cache.go), the load it    *)
(* shares among equal requests (source.go), and the worktree removal whose *)
(* response may be lost (internal/daemon/client.go).                       *)
(*                                                                         *)
(* Requests with equal options share one load, which goes on when those    *)
(* who asked are gone.  A dashboard load has a generation; only the newest *)
(* may fill the cache or say what went wrong, but loads overlap and end in *)
(* any order.  A removal whose response is lost is settled by asking for   *)
(* the inventory of the repository.                                        *)
(***************************************************************************)
EXTENDS Naturals, FiniteSets

CONSTANTS
    MaxLoads,       \* loads ever begun
    MaxWorktrees,   \* generations of the worktree at the path
    MaxFaults       \* failed loads and stores, and restarts of the daemon

\* Equal requests have equal keys: two dashboards, as clients with different
\* environments ask for them, and the repository view that settles a removal.
Dashboards == {"here", "elsewhere"}
Keys == Dashboards \cup {"repository"}

VARIABLES
    worktree,   \* the generation at the path, 0 when there is none
    begun,      \* generations made so far
    loads,      \* the load each key shares, or Idle
    loadCount,  \* names loads in the order they began, across restarts
    active, dashboardGeneration, last, cache,   \* InventoryService
    disk,       \* the cache file
    publishing, \* the key that holds publishMu, or NoOne
    removal,    \* the removal's progress, expectation and report
    good,       \* the newest load whose success was published
    faults

service == <<loads, loadCount, active, dashboardGeneration, last, cache, disk, publishing, good>>
vars == <<worktree, begun, service, removal, faults>>

NoOne == "no one"
NoLoad == 0
Idle == [name |-> NoLoad, generation |-> 0, phase |-> "idle", saw |-> 0]
Empty == [load |-> NoLoad, saw |-> 0]

Loads == [name : 0..MaxLoads, generation : 0..MaxLoads, saw : 0..MaxWorktrees,
          phase : {"idle", "loading", "loaded", "failed", "storing", "noting"}]
Stored == [load : 0..MaxLoads, saw : 0..MaxWorktrees]
Removals == [pc : {"idle", "sent", "served", "refused", "lost", "reconcile", "reported"},
             pending : BOOLEAN, expected : 0..MaxWorktrees, since : Nat,
             report : {"none", "removed", "refused", "kept", "unknown", "removed by an older load"}]

TypeOK ==
    /\ worktree \in 0..MaxWorktrees /\ begun \in 0..MaxWorktrees
    /\ loads \in [Keys -> Loads] /\ loadCount \in 0..MaxLoads
    /\ active \in 0..2 /\ dashboardGeneration \in 0..MaxLoads
    /\ last \in 0..MaxLoads /\ good \in 0..MaxLoads
    /\ cache \in Stored /\ disk \in Stored
    /\ publishing \in Keys \cup {NoOne}
    /\ removal \in Removals
    /\ faults \in Nat

Init ==
    /\ worktree = 1 /\ begun = 1
    /\ loads = [k \in Keys |-> Idle]
    /\ loadCount = 0 /\ active = 0 /\ dashboardGeneration = 0
    /\ last = NoLoad
    /\ cache = Empty /\ disk = Empty
    /\ publishing = NoOne
    /\ removal = [pc |-> "idle", pending |-> FALSE, expected |-> 0, since |-> 0, report |-> "none"]
    /\ good = NoLoad
    /\ faults = 0

Fault == faults < MaxFaults /\ faults' = faults + 1

-----------------------------------------------------------------------------
(* InventoryService.                                                       *)

\* DoChan: an equal request joins the load under way, or begins one.  A
\* dashboard load counts itself and takes the next generation.
Ask(k) ==
    /\ IF loads[k] # Idle
       THEN UNCHANGED <<loads, loadCount, active, dashboardGeneration>>
       ELSE /\ loadCount < MaxLoads /\ loadCount' = loadCount + 1
            /\ IF k \in Dashboards
               THEN active' = active + 1 /\ dashboardGeneration' = dashboardGeneration + 1
               ELSE UNCHANGED <<active, dashboardGeneration>>
            /\ loads' = [loads EXCEPT ![k] =
                  [name |-> loadCount', generation |-> dashboardGeneration',
                   phase |-> "loading", saw |-> 0]]
    /\ UNCHANGED <<last, cache, disk, publishing, good>>

\* A client's request.  What the cache can answer changes nothing here, and
\* neither does a client that joins a load or leaves one (ctx.Done).
Query(k) ==
    /\ loads[k] = Idle
    /\ k = "repository" => removal.pc # "reconcile"
    /\ Ask(k)
    /\ UNCHANGED <<worktree, begun, removal, faults>>

\* Source.Load reads the repositories, or fails or runs out of time.
Load(k) ==
    /\ loads[k].phase = "loading"
    /\ \/ /\ loads' = [loads EXCEPT ![k].phase = "loaded", ![k].saw = worktree]
          /\ UNCHANGED faults
       \/ Fault /\ loads' = [loads EXCEPT ![k].phase = "failed"]
    /\ UNCHANGED <<worktree, begun, loadCount, active, dashboardGeneration, last, cache, disk,
                   publishing, good, removal>>

\* The load has ended: everyone who waits on the key has its result.
Deliver(k) ==
    /\ loads' = [loads EXCEPT ![k] = Idle]
    /\ active' = IF k \in Dashboards THEN active - 1 ELSE active

newest(k) == loads[k].generation = dashboardGeneration

\* setDashboardDiagnostic: a failure is remembered if nothing newer has begun.
Fail(k) ==
    /\ k \in Dashboards /\ loads[k].phase = "failed" /\ publishing = NoOne
    /\ last' = IF newest(k) THEN loads[k].name ELSE last
    /\ Deliver(k)
    /\ UNCHANGED <<worktree, begun, loadCount, dashboardGeneration, cache, disk, publishing,
                   good, removal, faults>>

\* A faulty form of BeginPublish: whoever ends publishes.
BeginPublishInAnyOrder(k) ==
    /\ k \in Dashboards /\ loads[k].phase = "loaded" /\ publishing = NoOne
    /\ publishing' = k
    /\ \E phase \in {"storing", "noting"} : loads' = [loads EXCEPT ![k].phase = phase]
    /\ UNCHANGED <<worktree, begun, loadCount, active, dashboardGeneration, last, cache, disk,
                   good, removal, faults>>

\* publishDashboard, under publishMu: an older load is delivered, and no more.
\* Only a dashboard with the sockets of protected workspaces is stored.
BeginPublish(k) ==
    /\ k \in Dashboards /\ loads[k].phase = "loaded" /\ publishing = NoOne
    /\ IF newest(k)
       THEN /\ publishing' = k
            /\ \E phase \in {"storing", "noting"} : loads' = [loads EXCEPT ![k].phase = phase]
            /\ UNCHANGED active
       ELSE Deliver(k) /\ UNCHANGED publishing
    /\ UNCHANGED <<worktree, begun, loadCount, dashboardGeneration, last, cache, disk, good,
                   removal, faults>>

\* Store renames the new file into place before it changes the copy in memory;
\* a failure keeps both, and becomes the diagnostic.
Store(k) ==
    /\ loads[k].phase = "storing"
    /\ \/ /\ disk' = [load |-> loads[k].name, saw |-> loads[k].saw]
          /\ cache' = disk'
          /\ loads' = [loads EXCEPT ![k].phase = "noting"]
          /\ UNCHANGED <<last, publishing, active, good, faults>>
       \/ /\ Fault
          /\ last' = IF newest(k) THEN loads[k].name ELSE last
          /\ publishing' = NoOne
          /\ Deliver(k)
          /\ UNCHANGED <<cache, disk, good>>
    /\ UNCHANGED <<worktree, begun, loadCount, dashboardGeneration, removal>>

\* The success clears the diagnostic, unless something newer has begun by now.
EndPublish(k) ==
    /\ loads[k].phase = "noting"
    /\ last' = IF newest(k) THEN NoLoad ELSE last
    /\ good' = IF newest(k) THEN loads[k].name ELSE good
    /\ publishing' = NoOne
    /\ Deliver(k)
    /\ UNCHANGED <<worktree, begun, loadCount, dashboardGeneration, cache, disk, removal, faults>>

\* The daemon is replaced: the new one starts from the cache file.
Restart ==
    /\ Fault
    /\ loads' = [k \in Keys |-> Idle]
    /\ active' = 0 /\ dashboardGeneration' = 0 /\ last' = NoLoad
    /\ cache' = disk
    /\ publishing' = NoOne
    /\ removal' = [removal EXCEPT !.pending = FALSE,
                     !.pc = CASE @ \in {"sent", "served", "refused"} -> "lost"
                              [] @ = "reconcile" -> "reported"
                              [] OTHER -> @,
                     !.report = IF removal.pc = "reconcile" THEN "unknown" ELSE @]
    /\ UNCHANGED <<worktree, begun, loadCount, disk, good>>

-----------------------------------------------------------------------------
(* RemoveWorktree and its reconciliation.                                  *)

\* The request names the generation its caller has seen.
SendRemoval ==
    /\ removal.pc \in {"idle", "reported"} /\ ~removal.pending /\ worktree # 0
    /\ removal' = [pc |-> "sent", pending |-> TRUE, expected |-> worktree, since |-> 0, report |-> "none"]
    /\ UNCHANGED <<worktree, begun, service, faults>>

\* The daemon removes that generation and no other, even when nobody waits
\* for the response any more.
ServeRemoval ==
    /\ removal.pending
    /\ worktree' = IF worktree = removal.expected THEN 0 ELSE worktree
    /\ removal' = [removal EXCEPT !.pending = FALSE,
                     !.pc = IF @ # "sent" THEN @
                            ELSE IF worktree = removal.expected THEN "served" ELSE "refused"]
    /\ UNCHANGED <<begun, service, faults>>

RespondRemoval ==
    /\ removal.pc \in {"served", "refused"}
    /\ removal' = [removal EXCEPT !.pc = "reported",
                     !.report = IF removal.pc = "served" THEN "removed" ELSE "refused"]
    /\ UNCHANGED <<worktree, begun, service, faults>>

\* The connection breaks, with the request served, being served or never read.
LoseResponse ==
    /\ removal.pc \in {"sent", "served", "refused"}
    /\ removal' = [removal EXCEPT !.pc = "lost"]
    /\ UNCHANGED <<worktree, begun, service, faults>>

\* reconcileRemoval asks for the repository: its request may find an equal one
\* under way, and "since" keeps the first load that begins after it.
Reconcile ==
    /\ removal.pc = "lost"
    /\ Ask("repository")
    /\ removal' = [removal EXCEPT !.pc = "reconcile", !.since = loadCount + 1]
    /\ UNCHANGED <<worktree, begun, faults>>

\* A generation that is missing was removed; one that is there was not.
SettleRemoval ==
    /\ loads["repository"].phase \in {"loaded", "failed"}
    /\ removal' = IF removal.pc # "reconcile" THEN removal
                  ELSE [removal EXCEPT !.pc = "reported",
                          !.report =
                             IF loads["repository"].phase = "failed" THEN "unknown"
                             ELSE IF loads["repository"].saw = removal.expected THEN "kept"
                             ELSE IF loads["repository"].name >= removal.since THEN "removed"
                             ELSE "removed by an older load"]
    /\ Deliver("repository")
    /\ UNCHANGED <<worktree, begun, loadCount, dashboardGeneration, last, cache, disk,
                   publishing, good, faults>>

\* Another process removes the worktree, or makes a new one at the path.
ChangeWorktree ==
    /\ \/ worktree # 0 /\ worktree' = 0 /\ UNCHANGED begun
       \/ worktree = 0 /\ begun < MaxWorktrees /\ begun' = begun + 1 /\ worktree' = begun'
    /\ UNCHANGED <<service, removal, faults>>

Next ==
    \/ \E k \in Keys : Query(k) \/ Load(k) \/ Fail(k) \/ BeginPublish(k) \/ Store(k) \/ EndPublish(k)
    \/ Restart
    \/ SendRemoval \/ ServeRemoval \/ RespondRemoval \/ LoseResponse
    \/ Reconcile \/ SettleRemoval \/ ChangeWorktree

Spec == Init /\ [][Next]_vars

-----------------------------------------------------------------------------
\* What went wrong is never older than what went right since: a load that
\* fails late does not mark a dashboard a newer one has published.
ErrorsAreCurrent == last # NoLoad => last > good

\* A load is counted until it has ended, and no longer.
UnderWay == {k \in Dashboards : loads[k] # Idle}
LoadsAreCounted == active = Cardinality(UnderWay)

\* A removal that is reported is one: the generation is gone for good.
ReportedRemovalsHappened == removal.report = "removed" => worktree # removal.expected

\* The cached dashboard, in memory and on disk, only ever moves to a load that
\* began later, in whatever order loads end and whatever fails between.
CacheNeverGoesBack == cache'.load >= cache.load /\ disk'.load >= disk.load

ServiceIsConsistent == ErrorsAreCurrent /\ LoadsAreCounted /\ ReportedRemovalsHappened

\* What makes them inductive.  Among the dashboard loads under way a later
\* generation is a later load; the newest of them is later than everything that
\* was published or noted; only the holder of publishMu is past BeginPublish, and
\* nothing later than its load is stored.
Current(k) ==
    /\ loads[k].generation \in 1..dashboardGeneration
    /\ newest(k) => /\ last < loads[k].name /\ good < loads[k].name
                    /\ disk.load <= loads[k].name
    /\ loads[k].phase \in {"storing", "noting"} =>
          publishing = k /\ disk.load <= loads[k].name

Ordered(j, k) ==
    loads[j] # Idle /\ loads[k] # Idle =>
        /\ loads[j].generation # loads[k].generation
        /\ loads[j].generation < loads[k].generation => loads[j].name < loads[k].name

LoadsAreOrdered ==
    /\ dashboardGeneration <= loadCount /\ last <= loadCount /\ good <= loadCount
    /\ cache = disk /\ disk.load <= loadCount
    /\ \A k \in Keys :
          /\ loads[k].name <= loadCount /\ loads[k].generation <= dashboardGeneration
          /\ loads[k].phase \in {"storing", "noting"} => k \in Dashboards
    /\ \A k \in Dashboards : loads[k] # Idle => Current(k)
    /\ \A j, k \in Dashboards : j # k => Ordered(j, k)

\* A generation that is gone does not come back; the load that settles a removal
\* began after its response was lost.
RemovalIsSound ==
    /\ worktree <= begun /\ removal.expected <= begun
    /\ removal.pc # "idle" => removal.expected # 0
    /\ removal.pending => removal.pc # "idle"
    /\ removal.report = "removed" => removal.pc = "reported"
    /\ removal.pc = "served" => worktree # removal.expected
    /\ removal.pc = "reconcile" /\ loads["repository"].phase = "loaded"
          /\ loads["repository"].name >= removal.since /\ loads["repository"].saw # removal.expected
          => worktree # removal.expected

QueryInv == TypeOK /\ LoadsAreOrdered /\ RemovalIsSound /\ ServiceIsConsistent

InventoryIsConsistent == []ServiceIsConsistent /\ [][CacheNeverGoesBack]_vars
=============================================================================
