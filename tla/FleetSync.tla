----------------------------- MODULE FleetSync -----------------------------
(***************************************************************************)
(* Multi-machine sync: machines that observe their worktrees and publish    *)
(* them as manifests (internal/fleet/manifest.go, client.go,                *)
(* internal/cmd/fleet.go), the hub that stores one manifest per host        *)
(* identifier and answers with the rows of all of them (server.go,          *)
(* store.go), and the dashboard, which lays these over the rows it found on *)
(* its own disk (internal/cmd/tui_backend.go, internal/tui/list.go).        *)
(*                                                                          *)
(* A project is named by how a machine spells it; Fold says which           *)
(* spellings name one repository (FoldRepositoryIdentity).  A machine's     *)
(* projects are listed one after another, then the directory of its         *)
(* worktrees is discovered, while worktrees come and go.                    *)
(***************************************************************************)
EXTENDS Naturals, Sequences, FiniteSets

CONSTANTS
    Machines,
    HostOf,        \* machine -> the identifier its configuration or host name gives it
    InfosOf,       \* machine -> what its manifests may say of it: host name and platform
    Spellings,     \* the identities projects are configured or discovered with
    Fold,          \* spelling -> the repository it names
    Configured,    \* machine -> sequence of [spelling, paths]: its registered projects
    Discovered,    \* machine -> [path -> spelling]: what lies under its base directory
    Refs,          \* branches a worktree may have checked out
    Publishers,    \* commands of all machines that publish
    MachineOf,     \* publisher -> its machine
    NoFile,        \* no temporary file of the hub's store
    MaxChanges,    \* bound: worktrees created or removed
    MaxFaults      \* bound: hub restarts, lost requests, forgotten hosts

VARIABLES
    disk,      \* machine -> [path -> branch], the worktrees that exist
    pub,       \* publisher -> its manifest under way: [pc, next, rows, at]
    request,   \* manifests on their way to the hub
    store,     \* the hub's file: [hosts: id -> manifest, warned: set of ids]
    temp,      \* the file Put or Delete is about to rename, or NoFile
    changes, faults,
    truth      \* history: the worktrees each machine has ever had at once

vars == <<disk, pub, request, store, temp, changes, faults, truth>>

HostIDs == {HostOf[m] : m \in Machines}
Paths(m) == DOMAIN Discovered[m] \cup
            UNION {Configured[m][i].paths : i \in 1..Len(Configured[m])}
EmptyManifest(p) == [pc |-> "idle", next |-> 1, rows |-> {}, at |-> 0]
Rows == [path : UNION {Paths(m) : m \in Machines}, spelling : Spellings, ref : Refs]

TypeOK ==
    /\ \A m \in Machines : DOMAIN disk[m] \subseteq Paths(m)
    /\ \A p \in Publishers : /\ pub[p].pc \in {"idle", "list", "discover", "ready", "done"}
                             /\ pub[p].rows \subseteq Rows
    /\ DOMAIN store.hosts \subseteq HostIDs /\ store.warned \subseteq HostIDs

Init ==
    /\ disk = [m \in Machines |-> [x \in {} |-> CHOOSE r \in Refs : TRUE]]
    /\ pub = [p \in Publishers |-> EmptyManifest(p)]
    /\ request = {}
    /\ store = [hosts |-> [h \in {} |-> 0], warned |-> {}]
    /\ temp = NoFile /\ changes = 0 /\ faults = 0
    /\ truth = [m \in Machines |-> {disk[m]}]

---------------------------------------------------------------------------
(* The machine: git and other kwt commands change its worktrees.           *)

Move(m, now) ==
    /\ changes < MaxChanges /\ changes' = changes + 1
    /\ disk' = [disk EXCEPT ![m] = now]
    /\ truth' = [truth EXCEPT ![m] = @ \cup {now}]
    /\ UNCHANGED <<pub, request, store, temp, faults>>

CreateWorktree(m, path, ref) ==
    /\ path \notin DOMAIN disk[m]
    /\ Move(m, [x \in DOMAIN disk[m] \cup {path} |-> IF x = path THEN ref ELSE disk[m][x]])

RemoveWorktree(m, path) ==
    /\ path \in DOMAIN disk[m]
    /\ Move(m, [x \in DOMAIN disk[m] \ {path} |-> disk[m][x]])

---------------------------------------------------------------------------
(* ManifestBuilder.Build.                                                  *)

BeginBuild(p) ==
    /\ pub[p].pc = "idle"
    /\ pub' = [pub EXCEPT ![p] = [@ EXCEPT !.pc = "list", !.at = changes]]
    /\ UNCHANGED <<disk, request, store, temp, changes, faults, truth>>

SeenNothing(rows) == {}                                             \* mutant
\* addWorktree: a path is reported once, as whoever came first spelled it.
SeenPaths(rows) == {r.path : r \in rows}

Observed(m, rows, paths, spellings) ==
    rows \cup {[path |-> x, spelling |-> spellings[x], ref |-> disk[m][x]] :
               x \in (paths \cap DOMAIN disk[m]) \ SeenPaths(rows)}

\* addConfiguredProject; a project that cannot be listed is left out, an
\* incomplete listing or a cancelled context fails the whole build.
ListProject(p) ==
    LET m == MachineOf[p] i == pub[p].next IN
    /\ pub[p].pc = "list" /\ i <= Len(Configured[m])
    /\ \E listed \in BOOLEAN :
         pub' = [pub EXCEPT
             ![p].next = i + 1,
             ![p].rows = IF listed THEN Observed(m, @, Configured[m][i].paths,
                                                 [x \in Configured[m][i].paths |-> Configured[m][i].spelling])
                         ELSE @]
    /\ UNCHANGED <<disk, request, store, temp, changes, faults, truth>>

\* addGlobalWorktrees: what lies under the base directory, registered or not.
DiscoverGlobal(p) ==
    LET m == MachineOf[p] IN
    /\ pub[p].pc = "list" /\ pub[p].next > Len(Configured[m])
    /\ pub' = [pub EXCEPT
           ![p].pc = "ready",
           ![p].rows = Observed(m, @, DOMAIN Discovered[m], Discovered[m])]
    /\ UNCHANGED <<disk, request, store, temp, changes, faults, truth>>

BuildFails(p) ==
    /\ pub[p].pc = "list"
    /\ pub' = [pub EXCEPT ![p] = [EmptyManifest(p) EXCEPT !.pc = "done"]]
    /\ UNCHANGED <<disk, request, store, temp, changes, faults, truth>>

\* Client.Publish.  The client gives up after two seconds, which calls nothing
\* back; a failed publication is a warning and is not repeated.  The host name
\* is left empty when it cannot be read and the identifier is configured.
Publish(p) ==
    /\ pub[p].pc = "ready"
    /\ pub' = [pub EXCEPT ![p] = [EmptyManifest(p) EXCEPT !.pc = "done"]]
    /\ \E info \in InfosOf[MachineOf[p]] :
         request' = request \cup
           {[host |-> HostOf[MachineOf[p]], info |-> info, machine |-> MachineOf[p],
             by |-> p, rows |-> pub[p].rows, at |-> pub[p].at]}
    /\ UNCHANGED <<disk, store, temp, changes, faults, truth>>

---------------------------------------------------------------------------
(* The hub.  Put and Delete read the file, change it, write a temporary and *)
(* rename it, under one mutex.                                              *)

\* hostInfoChanged: the machine behind an identifier is known by its name and
\* platform only, so two that share both are one machine to the hub.
CollisionUnnoticed(m) == FALSE                                      \* mutant
Collides(m) ==
    m.host \in DOMAIN store.hosts /\ store.hosts[m.host].info # m.info

PutBegin(m) ==
    /\ temp = NoFile /\ m \in request
    /\ request' = request \ {m}
    /\ temp' = [hosts  |-> [h \in DOMAIN store.hosts \cup {m.host} |->
                              IF h = m.host THEN m ELSE store.hosts[h]],
                warned |-> IF Collides(m) THEN store.warned \cup {m.host} ELSE store.warned]
    /\ UNCHANGED <<disk, pub, store, changes, faults, truth>>

\* Forget: the host goes, and its warnings with it.
DeleteBegin(id) ==
    /\ temp = NoFile /\ faults < MaxFaults /\ faults' = faults + 1
    /\ id \in DOMAIN store.hosts \cup store.warned
    /\ temp' = [hosts  |-> [h \in DOMAIN store.hosts \ {id} |-> store.hosts[h]],
                warned |-> store.warned \ {id}]
    /\ UNCHANGED <<disk, pub, request, store, changes, truth>>

Rename ==
    /\ temp # NoFile
    /\ store' = temp /\ temp' = NoFile
    /\ UNCHANGED <<disk, pub, request, changes, faults, truth>>

\* The hub is restarted, or a request is lost: what was not renamed is gone.
HubFails ==
    /\ faults < MaxFaults /\ faults' = faults + 1
    /\ \/ temp # NoFile /\ temp' = NoFile /\ UNCHANGED request
       \/ temp = NoFile /\ \E m \in request : request' = request \ {m} /\ UNCHANGED temp
    /\ UNCHANGED <<disk, pub, store, changes, truth>>

Next ==
    \/ \E m \in Machines : \E x \in Paths(m) :
         RemoveWorktree(m, x) \/ \E r \in Refs : CreateWorktree(m, x, r)
    \/ \E p \in Publishers : BeginBuild(p) \/ ListProject(p) \/ DiscoverGlobal(p)
                             \/ BuildFails(p) \/ Publish(p)
    \/ \E m \in request : PutBegin(m)
    \/ \E id \in HostIDs : DeleteBegin(id)
    \/ Rename \/ HubFails

Spec == Init /\ [][Next]_vars

---------------------------------------------------------------------------
(* The state the hub answers with (buildFleetState).                       *)

Observations ==
    UNION {{[host |-> h, row |-> r] : r \in store.hosts[h].rows} : h \in DOMAIN store.hosts}

VerbatimKey(r) == <<r.spelling, r.ref>>                             \* mutant
RowKey(r) == <<Fold[r.spelling], r.ref>>

\* A row of the hub: all observations under one key.
FleetRows == {{o \in Observations : RowKey(o.row) = k} : k \in {RowKey(o.row) : o \in Observations}}

---------------------------------------------------------------------------
(* The dashboard of a machine (mergeFleetRows).                             *)

\* The spellings under which a machine may list a path.
SpelledAt(m, x) ==
    {Discovered[m][y] : y \in {x} \cap DOMAIN Discovered[m]} \cup
    {Configured[m][i].spelling : i \in {k \in 1..Len(Configured[m]) : x \in Configured[m][k].paths}}

FleetKey(spelling, ref) == <<Fold[spelling], ref>>

\* FleetKeyForRow of the rows that were found on disk when it held `was`.
LocalKeys(m, was) ==
    UNION {{FleetKey(s, was[x]) : s \in SpelledAt(m, x)} : x \in DOMAIN was}

\* What the hub has of m itself is dropped, as it may be stale, for what is on disk.
OtherHosts(m, row) == {o.host : o \in row} \ {HostOf[m]}

\* The hub's row as machine m shows it: its identity is spelled as in the
\* observation that came first.
MergedRow(m, was, row, first) ==
    LET key == FleetKey(first.row.spelling, first.row.ref) IN
    [key |-> key, local |-> key \in LocalKeys(m, was), hosts |-> OtherHosts(m, row)]

\* A row that is neither on disk nor anywhere else is not shown.
FleetView(m, was) ==
    {v \in UNION {{MergedRow(m, was, row, first) : first \in row} : row \in FleetRows} :
         v.local \/ v.hosts # {}}

---------------------------------------------------------------------------
(* A machine reports a path once, although two projects may contain it and it *)
(* may be registered and discovered; and each row it reports was there.       *)
ManifestsAreObserved ==
    \A h \in DOMAIN store.hosts : LET m == store.hosts[h] IN
      /\ \A r, s \in m.rows : r.path = s.path => r = s
      /\ \A r \in m.rows : \E was \in truth[m.machine] :
            r.path \in DOMAIN was /\ was[r.path] = r.ref

\* Some machine under identifier h has had a worktree of this key.
Had(h, key) ==
    \E n \in Machines : HostOf[n] = h /\ \E was \in truth[n] : key \in LocalKeys(n, was)

(* Whatever a dashboard found on its disk before it asked the hub, and however *)
(* hosts spell a repository: a branch is shown in one row, every other host     *)
(* whose manifest has it is named there, and no host is named that never had    *)
(* a worktree of it.                                                            *)
DashboardShowsTheFleet ==
    \A m \in Machines : \A was \in truth[m] :
      /\ \A v, w \in FleetView(m, was) : v.key = w.key => v = w
      /\ \A o \in Observations : o.host # HostOf[m] =>
            \E v \in FleetView(m, was) :
               v.key = FleetKey(o.row.spelling, o.row.ref) /\ o.host \in v.hosts
      /\ \A v \in FleetView(m, was) : \A h \in v.hosts : Had(h, v.key)

(* A manifest that replaces one of another name or platform leaves a warning    *)
(* that lasts until the identifier is forgotten, and nothing else leaves one.   *)
(* Machines that share name and platform replace each other without a warning.  *)
CollisionsAreFlagged ==
    \A h \in DOMAIN store.hosts \cap DOMAIN store'.hosts :
        /\ store.hosts[h].info # store'.hosts[h].info => h \in store'.warned
        /\ h \in store.warned => h \in store'.warned
        /\ h \in store'.warned \ store.warned => store.hosts[h].info # store'.hosts[h].info

FleetIsTrue == [](ManifestsAreObserved /\ DashboardShowsTheFleet) /\ [][CollisionsAreFlagged]_vars

(* "The hub keeps the latest manifest for each host" (docs/multi-machine-      *)
(* sync.md): a publication never takes a host's state back to an observation    *)
(* begun before the one it replaces.                                           *)
LatestManifestIsKept ==
    [][\A h \in DOMAIN store.hosts \cap DOMAIN store'.hosts :
          store.hosts[h].machine = store'.hosts[h].machine
            => store.hosts[h].at <= store'.hosts[h].at]_vars

---------------------------------------------------------------------------
(* What makes FleetIsTrue inductive: whatever is on its way to the hub or in  *)
(* its hands is a manifest as its machine observed it, and the file about to  *)
(* be renamed warns of what it changes.                                       *)
WasSeen(m, rows) ==
    /\ \A r, s \in rows : r.path = s.path => r = s
    /\ \A r \in rows :
          /\ r.spelling \in SpelledAt(m, r.path)
          /\ \E was \in truth[m] : r.path \in DOMAIN was /\ was[r.path] = r.ref

IsBuild(b) ==
    b = [pc |-> b.pc, next |-> b.next, rows |-> b.rows, at |-> b.at] /\ b.next \in Nat \ {0}
Manifest(m) == m.machine \in Machines /\ m.host = HostOf[m.machine] /\ WasSeen(m.machine, m.rows)
Filed(hosts) == \A h \in DOMAIN hosts : hosts[h].host = h /\ Manifest(hosts[h])

Warns(new) ==
    \A h \in DOMAIN store.hosts \cap DOMAIN new.hosts :
        /\ store.hosts[h].info # new.hosts[h].info => h \in new.warned
        /\ h \in store.warned => h \in new.warned
        /\ h \in new.warned \ store.warned => store.hosts[h].info # new.hosts[h].info

FleetInv ==
    /\ DOMAIN truth = Machines /\ DOMAIN disk = Machines /\ DOMAIN pub = Publishers
    /\ \A m \in Machines : disk[m] \in truth[m]
    /\ \A p \in Publishers : IsBuild(pub[p]) /\ WasSeen(MachineOf[p], pub[p].rows)
    /\ \A m \in request : Manifest(m)
    /\ Filed(store.hosts)
    /\ temp # NoFile => Warns(temp) /\ Filed(temp.hosts)
=============================================================================
