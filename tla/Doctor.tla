------------------------------- MODULE Doctor -------------------------------
(***************************************************************************)
(* kwt doctor --fix on one repository's linked worktrees and their records *)
(* (internal/maintenance: inspect.go, fix.go; worktree/maintenance.go;     *)
(* internal/registry).  Doctor looks without a lock, decides, and repairs  *)
(* one record after another, each under the lock of what it changes, while *)
(* kwt creates worktrees from unreviewed sources (internal/worktree:       *)
(* worktree.go), and git and the user change what they like.               *)
(*                                                                         *)
(* A worktree is named by its generation.  Locked worktrees, the identity  *)
(* of repositories and an inspection that fails are not modelled; the      *)
(* registrations of projects are in ProjectRepair.                         *)
(***************************************************************************)
EXTENDS Naturals, FiniteSets

CONSTANTS
    Keys,         \* spellings of paths in the registry
    Paths,        \* those Git uses
    Resolved,     \* spelling -> the path it resolves to
    MaxTrees,     \* bound: worktrees and creations
    MaxSteps,     \* bound: what others do
    MaxRuns       \* bound: runs of doctor

VARIABLES
    record,    \* worktree -> the path its administrative directory names, or NoPath
    marked,    \* worktrees whose administrative directory has a kwt-generation
    disk,      \* path -> the checkout there: whose it is and whether .git says so
    registry,  \* spelling -> its entry
    lock,      \* path -> who has its creation lock
    creator,   \* a creation from an unreviewed source
    doctor,    \* the run, what it has seen and what it means to do
    runs, steps, made,
    raw,       \* history: worktrees of unreviewed sources that nobody acknowledged
    moved,     \* history: worktrees whose directory the user moved or deleted
    fresh,     \* history: paths where something appeared since the inspection, or
               \* went away after the last look before a prune
    calm       \* history: nobody did anything since the first run began

git == <<record, marked, disk>>
history == <<raw, moved, fresh>>
vars == <<git, registry, lock, creator, doctor, runs, steps, made, history, calm>>

Trees == 1..MaxTrees
NoPath == "nowhere"
Former == MaxTrees + 1   \* a worktree of long ago
Empty == [tree |-> 0, linked |-> FALSE]
NoEntry == [gen |-> 0, token |-> 0, expires |-> 0, raw |-> FALSE, here |-> FALSE]
Entry(gen, token, expires, unreviewed) ==
    [gen |-> gen, token |-> token, expires |-> expires, raw |-> unreviewed, here |-> TRUE]
NoPlan == [repair |-> FALSE, prune |-> FALSE, expected |-> {}, aliases |-> {}, adopt |-> {}, drop |-> {}]
Idle == [pc |-> "idle", listed |-> [k \in Keys |-> NoEntry], seen |-> {}, plan |-> NoPlan, at |-> NoPath]

TypeOK ==
    /\ record \in [Trees -> Paths \cup {NoPath}] /\ marked \subseteq Trees
    /\ disk \in [Paths -> [tree : 0..MaxTrees, linked : BOOLEAN]]
    /\ registry \in [Keys -> [gen : 0..MaxTrees, token : 0..MaxTrees, expires : 0..Former,
                              raw : BOOLEAN, here : BOOLEAN]]
    /\ lock \in [Paths -> {"free", "creator", "doctor"}]
    /\ creator.pc \in {"idle", "reserved", "added", "marked"} /\ creator.path \in Paths \cup {NoPath}
    /\ doctor.pc \in {"idle", "listed", "inspected", "repair", "repairing", "prune", "pruning",
                      "records", "alias", "adopt", "drop"}
    /\ runs \in 0..MaxRuns /\ steps \in 0..MaxSteps /\ made \in Trees

NoCreator == [pc |-> "idle", path |-> NoPath, token |-> 0, previous |-> NoEntry, reclaimed |-> FALSE,
              reviewed |-> FALSE]

Named(p) == {k \in Keys : Resolved[k] = p}
\* One worktree, with any record kwt or an older one may have of it, perhaps
\* two; another may be there whose directory was deleted.
Init ==
    LET p == CHOOSE p \in Paths : \E k \in Keys : k # p /\ Resolved[k] = p IN
    /\ \E q \in {NoPath} \cup (Paths \ {p}) :
         /\ record = [t \in Trees |-> CASE t = 1 -> p [] t = 2 -> q [] OTHER -> NoPath]
         /\ made = IF q = NoPath THEN 1 ELSE 2
    /\ marked \in {{}, {1}}
    /\ disk = [q \in Paths |-> IF q = p THEN [tree |-> 1, linked |-> TRUE] ELSE Empty]
    /\ raw \in {{}, {1}}
    /\ \E e \in {NoEntry} \cup {Entry(g, 0, 0, 1 \in raw) : g \in marked \cup {0}}
          \cup {Entry(0, 0, Former, 1 \in raw)} :
       \E alias \in {NoEntry, e, [e EXCEPT !.raw = FALSE]} :
       \E first \in Named(p) :
         /\ 1 \in raw \/ alias # NoEntry => e.here
         /\ registry = [k \in Keys |-> CASE k = first -> e
                                         [] k \in Named(p) \ {first} -> alias
                                         [] OTHER -> NoEntry]
    /\ lock = [q \in Paths |-> "free"]
    /\ creator = NoCreator /\ doctor = Idle
    /\ runs = 0 /\ steps = 0 /\ moved = {} /\ fresh = {} /\ calm = FALSE

Registered(p) == {k \in Named(p) : registry[k].here}
Recorded == {t \in Trees : record[t] # NoPath}
Exists(p) == disk[p] # Empty

-----------------------------------------------------------------------------
(* What others do. *)

Step == steps < MaxSteps /\ steps' = steps + 1 /\ calm' = FALSE
\* The repository's mutation lock is with doctor.
RepositoryLocked == doctor.pc \in {"repairing", "prune", "pruning", "adopt"}
Leaves(p) == IF doctor.pc = "pruning" THEN {p} ELSE {}
Appears(p, d) == disk' = [disk EXCEPT ![p] = d] /\ fresh' = fresh \cup {p}

Delete(p) ==
    /\ Step /\ Exists(p)
    /\ disk' = [disk EXCEPT ![p] = Empty] /\ moved' = moved \cup {disk[p].tree}
    /\ fresh' = fresh \cup Leaves(p)
    /\ UNCHANGED <<record, marked, registry, lock, creator, doctor, runs, made, raw>>
MoveDirectory(p, q) ==
    /\ Step /\ Exists(p) /\ ~Exists(q)
    /\ disk' = [disk EXCEPT ![q] = disk[p], ![p] = Empty]
    /\ fresh' = fresh \cup {q} \cup Leaves(p) /\ moved' = moved \cup {disk[p].tree}
    /\ UNCHANGED <<record, marked, registry, lock, creator, doctor, runs, made, raw>>
CopyDirectory(p, q) ==
    /\ Step /\ Exists(p) /\ ~Exists(q) /\ Appears(q, disk[p])
    /\ UNCHANGED <<record, marked, registry, lock, creator, doctor, runs, made, raw, moved>>
BreakBacklink(p) ==
    /\ Step /\ disk[p].linked /\ disk' = [disk EXCEPT ![p].linked = FALSE]
    /\ UNCHANGED <<record, marked, registry, lock, creator, doctor, runs, made, history>>

CanAdd(p) == made < MaxTrees /\ ~Exists(p) /\ \A t \in Recorded : record[t] # p
GitAdd(p) ==
    /\ Step /\ CanAdd(p) /\ made' = made + 1
    /\ record' = [record EXCEPT ![made'] = p] /\ Appears(p, [tree |-> made', linked |-> TRUE])
    /\ UNCHANGED <<marked, registry, lock, creator, doctor, runs, raw, moved>>
GitRemove(t) ==
    /\ Step /\ t \in Recorded /\ disk[record[t]] = [tree |-> t, linked |-> TRUE]
    /\ disk' = [disk EXCEPT ![record[t]] = Empty] /\ record' = [record EXCEPT ![t] = NoPath]
    /\ UNCHANGED <<marked, registry, lock, creator, doctor, runs, made, history>>

\* kwt list gives every worktree a generation.
KwtList ==
    /\ Step /\ ~RepositoryLocked /\ marked' = marked \cup Recorded
    /\ UNCHANGED <<record, disk, registry, lock, creator, doctor, runs, made, history>>

\* SetExpirationIfGeneration.
Expire(t) ==
    /\ Step /\ t \in Recorded \cap marked /\ Exists(record[t])
    /\ \/ /\ Registered(record[t]) = {}
          /\ registry' = [registry EXCEPT ![record[t]] = Entry(t, 0, t, FALSE)]
       \/ \E k \in Keys : /\ Registered(record[t]) = {k}
                          /\ registry[k].token = 0 /\ registry[k].gen = t
                          /\ registry' = [registry EXCEPT ![k] = NoEntry,
                                            ![record[t]] = [registry[k] EXCEPT !.expires = t]]
    /\ UNCHANGED <<git, lock, creator, doctor, runs, made, history>>

\* Opening what is at a path reviews its source.
Acknowledge(p) ==
    /\ Step /\ Exists(p) /\ \E k \in Registered(p) : registry[k].raw
    /\ registry' = [k \in Keys |-> IF k \in Named(p) THEN [registry[k] EXCEPT !.raw = FALSE]
                                  ELSE registry[k]]
    /\ raw' = {t \in raw : record[t] # p}
    /\ creator' = IF creator.path = p THEN [creator EXCEPT !.reviewed = TRUE] ELSE creator
    /\ UNCHANGED <<git, lock, doctor, runs, made, moved, fresh>>

-----------------------------------------------------------------------------
(* A creation from an unreviewed source. *)

Reservation == Entry(0, made', 0, TRUE)
\* The path's entry is replaced, one that an earlier creation left behind too;
\* but if that creation got as far as a worktree, it is completed instead.  That
\* happens once for a creation and is not counted.
Reserve(p) ==
    /\ creator.pc = "idle" /\ lock[p] = "free"
    /\ Cardinality(Registered(p)) <= 1
    /\ LET old == IF Registered(p) = {} THEN NoEntry ELSE registry[CHOOSE k \in Registered(p) : TRUE]
           found == {t \in Recorded \cap marked : record[t] = p}
       IN IF old.token # 0 /\ found # {}
          THEN /\ \E t \in found : registry' = [registry EXCEPT ![CHOOSE k \in Registered(p) : TRUE] =
                                                  [old EXCEPT !.token = 0, !.gen = t]]
               /\ calm' = FALSE
               /\ UNCHANGED <<lock, creator, made, steps>>
          ELSE /\ Step /\ made < MaxTrees /\ made' = made + 1
               /\ lock' = [lock EXCEPT ![p] = "creator"]
               /\ registry' = [k \in Keys |-> IF k = p THEN Reservation
                                              ELSE IF Resolved[k] = p THEN NoEntry ELSE registry[k]]
               /\ creator' = [pc |-> "reserved", path |-> p, token |-> made', previous |-> old,
                              reclaimed |-> old.token # 0, reviewed |-> FALSE]
    /\ UNCHANGED <<git, doctor, runs, history>>

creating == <<doctor, runs, steps, moved, calm>>
CreatorHas(p) == registry[p].token = creator.token
AddTree ==
    LET p == creator.path IN
    /\ creator.pc = "reserved" /\ ~RepositoryLocked
    /\ ~Exists(p) /\ \A t \in Recorded : record[t] # p
    /\ record' = [record EXCEPT ![creator.token] = p]
    /\ Appears(p, [tree |-> creator.token, linked |-> TRUE])
    /\ raw' = (IF creator.reviewed THEN raw ELSE raw \cup {creator.token}) /\ creator' = [creator EXCEPT !.pc = "added"]
    /\ UNCHANGED <<creating, marked, registry, lock, made>>
MarkTree ==
    /\ creator.pc = "added" /\ creator' = [creator EXCEPT !.pc = "marked"]
    /\ marked' = marked \cup {creator.token}
    /\ UNCHANGED <<creating, record, disk, registry, lock, made, raw, fresh>>

Released == lock' = [lock EXCEPT ![creator.path] = "free"] /\ creator' = NoCreator
CompleteCreation ==
    /\ creator.pc = "marked" /\ Released
    /\ registry' = IF ~CreatorHas(creator.path) THEN registry
                   ELSE [registry EXCEPT ![creator.path].token = 0, ![creator.path].gen = creator.token]
    /\ UNCHANGED <<creating, git, made, raw, fresh>>

\* AbortCreation restores what was there, unless that was itself left behind; a
\* mark that was taken off meanwhile stays off.
Restored(e) == IF e.here THEN [e EXCEPT !.raw = @ /\ registry[creator.path].raw] ELSE e
AbortCreation ==
    /\ creator.pc = "reserved" /\ Released
    /\ registry' = IF ~CreatorHas(creator.path) THEN registry
                   ELSE [registry EXCEPT ![creator.path] =
                           IF ~creator.reclaimed THEN Restored(creator.previous)
                           ELSE IF Exists(creator.path) THEN Restored([creator.previous EXCEPT !.token = 0])
                           ELSE NoEntry]
    /\ UNCHANGED <<creating, git, made, raw, fresh>>

CreatorCrashes ==
    /\ Step /\ creator.pc # "idle" /\ Released
    /\ UNCHANGED <<git, registry, doctor, runs, made, history>>

-----------------------------------------------------------------------------
(* Inspection. *)

Target(p) == IF disk[p].linked THEN disk[p].tree ELSE 0
\* A worktree whose creation is under way is left out.
Inventory ==
    {[tree |-> t, path |-> record[t], target |-> Target(record[t]), marked |-> t \in marked,
      exists |-> Exists(record[t])] :
       t \in {t \in Recorded : creator.pc \notin {"added", "marked"} \/ t # creator.token}}

\* What the .git files say, those of the inventory and those found below the
\* base directory.
Claims(seen) ==
    {<<o.target, o.path>> : o \in seen} \cup {<<Target(p), p>> : p \in {p \in Paths : Exists(p)}}

Claimants(o, claims) == {p \in Paths : \E t \in {o.target, o.tree} \ {0} : <<t, p>> \in claims}
Ambiguous(o, claims) == Claimants(o, claims) \ {o.path} # {}
Broken(o, claims) == ~Ambiguous(o, claims) /\ Exists(o.path) /\ o.target # o.tree
Missing(o) == ~Exists(o.path)
Prunable(o, claims) == ~o.exists /\ ~Ambiguous(o, claims)

Listed(listed, p) == {k \in Named(p) : listed[k].here}
Active(listed, k) == listed[k].token # 0 /\ lock[Resolved[k]] # "free"
EquivalentAliases(listed, p) == \A k, l \in Listed(listed, p) : listed[k] = listed[l] /\ listed[k].token = 0

\* classifyRepository: ambiguous backlinks rule out every repair of a backlink,
\* and a missing directory that must stay recorded every prune.
Damage(seen, claims) ==
    [ambiguous |-> {o \in seen : Ambiguous(o, claims)},
     broken |-> {o \in seen : Broken(o, claims)},
     missing |-> {o \in seen : Missing(o)}]

InspectedAt(seen, p) == {o \in seen : o.path = p}
Deferred(listed, p) == \E k \in Listed(listed, p) : Active(listed, k)

\* classifyRegistry: the groups of keys of one path that can be reduced to one.
AliasGroups(listed, seen) ==
    LET at(p) == InspectedAt(seen, p)
        there(p) == IF at(p) # {} THEN \E o \in at(p) : o.exists ELSE Exists(p)
    IN {p \in Paths : /\ Cardinality(Listed(listed, p)) > 1 /\ ~Deferred(listed, p)
                      /\ EquivalentAliases(listed, p) /\ (there(p) => at(p) # {})}

\* The entries of a path of their own: those of an absent path are stale, and
\* one without a generation adopts that of the worktree found there.
LoneEntries(listed) ==
    {k \in Keys : Listed(listed, Resolved[k]) = {k} /\ ~Deferred(listed, Resolved[k])}
Stale(k) == ~Exists(Resolved[k])
Adoptable(listed, seen, k) ==
    ~Stale(k) /\ listed[k].gen = 0 /\ \E o \in InspectedAt(seen, Resolved[k]) : o.marked

\* The first pass of Fix over the findings.
Plan(listed, seen, claims) ==
    LET found == Damage(seen, claims)
        repair == found.broken # {} /\ found.ambiguous = {}
        prune == found.missing # {} /\ \A o \in found.missing : Prunable(o, claims)
        alone == {k \in LoneEntries(listed) : \A o \in found.ambiguous : o.path # Resolved[k]}
    IN [repair |-> repair, prune |-> prune,
        expected |-> (IF repair THEN found.broken ELSE {}) \cup (IF prune THEN found.missing ELSE {}),
        aliases |-> AliasGroups(listed, seen),
        adopt |-> {k \in alone : Adoptable(listed, seen, k)},
        drop |-> {k \in alone : Stale(k)}]

others == <<marked, creator, steps, made, raw, moved>>
Goes(pc) == doctor' = [doctor EXCEPT !.pc = pc]
Ends == doctor' = Idle

ListEntries ==
    /\ doctor.pc = "idle" /\ runs < MaxRuns /\ runs' = runs + 1
    /\ doctor' = [Idle EXCEPT !.pc = "listed", !.listed = registry]
    /\ calm' = (calm \/ (runs = 0 /\ creator.pc = "idle"))
    /\ UNCHANGED <<others, record, disk, registry, lock, fresh>>
Inspect ==
    /\ doctor.pc = "listed" /\ doctor' = [doctor EXCEPT !.pc = "inspected", !.seen = Inventory]
    /\ fresh' = {}
    /\ UNCHANGED <<others, record, disk, registry, lock, runs, calm>>
Classify ==
    /\ doctor.pc = "inspected"
    /\ LET plan == Plan(doctor.listed, doctor.seen, Claims(doctor.seen)) IN
         doctor' = [doctor EXCEPT !.plan = plan,
                      !.pc = IF plan.repair \/ plan.prune THEN "repair" ELSE "records"]
    /\ UNCHANGED <<others, record, disk, registry, lock, runs, fresh, calm>>

-----------------------------------------------------------------------------
(* Repair: the repository. *)

Creating == creator.pc \in {"added", "marked"}
Unchanged(o) == \E c \in Inventory : c.tree = o.tree /\ c.path = o.path /\ c.target = o.target
                                       /\ c.marked = o.marked /\ c.exists = o.exists

\* Scope.Maintain: what was seen must still be so, git worktree repair must find
\* nothing else to do, and a prune without a repair goes by the same look.
Severed(o) == o.exists /\ o.target # o.tree
RepairInScope ==
    \A o \in Inventory : Severed(o) => \E c \in doctor.plan.expected : Severed(c) /\ c.path = o.path
PruneInScope == \A o \in Inventory : o.exists \/ (o \in doctor.plan.expected /\ ~o.exists)

ValidateRepair ==
    /\ doctor.pc = "repair"
    /\ LET plan == doctor.plan IN
       IF Creating \/ ~(\A o \in plan.expected : Unchanged(o))
          \/ ~(IF plan.repair THEN RepairInScope ELSE PruneInScope)
       THEN Ends
       ELSE Goes(IF plan.repair THEN "repairing" ELSE "pruning")
    /\ UNCHANGED <<others, record, disk, registry, lock, runs, fresh, calm>>

\* git worktree repair: every .git file that is where its record says.
Repair ==
    /\ doctor.pc = "repairing" /\ Goes(IF doctor.plan.prune THEN "prune" ELSE "records")
    /\ disk' = [p \in Paths |->
                  IF Exists(p) /\ \E t \in Recorded : record[t] = p
                  THEN [tree |-> CHOOSE t \in Recorded : record[t] = p, linked |-> TRUE] ELSE disk[p]]
    /\ UNCHANGED <<others, record, registry, lock, runs, fresh, calm>>

\* Everything that git worktree prune can remove was seen missing.
ValidatePrune ==
    /\ doctor.pc = "prune"
    /\ IF PruneInScope THEN Goes("pruning") ELSE Ends
    /\ UNCHANGED <<others, record, disk, registry, lock, runs, fresh, calm>>
Prune ==
    /\ doctor.pc = "pruning" /\ Goes("records")
    /\ record' = [t \in Trees |-> IF t \in Recorded /\ ~Exists(record[t]) THEN NoPath ELSE record[t]]
    /\ UNCHANGED <<others, disk, registry, lock, runs, fresh, calm>>

-----------------------------------------------------------------------------
(* Repair: the registry.  Aliases first, then generations, then what is stale. *)

Done(set, x) == [doctor EXCEPT !.pc = "records", !.at = NoPath, !.plan[set] = @ \ {x}]
Skips(set, x) == doctor' = Done(set, x) /\ UNCHANGED lock
At(pc, x) == doctor' = [doctor EXCEPT !.pc = pc, !.at = x]
repairing == <<others, record, disk, runs, fresh, calm>>

\* withInactiveCreation.
MayTake(k) == doctor.listed[k].token = 0 \/ lock[Resolved[k]] = "free"
Takes(k) == lock' = IF doctor.listed[k].token = 0 THEN lock ELSE [lock EXCEPT ![Resolved[k]] = "doctor"]
Gives == lock' = [p \in Paths |-> IF lock[p] = "doctor" THEN "free" ELSE lock[p]]

Gone(p) == ~(\E o \in doctor.seen : o.path = p /\ o.exists)
LookAtAliases(p) ==
    /\ doctor.pc = "records" /\ p \in doctor.plan.aliases
    /\ IF Gone(p) /\ Exists(p) THEN Skips("aliases", p) ELSE At("alias", p) /\ UNCHANGED lock
    /\ UNCHANGED <<repairing, registry>>
CompareAndSwapAliases ==
    LET p == doctor.at IN
    /\ doctor.pc = "alias"
    /\ registry' = IF \E k \in Named(p) : registry[k] # doctor.listed[k] THEN registry
                   ELSE [k \in Keys |-> IF k \in Named(p) /\ (k # p \/ Gone(p)) THEN NoEntry ELSE registry[k]]
    /\ Skips("aliases", p) /\ UNCHANGED repairing

\* Mutant: the compare-and-swap compares nothing but the path.
SwappedAnyhow(k, entry) ==
    IF Registered(Resolved[k]) = {k} THEN [registry EXCEPT ![k] = entry] ELSE registry

\* The compare-and-swap of one entry.
Swapped(k, entry) ==
    IF Registered(Resolved[k]) = {k} /\ registry[k] = doctor.listed[k]
    THEN [registry EXCEPT ![k] = entry] ELSE registry

LookAtGeneration(k) ==
    LET p == Resolved[k]
        same == \E o \in doctor.seen : o.path = p /\ record[o.tree] = p /\ o.tree \in marked
    IN
    /\ doctor.pc = "records" /\ doctor.plan.aliases = {} /\ k \in doctor.plan.adopt
    /\ IF ~MayTake(k) THEN Skips("adopt", k)
       ELSE IF Creating THEN Ends /\ UNCHANGED lock
       ELSE IF same /\ Exists(p) THEN At("adopt", k) /\ Takes(k)
       ELSE Skips("adopt", k)
    /\ UNCHANGED <<repairing, registry>>
AdoptGeneration ==
    LET k == doctor.at IN
    /\ doctor.pc = "adopt"
    /\ \E o \in doctor.seen : o.path = Resolved[k]
         /\ registry' = Swapped(k, Entry(o.tree, 0, 0, doctor.listed[k].raw))
    /\ doctor' = Done("adopt", k) /\ Gives /\ UNCHANGED repairing

LookAtStale(k) ==
    /\ doctor.pc = "records" /\ doctor.plan.aliases = {} /\ doctor.plan.adopt = {}
    /\ k \in doctor.plan.drop
    /\ IF MayTake(k) /\ ~Exists(Resolved[k]) THEN At("drop", k) /\ Takes(k) ELSE Skips("drop", k)
    /\ UNCHANGED <<repairing, registry>>

\* By generation, or by the whole entry if it has none.
DropStale ==
    LET k == doctor.at
        guarded == doctor.listed[k].token = 0 /\ doctor.listed[k].gen # 0
        gone == {l \in Named(Resolved[k]) : registry[l].token = 0 /\ registry[l].gen = doctor.listed[k].gen}
    IN
    /\ doctor.pc = "drop"
    /\ registry' = IF guarded THEN [l \in Keys |-> IF l \in gone THEN NoEntry ELSE registry[l]]
                   ELSE Swapped(k, NoEntry)
    /\ doctor' = Done("drop", k) /\ Gives /\ UNCHANGED repairing

Finish ==
    /\ doctor.pc = "records"
    /\ doctor.plan.aliases \cup doctor.plan.adopt \cup doctor.plan.drop = {}
    /\ Ends /\ UNCHANGED <<repairing, registry, lock>>
Kill ==
    /\ doctor.pc # "idle" /\ Step /\ Ends /\ Gives
    /\ UNCHANGED <<git, registry, creator, runs, made, history>>

-----------------------------------------------------------------------------
Others ==
    \/ \E p \in Paths : Delete(p) \/ BreakBacklink(p) \/ GitAdd(p) \/ Reserve(p) \/ Acknowledge(p)
    \/ \E p, q \in Paths : MoveDirectory(p, q) \/ CopyDirectory(p, q)
    \/ \E t \in Trees : GitRemove(t) \/ Expire(t)
    \/ KwtList \/ AddTree \/ MarkTree \/ CompleteCreation \/ AbortCreation \/ CreatorCrashes
DoctorSteps ==
    \/ ListEntries \/ Inspect \/ Classify \/ ValidateRepair \/ Repair \/ ValidatePrune \/ Prune
    \/ \E p \in Paths : LookAtAliases(p)
    \/ \E k \in Keys : LookAtGeneration(k) \/ LookAtStale(k)
    \/ CompareAndSwapAliases \/ AdoptGeneration \/ DropStale \/ Finish \/ Kill

Next == Others \/ DoctorSteps
Spec == Init /\ [][Next]_vars

-----------------------------------------------------------------------------
\* A checkout from an unreviewed source stays marked as one, whatever doctor
\* found at its path before, until somebody acknowledges it or moves it away.
UnreviewedStaysMarked ==
    \A t \in (raw \ moved) \cap Recorded : \E k \in Registered(record[t]) : registry[k].raw

\* An expiration is never passed on to another worktree at the same path.
ExpirationIsOfItsWorktree ==
    \A k \in Keys : registry[k].gen # 0 => registry[k].expires \in {0, registry[k].gen}

\* A creation under way keeps its entry.
CreationKeepsItsEntry == creator.pc # "idle" => CreatorHas(creator.path)

\* Two runs that nobody disturbs leave nothing that a third would do.
RepairsSettle ==
    doctor.pc = "idle" /\ runs = 2 /\ calm =>
        LET plan == Plan(registry, Inventory, Claims(Inventory)) IN
        plan = NoPlan

\* A worktree's record is not pruned while a checkout that names it is where
\* doctor looks, unless that came there after doctor had looked, or git found
\* the worktree gone that was there when doctor looked last.
PruneSparesCheckouts ==
    doctor.pc = "pruning" =>
        \A t \in Recorded, p \in Paths \ fresh :
            Prune /\ record'[t] = NoPath /\ record[t] \notin fresh => Target(p) # t

RepairsAreSafe ==
    UnreviewedStaysMarked /\ ExpirationIsOfItsWorktree /\ CreationKeepsItsEntry /\ RepairsSettle
=============================================================================
