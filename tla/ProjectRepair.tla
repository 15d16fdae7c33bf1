---------------------------- MODULE ProjectRepair ----------------------------
(***************************************************************************)
(* The project registrations of the global configuration, as kwt doctor    *)
(* --fix repairs them (internal/maintenance: classifyMissingProjects,      *)
(* FixProject; cmd/doctor.go) and kwt projects recover relocates one       *)
(* (cmd/projects_recover.go) while repositories move, and the user and     *)
(* other commands register and remove projects (internal/config).          *)
(*                                                                         *)
(* A path stands for what it resolves to.  The fences around a             *)
(* registration, and the sessions that keep one from being removed, are in *)
(* ProjectFence; here a removal may be refused.                            *)
(***************************************************************************)
EXTENDS Naturals, Sequences, FiniteSets, SequencesExt

CONSTANTS
    Paths,
    Scanned,       \* paths below the base directory, where doctor looks as well
    Destinations,  \* paths a user may choose for a recovery
    Repositories,  \* identities a registration can be matched by
    Doctors,
    MaxProjects,   \* bound: registrations at a time
    MaxSteps       \* bound: what others do

VARIABLES
    disk,      \* path -> the repository there, by its origin
    projects,  \* the entries of config.toml
    doctor,    \* each run of doctor --fix or of projects recover
    steps,
    fresh,     \* history: run -> paths that changed since it looked last
               \* before it acts on what it saw
    calm       \* history: run -> nobody else did anything since it began

vars == <<disk, projects, doctor, steps, fresh, calm>>

Nothing == "nothing"
Local == "local"   \* a repository without an origin: its identity is its path
Other == "other"   \* a directory that is no repository
Origins == Repositories \cup {Local}
Entry(path, repository, touched) == [path |-> path, repository |-> repository, touched |-> touched]
Entries == [path : Paths, repository : Origins, touched : 0..MaxSteps]
NoEntry == Entry(Nothing, Nothing, 0)
NoRepair == [entry |-> NoEntry, target |-> Nothing]
\* A recovery is asked for one entry, and to say how it ended.
Begin == [pc |-> "idle", listed |-> <<>>, repairs |-> {}, at |-> NoRepair, asked |-> NoEntry,
          to |-> Nothing, status |-> "none"]

TypeOK ==
    /\ disk \in [Paths -> Origins \cup {Nothing, Other}]
    /\ projects \in Seq(Entries) /\ Len(projects) <= MaxProjects
    /\ \A d \in Doctors : /\ doctor[d].pc \in {"idle", "listed", "looking", "fixing", "swap", "confirm", "done"}
                         /\ doctor[d].status \in {"none", "available", "unresolved", "invalid",
                                                  "changed", "failed", "recovered"}
    /\ steps \in 0..MaxSteps /\ fresh \in [Doctors -> SUBSET Paths] /\ calm \in [Doctors -> BOOLEAN]

\* The configuration is the user's to edit: an entry may be there twice.
Init ==
    /\ disk \in [Paths -> Origins \cup {Nothing}]
    /\ \E n \in 0..MaxProjects :
         projects \in [1..n -> {Entry(p, r, 0) : p \in Paths, r \in Origins}]
    /\ doctor = [d \in Doctors |-> Begin]
    /\ steps = 0 /\ fresh = [d \in Doctors |-> {}] /\ calm = [d \in Doctors |-> TRUE]

Exists(p) == disk[p] # Nothing

-----------------------------------------------------------------------------
(* What others do. *)

Undisturbed(d) == calm[d] /\ doctor[d].pc = "idle"
\* Bound: while a run is under way; what is done before is in Init.
Step ==
    /\ \E d \in Doctors : doctor[d].pc \notin {"idle", "done"}
    /\ steps < MaxSteps /\ steps' = steps + 1
    /\ calm' = [d \in Doctors |-> Undisturbed(d)]
Change(changed) ==
    /\ Step /\ disk' = [p \in Paths |-> IF p \in DOMAIN changed THEN changed[p] ELSE disk[p]]
    /\ fresh' = [d \in Doctors |-> IF doctor[d].pc \in {"swap", "confirm", "done"}
                                  THEN fresh[d] \cup DOMAIN changed ELSE {}]
    /\ UNCHANGED <<projects, doctor>>

Delete(p) == Exists(p) /\ Change([q \in {p} |-> Nothing])
Appear(p) == ~Exists(p) /\ \E r \in Origins \cup {Other} : Change([q \in {p} |-> r])
Move(p, q) == Exists(p) /\ ~Exists(q) /\ Change([x \in {p, q} |-> IF x = p THEN Nothing ELSE disk[p]])

First(indices) == CHOOSE i \in indices : \A j \in indices : i <= j
Listed(listed, p) == {i \in DOMAIN listed : listed[i].path = p}
Repairable(repository) == repository # Local

\* A path that is registered keeps the identity it is registered with.
Reusable(p) == Listed(projects, p) # {} /\ Repairable(projects[First(Listed(projects, p))].repository)
ResolveProject(p) ==
    Entry(p, IF Reusable(p) THEN projects[First(Listed(projects, p))].repository ELSE disk[p], steps')
SameProject(existing, entry) ==
    \/ existing.path = entry.path
    \/ Repairable(entry.repository) /\ existing.repository = entry.repository

\* The first entry of the same path or the same identity becomes this one's.
RegisterProject(p) ==
    LET entry == ResolveProject(p)
        same == {i \in DOMAIN projects : SameProject(projects[i], entry)}
    IN
    /\ disk[p] \in Origins /\ Step
    /\ IF same = {} THEN /\ Len(projects) < MaxProjects /\ projects' = Append(projects, entry)
       ELSE projects' = [projects EXCEPT ![First(same)] = entry]
    /\ UNCHANGED <<disk, doctor, fresh>>

\* The user's editor; kwt projects remove.
AddEntry(p) ==
    /\ Len(projects) < MaxProjects /\ Step
    /\ \E r \in Origins : projects' = Append(projects, Entry(p, r, steps'))
    /\ UNCHANGED <<disk, doctor, fresh>>
RemoveEntry(i) ==
    /\ Step /\ projects' = RemoveAt(projects, i) /\ UNCHANGED <<disk, doctor, fresh>>

-----------------------------------------------------------------------------
(* Inspection. *)

\* A repository is known by the identity it is registered with, or its origin.
Identity(listed, p) ==
    LET configured == {i \in Listed(listed, p) : Repairable(listed[i].repository)} IN
    IF configured = {} THEN disk[p] ELSE listed[First(configured)].repository
Inventory(listed) == {p \in Paths : disk[p] \in Origins /\ (Listed(listed, p) # {} \/ p \in Scanned)}
Complete(listed) == \A i \in DOMAIN listed : disk[listed[i].path] # Other

\* classifyMissingProjects: what can be done about the entries whose path is gone.
\* The target of a removal because of another registration is that one's path.
Repairs(listed) ==
    LET missing == {i \in DOMAIN listed : ~Exists(listed[i].path)}
        single(i) == \A j \in missing \ {i} : listed[i] # listed[j]
        targets(i) == {p \in Inventory(listed) : Identity(listed, p) = listed[i].repository}
        registered(p) == Listed(listed, p) # {}
        claimants(p) == {i \in missing : single(i) /\ targets(i) = {p}}
        candidates == {i \in missing : single(i) /\ Repairable(listed[i].repository)}
    IN IF ~Complete(listed) THEN {}
       ELSE {[entry |-> listed[i], target |-> Nothing] :
               i \in {i \in candidates : targets(i) = {} \/ \E p \in targets(i) :
                                            targets(i) = {p} /\ registered(p)}}
            \cup {r \in [entry : {listed[i] : i \in candidates}, target : Paths] :
                    \E i \in candidates : /\ listed[i] = r.entry /\ targets(i) = {r.target}
                                          /\ ~registered(r.target) /\ claimants(r.target) = {i}}

Becomes(d, now) == doctor' = [doctor EXCEPT ![d] = now]

ListProjects(d) ==
    /\ doctor[d].pc = "idle" /\ Becomes(d, [Begin EXCEPT !.pc = "listed", !.listed = projects])
    /\ UNCHANGED <<disk, projects, steps, fresh, calm>>
Inspect(d) ==
    /\ doctor[d].pc = "listed"
    /\ Becomes(d, [doctor[d] EXCEPT !.pc = "fixing", !.listed = <<>>,
                                     !.repairs = Repairs(doctor[d].listed)])
    /\ UNCHANGED <<disk, projects, steps, fresh, calm>>

-----------------------------------------------------------------------------
(* Recovery of one project: what is asked for, and what is found. *)

Recovers(d) == doctor[d].asked # NoEntry
Answers(d, status) == Becomes(d, [doctor[d] EXCEPT !.pc = "done", !.listed = <<>>, !.repairs = {},
                                                 !.status = status])

\* One entry of exactly this path, which must be gone, and perhaps the place to
\* move it to.
RecoverProject(d, p, to) ==
    /\ doctor[d].pc = "idle"
    /\ \E i \in DOMAIN projects :
         /\ Listed(projects, p) = {i}
         /\ LET begun == [Begin EXCEPT !.asked = projects[i], !.to = to] IN
              Becomes(d, IF Exists(p) THEN [begun EXCEPT !.pc = "done", !.status = "available"]
                         ELSE [begun EXCEPT !.pc = "looking", !.listed = projects])
    /\ UNCHANGED <<disk, projects, steps, fresh, calm>>

\* The chosen checkout must be of the same repository; without one it is
\* doctor's relocation of this entry, if there is one.
Destination(d) ==
    LET asked == doctor[d].asked
        to == doctor[d].to
    IN IF to = Nothing THEN {r \in Repairs(doctor[d].listed) : r.entry = asked /\ r.target # Nothing}
       ELSE IF disk[to] \in Origins /\ Repairable(asked.repository)
               /\ Identity(doctor[d].listed, to) = asked.repository
            THEN {[entry |-> asked, target |-> to]} ELSE {}
ChooseTarget(d) ==
    /\ doctor[d].pc = "looking"
    /\ IF Destination(d) # {}
       THEN Becomes(d, [doctor[d] EXCEPT !.pc = "fixing", !.listed = <<>>, !.repairs = Destination(d)])
       ELSE Answers(d, IF doctor[d].to = Nothing THEN "unresolved" ELSE "invalid")
    /\ UNCHANGED <<disk, projects, steps, fresh, calm>>
InventoryIsUnreadable(d) ==
    /\ doctor[d].pc = "looking" /\ doctor[d].to = Nothing /\ Step /\ Answers(d, "unresolved")
    /\ UNCHANGED <<disk, projects, fresh>>

-----------------------------------------------------------------------------
(* Repair. *)

\* A recovery that changes nothing says so.
Rest(d, r) ==
    IF Recovers(d) THEN [doctor[d] EXCEPT !.pc = "done", !.repairs = {}, !.status = "changed"]
    ELSE [doctor[d] EXCEPT !.pc = "fixing", !.repairs = @ \ {r}, !.at = NoRepair]

\* An error is the end of a run.
Errs(d) == IF Recovers(d) THEN Answers(d, "failed") ELSE Becomes(d, [Begin EXCEPT !.pc = "done"])

\* FixProject looks again before it acts: the path must still be gone, and the
\* target of a relocation be the repository that it was; it cannot be no
\* repository at all.
FixProject(d) ==
    /\ doctor[d].pc = "fixing"
    /\ \E r \in doctor[d].repairs :
         LET target == IF r.target = Nothing THEN r.entry.repository ELSE disk[r.target] IN
         IF Exists(r.entry.path) THEN Becomes(d, Rest(d, r))
         ELSE IF target \in {Nothing, Other} THEN Errs(d)
         ELSE Becomes(d, IF target # r.entry.repository THEN Rest(d, r)
                         ELSE [doctor[d] EXCEPT !.pc = "swap", !.at = r])
    /\ fresh' = [fresh EXCEPT ![d] = {}] /\ UNCHANGED <<disk, projects, steps, calm>>

Matches(r) == {i \in DOMAIN projects : projects[i] = r.entry}
\* No other entry is at the target of a relocation.
Guarded(r, i) == \A j \in DOMAIN projects \ {i} : projects[j].path # r.target

CompareAndSwapProjectAt(r) ==
    LET i == CHOOSE i \in Matches(r) : TRUE IN
    IF Cardinality(Matches(r)) # 1 THEN projects
    ELSE IF r.target = Nothing THEN RemoveAt(projects, i)
    ELSE IF Guarded(r, i) THEN [projects EXCEPT ![i].path = r.target]
    ELSE projects

ApplyRepair(d) ==
    LET r == doctor[d].at IN
    /\ doctor[d].pc = "swap"
    /\ projects' = CompareAndSwapProjectAt(r)
    /\ calm' = [c \in Doctors |-> IF c = d THEN calm[d] ELSE Undisturbed(c)]
    /\ Becomes(d, IF Recovers(d) /\ projects' # projects THEN [doctor[d] EXCEPT !.pc = "confirm", !.repairs = {}]
                  ELSE Rest(d, r))
    /\ UNCHANGED <<disk, steps, fresh>>

\* A recovery reads the entries again before it says that it succeeded.
Intended(r) == {i \in DOMAIN projects : projects[i] = [r.entry EXCEPT !.path = r.target]}
Confirm(d) ==
    LET r == doctor[d].at IN
    /\ doctor[d].pc = "confirm"
    /\ Answers(d, IF Listed(projects, r.entry.path) = {} /\ Intended(r) # {} /\ Exists(r.target)
                  THEN "recovered" ELSE "changed")
    /\ UNCHANGED <<disk, projects, steps, fresh, calm>>

\* A protected session may be alive, or a fence be taken: the run ends.
RemovalIsRefused(d) ==
    /\ doctor[d].pc = "swap" /\ Step /\ Errs(d)
    /\ UNCHANGED <<disk, projects, fresh>>
Finish(d) ==
    /\ doctor[d].pc = "fixing" /\ doctor[d].repairs = {} /\ ~Recovers(d) /\ Becomes(d, [Begin EXCEPT !.pc = "done"])
    /\ UNCHANGED <<disk, projects, steps, fresh, calm>>

Next ==
    \/ \E p \in Paths : Delete(p) \/ Appear(p) \/ RegisterProject(p) \/ AddEntry(p)
    \/ \E p, q \in Paths : Move(p, q)
    \/ \E i \in DOMAIN projects : RemoveEntry(i)
    \/ \E d \in Doctors :
         \/ ListProjects(d) \/ Inspect(d) \/ FixProject(d) \/ ApplyRepair(d)
         \/ RemovalIsRefused(d) \/ Finish(d)
         \/ \E p \in Paths, to \in Destinations \cup {Nothing} : RecoverProject(d, p, to)
         \/ ChooseTarget(d) \/ InventoryIsUnreadable(d) \/ Confirm(d)

Spec == Init /\ [][Next]_vars

-----------------------------------------------------------------------------
\* Two entries for one path: not doctor's doing.
Doubled == {p \in Paths : Cardinality({i \in DOMAIN projects : projects[i].path = p}) > 1}

\* No repair, of this run or of another that runs beside it, makes two
\* registrations of one path, moves one to a place where the repository is not,
\* or takes one away whose path holds something, unless that changed after the
\* last look (docs/design/worktree-maintenance.md:153-169).
RepairsAreSound ==
    \A d \in Doctors : ApplyRepair(d) =>
        LET r == doctor[d].at IN
        /\ Doubled' \subseteq Doubled
        /\ projects' # projects =>
             /\ Exists(r.entry.path) => r.entry.path \in fresh[d]
             /\ r.target # Nothing /\ disk[r.target] # r.entry.repository => r.target \in fresh[d]

\* A run that nobody disturbs repairs all that can be repaired.
RepairsSettle ==
    \A d \in Doctors : doctor[d].pc = "done" /\ ~Recovers(d) /\ calm[d] => Repairs(projects) = {}

Recovered(d) == doctor[d].pc = "done" /\ doctor[d].status = "recovered"
\* A recovery that reports success has moved the registration, alone: no other
\* run reports to have moved it too, and to nowhere else but where the
\* repository was when it looked; one that nobody disturbs does not blame
\* anybody for a change, and leaves nothing for the next that doctor would move
\* (docs/reference/cli.md:944-975).
RecoveryIsTruthful ==
    /\ \A d \in Doctors : Recovered(d) =>
         LET r == doctor[d].at IN
         /\ disk[r.target] = r.entry.repository \/ r.target \in fresh[d]
         /\ \A c \in Doctors \ {d} : Recovered(c) => doctor[c].asked # doctor[d].asked
    /\ \A d \in Doctors : doctor[d].pc = "done" /\ Recovers(d) /\ doctor[d].to = Nothing /\ calm[d] =>
         /\ doctor[d].status # "changed"
         /\ \A r \in Repairs(projects) : r.entry = doctor[d].asked => r.target = Nothing
=============================================================================
