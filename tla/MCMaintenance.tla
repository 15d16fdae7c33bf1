--------------------------- MODULE MCMaintenance ----------------------------
(***************************************************************************)
(* An instance for TLC of what kwt does to mend itself: daemons replaced   *)
(* by newer builds, and doctor's repairs of records and of registrations.  *)
(* Every behaviour explores one of them.                                   *)
(***************************************************************************)
EXTENDS DaemonControl, TLC

CONSTANTS
    home, link, left, right, Identities, Doctors, MaxTrees, MaxSteps, MaxRuns,
    MaxProjects

VARIABLES
    focus,   \* the component that is explored
    s1, s2, s3, s4, s5, s6, s7, s8, s9, s10, s11, s12, s13, s14   \* its variables; those it has no use for stay 0

slots == <<s1, s2, s3, s4, s5, s6, s7, s8, s9, s10, s11, s12, s13, s14>>

ModelHashes == {"h1", "h2", "h3"}
Release(v, h) == [version |-> v, label |-> 0, revision |-> h, time |-> v, advertises |-> TRUE]
Dirty == [version |-> NoVersion, label |-> 0, revision |-> Partial, time |-> NoTime,
          advertises |-> TRUE]

\* Two releases and a build of a dirty worktree, whose order to itself is unknown.
AllBuilds == {Release(1, "h1"), Release(2, "h2"), Dirty}
NoDaemons ==
    /\ build = [p \in Procs |-> Dirty] /\ client = [c \in Commands |-> Dirty]
    /\ stage = [c \in Commands |-> CHOOSE s \in Stages : TRUE]

\* A path with a symbolic link to it, and two more.
Places == {home, left, right}
Spellings == Places \cup {link}
LinksTo == [k \in Spellings |-> IF k = link THEN home ELSE k]
Symmetry == Permutations(Procs) \cup Permutations(Commands)
             \cup Permutations({left, right}) \cup Permutations(Doctors)

entries == INSTANCE Doctor WITH
    record <- s1, marked <- s2, disk <- s3, registry <- s4, lock <- s5, creator <- s6,
    doctor <- s7, runs <- s8, steps <- s9, made <- s10, raw <- s11, moved <- s12,
    fresh <- s13, calm <- s14, Keys <- Spellings, Paths <- Places, Resolved <- LinksTo
registrations == INSTANCE ProjectRepair WITH
    disk <- s1, projects <- s2, doctor <- s3, steps <- s4, fresh <- s5, calm <- s6,
    Paths <- Places, Scanned <- {left, right}, Destinations <- {home},
    Repositories <- Identities, MaxSteps <- 1

ServicesInit ==
    /\ Init
    /\ \/ /\ focus = "control"
          /\ s1 = 0 /\ s2 = 0 /\ s3 = 0 /\ s4 = 0 /\ s5 = 0 /\ s6 = 0 /\ s7 = 0 /\ s8 = 0 /\ s9 = 0 /\ s10 = 0 /\ s11 = 0 /\ s12 = 0 /\ s13 = 0 /\ s14 = 0
       \/ /\ focus = "entries" /\ entries!Init /\ NoDaemons
       \/ /\ focus = "registrations" /\ registrations!Init /\ NoDaemons
          /\ s7 = 0 /\ s8 = 0 /\ s9 = 0 /\ s10 = 0 /\ s11 = 0 /\ s12 = 0 /\ s13 = 0 /\ s14 = 0

ServicesNext ==
    /\ UNCHANGED focus
    /\ \/ focus = "control" /\ Next /\ UNCHANGED slots
       \/ focus = "entries" /\ entries!Next /\ UNCHANGED <<vars>>
       \/ focus = "registrations" /\ registrations!Next /\ UNCHANGED <<s7, s8, s9, s10, s11, s12, s13, s14, vars>>

services == <<focus, slots, vars>>
ServicesSpec == ServicesInit /\ [][ServicesNext]_services

-----------------------------------------------------------------------------
\* Doctor's repairs: of worktrees and their records, and of registrations.
RepairsAreSafe ==
    /\ []((focus = "entries" => entries!RepairsAreSafe) /\ (focus = "registrations" => registrations!RepairsSettle /\ registrations!RecoveryIsTruthful))
    /\ [][(focus = "entries" => entries!PruneSparesCheckouts)
           /\ (focus = "registrations" => registrations!RepairsAreSound)]_services
=============================================================================
