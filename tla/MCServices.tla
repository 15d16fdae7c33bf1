--------------------------- MODULE MCServices -------------------------------
(***************************************************************************)
(* An instance for TLC of the components that share no state: every        *)
(* behaviour explores one of them, in variables that all of them use.      *)
(***************************************************************************)
EXTENDS CreationLock, Sequences

CONSTANTS
    Clients, Files, Contents, NoDigest, Unlocked, MaxEdits, MaxQueries, MaxEvents,
    MaxLoads, MaxWorktrees, MaxFaults, m1, m2, m3, a, b, up, low, x1, x2, y1, p1, p3,
    p4, Refs, NoFile, MaxChanges, Warmers, Claimers, Recoverers, Pruners, Movers,
    MaxMade, MaxTouches, MaxCrashes, Heads, Sources, Numbers, None, MaxMoves, Openers,
    Removers, Gens, Protected, Directories, Branches, MaxSessions, MaxActs, Importers,
    Visitors, MaxCommits, MaxSyncs, MaxWrites,
    Machines, HostOf, InfosOf, Spellings, Fold, Configured, Discovered, Publishers, MachineOf


VARIABLES
    focus,   \* the component that is explored
    s1, s2, s3, s4, s5, s6, s7, s8, s9, s10, s11, s12, s13   \* its variables; those it has no use for stay 0

slots == <<s1, s2, s3, s4, s5, s6, s7, s8, s9, s10, s11, s12, s13>>

\* Three machines and a hub.  Two of them have the same host name; one has a
\* repository under two spellings, one of them also found below its base directory.
ModelMachines == {m1, m2, m3}
ModelHostOf == [m \in ModelMachines |-> IF m = m1 THEN a ELSE b]
\* The two share their platform too, and for one of them the name may be missing.
ModelInfosOf == [m \in ModelMachines |-> IF m = m2 THEN {"named", "nameless"} ELSE {"named"}]
ModelSpellings == {up, low}
ModelFold == [s \in ModelSpellings |-> low]
ModelConfigured == [m \in ModelMachines |->
    IF m = m1 THEN <<[spelling |-> up, paths |-> {x1}], [spelling |-> low, paths |-> {x1, x2}]>>
    ELSE <<>>]
ModelDiscovered == [m \in ModelMachines |->
    CASE m = m1 -> [x \in {x1} |-> low] [] m = m2 -> [x \in {y1} |-> low] [] OTHER -> [x \in {} |-> low]]
ModelPublishers == {p1, p3, p4}
ModelMachineOf == [p \in ModelPublishers |-> CASE p = p1 -> m1 [] p = p3 -> m2 [] OTHER -> m3]

follow == INSTANCE OperationFollow WITH
    log <- s1, open <- s2, answers <- s3, retained <- s4, cancelled <- s5, pc <- s6,
    attempt <- s7, acknowledged <- s8, current <- s9, accepted <- s10, shown <- s11,
    asked <- s12, report <- s13
trust == INSTANCE ConfigTrust WITH
    file <- s1, store <- s2, storeLock <- s3, pc <- s4, at <- s5, digest <- s6,
    loaded <- s7, policy <- s8, reviewed <- s9, applied <- s10, answered <- s11,
    edits <- s12, queries <- s13
query == INSTANCE InventoryQuery WITH
    worktree <- s1, begun <- s2, loads <- s3, loadCount <- s4, active <- s5,
    dashboardGeneration <- s6, last <- s7, cache <- s8, disk <- s9, publishing <- s10,
    removal <- s11, good <- s12, faults <- s13
fleet == INSTANCE FleetSync WITH
    disk <- s1, pub <- s2, request <- s3, store <- s4, temp <- s5, changes <- s6,
    faults <- s7, truth <- s8
warm == INSTANCE WarmSpare WITH
    reg <- s1, tree <- s2, pool <- s3, repo <- s4, pc <- s5, held <- s6, claims <- s7,
    trail <- s8, destroyed <- s9, made <- s10, touches <- s11, crashes <- s12
prune == INSTANCE MergedPrune WITH
    wt <- s1, record <- s2, requests <- s3, session <- s4, inventory <- s5,
    moves <- s6, generations <- s7, pc <- s8, cand <- s9, outcome <- s10,
    confirmed <- s11, lost <- s12
tmux == INSTANCE TmuxSessions WITH
    sessions <- s1, home <- s2, born <- s3, lock <- s4, job <- s5, touches <- s6,
    faults <- s7
pr == INSTANCE PullRequestImport WITH
    provider <- s1, registered <- s2, trees <- s3, made <- s4, refs <- s5,
    records <- s6, writer <- s7, claim <- s8, job <- s9, opened <- s10, lost <- s11,
    acts <- s12, faults <- s13
base == INSTANCE BaseSync WITH
    parent <- s1, branch <- s2, source <- s3, backups <- s4, attached <- s5,
    occupied <- s6, job <- s7, syncs <- s8, writes <- s9

TrustAssumption == Unlocked \notin Clients
QueryAssumption == MaxLoads \in Nat /\ MaxWorktrees \in Nat \ {0}
FleetAssumption == /\ MachineOf \in [Publishers -> Machines]
                   /\ \A m \in Machines : Len(Configured[m]) \in Nat
WarmAssumption == MaxMade \in Nat \ {0} /\ Nobody \notin warm!Workers
PruneAssumption ==
    /\ MaxMoves \in Nat /\ Heads # {} /\ Sources # {}
    /\ None \notin prune!Worktree \cup prune!Record \cup prune!Candidate \cup prune!Loss
BaseAssumption == MaxCommits \in Nat \ {0} /\ MaxSyncs \in Nat /\ MaxWrites \in Nat
TmuxAssumption ==
    /\ None \notin Gens \cup Directories \cup Openers \cup Removers
    /\ None \notin tmux!Session /\ Branches # {}
ImportAssumption ==
    /\ None \notin 1..MaxMade /\ None \notin Importers \cup Visitors
    /\ None \notin pr!Tree /\ None \notin pr!Record

ASSUME Assumption ==
    /\ TrustAssumption /\ QueryAssumption /\ FleetAssumption /\ WarmAssumption
    /\ PruneAssumption /\ BaseAssumption /\ TmuxAssumption /\ ImportAssumption

ServicesInit ==
    /\ Init
    /\ \/ /\ focus = "lock"
          /\ s1 = 0 /\ s2 = 0 /\ s3 = 0 /\ s4 = 0 /\ s5 = 0 /\ s6 = 0 /\ s7 = 0 /\ s8 = 0 /\ s9 = 0 /\ s10 = 0 /\ s11 = 0 /\ s12 = 0 /\ s13 = 0
       \/ /\ focus = "follow" /\ follow!Init /\ file = Nobody
       \/ /\ focus = "trust" /\ trust!Init /\ file = Nobody
       \/ /\ focus = "query" /\ query!Init /\ file = Nobody
       \/ /\ focus = "fleet" /\ fleet!Init /\ file = Nobody
          /\ s9 = 0 /\ s10 = 0 /\ s11 = 0 /\ s12 = 0 /\ s13 = 0
       \/ /\ focus = "warm" /\ warm!Init /\ file = Nobody
          /\ s13 = 0
       \/ /\ focus = "prune" /\ prune!Init /\ file = Nobody
          /\ s13 = 0
       \/ /\ focus = "tmux" /\ tmux!Init /\ file = Nobody
          /\ s8 = 0 /\ s9 = 0 /\ s10 = 0 /\ s11 = 0 /\ s12 = 0 /\ s13 = 0
       \/ /\ focus = "pr" /\ pr!Init /\ file = Nobody
       \/ /\ focus = "base" /\ base!Init /\ file = Nobody
          /\ s10 = 0 /\ s11 = 0 /\ s12 = 0 /\ s13 = 0

ServicesNext ==
    /\ UNCHANGED focus
    /\ \/ focus = "lock" /\ Next /\ UNCHANGED slots
       \/ focus = "follow" /\ follow!Next /\ UNCHANGED <<vars>>
       \/ focus = "trust" /\ trust!Next /\ UNCHANGED <<vars>>
       \/ focus = "query" /\ query!Next /\ UNCHANGED <<vars>>
       \/ focus = "fleet" /\ fleet!Next /\ UNCHANGED <<s9, s10, s11, s12, s13, vars>>
       \/ focus = "warm" /\ warm!Next /\ UNCHANGED <<s13, vars>>
       \/ focus = "prune" /\ prune!Next /\ UNCHANGED <<s13, vars>>
       \/ focus = "tmux" /\ tmux!Next /\ UNCHANGED <<s8, s9, s10, s11, s12, s13, vars>>
       \/ focus = "pr" /\ pr!Next /\ UNCHANGED <<vars>>
       \/ focus = "base" /\ base!Next /\ UNCHANGED <<s10, s11, s12, s13, vars>>

services == <<focus, slots, vars>>
ServicesSpec == ServicesInit /\ [][ServicesNext]_services

-----------------------------------------------------------------------------
\* What the run checks of each component.
FollowingIsFaithful == focus = "follow" => follow!FollowingIsFaithful
SparesAndBasesAreSafe ==
    /\ [](focus = "warm" => warm!SparesAreSafe)
    /\ [](focus = "base" => base!OutcomeIsTrue)
    /\ [][focus = "base" => base!HistoryIsKept]_services
TrustIsReviewed ==
    /\ [](focus = "trust" => trust!OnlyReviewedConfigApplies)
    /\ [][focus = "trust" => trust!ApprovalsKeepEachOther]_services
InventoryIsConsistent ==
    /\ [](focus = "query" => query!ServiceIsConsistent)
    /\ [][focus = "query" => query!CacheNeverGoesBack]_services
FleetIsTrue ==
    /\ [](focus = "fleet" => fleet!ManifestsAreObserved /\ fleet!DashboardShowsTheFleet)
    /\ [][focus = "fleet" => fleet!CollisionsAreFlagged]_services
PruneIsSafe ==
    /\ [](focus = "prune" => prune!OnlyMergedWorkIsLost)
    /\ [][focus = "prune" => prune!LaterImportsKeepTheirRecord]_services
SessionsAreKept ==
    /\ [](focus = "tmux" => tmux!MarksAreTrue)
    /\ [][focus = "tmux" => tmux!StepsKeepSessions]_services
ImportsAreProtected ==
    /\ [](focus = "pr" => pr!ImportsAreKept)
    /\ [][focus = "pr" => pr!ImportSteps]_services
=============================================================================
