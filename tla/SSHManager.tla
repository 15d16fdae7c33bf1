----------------------------- MODULE SSHManager -----------------------------
(***************************************************************************)
(* The manager of OpenSSH masters (internal/ssh/manager.go): callers lease *)
(* the masters of a reviewed route hop by hop and release them, idle timers*)
(* disconnect what nobody leases, Close disconnects everything.            *)
(*                                                                         *)
(* An identity names one hop of one route; all identities here belong to   *)
(* one reviewed route identity, so they form one idle group.  A master is  *)
(* the generation it was started with, 0 when there is none.  A step       *)
(* between two uses of m.mu or of an identity's gate is one action; the    *)
(* wait for a gate is part of the step that takes it.  An idle deadline    *)
(* and its timer pass together, and the callback then waits for any time.  *)
(* A heartbeat's check in flight only delays a disconnect, which may then  *)
(* fail by its deadline as Disconnect itself may.  The platforms without   *)
(* masters are not modelled.                                               *)
(***************************************************************************)
EXTENDS Integers, Sequences, FiniteSets

CONSTANTS
    Ids,         \* identities of the hops
    Terminals,   \* identities of destinations
    Chain,       \* per destination, the identities of its hops in order
    Agents,      \* identities that forward an agent
    KeepsIdle,   \* ssh.idle_timeout is not zero
    Callers,     \* callers of Acquire
    Sweeper,     \* the holder of idleCleanupMu
    Closer,      \* the caller of Close
    Nobody,
    MaxGen       \* bound: masters started

ASSUME ManagerAssumption ==
    /\ IsFiniteSet(Callers)
    /\ Terminals \subseteq Ids /\ Terminals # {} /\ Agents \subseteq Ids
    /\ Chain \in [Terminals -> Seq(Ids)]
    /\ \A t \in Terminals : Chain[t] # <<>> /\ Chain[t][Len(Chain[t])] = t
    \* an identity digests the one before it
    /\ \A t, u \in Terminals : \A k \in DOMAIN Chain[t], l \in DOMAIN Chain[u] :
          Chain[t][k] = Chain[u][l] =>
             k = l /\ \A m \in 1..k : Chain[t][m] = Chain[u][m]
    /\ KeepsIdle \in BOOLEAN /\ MaxGen \in Nat \ {0}
    /\ Sweeper # Closer /\ {Sweeper, Closer, Nobody} \cap Callers = {} /\ Nobody \notin {Sweeper, Closer}

Actors == Callers \cup {Sweeper, Closer}

VARIABLES
    route,    \* per identity, the managed route or NoRoute
    master,   \* per identity, the generation of the live master or 0
    last,     \* the last generation started
    gate,     \* per identity, the actor that holds its operation gate
    fired,    \* identities with an idle callback that waits for idleCleanupMu
    closed,   \* m.closed
    pc,       \* per actor, what it does
    at,       \* per actor, the identity it works on
    want,     \* per caller, its destination
    rolling,  \* callers that release because their Acquire failed
    got,      \* per caller, the generation ConnectWithRunner returned
    held,     \* per caller and identity, the generation of its lease or 0
    counted,  \* per caller, identities whose lease is no longer counted
    targets,  \* what the sweeper and the closer still have to visit
    awaited,  \* identities in operation that Close waits for
    closeErr, \* the error of this Close so far
    failed    \* history: identities whose Disconnect failed after Close began

managerVars == <<route, master, last, gate, fired, closed>>
callerVars == <<want, rolling, got, held, counted>>
sweepVars == <<targets, awaited, closeErr>>
vars == <<managerVars, pc, at, callerVars, sweepVars, failed>>

\* idle: no deadline, one with its timer, one whose timer was stopped, or passed.
NoRoute == [gen |-> 0, leases |-> 0, idle |-> "none", beat |-> FALSE]
Route == [gen : 1..MaxGen, leases : 0..Cardinality(Callers),
          idle : {"none", "timed", "untimed", "passed"}, beat : BOOLEAN]

Depth(i) == CHOOSE k \in UNION {DOMAIN Chain[t] : t \in Terminals} :
                \E t \in Terminals : k \in DOMAIN Chain[t] /\ Chain[t][k] = i
Below(i) == {j \in Ids : \E t \in Terminals : \E k, l \in DOMAIN Chain[t] :
                k < l /\ Chain[t][k] = i /\ Chain[t][l] = j}
Upstream(i) == {u \in Ids : i \in Below(u) /\ Depth(i) = Depth(u) + 1}
Known(i) == route[i] # NoRoute
Deepest(S) == {i \in S : \A j \in S : Depth(j) <= Depth(i)}

Referencing == {"connected", "refused", "drop", "cut"}
\* Identities with a reference in m.operations; who still waits for a gate and
\* will find the manager closed need not be counted.
Referenced == {at[a] : a \in {b \in Actors : pc[b] \in Referencing}}

TypeOK ==
    /\ route \in [Ids -> Route \cup {NoRoute}]
    /\ master \in [Ids -> 0..MaxGen] /\ last \in 0..MaxGen
    /\ gate \in [Ids -> Actors \cup {Nobody}]
    /\ fired \subseteq Ids /\ closed \in BOOLEAN
    /\ pc \in [Actors -> Referencing \cup {"idle", "next", "held", "again", "abandoned", "list", "done"}]
    /\ at \in [Actors -> Ids \cup {Nobody}] /\ want \in [Callers -> Terminals]
    /\ rolling \subseteq Callers
    /\ got \in [Callers -> 0..MaxGen] /\ held \in [Callers -> [Ids -> 0..MaxGen]]
    /\ counted \in [Callers -> SUBSET Ids]
    /\ targets \in [{Sweeper, Closer} -> SUBSET (Ids \X (1..MaxGen))]
    /\ awaited \subseteq Ids /\ closeErr \in BOOLEAN /\ failed \subseteq Ids

Init ==
    /\ route = [i \in Ids |-> NoRoute]
    /\ master = [i \in Ids |-> 0] /\ last = 0
    /\ gate = [i \in Ids |-> Nobody]
    /\ fired = {} /\ closed = FALSE
    /\ pc = [a \in Actors |-> "idle"]
    /\ at = [a \in Actors |-> Nobody]
    /\ want = [c \in Callers |-> CHOOSE t \in Terminals : TRUE]
    /\ rolling = {} /\ got = [c \in Callers |-> 0]
    /\ held = [c \in Callers |-> [i \in Ids |-> 0]]
    /\ counted = [c \in Callers |-> {}]
    /\ targets = [a \in {Sweeper, Closer} |-> {}]
    /\ awaited = {} /\ closeErr = FALSE /\ failed = {}

-----------------------------------------------------------------------------
(* Heartbeats, idle deadlines and the masters themselves. *)

StopBeat(r) == [r EXCEPT !.beat = FALSE]
StopTimer(r) == [r EXCEPT !.idle = IF @ = "timed" THEN "untimed" ELSE @]
NotIdle(r) == [r EXCEPT !.idle = "none"]

DeadlinePasses(i) ==
    /\ route[i].idle \in {"timed", "untimed"}
    /\ route' = [route EXCEPT ![i].idle = "passed"]
    /\ fired' = IF route[i].idle = "timed" THEN fired \cup {i} ELSE fired
    /\ UNCHANGED <<master, last, gate, closed, pc, at, callerVars, sweepVars, failed>>

\* A master ends and takes along what is connected through it.
Ends(i) == [j \in Ids |-> IF j \in {i} \cup Below(i) THEN 0 ELSE master[j]]

MasterDies(i) ==
    /\ master[i] # 0
    /\ master' = Ends(i) /\ failed' = failed \ ({i} \cup Below(i))
    /\ UNCHANGED <<route, last, gate, fired, closed, pc, at, callerVars, sweepVars>>

-----------------------------------------------------------------------------
(* Acquire. *)

Path(c) == Chain[want[c]]
Goes(a, where) == pc' = [pc EXCEPT ![a] = where]

\* The caller turns to the next lease it has to release, the last one first,
\* or is done: with an error the holder may release again, a failed
\* acquisition abandons what its rollback could not release.
HeldBy(c) == {i \in Ids : held[c][i] # 0}
ReleaseNext(c, left, leases, rolls) ==
    /\ held' = [held EXCEPT ![c] = leases]
    /\ \/ /\ left # {} /\ Goes(c, "drop") /\ rolling' = rolls
          /\ \E i \in Deepest(left) : at' = [at EXCEPT ![c] = i]
       \/ /\ left = {} /\ at' = [at EXCEPT ![c] = Nobody] /\ rolling' = rolls \ {c}
          /\ Goes(c, IF \A i \in Ids : leases[i] = 0 THEN "idle"
                     ELSE IF c \in rolls THEN "abandoned" ELSE "again")

\* releaseAcquiredLeases after an error at some hop.
RollBack(c) ==
    /\ ReleaseNext(c, HeldBy(c), held[c], rolling \cup {c})
    /\ got' = [got EXCEPT ![c] = 0] /\ UNCHANGED <<want, counted>>

Begin(c, t) ==
    /\ pc[c] = "idle" /\ ~closed
    /\ want' = [want EXCEPT ![c] = t]
    /\ at' = [at EXCEPT ![c] = Chain[t][1]] /\ Goes(c, "next")
    /\ UNCHANGED <<managerVars, rolling, got, held, counted, sweepVars, failed>>

\* Resolution, the upstream's arguments, the runner or the wait for the gate fails.
GiveUp(c) ==
    /\ pc[c] = "next" /\ RollBack(c)
    /\ UNCHANGED <<managerVars, sweepVars, failed>>

\* Under the gate ConnectWithRunner reuses the live master or starts one, for
\* which the upstream master of the caller's lease has to live.
Connect(c) ==
    LET i == at[c]
        gen == IF master[i] # 0 THEN master[i] ELSE last + 1
    IN  /\ pc[c] = "next" /\ gate[i] = Nobody /\ ~closed
        /\ gen <= MaxGen
        /\ \A u \in Upstream(i) : master[i] # 0 \/ master[u] = held[c][u]
        /\ master' = [master EXCEPT ![i] = gen]
        /\ last' = IF gen > last THEN gen ELSE last
        /\ gate' = [gate EXCEPT ![i] = c] /\ got' = [got EXCEPT ![c] = gen]
        /\ Goes(c, "connected")
        /\ UNCHANGED <<route, fired, closed, at, want, rolling, held, counted, sweepVars, failed>>

\* The route is unchanged and the manager open: one more lease of the route.
FreshRoute(gen) == [NoRoute EXCEPT !.gen = gen]
Leased(r, gen) ==
    LET s == IF r.gen = gen THEN r ELSE FreshRoute(gen)
    IN  [s EXCEPT !.idle = "none", !.leases = @ + 1, !.beat = TRUE]

Lease(c) ==
    LET i == at[c] IN
    /\ pc[c] = "connected" /\ ~closed
    /\ route' = [route EXCEPT ![i] = Leased(@, got[c])]
    \* a replaced route leaves its timer behind
    /\ fired' = IF route[i].idle = "timed" /\ route[i].gen # got[c] THEN fired \cup {i} ELSE fired
    /\ held' = [held EXCEPT ![c][i] = got[c]] /\ got' = [got EXCEPT ![c] = 0]
    /\ gate' = [gate EXCEPT ![i] = Nobody]
    /\ \/ i = want[c] /\ Goes(c, "held") /\ at' = [at EXCEPT ![c] = Nobody]
       \/ i # want[c] /\ at' = [at EXCEPT ![c] = Path(c)[Depth(i) + 1]] /\ Goes(c, "next")
    /\ failed' = failed \ {i}
    /\ UNCHANGED <<master, last, closed, want, rolling, counted, sweepVars>>

\* The route changed, something failed or the manager closed: disconnectUnleased.
Refuse(c) ==
    LET i == at[c]
        keep == Known(i) /\ (route[i].gen # got[c] \/ route[i].leases > 0)
    IN  /\ pc[c] = "connected"
        /\ \/ keep /\ gate' = [gate EXCEPT ![i] = Nobody] /\ RollBack(c) /\ UNCHANGED route
           \/ /\ ~keep
              /\ route' = [route EXCEPT ![i] = IF Known(i) THEN StopBeat(StopTimer(@))
                                               ELSE FreshRoute(got[c])]
              /\ Goes(c, "refused") /\ got' = [got EXCEPT ![c] = 0]
              /\ UNCHANGED <<gate, at, want, rolling, held, counted>>
        /\ UNCHANGED <<master, last, fired, closed, sweepVars, failed>>

-----------------------------------------------------------------------------
(* Release. *)

StartRelease(c) ==
    /\ pc[c] \in {"held", "again"}
    /\ ReleaseNext(c, HeldBy(c), held[c], rolling)
    /\ UNCHANGED <<managerVars, want, got, counted, sweepVars, failed>>

\* The leases left to visit in this release; a failed one is left behind.
Shallower(c) == {i \in HeldBy(c) : Depth(i) < Depth(at[c])}
Dropped(c) == [held[c] EXCEPT ![at[c]] = 0]

Remaining(c, i) == IF i \in counted[c] THEN route[i].leases ELSE route[i].leases - 1

ReleaseLease(c) ==
    LET i == at[c]
        stale == route[i].gen # held[c][i]
        left == Remaining(c, i)
        one == [route[i] EXCEPT !.leases = left]
    IN  /\ pc[c] = "drop" /\ gate[i] = Nobody
        /\ \/ /\ stale \/ left > 0 \/ (KeepsIdle /\ i \notin Agents)
              /\ route' = [route EXCEPT ![i] =
                     IF stale THEN @ ELSE IF left > 0 THEN one
                     ELSE [one EXCEPT !.idle = "timed"]]
              /\ ReleaseNext(c, Shallower(c), Dropped(c), rolling)
              /\ counted' = [counted EXCEPT ![c] = @ \ {i}] /\ UNCHANGED gate
           \/ /\ ~stale /\ left <= 0 /\ (~KeepsIdle \/ i \in Agents)
              /\ route' = [route EXCEPT ![i] = StopBeat(one)]
              /\ gate' = [gate EXCEPT ![i] = c]
              /\ counted' = [counted EXCEPT ![c] = @ \cup {i}]
              /\ Goes(c, "cut") /\ UNCHANGED <<at, held, rolling>>
        /\ UNCHANGED <<master, last, fired, closed, want, got, sweepVars, failed>>

\* The session cleanup fails, or the deadline passes before the gate is free.
ReleaseFails(c) ==
    /\ pc[c] = "drop"
    /\ ReleaseNext(c, Shallower(c), held[c], rolling)
    /\ UNCHANGED <<managerVars, want, got, counted, sweepVars, failed>>

-----------------------------------------------------------------------------
(* Disconnect, by whoever holds the gate. *)

Disconnected(i) ==
    /\ master' = Ends(i)
    /\ route' = [route EXCEPT ![i] = NoRoute]
    /\ failed' = failed \ ({i} \cup Below(i))
NotDisconnected(i) ==
    /\ failed' = IF closed THEN failed \cup {i} ELSE failed
    /\ UNCHANGED <<master, route>>

\* At the end of disconnectUnleased and of release.
RefusalCuts(c) ==
    /\ pc[c] = "refused"
    /\ Disconnected(at[c]) \/ NotDisconnected(at[c])
    /\ gate' = [gate EXCEPT ![at[c]] = Nobody] /\ RollBack(c)
    /\ UNCHANGED <<last, fired, closed, sweepVars>>

ReleaseCuts(c) ==
    LET i == at[c] IN
    /\ pc[c] = "cut"
    /\ gate' = [gate EXCEPT ![i] = Nobody]
    /\ \/ /\ Disconnected(i)
          /\ ReleaseNext(c, Shallower(c), Dropped(c), rolling)
          /\ counted' = [counted EXCEPT ![c] = @ \ {i}]
       \/ /\ NotDisconnected(i)
          /\ ReleaseNext(c, Shallower(c), held[c], rolling) /\ UNCHANGED counted
    /\ UNCHANGED <<last, fired, closed, want, got, sweepVars>>

Rests(a) == at' = [at EXCEPT ![a] = Nobody]
TurnsTo(a, i) == at' = [at EXCEPT ![a] = i] /\ Goes(a, "cut")

WorkerCuts(a) ==
    LET i == at[a] IN
    /\ a \in {Sweeper, Closer} /\ pc[a] = "cut"
    /\ \/ Disconnected(i) /\ UNCHANGED closeErr
       \/ NotDisconnected(i) /\ closeErr' = (closeErr \/ a = Closer)
    /\ gate' = [gate EXCEPT ![i] = Nobody] /\ Rests(a)
    /\ Goes(a, IF a = Sweeper /\ targets[Sweeper] = {} THEN "idle" ELSE "list")
    /\ UNCHANGED <<last, fired, closed, callerVars, targets, awaited>>

-----------------------------------------------------------------------------
(* disconnectIdleGroup. *)

Idle(i, gen) == route[i].gen = gen /\ route[i].leases = 0 /\ route[i].idle = "passed"

Sweep(i) ==
    /\ pc[Sweeper] = "idle" /\ i \in fired
    /\ fired' = fired \ {i}
    /\ LET idle == {<<j, route[j].gen>> : j \in {k \in Ids : Known(k) /\ Idle(k, route[k].gen)}}
       IN  /\ targets' = [targets EXCEPT ![Sweeper] = idle]
           /\ Goes(Sweeper, IF idle = {} THEN "idle" ELSE "list")
    /\ UNCHANGED <<route, master, last, gate, closed, at, callerVars, awaited, closeErr, failed>>

\* A deepest target.
Targeted(a, i) == i \in Deepest({t[1] : t \in targets[a]})

Untarget(a, i) == targets' = [targets EXCEPT ![a] = {t \in @ : t[1] # i}]
TrustsTheList(i) == \E t \in targets[Sweeper] : t[1] = i   \* mutant: no second look
StillIdle(i) == \E t \in targets[Sweeper] : t[1] = i /\ Idle(i, t[2])
Transported(i) == \E j \in Ids : Known(j) /\ i \in Upstream(j)

DisconnectIdle(i) ==
    /\ pc[Sweeper] = "list" /\ Targeted(Sweeper, i) /\ gate[i] = Nobody
    /\ Untarget(Sweeper, i)
    /\ \/ /\ ~StillIdle(i) \/ Transported(i)
          /\ Goes(Sweeper, IF targets'[Sweeper] = {} THEN "idle" ELSE "list")
          /\ UNCHANGED <<route, gate, at>>
       \/ /\ StillIdle(i) /\ ~Transported(i)
          /\ route' = [route EXCEPT ![i] = StopBeat(NotIdle(@))]
          /\ gate' = [gate EXCEPT ![i] = Sweeper] /\ TurnsTo(Sweeper, i)
    /\ UNCHANGED <<master, last, fired, closed, callerVars, awaited, closeErr, failed>>

-----------------------------------------------------------------------------
(* Close; after an error it may be called again. *)

NoOperations == {}                                         \* mutant
Operating == {i \in Referenced : ~Known(i)}

Close ==
    /\ pc[Closer] = "idle"
    /\ closed' = TRUE /\ closeErr' = FALSE
    /\ \/ /\ \A i \in Ids : ~Known(i)
          /\ Referenced = {} /\ Goes(Closer, "done")
          /\ UNCHANGED <<route, targets, awaited>>
       \/ /\ (\E i \in Ids : Known(i)) \/ Referenced # {}
          /\ targets' = [targets EXCEPT ![Closer] = {<<i, route[i].gen>> : i \in {j \in Ids : Known(j)}}]
          /\ awaited' = Operating
          /\ route' = [i \in Ids |-> IF Known(i)
                          THEN StopBeat(NotIdle(route[i]))
                          ELSE NoRoute]
          /\ Goes(Closer, "list")
    /\ UNCHANGED <<master, last, gate, fired, at, callerVars, failed>>

CloseRoute(i) ==
    /\ pc[Closer] = "list" /\ Targeted(Closer, i) /\ gate[i] = Nobody
    /\ \/ ~Known(i) /\ UNCHANGED <<route, gate, pc, at>>
       \/ /\ Known(i)
          /\ route' = [route EXCEPT ![i] = StopBeat(StopTimer(@))]
          /\ gate' = [gate EXCEPT ![i] = Closer] /\ TurnsTo(Closer, i)
    /\ Untarget(Closer, i)
    /\ UNCHANGED <<master, last, fired, closed, callerVars, awaited, closeErr, failed>>

\* The deadline of Close passes while it waits for a gate or a heartbeat.
CloseExpires ==
    /\ \/ pc[Closer] = "list" /\ UNCHANGED gate
       \/ pc[Closer] = "cut" /\ gate' = [gate EXCEPT ![at[Closer]] = Nobody]
    /\ Goes(Closer, "idle") /\ Rests(Closer) /\ closeErr' = FALSE
    /\ targets' = [targets EXCEPT ![Closer] = {}] /\ awaited' = {}
    /\ UNCHANGED <<route, master, last, fired, closed, callerVars, failed>>

AwaitOperation(i) ==
    /\ pc[Closer] = "list" /\ targets[Closer] = {}
    /\ i \in awaited /\ gate[i] = Nobody
    /\ awaited' = awaited \ {i}
    /\ UNCHANGED <<managerVars, pc, at, callerVars, targets, closeErr, failed>>

CloseReturns ==
    /\ pc[Closer] = "list" /\ targets[Closer] = {} /\ awaited = {}
    /\ Goes(Closer, IF closeErr THEN "idle" ELSE "done") /\ closeErr' = FALSE
    /\ UNCHANGED <<managerVars, at, callerVars, targets, awaited, failed>>

-----------------------------------------------------------------------------
Acquiring(c) ==
    \/ \E t \in Terminals : Begin(c, t)
    \/ GiveUp(c) \/ Connect(c) \/ Lease(c) \/ Refuse(c) \/ RefusalCuts(c)

Ending(c) == StartRelease(c) \/ ReleaseLease(c) \/ ReleaseFails(c) \/ ReleaseCuts(c)

Sweeping ==
    \/ \E i \in Ids : Sweep(i) \/ DisconnectIdle(i)
    \/ WorkerCuts(Sweeper)

Closing ==
    \/ Close \/ WorkerCuts(Closer) \/ CloseExpires \/ CloseReturns
    \/ \E i \in Ids : CloseRoute(i) \/ AwaitOperation(i)

Next ==
    \/ \E c \in Callers : Acquiring(c) \/ Ending(c)
    \/ \E i \in Ids : DeadlinePasses(i) \/ MasterDies(i)
    \/ Sweeping \/ Closing

Spec == Init /\ [][Next]_vars

-----------------------------------------------------------------------------
(* Properties. *)

Counts(c, i) == held[c][i] # 0 /\ i \notin counted[c]

\* The count of a route is the number of leases of its generation that have not
\* been released, whatever failed and was retried on the way: it neither leaks
\* a master nor lets the last release of one come too early.
LeaseCountIsExact ==
    \A i \in Ids : Known(i) =>
        route[i].leases = Cardinality({c \in Callers : Counts(c, i) /\ held[c][i] = route[i].gen})

Cuts(a, i) == a # Closer /\ pc[a] \in {"refused", "cut"} /\ at[a] = i

\* Only Close disconnects a master under a lease of it: neither the sweep nor a
\* refused acquisition nor another release does, whatever moved between the
\* decision and the Disconnect.
LeasedMasterIsKept ==
    \A a \in Actors, i \in Ids : Cuts(a, i) =>
        \A c \in Callers : ~(Counts(c, i) /\ held[c][i] = master[i])

Uses(c) == pc[c] \in {"next", "connected", "held"}

\* The sweep does not disconnect a hop while somebody uses a connection made
\* through it, even one whose lease of the hop is of an earlier generation.
SweepSparesTransports ==
    \A i \in Ids : Cuts(Sweeper, i) =>
        \A c \in Callers, j \in Below(i) : Uses(c) => held[c][j] = 0 \/ held[c][j] # master[j]

\* The leases of a master are counted exactly; nothing but Close cuts a master
\* under a lease; and the sweep cuts no hop under a connection through it, which
\* a refused acquisition or an immediate release does not look at.
MastersAreKept == LeaseCountIsExact /\ LeasedMasterIsKept /\ SweepSparesTransports

\* When Close has returned without an error, no acquisition still connects, and
\* a master that lives is one whose Disconnect failed since Close began.
CloseLeavesNothing ==
    pc[Closer] = "done" =>
        /\ \A c \in Callers : pc[c] \notin {"connected", "refused"}
        /\ \A i \in Ids : master[i] # 0 => i \in failed

\* What makes them inductive.  A caller leases the hops of its path in their
\* order and releases what it holds.
CallerIsSound(c) ==
    /\ pc[c] \notin {"list", "done"}
    /\ \A i \in Ids : held[c][i] <= last
    /\ \A i \in HeldBy(c) : \E k \in DOMAIN Path(c) : Path(c)[k] = i
    /\ counted[c] \subseteq HeldBy(c)
    /\ pc[c] \in {"idle", "next", "connected", "held"} => counted[c] = {}
    /\ pc[c] = "idle" => HeldBy(c) = {}
    /\ pc[c] \in {"next", "connected"} =>
          \E k \in DOMAIN Path(c) :
             at[c] = Path(c)[k] /\ \A l \in DOMAIN Path(c) : held[c][Path(c)[l]] # 0 <=> l < k
    /\ pc[c] \in {"drop", "cut"} => at[c] \in HeldBy(c)

\* Whoever connects or disconnects holds the gate, and disconnects what has no
\* lease; Close alone does so under leases.
HolderIsSound(a) ==
    /\ pc[a] \in {"connected", "refused", "cut"} => at[a] \in Ids /\ gate[at[a]] = a
    /\ a # Closer /\ pc[a] \in {"refused", "cut"} => route[at[a]].leases = 0

\* A master that has no route yet was started through the caller's own lease.
ConnectionIsSound(c) ==
    pc[c] = "connected" =>
        /\ got[c] # 0 /\ got[c] <= last /\ master[at[c]] \in {0, got[c]}
        /\ \A d \in Callers : held[d][at[c]] = got[c] => route[at[c]].gen = got[c]
        /\ ~Known(at[c]) /\ master[at[c]] # 0 => \A u \in Upstream(at[c]) : held[c][u] = master[u]

\* A master has a route, or is being connected; the masters it goes through live
\* and have one.  A lease of the live master is one of the route.
MasterIsSound(i) ==
    /\ master[i] <= last
    /\ \A c \in Callers : held[c][i] # 0 /\ held[c][i] = master[i] => route[i].gen = master[i]
    /\ master[i] # 0 => Known(i) \/ \E c \in Callers : pc[c] = "connected" /\ at[c] = i
    /\ master[i] # 0 => \A u \in Ids : i \in Below(u) => master[u] # 0 /\ Known(u)

\* The sweep disconnects a hop that nothing goes through.
SweepIsSound ==
    /\ pc[Sweeper] \in {"idle", "list", "cut"}
    /\ pc[Sweeper] = "cut" => \A j \in Below(at[Sweeper]) : master[j] = 0

\* Close comes by every master and every acquisition under way.
ToVisit == {t[1] : t \in targets[Closer]}
CloseIsSound ==
    /\ pc[Closer] \in {"idle", "list", "cut", "done"}
    /\ pc[Closer] # "idle" => closed
    /\ pc[Closer] \in {"list", "cut"} =>
          /\ \A c \in Callers : pc[c] \in {"connected", "refused"} => at[c] \in ToVisit \cup awaited
          /\ \A i \in Ids : master[i] # 0 =>
                i \in failed \cup ToVisit \cup awaited \/ (pc[Closer] = "cut" /\ at[Closer] = i)
          /\ \A i \in awaited \ failed : master[i] # 0 =>
                \E c \in Callers : at[c] = i /\ (pc[c] = "refused" \/ (pc[c] = "connected" /\ ~Known(i)))
    /\ CloseLeavesNothing

ManagerInv ==
    /\ TypeOK /\ LeaseCountIsExact
    /\ \A c \in Callers : CallerIsSound(c) /\ ConnectionIsSound(c)
    /\ \A a \in Actors : HolderIsSound(a)
    /\ \A i \in Ids : MasterIsSound(i)
    /\ SweepIsSound /\ CloseIsSound
=============================================================================
