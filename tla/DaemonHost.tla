----------------------------- MODULE DaemonHost -----------------------------
(***************************************************************************)
(* The daemon host (internal/daemon/host.go, runHost), its admission gate  *)
(* (gate.go), the reserving request handlers (server.go) and the registry  *)
(* of SSH leases (ssh_lifecycle.go).  The gate counts reservations of work *)
(* and of leases; the host stops when asked, when its context ends or when *)
(* idle, drains the gate, and tears everything down in order.              *)
(*                                                                         *)
(* A request is one call of a reserving handler (inventory, trust,         *)
(* removal, SSH resolution).  A lease is one sshLeaseEntry together with   *)
(* the operation that acquires it.  A lease's expiry time is abstracted to *)
(* an instant: each scheduleExpiry takes one that no pending callback of   *)
(* the lease carries (the clock advances between two schedules), so        *)
(* instants come back and a lease may be rescheduled for ever.  A timer    *)
(* may go off at any moment.                                               *)
(***************************************************************************)
EXTENDS Naturals, FiniteSets

CONSTANTS
    Requests,     \* calls of reserving handlers
    Leases,       \* SSH lease entries, each acquired by its own operation
    MaxHolds,     \* bound on concurrent holds of one lease
    MaxPending    \* bound on the expiry callbacks of one lease pending at once

ASSUME HostAssumption ==
    /\ MaxHolds \in Nat /\ MaxPending \in Nat
    /\ Requests \cap Leases = {}
    /\ IsFiniteSet(Requests) /\ IsFiniteSet(Leases)

VARIABLES
    \* the gate and the operation hub's own drain flag
    gateDraining, \* Gate.draining
    hubDraining,  \* OperationHub.draining
    work,         \* ReservationWork holders: requests and lease operations
    leaseRes,     \* ReservationLease holders
    recent,       \* the last activity is younger than the idle timeout
    \* the host
    host,         \* where runHost is
    result,       \* drainResult
    shutdown,     \* where the shutdown handler is
    httpOpen,     \* the HTTP server accepts requests
    ownersClosed, \* closeSSHOwners has run
    record,       \* the runtime record is on disk
    \* requests and lease operations
    req,          \* per request
    op,           \* per lease, where its operation is
    ssh,          \* per lease, the connection behind kwt.SSHLease
    \* the lease registry
    closed,       \* registry.closed
    listed,       \* entries in registry.leases
    closing,      \* entries taken out by close and not yet closed
    released,     \* entries with released set
    cleaning,     \* entries with cleaning set
    returning,    \* entries whose cleanup succeeded and must be delisted
    expires,      \* per entry, entry.expires, 0 before add
    timers,       \* armed timers, <<lease, instant>>
    fired,        \* timers that went off and whose expire call waits
    holds,        \* per entry, entry.holds
    usedSince     \* history: per entry, the callbacks pending when it was last used

gateVars  == <<gateDraining, hubDraining, work, leaseRes, recent>>
hostVars  == <<host, result, shutdown, httpOpen, ownersClosed, record>>
entryVars == <<closed, listed, closing, released, cleaning, returning>>
timerVars == <<expires, timers, fired, holds, usedSince>>
vars == <<gateVars, hostVars, entryVars, timerVars, req, op, ssh>>

Instants == 1..MaxPending

HostStates == {"serving", "stopping", "gateDrained", "waiting", "closingHTTP",
               "closingLeases", "closingEntries", "releasing", "removing", "stopped"}
OpStates == {"none", "acquiring", "acquired", "adding", "finishing", "ended"}

TypeOK ==
    /\ gateDraining \in BOOLEAN /\ hubDraining \in BOOLEAN /\ recent \in BOOLEAN
    /\ work \subseteq Requests \cup Leases
    /\ leaseRes \subseteq Leases
    /\ host \in HostStates
    /\ result \in {"none", "released", "deadline"}
    /\ shutdown \in {"none", "gate", "requested"}
    /\ httpOpen \in BOOLEAN /\ ownersClosed \in BOOLEAN /\ record \in BOOLEAN
    /\ req \in [Requests -> {"none", "admitted", "working", "done"}]
    /\ op \in [Leases -> OpStates]
    /\ ssh \in [Leases -> {"none", "live", "gone", "abandoned"}]
    /\ closed \in BOOLEAN
    /\ listed \subseteq Leases /\ closing \subseteq Leases /\ released \subseteq Leases
    /\ cleaning \subseteq Leases /\ returning \subseteq Leases
    /\ expires \in [Leases -> {0} \cup Instants]
    /\ timers \subseteq Leases \X Instants
    /\ fired \subseteq Leases \X Instants
    /\ holds \in [Leases -> 0..MaxHolds]
    /\ usedSince \in [Leases -> SUBSET Instants]

Init ==
    /\ gateDraining = FALSE /\ hubDraining = FALSE
    /\ work = {} /\ leaseRes = {} /\ recent = TRUE
    /\ host = "serving" /\ result = "none" /\ shutdown = "none"
    /\ httpOpen = TRUE /\ ownersClosed = FALSE /\ record = TRUE
    /\ req = [r \in Requests |-> "none"]
    /\ op = [l \in Leases |-> "none"]
    /\ ssh = [l \in Leases |-> "none"]
    /\ closed = FALSE
    /\ listed = {} /\ closing = {} /\ released = {} /\ cleaning = {} /\ returning = {}
    /\ expires = [l \in Leases |-> 0]
    /\ timers = {} /\ fired = {}
    /\ holds = [l \in Leases |-> 0]
    /\ usedSince = [l \in Leases |-> {}]

-----------------------------------------------------------------------------
(* The gate. *)

Quiet == work = {} /\ leaseRes = {}      \* activeWork = 0 and activeLeases = 0

MayReserve == ~gateDraining

\* Gate.ShouldStopForIdle.
IdleNow == ~gateDraining /\ Quiet /\ ~recent

\* Gate.WaitForDrain returns DrainReleased.
DrainedOfWork == gateDraining /\ work = {}                \* mutant: leases ignored
Drained == gateDraining /\ Quiet

\* Gate.Touch; while draining the activity is not recorded.
Touched == recent' = (recent \/ ~gateDraining)

\* Time passes without activity.
IdleTimeout ==
    /\ recent
    /\ recent' = FALSE
    /\ UNCHANGED <<gateDraining, hubDraining, work, leaseRes, hostVars, entryVars, timerVars,
                   req, op, ssh>>

-----------------------------------------------------------------------------
(* Requests. *)

\* secureLocalHandler: refused with daemon_draining, or passed on.
AdmitRequest(r) ==
    /\ req[r] = "none" /\ httpOpen
    /\ Touched
    /\ req' = [req EXCEPT ![r] = IF gateDraining THEN "done" ELSE "admitted"]
    /\ UNCHANGED <<gateDraining, hubDraining, work, leaseRes, hostVars, entryVars, timerVars,
                   op, ssh>>

\* reserveInventoryWork; the request is refused if a drain began meanwhile, or
\* rejected as invalid before it reserves.
ReserveRequest(r) ==
    /\ req[r] = "admitted"
    /\ \/ /\ MayReserve
          /\ work' = work \cup {r} /\ recent' = TRUE
          /\ req' = [req EXCEPT ![r] = "working"]
       \/ /\ req' = [req EXCEPT ![r] = "done"]
          /\ UNCHANGED <<work, recent>>
    /\ UNCHANGED <<gateDraining, hubDraining, leaseRes, hostVars, entryVars, timerVars, op, ssh>>

\* The handler returns and its deferred release runs.
EndRequest(r) ==
    /\ req[r] = "working"
    /\ req' = [req EXCEPT ![r] = "done"]
    /\ work' = work \ {r}
    /\ UNCHANGED <<gateDraining, hubDraining, leaseRes, recent, hostVars, entryVars, timerVars,
                   op, ssh>>

-----------------------------------------------------------------------------
(* The operation that acquires a lease (startSSHLease). *)

\* Operations.Start reserves work; the lease operation begins.
StartLease(l) ==
    /\ op[l] = "none" /\ httpOpen /\ ~hubDraining /\ MayReserve
    /\ op' = [op EXCEPT ![l] = "acquiring"]
    /\ work' = work \cup {l} /\ recent' = TRUE
    /\ UNCHANGED <<gateDraining, hubDraining, leaseRes, hostVars, entryVars, timerVars, req, ssh>>

\* SSHLifecycle.Acquire; it fails once its owner is closed.
AcquireLease(l) ==
    /\ op[l] = "acquiring"
    /\ \/ /\ ~ownersClosed
          /\ op' = [op EXCEPT ![l] = "acquired"]
          /\ ssh' = [ssh EXCEPT ![l] = "live"]
       \/ /\ op' = [op EXCEPT ![l] = "finishing"]
          /\ UNCHANGED ssh
    /\ UNCHANGED <<gateVars, hostVars, entryVars, timerVars, req>>

\* The operation fails after the connection was acquired: lease.Release(ctx)
\* is tried once, and its failure is only reported.
GiveUpLease(l) ==
    /\ op' = [op EXCEPT ![l] = "finishing"]
    /\ \E outcome \in {"gone", "abandoned"} :
          ssh' = [ssh EXCEPT ![l] = IF @ = "live" THEN outcome ELSE @]

\* registry.add refuses a closed registry and a draining gate; a lease without
\* a master or without arguments is not added at all.
RejectLease(l) ==
    /\ op[l] = "acquired"
    /\ GiveUpLease(l)
    /\ UNCHANGED <<gateVars, hostVars, entryVars, timerVars, req>>

AddReserves(l) ==
    /\ op[l] = "acquired" /\ ~closed /\ MayReserve
    /\ op' = [op EXCEPT ![l] = "adding"]
    /\ leaseRes' = leaseRes \cup {l} /\ recent' = TRUE
    /\ UNCHANGED <<gateDraining, hubDraining, work, hostVars, entryVars, timerVars, req, ssh>>

CurrentTimer(l) == {<<l, expires[l]>>}   \* entry.timer

\* The callbacks of l that may still run.
Pending(l) == {t \in Instants : <<l, t>> \in timers \cup fired}

\* scheduleExpiry, with the armed timers it leaves: a fresh expiry time and a
\* timer for it.  Only while MaxPending callbacks wait does it have to wait.
Schedule(l, armed) ==
    \E t \in Instants \ Pending(l) :
       /\ expires' = [expires EXCEPT ![l] = t]
       /\ timers' = armed \cup {<<l, t>>}
       /\ usedSince' = [usedSince EXCEPT ![l] = @ \ {t}]

\* Every callback that is pending now was armed before this use of the lease.
Uses(l) == usedSince' = [usedSince EXCEPT ![l] = Pending(l)]

\* A use that also reschedules.
UsesAndSchedules(l, armed) ==
    \E t \in Instants \ Pending(l) :
       /\ expires' = [expires EXCEPT ![l] = t]
       /\ timers' = armed \cup {<<l, t>>}
       /\ Uses(l)

ClosedMeanwhile == closed

\* add inserts the entry, unless close ran since the first check.
AddInserts(l) ==
    /\ op[l] = "adding"
    /\ \/ /\ ClosedMeanwhile
          /\ leaseRes' = leaseRes \ {l}
          /\ GiveUpLease(l)
          /\ UNCHANGED <<entryVars, timerVars>>
       \/ /\ ~ClosedMeanwhile
          /\ listed' = listed \cup {l}
          /\ Schedule(l, timers)
          /\ op' = [op EXCEPT ![l] = "finishing"]
          /\ UNCHANGED <<leaseRes, ssh, closed, closing, released, cleaning, returning, fired,
                         holds>>
    /\ UNCHANGED <<gateDraining, hubDraining, work, recent, hostVars, req>>

\* The hub publishes the completion and gives back the work reservation.
FinishOperation(l) ==
    /\ op[l] = "finishing"
    /\ op' = [op EXCEPT ![l] = "ended"]
    /\ work' = work \ {l}
    /\ UNCHANGED <<gateDraining, hubDraining, leaseRes, recent, hostVars, entryVars, timerVars,
                   req, ssh>>

-----------------------------------------------------------------------------
(* Lease calls and timers.  A call may have looked its entry up before     *)
(* another one delisted it, so an entry is usable while it is neither      *)
(* released nor being cleaned up.                                          *)

Usable(l) == expires[l] > 0 /\ l \notin released /\ l \notin cleaning

\* touch: an entry nobody holds gets a new expiry.
Touch(l) ==
    /\ Usable(l)
    /\ IF holds[l] = 0
       THEN UsesAndSchedules(l, timers \ CurrentTimer(l))
       ELSE Uses(l) /\ UNCHANGED <<expires, timers>>
    /\ Touched
    /\ UNCHANGED <<gateDraining, hubDraining, work, leaseRes, hostVars, entryVars, fired, holds,
                   req, op, ssh>>

\* hold: the timer is stopped while the client's connection lasts.
Hold(l) ==
    /\ Usable(l) /\ holds[l] < MaxHolds
    /\ holds' = [holds EXCEPT ![l] = @ + 1]
    /\ timers' = timers \ CurrentTimer(l)
    /\ Uses(l)
    /\ Touched
    /\ UNCHANGED <<gateDraining, hubDraining, work, leaseRes, hostVars, entryVars, expires,
                   fired, req, op, ssh>>

RescheduleAfterHold(l) == holds[l] = 1 /\ l \notin released /\ l \notin cleaning

\* The client of a hold goes away, or the HTTP server closes its connection.
Unhold(l) ==
    /\ holds[l] > 0
    /\ holds' = [holds EXCEPT ![l] = @ - 1]
    /\ IF RescheduleAfterHold(l)
       THEN UsesAndSchedules(l, timers)
       ELSE Uses(l) /\ UNCHANGED <<expires, timers>>
    /\ UNCHANGED <<gateVars, hostVars, entryVars, fired, req, op, ssh>>

\* beginCleanupLocked.
BeginCleanup(l) ==
    /\ cleaning' = cleaning \cup {l}
    /\ timers' = timers \ CurrentTimer(l)

\* release; one that finds a cleanup running waits for it and looks again.
ReleaseLease(l) ==
    /\ Usable(l)
    /\ BeginCleanup(l)
    /\ UNCHANGED <<gateVars, hostVars, closed, listed, closing, released, returning, expires,
                   fired, holds, usedSince, req, op, ssh>>

TimerFires(l, t) ==
    /\ <<l, t>> \in timers
    /\ timers' = timers \ {<<l, t>>}
    /\ fired' = fired \cup {<<l, t>>}
    /\ UNCHANGED <<gateVars, hostVars, entryVars, expires, holds, usedSince, req, op, ssh>>

ExpiresUnlessBusy(l, t) == Usable(l) /\ holds[l] = 0                 \* mutant
Expires(l, t) == Usable(l) /\ holds[l] = 0 /\ expires[l] = t

\* expire gets entry.mu.
Expire(l, t) ==
    /\ <<l, t>> \in fired
    /\ fired' = fired \ {<<l, t>>}
    /\ IF Expires(l, t) THEN BeginCleanup(l) ELSE UNCHANGED <<cleaning, timers>>
    /\ UNCHANGED <<gateVars, hostVars, closed, listed, closing, released, returning, expires,
                   holds, usedSince, req, op, ssh>>

\* cleanup: lease.Release succeeds or fails, then the entry is marked released
\* or, if it failed and nobody released it meanwhile, rescheduled.
CleanupSucceeds(l) ==
    /\ l \in cleaning
    /\ ssh' = [ssh EXCEPT ![l] = "gone"]
    /\ cleaning' = cleaning \ {l}
    /\ returning' = IF l \in released THEN returning ELSE returning \cup {l}
    /\ released' = released \cup {l}
    /\ UNCHANGED <<gateVars, hostVars, closed, listed, closing, timerVars, req, op>>

ErrorIgnored(l) ==                       \* mutant: cleanup forgets Release's error
    /\ l \in cleaning
    /\ cleaning' = cleaning \ {l}
    /\ returning' = returning \cup {l} /\ released' = released \cup {l}
    /\ UNCHANGED <<gateVars, hostVars, closed, listed, closing, timerVars, req, op, ssh>>

FailedForGood(l) ==                      \* mutant: a failed clean-up is not retried
    /\ l \in cleaning
    /\ cleaning' = cleaning \ {l}
    /\ UNCHANGED <<gateVars, hostVars, closed, listed, closing, released, returning, timerVars,
                   req, op, ssh>>

CleanupFails(l) ==
    /\ l \in cleaning
    /\ cleaning' = cleaning \ {l}
    /\ IF l \in released
       THEN UNCHANGED <<expires, timers, usedSince>>
       ELSE Schedule(l, timers)
    /\ UNCHANGED <<gateVars, hostVars, closed, listed, closing, released, returning, fired,
                   holds, req, op, ssh>>

\* The end of cleanup: the entry is delisted, its reservation given back.
ReturnReservation(l) ==
    /\ l \in returning
    /\ returning' = returning \ {l}
    /\ listed' = listed \ {l}
    /\ leaseRes' = leaseRes \ {l}
    /\ UNCHANGED <<gateDraining, hubDraining, work, recent, hostVars, closed, closing, released,
                   cleaning, timerVars, req, op, ssh>>

-----------------------------------------------------------------------------
(* The host. *)

\* The shutdown handler begins both drains, then wakes the host.
ShutdownGate ==
    /\ shutdown = "none" /\ httpOpen
    /\ shutdown' = "gate" /\ gateDraining' = TRUE
    /\ UNCHANGED <<hubDraining, work, leaseRes, recent, host, result, httpOpen, ownersClosed,
                   record, entryVars, timerVars, req, op, ssh>>

ShutdownHub ==
    /\ shutdown = "gate"
    /\ shutdown' = "requested" /\ hubDraining' = TRUE
    /\ UNCHANGED <<gateDraining, work, leaseRes, recent, host, result, httpOpen, ownersClosed,
                   record, entryVars, timerVars, req, op, ssh>>

HostGoes(from, to) == host = from /\ host' = to

\* The select loop of runHost: a shutdown request, the end of the context or
\* of the HTTP server, or an idle tick.
HostSignalled ==
    /\ HostGoes("serving", "stopping")
    /\ UNCHANGED <<gateVars, result, shutdown, httpOpen, ownersClosed, record, entryVars,
                   timerVars, req, op, ssh>>
HostRequested == shutdown = "requested" /\ HostSignalled
HostIdle == IdleNow /\ HostSignalled

HostDrainsGate ==
    /\ HostGoes("stopping", "gateDrained")
    /\ gateDraining' = TRUE
    /\ UNCHANGED <<hubDraining, work, leaseRes, recent, result, shutdown, httpOpen,
                   ownersClosed, record, entryVars, timerVars, req, op, ssh>>

HostDrainsHub ==
    /\ HostGoes("gateDrained", "waiting")
    /\ hubDraining' = TRUE
    /\ UNCHANGED <<gateDraining, work, leaseRes, recent, result, shutdown, httpOpen,
                   ownersClosed, record, entryVars, timerVars, req, op, ssh>>

DrainReleased ==
    /\ HostGoes("waiting", "closingHTTP")
    /\ Drained
    /\ result' = "released"
    /\ UNCHANGED <<gateVars, shutdown, httpOpen, ownersClosed, record, entryVars, timerVars,
                   req, op, ssh>>

\* The drain deadline: CancelActiveForDrain and cancelOperations only publish
\* outcomes and cancel contexts, so the workers end when they notice.
DrainDeadline ==
    /\ HostGoes("waiting", "closingHTTP")
    /\ result' = "deadline"
    /\ UNCHANGED <<gateVars, shutdown, httpOpen, ownersClosed, record, entryVars, timerVars,
                   req, op, ssh>>

\* shutdownHTTPServer.
CloseHTTP ==
    /\ HostGoes("closingHTTP", "closingLeases")
    /\ httpOpen' = FALSE
    /\ UNCHANGED <<gateVars, result, shutdown, ownersClosed, record, entryVars, timerVars,
                   req, op, ssh>>

\* sshLeases.close takes the entries out of the map, ...
CloseRegistry ==
    /\ HostGoes("closingLeases", "closingEntries")
    /\ closed' = TRUE /\ closing' = listed /\ listed' = {}
    /\ UNCHANGED <<gateVars, result, shutdown, httpOpen, ownersClosed, record, released,
                   cleaning, returning, timerVars, req, op, ssh>>

KeptReservation(l) ==                    \* mutant: close does not release the reservation
    /\ host = "closingEntries" /\ l \in closing
    /\ closing' = closing \ {l}
    /\ released' = released \cup {l}
    /\ timers' = timers \ CurrentTimer(l)
    /\ UNCHANGED <<gateVars, hostVars, closed, listed, cleaning, returning, expires, fired,
                   holds, usedSince, req, op, ssh>>

\* ... then marks each released and gives back its reservation.
CloseEntry(l) ==
    /\ host = "closingEntries" /\ l \in closing
    /\ closing' = closing \ {l}
    /\ released' = released \cup {l}
    /\ timers' = IF l \in released THEN timers ELSE timers \ CurrentTimer(l)
    /\ leaseRes' = leaseRes \ {l}
    /\ UNCHANGED <<gateDraining, hubDraining, work, recent, hostVars, closed, listed, cleaning,
                   returning, expires, fired, holds, usedSince, req, op, ssh>>

\* closeSSHOwners ends the connections that are still up, or fails to.
CloseOwners ==
    /\ HostGoes("closingEntries", "releasing")
    /\ closing = {}
    /\ ownersClosed' = TRUE
    /\ \/ ssh' = [l \in Leases |-> IF ssh[l] = "none" THEN "none" ELSE "gone"]
       \/ UNCHANGED ssh
    /\ UNCHANGED <<gateVars, result, shutdown, httpOpen, record, entryVars, timerVars, req, op>>

\* After a forced drain, WaitForRelease or its deadline.
CleanupAwaited ==
    /\ HostGoes("releasing", "removing")
    /\ result = "released" \/ Quiet
    /\ UNCHANGED <<gateVars, result, shutdown, httpOpen, ownersClosed, record, entryVars,
                   timerVars, req, op, ssh>>

CleanupDeadline ==
    /\ HostGoes("releasing", "removing")
    /\ result # "released"
    /\ UNCHANGED <<gateVars, result, shutdown, httpOpen, ownersClosed, record, entryVars,
                   timerVars, req, op, ssh>>

RemoveRecord ==
    /\ HostGoes("removing", "stopped")
    /\ record' = FALSE
    /\ UNCHANGED <<gateVars, result, shutdown, httpOpen, ownersClosed, entryVars, timerVars,
                   req, op, ssh>>

-----------------------------------------------------------------------------
RequestStep == \E r \in Requests : AdmitRequest(r) \/ ReserveRequest(r) \/ EndRequest(r)

OperationStep(l) ==
    \/ StartLease(l) \/ AcquireLease(l) \/ RejectLease(l) \/ AddReserves(l) \/ AddInserts(l)
    \/ FinishOperation(l)

LeaseStep(l) ==
    \/ Touch(l) \/ Hold(l) \/ Unhold(l) \/ ReleaseLease(l)
    \/ CleanupSucceeds(l) \/ CleanupFails(l) \/ ReturnReservation(l)
    \/ \E t \in Instants : TimerFires(l, t) \/ Expire(l, t)

HostStep ==
    \/ HostSignalled \/ HostRequested \/ HostIdle \/ HostDrainsGate \/ HostDrainsHub
    \/ DrainReleased \/ DrainDeadline \/ CloseHTTP \/ CloseRegistry
    \/ \E l \in Leases : CloseEntry(l)
    \/ CloseOwners \/ CleanupAwaited \/ CleanupDeadline \/ RemoveRecord

Next ==
    \/ RequestStep \/ IdleTimeout \/ ShutdownGate \/ ShutdownHub
    \/ \E l \in Leases : OperationStep(l) \/ LeaseStep(l)
    \/ HostStep

Spec == Init /\ [][Next]_vars

-----------------------------------------------------------------------------
(* Safety. *)

\* A drain that reports DrainReleased stays quiet: no request that was admitted
\* before the drain, no operation and no lease can still obtain a reservation
\* while the host tears the server down.
QuietShutdown == result = "released" => Quiet

\* Every SSH connection the daemon has acquired is counted by the gate, as its
\* operation's work or as a lease, across the hand-over in startSSHLease and
\* across failed clean-ups; the exceptions are connections whose failed
\* operation could not release them either, and the final close.
LiveConnectionsAreCounted ==
    \A l \in Leases : ssh[l] = "live" /\ ~closed => l \in work \cup leaseRes

\* A usable lease that nobody holds always has a timer or a pending callback
\* for its current expiry: no order of touch, hold, failed clean-up and stale
\* callbacks leaves a lease that no client owns and nothing releases.
UnheldLeaseHasATimer ==
    \A l \in listed : Usable(l) /\ holds[l] = 0 => <<l, expires[l]>> \in timers \cup fired

\* A timer releases a lease only if nobody used it since the timer was armed.
TimerSparesUsedLease ==
    [][\A l \in Leases, t \in Instants :
          Expire(l, t) /\ l \in cleaning' \ cleaning =>
             holds[l] = 0 /\ t \notin usedSince[l]]_vars

\* Once close has gone through the registry no lease reservation survives but
\* those that an add or a finished clean-up is about to give back.
CloseReturnsReservations ==
    closed /\ closing = {} =>
        /\ listed = {}
        /\ \A l \in leaseRes : op[l] = "adding" \/ l \in returning

\* The gate's count and the connections agree from the first acquisition to the
\* end of the close, in both directions.
ConnectionsAndReservationsAgree == LiveConnectionsAreCounted /\ CloseReturnsReservations

-----------------------------------------------------------------------------
(* Liveness: goroutines run, deadlines pass and timers go off; handlers and *)
(* lease.Release, which has a timeout of its own, return.  Clients owe      *)
(* nothing: a hold may last for ever.                                       *)

Fairness ==
    /\ WF_vars(ShutdownHub) /\ WF_vars(HostRequested)
    /\ WF_vars(HostDrainsGate) /\ WF_vars(HostDrainsHub)
    /\ WF_vars(DrainReleased) /\ WF_vars(DrainDeadline) /\ WF_vars(CloseHTTP)
    /\ WF_vars(CloseRegistry) /\ WF_vars(\E l \in Leases : CloseEntry(l))
    /\ WF_vars(CloseOwners) /\ WF_vars(CleanupAwaited) /\ WF_vars(CleanupDeadline)
    /\ WF_vars(RemoveRecord)
    /\ \A r \in Requests : WF_vars(ReserveRequest(r)) /\ WF_vars(EndRequest(r))
    /\ \A l \in Leases :
          /\ WF_vars(AcquireLease(l)) /\ WF_vars(RejectLease(l) \/ AddReserves(l))
          /\ WF_vars(AddInserts(l)) /\ WF_vars(FinishOperation(l))
          /\ WF_vars(\E t \in Instants : TimerFires(l, t))
          /\ WF_vars(\E t \in Instants : Expire(l, t))
          /\ WF_vars(CleanupSucceeds(l) \/ CleanupFails(l))
          /\ WF_vars(ReturnReservation(l))

FairSpec == Spec /\ Fairness

\* A drain always completes: the host stops and every reservation comes back,
\* whatever clients hold and however clean-ups fail.
DrainCompletes == gateDraining ~> (host = "stopped" /\ Quiet)

\* A lease that no client holds and, from some moment on, no client touches is
\* eventually released or held again, if a clean-up that is tried again and
\* again succeeds in the end.  Both premises are needed: clean-ups may fail,
\* and clients may touch a lease, for ever.
UnheldLeasesAreReleased ==
    \A l \in Leases :
       SF_vars(CleanupSucceeds(l)) /\ <>[][~Touch(l)]_vars =>
          ((l \in listed /\ holds[l] = 0) ~> (l \notin listed \/ holds[l] > 0))

\* Neither a drain nor a lease that nobody uses any more is left hanging.
HostSettles == DrainCompletes /\ UnheldLeasesAreReleased
=============================================================================
