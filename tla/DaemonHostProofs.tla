-------------------------- MODULE DaemonHostProofs --------------------------
(* Theorems about DaemonHost, for any number of requests and leases and    *)
(* any number of holds and pending timers.                                         *)
EXTENDS DaemonHost, TLAPS

\* A use of a lease keeps the type of the history.
LEMMA UseTypes ==
  ASSUME TypeOK, NEW l \in Leases, Uses(l)
  PROVE  usedSince' \in [Leases -> SUBSET Instants]
<1>1. Pending(l) \in SUBSET Instants
  BY DEF Pending
<1> QED
  BY <1>1 DEF TypeOK, Uses

\* Scheduling a lease's expiry gives it an instant and leaves the other leases'.
LEMMA ScheduleTypes ==
  ASSUME TypeOK, NEW l \in Leases, NEW armed \in SUBSET timers,
         Schedule(l, armed) \/ UsesAndSchedules(l, armed)
  PROVE  /\ expires' \in [Leases -> {0} \cup Instants]
         /\ timers' \subseteq Leases \X Instants
         /\ usedSince' \in [Leases -> SUBSET Instants]
         /\ expires'[l] \in Instants
         /\ \A k \in Leases : k # l => expires'[k] = expires[k]
<1>1. usedSince' \in [Leases -> SUBSET Instants]
  <2>1. CASE Schedule(l, armed)
    BY <2>1 DEF Schedule, TypeOK
  <2>2. CASE UsesAndSchedules(l, armed)
    <3>1. Uses(l)
      BY <2>2 DEF UsesAndSchedules
    <3> QED
      BY <3>1, UseTypes
  <2> QED
    BY <2>1, <2>2
<1>2. PICK t \in Instants : /\ expires' = [expires EXCEPT ![l] = t]
                           /\ timers' = armed \cup {<<l, t>>}
  BY DEF Schedule, UsesAndSchedules
<1> QED
  BY <1>1, <1>2 DEF TypeOK

\* Every step of the host, its requests, leases and timers keeps the types.
LEMMA TypeStep == TypeOK /\ [Next]_vars => TypeOK'
<1> SUFFICES ASSUME TypeOK, [Next]_vars PROVE TypeOK'
  OBVIOUS
<1> USE DEF gateVars, hostVars, entryVars, timerVars, TypeOK, HostStates, OpStates
<1>1. ASSUME NEW r \in Requests, AdmitRequest(r) PROVE TypeOK'
  <2>1. recent' \in BOOLEAN
    BY <1>1 DEF AdmitRequest, Touched
  <2> QED
    BY <1>1, <2>1 DEF AdmitRequest
<1>2. ASSUME NEW r \in Requests, ReserveRequest(r) PROVE TypeOK'
  <2>1. recent' \in BOOLEAN
    BY <1>2 DEF ReserveRequest
  <2> QED
    BY <1>2, <2>1 DEF ReserveRequest
<1>3. ASSUME NEW r \in Requests, EndRequest(r) PROVE TypeOK'
  BY <1>3, HostAssumption DEF EndRequest
<1>4. ASSUME NEW l \in Leases, StartLease(l) PROVE TypeOK'
  BY <1>4, HostAssumption DEF StartLease, MayReserve
<1>5. ASSUME NEW l \in Leases, AcquireLease(l) PROVE TypeOK'
  BY <1>5, HostAssumption DEF AcquireLease
<1>6. ASSUME NEW l \in Leases, RejectLease(l) PROVE TypeOK'
  BY <1>6, HostAssumption DEF RejectLease, GiveUpLease
<1>7. ASSUME NEW l \in Leases, AddReserves(l) PROVE TypeOK'
  BY <1>7, HostAssumption DEF AddReserves, MayReserve
<1>8. ASSUME NEW l \in Leases, AddInserts(l) PROVE TypeOK'
  BY <1>8, HostAssumption DEF AddInserts, ClosedMeanwhile, GiveUpLease, Schedule
<1>9. ASSUME NEW l \in Leases, FinishOperation(l) PROVE TypeOK'
  BY <1>9, HostAssumption DEF FinishOperation
<1>10. ASSUME NEW l \in Leases, Touch(l) PROVE TypeOK'
  <2>1. CASE holds[l] # 0
    <3>1. usedSince' \in [Leases -> SUBSET Instants]
      BY <1>10, <2>1, UseTypes DEF Touch
    <3> QED
      BY <1>10, <2>1, <3>1, HostAssumption DEF Touch, Usable, Touched
  <2>2. CASE ~(holds[l] # 0)
    <3>1. UsesAndSchedules(l, timers \ CurrentTimer(l))
      BY <1>10, <2>2 DEF Touch
    <3>2. /\ expires' \in [Leases -> {0} \cup Instants]
          /\ timers' \subseteq Leases \X Instants
          /\ usedSince' \in [Leases -> SUBSET Instants]
          /\ expires'[l] \in Instants
          /\ \A k \in Leases : k # l => expires'[k] = expires[k]
      BY <3>1, ScheduleTypes
    <3> QED
      BY <1>10, <2>2, <3>2, HostAssumption DEF Touch, Usable, Touched
  <2> QED
    BY <2>1, <2>2
<1>11. ASSUME NEW l \in Leases, Hold(l) PROVE TypeOK'
  <2>1. usedSince' \in [Leases -> SUBSET Instants]
    BY <1>11, UseTypes DEF Hold
  <2>2. holds' \in [Leases -> 0..MaxHolds]
    BY <1>11, HostAssumption DEF Hold
  <2>3. recent' \in BOOLEAN
    BY <1>11 DEF Hold, Touched
  <2>4. timers' \subseteq Leases \X Instants
    BY <1>11 DEF Hold
  <2>5. UNCHANGED <<gateDraining, hubDraining, work, leaseRes, hostVars, entryVars, expires,
                    fired, req, op, ssh>>
    BY <1>11 DEF Hold
  <2> QED
    BY <2>1, <2>2, <2>3, <2>4, <2>5
<1>12. ASSUME NEW l \in Leases, Unhold(l) PROVE TypeOK'
  <2>1. holds' \in [Leases -> 0..MaxHolds]
    BY <1>12, HostAssumption DEF Unhold
  <2>2. UNCHANGED <<gateVars, hostVars, entryVars, fired, req, op, ssh>>
    BY <1>12 DEF Unhold
  <2>3. CASE ~RescheduleAfterHold(l)
    <3>1. usedSince' \in [Leases -> SUBSET Instants]
      BY <1>12, <2>3, UseTypes DEF Unhold
    <3>2. UNCHANGED <<expires, timers>>
      BY <1>12, <2>3 DEF Unhold
    <3> QED
      BY <2>1, <2>2, <3>1, <3>2
  <2>4. CASE ~(~RescheduleAfterHold(l))
    <3>1. UsesAndSchedules(l, timers)
      BY <1>12, <2>4 DEF Unhold
    <3>2. /\ expires' \in [Leases -> {0} \cup Instants]
          /\ timers' \subseteq Leases \X Instants
          /\ usedSince' \in [Leases -> SUBSET Instants]
          /\ expires'[l] \in Instants
          /\ \A k \in Leases : k # l => expires'[k] = expires[k]
      BY <3>1, ScheduleTypes
    <3> QED
      BY <2>1, <2>2, <3>2
  <2> QED
    BY <2>3, <2>4
<1>13. ASSUME NEW l \in Leases, ReleaseLease(l) PROVE TypeOK'
  BY <1>13, HostAssumption DEF ReleaseLease, Usable, BeginCleanup, CurrentTimer
<1>14. ASSUME NEW l \in Leases, CleanupSucceeds(l) PROVE TypeOK'
  BY <1>14, HostAssumption DEF CleanupSucceeds
<1>15. ASSUME NEW l \in Leases, CleanupFails(l) PROVE TypeOK'
  BY <1>15, HostAssumption DEF CleanupFails, Schedule
<1>16. ASSUME NEW l \in Leases, ReturnReservation(l) PROVE TypeOK'
  BY <1>16, HostAssumption DEF ReturnReservation
<1>17. ASSUME NEW l \in Leases, CloseEntry(l) PROVE TypeOK'
  BY <1>17, HostAssumption DEF CloseEntry, CurrentTimer
<1>18. ASSUME NEW l \in Leases, NEW t \in Instants,
             \/ TimerFires(l, t) \/ Expire(l, t)
      PROVE  TypeOK'
  BY <1>18, HostAssumption DEF TimerFires, Expire, Expires, Usable, BeginCleanup,
                               CurrentTimer
<1>19. ASSUME IdleTimeout PROVE TypeOK'
  <2>1. recent' \in BOOLEAN
    BY <1>19 DEF IdleTimeout
  <2> QED
    BY <1>19, <2>1 DEF IdleTimeout
<1>20. ASSUME ShutdownGate PROVE TypeOK'
  BY <1>20, HostAssumption DEF ShutdownGate, HostGoes
<1>21. ASSUME ShutdownHub PROVE TypeOK'
  BY <1>21, HostAssumption DEF ShutdownHub, HostGoes
<1>22. ASSUME HostSignalled PROVE TypeOK'
  BY <1>22, HostAssumption DEF HostSignalled, HostGoes
<1>23. ASSUME HostRequested PROVE TypeOK'
  BY <1>23, HostAssumption DEF HostRequested, HostSignalled, HostGoes
<1>24. ASSUME HostIdle PROVE TypeOK'
  BY <1>24, HostAssumption DEF HostIdle, HostSignalled, IdleNow, HostGoes
<1>25. ASSUME HostDrainsGate PROVE TypeOK'
  BY <1>25, HostAssumption DEF HostDrainsGate, HostGoes
<1>26. ASSUME HostDrainsHub PROVE TypeOK'
  BY <1>26, HostAssumption DEF HostDrainsHub, HostGoes
<1>27. ASSUME DrainReleased PROVE TypeOK'
  BY <1>27, HostAssumption DEF DrainReleased, Drained, Quiet, HostGoes
<1>28. ASSUME DrainDeadline PROVE TypeOK'
  BY <1>28, HostAssumption DEF DrainDeadline, HostGoes
<1>29. ASSUME CloseHTTP PROVE TypeOK'
  BY <1>29, HostAssumption DEF CloseHTTP, HostGoes
<1>30. ASSUME CloseRegistry PROVE TypeOK'
  BY <1>30, HostAssumption DEF CloseRegistry, HostGoes
<1>31. ASSUME CloseOwners PROVE TypeOK'
  BY <1>31, HostAssumption DEF CloseOwners, HostGoes
<1>32. ASSUME CleanupAwaited PROVE TypeOK'
  BY <1>32, HostAssumption DEF CleanupAwaited, Quiet, HostGoes
<1>33. ASSUME CleanupDeadline PROVE TypeOK'
  BY <1>33, HostAssumption DEF CleanupDeadline, HostGoes
<1>34. ASSUME RemoveRecord PROVE TypeOK'
  BY <1>34, HostAssumption DEF RemoveRecord, HostGoes
<1>35. CASE UNCHANGED vars
  BY <1>35 DEF vars
<1> QED
  BY <1>1, <1>2, <1>3, <1>4, <1>5, <1>6, <1>7, <1>8, <1>9, <1>10, <1>11, <1>12, <1>13,
     <1>14, <1>15, <1>16, <1>17, <1>18, <1>19, <1>20, <1>21, <1>22, <1>23, <1>24, <1>25,
     <1>26, <1>27, <1>28, <1>29, <1>30, <1>31, <1>32, <1>33, <1>34, <1>35
     DEF Next, RequestStep, OperationStep, LeaseStep, HostStep

\* The state of the gate, the host and the registry has its types.
THEOREM HostTypeCorrect == Spec => []TypeOK
<1>1. Init => TypeOK
  <2>1. Init => /\ gateDraining \in BOOLEAN /\ hubDraining \in BOOLEAN /\ recent \in BOOLEAN
                /\ httpOpen \in BOOLEAN /\ ownersClosed \in BOOLEAN /\ record \in BOOLEAN
                /\ closed \in BOOLEAN
    BY DEF Init
  <2> QED
    BY <2>1, HostAssumption DEF Init, TypeOK, HostStates, OpStates
<1> QED
  BY <1>1, TypeStep, PTL DEF Spec

-----------------------------------------------------------------------------
(* A released drain stays quiet, because the gate refuses everybody. *)

ReleasedInv == result = "released" => gateDraining /\ Quiet

\* No step of a request, a lease or the host reserves after a released drain.
LEMMA ReleasedStep == ReleasedInv /\ [Next]_vars => ReleasedInv'
<1> SUFFICES ASSUME ReleasedInv, [Next]_vars PROVE ReleasedInv'
  OBVIOUS
<1> USE DEF gateVars, hostVars, entryVars, timerVars, ReleasedInv, Quiet
<1>1. ASSUME NEW r \in Requests,
             \/ AdmitRequest(r) \/ ReserveRequest(r) \/ EndRequest(r)
      PROVE  ReleasedInv'
  BY <1>1 DEF AdmitRequest, Touched, ReserveRequest, MayReserve, EndRequest
<1>2. ASSUME NEW l \in Leases,
             \/ StartLease(l) \/ AcquireLease(l) \/ RejectLease(l) \/ AddReserves(l)
             \/ AddInserts(l) \/ FinishOperation(l)
      PROVE  ReleasedInv'
  BY <1>2 DEF StartLease, MayReserve, AcquireLease, RejectLease, GiveUpLease, AddReserves,
              AddInserts, ClosedMeanwhile, Schedule, FinishOperation
<1>3. ASSUME NEW l \in Leases,
             \/ Touch(l) \/ Hold(l) \/ Unhold(l) \/ ReleaseLease(l)
      PROVE  ReleasedInv'
  BY <1>3 DEF Touch, Usable, UsesAndSchedules, Uses, CurrentTimer, Touched, Hold, Unhold,
              RescheduleAfterHold, ReleaseLease, BeginCleanup
<1>4. ASSUME NEW l \in Leases,
             \/ CleanupSucceeds(l) \/ CleanupFails(l) \/ ReturnReservation(l)
             \/ CloseEntry(l)
      PROVE  ReleasedInv'
  BY <1>4 DEF CleanupSucceeds, CleanupFails, Schedule, ReturnReservation,
              CloseEntry, CurrentTimer
<1>5. ASSUME NEW l \in Leases, NEW t \in Instants,
             \/ TimerFires(l, t) \/ Expire(l, t)
      PROVE  ReleasedInv'
  BY <1>5 DEF TimerFires, Expire, Expires, Usable, BeginCleanup, CurrentTimer
<1>6. ASSUME
             \/ IdleTimeout \/ ShutdownGate \/ ShutdownHub \/ HostSignalled
             \/ HostRequested \/ HostIdle \/ HostDrainsGate \/ HostDrainsHub
             \/ DrainReleased \/ DrainDeadline \/ CloseHTTP \/ CloseRegistry
             \/ CloseOwners \/ CleanupAwaited \/ CleanupDeadline \/ RemoveRecord
      PROVE  ReleasedInv'
  BY <1>6 DEF IdleTimeout, HostGoes, ShutdownGate, ShutdownHub, HostSignalled,
              HostRequested, HostIdle, IdleNow, HostDrainsGate, HostDrainsHub,
              DrainReleased, Drained, Quiet, DrainDeadline, CloseHTTP, CloseRegistry,
              CloseOwners, CleanupAwaited, CleanupDeadline, RemoveRecord
<1>7. CASE UNCHANGED vars
  BY <1>7 DEF vars
<1> QED
  BY <1>1, <1>2, <1>3, <1>4, <1>5, <1>6, <1>7 DEF Next, RequestStep, OperationStep,
     LeaseStep, HostStep

\* Whatever requests, operations and leases race with the drain, once it has
\* been reported as released nothing is reserved and nothing can be.
THEOREM ReleasedDrainIsQuiet == Spec => []QuietShutdown
<1>1. Init => ReleasedInv
  BY DEF Init, ReleasedInv
<1>2. ReleasedInv => QuietShutdown
  BY DEF ReleasedInv, QuietShutdown
<1> QED
  BY <1>1, <1>2, ReleasedStep, PTL DEF Spec

-----------------------------------------------------------------------------
(* Counting: the reservation passes from the operation to the lease.       *)

\* The operation holds its work reservation until it ends, the lease takes its
\* own before that and returns it only after the connection is down.
Counted(l) ==
    /\ op[l] \in {"acquiring", "acquired", "adding", "finishing"} => l \in work
    /\ op[l] \in {"none", "acquiring", "acquired", "adding"} => expires[l] = 0
    /\ op[l] \in {"none", "acquiring"} => ssh[l] = "none"
    /\ expires[l] = 0 => l \notin cleaning \cup returning /\ holds[l] = 0
    /\ l \in returning => ssh[l] # "live"
    /\ ssh[l] = "live" /\ ~closed /\ op[l] \in {"adding", "finishing", "ended"} =>
          l \in leaseRes

CountInv ==
    /\ host \in {"closingEntries", "releasing", "removing", "stopped"} => closed
    /\ \A l \in Leases : Counted(l)

\* Every step keeps the connections counted.
LEMMA CountStep == TypeOK /\ CountInv /\ [Next]_vars => CountInv'
<1> SUFFICES ASSUME TypeOK, CountInv, [Next]_vars PROVE CountInv'
  OBVIOUS
<1> USE DEF gateVars, hostVars, entryVars, timerVars, TypeOK, CountInv, Counted, OpStates
<1>1. ASSUME NEW r \in Requests,
             \/ AdmitRequest(r) \/ ReserveRequest(r) \/ EndRequest(r)
      PROVE  CountInv'
  BY <1>1, HostAssumption DEF AdmitRequest, Touched, ReserveRequest, MayReserve, EndRequest
<1>2. ASSUME NEW l \in Leases, StartLease(l) PROVE CountInv'
  BY <1>2, HostAssumption DEF StartLease, MayReserve
<1>3. ASSUME NEW l \in Leases, AcquireLease(l) PROVE CountInv'
  BY <1>3, HostAssumption DEF AcquireLease
<1>4. ASSUME NEW l \in Leases, RejectLease(l) PROVE CountInv'
  BY <1>4, HostAssumption DEF RejectLease, GiveUpLease
<1>5. ASSUME NEW l \in Leases, AddReserves(l) PROVE CountInv'
  BY <1>5, HostAssumption DEF AddReserves, MayReserve
<1>6. ASSUME NEW l \in Leases, AddInserts(l) PROVE CountInv'
  BY <1>6, HostAssumption DEF AddInserts, ClosedMeanwhile, GiveUpLease, Schedule
<1>7. ASSUME NEW l \in Leases, FinishOperation(l) PROVE CountInv'
  BY <1>7, HostAssumption DEF FinishOperation
<1>8. ASSUME NEW l \in Leases, Touch(l) PROVE CountInv'
  <2>1. CASE holds[l] # 0
    <3>1. usedSince' \in [Leases -> SUBSET Instants]
      BY <1>8, <2>1, UseTypes DEF Touch
    <3> QED
      BY <1>8, <2>1, <3>1, HostAssumption DEF Touch, Usable, Touched
  <2>2. CASE ~(holds[l] # 0)
    <3>1. UsesAndSchedules(l, timers \ CurrentTimer(l))
      BY <1>8, <2>2 DEF Touch
    <3>2. /\ expires' \in [Leases -> {0} \cup Instants]
          /\ timers' \subseteq Leases \X Instants
          /\ usedSince' \in [Leases -> SUBSET Instants]
          /\ expires'[l] \in Instants
          /\ \A k \in Leases : k # l => expires'[k] = expires[k]
      BY <3>1, ScheduleTypes
    <3>3. CountInv'
      <4>1. l \notin cleaning /\ expires[l] # 0 /\ expires'[l] # 0
        BY <1>8, <3>2, HostAssumption DEF Touch, Usable, Instants
      <4>2. UNCHANGED <<work, leaseRes, hostVars, entryVars, fired, holds, op, ssh>>
        BY <1>8 DEF Touch
      <4>3. Counted(l)'
        BY <4>1, <4>2
      <4>4. ASSUME NEW k \in Leases, k # l PROVE Counted(k)'
        BY <3>2, <4>2, <4>4
      <4> QED
        BY <4>2, <4>3, <4>4
    <3> QED
      BY <3>3
  <2> QED
    BY <2>1, <2>2
<1>9. ASSUME NEW l \in Leases, Hold(l) PROVE CountInv'
  BY <1>9, HostAssumption DEF Hold, Usable, Uses, CurrentTimer, Touched
<1>10. ASSUME NEW l \in Leases, Unhold(l) PROVE CountInv'
  <2>1. CASE ~RescheduleAfterHold(l)
    <3>1. usedSince' \in [Leases -> SUBSET Instants]
      BY <1>10, <2>1, UseTypes DEF Unhold
    <3> QED
      BY <1>10, <2>1, <3>1, HostAssumption DEF Unhold, RescheduleAfterHold
  <2>2. CASE ~(~RescheduleAfterHold(l))
    <3>1. UsesAndSchedules(l, timers)
      BY <1>10, <2>2 DEF Unhold
    <3>2. /\ expires' \in [Leases -> {0} \cup Instants]
          /\ timers' \subseteq Leases \X Instants
          /\ usedSince' \in [Leases -> SUBSET Instants]
          /\ expires'[l] \in Instants
          /\ \A k \in Leases : k # l => expires'[k] = expires[k]
      BY <3>1, ScheduleTypes
    <3>3. CountInv'
      <4>1. holds[l] > 0 /\ expires[l] # 0 /\ expires'[l] # 0
        BY <1>10, <3>2, HostAssumption DEF Unhold, Instants
      <4>2. UNCHANGED <<work, leaseRes, hostVars, entryVars, fired, op, ssh>>
        BY <1>10 DEF Unhold
      <4>3. Counted(l)'
        BY <4>1, <4>2
      <4>4. ASSUME NEW k \in Leases, k # l PROVE Counted(k)'
        <5>1. holds'[k] = holds[k]
          BY <1>10, <4>4 DEF Unhold
        <5> QED
          BY <3>2, <4>2, <4>4, <5>1
      <4> QED
        BY <4>2, <4>3, <4>4
    <3> QED
      BY <3>3
  <2> QED
    BY <2>1, <2>2
<1>11. ASSUME NEW l \in Leases, ReleaseLease(l) PROVE CountInv'
  BY <1>11, HostAssumption DEF ReleaseLease, Usable, BeginCleanup, CurrentTimer
<1>12. ASSUME NEW l \in Leases, CleanupSucceeds(l) PROVE CountInv'
  BY <1>12, HostAssumption DEF CleanupSucceeds
<1>13. ASSUME NEW l \in Leases, CleanupFails(l) PROVE CountInv'
  <2>1. CASE l \in released
    BY <1>13, <2>1 DEF CleanupFails
  <2>2. CASE l \notin released
    <3>1. Schedule(l, timers)
      BY <1>13, <2>2 DEF CleanupFails
    <3>2. expires'[l] \in Instants /\ \A k \in Leases : k # l => expires'[k] = expires[k]
      BY <3>1, ScheduleTypes
    <3>3. CountInv'
      <4>1. l \in cleaning /\ expires[l] # 0 /\ expires'[l] # 0
        BY <1>13, <3>2, HostAssumption DEF CleanupFails, Instants
      <4>2. /\ UNCHANGED <<work, leaseRes, hostVars, closed, listed, closing, released,
                           returning, fired, holds, op, ssh>>
            /\ cleaning' = cleaning \ {l}
        BY <1>13 DEF CleanupFails
      <4>3. Counted(l)'
        BY <4>1, <4>2
      <4>4. ASSUME NEW k \in Leases, k # l PROVE Counted(k)'
        BY <3>2, <4>2, <4>4
      <4> QED
        BY <4>2, <4>3, <4>4
    <3> QED
      BY <3>3
  <2> QED
    BY <2>1, <2>2
<1>14. ASSUME NEW l \in Leases, ReturnReservation(l) PROVE CountInv'
  BY <1>14, HostAssumption DEF ReturnReservation
<1>15. ASSUME NEW l \in Leases, CloseEntry(l) PROVE CountInv'
  BY <1>15, HostAssumption DEF CloseEntry, CurrentTimer
<1>16. ASSUME NEW l \in Leases, NEW t \in Instants,
             \/ TimerFires(l, t) \/ Expire(l, t)
      PROVE  CountInv'
  BY <1>16, HostAssumption DEF TimerFires, Expire, Expires, Usable, BeginCleanup,
                               CurrentTimer
<1>17. ASSUME
             \/ IdleTimeout \/ ShutdownGate \/ ShutdownHub \/ HostSignalled
             \/ HostRequested \/ HostIdle \/ HostDrainsGate \/ HostDrainsHub
             \/ DrainReleased \/ DrainDeadline \/ CloseHTTP \/ CloseRegistry
             \/ CloseOwners \/ CleanupAwaited \/ CleanupDeadline \/ RemoveRecord
      PROVE  CountInv'
  BY <1>17, HostAssumption DEF IdleTimeout, HostGoes, ShutdownGate, ShutdownHub,
                               HostSignalled, HostRequested, HostIdle, IdleNow,
                               HostDrainsGate, HostDrainsHub, DrainReleased, Drained, Quiet,
                               DrainDeadline, CloseHTTP, CloseRegistry, CloseOwners,
                               CleanupAwaited, CleanupDeadline, RemoveRecord
<1>18. CASE UNCHANGED vars
  BY <1>18 DEF vars
<1> QED
  BY <1>1, <1>2, <1>3, <1>4, <1>5, <1>6, <1>7, <1>8, <1>9, <1>10, <1>11, <1>12, <1>13,
     <1>14, <1>15, <1>16, <1>17, <1>18 DEF Next, RequestStep, OperationStep,
     LeaseStep, HostStep

\* No connection the daemon acquired escapes the gate's count before the final
\* close, whatever fails between the operation and the lease's clean-up.
THEOREM ConnectionsAreCounted == Spec => []LiveConnectionsAreCounted
<1>1. Init => CountInv
  BY DEF Init, CountInv, Counted
<1>2. TypeOK /\ CountInv => LiveConnectionsAreCounted
  BY DEF TypeOK, OpStates, CountInv, Counted, LiveConnectionsAreCounted
<1> QED
  BY <1>1, <1>2, CountStep, HostTypeCorrect, PTL DEF Spec

-----------------------------------------------------------------------------
(* Closing: every reservation has somebody who will return it. *)

CloseInv ==
    /\ closing # {} => host = "closingEntries"
    /\ closed => listed = {}
    /\ \A l \in leaseRes : op[l] = "adding" \/ l \in returning \cup listed \cup closing

\* Every step leaves each lease reservation with somebody who returns it.
LEMMA CloseStep == TypeOK /\ CloseInv /\ [Next]_vars => CloseInv'
<1> SUFFICES ASSUME TypeOK, CloseInv, [Next]_vars PROVE CloseInv'
  OBVIOUS
<1> USE DEF gateVars, hostVars, entryVars, timerVars, TypeOK, CloseInv
<1>1. ASSUME NEW r \in Requests,
             \/ AdmitRequest(r) \/ ReserveRequest(r) \/ EndRequest(r)
      PROVE  CloseInv'
  BY <1>1, HostAssumption DEF AdmitRequest, Touched, ReserveRequest, MayReserve, EndRequest
<1>2. ASSUME NEW l \in Leases, StartLease(l) PROVE CloseInv'
  BY <1>2, HostAssumption DEF StartLease, MayReserve
<1>3. ASSUME NEW l \in Leases, AcquireLease(l) PROVE CloseInv'
  BY <1>3, HostAssumption DEF AcquireLease
<1>4. ASSUME NEW l \in Leases, RejectLease(l) PROVE CloseInv'
  BY <1>4, HostAssumption DEF RejectLease, GiveUpLease
<1>5. ASSUME NEW l \in Leases, AddReserves(l) PROVE CloseInv'
  BY <1>5, HostAssumption DEF AddReserves, MayReserve
<1>6. ASSUME NEW l \in Leases, AddInserts(l) PROVE CloseInv'
  BY <1>6, HostAssumption DEF AddInserts, ClosedMeanwhile, GiveUpLease, Schedule
<1>7. ASSUME NEW l \in Leases, FinishOperation(l) PROVE CloseInv'
  BY <1>7, HostAssumption DEF FinishOperation
<1>8. ASSUME NEW l \in Leases, Touch(l) PROVE CloseInv'
  BY <1>8, HostAssumption DEF Touch, Usable, UsesAndSchedules, Uses, CurrentTimer, Touched
<1>9. ASSUME NEW l \in Leases, Hold(l) PROVE CloseInv'
  BY <1>9, HostAssumption DEF Hold, Usable, Uses, CurrentTimer, Touched
<1>10. ASSUME NEW l \in Leases, Unhold(l) PROVE CloseInv'
  BY <1>10, HostAssumption DEF Unhold, RescheduleAfterHold, Uses, UsesAndSchedules
<1>11. ASSUME NEW l \in Leases, ReleaseLease(l) PROVE CloseInv'
  BY <1>11, HostAssumption DEF ReleaseLease, Usable, BeginCleanup, CurrentTimer
<1>12. ASSUME NEW l \in Leases, CleanupSucceeds(l) PROVE CloseInv'
  BY <1>12, HostAssumption DEF CleanupSucceeds
<1>13. ASSUME NEW l \in Leases, CleanupFails(l) PROVE CloseInv'
  BY <1>13, HostAssumption DEF CleanupFails, Schedule
<1>14. ASSUME NEW l \in Leases, ReturnReservation(l) PROVE CloseInv'
  BY <1>14, HostAssumption DEF ReturnReservation
<1>15. ASSUME NEW l \in Leases, CloseEntry(l) PROVE CloseInv'
  BY <1>15, HostAssumption DEF CloseEntry, CurrentTimer
<1>16. ASSUME NEW l \in Leases, NEW t \in Instants,
             \/ TimerFires(l, t) \/ Expire(l, t)
      PROVE  CloseInv'
  BY <1>16, HostAssumption DEF TimerFires, Expire, Expires, Usable, BeginCleanup,
                               CurrentTimer
<1>17. ASSUME
             \/ IdleTimeout \/ ShutdownGate \/ ShutdownHub \/ HostSignalled
             \/ HostRequested \/ HostIdle \/ HostDrainsGate \/ HostDrainsHub
             \/ DrainReleased \/ DrainDeadline \/ CloseHTTP \/ CloseRegistry
             \/ CloseOwners \/ CleanupAwaited \/ CleanupDeadline \/ RemoveRecord
      PROVE  CloseInv'
  BY <1>17, HostAssumption DEF IdleTimeout, HostGoes, ShutdownGate, ShutdownHub,
                               HostSignalled, HostRequested, HostIdle, IdleNow,
                               HostDrainsGate, HostDrainsHub, DrainReleased, Drained, Quiet,
                               DrainDeadline, CloseHTTP, CloseRegistry, CloseOwners,
                               CleanupAwaited, CleanupDeadline, RemoveRecord
<1>18. CASE UNCHANGED vars
  BY <1>18 DEF vars
<1> QED
  BY <1>1, <1>2, <1>3, <1>4, <1>5, <1>6, <1>7, <1>8, <1>9, <1>10, <1>11, <1>12, <1>13,
     <1>14, <1>15, <1>16, <1>17, <1>18 DEF Next, RequestStep, OperationStep,
     LeaseStep, HostStep

\* The registry's close, interleaved with additions and clean-ups, leaves no
\* entry and no reservation that nobody returns.
THEOREM CloseIsComplete == Spec => []CloseReturnsReservations
<1>1. Init => CloseInv
  BY DEF Init, CloseInv
<1>2. CloseInv => CloseReturnsReservations
  BY DEF CloseInv, CloseReturnsReservations
<1> QED
  BY <1>1, <1>2, CloseStep, HostTypeCorrect, PTL DEF Spec

\* The gate's count covers every live connection and outlives none of them.
THEOREM CountAgrees == Spec => []ConnectionsAndReservationsAgree
<1>1. LiveConnectionsAreCounted /\ CloseReturnsReservations => ConnectionsAndReservationsAgree
  BY DEF ConnectionsAndReservationsAgree
<1> QED
  BY <1>1, ConnectionsAreCounted, CloseIsComplete, PTL

-----------------------------------------------------------------------------
(* Timers: the current expiry was set at or after the last use and has one. *)

Timed(l) ==
    /\ Usable(l) /\ holds[l] = 0 => expires[l] \notin usedSince[l]
    /\ l \in listed /\ Usable(l) /\ holds[l] = 0 => <<l, expires[l]>> \in timers \cup fired

TimerInv == \A l \in Leases : Timed(l)

\* Every step keeps each unheld lease's timer.
LEMMA TimerStep == TypeOK /\ TimerInv /\ [Next]_vars => TimerInv'
<1> SUFFICES ASSUME TypeOK, TimerInv, [Next]_vars PROVE TimerInv'
  OBVIOUS
<1> USE DEF gateVars, hostVars, entryVars, timerVars, TypeOK, TimerInv, Timed, Usable
<1>1. ASSUME NEW r \in Requests,
             \/ AdmitRequest(r) \/ ReserveRequest(r) \/ EndRequest(r)
      PROVE  TimerInv'
  BY <1>1, HostAssumption DEF AdmitRequest, Touched, ReserveRequest, MayReserve, EndRequest
<1>2. ASSUME NEW l \in Leases, StartLease(l) PROVE TimerInv'
  BY <1>2, HostAssumption DEF StartLease, MayReserve
<1>3. ASSUME NEW l \in Leases, AcquireLease(l) PROVE TimerInv'
  BY <1>3, HostAssumption DEF AcquireLease
<1>4. ASSUME NEW l \in Leases, RejectLease(l) PROVE TimerInv'
  BY <1>4, HostAssumption DEF RejectLease, GiveUpLease
<1>5. ASSUME NEW l \in Leases, AddReserves(l) PROVE TimerInv'
  BY <1>5, HostAssumption DEF AddReserves, MayReserve
<1>6. ASSUME NEW l \in Leases, AddInserts(l) PROVE TimerInv'
  <2>1. CASE ClosedMeanwhile
    BY <1>6, <2>1 DEF AddInserts
  <2>2. CASE ~ClosedMeanwhile
    <3>1. PICK t \in Instants \ Pending(l) :
             /\ expires' = [expires EXCEPT ![l] = t]
             /\ timers' = timers \cup {<<l, t>>}
             /\ usedSince' = [usedSince EXCEPT ![l] = @ \ {t}]
      BY <1>6, <2>2 DEF AddInserts, Schedule
    <3>2. /\ listed' = listed \cup {l}
          /\ UNCHANGED <<released, cleaning, fired, holds>>
      BY <1>6, <2>2 DEF AddInserts
    <3>3. expires'[l] = t /\ t \notin usedSince'[l] /\ <<l, t>> \in timers'
      BY <3>1 DEF Pending
    <3>4. Timed(l)'
      BY <3>3
    <3>5. ASSUME NEW k \in Leases, k # l PROVE Timed(k)'
      <4>1. expires'[k] = expires[k] /\ usedSince'[k] = usedSince[k]
        BY <3>1, <3>5
      <4>2. \A u \in Instants : <<k, u>> \in timers => <<k, u>> \in timers'
        BY <3>1, <3>5 DEF CurrentTimer
      <4>3. Timed(k)
        OBVIOUS
      <4>4. Usable(k)' => Usable(k) /\ expires[k] \in Instants
        BY <3>2, <3>5, <4>1
      <4>5. holds'[k] = holds[k] /\ (k \in listed' => k \in listed)
        BY <3>2, <3>5
      <4> QED
        BY <3>2, <4>1, <4>2, <4>3, <4>4, <4>5
    <3> QED
      BY <3>4, <3>5
  <2> QED
    BY <2>1, <2>2
<1>7. ASSUME NEW l \in Leases, FinishOperation(l) PROVE TimerInv'
  BY <1>7, HostAssumption DEF FinishOperation
<1>8. ASSUME NEW l \in Leases, Touch(l) PROVE TimerInv'
  <2>1. CASE holds[l] # 0
    BY <1>8, <2>1 DEF Touch, Uses
  <2>2. CASE holds[l] = 0
    <3>1. PICK t \in Instants \ Pending(l) :
             /\ expires' = [expires EXCEPT ![l] = t]
             /\ timers' = (timers \ CurrentTimer(l)) \cup {<<l, t>>}
             /\ usedSince' = [usedSince EXCEPT ![l] = Pending(l)]
      BY <1>8, <2>2 DEF Touch, UsesAndSchedules, Uses
    <3>2. UNCHANGED <<released, cleaning, listed, fired, holds>>
      BY <1>8, <2>2 DEF Touch
    <3>3. expires'[l] = t /\ t \notin usedSince'[l] /\ <<l, t>> \in timers'
      BY <3>1 DEF Pending
    <3>4. Timed(l)'
      BY <3>3
    <3>5. ASSUME NEW k \in Leases, k # l PROVE Timed(k)'
      <4>1. expires'[k] = expires[k] /\ usedSince'[k] = usedSince[k]
        BY <3>1, <3>5
      <4>2. \A u \in Instants : <<k, u>> \in timers => <<k, u>> \in timers'
        BY <3>1, <3>5 DEF CurrentTimer
      <4>3. Timed(k)
        OBVIOUS
      <4>4. Usable(k)' => Usable(k) /\ expires[k] \in Instants
        BY <3>2, <3>5, <4>1
      <4>5. holds'[k] = holds[k] /\ (k \in listed' => k \in listed)
        BY <3>2, <3>5
      <4> QED
        BY <3>2, <4>1, <4>2, <4>3, <4>4, <4>5
    <3> QED
      BY <3>4, <3>5
  <2> QED
    BY <2>1, <2>2
<1>9. ASSUME NEW l \in Leases, Hold(l) PROVE TimerInv'
  <2>1. holds'[l] # 0
    BY <1>9, HostAssumption DEF Hold
  <2>2. ASSUME NEW k \in Leases, k # l PROVE Timed(k)'
    BY <1>9, <2>2, HostAssumption DEF Hold, CurrentTimer, Uses
  <2> QED
    BY <2>1, <2>2
<1>10. ASSUME NEW l \in Leases, Unhold(l) PROVE TimerInv'
  <2>1. CASE ~RescheduleAfterHold(l)
    <3>1. Timed(l)'
      BY <1>10, <2>1, HostAssumption DEF Unhold, RescheduleAfterHold
    <3>2. ASSUME NEW k \in Leases, k # l PROVE Timed(k)'
      BY <1>10, <2>1, <3>2 DEF Unhold, Uses
    <3> QED
      BY <3>1, <3>2
  <2>2. CASE RescheduleAfterHold(l)
    <3>1. PICK t \in Instants \ Pending(l) :
             /\ expires' = [expires EXCEPT ![l] = t]
             /\ timers' = timers \cup {<<l, t>>}
             /\ usedSince' = [usedSince EXCEPT ![l] = Pending(l)]
      BY <1>10, <2>2 DEF Unhold, UsesAndSchedules, Uses
    <3>2. /\ holds' = [holds EXCEPT ![l] = @ - 1]
          /\ UNCHANGED <<released, cleaning, listed, fired>>
      BY <1>10, <2>2 DEF Unhold, RescheduleAfterHold
    <3>3. expires'[l] = t /\ t \notin usedSince'[l] /\ <<l, t>> \in timers'
      BY <3>1 DEF Pending
    <3>4. Timed(l)'
      BY <3>3
    <3>5. ASSUME NEW k \in Leases, k # l PROVE Timed(k)'
      <4>1. expires'[k] = expires[k] /\ usedSince'[k] = usedSince[k]
        BY <3>1, <3>5
      <4>2. \A u \in Instants : <<k, u>> \in timers => <<k, u>> \in timers'
        BY <3>1, <3>5 DEF CurrentTimer
      <4>3. Timed(k)
        OBVIOUS
      <4>4. Usable(k)' => Usable(k) /\ expires[k] \in Instants
        BY <3>2, <3>5, <4>1
      <4>5. holds'[k] = holds[k] /\ (k \in listed' => k \in listed)
        BY <3>2, <3>5
      <4> QED
        BY <3>2, <4>1, <4>2, <4>3, <4>4, <4>5
    <3> QED
      BY <3>4, <3>5
  <2> QED
    BY <2>1, <2>2
<1>11. ASSUME NEW l \in Leases, ReleaseLease(l) PROVE TimerInv'
  BY <1>11, HostAssumption DEF ReleaseLease, Usable, BeginCleanup, CurrentTimer
<1>12. ASSUME NEW l \in Leases, CleanupSucceeds(l) PROVE TimerInv'
  BY <1>12, HostAssumption DEF CleanupSucceeds
<1>13. ASSUME NEW l \in Leases, CleanupFails(l) PROVE TimerInv'
  <2>1. CASE l \in released
    BY <1>13, <2>1 DEF CleanupFails
  <2>2. CASE l \notin released
    <3>1. PICK t \in Instants \ Pending(l) :
             /\ expires' = [expires EXCEPT ![l] = t]
             /\ timers' = timers \cup {<<l, t>>}
             /\ usedSince' = [usedSince EXCEPT ![l] = @ \ {t}]
      BY <1>13, <2>2 DEF CleanupFails, Schedule
    <3>2. /\ cleaning' = cleaning \ {l}
          /\ UNCHANGED <<released, listed, fired, holds>>
      BY <1>13, <2>2 DEF CleanupFails
    <3>3. expires'[l] = t /\ t \notin usedSince'[l] /\ <<l, t>> \in timers'
      BY <3>1 DEF Pending
    <3>4. Timed(l)'
      BY <3>3
    <3>5. ASSUME NEW k \in Leases, k # l PROVE Timed(k)'
      <4>1. expires'[k] = expires[k] /\ usedSince'[k] = usedSince[k]
        BY <3>1, <3>5
      <4>2. \A u \in Instants : <<k, u>> \in timers => <<k, u>> \in timers'
        BY <3>1, <3>5 DEF CurrentTimer
      <4>3. Timed(k)
        OBVIOUS
      <4>4. Usable(k)' => Usable(k) /\ expires[k] \in Instants
        BY <3>2, <3>5, <4>1
      <4>5. holds'[k] = holds[k] /\ (k \in listed' => k \in listed)
        BY <3>2, <3>5
      <4> QED
        BY <3>2, <4>1, <4>2, <4>3, <4>4, <4>5
    <3> QED
      BY <3>4, <3>5
  <2> QED
    BY <2>1, <2>2
<1>14. ASSUME NEW l \in Leases, ReturnReservation(l) PROVE TimerInv'
  BY <1>14, HostAssumption DEF ReturnReservation
<1>15. ASSUME NEW l \in Leases, CloseEntry(l) PROVE TimerInv'
  BY <1>15, HostAssumption DEF CloseEntry, CurrentTimer
<1>16. ASSUME NEW l \in Leases, NEW t \in Instants, TimerFires(l, t) PROVE TimerInv'
  BY <1>16, HostAssumption DEF TimerFires
<1>17. ASSUME NEW l \in Leases, NEW t \in Instants, Expire(l, t) PROVE TimerInv'
  BY <1>17, HostAssumption DEF Expire, Expires, Usable, BeginCleanup, CurrentTimer
<1>18. ASSUME
             \/ IdleTimeout \/ ShutdownGate \/ ShutdownHub \/ HostSignalled
             \/ HostRequested \/ HostIdle \/ HostDrainsGate \/ HostDrainsHub
             \/ DrainReleased \/ DrainDeadline \/ CloseHTTP \/ CloseRegistry
             \/ CloseOwners \/ CleanupAwaited \/ CleanupDeadline \/ RemoveRecord
      PROVE  TimerInv'
  BY <1>18, HostAssumption DEF IdleTimeout, HostGoes, ShutdownGate, ShutdownHub,
                               HostSignalled, HostRequested, HostIdle, IdleNow,
                               HostDrainsGate, HostDrainsHub, DrainReleased, Drained, Quiet,
                               DrainDeadline, CloseHTTP, CloseRegistry, CloseOwners,
                               CleanupAwaited, CleanupDeadline, RemoveRecord
<1>19. CASE UNCHANGED vars
  BY <1>19 DEF vars
<1> QED
  BY <1>1, <1>2, <1>3, <1>4, <1>5, <1>6, <1>7, <1>8, <1>9, <1>10, <1>11, <1>12, <1>13,
     <1>14, <1>15, <1>16, <1>17, <1>18, <1>19 DEF Next, RequestStep, OperationStep,
     LeaseStep, HostStep

\* No lease is left without an owner and without a timer, and no timer releases
\* a lease that was used after the timer was armed.
THEOREM TimersAreSafe == Spec => []UnheldLeaseHasATimer /\ TimerSparesUsedLease
<1>1. Init => TimerInv
  BY HostAssumption DEF Init, TimerInv, Timed, Usable
<1>2. TypeOK /\ TimerInv => UnheldLeaseHasATimer
  BY DEF TypeOK, TimerInv, Timed, UnheldLeaseHasATimer
<1>3. TypeOK /\ TimerInv /\ [Next]_vars =>
         [\A l \in Leases, t \in Instants :
             Expire(l, t) /\ l \in cleaning' \ cleaning =>
                holds[l] = 0 /\ t \notin usedSince[l]]_vars
  <2> SUFFICES ASSUME TypeOK, TimerInv, NEW l \in Leases, NEW t \in Instants,
                      Expire(l, t), l \in cleaning' \ cleaning
               PROVE  holds[l] = 0 /\ t \notin usedSince[l]
    OBVIOUS
  <2>1. Expires(l, t)
    BY DEF Expire
  <2> QED
    BY <2>1, HostAssumption DEF Expires, TypeOK, TimerInv, Timed
<1> QED
  BY <1>1, <1>2, <1>3, TimerStep, HostTypeCorrect, PTL DEF Spec, TimerSparesUsedLease
=============================================================================
