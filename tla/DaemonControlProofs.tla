------------------------ MODULE DaemonControlProofs ------------------------
(* Theorems about DaemonControl, for any number of processes, commands and *)
(* builds.                                                                 *)
EXTENDS DaemonControl, FiniteSetTheorems, TLAPS

-----------------------------------------------------------------------------
(* Type correctness. *)

\* Every step of the processes and the commands keeps the types.
LEMMA TypeStep == TypeOK /\ [Next]_vars => TypeOK'
<1> SUFFICES ASSUME TypeOK, [Next]_vars PROVE TypeOK'
  OBVIOUS
<1> USE DEF procVars, cmdVars, TypeOK, ProcStates, Running, Stages
<1>1. ASSUME NEW p \in Procs, ServeForeground(p) PROVE TypeOK'
  BY <1>1, ControlAssumption DEF ServeForeground, ProcGoes, CommandsUnchanged
<1>2. ASSUME NEW p \in Procs, AcquireOwner(p) PROVE TypeOK'
  BY <1>2, ControlAssumption DEF AcquireOwner, ProcGoes, CommandsUnchanged
<1>3. ASSUME NEW p \in Procs, OwnerConflict(p) PROVE TypeOK'
  BY <1>3, ControlAssumption DEF OwnerConflict, ProcGoes, CommandsUnchanged
<1>4. ASSUME NEW p \in Procs, WriteRecord(p) PROVE TypeOK'
  BY <1>4, ControlAssumption DEF WriteRecord, ProcGoes, CommandsUnchanged
<1>5. ASSUME NEW p \in Procs, BecomeReady(p) PROVE TypeOK'
  BY <1>5, ControlAssumption DEF BecomeReady, ProcGoes, CommandsUnchanged
<1>6. ASSUME NEW p \in Procs, BeginDrain(p) PROVE TypeOK'
  BY <1>6, ControlAssumption DEF BeginDrain, ProcGoes, CommandsUnchanged
<1>7. ASSUME NEW p \in Procs, CloseServer(p) PROVE TypeOK'
  BY <1>7, ControlAssumption DEF CloseServer, ProcGoes, CommandsUnchanged
<1>8. ASSUME NEW p \in Procs, LeaveOwner(p) PROVE TypeOK'
  BY <1>8, ControlAssumption DEF LeaveOwner, ProcGoes, CommandsUnchanged
<1>9. ASSUME NEW p \in Procs, Exit(p) PROVE TypeOK'
  BY <1>9, ControlAssumption DEF Exit, ProcGoes, CommandsUnchanged
<1>10. ASSUME NEW p \in Procs, Crash(p) PROVE TypeOK'
  BY <1>10, ControlAssumption DEF Crash, Dead, CommandsUnchanged
<1>11. ASSUME NEW c \in Commands, Issue(c) PROVE TypeOK'
  BY <1>11, ControlAssumption DEF Issue
<1>12. ASSUME NEW c \in Commands, AcquireStartLock(c) PROVE TypeOK'
  BY <1>12, ControlAssumption DEF AcquireStartLock
<1>13. ASSUME NEW c \in Commands, Fail(c) PROVE TypeOK'
  BY <1>13, ControlAssumption DEF Fail, Return
<1>14. ASSUME NEW c \in Commands, List(c) PROVE TypeOK'
  BY <1>14, ControlAssumption DEF List
<1>15. ASSUME NEW c \in Commands, DecideStart(c) PROVE TypeOK'
  BY <1>15, ControlAssumption DEF DecideStart, Inspect, Stale, Alive, Dead, GoOn
<1>16. ASSUME NEW c \in Commands, ReuseDaemon(c) PROVE TypeOK'
  BY <1>16, ControlAssumption DEF ReuseDaemon, Return, Stale, Alive, Dead
<1>17. ASSUME NEW c \in Commands, DecideStop(c) PROVE TypeOK'
  BY <1>17, ControlAssumption DEF DecideStop, Inspect, Stale, Alive, Dead, GoOn
<1>18. ASSUME NEW c \in Commands, NothingToStop(c) PROVE TypeOK'
  BY <1>18, ControlAssumption DEF NothingToStop, Return, Stale, Alive, Dead
<1>19. ASSUME NEW c \in Commands, DecideRestart(c) PROVE TypeOK'
  BY <1>19, ControlAssumption DEF DecideRestart, Inspect, Stale, Alive, Dead, GoOn
<1>20. ASSUME NEW c \in Commands, RequestShutdown(c) PROVE TypeOK'
  <2>1. target[c] \in Procs /\ <<stage[c], client[c]>> \in Stages \X Builds
    BY <1>20 DEF RequestShutdown
  <2>2. askedBy' \in [Procs -> SUBSET (Stages \X Builds)]
    BY <1>20, <2>1 DEF RequestShutdown
  <2>3. proc' \in [Procs -> ProcStates]
    BY <1>20, <2>1 DEF RequestShutdown
  <2> QED
    BY <1>20, <2>2, <2>3 DEF RequestShutdown, Return
<1>21. ASSUME NEW c \in Commands, PollAbsent(c) PROVE TypeOK'
  BY <1>21, ControlAssumption DEF PollAbsent, Inspect, Stale, Alive, Dead, GoOn
<1>22. ASSUME NEW c \in Commands, StopSucceeds(c) PROVE TypeOK'
  BY <1>22, ControlAssumption DEF StopSucceeds, Return, Stale, Alive, Dead
<1>23. ASSUME NEW c \in Commands, PollReady(c) PROVE TypeOK'
  BY <1>23, ControlAssumption DEF PollReady, Inspect, Stale, Alive, Dead
<1>24. ASSUME NEW c \in Commands, StartSucceeds(c) PROVE TypeOK'
  BY <1>24, ControlAssumption DEF StartSucceeds, Return, Stale, Alive, Dead
<1>25. ASSUME NEW c \in Commands, NEW p \in Procs, Launch(c, p) PROVE TypeOK'
  BY <1>25, ControlAssumption DEF Launch, ProcGoes
<1>26. CASE UNCHANGED vars
  BY <1>26 DEF vars
<1> QED
  BY <1>1, <1>2, <1>3, <1>4, <1>5, <1>6, <1>7, <1>8, <1>9, <1>10, <1>11, <1>12, <1>13,
     <1>14, <1>15, <1>16, <1>17, <1>18, <1>19, <1>20, <1>21, <1>22, <1>23, <1>24, <1>25,
     <1>26 DEF Next,
     ProcStep, CommandStep

\* The state of the processes, the records, the locks and the commands has its
\* types.
THEOREM ControlTypeCorrect == Spec => []TypeOK
<1>1. Init => TypeOK
  BY ControlAssumption DEF Init, TypeOK, ProcStates, Running, Stages
<1> QED
  BY <1>1, TypeStep, PTL DEF Spec

-----------------------------------------------------------------------------
(* Owners and records: a record on disk is the owner's or a crashed        *)
(* process's, because it is written after the owner lock is taken and      *)
(* removed before the lock is released.                                    *)

Holding == {"locked", "starting", "ready", "draining", "closing", "removed"}

OwnerInv ==
    /\ \A p \in Procs : proc[p] \in Holding => owner = p
    /\ \A p \in Procs : proc[p] \in Serving => p \in records
    /\ \A p \in records : proc[p] \in Serving \cup {"crashed"}

\* Every step keeps the records in line with the owner lock.
LEMMA OwnerStep == TypeOK /\ OwnerInv /\ [Next]_vars => OwnerInv'
<1> SUFFICES ASSUME TypeOK, OwnerInv, [Next]_vars PROVE OwnerInv'
  OBVIOUS
<1> USE DEF procVars, cmdVars, TypeOK, OwnerInv, Holding, Serving, Dead
<1>1. ASSUME NEW p \in Procs, ServeForeground(p) PROVE OwnerInv'
  BY <1>1, ControlAssumption DEF ServeForeground, ProcGoes, CommandsUnchanged
<1>2. ASSUME NEW p \in Procs, AcquireOwner(p) PROVE OwnerInv'
  BY <1>2, ControlAssumption DEF AcquireOwner, ProcGoes, CommandsUnchanged
<1>3. ASSUME NEW p \in Procs, OwnerConflict(p) PROVE OwnerInv'
  BY <1>3, ControlAssumption DEF OwnerConflict, ProcGoes, CommandsUnchanged
<1>4. ASSUME NEW p \in Procs, WriteRecord(p) PROVE OwnerInv'
  BY <1>4, ControlAssumption DEF WriteRecord, ProcGoes, CommandsUnchanged
<1>5. ASSUME NEW p \in Procs, BecomeReady(p) PROVE OwnerInv'
  BY <1>5, ControlAssumption DEF BecomeReady, ProcGoes, CommandsUnchanged
<1>6. ASSUME NEW p \in Procs, BeginDrain(p) PROVE OwnerInv'
  BY <1>6, ControlAssumption DEF BeginDrain, ProcGoes, CommandsUnchanged
<1>7. ASSUME NEW p \in Procs, CloseServer(p) PROVE OwnerInv'
  BY <1>7, ControlAssumption DEF CloseServer, ProcGoes, CommandsUnchanged
<1>8. ASSUME NEW p \in Procs, LeaveOwner(p) PROVE OwnerInv'
  BY <1>8, ControlAssumption DEF LeaveOwner, ProcGoes, CommandsUnchanged
<1>9. ASSUME NEW p \in Procs, Exit(p) PROVE OwnerInv'
  BY <1>9, ControlAssumption DEF Exit, ProcGoes, CommandsUnchanged
<1>10. ASSUME NEW p \in Procs, Crash(p) PROVE OwnerInv'
  BY <1>10, ControlAssumption DEF Crash, CommandsUnchanged
<1>11. ASSUME NEW c \in Commands, Issue(c) PROVE OwnerInv'
  BY <1>11, ControlAssumption DEF Issue
<1>12. ASSUME NEW c \in Commands, AcquireStartLock(c) PROVE OwnerInv'
  BY <1>12, ControlAssumption DEF AcquireStartLock
<1>13. ASSUME NEW c \in Commands, Fail(c) PROVE OwnerInv'
  BY <1>13, ControlAssumption DEF Fail, Return
<1>14. ASSUME NEW c \in Commands, List(c) PROVE OwnerInv'
  BY <1>14, ControlAssumption DEF List
<1>15. ASSUME NEW c \in Commands, DecideStart(c) PROVE OwnerInv'
  BY <1>15, ControlAssumption DEF DecideStart, Inspect, Stale, Alive, GoOn, Finds, StatusOf, Proven
<1>16. ASSUME NEW c \in Commands, ReuseDaemon(c) PROVE OwnerInv'
  BY <1>16, ControlAssumption DEF ReuseDaemon, Return, Stale, Alive
<1>17. ASSUME NEW c \in Commands, DecideStop(c) PROVE OwnerInv'
  BY <1>17, ControlAssumption DEF DecideStop, Inspect, Stale, Alive, GoOn, Finds, StatusOf, Proven
<1>18. ASSUME NEW c \in Commands, NothingToStop(c) PROVE OwnerInv'
  BY <1>18, ControlAssumption DEF NothingToStop, Return, Stale, Alive
<1>19. ASSUME NEW c \in Commands, DecideRestart(c) PROVE OwnerInv'
  BY <1>19, ControlAssumption DEF DecideRestart, Inspect, Stale, Alive, GoOn, Finds,
                                  StatusOf, Proven
<1>20. ASSUME NEW c \in Commands, RequestShutdown(c) PROVE OwnerInv'
  BY <1>20, ControlAssumption DEF RequestShutdown, Return
<1>21. ASSUME NEW c \in Commands, PollAbsent(c) PROVE OwnerInv'
  BY <1>21, ControlAssumption DEF PollAbsent, Inspect, Stale, Alive, GoOn
<1>22. ASSUME NEW c \in Commands, StopSucceeds(c) PROVE OwnerInv'
  BY <1>22, ControlAssumption DEF StopSucceeds, Return, Stale, Alive
<1>23. ASSUME NEW c \in Commands, PollReady(c) PROVE OwnerInv'
  BY <1>23, ControlAssumption DEF PollReady, Inspect, Stale, Alive
<1>24. ASSUME NEW c \in Commands, StartSucceeds(c) PROVE OwnerInv'
  BY <1>24, ControlAssumption DEF StartSucceeds, Return, Stale, Alive
<1>25. ASSUME NEW c \in Commands, NEW p \in Procs, Launch(c, p) PROVE OwnerInv'
  BY <1>25, ControlAssumption DEF Launch, ProcGoes
<1>26. CASE UNCHANGED vars
  BY <1>26 DEF vars
<1> QED
  BY <1>1, <1>2, <1>3, <1>4, <1>5, <1>6, <1>7, <1>8, <1>9, <1>10, <1>11, <1>12, <1>13,
     <1>14, <1>15, <1>16, <1>17, <1>18, <1>19, <1>20, <1>21, <1>22, <1>23, <1>24, <1>25,
     <1>26 DEF Next,
     ProcStep, CommandStep

\* However many commands remove stale records, a daemon that serves can always
\* be found through its own.
THEOREM OwnersAreDiscoverable == Spec => []OwnerStaysDiscoverable
<1>1. Init => OwnerInv
  BY DEF Init, OwnerInv, Holding, Serving
<1>2. OwnerInv => OwnerStaysDiscoverable
  BY DEF OwnerInv, OwnerStaysDiscoverable
<1> QED
  BY <1>1, <1>2, OwnerStep, ControlTypeCorrect, PTL DEF Spec

-----------------------------------------------------------------------------
(* Listings: at most one process of a listing is still alive. *)

LookInv ==
    \A c \in looking :
        /\ \A p \in listing[c] : proc[p] \notin {"none", "waiting", "locked"}
        /\ \A p, q \in listing[c] : Alive(p) /\ Alive(q) => p = q

\* Every step keeps the live processes of a listing unique.
LEMMA LookStep == TypeOK /\ OwnerInv /\ LookInv /\ [Next]_vars => LookInv'
<1> SUFFICES ASSUME TypeOK, OwnerInv, LookInv, [Next]_vars PROVE LookInv'
  OBVIOUS
<1> USE DEF procVars, cmdVars, TypeOK, LookInv, Alive, Dead
<1>1. ASSUME NEW p \in Procs, ServeForeground(p) PROVE LookInv'
  BY <1>1, ControlAssumption DEF ServeForeground, ProcGoes, CommandsUnchanged
<1>2. ASSUME NEW p \in Procs, AcquireOwner(p) PROVE LookInv'
  BY <1>2, ControlAssumption DEF AcquireOwner, ProcGoes, CommandsUnchanged
<1>3. ASSUME NEW p \in Procs, OwnerConflict(p) PROVE LookInv'
  BY <1>3, ControlAssumption DEF OwnerConflict, ProcGoes, CommandsUnchanged
<1>4. ASSUME NEW p \in Procs, WriteRecord(p) PROVE LookInv'
  BY <1>4, ControlAssumption DEF WriteRecord, ProcGoes, CommandsUnchanged
<1>5. ASSUME NEW p \in Procs, BecomeReady(p) PROVE LookInv'
  BY <1>5, ControlAssumption DEF BecomeReady, ProcGoes, CommandsUnchanged
<1>6. ASSUME NEW p \in Procs, BeginDrain(p) PROVE LookInv'
  BY <1>6, ControlAssumption DEF BeginDrain, ProcGoes, CommandsUnchanged
<1>7. ASSUME NEW p \in Procs, CloseServer(p) PROVE LookInv'
  BY <1>7, ControlAssumption DEF CloseServer, ProcGoes, CommandsUnchanged
<1>8. ASSUME NEW p \in Procs, LeaveOwner(p) PROVE LookInv'
  BY <1>8, ControlAssumption DEF LeaveOwner, ProcGoes, CommandsUnchanged
<1>9. ASSUME NEW p \in Procs, Exit(p) PROVE LookInv'
  BY <1>9, ControlAssumption DEF Exit, ProcGoes, CommandsUnchanged
<1>10. ASSUME NEW p \in Procs, Crash(p) PROVE LookInv'
  BY <1>10, ControlAssumption DEF Crash, CommandsUnchanged
<1>11. ASSUME NEW c \in Commands, Issue(c) PROVE LookInv'
  BY <1>11, ControlAssumption DEF Issue
<1>12. ASSUME NEW c \in Commands, AcquireStartLock(c) PROVE LookInv'
  BY <1>12, ControlAssumption DEF AcquireStartLock
<1>13. ASSUME NEW c \in Commands, Fail(c) PROVE LookInv'
  BY <1>13, ControlAssumption DEF Fail, Return
<1>14. ASSUME NEW c \in Commands, List(c) PROVE LookInv'
  BY <1>14, ControlAssumption DEF List, OwnerInv, Holding, Serving
<1>15. ASSUME NEW c \in Commands, DecideStart(c) PROVE LookInv'
  BY <1>15, ControlAssumption DEF DecideStart, Inspect, Stale, GoOn
<1>16. ASSUME NEW c \in Commands, ReuseDaemon(c) PROVE LookInv'
  BY <1>16, ControlAssumption DEF ReuseDaemon, Return, Stale
<1>17. ASSUME NEW c \in Commands, DecideStop(c) PROVE LookInv'
  BY <1>17, ControlAssumption DEF DecideStop, Inspect, Stale, GoOn
<1>18. ASSUME NEW c \in Commands, NothingToStop(c) PROVE LookInv'
  BY <1>18, ControlAssumption DEF NothingToStop, Return, Stale
<1>19. ASSUME NEW c \in Commands, DecideRestart(c) PROVE LookInv'
  BY <1>19, ControlAssumption DEF DecideRestart, Inspect, Stale, GoOn
<1>20. ASSUME NEW c \in Commands, RequestShutdown(c) PROVE LookInv'
  BY <1>20, ControlAssumption DEF RequestShutdown, Return
<1>21. ASSUME NEW c \in Commands, PollAbsent(c) PROVE LookInv'
  BY <1>21, ControlAssumption DEF PollAbsent, Inspect, Stale, GoOn
<1>22. ASSUME NEW c \in Commands, StopSucceeds(c) PROVE LookInv'
  BY <1>22, ControlAssumption DEF StopSucceeds, Return, Stale
<1>23. ASSUME NEW c \in Commands, PollReady(c) PROVE LookInv'
  BY <1>23, ControlAssumption DEF PollReady, Inspect, Stale
<1>24. ASSUME NEW c \in Commands, StartSucceeds(c) PROVE LookInv'
  BY <1>24, ControlAssumption DEF StartSucceeds, Return, Stale
<1>25. ASSUME NEW c \in Commands, NEW p \in Procs, Launch(c, p) PROVE LookInv'
  BY <1>25, ControlAssumption DEF Launch, ProcGoes
<1>26. CASE UNCHANGED vars
  BY <1>26 DEF vars, Found
<1> QED
  BY <1>1, <1>2, <1>3, <1>4, <1>5, <1>6, <1>7, <1>8, <1>9, <1>10, <1>11, <1>12, <1>13,
     <1>14, <1>15, <1>16, <1>17, <1>18, <1>19, <1>20, <1>21, <1>22, <1>23, <1>24, <1>25,
     <1>26 DEF Next,
     ProcStep, CommandStep

\* Whatever crashes, exits and takes over between the two steps of an Inspect,
\* it never takes two processes for owners.
THEOREM NoConflictIsReported == Spec => []NoPhantomOwners
<1>1. Init => OwnerInv /\ LookInv
  BY DEF Init, OwnerInv, Holding, Serving, LookInv
<1>2. TypeOK /\ LookInv => NoPhantomOwners
  <2> SUFFICES ASSUME TypeOK, LookInv, NEW c \in looking PROVE Cardinality(Found(c)) <= 1
    BY DEF NoPhantomOwners
  <2>1. CASE Found(c) = {}
    BY <2>1, FS_EmptySet
  <2>2. CASE Found(c) # {}
    <3>1. PICK p \in Found(c) : TRUE
      BY <2>2
    <3>2. Found(c) = {p}
      BY <3>1 DEF Found, LookInv
    <3>3. Cardinality({p}) = 1
      BY FS_Singleton
    <3> QED
      BY <3>2, <3>3
  <2> QED
    BY <2>1, <2>2
<1> QED
  BY <1>1, <1>2, OwnerStep, LookStep, ControlTypeCorrect, PTL DEF Spec

-----------------------------------------------------------------------------
(* Targets: while a command waits, a target that still serves is in every  *)
(* listing it makes, so that an empty one shows the target gone.           *)

TargetInv ==
    /\ \A c \in looking : pc[c] \in {"decide", "absent", "ready"}
    /\ \A c \in Commands : target[c] # Nobody =>
        /\ proc[target[c]] \notin {"none", "waiting", "locked"}
        /\ pc[c] \in {"none", "locking", "decide", "launch", "ready", "ok"} =>
              proc[target[c]] \notin Serving
        /\ pc[c] = "absent" /\ c \in looking /\ proc[target[c]] \in Serving =>
              target[c] \in listing[c]

\* Every step keeps a command's target in sight or gone.
LEMMA TargetStep == TypeOK /\ OwnerInv /\ TargetInv /\ [Next]_vars => TargetInv'
<1> SUFFICES ASSUME TypeOK, OwnerInv, TargetInv, [Next]_vars PROVE TargetInv'
  OBVIOUS
<1> USE DEF procVars, cmdVars, TypeOK, TargetInv, Serving
<1>1. ASSUME NEW p \in Procs, ServeForeground(p) PROVE TargetInv'
  BY <1>1, ControlAssumption DEF ServeForeground, ProcGoes, CommandsUnchanged
<1>2. ASSUME NEW p \in Procs, AcquireOwner(p) PROVE TargetInv'
  BY <1>2, ControlAssumption DEF AcquireOwner, ProcGoes, CommandsUnchanged
<1>3. ASSUME NEW p \in Procs, OwnerConflict(p) PROVE TargetInv'
  BY <1>3, ControlAssumption DEF OwnerConflict, ProcGoes, CommandsUnchanged
<1>4. ASSUME NEW p \in Procs, WriteRecord(p) PROVE TargetInv'
  BY <1>4, ControlAssumption DEF WriteRecord, ProcGoes, CommandsUnchanged
<1>5. ASSUME NEW p \in Procs, BecomeReady(p) PROVE TargetInv'
  BY <1>5, ControlAssumption DEF BecomeReady, ProcGoes, CommandsUnchanged
<1>6. ASSUME NEW p \in Procs, BeginDrain(p) PROVE TargetInv'
  BY <1>6, ControlAssumption DEF BeginDrain, ProcGoes, CommandsUnchanged
<1>7. ASSUME NEW p \in Procs, CloseServer(p) PROVE TargetInv'
  BY <1>7, ControlAssumption DEF CloseServer, ProcGoes, CommandsUnchanged
<1>8. ASSUME NEW p \in Procs, LeaveOwner(p) PROVE TargetInv'
  BY <1>8, ControlAssumption DEF LeaveOwner, ProcGoes, CommandsUnchanged
<1>9. ASSUME NEW p \in Procs, Exit(p) PROVE TargetInv'
  BY <1>9, ControlAssumption DEF Exit, ProcGoes, CommandsUnchanged
<1>10. ASSUME NEW p \in Procs, Crash(p) PROVE TargetInv'
  BY <1>10, ControlAssumption DEF Crash, Dead, CommandsUnchanged
<1>11. ASSUME NEW c \in Commands, Issue(c) PROVE TargetInv'
  BY <1>11, ControlAssumption DEF Issue
<1>12. ASSUME NEW c \in Commands, AcquireStartLock(c) PROVE TargetInv'
  BY <1>12, ControlAssumption DEF AcquireStartLock
<1>13. ASSUME NEW c \in Commands, Fail(c) PROVE TargetInv'
  BY <1>13, ControlAssumption DEF Fail, Return
<1>14. ASSUME NEW c \in Commands, List(c) PROVE TargetInv'
  BY <1>14, ControlAssumption DEF List, OwnerInv
<1>15. ASSUME NEW c \in Commands, DecideStart(c) PROVE TargetInv'
  BY <1>15, ControlAssumption DEF DecideStart, Inspect, Stale, Alive, Dead, GoOn, Finds,
                                  StatusOf, Proven, Found, FindsNone, SeemsGone
<1>16. ASSUME NEW c \in Commands, ReuseDaemon(c) PROVE TargetInv'
  BY <1>16, ControlAssumption DEF ReuseDaemon, Return, Stale, Alive, Dead
<1>17. ASSUME NEW c \in Commands, DecideStop(c) PROVE TargetInv'
  BY <1>17, ControlAssumption DEF DecideStop, Inspect, Stale, Alive, Dead, GoOn, Finds,
                                  StatusOf, Proven, Found, FindsNone, SeemsGone
<1>18. ASSUME NEW c \in Commands, NothingToStop(c) PROVE TargetInv'
  BY <1>18, ControlAssumption DEF NothingToStop, Return, Stale, Alive, Dead
<1>19. ASSUME NEW c \in Commands, DecideRestart(c) PROVE TargetInv'
  BY <1>19, ControlAssumption DEF DecideRestart, Inspect, Stale, Alive, Dead, GoOn, Finds,
                                  StatusOf, Proven, Found, FindsNone, SeemsGone
<1>20. ASSUME NEW c \in Commands, RequestShutdown(c) PROVE TargetInv'
  <2>1. target[c] \in Procs /\ proc' = [proc EXCEPT ![target[c]] = "draining"]
    BY <1>20 DEF RequestShutdown
  <2>2. proc[target[c]] \in Serving /\ c \notin looking'
    BY <1>20 DEF RequestShutdown, Return
  <2> QED
    BY <1>20, <2>1, <2>2, ControlAssumption DEF RequestShutdown, Return
<1>21. ASSUME NEW c \in Commands, PollAbsent(c) PROVE TargetInv'
  BY <1>21, ControlAssumption DEF PollAbsent, Inspect, Stale, Alive, Dead, GoOn, SeemsGone,
                                  FindsNone, Found
<1>22. ASSUME NEW c \in Commands, StopSucceeds(c) PROVE TargetInv'
  BY <1>22, ControlAssumption DEF StopSucceeds, Return, Stale, Alive, Dead, SeemsGone,
                                  FindsNone, Found
<1>23. ASSUME NEW c \in Commands, PollReady(c) PROVE TargetInv'
  BY <1>23, ControlAssumption DEF PollReady, Inspect, Stale, Alive, Dead
<1>24. ASSUME NEW c \in Commands, StartSucceeds(c) PROVE TargetInv'
  BY <1>24, ControlAssumption DEF StartSucceeds, Return, Stale, Alive, Dead
<1>25. ASSUME NEW c \in Commands, NEW p \in Procs, Launch(c, p) PROVE TargetInv'
  BY <1>25, ControlAssumption DEF Launch, ProcGoes
<1>26. CASE UNCHANGED vars
  BY <1>26 DEF vars
<1> QED
  BY <1>1, <1>2, <1>3, <1>4, <1>5, <1>6, <1>7, <1>8, <1>9, <1>10, <1>11, <1>12, <1>13,
     <1>14, <1>15, <1>16, <1>17, <1>18, <1>19, <1>20, <1>21, <1>22, <1>23, <1>24, <1>25,
     <1>26 DEF Next,
     ProcStep, CommandStep

\* A command that launches a replacement or reports success has seen the daemon
\* it stopped leave, in every interleaving of daemons, crashes and commands.
THEOREM ReplacementWaits == Spec => []ReplacedDaemonIsGone
<1>1. Init => OwnerInv /\ TargetInv
  BY DEF Init, OwnerInv, Holding, Serving, TargetInv
<1>2. TargetInv => ReplacedDaemonIsGone
  BY DEF TargetInv, ReplacedDaemonIsGone
<1> QED
  BY <1>1, <1>2, OwnerStep, TargetStep, ControlTypeCorrect, PTL DEF Spec

-----------------------------------------------------------------------------
(* Orders: a pending request was justified, and its target's build is      *)
(* fixed once the process exists.                                          *)

Justified(s, b, p) ==
    \/ s = "stop"
    \/ CompareBuilds(b, build[p]) = "newer"
    \/ s = "restart" /\ CompareBuilds(b, build[p]) = "same"

AskInv ==
    /\ \A c \in Commands : pc[c] = "request" =>
          target[c] # Nobody /\ proc[target[c]] # "none" /\ Justified(stage[c], client[c], target[c])
    /\ \A p \in Procs : \A ask \in askedBy[p] : proc[p] # "none" /\ Justified(ask[1], ask[2], p)

\* Every step asks only daemons that the order allows it to ask.
LEMMA AskStep == TypeOK /\ AskInv /\ [Next]_vars => AskInv'
<1> SUFFICES ASSUME TypeOK, AskInv, [Next]_vars PROVE AskInv'
  OBVIOUS
<1> USE DEF procVars, cmdVars, TypeOK, AskInv, Justified
<1>1. ASSUME NEW p \in Procs, ServeForeground(p) PROVE AskInv'
  BY <1>1, ControlAssumption DEF ServeForeground, ProcGoes, CommandsUnchanged
<1>2. ASSUME NEW p \in Procs, AcquireOwner(p) PROVE AskInv'
  BY <1>2, ControlAssumption DEF AcquireOwner, ProcGoes, CommandsUnchanged
<1>3. ASSUME NEW p \in Procs, OwnerConflict(p) PROVE AskInv'
  BY <1>3, ControlAssumption DEF OwnerConflict, ProcGoes, CommandsUnchanged
<1>4. ASSUME NEW p \in Procs, WriteRecord(p) PROVE AskInv'
  BY <1>4, ControlAssumption DEF WriteRecord, ProcGoes, CommandsUnchanged
<1>5. ASSUME NEW p \in Procs, BecomeReady(p) PROVE AskInv'
  BY <1>5, ControlAssumption DEF BecomeReady, ProcGoes, CommandsUnchanged
<1>6. ASSUME NEW p \in Procs, BeginDrain(p) PROVE AskInv'
  BY <1>6, ControlAssumption DEF BeginDrain, ProcGoes, CommandsUnchanged
<1>7. ASSUME NEW p \in Procs, CloseServer(p) PROVE AskInv'
  BY <1>7, ControlAssumption DEF CloseServer, ProcGoes, CommandsUnchanged
<1>8. ASSUME NEW p \in Procs, LeaveOwner(p) PROVE AskInv'
  BY <1>8, ControlAssumption DEF LeaveOwner, ProcGoes, CommandsUnchanged
<1>9. ASSUME NEW p \in Procs, Exit(p) PROVE AskInv'
  BY <1>9, ControlAssumption DEF Exit, ProcGoes, CommandsUnchanged
<1>10. ASSUME NEW p \in Procs, Crash(p) PROVE AskInv'
  BY <1>10, ControlAssumption DEF Crash, Dead, CommandsUnchanged
<1>11. ASSUME NEW c \in Commands, Issue(c) PROVE AskInv'
  BY <1>11, ControlAssumption DEF Issue
<1>12. ASSUME NEW c \in Commands, AcquireStartLock(c) PROVE AskInv'
  BY <1>12, ControlAssumption DEF AcquireStartLock
<1>13. ASSUME NEW c \in Commands, Fail(c) PROVE AskInv'
  BY <1>13, ControlAssumption DEF Fail, Return
<1>14. ASSUME NEW c \in Commands, List(c) PROVE AskInv'
  BY <1>14, ControlAssumption DEF List
<1>15. ASSUME NEW c \in Commands, DecideStart(c) PROVE AskInv'
  BY <1>15, ControlAssumption DEF DecideStart, Inspect, Stale, Alive, Dead, GoOn, Finds,
                                  Found, ProvenOrder, decideReplacement
<1>16. ASSUME NEW c \in Commands, ReuseDaemon(c) PROVE AskInv'
  BY <1>16, ControlAssumption DEF ReuseDaemon, Return, Stale, Alive, Dead
<1>17. ASSUME NEW c \in Commands, DecideStop(c) PROVE AskInv'
  BY <1>17, ControlAssumption DEF DecideStop, Inspect, Stale, Alive, Dead, GoOn, Finds,
                                  Found, ProvenOrder, decideReplacement
<1>18. ASSUME NEW c \in Commands, NothingToStop(c) PROVE AskInv'
  BY <1>18, ControlAssumption DEF NothingToStop, Return, Stale, Alive, Dead
<1>19. ASSUME NEW c \in Commands, DecideRestart(c) PROVE AskInv'
  BY <1>19, ControlAssumption DEF DecideRestart, Inspect, Stale, Alive, Dead, GoOn, Finds,
                                  Found, ProvenOrder, decideReplacement
<1>20. ASSUME NEW c \in Commands, RequestShutdown(c) PROVE AskInv'
  BY <1>20, ControlAssumption DEF RequestShutdown, Return
<1>21. ASSUME NEW c \in Commands, PollAbsent(c) PROVE AskInv'
  BY <1>21, ControlAssumption DEF PollAbsent, Inspect, Stale, Alive, Dead, GoOn
<1>22. ASSUME NEW c \in Commands, StopSucceeds(c) PROVE AskInv'
  BY <1>22, ControlAssumption DEF StopSucceeds, Return, Stale, Alive, Dead
<1>23. ASSUME NEW c \in Commands, PollReady(c) PROVE AskInv'
  BY <1>23, ControlAssumption DEF PollReady, Inspect, Stale, Alive, Dead
<1>24. ASSUME NEW c \in Commands, StartSucceeds(c) PROVE AskInv'
  BY <1>24, ControlAssumption DEF StartSucceeds, Return, Stale, Alive, Dead
<1>25. ASSUME NEW c \in Commands, NEW p \in Procs, Launch(c, p) PROVE AskInv'
  BY <1>25, ControlAssumption DEF Launch, ProcGoes
<1>26. CASE UNCHANGED vars
  BY <1>26 DEF vars
<1> QED
  BY <1>1, <1>2, <1>3, <1>4, <1>5, <1>6, <1>7, <1>8, <1>9, <1>10, <1>11, <1>12, <1>13,
     <1>14, <1>15, <1>16, <1>17, <1>18, <1>19, <1>20, <1>21, <1>22, <1>23, <1>24, <1>25,
     <1>26 DEF Next,
     ProcStep, CommandStep

\* No start or restart ever drains a daemon whose build it cannot prove older,
\* or at most the same for a restart.
THEOREM OnlyProvenOrderReplaces == Spec => []UnprovenOrderNeverReplaces
<1>1. Init => AskInv
  BY DEF Init, AskInv
<1>2. AskInv => UnprovenOrderNeverReplaces
  BY DEF AskInv, Justified, UnprovenOrderNeverReplaces
<1> QED
  BY <1>1, <1>2, AskStep, ControlTypeCorrect, PTL DEF Spec
=============================================================================
