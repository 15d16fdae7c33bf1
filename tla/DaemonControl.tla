---------------------------- MODULE DaemonControl ----------------------------
(***************************************************************************)
(* Discovery, start, stop and replacement of the daemon of one kwt home:   *)
(* daemon processes (host.go, Serve and the outline of runHost), their     *)
(* runtime records (runtime.go, Inspect) and concurrent kwt daemon         *)
(* commands (controller.go).  A command holds the home's start lock, a     *)
(* daemon its owner lock; the kernel drops a dead process's locks.         *)
(*                                                                         *)
(* Inspect is two steps, the listing of the records and the look at the    *)
(* processes they name, with the world moving in between.  An error that a *)
(* command may meet anywhere (a deadline, a lost answer, a cancelled       *)
(* context, a failed launch) is the one action Fail.  Process identities   *)
(* are not reused while an Inspect is under way.                           *)
(***************************************************************************)
EXTENDS BuildOrder, FiniteSets

CONSTANTS
    Procs,     \* daemon processes, in the background or the foreground
    Commands,  \* kwt daemon start, stop and restart commands
    Builds,    \* the installed builds
    Nobody     \* no process, no command

ASSUME ControlAssumption ==
    /\ Builds \subseteq Build
    /\ Nobody \notin Procs \cup Commands
    /\ IsFiniteSet(Procs)

VARIABLES
    proc,      \* per process, where Serve is
    build,     \* per process, its build
    owner,     \* the holder of the owner lock
    records,   \* processes with a runtime record on disk
    startLock, \* the command that holds the start lock
    pc,        \* per command, what it does
    stage,     \* per command, which of Start, Stop and Restart it is in
    client,    \* per command, its build
    listing,   \* per command, the records its Inspect listed
    looking,   \* commands between the two steps of Inspect
    target,    \* per command, the daemon it has to see gone
    askedBy    \* history: per process, <<stage, build>> of the shutdown requests

procVars == <<proc, build, owner, records>>
cmdVars  == <<pc, stage, client, target>>
vars == <<procVars, startLock, cmdVars, listing, looking, askedBy>>

ProcStates == {"none", "waiting", "locked", "starting", "ready", "draining", "closing",
               "removed", "released", "exited", "crashed"}
Dead == {"none", "exited", "crashed"}
Serving == {"starting", "ready", "draining", "closing"}
Stages == {"start", "stop", "restart"}
Running == {"decide", "request", "absent", "launch", "ready"}

TypeOK ==
    /\ proc \in [Procs -> ProcStates]
    /\ build \in [Procs -> Builds]
    /\ owner \in Procs \cup {Nobody}
    /\ records \subseteq Procs
    /\ startLock \in Commands \cup {Nobody}
    /\ pc \in [Commands -> Running \cup {"none", "locking", "ok", "failed"}]
    /\ stage \in [Commands -> Stages]
    /\ client \in [Commands -> Builds]
    /\ listing \in [Commands -> SUBSET Procs]
    /\ looking \subseteq Commands
    /\ target \in [Commands -> Procs \cup {Nobody}]
    /\ askedBy \in [Procs -> SUBSET (Stages \X Builds)]

Init ==
    /\ proc = [p \in Procs |-> "none"]
    /\ build \in [Procs -> Builds]
    /\ owner = Nobody /\ records = {} /\ startLock = Nobody
    /\ pc = [c \in Commands |-> "none"]
    /\ stage \in [Commands -> Stages]
    /\ client \in [Commands -> Builds]
    /\ listing = [c \in Commands |-> {}] /\ looking = {}
    /\ target = [c \in Commands |-> Nobody]
    /\ askedBy = [p \in Procs |-> {}]

-----------------------------------------------------------------------------
(* Daemon processes. *)

ProcGoes(p, from, to) == proc[p] = from /\ proc' = [proc EXCEPT ![p] = to]
CommandsUnchanged == UNCHANGED <<startLock, cmdVars, listing, looking, askedBy>>

\* kwt serve in the foreground; it takes no start lock.
ServeForeground(p) ==
    /\ ProcGoes(p, "none", "waiting")
    /\ UNCHANGED <<build, owner, records>> /\ CommandsUnchanged

\* AcquireOwnerLock within its 100 ms, or not.
AcquireOwner(p) ==
    /\ ProcGoes(p, "waiting", "locked")
    /\ owner = Nobody /\ owner' = p
    /\ UNCHANGED <<build, records>> /\ CommandsUnchanged

OwnerConflict(p) ==
    /\ ProcGoes(p, "waiting", "exited")
    /\ owner # Nobody
    /\ UNCHANGED <<build, owner, records>> /\ CommandsUnchanged

\* store.Write; if it fails Serve returns without having published anything.
WriteRecord(p) ==
    /\ \/ ProcGoes(p, "locked", "starting") /\ records' = records \cup {p}
       \/ ProcGoes(p, "locked", "removed") /\ UNCHANGED records
    /\ UNCHANGED <<build, owner>> /\ CommandsUnchanged

BecomeReady(p) ==
    /\ ProcGoes(p, "starting", "ready")
    /\ UNCHANGED <<build, owner, records>> /\ CommandsUnchanged

\* An idle stop or a signal.
BeginDrain(p) ==
    /\ ProcGoes(p, "ready", "draining")
    /\ UNCHANGED <<build, owner, records>> /\ CommandsUnchanged

\* The drain is over and the HTTP server closes.
CloseServer(p) ==
    /\ ProcGoes(p, "draining", "closing")
    /\ UNCHANGED <<build, owner, records>> /\ CommandsUnchanged

ReleaseFirst(p) ==          \* mutant: the owner lock is given up before the record
    /\ \/ ProcGoes(p, "closing", "removed") /\ owner' = Nobody /\ UNCHANGED records
       \/ ProcGoes(p, "removed", "released") /\ records' = records \ {p} /\ UNCHANGED owner
    /\ UNCHANGED build /\ CommandsUnchanged

\* removeOwnedRuntime at the end of runHost, then Serve's deferred releaseOwner.
LeaveOwner(p) ==
    /\ \/ ProcGoes(p, "closing", "removed") /\ records' = records \ {p} /\ UNCHANGED owner
       \/ ProcGoes(p, "removed", "released") /\ owner' = Nobody /\ UNCHANGED records
    /\ UNCHANGED build /\ CommandsUnchanged

Exit(p) ==
    /\ ProcGoes(p, "released", "exited")
    /\ UNCHANGED <<build, owner, records>> /\ CommandsUnchanged

\* The process is killed: its record stays, its lock does not.
Crash(p) ==
    /\ proc[p] \notin Dead
    /\ proc' = [proc EXCEPT ![p] = "crashed"]
    /\ owner' = IF owner = p THEN Nobody ELSE owner
    /\ UNCHANGED <<build, records>> /\ CommandsUnchanged

-----------------------------------------------------------------------------
(* Commands. *)

Issue(c) ==
    /\ pc[c] = "none"
    /\ pc' = [pc EXCEPT ![c] = "locking"]
    /\ UNCHANGED <<procVars, startLock, stage, client, target, listing, looking, askedBy>>

AcquireStartLock(c) ==
    /\ pc[c] = "locking" /\ startLock = Nobody
    /\ startLock' = c
    /\ pc' = [pc EXCEPT ![c] = "decide"]
    /\ UNCHANGED <<procVars, stage, client, target, listing, looking, askedBy>>

\* The command returns; its deferred release gives up the start lock.
Return(c, outcome) ==
    /\ pc' = [pc EXCEPT ![c] = outcome]
    /\ startLock' = IF startLock = c THEN Nobody ELSE startLock
    /\ looking' = looking \ {c} /\ listing' = [listing EXCEPT ![c] = {}]

Fail(c) ==
    /\ pc[c] \in Running \cup {"locking"}
    /\ Return(c, "failed")
    /\ UNCHANGED <<procVars, stage, client, target, askedBy>>

\* Inspect lists the records, ...
List(c) ==
    /\ pc[c] \in {"decide", "absent", "ready"} /\ c \notin looking
    /\ looking' = looking \cup {c}
    /\ listing' = [listing EXCEPT ![c] = records]
    /\ UNCHANGED <<procVars, startLock, cmdVars, askedBy>>

\* ... and looks at their processes.  Any daemon may fail to answer in time.
Alive(p) == proc[p] \notin Dead
Found(c) == {p \in listing[c] : Alive(p)}
\* A daemon that proves to be the one of its record says how it is; whoever may
\* fail to, for want of an answer, is taken for unresponsive.
Proven(p) == {proc[p]} \cap {"starting", "ready", "draining"}
StatusOf(p) == {"unresponsive"} \cup Proven(p)

\* The stale records that Inspect removes.
DropSilent(c) == {p \in listing[c] : proc[p] \notin {"starting", "ready", "draining"}}  \* mutant
Stale(c) == {p \in listing[c] : ~Alive(p)}

Inspect(c) ==
    /\ c \in looking
    /\ looking' = looking \ {c} /\ listing' = [listing EXCEPT ![c] = {}]
    /\ records' = records \ Stale(c)
    /\ UNCHANGED <<proc, build, owner, client, askedBy>>

Finds(c, p, state) == Found(c) = {p} /\ state \in StatusOf(p)
FindsNone(c) == Found(c) = {}

\* The order a restart, or a start that meets a draining daemon, insists on.
AnyOrder(c, p) == CompareBuilds(client[c], build[p]) # "older"             \* mutant
ProvenOrder(c, p) == CompareBuilds(client[c], build[p]) \in {"same", "newer"}

\* What a command goes on to do about the daemon p it saw.
GoOn(c, to, p) ==
    /\ pc' = [pc EXCEPT ![c] = to]
    /\ target' = [target EXCEPT ![c] = p]
    /\ UNCHANGED <<startLock, stage>>

\* startLocked.
DecideStart(c) ==
    /\ pc[c] = "decide" /\ stage[c] = "start" /\ Inspect(c)
    /\ \/ FindsNone(c) /\ GoOn(c, "launch", target[c])
       \/ \E p \in Procs :
             \/ Finds(c, p, "ready") /\ decideReplacement(client[c], build[p])
                /\ GoOn(c, "request", p)
             \/ Finds(c, p, "starting") /\ GoOn(c, "ready", target[c])
             \/ Finds(c, p, "draining") /\ ProvenOrder(c, p) /\ GoOn(c, "absent", p)

ReuseDaemon(c) ==
    /\ pc[c] = "decide" /\ stage[c] = "start" /\ c \in looking
    /\ \E p \in Procs : Finds(c, p, "ready") /\ ~decideReplacement(client[c], build[p])
    /\ records' = records \ Stale(c)
    /\ Return(c, "ok")
    /\ UNCHANGED <<proc, build, owner, stage, client, target, askedBy>>

\* Stop.
DecideStop(c) ==
    /\ pc[c] = "decide" /\ stage[c] = "stop" /\ Inspect(c)
    /\ \E p \in Procs :
          \/ \E state \in {"ready", "starting"} : Finds(c, p, state) /\ GoOn(c, "request", p)
          \/ Finds(c, p, "draining") /\ GoOn(c, "absent", p)

NothingToStop(c) ==
    /\ pc[c] = "decide" /\ stage[c] = "stop" /\ c \in looking /\ FindsNone(c)
    /\ records' = records \ Stale(c)
    /\ Return(c, "ok")
    /\ UNCHANGED <<proc, build, owner, stage, client, target, askedBy>>

\* Restart; a daemon that is absent already is started like any other.
DecideRestart(c) ==
    /\ pc[c] = "decide" /\ stage[c] = "restart" /\ Inspect(c)
    /\ \/ /\ FindsNone(c)
          /\ stage' = [stage EXCEPT ![c] = "start"]
          /\ UNCHANGED <<pc, target, startLock>>
       \/ \E p \in Procs :
             /\ ProvenOrder(c, p)
             /\ \/ \E state \in {"ready", "starting"} :
                      Finds(c, p, state) /\ GoOn(c, "request", p)
                \/ Finds(c, p, "draining") /\ GoOn(c, "absent", p)

\* The shutdown request reaches the daemon that was observed, and no other: the
\* client is bound to its endpoint and its proof.
RequestShutdown(c) ==
    /\ pc[c] = "request" /\ target[c] # Nobody
    /\ proc[target[c]] \in {"starting", "ready", "draining"}
    /\ proc' = [proc EXCEPT ![target[c]] = "draining"]
    /\ askedBy' = [askedBy EXCEPT ![target[c]] = @ \cup {<<stage[c], client[c]>>}]
    /\ \/ pc' = [pc EXCEPT ![c] = "absent"] /\ UNCHANGED <<startLock, looking, listing>>
       \/ Return(c, "failed")
    /\ UNCHANGED <<build, owner, records, stage, client, target>>

\* waitForAbsent polls until no live daemon has a record.
SilentIsGone(c) == \E p \in Procs : Finds(c, p, "unresponsive")            \* mutant
SeemsGone(c) == FindsNone(c)

PollAbsent(c) ==
    /\ pc[c] = "absent" /\ Inspect(c)
    /\ \/ ~SeemsGone(c) /\ UNCHANGED <<pc, stage, target, startLock>>
       \/ SeemsGone(c) /\ stage[c] = "start" /\ GoOn(c, "launch", target[c])
       \/ /\ SeemsGone(c) /\ stage[c] = "restart"
          /\ stage' = [stage EXCEPT ![c] = "start"]
          /\ pc' = [pc EXCEPT ![c] = "decide"]
          /\ UNCHANGED <<target, startLock>>

StopSucceeds(c) ==
    /\ pc[c] = "absent" /\ stage[c] = "stop" /\ c \in looking /\ SeemsGone(c)
    /\ records' = records \ Stale(c)
    /\ Return(c, "ok")
    /\ UNCHANGED <<proc, build, owner, stage, client, target, askedBy>>

\* launchDetached: a process of the command's own build.
Launch(c, p) ==
    /\ pc[c] = "launch"
    /\ ProcGoes(p, "none", "waiting")
    /\ build' = [build EXCEPT ![p] = client[c]]
    /\ pc' = [pc EXCEPT ![c] = "ready"]
    /\ UNCHANGED <<owner, records, startLock, stage, client, target, listing, looking, askedBy>>

\* waitUntilReady polls until some daemon of this home is ready.
PollReady(c) ==
    /\ pc[c] = "ready" /\ Inspect(c)
    /\ UNCHANGED <<pc, stage, target, startLock>>

NotReleased(c) ==           \* mutant: a successful start keeps the start lock
    /\ pc[c] = "ready" /\ c \in looking /\ \E p \in Procs : Finds(c, p, "ready")
    /\ pc' = [pc EXCEPT ![c] = "ok"]
    /\ looking' = looking \ {c} /\ listing' = [listing EXCEPT ![c] = {}]
    /\ UNCHANGED <<procVars, startLock, stage, client, target, askedBy>>

StartSucceeds(c) ==
    /\ pc[c] = "ready" /\ c \in looking /\ \E p \in Procs : Finds(c, p, "ready")
    /\ records' = records \ Stale(c)
    /\ Return(c, "ok")
    /\ UNCHANGED <<proc, build, owner, stage, client, target, askedBy>>

-----------------------------------------------------------------------------
ProcStep(p) ==
    \/ ServeForeground(p) \/ AcquireOwner(p) \/ OwnerConflict(p) \/ WriteRecord(p)
    \/ BecomeReady(p) \/ BeginDrain(p) \/ CloseServer(p) \/ LeaveOwner(p) \/ Exit(p) \/ Crash(p)

CommandStep(c) ==
    \/ Issue(c) \/ AcquireStartLock(c) \/ Fail(c) \/ List(c)
    \/ DecideStart(c) \/ ReuseDaemon(c) \/ DecideStop(c) \/ NothingToStop(c)
    \/ DecideRestart(c) \/ RequestShutdown(c) \/ PollAbsent(c) \/ StopSucceeds(c)
    \/ PollReady(c) \/ StartSucceeds(c)
    \/ \E p \in Procs : Launch(c, p)

Next == (\E p \in Procs : ProcStep(p)) \/ (\E c \in Commands : CommandStep(c))

Spec == Init /\ [][Next]_vars

-----------------------------------------------------------------------------
(* Safety. *)

\* Inspect never reports "multiple kwt daemon owners found": a listing never
\* names two processes that are alive when it looks at them, though daemons
\* crash, leave their records behind and succeed each other in between.
NoPhantomOwners == \A c \in looking : Cardinality(Found(c)) <= 1

\* A live daemon can always be found: however many commands clean up stale
\* records meanwhile, an owner that serves, drains or does not answer keeps its
\* record until it removes it itself.
OwnerStaysDiscoverable == \A p \in Procs : proc[p] \in Serving => p \in records

\* A command that goes on to launch a daemon, or reports success, has really
\* seen the daemon it stopped or waited for leave: it no longer serves.
ReplacedDaemonIsGone ==
    \A c \in Commands :
        pc[c] \in {"launch", "ok"} /\ target[c] # Nobody => proc[target[c]] \notin Serving

\* No start or restart of a build whose order is older or unknown ever drains a
\* daemon, whatever happened since it was observed.
UnprovenOrderNeverReplaces ==
    \A p \in Procs : \A ask \in askedBy[p] :
        \/ ask[1] = "stop"
        \/ CompareBuilds(ask[2], build[p]) = "newer"
        \/ ask[1] = "restart" /\ CompareBuilds(ask[2], build[p]) = "same"

-----------------------------------------------------------------------------
(* Liveness: processes and commands run, drains end, and the two polling    *)
(* loops have deadlines.                                                    *)

Fairness ==
    /\ \A p \in Procs :
          /\ WF_vars(AcquireOwner(p) \/ OwnerConflict(p)) /\ WF_vars(WriteRecord(p))
          /\ WF_vars(BecomeReady(p)) /\ WF_vars(CloseServer(p)) /\ WF_vars(LeaveOwner(p))
          /\ WF_vars(Exit(p))
    /\ \A c \in Commands :
          /\ WF_vars(AcquireStartLock(c)) /\ WF_vars(List(c))
          /\ WF_vars(Fail(c) /\ pc[c] \in {"absent", "ready"})
          /\ WF_vars(\/ DecideStart(c) \/ ReuseDaemon(c) \/ DecideStop(c) \/ NothingToStop(c)
                     \/ DecideRestart(c) \/ (Fail(c) /\ pc[c] = "decide" /\ c \in looking))
          /\ WF_vars(RequestShutdown(c) \/ (Fail(c) /\ pc[c] = "request"))
          /\ WF_vars((\E p \in Procs : Launch(c, p)) \/ (Fail(c) /\ pc[c] = "launch"))

FairSpec == Spec /\ Fairness

\* Every command ends: start lock, owner lock and the polling of records never
\* wait for each other in a circle.
CommandsEnd == \A c \in Commands : pc[c] = "locking" ~> pc[c] \in {"ok", "failed"}
=============================================================================
