----------------------------- MODULE SSHClient -----------------------------
(***************************************************************************)
(* The commands that use an SSH connection of the daemon (internal/cmd:    *)
(* ssh.go, daemon_client.go; internal/daemon: client.go): kwt ssh exec and *)
(* copy hold a lease while they run one process over it, kwt ssh lease     *)
(* keeps one until its input ends.  Commands, the daemon and the user's    *)
(* OpenSSH configuration go their own ways; the daemon may be replaced and *)
(* a command may die at any time.                                          *)
(*                                                                         *)
(* Of the daemon (DaemonHost, SSHManager, OperationHub) only what its      *)
(* clients see is here: the operation that acquires a lease, the lease     *)
(* with its timer and its hold, and a drain that ends with the daemon.     *)
(***************************************************************************)
EXTENDS Naturals, FiniteSets

CONSTANTS
    Commands,
    Routes,        \* what the configuration may say
    None,
    MaxAttempts,   \* bound: operations one command may start
    MaxChanges     \* bound: changes of the configuration, daemons that end

VARIABLES
    route,      \* what the configuration says
    daemon,     \* where the daemon is
    op,         \* <<command, attempt>> -> the operation's state
    lease,      \* <<command, attempt>> -> its lease, or None
    job,        \* per command, what it is doing
    stream,     \* per command, the stream that holds its lease
    process,    \* per command, the OpenSSH client it runs
    outcome,    \* per command, how it ended
    changes

vars == <<route, daemon, op, lease, job, stream, process, outcome, changes>>

Attempts == 1..MaxAttempts
Idle == [pc |-> "idle", kind |-> "exec", expected |-> None, snapshot |-> None, attempt |-> 0, seen |-> FALSE]
Mine(c) == <<c, job[c].attempt>>

Leases == [live : BOOLEAN, held : BOOLEAN, timer : BOOLEAN, route : Routes]
Jobs == [pc : {"idle", "resolve", "start", "follow", "hold", "run", "wait", "keep", "release", "end"},
         kind : {"exec", "lease"}, expected : Routes \cup {None}, snapshot : Routes \cup {None},
         attempt : 0..MaxAttempts, seen : BOOLEAN]

TypeOK ==
    /\ route \in Routes /\ daemon \in {"up", "draining", "closing", "down"}
    /\ op \in [Commands \X Attempts -> {"none", "acquiring", "connecting", "adding", "done", "failed",
                                        "draining", "lost"}]
    /\ lease \in [Commands \X Attempts -> Leases \cup {None}]
    /\ job \in [Commands -> Jobs]
    /\ stream \in [Commands -> {"none", "open", "broken"}]
    /\ process \in [Commands -> {"none", "running", "killed", "orphan"}]
    /\ outcome \in [Commands -> {None, "exit", "error"}]
    /\ changes \in 0..MaxChanges

Init ==
    /\ route = CHOOSE r \in Routes : TRUE
    /\ daemon = "up"
    /\ op = [k \in Commands \X Attempts |-> "none"]
    /\ lease = [k \in Commands \X Attempts |-> None]
    /\ job = [c \in Commands |-> Idle]
    /\ stream = [c \in Commands |-> "none"]
    /\ process = [c \in Commands |-> "none"]
    /\ outcome = [c \in Commands |-> None]
    /\ changes = 0

world == <<route, daemon, changes>>
run == <<stream, process>>
At(c, pc) == job[c].pc = pc
Goes(c, pc) == job' = [job EXCEPT ![c].pc = pc] /\ UNCHANGED outcome
Ends(c, how) == job' = [job EXCEPT ![c].pc = "end"] /\ outcome' = [outcome EXCEPT ![c] = how]
Serves == daemon \in {"up", "draining"}
Live(k) == lease[k] # None /\ lease[k].live
Gone(k) == lease' = [lease EXCEPT ![k].live = FALSE, ![k].timer = FALSE]

-----------------------------------------------------------------------------
(* From the command line to a lease. *)

\* kwt ssh lease may be given the identity of a route that was reviewed, and
\* does not resolve it again.
Begin(c) ==
    /\ At(c, "idle")
    /\ \E kind \in {"exec", "lease"}, expected \in Routes \cup {None} :
         LET given == kind = "lease" /\ expected # None IN
         job' = [job EXCEPT ![c] = [Idle EXCEPT
                   !.pc = IF given THEN "start" ELSE "resolve", !.kind = kind, !.expected = expected,
                   !.snapshot = IF given THEN expected ELSE None]]
    /\ UNCHANGED <<world, op, lease, run, outcome>>

\* acquireShortSSHLease: a caller that reviewed a route takes no other.
RouteIsExpected(c) == job[c].expected \in {None, route}

\* A daemon that drains is asked again until its deadline, one that is down is
\* started again.
ResolveRoute(c) ==
    /\ At(c, "resolve")
    /\ \/ /\ daemon = "up"
          /\ IF RouteIsExpected(c)
             THEN job' = [job EXCEPT ![c].pc = "start", ![c].snapshot = route] /\ UNCHANGED outcome
             ELSE Ends(c, "error")
       \/ daemon # "up" /\ Ends(c, "error")
    /\ UNCHANGED <<world, op, lease, run>>

\* AcquireSSH names the operation; its response may be lost, and it is followed
\* all the same.
StartLease(c) ==
    LET n == job[c].attempt + 1 IN
    /\ At(c, "start") /\ n \in Attempts
    /\ \/ daemon = "up" /\ op' = [op EXCEPT ![<<c, n>>] = "acquiring"]
       \/ UNCHANGED op
    /\ job' = [job EXCEPT ![c].pc = "follow", ![c].attempt = n, ![c].seen = FALSE]
    /\ UNCHANGED <<world, lease, run, outcome>>

\* Refused because of a drain: asked again, or given up at its deadline.
RefuseStart(c) ==
    /\ At(c, "start") /\ daemon \in {"draining", "closing"}
    /\ Ends(c, "error")
    /\ UNCHANGED <<world, op, lease, run>>

\* Any event of the operation counts as seen; the first is published before the
\* connection is prepared.
SeeEvent(c) ==
    /\ At(c, "follow") /\ op[Mine(c)] # "none" /\ ~job[c].seen
    /\ job' = [job EXCEPT ![c].seen = TRUE]
    /\ UNCHANGED <<world, op, lease, run, outcome>>

\* Only what failed with a drain, and showed nothing, is tried again.
Retries(c) == op[Mine(c)] = "draining" /\ ~job[c].seen

\* The stream may be lost for good, and the outcome with it.
Follow(c) ==
    /\ At(c, "follow")
    /\ \/ op[Mine(c)] = "done" /\ Serves /\ Goes(c, IF job[c].kind = "exec" THEN "hold" ELSE "keep")
       \/ Retries(c) /\ Goes(c, "start")
       \/ ~Retries(c) /\ Ends(c, "error")
    /\ UNCHANGED <<world, op, lease, run>>

\* A callback fails: the operation is cancelled if that still can be.  Only kwt
\* ssh lease releases what it was given in spite of it.
EventFails(c) ==
    /\ At(c, "follow") /\ op[Mine(c)] # "none"
    /\ \/ op' = [op EXCEPT ![Mine(c)] = IF @ \in {"acquiring", "connecting"} THEN "failed" ELSE @]
       \/ UNCHANGED op
    /\ IF op[Mine(c)] = "done" /\ job[c].kind = "lease" THEN Goes(c, "release") ELSE Ends(c, "error")
    /\ UNCHANGED <<world, lease, run>>

-----------------------------------------------------------------------------
(* The operation in the daemon. *)

\* The route is resolved again before and after the connection is made.
Acquire(k) ==
    /\ op[k] = "acquiring"
    /\ op' = [op EXCEPT ![k] = IF job[k[1]].snapshot = route THEN "connecting" ELSE "failed"]
    /\ UNCHANGED <<world, lease, job, run, outcome>>
Connect(k) ==
    /\ op[k] = "connecting"
    /\ op' = [op EXCEPT ![k] = IF job[k[1]].snapshot = route THEN "adding" ELSE "failed"]
    /\ lease' = [lease EXCEPT ![k] = [live |-> FALSE, held |-> FALSE, timer |-> FALSE, route |-> route]]
    /\ UNCHANGED <<world, job, run, outcome>>
ConnectFails(k) ==
    /\ op[k] \in {"acquiring", "connecting"}
    /\ op' = [op EXCEPT ![k] = IF daemon = "up" THEN "failed" ELSE "draining"]
    /\ UNCHANGED <<world, lease, job, run, outcome>>
AddLease(k) ==
    /\ op[k] = "adding"
    /\ IF daemon = "up"
       THEN /\ op' = [op EXCEPT ![k] = "done"]
            /\ lease' = [lease EXCEPT ![k].live = TRUE, ![k].timer = TRUE]
       ELSE op' = [op EXCEPT ![k] = "draining"] /\ UNCHANGED lease
    /\ UNCHANGED <<world, job, run, outcome>>

Expire(k) ==
    /\ Live(k) /\ lease[k].timer /\ ~lease[k].held
    /\ Gone(k)
    /\ UNCHANGED <<world, op, job, run, outcome>>

-----------------------------------------------------------------------------
(* kwt ssh exec and copy. *)

\* A hold keeps the timer from going off; the mutant leaves it armed.
HoldLoosely(c) ==
    /\ At(c, "hold")
    /\ IF Serves /\ Live(Mine(c))
       THEN Goes(c, "run") /\ stream' = [stream EXCEPT ![c] = "open"]
       ELSE Goes(c, "release") /\ UNCHANGED stream
    /\ UNCHANGED <<world, op, lease, process>>
Hold(c) ==
    /\ At(c, "hold")
    /\ IF Serves /\ Live(Mine(c))
       THEN /\ lease' = [lease EXCEPT ![Mine(c)].held = TRUE, ![Mine(c)].timer = FALSE]
            /\ stream' = [stream EXCEPT ![c] = "open"] /\ Goes(c, "run")
       ELSE Goes(c, "release") /\ UNCHANGED <<lease, stream>>
    /\ UNCHANGED <<world, op, process>>

Run(c) ==
    /\ At(c, "run")
    /\ \/ process' = [process EXCEPT ![c] = "running"] /\ Goes(c, "wait") /\ UNCHANGED stream
       \/ Goes(c, "release") /\ stream' = [stream EXCEPT ![c] = "none"] /\ UNCHANGED process
    /\ UNCHANGED <<world, op, lease>>

\* The hold has ended: the process is cancelled.
Cancel(c) ==
    /\ At(c, "wait") /\ stream[c] = "broken" /\ process[c] = "running"
    /\ process' = [process EXCEPT ![c] = "killed"]
    /\ UNCHANGED <<world, op, lease, job, stream, outcome>>

\* The process ends, and with it the hold; one that broke meanwhile may go
\* unnoticed.
Exit(c) ==
    /\ At(c, "wait")
    /\ process' = [process EXCEPT ![c] = "none"] /\ stream' = [stream EXCEPT ![c] = "none"]
    /\ job' = [job EXCEPT ![c].pc = "release"]
    /\ \E how \in {"exit", "error"} :
         /\ process[c] = "killed" => how = "error"
         /\ stream[c] = "open" => how = "exit"
         /\ outcome' = [outcome EXCEPT ![c] = how]
    /\ UNCHANGED <<world, op, lease>>

\* The daemon notices that a stream was closed.
EndHold(c) ==
    /\ job[c].attempt > 0 /\ lease[Mine(c)] # None /\ lease[Mine(c)].held /\ stream[c] # "open"
    /\ lease' = [lease EXCEPT ![Mine(c)].held = FALSE, ![Mine(c)].timer = lease[Mine(c)].live]
    /\ UNCHANGED <<world, op, job, run, outcome>>

\* Release may fail or come too late; the daemon's timer remains.
Release(c) ==
    /\ At(c, "release")
    /\ \/ Serves /\ Live(Mine(c)) /\ Gone(Mine(c))
       \/ UNCHANGED lease
    /\ Ends(c, IF outcome[c] = "exit" THEN "exit" ELSE "error")
    /\ UNCHANGED <<world, op, run>>

-----------------------------------------------------------------------------
(* kwt ssh lease: a heartbeat that fails, the end of its input or a signal  *)
(* end it.                                                                 *)

Touch(c) ==
    /\ At(c, "keep")
    /\ IF Serves /\ Live(Mine(c)) THEN UNCHANGED <<job, outcome>> ELSE Goes(c, "release")
    /\ UNCHANGED <<world, op, lease, run>>
Leave(c) ==
    /\ At(c, "keep") /\ Goes(c, "release")
    /\ UNCHANGED <<world, op, lease, run>>

Die(c) ==
    /\ ~At(c, "end") /\ ~At(c, "idle")
    /\ Ends(c, "error")
    /\ process' = [process EXCEPT ![c] = IF @ = "none" THEN @ ELSE "orphan"]
    /\ stream' = [stream EXCEPT ![c] = "none"]
    /\ UNCHANGED <<world, op, lease>>

-----------------------------------------------------------------------------
(* The daemon and the configuration. *)

Change == changes < MaxChanges /\ changes' = changes + 1
Reconfigure ==
    /\ Change /\ route' \in Routes \ {route}
    /\ UNCHANGED <<daemon, op, lease, job, run, outcome>>
Drain ==
    /\ Change /\ daemon = "up" /\ daemon' = "draining"
    /\ UNCHANGED <<route, op, lease, job, run, outcome>>

Broken == stream' = [c \in Commands |-> IF stream[c] = "open" THEN "broken" ELSE stream[c]]
AllGone == lease' = [k \in DOMAIN lease |-> IF Live(k) THEN [lease[k] EXCEPT !.live = FALSE, !.timer = FALSE]
                                            ELSE lease[k]]
AllLost == op' = [k \in DOMAIN op |-> IF op[k] \in {"acquiring", "connecting", "adding"} THEN "lost" ELSE op[k]]

\* The server ends every stream before the connections go; a crash ends all.
CloseServer ==
    /\ daemon = "draining" /\ daemon' = "closing" /\ Broken
    /\ UNCHANGED <<route, changes, op, lease, job, process, outcome>>
CloseLeases ==
    /\ daemon = "closing" /\ daemon' = "down" /\ AllGone /\ AllLost
    /\ UNCHANGED <<route, changes, job, run, outcome>>
Crash ==
    /\ Change /\ daemon # "down" /\ daemon' = "down" /\ Broken /\ AllGone /\ AllLost
    /\ UNCHANGED <<route, job, process, outcome>>
StartDaemon ==
    /\ daemon = "down" /\ daemon' = "up"
    /\ UNCHANGED <<route, changes, op, lease, job, run, outcome>>

Next ==
    \/ \E c \in Commands :
         \/ Begin(c) \/ ResolveRoute(c) \/ StartLease(c) \/ RefuseStart(c) \/ SeeEvent(c) \/ Follow(c)
         \/ EventFails(c) \/ Hold(c) \/ Run(c) \/ Cancel(c) \/ Exit(c) \/ EndHold(c) \/ Release(c)
         \/ Touch(c) \/ Leave(c) \/ Die(c)
    \/ \E k \in Commands \X Attempts :
         Acquire(k) \/ Connect(k) \/ ConnectFails(k) \/ AddLease(k) \/ Expire(k)
    \/ Reconfigure \/ Drain \/ CloseServer \/ CloseLeases \/ Crash \/ StartDaemon

Spec == Init /\ [][Next]_vars

-----------------------------------------------------------------------------
\* A process runs over a lease that is live and held, and of the route that was
\* reviewed; when it is not, its command is about to learn that and to end it.
CommandsRunOverTheirLease ==
    \A c \in Commands : process[c] = "running" =>
        /\ (Live(Mine(c)) /\ lease[Mine(c)].held) \/ stream[c] = "broken"
        /\ lease[Mine(c)].route = job[c].snapshot
        /\ job[c].expected \in {None, job[c].snapshot}

\* However often it tries, a command has one lease, and one that it has not got
\* any more expires.
LeasesAreAccounted ==
    /\ \A c \in Commands : Cardinality({n \in Attempts : Live(<<c, n>>)}) <= 1
    /\ \A k \in Commands \X Attempts : Live(k) => lease[k].timer \/ lease[k].held

LeasesServeTheirCommands == CommandsRunOverTheirLease /\ LeasesAreAccounted

\* What makes them inductive.  Only the last operation of a command may be live:
\* the others failed with a drain.  An operation that has made a connection has a
\* lease of the route its command reviewed; while the stream that holds it is
\* open the lease is live and held, and the daemon serves.
AttemptsAreSound(c) ==
    /\ job[c].pc \in {"idle", "resolve"} => job[c].attempt = 0
    /\ \A n \in Attempts :
          /\ n > job[c].attempt => op[<<c, n>>] = "none"
          /\ n < job[c].attempt \/ job[c].pc = "start" => op[<<c, n>>] \in {"none", "draining"}
    /\ job[c].pc \notin {"idle", "resolve", "start", "end"} => job[c].attempt > 0
    /\ job[c].pc \in {"hold", "run", "wait", "keep"} => op[Mine(c)] = "done"
    /\ job[c].pc \notin {"idle", "resolve", "end"} => job[c].expected \in {None, job[c].snapshot}

LeaseIsSound(k) ==
    /\ op[k] \in {"adding", "done"} => lease[k] # None /\ lease[k].route = job[k[1]].snapshot
    /\ Live(k) => op[k] = "done" /\ (lease[k].timer \/ lease[k].held)

HoldIsSound(c) ==
    /\ process[c] = "running" => job[c].pc = "wait"
    /\ job[c].pc \in {"run", "wait"} => stream[c] # "none"
    /\ stream[c] = "open" => /\ job[c].pc \in {"run", "wait"} /\ Serves
                             /\ Live(Mine(c)) /\ lease[Mine(c)].held

ClientInv ==
    /\ TypeOK
    /\ \A c \in Commands : AttemptsAreSound(c) /\ HoldIsSound(c)
    /\ \A k \in Commands \X Attempts : LeaseIsSound(k)
=============================================================================
