--------------------------- MODULE TmuxSessions ----------------------------
(***************************************************************************)
(* The tmux sessions of one repository's worktrees (internal/tmux): opening *)
(* a worktree resolves a session, repairs or builds it; a guarded removal  *)
(* goes ahead only while none is left; a removal from the dashboard stops  *)
(* what is left afterwards, by generation.                                 *)
(*                                                                         *)
(* A session carries the markers of the bootstrap: the identity of a path, *)
(* the generation of a worktree, and the atomic clean-up marker older      *)
(* releases did not set.  Servers are kwt's own, the default one that older *)
(* releases used, and for an imported pull request a socket of its own,    *)
(* at its present and at its former place.                                 *)
(***************************************************************************)
EXTENDS Naturals, FiniteSets

CONSTANTS
    Openers, Removers,
    Gens,           \* generations of worktrees
    Protected,      \* those that hold imported pull requests; they share no socket
    Directories, Branches,
    None,
    MaxSessions,    \* bound: sessions ever made
    MaxActs,     \* bound: acts of the user in tmux and Git
    MaxFaults       \* bound: tmux commands that fail, processes that die

VARIABLES
    sessions,   \* session id -> session, or None
    home,       \* generation -> the path of its worktree, or None
    born,       \* generations ever made
    lock,       \* who holds the repository lock
    job,        \* what each process is doing
    touches, faults

vars == <<sessions, home, born, lock, job, touches, faults>>

Ids == 1..MaxSessions
Names == {<<p, b>> : p \in Directories, b \in Branches}     \* sessions are named for both
Imported == CHOOSE b \in Branches : TRUE              \* an import's session keeps its name
Mine == <<None, None>>                                \* a name of the user's own
Shared == {"kwt", "default"}
Sockets == {"socket", "former"}
Idle == [pc |-> "idle"]

Live == {s \in Ids : sessions[s] # None}
On(server) == {s \in Live : sessions[s].server = server}
Called(server, name) == {s \in On(server) : sessions[s].name = name}
At(j) == Called(j.server, j.name)
KwtName(s) == sessions[s].name # Mine

TypeOK ==
    /\ \A s \in Ids : sessions[s] = None \/
         sessions[s] \in [server : Shared \cup Sockets, name : Names \cup {Mine},
                          path : Directories \cup {None}, gen : Gens \cup {None}, sweep : BOOLEAN,
                          for : Gens \cup {None}, built : BOOLEAN]
    /\ home \in [Gens -> Directories \cup {None}] /\ born \subseteq Gens
    /\ lock \in Openers \cup Removers \cup {None}
    /\ DOMAIN job = Openers \cup Removers
    /\ touches \in 0..MaxActs /\ faults \in 0..MaxFaults

\* What an older release may have left for a worktree, on the default server or
\* an import's former socket: a session that bears markers, or none of them.
Old(g, p, marks) ==
    [server |-> IF g \in Protected THEN "former" ELSE "default", name |-> <<p, Imported>>,
     path |-> IF marks THEN p ELSE None, gen |-> IF marks THEN g ELSE None,
     sweep |-> FALSE, for |-> g, built |-> TRUE]

Init ==
    /\ \E g \in Gens, p \in Directories :
         /\ home = [h \in Gens |-> IF h = g THEN p ELSE None] /\ born = {g}
         /\ \E marks \in BOOLEAN, kept \in BOOLEAN :
              /\ g \in Protected => marks
              /\ sessions = [s \in Ids |-> IF s = 1 /\ kept THEN Old(g, p, marks) ELSE None]
    /\ lock = None /\ job = [p \in Openers \cup Removers |-> Idle]
    /\ touches = 0 /\ faults = 0

Do(p, j) == job' = [job EXCEPT ![p] = j]
\* Whatever a process was doing, its lock goes with it.
End(p) == Do(p, Idle) /\ lock' = IF lock = p THEN None ELSE lock
World == <<home, born, touches>>

-----------------------------------------------------------------------------
(* Opening.  The caller holds the repository's lock, under which it found  *)
(* the generation at the path (WithIdentity).                              *)

\* The name it asks for is that of the current branch; openExpectedWorktree
\* also insists on the session the inventory has shown.
BeginOpen(p) ==
    /\ job[p] = Idle /\ lock = None
    /\ \E g \in Gens, b \in Branches, expected \in Names \cup {None} :
         /\ home[g] # None
         /\ expected # None => expected[1] = home[g] /\ g \notin Protected
         /\ g \in Protected => b = Imported
         /\ Do(p, [pc |-> "resolve", gen |-> g, path |-> home[g], wanted |-> <<home[g], b>>,
                   expected |-> expected, retried |-> FALSE])
    /\ lock' = p
    /\ UNCHANGED <<sessions, World, faults>>

\* workspaceSessionCandidate: the exact name, else any name for the path.
Candidates(server, j) ==
    IF Called(server, j.wanted) # {} THEN Called(server, j.wanted)
    ELSE {s \in On(server) : sessions[s].name[1] = j.path}

Matches(s, j) == sessions[s].path = j.path /\ sessions[s].gen = j.gen

Resolved(p, server, name, repairOnly) ==
    LET j == job[p] IN
    IF j.expected \in {None, name}
    THEN /\ Do(p, [pc |-> "ensure", gen |-> j.gen, path |-> j.path, wanted |-> j.wanted,
                   expected |-> j.expected, retried |-> j.retried,
                   server |-> server, name |-> name, repairOnly |-> repairOnly])
         /\ UNCHANGED lock
    ELSE End(p)

\* A session of the default server that is the worktree's own is adopted, never
\* created; any other is passed over.
adoptDefaultServerSession(p) ==
    LET j == job[p] IN
    \/ \E s \in Candidates("default", j) :
         Matches(s, j) /\ Resolved(p, "default", sessions[s].name, TRUE)
    \/ /\ \/ Candidates("default", j) = {}
          \/ \E s \in Candidates("default", j) : ~Matches(s, j)
       /\ Resolved(p, "kwt", j.wanted, FALSE)

\* A session of kwt's server that is not the worktree's own fails the whole
\* resolution.
Resolve(p) ==
    LET j == job[p] IN
    /\ j.pc = "resolve" /\ j.gen \notin Protected
    /\ IF Candidates("kwt", j) # {}
       THEN \E s \in Candidates("kwt", j) :
              IF Matches(s, j)
              THEN Resolved(p, "kwt", sessions[s].name, sessions[s].name # j.wanted)
              ELSE End(p)
       ELSE adoptDefaultServerSession(p)
    /\ UNCHANGED <<sessions, World, faults>>

\* A default server that cannot be listed is passed over too.
ResolveDegraded(p) ==
    /\ job[p].pc = "resolve" /\ job[p].gen \notin Protected
    /\ Candidates("kwt", job[p]) = {} /\ faults < MaxFaults
    /\ faults' = faults + 1
    /\ Resolved(p, "kwt", job[p].wanted, FALSE)
    /\ UNCHANGED <<sessions, World>>

\* A protected server has one session, of the expected name, or none at all.
Probe(server, name) ==
    CASE On(server) = {} -> "absent"
      [] Called(server, name) # {} /\ Cardinality(On(server)) = 1 -> "live"
      [] OTHER -> "indeterminate"

ResolveProtected(p) ==
    LET j == job[p] IN
    /\ j.pc = "resolve" /\ j.gen \in Protected
    /\ IF Probe("socket", j.wanted) = "live" THEN Resolved(p, "socket", j.wanted, FALSE)
       ELSE IF Probe("socket", j.wanted) = "indeterminate" \/ Probe("former", j.wanted) = "indeterminate"
       THEN End(p)
       ELSE Resolved(p, IF Probe("former", j.wanted) = "live" THEN "former" ELSE "socket",
                     j.wanted, FALSE)
    /\ UNCHANGED <<sessions, World, faults>>

\* ensure and repairExisting: the session that bears the name now is validated
\* again, whatever the resolution saw.
Ensure(p) ==
    LET j == job[p] IN
    /\ j.pc = "ensure"
    /\ IF At(j) # {}
       THEN IF \A s \in At(j) : Matches(s, j)
            THEN Do(p, [j EXCEPT !.pc = "repair"]) /\ UNCHANGED lock
            ELSE End(p)
       ELSE IF ~j.repairOnly THEN Do(p, [j EXCEPT !.pc = "create"]) /\ UNCHANGED lock
       ELSE IF ~j.retried
            THEN Do(p, [pc |-> "resolve", gen |-> j.gen, path |-> j.path, wanted |-> j.wanted,
                        expected |-> j.expected, retried |-> TRUE]) /\ UNCHANGED lock
            ELSE End(p)
    /\ UNCHANGED <<sessions, World, faults>>

\* validateProtectedState: a server or session with a credential in its
\* environment is refused, whoever put it there.
RefuseProtected(p) ==
    /\ job[p].pc = "ensure" /\ job[p].gen \in Protected
    /\ End(p)
    /\ UNCHANGED <<sessions, World, faults>>

Marked(S, j) ==
    [s \in Ids |-> IF s \in S
                   THEN [sessions[s] EXCEPT !.path = j.path, !.gen = j.gen, !.sweep = TRUE]
                   ELSE sessions[s]]

\* repairBootstrap never kills: the session is not kwt's to tear down.
Repair(p) ==
    LET j == job[p] IN
    /\ j.pc = "repair"
    /\ sessions' = Marked(At(j), j)
    /\ IF At(j) = {} THEN End(p) ELSE Do(p, [j EXCEPT !.pc = "opened"]) /\ UNCHANGED lock
    /\ UNCHANGED <<World, faults>>

\* tmux refuses a name that is taken; the session bears no marker yet.
NewSession(p) ==
    LET j == job[p] IN
    /\ j.pc = "create"
    /\ IF At(j) # {} THEN End(p) /\ UNCHANGED sessions
       ELSE \E s \in Ids \ Live :
              /\ \A t \in Ids : t < s => t \in Live
              /\ sessions' = [sessions EXCEPT ![s] =
                     [server |-> j.server, name |-> j.name, path |-> None, gen |-> None,
                      sweep |-> FALSE, for |-> j.gen, built |-> FALSE]]
              /\ Do(p, [pc |-> "bootstrap", gen |-> j.gen, path |-> j.path, name |-> j.name,
                        server |-> j.server, made |-> s])
              /\ UNCHANGED lock
    /\ UNCHANGED <<World, faults>>

Bootstrap(p) ==
    LET j == job[p] IN
    /\ j.pc = "bootstrap" /\ At(j) # {}
    /\ sessions' = Marked(At(j), j)
    /\ Do(p, [j EXCEPT !.pc = "panes"])
    /\ UNCHANGED <<lock, World, faults>>

\* The panes are addressed by the ids captured when they were made.
BuildPanes(p) ==
    LET j == job[p] IN
    /\ j.pc = "panes" /\ At(j) = {j.made}
    /\ sessions' = [sessions EXCEPT ![j.made].built = TRUE]
    /\ Do(p, [j EXCEPT !.pc = "opened"])
    /\ UNCHANGED <<lock, World, faults>>

CreateFails(p) ==
    LET j == job[p] IN
    /\ j.pc \in {"bootstrap", "panes"}
    /\ faults' = IF j.made \in At(j) THEN faults + 1 ELSE faults
    /\ faults' <= MaxFaults
    /\ Do(p, [j EXCEPT !.pc = "abort"])
    /\ UNCHANGED <<sessions, lock, World>>

\* abort kills by name what was just made under it; the kill may fail too.
Abort(p) ==
    LET j == job[p] IN
    /\ j.pc = "abort"
    /\ \/ sessions' = [s \in Ids |-> IF s \in At(j) THEN None ELSE sessions[s]]
          /\ UNCHANGED faults
       \/ faults < MaxFaults /\ faults' = faults + 1 /\ UNCHANGED sessions
    /\ End(p)
    /\ UNCHANGED World

\* The lock is let go before a client is attached.
Attach(p) ==
    /\ job[p].pc = "opened"
    /\ End(p)
    /\ UNCHANGED <<sessions, World, faults>>

Die(p) ==
    /\ job[p] # Idle /\ faults < MaxFaults
    /\ faults' = faults + 1
    /\ End(p)
    /\ UNCHANGED <<sessions, World>>

-----------------------------------------------------------------------------
(* Guarded removal (removalSessionGuard), under the repository's lock.     *)

BeginRemoval(p) ==
    /\ job[p] = Idle /\ lock = None
    /\ \E g \in Gens, b \in Branches, guarded \in BOOLEAN :
         /\ home[g] # None
         /\ g \in Protected => b = Imported
         /\ Do(p, [pc |-> IF guarded THEN "kwt" ELSE "remove", gen |-> g, path |-> home[g],
                   name |-> <<home[g], b>>, guarded |-> guarded])
    /\ lock' = p
    /\ UNCHANGED <<sessions, World, faults>>

\* Every session of a shared server that is the worktree's, or might be.
ThreatensByPath(s, j) ==                                            \* mutant
    \/ sessions[s].name = j.name \/ sessions[s].name[1] = j.path \/ sessions[s].path = j.path
    \/ sessions[s].gen = None /\ sessions[s].path = None /\ KwtName(s)
Threatens(s, j) ==
    \/ sessions[s].name = j.name
    \/ sessions[s].path = j.path \/ sessions[s].name[1] = j.path
    \/ sessions[s].gen = j.gen
    \/ sessions[s].gen = None /\ sessions[s].path = None /\ KwtName(s)

NextServer(j) ==
    CASE j.pc = "kwt" -> "default"
      [] j.pc = "default" /\ j.gen \in Protected -> "socket"
      [] j.pc = "socket" -> "former"
      [] OTHER -> "remove"

\* One server after the other; whatever is found, and whatever cannot be
\* inspected, ends the removal.
Quiesce(p) ==
    LET j == job[p] IN
    /\ j.pc \in Shared \cup Sockets
    /\ \/ /\ j.pc \in Shared => ~\E s \in On(j.pc) : Threatens(s, j)
          /\ j.pc \in Sockets => Probe(j.pc, j.name) = "absent"
          /\ Do(p, [j EXCEPT !.pc = NextServer(j)]) /\ UNCHANGED lock
       \/ /\ j.pc \in Shared => \E s \in On(j.pc) : Threatens(s, j)
          /\ j.pc \in Sockets => Probe(j.pc, j.name) # "absent"
          /\ End(p)
    /\ UNCHANGED <<sessions, World, faults>>

\* Git removes the worktree if the generation is still at the path.
Removes(p) == job[p].pc = "remove" /\ home[job[p].gen] = job[p].path
RemoveWorktree(p) ==
    LET j == job[p] IN
    /\ Removes(p)
    /\ home' = [home EXCEPT ![j.gen] = None]
    /\ lock' = None
    /\ Do(p, IF j.guarded THEN Idle ELSE [j EXCEPT !.pc = "sweep"])
    /\ UNCHANGED <<sessions, born, touches, faults>>

RemovalRefused(p) ==
    /\ job[p].pc = "remove" /\ ~Removes(p)
    /\ End(p)
    /\ UNCHANGED <<sessions, World, faults>>

-----------------------------------------------------------------------------
(* The dashboard's removal stops, without any lock, what the worktree left *)
(* (tuiRemovalOperation.run, LiveEndpoints, KillMatching).                 *)

Sweeping(p, left, bad) ==
    Do(p, [pc |-> "kill", gen |-> job[p].gen, name |-> job[p].name, left |-> left, bad |-> bad])

\* A session of the requested name on kwt's server must be of the generation;
\* elsewhere, and under other names, those that are not are passed over.
Sweep(p) ==
    LET j == job[p]
        own == IF j.gen \in Protected THEN Sockets \X {j.name} ELSE {}
        found == {s \in On("kwt") \cup On("default") : KwtName(s) /\ sessions[s].gen = j.gen}
        strange == \E s \in Called("kwt", j.name) : sessions[s].gen # j.gen
    IN
    /\ j.pc = "sweep"
    /\ \/ strange /\ Sweeping(p, own, TRUE) /\ UNCHANGED faults
       \/ /\ ~strange /\ UNCHANGED faults
          /\ Sweeping(p, own \cup {<<sessions[s].server, sessions[s].name>> : s \in found}, FALSE)
       \/ faults < MaxFaults /\ faults' = faults + 1 /\ Sweeping(p, own, TRUE)
    /\ UNCHANGED <<sessions, lock, World>>

Drop(p, e, bad) == Sweeping(p, job[p].left \ {e}, job[p].bad \/ bad)
Ended(S) == [s \in Ids |-> IF s \in S THEN None ELSE sessions[s]]

\* if-shell tests the marker and kills in one request of the server.
KillBySweep(p) ==
    LET j == job[p] IN
    /\ j.pc = "kill"
    /\ \E e \in j.left :
         LET here == Called(e[1], e[2]) swept == {s \in here : sessions[s].sweep /\ sessions[s].gen = j.gen} IN
         IF e[1] \in Sockets /\ Probe(e[1], e[2]) = "indeterminate"
         THEN Drop(p, e, TRUE) /\ UNCHANGED sessions
         ELSE IF here = {} THEN Drop(p, e, FALSE) /\ UNCHANGED sessions
         ELSE IF swept # {} THEN sessions' = Ended(swept) /\ Drop(p, e, FALSE)
         ELSE /\ Do(p, [pc |-> "inspect", gen |-> j.gen, name |-> j.name, left |-> j.left,
                        bad |-> j.bad, at |-> e])
              /\ UNCHANGED sessions
    /\ UNCHANGED <<lock, World, faults>>

\* A session from before that marker: its id and its generation are read in one
\* request, and the generation is tested again with the kill, by session id.
CleanupIdentity(e) == {[id |-> s, gen |-> sessions[s].gen] : s \in Called(e[1], e[2])}
Inspect(p) ==
    LET j == job[p] seen == CleanupIdentity(j.at) IN
    /\ j.pc = "inspect"
    /\ IF seen = {} THEN Drop(p, j.at, FALSE)
       ELSE \E i \in seen :
              IF i.gen = j.gen
              THEN Do(p, [pc |-> "retest", gen |-> j.gen, name |-> j.name, left |-> j.left,
                          bad |-> j.bad, at |-> j.at, seen |-> i.id])
              ELSE Drop(p, j.at, TRUE)
    /\ UNCHANGED <<sessions, lock, World, faults>>

Retest(p) ==
    LET j == job[p] here == Called(j.at[1], j.at[2]) IN
    /\ j.pc = "retest"
    /\ IF here = {} THEN Drop(p, j.at, FALSE) /\ UNCHANGED sessions
       ELSE IF j.seen \in Live /\ sessions[j.seen].gen = j.gen
       THEN sessions' = Ended({j.seen}) /\ Drop(p, j.at, FALSE)
       ELSE Drop(p, j.at, TRUE) /\ UNCHANGED sessions
    /\ UNCHANGED <<lock, World, faults>>

Swept(p) ==
    /\ job[p].pc = "kill" /\ job[p].left = {}
    /\ End(p)
    /\ UNCHANGED <<sessions, World, faults>>

-----------------------------------------------------------------------------
\* kwt makes another worktree, under the lock; the user moves one with plain Git,
\* ends a session, or gives one that bears markers a name of his own.
CreateWorktree(g, path) ==
    /\ lock = None /\ g \notin born /\ \A h \in Gens : home[h] # path
    /\ home' = [home EXCEPT ![g] = path] /\ born' = born \cup {g}
    /\ UNCHANGED <<sessions, lock, job, touches, faults>>

MoveWorktree(g, path) ==
    /\ home[g] # None /\ g \notin Protected /\ \A h \in Gens : home[h] # path
    /\ touches < MaxActs /\ touches' = touches + 1
    /\ home' = [home EXCEPT ![g] = path]
    /\ UNCHANGED <<sessions, born, lock, job, faults>>

UserEnds(s) ==
    /\ s \in Live /\ touches < MaxActs /\ touches' = touches + 1
    /\ sessions' = [sessions EXCEPT ![s] = None]
    /\ UNCHANGED <<home, born, lock, job, faults>>

UserRenames(s) ==
    /\ s \in Live /\ touches < MaxActs /\ touches' = touches + 1
    /\ sessions[s].gen # None /\ Called(sessions[s].server, Mine) = {}
    /\ sessions' = [sessions EXCEPT ![s].name = Mine]
    /\ UNCHANGED <<home, born, lock, job, faults>>

Next ==
    \/ \E p \in Openers :
         \/ BeginOpen(p) \/ Resolve(p) \/ ResolveDegraded(p) \/ ResolveProtected(p) \/ Ensure(p)
         \/ RefuseProtected(p) \/ Repair(p) \/ NewSession(p) \/ Bootstrap(p) \/ BuildPanes(p) \/ CreateFails(p)
         \/ Abort(p) \/ Attach(p)
    \/ \E p \in Removers :
         \/ BeginRemoval(p) \/ Quiesce(p) \/ RemoveWorktree(p) \/ RemovalRefused(p)
         \/ Sweep(p) \/ KillBySweep(p) \/ Inspect(p) \/ Retest(p) \/ Swept(p)
    \/ \E p \in Openers \cup Removers : Die(p)
    \/ \E g \in Gens, path \in Directories : CreateWorktree(g, path) \/ MoveWorktree(g, path)
    \/ \E s \in Ids : UserEnds(s) \/ UserRenames(s)

Spec == Init /\ [][Next]_vars

-----------------------------------------------------------------------------
\* A generation marker never lies: no repair and no bootstrap puts one on the
\* session of another worktree, whatever took over a name or a path.
MarksAreTrue == \A s \in Live : sessions[s].gen \in {None, sessions[s].for}

\* A guarded removal takes a worktree away only when none of the sessions ever
\* made for it is left, half-built, renamed, moved away from or left behind by
\* an older release.
RemovalFindsNoSession ==
    \A p \in Removers :
        RemoveWorktree(p) /\ job[p].guarded => \A s \in Live : sessions[s].for # job[p].gen

\* kwt ends only sessions of the worktree it removed, however fast the path was
\* used again, and of a creation that failed only the one it had made.
OnlyItsSessionsEnd ==
    \A s \in Live : sessions'[s] = None /\ touches' = touches =>
        \/ \E p \in Removers : job[p] # job'[p] /\ sessions[s].for = job[p].gen
        \/ \E p \in Openers : job[p] # job'[p] /\ s = job[p].made

\* What an open hands to the terminal was made for the worktree it was asked to
\* open.
OpensItsOwn ==
    \A p \in Openers :
        job[p].pc \in {"repair", "panes"} /\ job'[p].pc = "opened" =>
            \E s \in Called(job[p].server, job[p].name) :
                sessions[s].for = job[p].gen

\* A clean-up that reports success has left no session of the generation under
\* a name of kwt's.
SweepIsComplete ==
    \A p \in Removers : Swept(p) /\ ~job[p].bad =>
        ~\E s \in Live : sessions[s].gen = job[p].gen /\ KwtName(s)

StepsKeepSessions ==
    RemovalFindsNoSession /\ OnlyItsSessionsEnd /\ OpensItsOwn /\ SweepIsComplete
SessionsAreKept == []MarksAreTrue /\ [][StepsKeepSessions]_vars

-----------------------------------------------------------------------------
(* What makes SessionsAreKept inductive.                                     *)

Servers == Shared \cup Sockets
Session ==
    [server : Servers, name : Names \cup {Mine}, path : Directories \cup {None},
     gen : Gens \cup {None}, sweep : BOOLEAN, for : Gens, built : BOOLEAN]

\* The jobs, by where they are.
Asking == [pc : {"resolve"}, gen : Gens, path : Directories, wanted : Names,
           expected : Names \cup {None}, retried : BOOLEAN]
Choosing == [pc : {"ensure", "repair", "create", "opened"}, gen : Gens, path : Directories,
             wanted : Names, expected : Names \cup {None}, retried : BOOLEAN,
             server : Servers, name : Names, repairOnly : BOOLEAN]
Making == [pc : {"bootstrap", "panes", "abort", "opened"}, gen : Gens, path : Directories,
           name : Names, server : Servers, made : Ids]
Removing == [pc : Servers \cup {"remove", "sweep"}, gen : Gens, path : Directories,
             name : Names, guarded : BOOLEAN]
Endpoints == Servers \X Names
Killing == [pc : {"kill"}, gen : Gens, name : Names, left : SUBSET Endpoints, bad : BOOLEAN]
Inspecting == [pc : {"inspect"}, gen : Gens, name : Names, left : SUBSET Endpoints,
               bad : BOOLEAN, at : Endpoints]
Retesting == [pc : {"retest"}, gen : Gens, name : Names, left : SUBSET Endpoints,
              bad : BOOLEAN, at : Endpoints, seen : Ids]
Job == {Idle} \cup Asking \cup Choosing \cup Making \cup Removing
         \cup Killing \cup Inspecting \cup Retesting

OpenerAt == {"resolve", "ensure", "repair", "create", "bootstrap", "panes", "abort", "opened"}
RemoverAt == Servers \cup {"remove"}
SweeperAt == {"sweep", "kill", "inspect", "retest"}
NamesIt(name, g) == g \in Protected => name = <<home[g], Imported>>

\* A session tells the truth or nothing, and only one that does tell is renamed;
\* an import's is on a socket under the import's name.
SessionIsSound(s) ==
    /\ sessions[s] \in Session /\ sessions[s].for \in born
    /\ sessions[s].gen \in {None, sessions[s].for}
    /\ sessions[s].gen = None => sessions[s].path = None /\ KwtName(s)
    /\ sessions[s].server \in Sockets =>
         /\ sessions[s].for \in Protected
         /\ KwtName(s) /\ home[sessions[s].for] # None => NamesIt(sessions[s].name, sessions[s].for)
Alone(s) ==
    \A t \in Live : sessions[t].server = sessions[s].server /\ sessions[t].name = sessions[s].name
        => t = s

\* What a process knows of its job where it is: it has the lock while the
\* worktree is there; it asks for a name of the worktree;
HasLock(p, j) == j.pc \in OpenerAt \cup RemoverAt => lock = p /\ home[j.gen] # None
AsksForIt(j) ==
    /\ j.pc = "resolve" \/ j \in Choosing => j.wanted[1] = j.path /\ NamesIt(j.wanted, j.gen)
    /\ j.pc \in OpenerAt \ {"resolve"} =>
         j.name[1] = j.path /\ NamesIt(j.name, j.gen) /\ (j.server \in Sockets <=> j.gen \in Protected)
    /\ j.pc \in RemoverAt => NamesIt(j.name, j.gen)
    /\ j.pc \in Sockets => j.gen \in Protected
\* what bears the name is the worktree's, or what it made;
HasSession(j) ==
    /\ j.pc = "repair" => \A s \in At(j) : sessions[s].gen = j.gen
    /\ j.pc \in {"bootstrap", "panes", "abort"} =>
         \A s \in At(j) : s = j.made /\ sessions[s].for = j.gen
\* none of the worktree's is on a server it has left behind;
HasCleared(j) ==
    \A s \in Live : j.pc \in RemoverAt /\ sessions[s].for = j.gen =>
        /\ j.pc \in {"default", "socket", "former"} => sessions[s].server # "kwt"
        /\ j.pc \in {"socket", "former"} => sessions[s].server # "default"
        /\ j.pc = "former" => sessions[s].server # "socket"
        /\ j.pc = "remove" => ~j.guarded
\* and of a worktree that is gone no name is left but those on the list.
HasListed(j) ==
    /\ j.pc \in SweeperAt => home[j.gen] = None /\ j.gen \in born
    /\ j.pc = "sweep" => \A s \in Live : sessions[s].server \in Sockets /\ KwtName(s)
                            /\ sessions[s].for = j.gen => sessions[s].name = j.name
    /\ j.pc \in SweeperAt \ {"sweep"} => j.bad \/
         \A s \in Live : sessions[s].gen = j.gen /\ KwtName(s) =>
             <<sessions[s].server, sessions[s].name>> \in j.left
    /\ j.pc = "retest" => \A s \in Called(j.at[1], j.at[2]) : sessions[s].gen = j.gen => s = j.seen
Knows(p, j) ==
    j \in Job /\ HasLock(p, j) /\ AsksForIt(j) /\ HasSession(j) /\ HasCleared(j) /\ HasListed(j)

TmuxInv ==
    /\ DOMAIN sessions = Ids /\ DOMAIN job = Openers \cup Removers
    /\ home \in [Gens -> Directories \cup {None}] /\ born \subseteq Gens
    /\ \A g \in Gens : home[g] # None => g \in born
    /\ lock \in Openers \cup Removers \cup {None} /\ touches \in Nat
    /\ \A s \in Live : SessionIsSound(s) /\ Alone(s)
    /\ \A p \in Openers \cup Removers : Knows(p, job[p])
=============================================================================
