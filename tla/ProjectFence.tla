---------------------------- MODULE ProjectFence ----------------------------
(***************************************************************************)
(* The registration of one project and what is done under its fences       *)
(* (internal/lifecycle/project_fence.go, project_registration.go and       *)
(* project_removal.go; internal/cmd/project_guard.go), with the provenance *)
(* of an imported pull request and its protected tmux session.             *)
(*                                                                         *)
(* Writers of the registration and operations that depend on it meet at    *)
(* file locks: the transition lock of the kwt home, under which fences are *)
(* taken, and one fence per identity.  A guarded operation (a creation, an *)
(* import, an attachment, a merged prune) observes the registration first, *)
(* takes the fences of the project's identity and of its path, and runs    *)
(* after the transition lock is back.  A removal takes one fence only and  *)
(* gives the transition lock back before it looks for sessions.            *)
(***************************************************************************)
EXTENDS Naturals, FiniteSets

CONSTANTS
    Procs,
    Nobody,
    MaxOps,         \* bound: operations started and changes of origin; the
                    \* number of an import is its worktree's generation
    RepointsAnytime \* origin may also be repointed while a fence is held

ASSUME FenceAssumption ==
    Nobody \notin Procs /\ MaxOps \in Nat \ {0} /\ RepointsAnytime \in BOOLEAN

VARIABLES
    entry,      \* the raw registration at the project's path
    origin,     \* the repository git's origin names
    workspace,  \* the generation of the imported worktree, 0 if there is none
    sessions,   \* the generations whose protected session is live
    record,     \* the pull request's provenance
    transition, \* the holder of registry.lock
    fences,     \* the holder of each identity's lock
    store,      \* the holder of the provenance file's write lock
    ops,        \* operations started
    pc,
    job         \* what each process carries between its steps

data  == <<entry, origin, workspace, sessions, record>>
locks == <<transition, fences, store>>
vars  == <<data, locks, ops, pc, job>>

\* Canonical repository identities, and the identity of the project's path;
\* the order of the numbers is the order in which fences are taken.
Repositories == 1..2
PathIdentity == 3
Identities   == Repositories \cup {PathIdentity}

\* repo is 0 if Repository is no canonical identity; stamp stands for the rest
\* of the raw entry.  Its last_touched counts seconds: a write may repeat it.
Stamps == 1..2
Registrations == [repo : 0..2, stamp : Stamps]
NoEntry == [stamp |-> 0]

\* aliases are ProvenanceRepositoryIdentities, gen names the protected endpoint.
Records == [aliases : SUBSET Repositories, gen : 1..MaxOps]
NoRecord == [aliases |-> {}, gen |-> 0]

Holders == Procs \cup {Nobody}

\* reg and id: the registration observed or requested, and its identity;
\* wanted: the identities to fence; repo: what Register writes; rec: the
\* provenance an operation acts on or is about to save.
NoJob == [num |-> 0, kind |-> "none", reg |-> NoEntry, id |-> PathIdentity,
          wanted |-> {}, repo |-> 0, rec |-> NoRecord]

Guarded == {"create", "import", "attach", "prune"}
Inside == {"inside", "import", "save", "rollback", "session",
           "ownership", "removal", "forget", "leave"}
Removing == {"view", "probe", "swap"}

Jobs == [num : 0..MaxOps, kind : Guarded \cup {"none", "remove", "register"},
         reg : Registrations \cup {NoEntry}, id : Identities,
         wanted : SUBSET Identities, repo : 0..2, rec : Records \cup {NoRecord}]

TypeOK ==
    /\ entry \in Registrations \cup {NoEntry}
    /\ origin \in Repositories
    /\ workspace \in 0..MaxOps /\ sessions \subseteq 1..MaxOps
    /\ record \in Records \cup {NoRecord}
    /\ transition \in Holders /\ store \in Holders
    /\ fences \in [Identities -> Holders]
    /\ ops \in 0..MaxOps
    /\ pc \in [Procs -> {"idle", "observe", "transition", "fences", "confirm"} \cup Inside \cup Removing]
    /\ job \in [Procs -> Jobs]

\* Nothing is registered yet, or operation 1 has imported the pull request of
\* a registered project.  The names of the repositories are interchangeable but
\* for the order of their locks.
Init ==
    /\ origin = 1
    /\ \/ entry = NoEntry /\ workspace = 0 /\ record = NoRecord
       \/ /\ entry \in [repo : 0..1, stamp : {1}]
          /\ workspace = 1
          /\ record = [aliases |-> {1}, gen |-> 1]
    /\ sessions = {}
    /\ transition = Nobody /\ store = Nobody
    /\ fences = [i \in Identities |-> Nobody]
    /\ ops = 1
    /\ pc = [p \in Procs |-> "idle"]
    /\ job = [p \in Procs |-> NoJob]

-----------------------------------------------------------------------------
Goto(p, label) == pc' = [pc EXCEPT ![p] = label]

Held(p) == {i \in Identities : fences[i] = p}

Unfenced(p) == [i \in Identities |-> IF fences[i] = p THEN Nobody ELSE fences[i]]
WithoutStore(p) == IF store = p THEN Nobody ELSE store
WithoutTransition(p) == IF transition = p THEN Nobody ELSE transition

\* An operation ends, and its deferred releases give back what it holds.
End(p) ==
    /\ transition' = WithoutTransition(p)
    /\ fences' = Unfenced(p)
    /\ store' = WithoutStore(p)
    /\ Goto(p, "idle")
    /\ job' = [job EXCEPT ![p] = NoJob]
    /\ UNCHANGED ops

Fail(p) == End(p) /\ UNCHANGED data

Begin(p, fields, label) ==
    /\ pc[p] = "idle" /\ ops < MaxOps
    /\ ops' = ops + 1
    /\ job' = [job EXCEPT ![p] = [fields EXCEPT !.num = ops + 1]]
    /\ Goto(p, label)
    /\ UNCHANGED <<data, locks>>

\* resolveProjectIdentity
Identity(e) == IF e = NoEntry THEN PathIdentity
               ELSE IF e.repo \in Repositories THEN e.repo ELSE origin

\* ObserveProjectClaim: without a registration the path alone is claimed.
Observe(kind) ==
    [NoJob EXCEPT !.kind = kind, !.reg = entry, !.id = Identity(entry),
                  !.wanted = {Identity(entry), PathIdentity}]

StartCreate(p) == Begin(p, Observe("create"), "transition")

StartImport(p) == entry # NoEntry /\ Begin(p, Observe("import"), "transition")

\* An attachment or a prune reads the provenance first, an attachment that of
\* the worktree it finds, ...
Recorded == record # NoRecord /\ record.gen = workspace

StartRecorded(p) ==
    /\ record # NoRecord /\ store = Nobody
    /\ \E kind \in {"attach", "prune"} :
          /\ kind = "attach" => Recorded
          /\ Begin(p, [NoJob EXCEPT !.kind = kind, !.rec = record], "observe")

\* ... and expects the project to have one of its identities.
ObserveRecorded(p) ==
    /\ pc[p] = "observe"
    /\ entry # NoEntry /\ Identity(entry) \in job[p].rec.aliases
    /\ job' = [job EXCEPT ![p] = [Observe(@.kind) EXCEPT !.num = job[p].num,
                                                       !.rec = job[p].rec]]
    /\ Goto(p, "transition")
    /\ UNCHANGED <<data, locks, ops>>

NotExpected(p) ==
    /\ pc[p] = "observe"
    /\ entry = NoEntry \/ Identity(entry) \notin job[p].rec.aliases
    /\ Fail(p)

\* The request names what an inventory showed.
StartRemove(p) ==
    /\ entry # NoEntry
    /\ Begin(p, [Observe("remove") EXCEPT !.wanted = {Identity(entry)}], "transition")

StartRegister(p) ==
    \E repo \in 0..2 : Begin(p, [NoJob EXCEPT !.kind = "register", !.repo = repo], "transition")

-----------------------------------------------------------------------------
(* Fences. *)

\* projectRegistrationTransitionIdentities: the fences of the registration to
\* write and of the one it replaces.
TransitionIdentities(repo) ==
    {PathIdentity, Identity(entry), IF repo = 0 THEN origin ELSE repo}

\* projectClaimMatches, and the comparisons of RemoveProject
Matches(p) == entry = job[p].reg /\ Identity(entry) = job[p].id

\* The transition lock is polled; what it protects is read at once.
TakeTransition(p) ==
    /\ pc[p] = "transition" /\ transition = Nobody
    /\ transition' = p
    /\ Goto(p, "fences")
    /\ job' = [job EXCEPT ![p].wanted =
                  IF @ # {} THEN @ ELSE TransitionIdentities(job[p].repo)]
    /\ job[p].kind = "register" \/ Matches(p)
    /\ UNCHANGED <<data, fences, store, ops>>

Refused(p) ==
    /\ pc[p] = "transition" /\ transition = Nobody
    /\ job[p].kind # "register" /\ ~Matches(p)
    /\ Fail(p)

\* acquireProjectIdentitySet, in sorted order
TakeFence(p) ==
    /\ pc[p] = "fences"
    /\ \E i \in job[p].wanted \ Held(p) :
          /\ \A j \in job[p].wanted \ Held(p) : i <= j
          /\ fences[i] = Nobody
          /\ fences' = [fences EXCEPT ![i] = p]
          /\ Goto(p, IF job[p].wanted \subseteq Held(p) \cup {i} THEN "confirm" ELSE "fences")
    /\ UNCHANGED <<data, transition, store, ops, job>>

\* The context of an operation that waits for a lock may end.
GiveUp(p) == pc[p] \in {"transition", "fences"} /\ Fail(p)

ConfirmedOnce(p) == TRUE        \* mutant: not matched again behind the fences
Confirmed(p) == Matches(p)

\* The transition lock is given back; the fences stay.
Confirm(p) ==
    /\ pc[p] = "confirm" /\ job[p].kind # "register"
    /\ Confirmed(p)
    /\ transition' = Nobody
    /\ Goto(p, IF job[p].kind = "remove" THEN "view" ELSE "inside")
    /\ UNCHANGED <<data, fences, store, ops, job>>

NotConfirmedLeaks(p) ==         \* mutant: the transition lock is not given back
    /\ pc[p] = "confirm" /\ job[p].kind # "register"
    /\ ~Confirmed(p)
    /\ fences' = Unfenced(p)
    /\ Goto(p, "idle")
    /\ job' = [job EXCEPT ![p] = NoJob]
    /\ UNCHANGED <<data, transition, store, ops>>

NotConfirmed(p) ==
    /\ pc[p] = "confirm" /\ job[p].kind # "register"
    /\ ~Confirmed(p)
    /\ Fail(p)

\* RegisterProjectWithIdentity replaces the entry.
Write(p) ==
    /\ pc[p] = "confirm" /\ job[p].kind = "register"
    /\ TransitionIdentities(job[p].repo) = job[p].wanted
    /\ \E stamp \in Stamps : entry' = [repo |-> job[p].repo, stamp |-> stamp]
    /\ End(p)
    /\ UNCHANGED <<origin, workspace, sessions, record>>

\* transitionProjectRegistration starts again.
WriteRetries(p) ==
    /\ pc[p] = "confirm" /\ job[p].kind = "register"
    /\ TransitionIdentities(job[p].repo) # job[p].wanted
    /\ transition' = Nobody
    /\ fences' = Unfenced(p)
    /\ Goto(p, "transition")
    /\ job' = [job EXCEPT ![p].wanted = {}]
    /\ UNCHANGED <<data, store, ops>>

-----------------------------------------------------------------------------
(* Guarded operations. *)

CreateInside(p) ==
    /\ pc[p] = "inside" /\ job[p].kind = "create"
    /\ Fail(p)

\* FileStore.Update holds its lock around the whole import.
ImportLocks(p) ==
    /\ pc[p] = "inside" /\ job[p].kind = "import" /\ store = Nobody
    /\ store' = p
    /\ Goto(p, "import")
    /\ UNCHANGED <<data, transition, fences, ops, job>>

\* The identities the provider says are the project's, after a transfer too.
KnownTo(p) == {{job[p].id}, Repositories}

SameClone(known) == record.aliases \cap known # {}

\* The worktree of an earlier import is reused.
ImportExisting(p) ==
    /\ pc[p] = "import" /\ Recorded
    /\ \E known \in KnownTo(p) :
          /\ SameClone(known)
          /\ record' = [record EXCEPT !.aliases = @ \cup known]
    /\ job' = [job EXCEPT ![p].rec = record']
    /\ store' = Nobody
    /\ Goto(p, "session")
    /\ UNCHANGED <<entry, origin, workspace, sessions, transition, fences, ops>>

\* A record whose worktree is gone is replaced, under a branch of another name.
ImportCreates(p) ==
    /\ pc[p] = "import" /\ workspace = 0
    /\ \E known \in KnownTo(p) :
          /\ record = NoRecord \/ SameClone(known)
          /\ job' = [job EXCEPT ![p].rec = [aliases |-> known, gen |-> job[p].num]]
    /\ workspace' = job[p].num
    /\ Goto(p, "save")
    /\ UNCHANGED <<entry, origin, sessions, record, locks, ops>>

\* The provider, git or the store may refuse.
ImportFails(p) == pc[p] = "import" /\ Fail(p)

Save(p) ==
    /\ pc[p] = "save"
    /\ record' = job[p].rec
    /\ store' = Nobody
    /\ Goto(p, "session")
    /\ UNCHANGED <<entry, origin, workspace, sessions, transition, fences, ops, job>>

SaveFailsUnnoticed(p) ==        \* mutant: the import goes on after a failed save
    /\ pc[p] = "save"
    /\ store' = Nobody
    /\ Goto(p, "session")
    /\ UNCHANGED <<data, transition, fences, ops, job>>

SaveFails(p) ==
    /\ pc[p] = "save"
    /\ store' = Nobody
    /\ Goto(p, "rollback")
    /\ UNCHANGED <<data, transition, fences, ops, job>>

Rollback(p) ==
    /\ pc[p] = "rollback"
    /\ workspace' \in {workspace} \cup (IF workspace = job[p].num THEN {0} ELSE {})
    /\ End(p)
    /\ UNCHANGED <<entry, origin, sessions, record>>

\* The provenance is verified again under the fences.
VerifyAttach(p) ==
    /\ pc[p] = "inside" /\ job[p].kind = "attach" /\ store = Nobody
    /\ Recorded /\ job[p].id \in record.aliases
    /\ job' = [job EXCEPT ![p].rec = record]
    /\ Goto(p, "session")
    /\ UNCHANGED <<data, locks, ops>>

AttachFails(p) ==
    /\ pc[p] = "inside" /\ job[p].kind = "attach" /\ store = Nobody
    /\ ~(Recorded /\ job[p].id \in record.aliases)
    /\ Fail(p)

\* ensurePRWorkspaceSession starts the session or finds it.
StartSession(p) ==
    /\ pc[p] = "session"
    /\ job[p].rec.gen = workspace
    /\ sessions' = sessions \cup {workspace}
    /\ Goto(p, "leave")
    /\ UNCHANGED <<entry, origin, workspace, record, locks, ops, job>>

\* An import need not start one, and starting it may fail.
NoSession(p) == pc[p] = "session" /\ Fail(p)

Leave(p) == pc[p] = "leave" /\ Fail(p)

\* The endpoint's name tells the sessions of different worktrees apart.
Live(rec) == rec.gen \in sessions

PruneProbes(p) ==
    /\ pc[p] = "inside" /\ job[p].kind = "prune"
    /\ ~Live(job[p].rec)
    /\ Goto(p, "ownership")
    /\ UNCHANGED <<data, locks, ops, job>>

\* Live, or the probe cannot tell.
PruneRefused(p) == pc[p] = "inside" /\ job[p].kind = "prune" /\ Fail(p)

\* withPruneMergedOwnershipGuard: the provenance is still the candidate's.
PruneOwns(p) ==
    /\ pc[p] = "ownership" /\ store = Nobody
    /\ record = job[p].rec
    /\ Goto(p, "removal")
    /\ UNCHANGED <<data, locks, ops, job>>

PruneDisowned(p) ==
    /\ pc[p] = "ownership" /\ store = Nobody
    /\ record # job[p].rec
    /\ Fail(p)

PruneRemoves(p) ==
    /\ pc[p] = "removal" /\ workspace = job[p].rec.gen
    /\ workspace' = 0
    /\ Goto(p, "forget")
    /\ UNCHANGED <<entry, origin, sessions, record, locks, ops, job>>

PruneFails(p) == pc[p] = "removal" /\ Fail(p)

\* FileStore.RemoveIfMatch
Forget(p) ==
    /\ pc[p] = "forget" /\ store = Nobody
    /\ record' = IF record = job[p].rec THEN NoRecord ELSE record
    /\ Goto(p, "leave")
    /\ UNCHANGED <<entry, origin, workspace, sessions, locks, ops, job>>

-----------------------------------------------------------------------------
(* RemoveProject, after the transition lock is back. *)

\* loadProtectedEndpoints
AnotherProjects(p) ==           \* mutant: a record of another identity is passed over
    record = NoRecord \/ job[p].id \notin record.aliases
NoEndpoint(p) == record = NoRecord

Disconnected(p) == ~NoEndpoint(p) /\ job[p].id \notin record.aliases

View(p) ==
    /\ pc[p] = "view" /\ store = Nobody
    /\ ~Disconnected(p)
    /\ Goto(p, IF NoEndpoint(p) THEN "swap" ELSE "probe")
    /\ job' = [job EXCEPT ![p].rec = record]
    /\ UNCHANGED <<data, locks, ops>>

\* A record names the path under another identity.
ViewRefused(p) ==
    /\ pc[p] = "view" /\ store = Nobody
    /\ Disconnected(p)
    /\ Fail(p)

ProbeAbsent(p) ==
    /\ pc[p] = "probe" /\ ~Live(job[p].rec)
    /\ Goto(p, "swap")
    /\ UNCHANGED <<data, locks, ops, job>>

\* Live, or the probe cannot tell.
ProbeRefused(p) == pc[p] = "probe" /\ Fail(p)

\* CompareAndSwapProjectAt
Swap(p) ==
    /\ pc[p] = "swap"
    /\ entry' = IF entry = job[p].reg THEN NoEntry ELSE entry
    /\ End(p)
    /\ UNCHANGED <<origin, workspace, sessions, record>>

-----------------------------------------------------------------------------
(* What kwt does not order. *)

SessionEnds ==
    /\ \E gen \in sessions : sessions' = sessions \ {gen}
    /\ UNCHANGED <<entry, origin, workspace, record, locks, ops, pc, job>>

\* git worktree remove, or rm
DeleteWorkspace ==
    /\ workspace # 0
    /\ workspace' = 0
    /\ UNCHANGED <<entry, origin, sessions, record, locks, ops, pc, job>>

\* git remote set-url
Repoint ==
    /\ RepointsAnytime \/ \A i \in Identities : fences[i] = Nobody
    /\ ops < MaxOps /\ ops' = ops + 1
    /\ origin' \in Repositories \ {origin}
    /\ UNCHANGED <<entry, workspace, sessions, record, locks, pc, job>>

Crash(p) == pc[p] # "idle" /\ Fail(p)

-----------------------------------------------------------------------------
Starts(p) ==
    \/ StartCreate(p) \/ StartImport(p) \/ StartRecorded(p)
    \/ StartRemove(p) \/ StartRegister(p)

Step(p) ==
    \/ ObserveRecorded(p) \/ NotExpected(p) \/ TakeTransition(p) \/ Refused(p) \/ TakeFence(p)
    \/ Confirm(p) \/ NotConfirmed(p) \/ Write(p) \/ WriteRetries(p)
    \/ CreateInside(p)
    \/ ImportLocks(p) \/ ImportExisting(p) \/ ImportCreates(p) \/ ImportFails(p)
    \/ Save(p) \/ SaveFails(p) \/ Rollback(p)
    \/ VerifyAttach(p) \/ AttachFails(p) \/ StartSession(p) \/ NoSession(p) \/ Leave(p)
    \/ PruneProbes(p) \/ PruneRefused(p)
    \/ PruneOwns(p) \/ PruneDisowned(p) \/ PruneRemoves(p) \/ PruneFails(p) \/ Forget(p)
    \/ View(p) \/ ViewRefused(p) \/ ProbeAbsent(p) \/ ProbeRefused(p) \/ Swap(p)

Outside == SessionEnds \/ DeleteWorkspace \/ Repoint

Next == Outside \/ \E p \in Procs : Starts(p) \/ Step(p) \/ GiveUp(p) \/ Crash(p)

Spec == Init /\ [][Next]_vars

Fairness == \A p \in Procs : WF_vars(Step(p))

FairSpec == Spec /\ Fairness

-----------------------------------------------------------------------------
\* While an operation runs behind its fences, the registration it was observed
\* under stays the registration of the project, to the last byte of the entry:
\* nothing unregisters or replaces a project under a creation, an import, an
\* attachment or a prune (guardedProjectOperation.run).
ClaimIsCurrent ==
    \A p \in Procs : pc[p] \in Inside => entry = job[p].reg

\* The identity of such a registration is not read from origin.
Named(e) == e = NoEntry \/ e.repo \in Repositories

\* The same, wherever origin is repointed: an entry that names its repository
\* stays under the operation, and one that names none is not replaced either; at
\* most a removal that observed it after origin was repointed takes it away.
NamedClaimIsCurrent ==
    \A p \in Procs : pc[p] \in Inside =>
        \/ entry = job[p].reg
        \/ entry = NoEntry /\ ~Named(job[p].reg)

Authority == INSTANCE ProjectAuthority
    WITH registered <- entry # NoEntry, live <- Live(record)

\* A project is unregistered only while the session its provenance names is
\* not live, and such a session starts only for a registered project, although
\* RemoveProject gives the transition lock back before it reads the provenance
\* and probes, and an import starts its session without looking again.
SessionsAreRegistered == Authority!Spec

\* The same, wherever origin is repointed, of every step that is not one of an
\* operation whose registration names no repository.
NamedSessionsAreRegistered ==
    [][(\A p \in Procs : Step(p) => Named(job[p].reg))
          => [Authority!Next]_<<entry # NoEntry, Live(record)>>]_vars

\* A live session of the present worktree is always the one the provenance
\* names: neither an import that fails or ends half way nor a prune beside it
\* leaves a session of the worktree that RemoveProject cannot find.
EndpointIsKnown ==
    workspace \in sessions => record.gen = workspace

\* Every operation ends: four kinds of lock, taken across each other and given
\* back on every path, never leave a process waiting.
OperationsEnd == \A p \in Procs : []<>(pc[p] = "idle")
=============================================================================
