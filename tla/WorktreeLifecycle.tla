-------------------------- MODULE WorktreeLifecycle --------------------------
(***************************************************************************)
(* The life of the worktree at one path of one repository, shared by every *)
(* kwt process of the machine: creation from a remote branch and from a    *)
(* local base, listing, removal, pruning, the fixes of kwt doctor, and     *)
(* what git itself and the user's file manager do behind kwt's back.       *)
(*                                                                         *)
(* Three stores describe the path and no transaction covers them: the      *)
(* registry file (package registry), git's own registration with kwt's     *)
(* generation marker in it (package worktree), and the files.  Four locks  *)
(* order the processes, always taken in this order:                        *)
(*   creation      AcquireCreation, one per path (see CreationLock)        *)
(*   mutex         Repository.WithLock, one per repository                 *)
(*   registryLock  Registry.mutateChecked, one per registry file           *)
(*   reserver      the reservation of a creation whose hooks may call kwt  *)
(* A registry operation that runs no callback is one step: it reads and    *)
(* writes the file under registryLock.                                     *)
(***************************************************************************)
EXTENDS Naturals

CONSTANTS
    Procs,
    Nobody,
    MaxOps      \* bound: operations started; an operation's number is also
                \* the token, the time and the generation it would draw

ASSUME LifecycleAssumption == Nobody \notin Procs /\ MaxOps \in Nat

VARIABLES
    entry,          \* the registry entry of the path
    wt,             \* git's registration of the path
    files,          \* something exists at the path
    creation,       \* the holder of the path's creation lock
    mutex,          \* the holder of the repository's mutation lock
    registryLock,   \* the process that runs a callback under the registry lock
    reserver,       \* the holder of the creation reservation
    record,         \* the reservation's path file exists
    ops,            \* operations started
    pc,
    job             \* what each process carries between its steps

stores == <<entry, wt, files>>
locks  == <<creation, mutex, registryLock, reserver, record>>
vars   == <<stores, locks, ops, pc, job>>

Numbers == 1..MaxOps
Generations == 0..MaxOps        \* 0: no valid marker

\* WorktreeEntry: at is RegisteredAt, which tells two registrations of a path
\* apart; claimed holds until CreationToken is cleared, and the token is at.
Entries == [at : Numbers, claimed : BOOLEAN, gen : Generations,
            expires : BOOLEAN, unreviewed : BOOLEAN]
NoEntry == [at |-> 0]

\* origin and seen are history: where the content came from, and whether the
\* user has opened it.
Worktrees == [gen : Generations, origin : {"source", "local"}, seen : BOOLEAN]
NoWorktree == [gen |-> 0]

Holders == Procs \cup {Nobody}

\* num: the operation; snap: the entry its registry.New loaded; want: the
\* generation it acts on; prior: what AbortCreation will restore.
NoJob == [num |-> 0, snap |-> NoEntry, want |-> 0, prior |-> NoEntry]

Labels == {"idle",
    "acquire", "recover", "finish", "claim", "enter", "git", "stamp",
    "complete", "abort", "unlock", "undo", "forget", "expire",
    "reserve", "checkout", "hook", "reenter", "yield", "mark", "drop", "release",
    "own", "inspect", "match", "remove",
    "survey", "stale", "recheck", "deregister", "reconcile", "confirm", "adopt"}

TypeOK ==
    /\ entry \in Entries \cup {NoEntry}
    /\ wt \in Worktrees \cup {NoWorktree}
    /\ files \in BOOLEAN
    /\ creation \in Holders /\ mutex \in Holders
    /\ registryLock \in Holders /\ reserver \in Holders
    /\ record \in BOOLEAN
    /\ ops \in 0..MaxOps
    /\ pc \in [Procs -> Labels]
    /\ job \in [Procs -> [num : 0..MaxOps, snap : Entries \cup {NoEntry},
                          want : Generations, prior : Entries \cup {NoEntry}]]

Init ==
    /\ entry = NoEntry /\ wt = NoWorktree /\ files = FALSE
    /\ creation = Nobody /\ mutex = Nobody /\ registryLock = Nobody
    /\ reserver = Nobody /\ record = FALSE
    /\ ops = 0
    /\ pc = [p \in Procs |-> "idle"]
    /\ job = [p \in Procs |-> NoJob]

-----------------------------------------------------------------------------
Goto(p, label) == pc' = [pc EXCEPT ![p] = label]

Done(p) == Goto(p, "idle") /\ job' = [job EXCEPT ![p] = NoJob]

\* Most operations begin with registry.New, which loads the file without a lock.
Start(p, label, loaded, generation) ==
    /\ pc[p] = "idle" /\ ops < MaxOps
    /\ ops' = ops + 1
    /\ job' = [job EXCEPT ![p] = [num |-> ops + 1, snap |-> loaded,
                                  want |-> generation, prior |-> NoEntry]]
    /\ Goto(p, label)
    /\ UNCHANGED <<stores, locks>>

Registered == wt # NoWorktree
IsClaimed(e) == e # NoEntry /\ e.claimed
Ours(p) == IsClaimed(entry) /\ entry.at = job[p].num
Unlocked == registryLock = Nobody

\* rejectCreation: a reservation, whatever path it names, refuses the scope.
Reserved == reserver # Nobody

\* Registry.CompareAndSwap(path, expected, replacement)
Swap(expected, replacement) ==
    Unlocked /\ entry' = IF entry = expected THEN replacement ELSE entry

UnregisterPath(generation) ==       \* mutant: the generation is not compared
    Unlocked /\ entry' = IF entry # NoEntry /\ ~IsClaimed(entry) THEN NoEntry ELSE entry

\* Registry.UnregisterIfGeneration
Unregister(generation) ==
    /\ Unlocked
    /\ entry' = IF entry # NoEntry /\ ~IsClaimed(entry) /\ entry.gen = generation
                THEN NoEntry ELSE entry

\* AcquireCreation never waits: a path that is taken refuses the operation.
AcquireCreation(p, label) ==
    /\ IF creation = Nobody
       THEN creation' = p /\ Goto(p, label) /\ UNCHANGED job
       ELSE Done(p) /\ UNCHANGED creation
    /\ UNCHANGED <<stores, mutex, registryLock, reserver, record, ops>>

\* git worktree add of a new checkout; a path that is taken makes it fail.
GitAdd(origin) ==
    /\ ~Registered /\ ~files
    /\ wt' = [gen |-> 0, origin |-> origin, seen |-> FALSE]
    /\ files' = TRUE

-----------------------------------------------------------------------------
(* Creation from a remote branch: addUnreviewedSource, and the rollback of  *)
(* the dashboard when it rejects what was created.                          *)

StartSource(p) == Start(p, "acquire", entry, 0)

AcquireSource(p) ==
    /\ pc[p] = "acquire"
    /\ AcquireCreation(p, IF IsClaimed(job[p].snap) THEN "recover" ELSE "claim")

\* An abandoned claim whose worktree has a generation only lacked its end; an
\* identity that cannot be read, for whatever reason, is reclaimed instead.
ReadAbandoned(p) ==
    /\ pc[p] = "recover" /\ mutex = Nobody
    /\ \/ /\ wt.gen # 0
          /\ job' = [job EXCEPT ![p].want = wt.gen]
          /\ Goto(p, "finish")
       \/ Goto(p, "claim") /\ UNCHANGED job
    /\ UNCHANGED <<stores, locks, ops>>

\* Registry.CompleteCreation(path, token, generation)
CompleteCreation(token, generation) ==
    /\ Unlocked
    /\ entry' = IF IsClaimed(entry) /\ entry.at = token
                THEN [entry EXCEPT !.claimed = FALSE, !.gen = generation] ELSE entry

FinishAbandoned(p) ==
    /\ pc[p] = "finish"
    /\ CompleteCreation(job[p].snap.at, job[p].want)
    /\ Goto(p, "unlock")
    /\ job' = [job EXCEPT ![p].want = 0]
    /\ UNCHANGED <<wt, files, locks, ops>>

\* ReclaimCreation compares the token of an abandoned claim, CompareAndSwap
\* the whole entry.
Claimable(p) ==
    IF IsClaimed(job[p].snap)
    THEN IsClaimed(entry) /\ entry.at = job[p].snap.at
    ELSE entry = job[p].snap

Claim(p) ==
    /\ pc[p] = "claim" /\ Unlocked
    /\ IF Claimable(p)
       THEN /\ entry' = [at |-> job[p].num, claimed |-> TRUE, gen |-> 0,
                         expires |-> FALSE, unreviewed |-> TRUE]
            /\ Goto(p, "enter")
       ELSE Goto(p, "unlock") /\ UNCHANGED entry
    /\ UNCHANGED <<wt, files, locks, ops, job>>

\* What a failed creation will restore, chosen before AbortCreation is called.
GiveUp(p) ==
    /\ LET before == job[p].snap IN
       job' = [job EXCEPT ![p].prior =
                  CASE ~IsClaimed(before) -> before
                    [] IsClaimed(before) /\ files -> [before EXCEPT !.claimed = FALSE]
                    [] OTHER -> NoEntry]
    /\ Goto(p, "abort")

EnterSource(p) ==
    /\ pc[p] = "enter" /\ mutex = Nobody
    /\ IF Reserved
       THEN GiveUp(p) /\ UNCHANGED <<mutex, record>>
       ELSE /\ mutex' = p /\ record' = FALSE
            /\ Goto(p, "git") /\ UNCHANGED job
    /\ UNCHANGED <<stores, creation, registryLock, reserver, ops>>

AddSource(p) ==
    /\ pc[p] = "git" /\ GitAdd("source")
    /\ Goto(p, "stamp")
    /\ UNCHANGED <<entry, locks, ops, job>>

\* Nothing was created, or Scope.Rollback took it back ...
SourceFails(p) ==
    /\ pc[p] = "git"
    /\ GiveUp(p)
    /\ mutex' = Nobody
    /\ UNCHANGED <<stores, creation, registryLock, reserver, record, ops>>

\* ... or it could not, and the incomplete worktree stays.
SourceRemains(p) ==
    /\ pc[p] = "git" /\ GitAdd("source")
    /\ Goto(p, "complete")
    /\ mutex' = Nobody
    /\ UNCHANGED <<entry, creation, registryLock, reserver, record, ops, job>>

\* Scope.finalize: EnsureIdentity keeps a valid marker, or writes a new one,
\* which may fail.
Identify(p, after) ==
    /\ mutex' = Nobody
    /\ \/ /\ Registered
          /\ wt' = [wt EXCEPT !.gen = IF @ = 0 THEN job[p].num ELSE @]
          /\ job' = [job EXCEPT ![p].want = wt'.gen]
       \/ UNCHANGED <<wt, job>>
    /\ Goto(p, after)
    /\ UNCHANGED <<entry, files, creation, registryLock, reserver, record, ops>>

StampSource(p) == pc[p] = "stamp" /\ Identify(p, "complete")

CompleteSource(p) ==
    /\ pc[p] = "complete"
    /\ CompleteCreation(job[p].num, job[p].want)
    /\ Goto(p, "unlock")
    /\ UNCHANGED <<wt, files, locks, ops, job>>

\* Registry.AbortCreation keeps an acknowledgement made in between.
AbortSource(p) ==
    /\ pc[p] = "abort" /\ Unlocked
    /\ LET prior == job[p].prior IN
       entry' = CASE ~Ours(p) -> entry
                  [] Ours(p) /\ prior = NoEntry -> NoEntry
                  [] OTHER -> [prior EXCEPT !.unreviewed = @ /\ entry.unreviewed]
    /\ Goto(p, "unlock")
    /\ UNCHANGED <<wt, files, locks, ops, job>>

\* The release is the end of an operation, except of a creation that worked:
\* kwt add may set an expiration, the dashboard may reject what it got.
ReleaseCreation(p) ==
    /\ pc[p] = "unlock"
    /\ creation' = IF creation = p THEN Nobody ELSE creation
    /\ \/ Done(p)
       \/ job[p].want = job[p].num /\ Goto(p, "expire") /\ UNCHANGED job
       \/ job[p].want = job[p].num /\ creation = p /\ Goto(p, "undo") /\ UNCHANGED job
    /\ UNCHANGED <<stores, mutex, registryLock, reserver, record, ops>>

\* Rollback in a fresh scope, only of the identity that was created.
UndoSource(p) ==
    /\ pc[p] = "undo" /\ mutex = Nobody
    /\ \/ /\ ~Reserved /\ wt.gen = job[p].want
          /\ wt' = NoWorktree /\ files' = FALSE
          /\ Goto(p, "forget") /\ UNCHANGED job
       \/ Done(p) /\ UNCHANGED <<wt, files>>
    /\ record' = (record /\ Reserved)
    /\ UNCHANGED <<entry, creation, mutex, registryLock, reserver, ops>>

ForgetSource(p) ==
    /\ pc[p] = "forget"
    /\ Unregister(job[p].want)
    /\ Done(p)
    /\ UNCHANGED <<wt, files, locks, ops>>

\* registerWorktreeExpiration: WithIdentity around SetExpirationIfGeneration.
Expire(p) ==
    /\ pc[p] = "expire" /\ mutex = Nobody /\ Unlocked
    /\ LET generation == job[p].want IN
       entry' = IF Reserved \/ wt.gen # generation THEN entry
                ELSE CASE entry = NoEntry ->
                             [at |-> job[p].num, claimed |-> FALSE, gen |-> generation,
                              expires |-> TRUE, unreviewed |-> FALSE]
                       [] entry # NoEntry /\ ~entry.claimed /\ entry.gen = generation ->
                             [entry EXCEPT !.expires = TRUE]
                       [] OTHER -> entry
    /\ record' = (record /\ Reserved)
    /\ Done(p)
    /\ UNCHANGED <<wt, files, creation, mutex, registryLock, reserver, ops>>

-----------------------------------------------------------------------------
(* Creation from a local base: createReentrant.  git runs without the       *)
(* mutex, so that a checkout hook may call kwt; the reservation stands in.  *)

StartLocal(p) == Start(p, "reserve", NoEntry, 0)

ReserveKeepsMutex(p) ==     \* mutant: the reservation is made for the whole creation
    /\ pc[p] = "reserve" /\ mutex = Nobody
    /\ IF Reserved
       THEN Done(p) /\ UNCHANGED <<mutex, reserver, record>>
       ELSE /\ reserver' = p /\ record' = TRUE /\ mutex' = p
            /\ Goto(p, "checkout") /\ UNCHANGED job
    /\ UNCHANGED <<stores, creation, registryLock, ops>>

Reserve(p) ==
    /\ pc[p] = "reserve" /\ mutex = Nobody
    /\ IF Reserved
       THEN Done(p) /\ UNCHANGED <<reserver, record>>
       ELSE /\ reserver' = p /\ record' = TRUE
            /\ Goto(p, "checkout") /\ UNCHANGED job
    /\ UNCHANGED <<stores, creation, mutex, registryLock, ops>>

CheckOut(p) ==
    /\ pc[p] = "checkout" /\ GitAdd("local")
    /\ Goto(p, "hook")
    /\ UNCHANGED <<entry, locks, ops, job>>

\* The checkout hook lists the worktrees, this one excluded, under the mutex.
Hook(p) ==
    /\ pc[p] = "hook" /\ mutex = Nobody
    /\ Goto(p, "reenter")
    /\ UNCHANGED <<stores, locks, ops, job>>

Reenter(p) ==
    /\ pc[p] = "reenter" /\ mutex = Nobody
    /\ mutex' = p
    /\ Goto(p, "yield")
    /\ UNCHANGED <<stores, creation, registryLock, reserver, record, ops, job>>

\* git failed, its hook did, or the wait for the mutex was cancelled: the
\* deferred release runs without the mutex, and in two steps.
CheckOutFails(p) ==
    /\ pc[p] \in {"checkout", "hook", "reenter"}
    /\ Goto(p, "drop")
    /\ UNCHANGED <<stores, locks, ops, job>>

RemoveRecord(p) ==
    /\ pc[p] = "drop"
    /\ record' = FALSE
    /\ Goto(p, "release")
    /\ UNCHANGED <<stores, creation, mutex, registryLock, reserver, ops, job>>

DropReservation(p) ==
    /\ pc[p] = "release"
    /\ reserver' = Nobody
    /\ Done(p)
    /\ UNCHANGED <<stores, creation, mutex, registryLock, record, ops>>

\* creationReservation.release under the mutex
YieldReservation(p) ==
    /\ pc[p] = "yield"
    /\ reserver' = Nobody /\ record' = FALSE
    /\ Goto(p, "mark")
    /\ UNCHANGED <<stores, creation, mutex, registryLock, ops, job>>

StampLocal(p) == pc[p] = "mark" /\ Identify(p, "unlock")

-----------------------------------------------------------------------------
(* Listing, removal and pruning *)

ListWhateverIsReserved(p) ==    \* mutant: the reserved path is listed as well
    /\ pc[p] = "idle" /\ ops < MaxOps /\ mutex = Nobody
    /\ Registered /\ wt.gen = 0
    /\ ops' = ops + 1
    /\ wt' = [wt EXCEPT !.gen = ops']
    /\ UNCHANGED <<entry, files, locks, pc, job>>

\* List under the mutex initializes missing identities; a reservation without
\* its record is an error, one with it hides the path from the listing.
List(p) ==
    /\ pc[p] = "idle" /\ ops < MaxOps /\ mutex = Nobody /\ ~Reserved
    /\ Registered /\ wt.gen = 0
    /\ ops' = ops + 1
    /\ wt' = [wt EXCEPT !.gen = ops']
    /\ record' = FALSE
    /\ UNCHANGED <<entry, files, creation, mutex, registryLock, reserver, pc, job>>

\* RemovalService.Remove acts on a generation the caller has seen ...
StartRemoval(p) == wt.gen # 0 /\ Start(p, "own", entry, wt.gen)

OwnRemoval(p) == pc[p] = "own" /\ AcquireCreation(p, "inspect")

\* ... kwt prune on the generation of an expired entry, without that lock.
StartPrune(p) ==
    /\ entry # NoEntry /\ entry.expires /\ entry.gen # 0 /\ files
    /\ Start(p, "inspect", entry, entry.gen)

\* InspectRemoval
Preflight(p) == ~Reserved /\ wt.gen = job[p].want

InspectRemoval(p) ==
    /\ pc[p] = "inspect" /\ mutex = Nobody
    /\ IF Preflight(p) THEN mutex' = p /\ Goto(p, "match")
                       ELSE Goto(p, "unlock") /\ UNCHANGED mutex
    /\ record' = (record /\ Reserved)
    /\ UNCHANGED <<stores, creation, registryLock, reserver, ops, job>>

MatchGeneration(p) ==       \* mutant: only the generation of the entry is compared
    /\ pc[p] = "match" /\ Unlocked
    /\ IF entry # NoEntry /\ entry.gen = job[p].snap.gen
       THEN registryLock' = p /\ Goto(p, "remove") /\ UNCHANGED mutex
       ELSE mutex' = Nobody /\ Goto(p, "unlock") /\ UNCHANGED registryLock
    /\ UNCHANGED <<stores, creation, reserver, record, ops, job>>

\* Registry.RemoveIfMatchAfter holds the registry lock across the removal.
MatchRemoval(p) ==
    /\ pc[p] = "match" /\ Unlocked
    /\ IF entry = job[p].snap
       THEN registryLock' = p /\ Goto(p, "remove") /\ UNCHANGED mutex
       ELSE mutex' = Nobody /\ Goto(p, "unlock") /\ UNCHANGED registryLock
    /\ UNCHANGED <<stores, creation, reserver, record, ops, job>>

\* The preflight runs again, git removes the worktree and perhaps not all of
\* its files, and the entry goes with it unless the registry cannot be saved.
Remove(p) ==
    /\ pc[p] = "remove"
    /\ \/ /\ Preflight(p)
          /\ wt' = NoWorktree
          /\ files' \in {FALSE, files}
          /\ entry' \in {NoEntry, entry}
       \/ UNCHANGED stores
    /\ registryLock' = Nobody /\ mutex' = Nobody
    /\ Goto(p, "unlock")
    /\ UNCHANGED <<creation, reserver, record, ops, job>>

-----------------------------------------------------------------------------
(* kwt doctor --fix: Fixer.Fix acts on entries and an inventory it read     *)
(* without holding anything.                                               *)

\* registryCreationActive
Active(e) == IsClaimed(e) /\ creation # Nobody

StartDoctor(p) == entry # NoEntry /\ Start(p, "survey", entry, 0)

\* withInactiveCreation: only a provisional entry needs the creation lock.
Fix(p, claimed, free) == Goto(p, IF IsClaimed(job[p].snap) THEN claimed ELSE free)

\* Nothing to fix is the third outcome.
Survey(p) ==
    /\ pc[p] = "survey"
    /\ LET known == job[p].snap IN
       CASE ~Active(known) /\ ~files ->
                Fix(p, "stale", "recheck") /\ UNCHANGED job
         [] ~Active(known) /\ files /\ wt.gen # 0 /\ known.gen = 0 ->
                Fix(p, "reconcile", "confirm") /\ job' = [job EXCEPT ![p].want = wt.gen]
         [] OTHER -> Done(p)
    /\ UNCHANGED <<stores, locks, ops>>

OwnStale(p) == pc[p] = "stale" /\ AcquireCreation(p, "recheck")

RecheckStale(p) ==
    /\ pc[p] = "recheck"
    /\ Goto(p, IF files THEN "unlock" ELSE "deregister")
    /\ UNCHANGED <<stores, locks, ops, job>>

DeregisterPath(p) ==        \* mutant: the path is unregistered whatever its entry became
    /\ pc[p] = "deregister" /\ Unlocked
    /\ entry' = NoEntry
    /\ Goto(p, "unlock")
    /\ UNCHANGED <<wt, files, locks, ops, job>>

Deregister(p) ==
    /\ pc[p] = "deregister"
    /\ LET stale == job[p].snap IN
       IF ~stale.claimed /\ stale.gen # 0 THEN Unregister(stale.gen) ELSE Swap(stale, NoEntry)
    /\ Goto(p, "unlock")
    /\ UNCHANGED <<wt, files, locks, ops, job>>

OwnReconcile(p) == pc[p] = "reconcile" /\ AcquireCreation(p, "confirm")

\* WithIdentity
ConfirmIdentity(p) ==
    /\ pc[p] = "confirm" /\ mutex = Nobody
    /\ IF Preflight(p) /\ files THEN mutex' = p /\ Goto(p, "adopt")
                                 ELSE Goto(p, "unlock") /\ UNCHANGED mutex
    /\ record' = (record /\ Reserved)
    /\ UNCHANGED <<stores, creation, registryLock, reserver, ops, job>>

AdoptGeneration(p) ==
    /\ pc[p] = "adopt"
    /\ LET old == job[p].snap IN
       Swap(old, [old EXCEPT !.claimed = FALSE, !.gen = job[p].want, !.expires = FALSE])
    /\ mutex' = Nobody
    /\ Goto(p, "unlock")
    /\ UNCHANGED <<wt, files, creation, registryLock, reserver, record, ops, job>>

-----------------------------------------------------------------------------
(* The user, and the end of a process *)

\* An explicit open acknowledges by path (acknowledgeRemoteSourcePath).
Acknowledge ==
    /\ Registered /\ files /\ ~wt.seen /\ Unlocked
    /\ wt' = [wt EXCEPT !.seen = TRUE]
    /\ entry' = IF entry = NoEntry THEN entry ELSE [entry EXCEPT !.unreviewed = FALSE]
    /\ UNCHANGED <<files, locks, ops, pc, job>>

DeleteFiles ==
    /\ files
    /\ files' = FALSE
    /\ UNCHANGED <<entry, wt, locks, ops, pc, job>>

\* git worktree prune, run by the user, by git gc, or by Scope.Maintain
PruneMissing ==
    /\ Registered /\ ~files
    /\ wt' = NoWorktree
    /\ UNCHANGED <<entry, files, locks, ops, pc, job>>

\* The operating system gives up the locks; the path file stays.
Crash(p) ==
    /\ pc[p] # "idle"
    /\ LET Freed(holder) == IF holder = p THEN Nobody ELSE holder IN
          /\ creation' = Freed(creation) /\ mutex' = Freed(mutex)
          /\ registryLock' = Freed(registryLock) /\ reserver' = Freed(reserver)
    /\ Done(p)
    /\ UNCHANGED <<stores, record, ops>>

-----------------------------------------------------------------------------
Begin(p) ==
    \/ StartSource(p) \/ StartLocal(p) \/ List(p)
    \/ StartRemoval(p) \/ StartPrune(p) \/ StartDoctor(p)

Step(p) ==
    \/ AcquireSource(p) \/ ReadAbandoned(p) \/ FinishAbandoned(p) \/ Claim(p)
    \/ EnterSource(p) \/ AddSource(p) \/ SourceFails(p) \/ SourceRemains(p)
    \/ StampSource(p) \/ CompleteSource(p) \/ AbortSource(p)
    \/ ReleaseCreation(p) \/ UndoSource(p) \/ ForgetSource(p) \/ Expire(p)
    \/ Reserve(p) \/ CheckOut(p) \/ Hook(p) \/ Reenter(p) \/ CheckOutFails(p)
    \/ RemoveRecord(p) \/ DropReservation(p) \/ YieldReservation(p) \/ StampLocal(p)
    \/ OwnRemoval(p) \/ InspectRemoval(p) \/ MatchRemoval(p) \/ Remove(p)
    \/ Survey(p) \/ OwnStale(p) \/ RecheckStale(p) \/ Deregister(p)
    \/ OwnReconcile(p) \/ ConfirmIdentity(p) \/ AdoptGeneration(p)

Outside == Acknowledge \/ DeleteFiles \/ PruneMissing

Next == Outside \/ \E p \in Procs : Begin(p) \/ Step(p) \/ Crash(p)

Spec == Init /\ [][Next]_vars

\* A process keeps running until its operation is done: locks are polled or
\* tried, and git is given an end.
Fairness == \A p \in Procs : WF_vars(Step(p))

FairSpec == Spec /\ Fairness

-----------------------------------------------------------------------------
Unopened == Registered /\ files /\ wt.origin = "source" /\ ~wt.seen

Flagged == entry # NoEntry /\ entry.unreviewed

\* A checkout of remote content that the user has not opened is marked as
\* unreviewed: what Registry.IsUnreviewedRemoteSource says it reports.
UnreviewedIsFlagged == Unopened => Flagged

\* Once marked, such a checkout stays marked until it is opened or gone,
\* whatever fails, ends, is rolled back or cleaned up; a creation that fails
\* over it puts back what it found.
FlagIsKept ==
    [][Unopened /\ Flagged /\ Unopened'
        => Flagged' \/ \E p \in Procs : Ours(p) /\ entry' = job[p].prior]_vars

\* From its claim to its end a creation owns the entry of its path: no fix,
\* removal, rollback or other creation takes, ends or drops the claim.
ClaimIsKept ==
    \A p \in Procs :
        pc[p] \in {"enter", "git", "stamp", "complete", "abort"} => Ours(p)

\* What a removal takes away is the worktree its caller selected, while the
\* registry still holds the entry the caller loaded: nothing registered,
\* expired, reviewed or claimed in between goes with it.
RemovalIsFenced ==
    [][\A p \in Procs :
        pc[p] = "remove" /\ Registered /\ ~Registered'
            => wt.gen = job[p].want /\ entry = job[p].snap]_vars

\* While a local creation runs git without the mutex, and until its worktree
\* has an identity, no other process of kwt gives it one or takes it away; and
\* no worktree goes between its creation and its registration.
CreationIsLeftAlone ==
    [][\A p \in Procs :
        LET checkingOut == pc[p] \in {"checkout", "hook", "reenter", "yield", "mark"} IN
        (checkingOut \/ pc[p] = "complete") /\ pc'[p] = pc[p] =>
            /\ Registered /\ files => Registered'
            /\ checkingOut /\ Registered' => wt'.gen = wt.gen]_vars

\* What one creation has made is safe from all others: its mark and itself.
CreatedIsProtected == FlagIsKept /\ CreationIsLeftAlone

\* Whoever waits for whom, and whatever hook calls kwt back, every operation
\* ends.
OperationsEnd == \A p \in Procs : []<>(pc[p] = "idle")
=============================================================================
