------------------------------ MODULE WarmSpare ------------------------------
(***************************************************************************)
(* A spare checkout an application keeps at one path, and the other users  *)
(* of that path: PrepareWarm and ClaimWarm (worktree/warm.go), Recover     *)
(* (recovery.go), PruneRegistration (registration_cleanup.go) and          *)
(* Quarantine (quarantine.go).                                             *)
(*                                                                         *)
(* PrepareWarm holds the pool lock throughout, and the repository lock     *)
(* only around the two ends of its work: `git reset --hard` runs in        *)
(* between, protected by nothing but the native lock of the registration.  *)
(* ClaimWarm, Recover and PruneRegistration hold the repository lock and   *)
(* never the pool lock.  Quarantine holds neither.  A process may die      *)
(* between any two steps, and Git and people take no lock of kwt.          *)
(*                                                                         *)
(* A registration is Git's administrative directory of the path (its HEAD, *)
(* its index, its native lock, the marker and the identity file); a tree   *)
(* is the directory at the path.  Both are told apart by a number, as      *)
(* pathKey of the metadata and os.SameFile do.                             *)
(***************************************************************************)
EXTENDS Naturals, FiniteSets

CONSTANTS
    Warmers, Claimers, Recoverers, Pruners, Movers,   \* the processes, by what they run
    Nobody,
    MaxMade,        \* registrations and directories ever made
    MaxTouches,     \* acts of people and of native Git
    MaxCrashes

Workers == Warmers \cup Claimers \cup Recoverers \cup Pruners \cup Movers

VARIABLES
    reg,        \* the registration of the path, or NoReg
    tree,       \* the directory at the path, or NoTree
    pool,       \* who holds the pool lock
    repo,       \* who holds the repository lock
    pc,
    held,       \* what each process remembers: metadata, or the directory it made
    claims,     \* the checkouts ClaimWarm handed out
    trail,      \* who made or moved which registration and directory
    destroyed,  \* what kwt deleted: the registration and the tree as they were
    made, touches, crashes

vars == <<reg, tree, pool, repo, pc, held, claims, trail, destroyed,
          made, touches, crashes>>

Registration(id, lock, attached) ==
    [id |-> id, lock |-> lock, marker |-> "none", identity |-> FALSE,
     attached |-> attached, indexLock |-> FALSE]

NoReg == Registration(0, "none", FALSE)
NoTree == [id |-> 0, files |-> "missing"]

\* A tree is "bare" right after --no-checkout, "partial" while Git fills it,
\* "full", or "edited" by somebody since; a "stray" one has no .git file.
Filled == {"bare", "partial", "full", "edited"}

TypeOK ==
    /\ reg = NoReg \/ reg \in
        [id : 1..MaxMade, lock : {"none", "own", "other"}, marker : {"none", "preparing", "ready"},
         identity : BOOLEAN, attached : BOOLEAN, indexLock : BOOLEAN]
    /\ tree = NoTree \/ tree \in [id : 1..MaxMade, files : Filled \cup {"stray"}]
    /\ {pool, repo} \subseteq Workers \cup {Nobody}
    /\ pc \in [Workers -> {"idle", "inspect", "create", "mark", "lock", "queue", "reset", "filling",
                         "recheck", "ready", "check", "checkout", "move", "discard", "mkdir",
                         "link", "fill", "rename", "prune"}]
    /\ held \in [Workers -> 0..MaxMade]
    /\ made \in 0..MaxMade

\* Nothing is at the path, or an application's workspace, or another person's
\* worktree is registered there: the directory of either is gone for now.
Init ==
    /\ reg \in {NoReg, [Registration(1, "none", TRUE) EXCEPT !.identity = TRUE],
                Registration(1, "none", FALSE)}
    /\ made = reg.id
    /\ tree = NoTree
    /\ pool = Nobody /\ repo = Nobody
    /\ pc = [p \in Workers |-> "idle"]
    /\ held = [p \in Workers |-> 0]
    /\ claims = {} /\ trail = {} /\ destroyed = {}
    /\ touches = 0 /\ crashes = 0

-----------------------------------------------------------------------------
(* What the code reads.                                                    *)

\* ObserveRegistration's Live: the checkout and the registration name each other.
live == reg # NoReg /\ tree.files \in Filled

\* spareState: the evidence that a registration is a spare, "" when it is not.
spareState(r) ==
    IF r.identity \/ r.attached THEN ""
    ELSE IF r.marker # "none" THEN r.marker
    ELSE IF r.lock = "own" THEN "preparing" ELSE ""

\* warmState: the same for the checkout at the path, which must link back.
warmState ==
    IF live THEN spareState(reg) ELSE ""

\* A faulty form of requireStaleSpare: without the evidence of a spare.
NotLockedByOthers(r) == r.lock # "other"

\* requireStaleSpare: what permits discarding the registration of a missing checkout.
requireStaleSpare(r) == r.lock # "other" /\ spareState(r) # ""

\* git status --porcelain --untracked-files=all --ignored prints nothing.
clean == tree.files = "full"

\* No index.lock makes a Git command that writes the index fail.
indexFree == ~reg.indexLock

Goto(p, l) == pc' = [pc EXCEPT ![p] = l]

\* A process that ends gives its locks back, and so does one that dies.
Release(p) ==
    /\ pool' = IF pool = p THEN Nobody ELSE pool
    /\ repo' = IF repo = p THEN Nobody ELSE repo

End(p) == Release(p) /\ Goto(p, "idle") /\ held' = [held EXCEPT ![p] = 0]

-----------------------------------------------------------------------------
(* PrepareWarm.                                                            *)

PrepareWarm(p) ==
    /\ pc[p] = "idle" /\ pool = Nobody
    /\ pool' = p
    /\ Goto(p, "inspect")
    /\ UNCHANGED <<reg, tree, repo, held, claims, trail, destroyed, made, touches, crashes>>

\* The first scope.  A checkout in any state but "preparing" is left alone, and
\* so is one under another owner's lock; a dead preparation's index.lock goes.
InspectSpare(p) ==
    /\ pc[p] = "inspect" /\ repo = Nobody
    /\ IF tree # NoTree
       THEN IF warmState = "preparing" /\ reg.lock # "other"
            THEN /\ reg' = [reg EXCEPT !.indexLock = FALSE]
                 /\ held' = [held EXCEPT ![p] = reg.id]
                 /\ repo' = p /\ UNCHANGED pool
                 /\ Goto(p, "mark")
                 /\ UNCHANGED destroyed
            ELSE /\ End(p)
                 /\ UNCHANGED <<reg, destroyed>>
       ELSE IF reg # NoReg /\ ~requireStaleSpare(reg)
            THEN End(p) /\ UNCHANGED <<reg, destroyed>>
            ELSE /\ destroyed' = IF reg = NoReg THEN destroyed
                                 ELSE destroyed \cup {<<"remove", reg, NoTree>>}
                 /\ reg' = NoReg
                 /\ repo' = p /\ UNCHANGED <<pool, held>>
                 /\ Goto(p, "create")
    /\ UNCHANGED <<tree, claims, trail, made, touches, crashes>>

\* Create with NoCheckout and LockReason: the registration carries its lock
\* from the start, so that one a crash interrupts is recognised by it.
CreateSpare(p) ==
    /\ pc[p] = "create"
    /\ IF reg = NoReg /\ tree = NoTree /\ made < MaxMade
       THEN /\ made' = made + 1
            /\ reg' = Registration(made', "own", FALSE)
            /\ tree' = [id |-> made', files |-> "bare"]
            /\ trail' = trail \cup {<<"spare", made'>>}
            /\ held' = [held EXCEPT ![p] = made']
            /\ UNCHANGED <<pool, repo>>
            /\ Goto(p, "mark")
       ELSE End(p) /\ UNCHANGED <<reg, tree, trail, made>>
    /\ UNCHANGED <<claims, destroyed, touches, crashes>>

MarkPreparing(p) ==
    /\ pc[p] = "mark"
    /\ IF reg.id = held[p]
       THEN /\ reg' = [reg EXCEPT !.marker = "preparing"]
            /\ Goto(p, "lock")
            /\ UNCHANGED <<pool, repo, held>>
       ELSE End(p) /\ UNCHANGED reg
    /\ UNCHANGED <<tree, claims, trail, destroyed, made, touches, crashes>>

\* git worktree lock, unless the spare still holds its own.
LockSpare(p) ==
    /\ pc[p] = "lock"
    /\ IF reg.id = held[p] /\ reg.lock # "other"
       THEN /\ reg' = [reg EXCEPT !.lock = "own"]
            /\ repo' = Nobody
            /\ Goto(p, "reset")
            /\ UNCHANGED <<pool, held>>
       ELSE End(p) /\ UNCHANGED reg
    /\ UNCHANGED <<tree, claims, trail, destroyed, made, touches, crashes>>

\* git reset --hard takes index.lock and rewrites the files: it may stop half way.
StartReset(p) ==
    /\ pc[p] = "reset"
    /\ IF live /\ indexFree
       THEN /\ reg' = [reg EXCEPT !.indexLock = TRUE]
            /\ tree' = [tree EXCEPT !.files = "partial"]
            /\ Goto(p, "filling")
            /\ UNCHANGED <<pool, repo, held>>
       ELSE End(p) /\ UNCHANGED <<reg, tree>>
    /\ UNCHANGED <<claims, trail, destroyed, made, touches, crashes>>

FinishReset(p) ==
    /\ pc[p] = "filling"
    /\ IF live
       THEN /\ \/ tree' = [tree EXCEPT !.files = "full"] /\ Goto(p, "recheck")
                  /\ UNCHANGED <<pool, repo, held>>
               \/ End(p) /\ UNCHANGED tree
            /\ reg' = [reg EXCEPT !.indexLock = FALSE]
       ELSE End(p) /\ UNCHANGED <<reg, tree>>
    /\ UNCHANGED <<claims, trail, destroyed, made, touches, crashes>>

\* The second scope: the same registration must still be preparing under its own lock.
UnlockSpare(p) ==
    /\ pc[p] = "recheck" /\ repo = Nobody
    /\ IF warmState = "preparing" /\ reg.id = held[p] /\ reg.lock = "own"
       THEN /\ reg' = [reg EXCEPT !.lock = "none"]
            /\ repo' = p
            /\ Goto(p, "ready")
            /\ UNCHANGED <<pool, held>>
       ELSE End(p) /\ UNCHANGED reg
    /\ UNCHANGED <<tree, claims, trail, destroyed, made, touches, crashes>>

MarkReady(p) ==
    /\ pc[p] = "ready"
    /\ IF reg.id = held[p]
       THEN reg' = [reg EXCEPT !.marker = "ready"] /\ End(p)
       ELSE UNCHANGED reg /\ End(p)
    /\ UNCHANGED <<tree, claims, trail, destroyed, made, touches, crashes>>

-----------------------------------------------------------------------------
(* ClaimWarm.                                                              *)

\* Anything but a ready, unlocked and clean spare is a cache miss.
ClaimWarm(p) ==
    /\ pc[p] = "idle" /\ repo = Nobody
    /\ warmState = "ready" /\ reg.lock = "none" /\ clean
    /\ repo' = p /\ UNCHANGED pool
    /\ held' = [held EXCEPT ![p] = reg.id]
    /\ Goto(p, "checkout") \/ Goto(p, "move")
    /\ UNCHANGED <<reg, tree, claims, trail, destroyed, made, touches, crashes>>

\* git checkout of a branch or --detach of a revision; it may fail.
CheckoutClaim(p) ==
    /\ pc[p] = "checkout"
    /\ \/ /\ live /\ indexFree
          /\ \E branch \in BOOLEAN : reg' = [reg EXCEPT !.attached = branch]
          /\ Goto(p, "move")
       \/ Goto(p, "discard") /\ UNCHANGED reg
    /\ UNCHANGED <<tree, pool, repo, held, claims, trail, destroyed, made, touches, crashes>>

\* MoveWorktreeOnDisk: moved; or refused with the spare at its own path, which
\* is discarded; or refused before anything, and the spare is detached again.
MoveClaim(p) ==
    /\ pc[p] = "move"
    /\ \/ /\ live /\ reg.lock = "none"
          /\ claims' = claims \cup {[tree |-> tree, by |-> p]}
          /\ reg' = NoReg /\ tree' = NoTree
          /\ End(p)
       \/ /\ Goto(p, "discard")
          /\ UNCHANGED <<reg, tree, pool, repo, held, claims>>
       \/ /\ reg' = IF reg.id = held[p] THEN [reg EXCEPT !.attached = FALSE] ELSE reg
          /\ End(p)
          /\ UNCHANGED <<tree, claims>>
    /\ UNCHANGED <<trail, destroyed, made, touches, crashes>>

\* discardWarmCheckout: a forced removal, which Git refuses for a locked worktree.
DiscardClaim(p) ==
    /\ pc[p] = "discard"
    /\ IF live /\ reg.lock = "none"
       THEN /\ destroyed' = destroyed \cup {<<"discard", reg, tree>>}
            /\ reg' = NoReg /\ tree' = NoTree
       ELSE UNCHANGED <<reg, tree, destroyed>>
    /\ End(p)
    /\ UNCHANGED <<claims, trail, made, touches, crashes>>

-----------------------------------------------------------------------------
(* Recover, for the workspace an application keeps at the path.            *)

\* The caller names a workspace it owns, so never a spare that is still PrepareWarm's.
CallersOwn == reg # NoReg /\ (reg.identity \/ <<"spare", reg.id>> \notin trail)

\* Start to rebuild the missing directory of a registration.
Recover(p) ==
    /\ pc[p] = "idle" /\ repo = Nobody
    /\ CallersOwn
    /\ tree = NoTree          \* what is there is adopted as it is, or refused
    /\ repo' = p /\ Goto(p, "mkdir") /\ UNCHANGED <<pool, held>>
    /\ UNCHANGED <<reg, tree, claims, trail, destroyed, made, touches, crashes>>

MakeDirectory(p) ==
    /\ pc[p] = "mkdir"
    /\ IF tree = NoTree /\ made < MaxMade
       THEN /\ made' = made + 1
            /\ tree' = [id |-> made', files |-> "stray"]
            /\ trail' = trail \cup {<<"made", made'>>}
            /\ held' = [held EXCEPT ![p] = made']
            /\ Goto(p, "link")
            /\ UNCHANGED <<pool, repo>>
       ELSE End(p) /\ UNCHANGED <<tree, trail, made>>
    /\ UNCHANGED <<reg, claims, destroyed, touches, crashes>>

\* A failure removes the directory, if it is still the one this attempt made.
GiveUp(p) ==
    /\ IF tree.id = held[p]
       THEN /\ destroyed' = destroyed \cup {<<"undo", reg, tree>>}
            /\ tree' = NoTree
       ELSE UNCHANGED <<tree, destroyed>>
    /\ End(p)

\* .git is written where the directory was made, whatever is there by now.
WriteBacklink(p) ==
    /\ pc[p] = "link"
    /\ \/ /\ tree.files = "stray"
          /\ tree' = [tree EXCEPT !.files = "bare"]
          /\ Goto(p, "fill")
          /\ UNCHANGED <<pool, repo, held, destroyed>>
       \/ GiveUp(p)
    /\ UNCHANGED <<reg, claims, trail, made, touches, crashes>>

\* git checkout-index --all, and EnsureIdentity.
RestoreFiles(p) ==
    /\ pc[p] = "fill"
    /\ \/ /\ live /\ indexFree
          /\ tree' = [tree EXCEPT !.files = "full"]
          /\ reg' = [reg EXCEPT !.identity = TRUE]
          /\ End(p)
          /\ UNCHANGED destroyed
       \/ GiveUp(p) /\ UNCHANGED reg
    /\ UNCHANGED <<claims, trail, made, touches, crashes>>

-----------------------------------------------------------------------------
(* PruneRegistration and Quarantine.                                       *)

\* Nothing is pruned that a checkout links to or that is natively locked.
PruneRegistration(p) ==
    /\ pc[p] = "idle" /\ repo = Nobody
    /\ repo' = p /\ UNCHANGED pool
    /\ Goto(p, "prune")
    /\ UNCHANGED <<reg, tree, held, claims, trail, destroyed, made, touches, crashes>>

PruneStale(p) ==
    /\ pc[p] = "prune"
    /\ IF reg # NoReg /\ ~live /\ reg.lock = "none"
       THEN reg' = NoReg /\ End(p)
       ELSE UNCHANGED reg /\ End(p)
    /\ UNCHANGED <<tree, claims, trail, destroyed, made, touches, crashes>>

\* Quarantine looks whether the path is a checkout of its own ...
Quarantine(p) ==
    /\ pc[p] = "idle"
    /\ tree # NoTree
    /\ ~live
    /\ Goto(p, "rename")
    /\ UNCHANGED <<reg, tree, pool, repo, held, claims, trail, destroyed, made, touches, crashes>>

\* ... and moves it away, with no lock that kept it from becoming one.
RenameAway(p) ==
    /\ pc[p] = "rename"
    /\ IF tree # NoTree
       THEN /\ trail' = trail \cup {<<"quarantined", tree.id>>}
            /\ tree' = NoTree
       ELSE UNCHANGED <<tree, trail>>
    /\ Goto(p, "idle")
    /\ UNCHANGED <<reg, pool, repo, held, claims, destroyed, made, touches, crashes>>

-----------------------------------------------------------------------------
(* People, native Git, and death.                                          *)

Touch == touches < MaxTouches /\ touches' = touches + 1
Others == UNCHANGED <<pool, repo, pc, held, claims, trail, destroyed, crashes>>

EditFiles ==
    /\ Touch
    /\ live /\ tree.files = "full"
    /\ tree' = [tree EXCEPT !.files = "edited"]
    /\ UNCHANGED <<reg, made>> /\ Others

DeleteTree ==
    /\ Touch
    /\ tree # NoTree /\ tree' = NoTree
    /\ UNCHANGED <<reg, made>> /\ Others

\* Somebody's own directory takes the path.
PutDirectory ==
    /\ Touch
    /\ tree = NoTree /\ made < MaxMade
    /\ made' = made + 1
    /\ tree' = [id |-> made', files |-> "stray"]
    /\ UNCHANGED reg /\ Others

\* git worktree lock with a reason of one's own, git switch, and the identity
\* an application writes.
TakeRegistration ==
    /\ Touch
    /\ reg # NoReg
    /\ \/ reg.lock = "none" /\ reg' = [reg EXCEPT !.lock = "other"]
       \/ live /\ indexFree /\ ~reg.attached /\ reg' = [reg EXCEPT !.attached = TRUE]
       \/ ~reg.identity /\ repo = Nobody /\ reg' = [reg EXCEPT !.identity = TRUE]
    /\ UNCHANGED <<tree, made>> /\ Others

\* git worktree remove and prune, of this program or any other: an unlocked
\* worktree without changes, or one whose directory is gone.
NativeRemove ==
    /\ Touch
    /\ reg # NoReg /\ reg.lock = "none"
    /\ ~live \/ clean
    /\ reg' = NoReg
    /\ tree' = IF live THEN NoTree ELSE tree
    /\ UNCHANGED made /\ Others

\* A process is killed; Git's index.lock stays where its child was working.
Crash ==
    /\ crashes < MaxCrashes /\ crashes' = crashes + 1
    /\ \E p \in Workers :
          /\ pc[p] # "idle"
          /\ End(p)
    /\ UNCHANGED <<reg, tree, claims, trail, destroyed, made, touches>>

Next ==
    \/ \E p \in Warmers :
          \/ PrepareWarm(p) \/ InspectSpare(p) \/ CreateSpare(p) \/ MarkPreparing(p)
          \/ LockSpare(p) \/ StartReset(p) \/ FinishReset(p) \/ UnlockSpare(p)
          \/ MarkReady(p)
    \/ \E p \in Claimers :
          ClaimWarm(p) \/ CheckoutClaim(p) \/ MoveClaim(p) \/ DiscardClaim(p)
    \/ \E p \in Recoverers :
          Recover(p) \/ MakeDirectory(p) \/ WriteBacklink(p) \/ RestoreFiles(p)
    \/ \E p \in Pruners : PruneRegistration(p) \/ PruneStale(p)
    \/ \E p \in Movers : Quarantine(p) \/ RenameAway(p)
    \/ EditFiles \/ DeleteTree \/ PutDirectory \/ TakeRegistration \/ NativeRemove
    \/ Crash

Spec == Init /\ [][Next]_vars

-----------------------------------------------------------------------------
(* What the path's users may rely on.                                      *)

\* While git reset runs without the repository lock, the native lock keeps the
\* spare where it is: no claim, removal or pruning reaches it.  What people do
\* to the files themselves (touches) is not the code's to prevent.
ResetIsUndisturbed ==
    \A p \in Warmers : pc[p] \in {"reset", "filling", "recheck"} =>
        /\ reg # NoReg /\ reg.id = held[p] /\ reg.lock = "own"
        /\ \A q \in Workers \ {p} :
              pc[q] \notin {"create", "mark", "lock", "reset", "filling", "recheck", "ready",
                           "checkout", "move", "discard"}

\* A claim hands out a whole checkout, whatever crashed while it was prepared.
ClaimsAreComplete == \A c \in claims : c.tree.files \in {"full", "edited"}

\* What somebody else has taken is not swept away: neither a registration
\* PrepareWarm did not make, or that got an identity, a branch or another lock
\* since, nor a directory Recover did not make.
OthersAreSpared ==
    \A d \in destroyed :
        /\ d[1] \in {"remove", "discard"} => <<"spare", d[2].id>> \in trail
        /\ d[1] = "remove" => ~d[2].identity /\ ~d[2].attached /\ d[2].lock # "other"
        /\ d[1] = "undo" => <<"made", d[3].id>> \in trail

\* With nobody but kwt at the path, a spare that was begun can be claimed or
\* taken up by the next preparation, wherever the ones before were cut short.
InterruptedSparesAreUsable ==
    touches = 0 /\ <<"spare", reg.id>> \in trail /\ pool = Nobody /\ repo = Nobody
        /\ ~reg.attached =>
    \/ warmState = "ready" /\ reg.lock = "none" /\ clean /\ indexFree
    \/ warmState = "preparing" /\ reg.lock # "other"
    \/ tree = NoTree /\ requireStaleSpare(reg)

SparesAreSafe ==
    ResetIsUndisturbed /\ ClaimsAreComplete /\ OthersAreSpared /\ InterruptedSparesAreUsable

-----------------------------------------------------------------------------
(* What makes SparesAreSafe inductive.                                       *)

IsSpare == <<"spare", reg.id>> \in trail

\* Numbers are handed out once, and only preparations mark a registration.
Numbered ==
    /\ trail \subseteq {"spare", "made", "quarantined"} \X (1..made)
    /\ reg.id <= made /\ tree.id <= made
    /\ reg.marker # "none" \/ reg.lock = "own" => IsSpare

Preparing == {"inspect", "create", "mark", "lock", "reset", "filling", "recheck", "ready"}
InScope == {"create", "mark", "lock", "ready", "checkout", "move", "discard", "mkdir", "link",
            "fill", "prune"}
Unscoped == {"reset", "filling", "recheck"}
OfClaim == {"checkout", "move", "discard"}

\* What a process knows where it is: the locks it has, and what it remembers.
Knows(p) ==
    /\ pc[p] \in Preparing => pool = p
    /\ pc[p] \in InScope => repo = p
    /\ pc[p] \in Preparing \ {"inspect", "create"} => <<"spare", held[p]>> \in trail
    /\ pc[p] = "mark" /\ reg.id = held[p] => reg.marker # "ready"
    /\ pc[p] \in Preparing \ {"inspect", "create", "mark"} /\ reg.id = held[p] => reg.marker = "preparing"
    /\ pc[p] \in Unscoped => reg.id = held[p] /\ reg.lock = "own"
    /\ pc[p] \in OfClaim => /\ \A q \in Workers : pc[q] \notin Unscoped
                            /\ tree.files \notin {"bare", "partial"}
                            /\ reg = NoReg \/ IsSpare
                            /\ held[p] # 0
    /\ pc[p] \in {"link", "fill"} => <<"made", held[p]>> \in trail

\* As long as nobody but kwt touches the path, a spare is as its marker says, and a
\* recovery is of something else.
SpareIsUsable ==
    IsSpare => /\ ~reg.identity /\ reg.lock # "other"
               /\ reg.marker # "none" \/ reg.lock = "own"
               /\ tree = NoTree \/ tree.files \in Filled
               /\ reg.marker = "ready" => /\ reg.lock = "none" /\ ~reg.indexLock
                                          /\ tree = NoTree \/ tree.files = "full"

Calm(p) ==
    /\ pc[p] \in {"recheck", "ready"} => ~reg.indexLock /\ (tree = NoTree \/ tree.files = "full")
    /\ pc[p] = "ready" => reg.lock = "none"
    /\ pc[p] \in {"mkdir", "link", "fill"} => ~IsSpare

WarmInv ==
    /\ TypeOK /\ Numbered /\ ClaimsAreComplete /\ OthersAreSpared /\ touches \in Nat
    /\ \A p \in Workers : Knows(p)
    /\ touches = 0 => SpareIsUsable /\ \A p \in Workers : Calm(p)
=============================================================================
