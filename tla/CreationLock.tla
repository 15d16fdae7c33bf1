---------------------------- MODULE CreationLock ----------------------------
(***************************************************************************)
(* The lock file of one worktree path (internal/registry/registry.go):     *)
(* AcquireCreation and its release, and the callers that only look,        *)
(* CreationActive and CleanupCreationLocks, which acquire and release.     *)
(*                                                                         *)
(* flock locks an inode, but release unlinks the name before it unlocks.   *)
(* A process can thus hold the lock of a file nobody else will ever open,  *)
(* which is why acquireCreationLock compares the inode it locked with the  *)
(* one the path names, and starts again when they differ.                  *)
(***************************************************************************)
EXTENDS Naturals

CONSTANTS
    Procs,
    Nobody,
    Inodes,         \* inode numbers; a number is reused once nothing refers to it
    MaxAttempts,    \* acquireCreationLock's maxAttempts
    Unlinks         \* runtime.GOOS != "windows": release removes the file

ASSUME LockAssumption ==
    /\ Nobody \notin Procs \cup Inodes
    /\ MaxAttempts \in Nat \ {0}
    /\ Unlinks \in BOOLEAN

VARIABLES
    file,       \* the inode lockPath names, or Nobody
    fd,         \* the inode each process has open, or Nobody
    flock,      \* the process that holds the lock of each inode, or Nobody
    pc,
    attempt     \* turn of the loop in acquireCreationLock

vars == <<file, fd, flock, pc, attempt>>

Idle == {"idle", "refused", "failed"}

TypeOK ==
    /\ file \in Inodes \cup {Nobody}
    /\ fd \in [Procs -> Inodes \cup {Nobody}]
    /\ flock \in [Inodes -> Procs \cup {Nobody}]
    /\ pc \in [Procs -> Idle \cup {"open", "locked", "retry", "owner", "unlinked"}]
    /\ attempt \in [Procs -> 0..MaxAttempts]

Init ==
    /\ file \in Inodes \cup {Nobody}       \* an older process may have left one
    /\ fd = [p \in Procs |-> Nobody]
    /\ flock = [i \in Inodes |-> Nobody]
    /\ pc = [p \in Procs |-> "idle"]
    /\ attempt = [p \in Procs |-> 0]

Unused(i) == i # file /\ \A p \in Procs : fd[p] # i

\* Closing a descriptor gives up its lock.
Close(p) ==
    /\ fd' = [fd EXCEPT ![p] = Nobody]
    /\ flock' = [i \in Inodes |-> IF flock[i] = p THEN Nobody ELSE flock[i]]

\* lock.TryLock opens lockPath, and creates it when it is missing ...
Open(p) ==
    /\ \E i \in Inodes :
          /\ IF file = Nobody THEN Unused(i) ELSE i = file
          /\ file' = i
          /\ fd' = [fd EXCEPT ![p] = i]
    /\ pc' = [pc EXCEPT ![p] = "open"]
    /\ UNCHANGED flock

Acquire(p) ==
    /\ pc[p] \in Idle
    /\ attempt' = [attempt EXCEPT ![p] = 1]
    /\ Open(p)

\* ... and then tries the lock of what it opened.
TryLock(p) ==
    /\ pc[p] = "open"
    /\ IF flock[fd[p]] = Nobody
       THEN /\ flock' = [flock EXCEPT ![fd[p]] = p]
            /\ pc' = [pc EXCEPT ![p] = "locked"]
            /\ UNCHANGED fd
       ELSE /\ Close(p)
            /\ pc' = [pc EXCEPT ![p] = "refused"]
    /\ UNCHANGED <<file, attempt>>

PathExists(p) == file # Nobody          \* mutant: the name exists, no inode is compared

Matches(p) == file = fd[p]

\* creationLockMatchesPath
Check(p) ==
    /\ pc[p] = "locked" /\ Matches(p)
    /\ pc' = [pc EXCEPT ![p] = "owner"]
    /\ UNCHANGED <<file, fd, flock, attempt>>

MismatchRemoves(p) ==       \* mutant: the file that is in the way is removed
    /\ pc[p] = "locked" /\ ~Matches(p)
    /\ Close(p)
    /\ file' = Nobody
    /\ pc' = [pc EXCEPT ![p] = IF attempt[p] < MaxAttempts THEN "retry" ELSE "failed"]
    /\ UNCHANGED attempt

\* The file was replaced meanwhile: unlock, then try again or give up.
Mismatch(p) ==
    /\ pc[p] = "locked" /\ ~Matches(p)
    /\ Close(p)
    /\ pc' = [pc EXCEPT ![p] = IF attempt[p] < MaxAttempts THEN "retry" ELSE "failed"]
    /\ UNCHANGED <<file, attempt>>

Retry(p) ==
    /\ pc[p] = "retry"
    /\ attempt' = [attempt EXCEPT ![p] = @ + 1]
    /\ Open(p)

\* releaseCreationLock removes the name, which may fail, ...
Unlink(p) ==
    /\ pc[p] = "owner"
    /\ file' \in IF Unlinks THEN {Nobody, file} ELSE {file}
    /\ pc' = [pc EXCEPT ![p] = "unlinked"]
    /\ UNCHANGED <<fd, flock, attempt>>

\* ... and unlocks in either case.
Unlock(p) ==
    /\ pc[p] = "unlinked"
    /\ Close(p)
    /\ pc' = [pc EXCEPT ![p] = "idle"]
    /\ UNCHANGED <<file, attempt>>

\* The operating system closes the descriptors of a process that ends.
Crash(p) ==
    /\ pc[p] \notin Idle
    /\ Close(p)
    /\ pc' = [pc EXCEPT ![p] = "idle"]
    /\ UNCHANGED <<file, attempt>>

Step(p) == TryLock(p) \/ Check(p) \/ Mismatch(p) \/ Retry(p) \/ Unlock(p)

Next == \E p \in Procs : Acquire(p) \/ Step(p) \/ Unlink(p) \/ Crash(p)

Spec == Init /\ [][Next]_vars

-----------------------------------------------------------------------------
Owners == {p \in Procs : pc[p] = "owner"}

Ownership == INSTANCE CreationOwnership
    WITH owner <- IF Owners = {} THEN Nobody ELSE CHOOSE p \in Owners : TRUE

\* AcquireCreation gives a path to one process at a time, whatever processes
\* create, unlink, leave and reopen the lock file in between: the lock file
\* implements CreationOwnership.
OwnershipIsExclusive == Ownership!Spec

\* The file an owner has locked is the one lockPath names, so that every later
\* contender runs into its lock; a removal by anybody else would let one past.
OwnerFileIsLinked ==
    \A p \in Owners : file = fd[p] /\ flock[file] = p
=============================================================================
