------------------------------ MODULE BaseSync ------------------------------
(***************************************************************************)
(* SyncBase (worktree/base.go): one branch of a repository follows a source *)
(* ref that is fetched, or rewritten, by others.  A sync holds kwt's lock   *)
(* of the repository; native Git takes no such lock and may commit, reset,  *)
(* delete or check out the branch between any two commands of the sync.     *)
(*                                                                         *)
(* Commits are numbered as they are made, 0 is a ref that does not exist.  *)
(***************************************************************************)
EXTENDS Naturals, FiniteSets

CONSTANTS
    MaxCommits,     \* bound: commits ever made
    MaxSyncs,       \* bound: syncs begun
    MaxWrites       \* bound: acts of native Git other than making a commit

VARIABLES
    parent,     \* commit -> its parent
    branch,     \* refs/heads/<Branch>
    source,     \* SourceRef
    backups,    \* refs below BackupPrefix
    attached,   \* a worktree has the branch checked out, born or not
    occupied,   \* another branch has a name below the branch's
    job,        \* the sync under way
    syncs, writes

repository == <<parent, branch, source, backups, attached, occupied>>
vars == <<repository, job, syncs, writes>>

Made == DOMAIN parent
NoSync == [pc |-> "idle", outcome |-> "none", managed |-> FALSE, remote |-> 0, local |-> 0,
           late |-> FALSE, quiet |-> FALSE]

\* The commit and all before it: what every set with it and with their parents has.
WithParents(S) == \A c \in S : parent[c] # 0 => parent[c] \in S
History(c) ==
    {d \in Made : c # 0 /\ \A S \in SUBSET Made : c \in S /\ WithParents(S) => d \in S}

TypeOK ==
    /\ Made \in {1..n : n \in 1..MaxCommits} /\ \A c \in Made : parent[c] \in 0..(c - 1)
    /\ branch \in Made \cup {0} /\ source \in Made \cup {0} /\ backups \subseteq Made
    /\ attached \in BOOLEAN /\ occupied \in BOOLEAN
    /\ job \in [pc : {"idle", "source", "local", "backup", "check", "write", "refused"},
                outcome : {"none", "nil", "error"}, managed : BOOLEAN,
                remote : Made \cup {0}, local : Made \cup {0}, late : BOOLEAN, quiet : BOOLEAN]
    /\ syncs \in 0..MaxSyncs /\ writes \in 0..MaxWrites

Init ==
    /\ parent = [c \in {1} |-> 0] /\ source = 1 /\ branch \in {0, 1} /\ backups = {}
    /\ attached \in BOOLEAN /\ occupied = FALSE
    /\ job = NoSync /\ syncs = 0 /\ writes = 0

-----------------------------------------------------------------------------
(* The sync.  "late" says that the branch was checked out after the sync    *)
(* had last looked, "quiet" that native Git did nothing since it began.    *)

Goto(pc) == job' = [job EXCEPT !.pc = pc]
Ends(outcome) == job' = [job EXCEPT !.pc = "idle", !.outcome = outcome]

Begin ==
    /\ job.pc = "idle" /\ syncs < MaxSyncs /\ syncs' = syncs + 1
    /\ \E managed \in BOOLEAN :
         job' = [NoSync EXCEPT !.pc = "source", !.managed = managed, !.quiet = TRUE]
    /\ UNCHANGED <<repository, writes>>

ReadSource ==
    /\ job.pc = "source"
    /\ IF source = 0 THEN Ends("nil") ELSE job' = [job EXCEPT !.pc = "local", !.remote = source]
    /\ UNCHANGED <<repository, syncs, writes>>

\* A branch that has commits the source has not is left alone, or backed up if
\* the application manages the clone.
ReadBranch ==
    /\ job.pc = "local"
    /\ LET follows == branch \in History(job.remote) \cup {0} IN
       IF branch = job.remote \/ (~follows /\ ~job.managed)
       THEN Ends("nil")
       ELSE job' = [job EXCEPT !.local = branch, !.pc = IF follows THEN "check" ELSE "backup"]
    /\ UNCHANGED <<repository, syncs, writes>>

Backup ==
    /\ job.pc = "backup"
    /\ backups' = backups \cup {job.local} /\ Goto("check")
    /\ UNCHANGED <<parent, branch, source, attached, occupied, syncs, writes>>

CheckWorktrees ==
    /\ job.pc = "check"
    /\ IF attached THEN Ends("nil") ELSE Goto("write")
    /\ UNCHANGED <<repository, syncs, writes>>

\* git update-ref compares the branch with what was read.
Updates == branch = job.local /\ ~(branch = 0 /\ occupied)

UpdateRef ==
    /\ job.pc = "write"
    /\ IF Updates THEN branch' = job.remote /\ Ends("nil") ELSE Goto("refused") /\ UNCHANGED branch
    /\ UNCHANGED <<parent, source, backups, attached, occupied, syncs, writes>>

\* What was refused because somebody had checked the branch out, or taken its
\* name, is no error.
ExplainRefusal ==
    /\ job.pc = "refused"
    /\ Ends(IF attached \/ (job.local = 0 /\ (branch # 0 \/ occupied)) THEN "nil" ELSE "error")
    /\ UNCHANGED <<repository, syncs, writes>>

\* The caller's context ends, or its process.
Cancel ==
    /\ job.pc # "idle" /\ job' = [job EXCEPT !.pc = "idle", !.outcome = "error", !.quiet = FALSE]
    /\ UNCHANGED <<repository, syncs, writes>>

-----------------------------------------------------------------------------
(* Native Git. *)

Disturbs(checksOut) ==
    job' = [job EXCEPT !.quiet = FALSE, !.late = @ \/ (checksOut /\ job.pc = "write")]
Writes(checksOut) == writes < MaxWrites /\ writes' = writes + 1 /\ UNCHANGED syncs /\ Disturbs(checksOut)

\* A commit on the branch, and one the source ref gets by a fetch, on top of it
\* or of any older commit.
Commits(base) ==
    LET new == Cardinality(Made) + 1 IN
    new <= MaxCommits /\ parent' = [c \in Made \cup {new} |-> IF c = new THEN base ELSE parent[c]]
Commit ==
    /\ branch # 0 /\ Commits(branch) /\ branch' \in DOMAIN parent' \ Made
    /\ Disturbs(FALSE) /\ UNCHANGED <<source, backups, attached, occupied, syncs, writes>>
Fetch ==
    /\ \E base \in Made : Commits(base)
    /\ source' \in DOMAIN parent' \ Made
    /\ Disturbs(FALSE) /\ UNCHANGED <<branch, backups, attached, occupied, syncs, writes>>
DeleteSource ==
    /\ source # 0 /\ source' = 0 /\ Writes(FALSE)
    /\ UNCHANGED <<parent, branch, backups, attached, occupied>>
\* git branch --force, or the reset of a worktree.
MoveBranch ==
    /\ ~(branch = 0 /\ occupied) /\ branch' \in Made \ {branch} /\ Writes(FALSE)
    /\ UNCHANGED <<parent, source, backups, attached, occupied>>
DeleteBranch ==
    /\ branch # 0 /\ ~attached /\ branch' = 0 /\ Writes(FALSE)
    /\ UNCHANGED <<parent, source, backups, attached, occupied>>
Checkout ==
    /\ attached' = ~attached /\ Writes(attached')
    /\ UNCHANGED <<parent, branch, source, backups, occupied>>
OccupyName ==
    /\ branch = 0 /\ ~occupied /\ occupied' = TRUE /\ Writes(FALSE)
    /\ UNCHANGED <<parent, branch, source, backups, attached>>

Next ==
    \/ Begin \/ ReadSource \/ ReadBranch \/ Backup \/ CheckWorktrees \/ UpdateRef
    \/ ExplainRefusal \/ Cancel
    \/ Commit \/ Fetch \/ DeleteSource \/ MoveBranch \/ DeleteBranch \/ Checkout \/ OccupyName

Spec == Init /\ [][Next]_vars

-----------------------------------------------------------------------------
\* A sync that does anything brings the branch to the source it has read.  When
\* nobody interferes it fails never, and gives up only for a reason.
OutcomeIsTrue ==
    job.pc = "idle" /\ syncs > 0 /\ job.quiet =>
        /\ job.outcome = "nil"
        /\ \/ branch = source \/ attached \/ source = 0 \/ (branch = 0 /\ occupied)
           \/ ~job.managed /\ branch \notin History(source)

\* No commit of the branch is lost by a sync, whatever native Git wrote since it
\* looked: the branch moves forward, or a managed one leaves its old tip in a
\* backup.  A branch it saw checked out is not moved.
HistoryIsKept ==
    UpdateRef /\ branch' # branch =>
        /\ \/ branch \in History(branch') \cup {0}
           \/ job.managed /\ branch \in backups
        /\ attached => job.late
BasesAreKept == []OutcomeIsTrue /\ [][HistoryIsKept]_vars

-----------------------------------------------------------------------------
(* What makes BasesAreKept inductive.                                        *)

\* What a sync under way relies on, and what it still knows if nobody interfered.
SyncIsSound ==
    /\ job.pc \in {"check", "write"} =>
         \/ job.local \in History(job.remote) \cup {0}
         \/ job.managed /\ job.local \in backups
    /\ job.pc = "backup" => job.managed /\ job.local # 0
    /\ job.pc = "write" /\ attached => job.late
QuietIsAsRead ==
    job.quiet =>
        /\ job.pc \in {"local", "backup", "check", "write", "refused"} => source = job.remote
        /\ job.pc \in {"backup", "check", "write", "refused"} => branch = job.local
        /\ job.pc = "write" => ~attached
        /\ job.pc = "refused" => branch = 0 /\ occupied
BaseInv == TypeOK /\ SyncIsSound /\ QuietIsAsRead /\ OutcomeIsTrue
=============================================================================
