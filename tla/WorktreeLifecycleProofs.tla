----------------------- MODULE WorktreeLifecycleProofs -----------------------
(***************************************************************************)
(* Proofs about WorktreeLifecycle, for any number of processes and         *)
(* operations: the types, who may touch a claimed entry, what a removal    *)
(* may take away, and that what a creation makes stays marked and stays.   *)
(***************************************************************************)
EXTENDS WorktreeLifecycle, TLAPS

\* The steps of a creation that only the holder of the creation lock takes.
Creating == {"recover", "finish", "claim", "enter", "git", "stamp", "complete", "abort"}

\* The steps of a removal or a fix that may act on the entry it has loaded.
Acting == {"inspect", "match", "remove", "recheck", "deregister", "confirm", "adopt"}

Claiming == {"enter", "git", "stamp", "complete", "abort"}

Fixing == {"survey", "stale", "recheck", "deregister", "reconcile", "confirm", "adopt"}

\* The mutex is held, and nothing is reserved.
Mutating == {"git", "stamp", "mark", "match", "remove", "adopt"}

Reserving == {"checkout", "hook", "reenter", "yield", "drop", "release"}

\* What holds of one process, whatever the others do.
Sound(p) ==
    /\ pc[p] # "idle" => job[p].num \in Numbers
    /\ pc[p] \in Fixing => job[p].snap # NoEntry
    /\ IsClaimed(job[p].snap) => job[p].snap.gen = 0
    /\ ~IsClaimed(job[p].prior)
    /\ pc[p] \in Creating \/ (pc[p] \in Acting /\ IsClaimed(job[p].snap)) => creation = p
    /\ pc[p] = "remove" => registryLock = p /\ entry = job[p].snap
    /\ pc[p] \in Claiming => Ours(p)
    /\ pc[p] \in Mutating \/ pc[p] = "yield" => mutex = p
    /\ pc[p] \in Mutating => ~Reserved
    /\ pc[p] \in Reserving => reserver = p
    /\ pc[p] \in {"match", "remove"} => wt.gen = job[p].want \/ wt = NoWorktree

\* A claim has no generation, which keeps prune away from it.
IInv ==
    /\ TypeOK
    /\ IsClaimed(entry) => entry.gen = 0
    /\ \A p \in Procs : Sound(p)

\* What a step of p leaves to the others: their positions and jobs; the locks
\* that another process holds; the entry, unless it is no claim, p holds the
\* creation lock, or the claim survives the change; and the worktree, unless p
\* has the mutex for it or the path is reserved.
Frame(p) ==
    /\ \A q \in Procs \ {p} : pc'[q] = pc[q] /\ job'[q] = job[q]
    /\ creation' = creation \/ creation \in {Nobody, p}
    /\ mutex' = mutex \/ mutex \in {Nobody, p}
    /\ reserver' = reserver \/ reserver \in {Nobody, p}
    /\ reserver' \in {reserver, Nobody} \/ mutex = Nobody
    /\ wt' = wt \/ mutex \in {Nobody, p} \/ Reserved
    /\ (entry' = entry /\ registryLock' = registryLock) \/ registryLock \in {Nobody, p}
    /\ \/ entry' = entry \/ creation = p \/ ~IsClaimed(entry)
       \/ IsClaimed(entry') /\ entry'.at = entry.at

LEMMA OthersStaySound ==
    ASSUME LifecycleAssumption, IInv, NEW p \in Procs, Frame(p)
    PROVE  \A q \in Procs \ {p} : Sound(q)'
<1> SUFFICES ASSUME NEW q \in Procs \ {p} PROVE Sound(q)'
  OBVIOUS
<1>1. q # Nobody /\ Sound(q) /\ pc'[q] = pc[q] /\ job'[q] = job[q]
  BY DEF IInv, Frame, LifecycleAssumption
<1>2. creation = q => creation' = q
  BY <1>1 DEF Frame
<1>3. registryLock = q => entry' = entry /\ registryLock' = q
  BY <1>1 DEF Frame
<1>4. creation = q /\ Ours(q) => Ours(q)'
  BY <1>1 DEF Frame, Ours
<1>5. mutex = q => mutex' = q
  BY <1>1 DEF Frame
<1>6. reserver = q => reserver' = q
  BY <1>1 DEF Frame
<1>7. mutex = q /\ ~Reserved => ~Reserved' /\ wt' = wt
  BY <1>1 DEF Frame, Reserved
<1> QED
  BY <1>1, <1>2, <1>3, <1>4, <1>5, <1>6, <1>7 DEF Sound, Claiming, Creating, Mutating

LEMMA InitIInv == ASSUME LifecycleAssumption, Init PROVE IInv
<1>1. TypeOK
  <2>1. NoJob \in [num : 0..MaxOps, snap : Entries \cup {NoEntry},
                   want : Generations, prior : Entries \cup {NoEntry}]
    BY DEF LifecycleAssumption, NoJob, Generations
  <2>2. job \in [Procs -> [num : 0..MaxOps, snap : Entries \cup {NoEntry},
                          want : Generations, prior : Entries \cup {NoEntry}]]
    BY <2>1 DEF Init
  <2>3. pc \in [Procs -> Labels]
    BY DEF Init, Labels
  <2>4. entry \in Entries \cup {NoEntry} /\ wt \in Worktrees \cup {NoWorktree}
    BY DEF Init
  <2>5. ops \in 0..MaxOps
    BY DEF Init, LifecycleAssumption
  <2>7. files \in BOOLEAN /\ record \in BOOLEAN
    BY DEF Init
  <2>6. /\ creation \in Holders /\ mutex \in Holders
        /\ registryLock \in Holders /\ reserver \in Holders
    BY DEF Init, Holders
  <2> QED
    BY <2>2, <2>3, <2>4, <2>5, <2>6, <2>7 DEF TypeOK
<1>2. ~IsClaimed(NoEntry)
  BY DEF IsClaimed
<1>3. \A p \in Procs : pc[p] = "idle" /\ job[p] = NoJob
  BY DEF Init
<1>4. NoJob.snap = NoEntry /\ NoJob.prior = NoEntry
  BY DEF NoJob
<1>5. \A p \in Procs : Sound(p)
  BY <1>2, <1>3, <1>4 DEF Sound, Fixing, Creating, Acting, Claiming, Mutating, Reserving
<1> QED
  BY <1>1, <1>2, <1>5 DEF IInv, Init

-----------------------------------------------------------------------------
(* The steps that need more than one fact, one lemma each *)

\* What the program reads from the stores.
LEMMA ReadTypes ==
    ASSUME LifecycleAssumption, TypeOK
    PROVE  /\ entry \in Entries \cup {NoEntry} /\ NoEntry \in Entries \cup {NoEntry}
           /\ wt.gen \in Generations /\ 0 \in Generations
           /\ entry # NoEntry => entry.gen \in Generations
  BY DEF TypeOK, Entries, Worktrees, NoWorktree, Generations, LifecycleAssumption

\* registry.New and the number an operation draws.
LEMMA StartTypes ==
    ASSUME LifecycleAssumption, TypeOK, NEW p \in Procs, NEW label \in Labels,
           NEW loaded \in Entries \cup {NoEntry}, NEW generation \in Generations,
           Start(p, label, loaded, generation)
    PROVE  TypeOK' /\ job'[p].num \in Numbers
<1>1. ops' \in 0..MaxOps /\ ops + 1 \in Numbers
  BY DEF Start, TypeOK, LifecycleAssumption, Numbers
<1>2. pc' \in [Procs -> Labels]
  BY DEF Start, Goto, TypeOK
<1>3. /\ job' \in [Procs -> [num : 0..MaxOps, snap : Entries \cup {NoEntry},
                             want : Generations, prior : Entries \cup {NoEntry}]]
      /\ job'[p].num = ops + 1
  <2>1. [num |-> ops + 1, snap |-> loaded, want |-> generation, prior |-> NoEntry]
            \in [num : 0..MaxOps, snap : Entries \cup {NoEntry},
                 want : Generations, prior : Entries \cup {NoEntry}]
    BY <1>1 DEF Numbers
  <2> QED
    BY <2>1 DEF Start, TypeOK
<1>4. UNCHANGED <<stores, locks>>
  BY DEF Start
<1> QED
  BY <1>1, <1>2, <1>3, <1>4 DEF TypeOK, stores, locks

LEMMA StartSound ==
    ASSUME LifecycleAssumption, IInv, NEW p \in Procs, NEW label \in Labels,
           NEW loaded \in {entry, NoEntry}, NEW generation \in Generations,
           Start(p, label, loaded, generation),
           label \in {"acquire", "reserve", "own", "inspect", "survey"},
           label = "survey" => loaded # NoEntry,
           label = "inspect" => ~IsClaimed(loaded)
    PROVE  Sound(p)'
<1>1. loaded \in Entries \cup {NoEntry}
  BY DEF IInv, TypeOK
<1>2. job'[p].num \in Numbers
  BY <1>1, StartTypes DEF IInv
<1>3. pc'[p] = label /\ job'[p].snap = loaded /\ job'[p].prior = NoEntry
  BY DEF Start, Goto, IInv, TypeOK
<1>4. IsClaimed(loaded) => loaded.gen = 0
  BY DEF IInv, IsClaimed
<1>5. ~IsClaimed(NoEntry)
  BY DEF IsClaimed
<1> QED
  BY <1>2, <1>3, <1>4, <1>5
  DEF Sound, Fixing, Creating, Acting, Claiming, Mutating, Reserving, IsClaimed

LEMMA DoneTypes ==
    ASSUME LifecycleAssumption, TypeOK, NEW p \in Procs, Done(p)
    PROVE  /\ pc' \in [Procs -> Labels]
           /\ job' \in [Procs -> [num : 0..MaxOps, snap : Entries \cup {NoEntry},
                                  want : Generations, prior : Entries \cup {NoEntry}]]
<1>1. NoJob \in [num : 0..MaxOps, snap : Entries \cup {NoEntry},
                 want : Generations, prior : Entries \cup {NoEntry}]
  BY DEF NoJob, Generations, LifecycleAssumption
<1> QED
  BY <1>1 DEF Done, Goto, Labels, TypeOK

LEMMA NumberOfStep ==
    ASSUME LifecycleAssumption, IInv, NEW p \in Procs, pc[p] # "idle"
    PROVE  job[p].num \in Numbers /\ job[p].num \in Generations
  BY DEF IInv, Sound, Numbers, Generations, LifecycleAssumption

LEMMA ClaimTypes ==
    ASSUME LifecycleAssumption, IInv, NEW p \in Procs, Claim(p)
    PROVE  TypeOK'
<1>1. [at |-> job[p].num, claimed |-> TRUE, gen |-> 0,
       expires |-> FALSE, unreviewed |-> TRUE] \in Entries
  BY NumberOfStep DEF Claim, Entries, Generations, LifecycleAssumption
<1>2. entry' \in Entries \cup {NoEntry}
  BY <1>1 DEF Claim, IInv, TypeOK
<1>3. pc' \in [Procs -> Labels]
  BY DEF Claim, Goto, IInv, TypeOK, Labels
<1> QED
  BY <1>2, <1>3 DEF Claim, locks, IInv, TypeOK

\* A claim that is taken is the claimant's own.
LEMMA ClaimSound ==
    ASSUME LifecycleAssumption, IInv, NEW p \in Procs, Claim(p)
    PROVE  Sound(p)'
<1>1. UNCHANGED job /\ pc[p] = "claim" /\ creation = p /\ creation' = p
  BY DEF Claim, locks, IInv, Sound, Creating
<1>2. pc'[p] = "unlock" \/ pc'[p] = "enter"
  BY DEF Claim, Goto, IInv, TypeOK
<1>3. ASSUME pc'[p] = "enter" PROVE Ours(p)'
  <2>1. Claimable(p)
    BY <1>3 DEF Claim, Goto, IInv, TypeOK
  <2>2. entry' = [at |-> job[p].num, claimed |-> TRUE, gen |-> 0,
                  expires |-> FALSE, unreviewed |-> TRUE]
    BY <2>1 DEF Claim
  <2> QED
    BY <1>1, <2>2 DEF Ours, IsClaimed, NoEntry
<1> QED
  BY <1>1, <1>2, <1>3
  DEF Claim, locks, Reserved, IInv, Sound, Fixing, Creating, Acting, Claiming, Mutating, Reserving

\* What a creation that fails will restore is an entry, and never a claim.
LEMMA GiveUpPrior ==
    ASSUME LifecycleAssumption, IInv, NEW p \in Procs, GiveUp(p)
    PROVE  /\ pc' \in [Procs -> Labels] /\ pc'[p] = "abort"
           /\ job' \in [Procs -> [num : 0..MaxOps, snap : Entries \cup {NoEntry},
                                  want : Generations, prior : Entries \cup {NoEntry}]]
           /\ job'[p].num = job[p].num /\ job'[p].snap = job[p].snap
           /\ ~IsClaimed(job'[p].prior)
<1> DEFINE before == job[p].snap
           prior == CASE ~IsClaimed(before) -> before
                      [] IsClaimed(before) /\ files -> [before EXCEPT !.claimed = FALSE]
                      [] OTHER -> NoEntry
<1>1. before \in Entries \cup {NoEntry}
  BY DEF IInv, TypeOK
<1>2. prior \in Entries \cup {NoEntry} /\ ~IsClaimed(prior)
  BY <1>1 DEF IsClaimed, Entries
<1>3. job' = [job EXCEPT ![p].prior = prior]
  BY DEF GiveUp
<1>4. pc' = [pc EXCEPT ![p] = "abort"]
  BY DEF GiveUp, Goto
<1> HIDE DEF prior
<1> QED
  BY <1>2, <1>3, <1>4 DEF IInv, TypeOK, Labels

LEMMA EnterSourceTypes ==
    ASSUME LifecycleAssumption, IInv, NEW p \in Procs, EnterSource(p)
    PROVE  TypeOK'
<1>1. /\ pc' \in [Procs -> Labels]
      /\ job' \in [Procs -> [num : 0..MaxOps, snap : Entries \cup {NoEntry},
                             want : Generations, prior : Entries \cup {NoEntry}]]
  <2>1. CASE Reserved
    BY <2>1, GiveUpPrior DEF EnterSource
  <2>2. CASE ~Reserved
    BY <2>2 DEF EnterSource, Goto, IInv, TypeOK, Labels
  <2> QED
    BY <2>1, <2>2
<1>2. mutex' \in Holders
  BY DEF EnterSource, IInv, TypeOK, Holders
<1>3. record' \in BOOLEAN
  <2>1. CASE Reserved
    BY <2>1 DEF EnterSource, IInv, TypeOK
  <2>2. CASE ~Reserved
    BY <2>2 DEF EnterSource
  <2> QED
    BY <2>1, <2>2
<1> QED
  BY <1>1, <1>2, <1>3 DEF EnterSource, stores, IInv, TypeOK

LEMMA EnterSourceSound ==
    ASSUME LifecycleAssumption, IInv, NEW p \in Procs, EnterSource(p)
    PROVE  Sound(p)'
<1>1. /\ pc[p] = "enter" /\ Sound(p)
      /\ UNCHANGED <<entry, creation>>
  BY DEF EnterSource, stores, IInv
<1>2. CASE Reserved
  BY <1>1, <1>2, GiveUpPrior
  DEF EnterSource, stores, Reserved, Sound, Fixing, Creating, Acting, Claiming, Mutating, Reserving, Ours
<1>3. CASE ~Reserved
  BY <1>1, <1>3
  DEF EnterSource, stores, Reserved, Goto, IInv, TypeOK, Sound, Fixing, Creating, Acting, Claiming, Mutating, Reserving, Ours
<1> QED
  BY <1>2, <1>3

LEMMA SourceFailsTypes ==
    ASSUME LifecycleAssumption, IInv, NEW p \in Procs, SourceFails(p)
    PROVE  TypeOK'
  BY GiveUpPrior DEF SourceFails, stores, IInv, TypeOK, Holders

LEMMA FinishAbandonedTypes ==
    ASSUME LifecycleAssumption, IInv, NEW p \in Procs, FinishAbandoned(p)
    PROVE  TypeOK'
<1>1. entry' \in Entries \cup {NoEntry}
  BY DEF FinishAbandoned, CompleteCreation, IsClaimed, Entries, IInv, TypeOK
<1>2. pc' \in [Procs -> Labels]
  BY DEF FinishAbandoned, Goto, Labels, IInv, TypeOK
<1>3. job' \in [Procs -> [num : 0..MaxOps, snap : Entries \cup {NoEntry},
                          want : Generations, prior : Entries \cup {NoEntry}]]
  BY DEF FinishAbandoned, Generations, LifecycleAssumption, IInv, TypeOK
<1> QED
  BY <1>1, <1>2, <1>3 DEF FinishAbandoned, locks, IInv, TypeOK

\* EnsureIdentity keeps a marker, or writes the number of its operation.
LEMMA IdentifyTypes ==
    ASSUME LifecycleAssumption, IInv, NEW p \in Procs, pc[p] # "idle",
           NEW after \in Labels, Identify(p, after)
    PROVE  TypeOK'
<1>1. job[p].num \in Generations
  BY NumberOfStep
<1>2. wt' \in Worktrees \cup {NoWorktree}
  BY <1>1 DEF Identify, Registered, Worktrees, IInv, TypeOK
<1>3. job' \in [Procs -> [num : 0..MaxOps, snap : Entries \cup {NoEntry},
                          want : Generations, prior : Entries \cup {NoEntry}]]
  <2>1. CASE UNCHANGED job
    BY <2>1 DEF IInv, TypeOK
  <2>2. CASE Registered /\ wt' = [wt EXCEPT !.gen = IF @ = 0 THEN job[p].num ELSE @]
               /\ job' = [job EXCEPT ![p].want = wt'.gen]
    <3>1. wt'.gen \in Generations
      BY <1>1, <2>2 DEF Registered, Worktrees, IInv, TypeOK
    <3> QED
      BY <2>2, <3>1 DEF IInv, TypeOK
  <2> QED
    BY <2>1, <2>2 DEF Identify
<1>4. pc' \in [Procs -> Labels]
  BY DEF Identify, Goto, IInv, TypeOK
<1> QED
  BY <1>2, <1>3, <1>4 DEF Identify, IInv, TypeOK, Holders

LEMMA UndoSourceTypes ==
    ASSUME LifecycleAssumption, IInv, NEW p \in Procs, UndoSource(p)
    PROVE  TypeOK'
<1>1. wt' \in Worktrees \cup {NoWorktree} /\ files' \in BOOLEAN
  BY DEF UndoSource, IInv, TypeOK
<1>2. record' \in BOOLEAN
  BY DEF UndoSource, IInv, TypeOK
<1>3. /\ pc' \in [Procs -> Labels]
      /\ job' \in [Procs -> [num : 0..MaxOps, snap : Entries \cup {NoEntry},
                             want : Generations, prior : Entries \cup {NoEntry}]]
  BY DoneTypes DEF UndoSource, Goto, Labels, IInv, TypeOK
<1> QED
  BY <1>1, <1>2, <1>3 DEF UndoSource, IInv, TypeOK

LEMMA ExpireTypes ==
    ASSUME LifecycleAssumption, IInv, NEW p \in Procs, Expire(p)
    PROVE  TypeOK'
<1>1. [at |-> job[p].num, claimed |-> FALSE, gen |-> job[p].want,
       expires |-> TRUE, unreviewed |-> FALSE] \in Entries
  BY NumberOfStep DEF Expire, Entries, IInv, TypeOK
<1>2. entry' \in Entries \cup {NoEntry}
  BY <1>1 DEF Expire, Entries, IInv, TypeOK
<1>3. record' \in BOOLEAN
  BY DEF Expire, IInv, TypeOK
<1>4. /\ pc' \in [Procs -> Labels]
      /\ job' \in [Procs -> [num : 0..MaxOps, snap : Entries \cup {NoEntry},
                             want : Generations, prior : Entries \cup {NoEntry}]]
  BY DoneTypes DEF Expire, IInv
<1>5. UNCHANGED <<wt, files, creation, mutex, registryLock, reserver, ops>>
  BY DEF Expire
<1> QED
  BY <1>2, <1>3, <1>4, <1>5 DEF IInv, TypeOK

LEMMA ReserveTypes ==
    ASSUME LifecycleAssumption, IInv, NEW p \in Procs, Reserve(p)
    PROVE  TypeOK'
<1>1. reserver' \in Holders
  BY DEF Reserve, IInv, TypeOK, Holders
<1>2. record' \in BOOLEAN
  <2>1. CASE Reserved
    BY <2>1 DEF Reserve, IInv, TypeOK
  <2>2. CASE ~Reserved
    BY <2>2 DEF Reserve
  <2> QED
    BY <2>1, <2>2
<1>3. /\ pc' \in [Procs -> Labels]
      /\ job' \in [Procs -> [num : 0..MaxOps, snap : Entries \cup {NoEntry},
                             want : Generations, prior : Entries \cup {NoEntry}]]
  BY DoneTypes DEF Reserve, Goto, Labels, IInv, TypeOK
<1> QED
  BY <1>1, <1>2, <1>3 DEF Reserve, stores, IInv, TypeOK

LEMMA RemoveRecordTypes ==
    ASSUME LifecycleAssumption, IInv, NEW p \in Procs, RemoveRecord(p)
    PROVE  TypeOK'
<1>1. pc' \in [Procs -> Labels]
  BY DEF RemoveRecord, Goto, Labels, IInv, TypeOK
<1>2. record' \in BOOLEAN
  BY DEF RemoveRecord
<1> QED
  BY <1>1, <1>2 DEF RemoveRecord, stores, IInv, TypeOK

LEMMA ListTypes ==
    ASSUME LifecycleAssumption, IInv, NEW p \in Procs, List(p)
    PROVE  TypeOK'
<1>1. ops' \in 0..MaxOps
  BY DEF List, IInv, TypeOK, LifecycleAssumption
<1>2. wt' \in Worktrees
  BY <1>1 DEF List, Registered, IInv, TypeOK, Worktrees, Generations
<1>3. record' \in BOOLEAN
  BY DEF List
<1> QED
  BY <1>1, <1>2, <1>3 DEF List, IInv, TypeOK

LEMMA AcquireTypes ==
    ASSUME LifecycleAssumption, IInv, NEW p \in Procs, NEW label \in Labels,
           AcquireCreation(p, label)
    PROVE  TypeOK'
<1>1. creation' \in Holders
  BY DEF AcquireCreation, IInv, TypeOK, Holders
<1>2. /\ pc' \in [Procs -> Labels]
      /\ job' \in [Procs -> [num : 0..MaxOps, snap : Entries \cup {NoEntry},
                             want : Generations, prior : Entries \cup {NoEntry}]]
  BY DoneTypes DEF AcquireCreation, Goto, IInv, TypeOK
<1> QED
  BY <1>1, <1>2 DEF AcquireCreation, stores, IInv, TypeOK

LEMMA ReleaseCreationTypes ==
    ASSUME LifecycleAssumption, IInv, NEW p \in Procs, ReleaseCreation(p)
    PROVE  TypeOK'
<1>1. creation' \in Holders
  BY DEF ReleaseCreation, IInv, TypeOK, Holders
<1>2. /\ pc' \in [Procs -> Labels]
      /\ job' \in [Procs -> [num : 0..MaxOps, snap : Entries \cup {NoEntry},
                             want : Generations, prior : Entries \cup {NoEntry}]]
  BY DoneTypes DEF ReleaseCreation, Goto, Labels, IInv, TypeOK
<1> QED
  BY <1>1, <1>2 DEF ReleaseCreation, stores, IInv, TypeOK

LEMMA ReadAbandonedTypes ==
    ASSUME LifecycleAssumption, IInv, NEW p \in Procs, ReadAbandoned(p)
    PROVE  TypeOK'
<1>1. wt.gen \in Generations
  BY ReadTypes DEF IInv
<1>2. job' \in [Procs -> [num : 0..MaxOps, snap : Entries \cup {NoEntry},
                          want : Generations, prior : Entries \cup {NoEntry}]]
  BY <1>1 DEF ReadAbandoned, IInv, TypeOK
<1>3. pc' \in [Procs -> Labels]
  BY DEF ReadAbandoned, Goto, Labels, IInv, TypeOK
<1> QED
  BY <1>2, <1>3 DEF ReadAbandoned, stores, locks, IInv, TypeOK

LEMMA SurveyTypes ==
    ASSUME LifecycleAssumption, IInv, NEW p \in Procs, Survey(p)
    PROVE  TypeOK'
<1>1. wt.gen \in Generations
  BY ReadTypes DEF IInv
<1>2. /\ pc' \in [Procs -> Labels]
      /\ job' \in [Procs -> [num : 0..MaxOps, snap : Entries \cup {NoEntry},
                             want : Generations, prior : Entries \cup {NoEntry}]]
  <2>1. CASE Done(p)
    BY <2>1, DoneTypes DEF IInv
  <2>2. CASE Fix(p, "stale", "recheck") /\ UNCHANGED job
    BY <2>2 DEF Fix, Goto, Labels, IInv, TypeOK
  <2>3. CASE Fix(p, "reconcile", "confirm") /\ job' = [job EXCEPT ![p].want = wt.gen]
    BY <1>1, <2>3 DEF Fix, Goto, Labels, IInv, TypeOK
  <2> QED
    BY <2>1, <2>2, <2>3 DEF Survey
<1> QED
  BY <1>2 DEF Survey, stores, locks, IInv, TypeOK

-----------------------------------------------------------------------------
\* A step of a process keeps the types.
LEMMA TypesStep ==
    ASSUME LifecycleAssumption, IInv, NEW p \in Procs, Begin(p) \/ Step(p) \/ Crash(p)
    PROVE  TypeOK'
<1> USE DEF IInv, Sound, TypeOK, IsClaimed, Labels, Holders, Entries,
     Generations, Numbers, Worktrees, Fixing, NoJob, NoWorktree
<1>1. CASE AcquireSource(p)
  BY <1>1, AcquireTypes DEF AcquireSource, Labels
<1>2. CASE ReadAbandoned(p)
  BY <1>2, ReadAbandonedTypes
<1>3. CASE FinishAbandoned(p)
  BY <1>3, FinishAbandonedTypes
<1>4. CASE Claim(p)
  BY <1>4, ClaimTypes
<1>5. CASE EnterSource(p)
  BY <1>5, EnterSourceTypes
<1>6. CASE AddSource(p)
  BY <1>6 DEF AddSource, Goto, GitAdd, Registered, locks
<1>7. CASE SourceFails(p)
  BY <1>7, SourceFailsTypes
<1>8. CASE SourceRemains(p)
  BY <1>8 DEF SourceRemains, Goto, GitAdd, Registered
<1>9. CASE StampSource(p)
  BY <1>9, IdentifyTypes DEF StampSource, Labels
<1>10. CASE CompleteSource(p)
  BY <1>10 DEF CompleteSource, Goto, CompleteCreation, Unlocked, locks
<1>11. CASE AbortSource(p)
  BY <1>11 DEF AbortSource, Goto, Ours, Unlocked, locks
<1>12. CASE ReleaseCreation(p)
  BY <1>12, ReleaseCreationTypes
<1>13. CASE UndoSource(p)
  BY <1>13, UndoSourceTypes
<1>14. CASE ForgetSource(p)
  BY <1>14 DEF ForgetSource, Done, Goto, Unregister, Unlocked, locks
<1>15. CASE Expire(p)
  BY <1>15, ExpireTypes
<1>16. CASE Reserve(p)
  BY <1>16, ReserveTypes
<1>17. CASE CheckOut(p)
  BY <1>17 DEF CheckOut, Goto, GitAdd, Registered, locks
<1>18. CASE Hook(p)
  BY <1>18 DEF Hook, Goto, stores, locks
<1>19. CASE Reenter(p)
  BY <1>19 DEF Reenter, Goto, stores
<1>20. CASE CheckOutFails(p)
  BY <1>20 DEF CheckOutFails, Goto, stores, locks
<1>21. CASE RemoveRecord(p)
  BY <1>21, RemoveRecordTypes
<1>22. CASE DropReservation(p)
  BY <1>22 DEF DropReservation, Done, Goto, stores
<1>23. CASE YieldReservation(p)
  BY <1>23 DEF YieldReservation, Goto, stores
<1>24. CASE StampLocal(p)
  BY <1>24 DEF StampLocal, Identify, Goto, Registered
<1>25. CASE OwnRemoval(p)
  BY <1>25, AcquireTypes DEF OwnRemoval, Labels
<1>26. CASE InspectRemoval(p)
  BY <1>26 DEF InspectRemoval, Goto, Preflight, Reserved, stores
<1>27. CASE MatchRemoval(p)
  BY <1>27 DEF MatchRemoval, Goto, Unlocked, stores
<1>28. CASE Remove(p)
  BY <1>28 DEF Remove, Goto, Preflight, Reserved, stores
<1>29. CASE Survey(p)
  BY <1>29, SurveyTypes
<1>30. CASE OwnStale(p)
  BY <1>30, AcquireTypes DEF OwnStale, Labels
<1>31. CASE RecheckStale(p)
  BY <1>31 DEF RecheckStale, Goto, stores, locks
<1>32. CASE Deregister(p)
  BY <1>32 DEF Deregister, Goto, Swap, Unlocked, Unregister, locks
<1>33. CASE OwnReconcile(p)
  BY <1>33, AcquireTypes DEF OwnReconcile, Labels
<1>34. CASE ConfirmIdentity(p)
  BY <1>34 DEF ConfirmIdentity, Goto, Preflight, Reserved, stores
<1>35. CASE AdoptGeneration(p)
  BY <1>35 DEF AdoptGeneration, Goto, Swap, Unlocked
<1>36. CASE Crash(p)
  BY <1>36 DEF Crash, Done, Goto, stores
<1>37. CASE StartSource(p)
  BY <1>37, ReadTypes, StartTypes DEF StartSource, IInv, Labels
<1>38. CASE StartLocal(p)
  BY <1>38, ReadTypes, StartTypes DEF StartLocal, IInv, Labels
<1>39. CASE List(p)
  BY <1>39, ListTypes
<1>40. CASE StartRemoval(p)
  BY <1>40, ReadTypes, StartTypes DEF StartRemoval, IInv, Labels
<1>41. CASE StartPrune(p)
  BY <1>41, ReadTypes, StartTypes DEF StartPrune, IInv, Labels
<1>42. CASE StartDoctor(p)
  BY <1>42, ReadTypes, StartTypes DEF StartDoctor, IInv, Labels
<1> QED
  BY <1>1, <1>2, <1>3, <1>4, <1>5, <1>6, <1>7, <1>8, <1>9, <1>10, <1>11,
     <1>12, <1>13, <1>14, <1>15, <1>16, <1>17, <1>18, <1>19, <1>20, <1>21,
     <1>22, <1>23, <1>24, <1>25, <1>26, <1>27, <1>28, <1>29, <1>30, <1>31,
     <1>32, <1>33, <1>34, <1>35, <1>36, <1>37, <1>38, <1>39, <1>40, <1>41,
     <1>42 DEF Begin, Step

\* A step of a process leaves to the others what Frame says.
LEMMA FrameStep ==
    ASSUME LifecycleAssumption, IInv, NEW p \in Procs, Begin(p) \/ Step(p) \/ Crash(p)
    PROVE  Frame(p) /\ (IsClaimed(entry) => entry.gen = 0)'
<1> USE DEF IInv, Sound, TypeOK, IsClaimed, Frame, Acting, Creating, Fixing,
     Mutating, Reserving, Reserved, Registered
<1>1. CASE AcquireSource(p)
  BY <1>1 DEF AcquireSource, AcquireCreation, Goto, Done, NoJob, stores
<1>2. CASE ReadAbandoned(p)
  BY <1>2 DEF ReadAbandoned, Goto, stores, locks
<1>3. CASE FinishAbandoned(p)
  BY <1>3 DEF FinishAbandoned, Goto, CompleteCreation, Unlocked, locks
<1>4. CASE Claim(p)
  BY <1>4 DEF Claim, Goto, Claimable, Unlocked, locks
<1>5. CASE EnterSource(p)
  BY <1>5 DEF EnterSource, Goto, GiveUp, stores
<1>6. CASE AddSource(p)
  BY <1>6 DEF AddSource, Goto, GitAdd, locks
<1>7. CASE SourceFails(p)
  BY <1>7 DEF SourceFails, GiveUp, Goto, stores
<1>8. CASE SourceRemains(p)
  BY <1>8 DEF SourceRemains, Goto, GitAdd
<1>9. CASE StampSource(p)
  BY <1>9 DEF StampSource, Identify, Goto
<1>10. CASE CompleteSource(p)
  BY <1>10 DEF CompleteSource, Goto, CompleteCreation, Unlocked, locks
<1>11. CASE AbortSource(p)
  BY <1>11 DEF AbortSource, Goto, Ours, Unlocked, locks
<1>12. CASE ReleaseCreation(p)
  BY <1>12 DEF ReleaseCreation, Goto, Done, NoJob, stores
<1>13. CASE UndoSource(p)
  BY <1>13 DEF UndoSource, Goto, Done, NoJob
<1>14. CASE ForgetSource(p)
  BY <1>14 DEF ForgetSource, Done, Goto, NoJob, Unregister, Unlocked, locks
<1>15. CASE Expire(p)
  BY <1>15 DEF Expire, Done, Goto, NoJob, Unlocked
<1>16. CASE Reserve(p)
  BY <1>16 DEF Reserve, Goto, Done, NoJob, stores
<1>17. CASE CheckOut(p)
  BY <1>17 DEF CheckOut, Goto, GitAdd, locks
<1>18. CASE Hook(p)
  BY <1>18 DEF Hook, Goto, stores, locks
<1>19. CASE Reenter(p)
  BY <1>19 DEF Reenter, Goto, stores
<1>20. CASE CheckOutFails(p)
  BY <1>20 DEF CheckOutFails, Goto, stores, locks
<1>21. CASE RemoveRecord(p)
  BY <1>21 DEF RemoveRecord, Goto, stores
<1>22. CASE DropReservation(p)
  BY <1>22 DEF DropReservation, Done, Goto, NoJob, stores
<1>23. CASE YieldReservation(p)
  BY <1>23 DEF YieldReservation, Goto, stores
<1>24. CASE StampLocal(p)
  BY <1>24 DEF StampLocal, Identify, Goto
<1>25. CASE OwnRemoval(p)
  BY <1>25 DEF OwnRemoval, AcquireCreation, Goto, Done, NoJob, stores
<1>26. CASE InspectRemoval(p)
  BY <1>26 DEF InspectRemoval, Goto, Preflight, stores
<1>27. CASE MatchRemoval(p)
  BY <1>27 DEF MatchRemoval, Goto, Unlocked, stores
<1>28. CASE Remove(p)
  BY <1>28 DEF Remove, Goto, Preflight, stores
<1>29. CASE Survey(p)
  BY <1>29 DEF Survey, Done, Goto, NoJob, Fix, Active, stores, locks
<1>30. CASE OwnStale(p)
  BY <1>30 DEF OwnStale, AcquireCreation, Goto, Done, NoJob, stores
<1>31. CASE RecheckStale(p)
  BY <1>31 DEF RecheckStale, Goto, stores, locks
<1>32. CASE Deregister(p)
  BY <1>32 DEF Deregister, Goto, Swap, Unlocked, Unregister, locks
<1>33. CASE OwnReconcile(p)
  BY <1>33 DEF OwnReconcile, AcquireCreation, Goto, Done, NoJob, stores
<1>34. CASE ConfirmIdentity(p)
  BY <1>34 DEF ConfirmIdentity, Goto, Preflight, stores
<1>35. CASE AdoptGeneration(p)
  BY <1>35 DEF AdoptGeneration, Goto, Swap, Unlocked
<1>36. CASE Crash(p)
  BY <1>36 DEF Crash, Done, Goto, NoJob, stores
<1>37. CASE StartSource(p)
  BY <1>37 DEF StartSource, Start, Goto, stores, locks
<1>38. CASE StartLocal(p)
  BY <1>38 DEF StartLocal, Start, Goto, stores, locks
<1>39. CASE List(p)
  BY <1>39 DEF List
<1>40. CASE StartRemoval(p)
  BY <1>40 DEF StartRemoval, Start, Goto, stores, locks
<1>41. CASE StartPrune(p)
  BY <1>41 DEF StartPrune, Start, Goto, stores, locks
<1>42. CASE StartDoctor(p)
  BY <1>42 DEF StartDoctor, Start, Goto, stores, locks
<1> QED
  BY <1>1, <1>2, <1>3, <1>4, <1>5, <1>6, <1>7, <1>8, <1>9, <1>10, <1>11,
     <1>12, <1>13, <1>14, <1>15, <1>16, <1>17, <1>18, <1>19, <1>20, <1>21,
     <1>22, <1>23, <1>24, <1>25, <1>26, <1>27, <1>28, <1>29, <1>30, <1>31,
     <1>32, <1>33, <1>34, <1>35, <1>36, <1>37, <1>38, <1>39, <1>40, <1>41,
     <1>42 DEF Begin, Step

\* A step of a process keeps what holds of itself.
LEMMA SoundStep ==
    ASSUME LifecycleAssumption, IInv, NEW p \in Procs, Begin(p) \/ Step(p) \/ Crash(p)
    PROVE  Sound(p)'
<1> USE DEF IInv, Sound, TypeOK, IsClaimed, Acting, Creating, Fixing,
     Claiming, Ours, NoJob, Mutating, Reserving, Reserved
<1>1. CASE AcquireSource(p)
  BY <1>1 DEF AcquireSource, AcquireCreation, Goto, Done, stores
<1>2. CASE ReadAbandoned(p)
  BY <1>2 DEF ReadAbandoned, Goto, stores, locks
<1>3. CASE FinishAbandoned(p)
  BY <1>3 DEF FinishAbandoned, Goto, CompleteCreation, Unlocked, locks
<1>4. CASE Claim(p)
  BY <1>4, ClaimSound
<1>5. CASE EnterSource(p)
  BY <1>5, EnterSourceSound
<1>6. CASE AddSource(p)
  BY <1>6 DEF AddSource, Goto, GitAdd, Registered, locks
<1>7. CASE SourceFails(p)
  BY <1>7 DEF SourceFails, GiveUp, Goto, stores
<1>8. CASE SourceRemains(p)
  BY <1>8 DEF SourceRemains, Goto, GitAdd, Registered
<1>9. CASE StampSource(p)
  BY <1>9 DEF StampSource, Identify, Goto, Registered
<1>10. CASE CompleteSource(p)
  BY <1>10 DEF CompleteSource, Goto, CompleteCreation, Unlocked, locks
<1>11. CASE AbortSource(p)
  BY <1>11 DEF AbortSource, Goto, Unlocked, locks
<1>12. CASE ReleaseCreation(p)
  BY <1>12 DEF ReleaseCreation, Goto, Done, stores
<1>13. CASE UndoSource(p)
  BY <1>13 DEF UndoSource, Goto, Done
<1>14. CASE ForgetSource(p)
  BY <1>14 DEF ForgetSource, Done, Goto, Unregister, Unlocked, locks
<1>15. CASE Expire(p)
  BY <1>15 DEF Expire, Done, Goto, Unlocked
<1>16. CASE Reserve(p)
  BY <1>16 DEF Reserve, Goto, Done, stores
<1>17. CASE CheckOut(p)
  BY <1>17 DEF CheckOut, Goto, GitAdd, Registered, locks
<1>18. CASE Hook(p)
  BY <1>18 DEF Hook, Goto, stores, locks
<1>19. CASE Reenter(p)
  BY <1>19 DEF Reenter, Goto, stores
<1>20. CASE CheckOutFails(p)
  BY <1>20 DEF CheckOutFails, Goto, stores, locks
<1>21. CASE RemoveRecord(p)
  BY <1>21 DEF RemoveRecord, Goto, stores
<1>22. CASE DropReservation(p)
  BY <1>22 DEF DropReservation, Done, Goto, stores
<1>23. CASE YieldReservation(p)
  BY <1>23 DEF YieldReservation, Goto, stores
<1>24. CASE StampLocal(p)
  BY <1>24 DEF StampLocal, Identify, Goto, Registered
<1>25. CASE OwnRemoval(p)
  BY <1>25 DEF OwnRemoval, AcquireCreation, Goto, Done, stores
<1>26. CASE InspectRemoval(p)
  BY <1>26 DEF InspectRemoval, Goto, Preflight, stores
<1>27. CASE MatchRemoval(p)
  BY <1>27 DEF MatchRemoval, Goto, Unlocked, stores
<1>28. CASE Remove(p)
  BY <1>28 DEF Remove, Goto, Preflight, stores
<1>29. CASE Survey(p)
  BY <1>29 DEF Survey, Done, Goto, Fix, Active, stores, locks
<1>30. CASE OwnStale(p)
  BY <1>30 DEF OwnStale, AcquireCreation, Goto, Done, stores
<1>31. CASE RecheckStale(p)
  BY <1>31 DEF RecheckStale, Goto, stores, locks
<1>32. CASE Deregister(p)
  BY <1>32 DEF Deregister, Goto, Swap, Unlocked, Unregister, locks
<1>33. CASE OwnReconcile(p)
  BY <1>33 DEF OwnReconcile, AcquireCreation, Goto, Done, stores
<1>34. CASE ConfirmIdentity(p)
  BY <1>34 DEF ConfirmIdentity, Goto, Preflight, stores
<1>35. CASE AdoptGeneration(p)
  BY <1>35 DEF AdoptGeneration, Goto, Swap, Unlocked
<1>36. CASE Crash(p)
  BY <1>36 DEF Crash, Done, Goto, stores
<1>37. CASE StartSource(p)
  BY <1>37, ReadTypes, StartSound DEF StartSource, IInv, Labels
<1>38. CASE StartLocal(p)
  BY <1>38, ReadTypes, StartSound DEF StartLocal, IInv, Labels
<1>39. CASE List(p)
  BY <1>39 DEF List, Registered
<1>40. CASE StartRemoval(p)
  BY <1>40, ReadTypes, StartSound DEF StartRemoval, IInv, Labels
<1>41. CASE StartPrune(p)
  BY <1>41, ReadTypes, StartSound DEF StartPrune, IInv, Labels
<1>42. CASE StartDoctor(p)
  BY <1>42, ReadTypes, StartSound DEF StartDoctor, IInv, Labels
<1> QED
  BY <1>1, <1>2, <1>3, <1>4, <1>5, <1>6, <1>7, <1>8, <1>9, <1>10, <1>11,
     <1>12, <1>13, <1>14, <1>15, <1>16, <1>17, <1>18, <1>19, <1>20, <1>21,
     <1>22, <1>23, <1>24, <1>25, <1>26, <1>27, <1>28, <1>29, <1>30, <1>31,
     <1>32, <1>33, <1>34, <1>35, <1>36, <1>37, <1>38, <1>39, <1>40, <1>41,
     <1>42 DEF Begin, Step

-----------------------------------------------------------------------------
\* Every step of every process, and whatever the user does, keeps IInv.
THEOREM Inductive == ASSUME LifecycleAssumption, IInv, [Next]_vars PROVE IInv'
<1>1. ASSUME NEW p \in Procs, Begin(p) \/ Step(p) \/ Crash(p) PROVE IInv'
  BY <1>1, TypesStep, FrameStep, SoundStep, OthersStaySound DEF IInv
<1>2. CASE Acknowledge
  <2>1. TypeOK'
    BY <1>2 DEF Acknowledge, IInv, TypeOK, Entries, Worktrees, Registered, locks
  <2>2. Unlocked /\ UNCHANGED <<locks, pc, job>>
    BY <1>2 DEF Acknowledge
  <2>3. /\ IsClaimed(entry') => IsClaimed(entry) /\ entry'.gen = entry.gen
        /\ IsClaimed(entry) => IsClaimed(entry') /\ entry'.at = entry.at
    BY <1>2 DEF Acknowledge, IsClaimed, IInv, TypeOK, Entries, NoEntry
  <2>4. ASSUME NEW p \in Procs PROVE Sound(p)'
    <3>1. Sound(p) /\ pc[p] # "remove"
      BY <2>2 DEF IInv, Sound, Unlocked, LifecycleAssumption
    <3>2. wt'.gen = wt.gen /\ (wt = NoWorktree <=> wt' = NoWorktree)
      BY <1>2 DEF Acknowledge, Registered, Worktrees, NoWorktree, IInv, TypeOK
    <3> QED
      BY <2>2, <2>3, <3>1, <3>2 DEF Sound, Ours, Reserved, locks
  <2> QED
    BY <2>1, <2>3, <2>4 DEF IInv
<1>3. CASE DeleteFiles
  <2>1. files' \in BOOLEAN /\ UNCHANGED <<entry, wt, locks, ops, pc, job>>
    BY <1>3 DEF DeleteFiles
  <2> QED
    BY <2>1 DEF IInv, TypeOK, Sound, Ours, Reserved, locks
<1>4. CASE PruneMissing
  <2>1. wt' = NoWorktree /\ UNCHANGED <<entry, files, locks, ops, pc, job>>
    BY <1>4 DEF PruneMissing
  <2> QED
    BY <2>1 DEF IInv, TypeOK, Sound, Ours, Reserved, locks
<1>5. CASE UNCHANGED vars
  BY <1>5 DEF IInv, TypeOK, Sound, Ours, Reserved, vars, stores, locks
<1> QED
  BY <1>1, <1>2, <1>3, <1>4, <1>5 DEF Next, Outside

LEMMA Invariance == ASSUME LifecycleAssumption PROVE Spec => []IInv
<1>1. Init => IInv
  BY InitIInv
<1>2. IInv /\ [Next]_vars => IInv'
  BY Inductive
<1> QED
  BY <1>1, <1>2, PTL DEF Spec

-----------------------------------------------------------------------------
\* Every variable keeps its type: no operation writes an entry, a marker or a
\* lock holder that the others could not read.
THEOREM TypesHold == ASSUME LifecycleAssumption PROVE Spec => []TypeOK
<1>1. IInv => TypeOK
  BY DEF IInv
<1> QED
  BY <1>1, Invariance, PTL

\* From AcquireCreation's claim to its completion or abort, the entry of the
\* path is the creation's own, for any number of processes and operations.
THEOREM ClaimsHold == ASSUME LifecycleAssumption PROVE Spec => []ClaimIsKept
<1>1. IInv => ClaimIsKept
  BY DEF IInv, Sound, Claiming, ClaimIsKept
<1> QED
  BY <1>1, Invariance, PTL

\* RemovalService and kwt prune take away only the generation they selected,
\* under the entry they loaded.
THEOREM RemovalsAreFenced == ASSUME LifecycleAssumption PROVE Spec => RemovalIsFenced
<1> DEFINE Fenced == \A p \in Procs :
        pc[p] = "remove" /\ Registered /\ ~Registered'
            => wt.gen = job[p].want /\ entry = job[p].snap
<1>1. IInv => Fenced
  BY DEF IInv, Sound, Registered
<1>2. IInv /\ [Next]_vars => [Fenced]_vars
  BY <1>1
<1> QED
  BY <1>2, Invariance, PTL DEF Spec, RemovalIsFenced
-----------------------------------------------------------------------------
(* What a creation has made stays marked, and stays. *)

\* Before its worktree has an identity, or while it may still claim the entry.
Unstamped == {"acquire", "recover", "claim", "enter", "git", "stamp",
              "reserve", "checkout", "hook", "reenter", "yield", "mark"}
Unclaimed == {"acquire", "recover", "claim"}

\* The generations and the entries that the stores or some process know of.
HasGen(e, n) == e # NoEntry /\ e.gen = n
HasAt(e, n) == e # NoEntry /\ e.at = n
HasFree(e, n) == HasAt(e, n) /\ ~e.claimed

UsesGen(n) ==
    \/ wt.gen = n \/ HasGen(entry, n)
    \/ \E q \in Procs : job[q].want = n \/ HasGen(job[q].snap, n) \/ HasGen(job[q].prior, n)
UsesAt(n) == HasAt(entry, n) \/ \E q \in Procs : HasAt(job[q].snap, n) \/ HasAt(job[q].prior, n)
UsesFree(n) == HasFree(entry, n) \/ \E q \in Procs : HasFree(job[q].snap, n) \/ HasFree(job[q].prior, n)

\* Numbers are drawn in order and once; until it has put its number into a store,
\* an operation alone knows it.
NumbersAreFresh ==
    /\ \A n \in Numbers : n > ops => ~UsesGen(n) /\ ~UsesAt(n)
    /\ \A p \in Procs :
          /\ pc[p] # "idle" => job[p].num <= ops
          /\ \A q \in Procs \ {p} :
                pc[p] # "idle" /\ pc[q] # "idle" => job[p].num # job[q].num
          /\ pc[p] # "idle" => ~HasAt(job[p].snap, job[p].num)
          /\ pc[p] \in Unstamped => ~UsesGen(job[p].num)
          /\ pc[p] \in Unclaimed => ~UsesAt(job[p].num)
          /\ pc[p] \in Claiming => ~UsesFree(job[p].num)

\* The generation an operation acts on.
Wants(p) ==
    /\ pc[p] \in {"acquire", "recover", "claim", "enter", "git", "stamp"} => job[p].want = 0
    /\ pc[p] = "complete" => job[p].want \in {0, job[p].num}
    /\ pc[p] \in {"expire", "undo", "forget"} => job[p].want = job[p].num
    /\ pc[p] \in {"finish", "reconcile", "confirm", "adopt"} => job[p].want # 0
    /\ pc[p] = "adopt" => wt.gen = job[p].want \/ wt = NoWorktree
    /\ pc[p] = "stamp" => wt.gen = 0

\* What forget and deregister will drop from the registry: an entry of the
\* generation they mean, or if that is none the entry they have loaded.
Drops(q) == pc[q] = "forget" \/ (pc[q] = "deregister" /\ ~IsClaimed(job[q].snap))
Meant(q) == IF pc[q] = "forget" THEN job[q].want ELSE job[q].snap.gen
Hit(q, e) == HasGen(e, Meant(q)) /\ (Meant(q) = 0 => e.at = job[q].snap.at)

\* While there is something unopened, none of them can hit its entry, nor one
\* that a creation may restore or complete.
Missed(q) ==
    /\ ~Hit(q, entry)
    /\ Meant(q) # 0 => wt.gen # Meant(q)
    /\ \A r \in Procs :
          /\ pc[r] \in {"enter", "git"} => ~Hit(q, job[r].snap)
          /\ pc[r] = "abort" => ~Hit(q, job[r].prior)
          /\ pc[r] \in {"finish", "complete"} /\ job[r].want # 0 => job[r].want # Meant(q)

DropsAreSafe ==
    Unopened => \A q \in Procs :
        /\ Drops(q) => Missed(q)
        /\ pc[q] = "deregister" => ~IsClaimed(job[q].snap)

\* A rollback is never of what another creation has just made.
UndoIsSafe ==
    \A p, q \in Procs :
        pc[p] \in {"stamp", "complete"} /\ pc[q] = "undo" => wt.gen # job[q].want

KInv ==
    /\ IInv
    /\ NumbersAreFresh
    /\ \A p \in Procs : Wants(p)
    /\ DropsAreSafe
    /\ UndoIsSafe

\* The steps that read the stores, or move locks, and learn nothing.
Quiet(p) ==
    \/ AcquireSource(p) \/ ReleaseCreation(p) \/ Reserve(p) \/ Hook(p)
    \/ Reenter(p) \/ CheckOutFails(p) \/ RemoveRecord(p) \/ DropReservation(p)
    \/ YieldReservation(p) \/ OwnRemoval(p) \/ InspectRemoval(p) \/ MatchRemoval(p)
    \/ OwnStale(p) \/ RecheckStale(p) \/ OwnReconcile(p) \/ ConfirmIdentity(p)
    \/ Crash(p)

\* The quiet steps leave the stores, and what p has loaded.
LEMMA QuietStays ==
    ASSUME LifecycleAssumption, IInv, NEW p \in Procs, Quiet(p)
    PROVE  /\ UNCHANGED stores /\ ops' = ops
           /\ job'[p] \in {job[p], NoJob} /\ pc[p] # "idle"
           /\ pc'[p] \in Unstamped \cup Claiming =>
                 pc[p] \in Unstamped \ {"stamp", "mark"} /\ job'[p] = job[p]
           /\ pc'[p] \in Unclaimed => pc[p] \in {"acquire", "recover"}
           /\ pc'[p] \notin Claiming \cup {"finish"}
           /\ pc'[p] # "idle" => job'[p] = job[p]
<1> USE DEF IInv, TypeOK, Unstamped, Unclaimed, Claiming, stores
<1>1. CASE AcquireSource(p)
  BY <1>1 DEF AcquireSource, AcquireCreation, Goto, Done, NoJob, stores, locks
<1>2. CASE ReleaseCreation(p)
  BY <1>2 DEF ReleaseCreation, Goto, Done, NoJob, stores, locks
<1>3. CASE Reserve(p)
  BY <1>3 DEF Reserve, Goto, Done, NoJob, stores, locks
<1>4. CASE Hook(p)
  BY <1>4 DEF Hook, Goto, stores, locks
<1>5. CASE Reenter(p)
  BY <1>5 DEF Reenter, Goto, stores, locks
<1>6. CASE CheckOutFails(p)
  BY <1>6 DEF CheckOutFails, Goto, stores, locks
<1>7. CASE RemoveRecord(p)
  BY <1>7 DEF RemoveRecord, Goto, stores, locks
<1>8. CASE DropReservation(p)
  BY <1>8 DEF DropReservation, Done, Goto, NoJob, stores, locks
<1>9. CASE YieldReservation(p)
  BY <1>9 DEF YieldReservation, Goto, stores, locks
<1>10. CASE OwnRemoval(p)
  BY <1>10 DEF OwnRemoval, AcquireCreation, Goto, Done, NoJob, stores, locks
<1>11. CASE InspectRemoval(p)
  BY <1>11 DEF InspectRemoval, Goto, Preflight, stores, locks
<1>12. CASE MatchRemoval(p)
  BY <1>12 DEF MatchRemoval, Goto, Unlocked, stores, locks
<1>13. CASE OwnStale(p)
  BY <1>13 DEF OwnStale, AcquireCreation, Goto, Done, NoJob, stores, locks
<1>14. CASE RecheckStale(p)
  BY <1>14 DEF RecheckStale, Goto, stores, locks
<1>15. CASE OwnReconcile(p)
  BY <1>15 DEF OwnReconcile, AcquireCreation, Goto, Done, NoJob, stores, locks
<1>16. CASE ConfirmIdentity(p)
  BY <1>16 DEF ConfirmIdentity, Goto, Preflight, stores, locks
<1>17. CASE Crash(p)
  BY <1>17 DEF Crash, Done, Goto, NoJob, stores, locks
<1> QED
  BY <1>1, <1>2, <1>3, <1>4, <1>5, <1>6, <1>7, <1>8, <1>9, <1>10, <1>11,
     <1>12, <1>13, <1>14, <1>15, <1>16, <1>17 DEF Quiet

\* Where p may find a generation or a registration.
OwnGen(p, n) ==
    \/ wt.gen = n \/ HasGen(entry, n)
    \/ job[p].want = n \/ HasGen(job[p].snap, n) \/ HasGen(job[p].prior, n)
OwnAt(p, n) == HasAt(entry, n) \/ HasAt(job[p].snap, n) \/ HasAt(job[p].prior, n)
OwnFree(p, n) == HasFree(entry, n) \/ HasFree(job[p].snap, n) \/ HasFree(job[p].prior, n)

\* A step of p makes nothing up but its number: it stamps the worktree with it,
\* claims the entry under it and completes the claim; and List draws one more.
Learns(p, n) ==
    /\ OwnGen(p, n)' => \/ OwnGen(p, n)
                          \/ (n = job[p].num /\ pc[p] \in {"stamp", "mark"})
                          \/ (n = ops + 1 /\ ops' = n /\ pc'[p] = "idle")
    /\ OwnAt(p, n)' => OwnAt(p, n) \/ (n = job[p].num /\ pc[p] \in {"claim", "expire"})
    /\ OwnFree(p, n)' => \/ OwnFree(p, n)
                         \/ n = job[p].num /\ pc[p] \in {"complete", "expire"}
                         \/ HasAt(entry, n) /\ creation = p /\ pc'[p] = "unlock"
                         \/ HasAt(job[p].snap, n) /\ creation = p


\* Recovery learns from the entry it finishes only.
LEMMA FinishLearns ==
    ASSUME LifecycleAssumption, IInv, NEW p \in Procs, FinishAbandoned(p), NEW n \in Numbers
    PROVE  Learns(p, n)
<1>1. /\ pc[p] = "finish" /\ pc'[p] = "unlock" /\ creation = p /\ wt' = wt
      /\ job'[p].snap = job[p].snap /\ job'[p].prior = job[p].prior /\ job'[p].want = 0
  BY DEF FinishAbandoned, Goto, IInv, Sound, Creating, TypeOK
<1>2. CASE entry' = entry
  BY <1>1, <1>2 DEF Learns, OwnGen, OwnAt, OwnFree, Numbers
<1>3. CASE entry' # entry
  <2>1. entry # NoEntry /\ entry' = [entry EXCEPT !.claimed = FALSE, !.gen = job[p].want]
    BY <1>3 DEF FinishAbandoned, CompleteCreation, IsClaimed
  <2>2. entry \in Entries BY <2>1 DEF IInv, TypeOK
  <2>3. entry'.at = entry.at /\ entry'.gen = job[p].want
    BY <2>1, <2>2 DEF Entries
  <2>4. HasAt(entry', n) => HasAt(entry, n) BY <2>1, <2>3 DEF HasAt
  <2>5. HasGen(entry', n) => job[p].want = n BY <2>3 DEF HasGen
  <2>6. OwnFree(p, n)' => OwnFree(p, n) \/ HasAt(entry, n) BY <2>4, <1>1 DEF OwnFree, HasFree
  <2>7. QED BY <1>1, <2>4, <2>5, <2>6 DEF Learns, OwnGen, OwnAt, Numbers
<1>4. QED BY <1>2, <1>3

\* Giving up learns from what the creation has loaded only.
LEMMA GiveUpLearns ==
    ASSUME LifecycleAssumption, IInv, NEW p \in Procs, GiveUp(p), UNCHANGED stores,
           pc[p] \in {"enter", "git"}, NEW n \in Numbers
    PROVE  Learns(p, n)
<1>1. /\ creation = p /\ entry' = entry /\ wt' = wt
      /\ job'[p].snap = job[p].snap /\ job'[p].want = job[p].want
  BY DEF GiveUp, IInv, Sound, Creating, TypeOK, stores
<1>2. job[p].snap \in Entries \cup {NoEntry} BY DEF IInv, TypeOK
<1>3. \/ job'[p].prior = job[p].snap
      \/ job'[p].prior = NoEntry
      \/ job[p].snap # NoEntry /\ job'[p].prior = [job[p].snap EXCEPT !.claimed = FALSE]
  BY DEF GiveUp, IInv, TypeOK, IsClaimed
<1>4. job'[p].prior # NoEntry =>
        job[p].snap # NoEntry /\ job'[p].prior.at = job[p].snap.at /\ job'[p].prior.gen = job[p].snap.gen
  BY <1>2, <1>3 DEF Entries
<1>5. HasAt(job'[p].prior, n) => HasAt(job[p].snap, n) BY <1>4 DEF HasAt
<1>6. HasGen(job'[p].prior, n) => HasGen(job[p].snap, n) BY <1>4 DEF HasGen
<1>7. OwnFree(p, n)' => OwnFree(p, n) \/ HasAt(job[p].snap, n) BY <1>1, <1>5 DEF OwnFree, HasFree
<1>8. QED BY <1>1, <1>5, <1>6, <1>7 DEF Learns, OwnGen, OwnAt

\* A removal learns nothing.
LEMMA RemoveLearns ==
    ASSUME LifecycleAssumption, IInv, NEW p \in Procs, Remove(p), NEW n \in Numbers
    PROVE  Learns(p, n)
<1>1. job' = job /\ (wt' = wt \/ wt'.gen = 0) /\ entry' \in {entry, NoEntry}
  <2>1. job' = job BY DEF Remove
  <2>2. \/ wt' = NoWorktree /\ entry' \in {NoEntry, entry}
        \/ wt' = wt /\ entry' = entry
    BY DEF Remove, stores
  <2>3. NoWorktree.gen = 0 BY DEF NoWorktree
  <2>4. QED BY <2>1, <2>2, <2>3
<1>2. ~HasAt(NoEntry, n) /\ ~HasGen(NoEntry, n) BY DEF HasAt, HasGen
<1>3. QED BY <1>1, <1>2 DEF Learns, OwnGen, OwnAt, OwnFree, HasFree, Numbers

\* An adoption learns from the worktree it adopts only.
LEMMA AdoptLearns ==
    ASSUME LifecycleAssumption, IInv, NEW p \in Procs, AdoptGeneration(p), NEW n \in Numbers
    PROVE  Learns(p, n)
<1>1. /\ job' = job /\ wt' = wt /\ pc[p] = "adopt"
      /\ IsClaimed(job[p].snap) => creation = p
      /\ job[p].snap \in Entries \cup {NoEntry} /\ job[p].snap # NoEntry
  BY DEF AdoptGeneration, IInv, Sound, Acting, Fixing, TypeOK
<1>2. CASE entry' = entry
  BY <1>1, <1>2 DEF Learns, OwnGen, OwnAt, OwnFree
<1>3. CASE entry' # entry
  <2>1. entry' = [job[p].snap EXCEPT !.claimed = FALSE, !.gen = job[p].want, !.expires = FALSE]
    BY <1>3 DEF AdoptGeneration, Swap
  <2>2. entry'.at = job[p].snap.at /\ entry'.gen = job[p].want
    BY <1>1, <2>1 DEF Entries
  <2>3. HasAt(entry', n) => HasAt(job[p].snap, n) BY <1>1, <2>2 DEF HasAt
  <2>4. HasGen(entry', n) => job[p].want = n BY <2>2 DEF HasGen
  <2>5. HasFree(entry', n) => HasFree(job[p].snap, n) \/ (HasAt(job[p].snap, n) /\ creation = p)
    BY <1>1, <2>3 DEF HasFree, HasAt, IsClaimed
  <2>6. QED BY <1>1, <2>3, <2>4, <2>5 DEF Learns, OwnGen, OwnAt, OwnFree
<1>4. QED BY <1>2, <1>3

\* What a step learns, for each step.
LEMMA LearnStep ==
    ASSUME LifecycleAssumption, IInv, NEW p \in Procs, Begin(p) \/ Step(p) \/ Crash(p),
           NEW n \in Numbers
    PROVE  Learns(p, n)
<1> USE DEF IInv, Sound, TypeOK, IsClaimed, Learns, OwnGen, OwnAt, OwnFree, HasGen, HasAt,
     HasFree, Entries, Generations, Numbers, Worktrees, NoWorktree, NoEntry, LifecycleAssumption
<1>0. CASE Quiet(p)
  BY <1>0, QuietStays DEF stores, NoJob
<1>1. CASE ReadAbandoned(p)
  BY <1>1 DEF ReadAbandoned, Goto, stores, locks, NoJob
<1>2. CASE FinishAbandoned(p)
  BY <1>2, FinishLearns
<1>3. CASE Claim(p)
  BY <1>3 DEF Claim, Goto, Claimable, Unlocked, locks, NoJob
<1>4. CASE EnterSource(p)
  BY <1>4, GiveUpLearns DEF EnterSource, stores
<1>5. CASE AddSource(p)
  BY <1>5 DEF AddSource, Goto, GitAdd, locks, NoJob
<1>6. CASE SourceFails(p)
  BY <1>6, GiveUpLearns DEF SourceFails, stores
<1>7. CASE SourceRemains(p)
  BY <1>7 DEF SourceRemains, Goto, GitAdd, locks, NoJob
<1>8. CASE StampSource(p)
  BY <1>8 DEF StampSource, Identify, Goto, locks, NoJob
<1>9. CASE CompleteSource(p)
  BY <1>9 DEF CompleteSource, Goto, CompleteCreation, Unlocked, locks, NoJob
<1>10. CASE AbortSource(p)
  BY <1>10 DEF AbortSource, Goto, Ours, Unlocked, locks, NoJob
<1>11. CASE UndoSource(p)
  BY <1>11 DEF UndoSource, Goto, Done, NoJob, locks
<1>12. CASE ForgetSource(p)
  BY <1>12 DEF ForgetSource, Done, Goto, NoJob, Unregister, Unlocked, locks
<1>13. CASE Expire(p)
  BY <1>13 DEF Expire, Done, Goto, NoJob, Unlocked, locks
<1>14. CASE CheckOut(p)
  BY <1>14 DEF CheckOut, Goto, GitAdd, locks, NoJob
<1>15. CASE StampLocal(p)
  BY <1>15 DEF StampLocal, Identify, Goto, locks, NoJob
<1>16. CASE Remove(p)
  BY <1>16, RemoveLearns
<1>17. CASE Survey(p)
  BY <1>17 DEF Survey, Done, Goto, NoJob, Fix, Active, stores, locks
<1>18. CASE Deregister(p)
  BY <1>18 DEF Deregister, Goto, Swap, Unlocked, Unregister, locks, NoJob
<1>19. CASE AdoptGeneration(p)
  BY <1>19, AdoptLearns
<1>20. CASE StartSource(p)
  BY <1>20 DEF StartSource, Start, Goto, stores, locks, NoJob
<1>21. CASE StartLocal(p)
  BY <1>21 DEF StartLocal, Start, Goto, stores, locks, NoJob
<1>22. CASE List(p)
  BY <1>22 DEF List, locks, NoJob
<1>23. CASE StartRemoval(p)
  BY <1>23 DEF StartRemoval, Start, Goto, stores, locks, NoJob
<1>24. CASE StartPrune(p)
  BY <1>24 DEF StartPrune, Start, Goto, stores, locks, NoJob
<1>25. CASE StartDoctor(p)
  BY <1>25 DEF StartDoctor, Start, Goto, stores, locks, NoJob
<1> QED
  BY <1>0, <1>1, <1>2, <1>3, <1>4, <1>5, <1>6, <1>7, <1>8, <1>9, <1>10,
     <1>11, <1>12, <1>13, <1>14, <1>15, <1>16, <1>17, <1>18, <1>19, <1>20,
     <1>21, <1>22, <1>23, <1>24, <1>25 DEF Begin, Step, Quiet

\* Where a step of p takes it: it keeps its number and what it has loaded, or
\* starts with the next number; it stamps once and claims once.
Moves(p) ==
    /\ ops' \in {ops, ops + 1}
    /\ pc'[p] # "idle" =>
          \/ pc[p] # "idle" /\ job'[p].num = job[p].num /\ job'[p].snap = job[p].snap
          \/ /\ pc[p] = "idle" /\ ops' = ops + 1 /\ job'[p].num = ops'
             /\ job'[p].snap \in {entry, NoEntry}
    /\ pc'[p] \in Unstamped => pc[p] \in (Unstamped \ {"stamp", "mark"}) \cup {"idle"}
    /\ pc'[p] \in Unclaimed => pc[p] \in {"idle", "acquire", "recover"}
    /\ pc'[p] \in Claiming => pc[p] \in (Claiming \ {"complete", "abort"}) \cup {"claim"}

\* How a step moves on, for each step.
LEMMA MoveStep ==
    ASSUME LifecycleAssumption, IInv, NEW p \in Procs, Begin(p) \/ Step(p) \/ Crash(p)
    PROVE  Moves(p)
<1> USE DEF IInv, TypeOK, Moves, Unstamped, Unclaimed, Claiming
<1>0. CASE Quiet(p)
  BY <1>0, QuietStays DEF NoJob
<1>1. CASE ReadAbandoned(p)
  BY <1>1 DEF ReadAbandoned, Goto, stores, locks, NoJob
<1>2. CASE FinishAbandoned(p)
  BY <1>2 DEF FinishAbandoned, Goto, CompleteCreation, Unlocked, locks, stores, NoJob
<1>3. CASE Claim(p)
  BY <1>3 DEF Claim, Goto, Claimable, Unlocked, locks, stores, NoJob
<1>4. CASE EnterSource(p)
  BY <1>4 DEF EnterSource, Goto, GiveUp, stores, locks, NoJob
<1>5. CASE AddSource(p)
  BY <1>5 DEF AddSource, Goto, GitAdd, locks, stores, NoJob
<1>6. CASE SourceFails(p)
  BY <1>6 DEF SourceFails, GiveUp, Goto, stores, locks, NoJob
<1>7. CASE SourceRemains(p)
  BY <1>7 DEF SourceRemains, Goto, GitAdd, locks, stores, NoJob
<1>8. CASE StampSource(p)
  BY <1>8 DEF StampSource, Identify, Goto, locks, stores, NoJob
<1>9. CASE CompleteSource(p)
  BY <1>9 DEF CompleteSource, Goto, CompleteCreation, Unlocked, locks, stores, NoJob
<1>10. CASE AbortSource(p)
  BY <1>10 DEF AbortSource, Goto, Ours, Unlocked, locks, stores, NoJob
<1>11. CASE UndoSource(p)
  BY <1>11 DEF UndoSource, Goto, Done, NoJob, locks, stores
<1>12. CASE ForgetSource(p)
  BY <1>12 DEF ForgetSource, Done, Goto, NoJob, Unregister, Unlocked, locks, stores
<1>13. CASE Expire(p)
  BY <1>13 DEF Expire, Done, Goto, NoJob, Unlocked, locks, stores
<1>14. CASE CheckOut(p)
  BY <1>14 DEF CheckOut, Goto, GitAdd, locks, stores, NoJob
<1>15. CASE StampLocal(p)
  BY <1>15 DEF StampLocal, Identify, Goto, locks, stores, NoJob
<1>16. CASE Remove(p)
  BY <1>16 DEF Remove, Goto, Preflight, stores, locks, NoJob
<1>17. CASE Survey(p)
  BY <1>17 DEF Survey, Done, Goto, NoJob, Fix, Active, stores, locks
<1>18. CASE Deregister(p)
  BY <1>18 DEF Deregister, Goto, Swap, Unlocked, Unregister, locks, stores, NoJob
<1>19. CASE AdoptGeneration(p)
  BY <1>19 DEF AdoptGeneration, Goto, Swap, Unlocked, locks, stores, NoJob
<1>20. CASE StartSource(p)
  BY <1>20 DEF StartSource, Start, Goto, stores, locks, NoJob
<1>21. CASE StartLocal(p)
  BY <1>21 DEF StartLocal, Start, Goto, stores, locks, NoJob
<1>22. CASE List(p)
  BY <1>22 DEF List, locks, stores, NoJob
<1>23. CASE StartRemoval(p)
  BY <1>23 DEF StartRemoval, Start, Goto, stores, locks, NoJob
<1>24. CASE StartPrune(p)
  BY <1>24 DEF StartPrune, Start, Goto, stores, locks, NoJob
<1>25. CASE StartDoctor(p)
  BY <1>25 DEF StartDoctor, Start, Goto, stores, locks, NoJob
<1> QED
  BY <1>0, <1>1, <1>2, <1>3, <1>4, <1>5, <1>6, <1>7, <1>8, <1>9, <1>10,
     <1>11, <1>12, <1>13, <1>14, <1>15, <1>16, <1>17, <1>18, <1>19, <1>20,
     <1>21, <1>22, <1>23, <1>24, <1>25 DEF Begin, Step, Quiet

\* The worktree is stamped with the number of the creation that made it.
LEMMA StampWants ==
    ASSUME LifecycleAssumption, IInv, NEW p \in Procs, Wants(p), StampSource(p)
    PROVE  /\ pc'[p] = "complete" /\ job'[p].num = job[p].num
           /\ wt' = wt \/ wt'.gen = job[p].num
           /\ job'[p].want = job[p].want \/ (job'[p].want = job[p].num /\ wt'.gen = job[p].num)
<1>1. pc[p] = "stamp" /\ wt.gen = 0 BY DEF StampSource, Wants
<1>2. pc'[p] = "complete" BY DEF StampSource, Identify, Goto, IInv, TypeOK
<1>3. CASE UNCHANGED <<wt, job>> BY <1>2, <1>3
<1>4. CASE Registered /\ wt' = [wt EXCEPT !.gen = IF @ = 0 THEN job[p].num ELSE @]
             /\ job' = [job EXCEPT ![p].want = wt'.gen]
  <2>1. wt \in Worktrees BY <1>4 DEF Registered, IInv, TypeOK
  <2>2. wt'.gen = job[p].num BY <1>1, <1>4, <2>1 DEF Worktrees
  <2>3. job'[p].num = job[p].num /\ job'[p].want = wt'.gen BY <1>4 DEF IInv, TypeOK
  <2>4. QED BY <1>2, <2>2, <2>3
<1>5. QED BY <1>3, <1>4 DEF StampSource, Identify

\* A step keeps to what it has loaded.
LEMMA WantsStep ==
    ASSUME LifecycleAssumption, IInv, NEW p \in Procs, Wants(p),
           Begin(p) \/ Step(p) \/ Crash(p)
    PROVE  Wants(p)'
<1> USE DEF IInv, Sound, TypeOK, Wants, Mutating
<1>1. CASE AcquireSource(p)
  BY <1>1 DEF AcquireSource, AcquireCreation, Goto, Done, NoJob, stores, locks
<1>2. CASE ReadAbandoned(p)
  BY <1>2 DEF ReadAbandoned, Goto, stores, locks, NoJob
<1>3. CASE FinishAbandoned(p)
  BY <1>3 DEF FinishAbandoned, Goto, CompleteCreation, Unlocked, locks, stores, NoJob
<1>4. CASE Claim(p)
  BY <1>4 DEF Claim, Goto, Claimable, Unlocked, locks, stores, NoJob
<1>5. CASE EnterSource(p)
  BY <1>5 DEF EnterSource, Goto, GiveUp, stores, locks, NoJob
<1>6. CASE AddSource(p)
  BY <1>6 DEF AddSource, Goto, GitAdd, locks, stores, NoJob
<1>7. CASE SourceFails(p)
  BY <1>7 DEF SourceFails, GiveUp, Goto, stores, locks, NoJob
<1>8. CASE SourceRemains(p)
  BY <1>8 DEF SourceRemains, Goto, GitAdd, locks, stores, NoJob
<1>9. CASE StampSource(p)
  BY <1>9, StampWants DEF StampSource
<1>10. CASE CompleteSource(p)
  BY <1>10 DEF CompleteSource, Goto, CompleteCreation, Unlocked, locks, stores, NoJob
<1>11. CASE AbortSource(p)
  BY <1>11 DEF AbortSource, Goto, Ours, Unlocked, locks, stores, NoJob
<1>12. CASE ReleaseCreation(p)
  BY <1>12 DEF ReleaseCreation, Goto, Done, NoJob, stores, locks
<1>13. CASE UndoSource(p)
  BY <1>13 DEF UndoSource, Goto, Done, NoJob, locks, stores
<1>14. CASE ForgetSource(p)
  BY <1>14 DEF ForgetSource, Done, Goto, NoJob, Unregister, Unlocked, locks, stores
<1>15. CASE Expire(p)
  BY <1>15 DEF Expire, Done, Goto, NoJob, Unlocked, locks, stores
<1>16. CASE Reserve(p)
  BY <1>16 DEF Reserve, Goto, Done, NoJob, stores, locks
<1>17. CASE CheckOut(p)
  BY <1>17 DEF CheckOut, Goto, GitAdd, locks, stores, NoJob
<1>18. CASE Hook(p)
  BY <1>18 DEF Hook, Goto, stores, locks, NoJob
<1>19. CASE Reenter(p)
  BY <1>19 DEF Reenter, Goto, stores, locks, NoJob
<1>20. CASE CheckOutFails(p)
  BY <1>20 DEF CheckOutFails, Goto, stores, locks, NoJob
<1>21. CASE RemoveRecord(p)
  BY <1>21 DEF RemoveRecord, Goto, stores, locks, NoJob
<1>22. CASE DropReservation(p)
  BY <1>22 DEF DropReservation, Done, Goto, NoJob, stores, locks
<1>23. CASE YieldReservation(p)
  BY <1>23 DEF YieldReservation, Goto, stores, locks, NoJob
<1>24. CASE StampLocal(p)
  BY <1>24 DEF StampLocal, Identify, Goto, locks, stores, NoJob
<1>25. CASE OwnRemoval(p)
  BY <1>25 DEF OwnRemoval, AcquireCreation, Goto, Done, NoJob, stores, locks
<1>26. CASE InspectRemoval(p)
  BY <1>26 DEF InspectRemoval, Goto, Preflight, stores, locks, NoJob
<1>27. CASE MatchRemoval(p)
  BY <1>27 DEF MatchRemoval, Goto, Unlocked, stores, locks, NoJob
<1>28. CASE Remove(p)
  BY <1>28 DEF Remove, Goto, Preflight, stores, locks, NoJob
<1>29. CASE Survey(p)
  BY <1>29 DEF Survey, Done, Goto, NoJob, Fix, Active, stores, locks
<1>30. CASE OwnStale(p)
  BY <1>30 DEF OwnStale, AcquireCreation, Goto, Done, NoJob, stores, locks
<1>31. CASE RecheckStale(p)
  BY <1>31 DEF RecheckStale, Goto, stores, locks, NoJob
<1>32. CASE Deregister(p)
  BY <1>32 DEF Deregister, Goto, Swap, Unlocked, Unregister, locks, stores, NoJob
<1>33. CASE OwnReconcile(p)
  BY <1>33 DEF OwnReconcile, AcquireCreation, Goto, Done, NoJob, stores, locks
<1>34. CASE ConfirmIdentity(p)
  BY <1>34 DEF ConfirmIdentity, Goto, Preflight, stores, locks, NoJob
<1>35. CASE AdoptGeneration(p)
  BY <1>35 DEF AdoptGeneration, Goto, Swap, Unlocked, locks, stores, NoJob
<1>36. CASE Crash(p)
  BY <1>36 DEF Crash, Done, Goto, NoJob, stores, locks
<1>37. CASE StartSource(p)
  BY <1>37 DEF StartSource, Start, Goto, stores, locks, NoJob
<1>38. CASE StartLocal(p)
  BY <1>38 DEF StartLocal, Start, Goto, stores, locks, NoJob
<1>39. CASE List(p)
  BY <1>39 DEF List, locks, stores, NoJob
<1>40. CASE StartRemoval(p)
  BY <1>40 DEF StartRemoval, Start, Goto, stores, locks, NoJob
<1>41. CASE StartPrune(p)
  BY <1>41 DEF StartPrune, Start, Goto, stores, locks, NoJob
<1>42. CASE StartDoctor(p)
  BY <1>42 DEF StartDoctor, Start, Goto, stores, locks, NoJob
<1> QED
  BY <1>1, <1>2, <1>3, <1>4, <1>5, <1>6, <1>7, <1>8, <1>9, <1>10, <1>11,
     <1>12, <1>13, <1>14, <1>15, <1>16, <1>17, <1>18, <1>19, <1>20, <1>21,
     <1>22, <1>23, <1>24, <1>25, <1>26, <1>27, <1>28, <1>29, <1>30, <1>31,
     <1>32, <1>33, <1>34, <1>35, <1>36, <1>37, <1>38, <1>39, <1>40, <1>41,
     <1>42 DEF Begin, Step

\* What a step of p does to the worktree, and how it comes to mean to drop
\* something.
Touches(p) ==
    /\ \/ wt'.gen \in {0, wt.gen} \/ wt'.gen = ops + 1
       \/ wt'.gen = job[p].num /\ pc[p] \in {"stamp", "mark"}
    /\ Unopened' => Unopened \/ AddSource(p) \/ SourceRemains(p)
    /\ pc'[p] \in {"forget", "deregister"} => ~Unopened'
    /\ pc'[p] \in {"stamp", "complete"} => pc[p] = "stamp" \/ (pc[p] = "git" /\ wt'.gen = 0)
    /\ pc'[p] = "undo" => creation = p

\* A removal leaves a worktree or none.
LEMMA RemoveTouches ==
    ASSUME LifecycleAssumption, IInv, NEW p \in Procs, Remove(p)
    PROVE  Touches(p)
<1>1. (wt' = NoWorktree \/ (wt' = wt /\ files' = files)) /\ pc'[p] = "unlock"
  BY DEF Remove, stores, Goto, IInv, TypeOK
<1>2. CASE wt' = NoWorktree
  <2>1. wt'.gen = 0 /\ ~Registered' BY <1>2 DEF NoWorktree, Registered
  <2>2. QED BY <1>1, <2>1 DEF Touches, Unopened
<1>3. CASE wt' = wt /\ files' = files BY <1>1, <1>3 DEF Touches, Unopened, Registered
<1>4. QED BY <1>1, <1>2, <1>3

\* What a step does to the worktree, for each step.
LEMMA TouchStep ==
    ASSUME LifecycleAssumption, IInv, NEW p \in Procs, Begin(p) \/ Step(p) \/ Crash(p)
    PROVE  Touches(p)
<1> USE DEF IInv, TypeOK, Touches, Unopened, Registered, Worktrees, NoWorktree
<1>1. CASE AcquireSource(p)
  BY <1>1 DEF AcquireSource, AcquireCreation, Goto, Done, NoJob, stores, locks
<1>2. CASE ReadAbandoned(p)
  BY <1>2 DEF ReadAbandoned, Goto, stores, locks
<1>3. CASE FinishAbandoned(p)
  BY <1>3 DEF FinishAbandoned, Goto, CompleteCreation, Unlocked, locks, stores
<1>4. CASE Claim(p)
  BY <1>4 DEF Claim, Goto, Claimable, Unlocked, locks, stores
<1>5. CASE EnterSource(p)
  BY <1>5 DEF EnterSource, Goto, GiveUp, stores, locks
<1>6. CASE AddSource(p)
  BY <1>6 DEF AddSource, Goto, GitAdd, locks, stores
<1>7. CASE SourceFails(p)
  BY <1>7 DEF SourceFails, GiveUp, Goto, stores, locks
<1>8. CASE SourceRemains(p)
  BY <1>8 DEF SourceRemains, Goto, GitAdd, locks, stores
<1>9. CASE StampSource(p)
  BY <1>9 DEF StampSource, Identify, Goto, locks, stores
<1>10. CASE CompleteSource(p)
  BY <1>10 DEF CompleteSource, Goto, CompleteCreation, Unlocked, locks, stores
<1>11. CASE AbortSource(p)
  BY <1>11 DEF AbortSource, Goto, Ours, Unlocked, locks, stores
<1>12. CASE ReleaseCreation(p)
  BY <1>12 DEF ReleaseCreation, Goto, Done, NoJob, stores, locks
<1>13. CASE UndoSource(p)
  BY <1>13 DEF UndoSource, Goto, Done, NoJob, locks, stores
<1>14. CASE ForgetSource(p)
  BY <1>14 DEF ForgetSource, Done, Goto, NoJob, Unregister, Unlocked, locks, stores
<1>15. CASE Expire(p)
  BY <1>15 DEF Expire, Done, Goto, NoJob, Unlocked, locks, stores
<1>16. CASE Reserve(p)
  BY <1>16 DEF Reserve, Goto, Done, NoJob, stores, locks
<1>17. CASE CheckOut(p)
  BY <1>17 DEF CheckOut, Goto, GitAdd, locks, stores
<1>18. CASE Hook(p)
  BY <1>18 DEF Hook, Goto, stores, locks
<1>19. CASE Reenter(p)
  BY <1>19 DEF Reenter, Goto, stores, locks
<1>20. CASE CheckOutFails(p)
  BY <1>20 DEF CheckOutFails, Goto, stores, locks
<1>21. CASE RemoveRecord(p)
  BY <1>21 DEF RemoveRecord, Goto, stores, locks
<1>22. CASE DropReservation(p)
  BY <1>22 DEF DropReservation, Done, Goto, NoJob, stores, locks
<1>23. CASE YieldReservation(p)
  BY <1>23 DEF YieldReservation, Goto, stores, locks
<1>24. CASE StampLocal(p)
  BY <1>24 DEF StampLocal, Identify, Goto, locks, stores
<1>25. CASE OwnRemoval(p)
  BY <1>25 DEF OwnRemoval, AcquireCreation, Goto, Done, NoJob, stores, locks
<1>26. CASE InspectRemoval(p)
  BY <1>26 DEF InspectRemoval, Goto, Preflight, stores, locks
<1>27. CASE MatchRemoval(p)
  BY <1>27 DEF MatchRemoval, Goto, Unlocked, stores, locks
<1>28. CASE Remove(p)
  BY <1>28, RemoveTouches
<1>29. CASE Survey(p)
  BY <1>29 DEF Survey, Done, Goto, NoJob, Fix, Active, stores, locks
<1>30. CASE OwnStale(p)
  BY <1>30 DEF OwnStale, AcquireCreation, Goto, Done, NoJob, stores, locks
<1>31. CASE RecheckStale(p)
  BY <1>31 DEF RecheckStale, Goto, stores, locks
<1>32. CASE Deregister(p)
  BY <1>32 DEF Deregister, Goto, Swap, Unlocked, Unregister, locks, stores
<1>33. CASE OwnReconcile(p)
  BY <1>33 DEF OwnReconcile, AcquireCreation, Goto, Done, NoJob, stores, locks
<1>34. CASE ConfirmIdentity(p)
  BY <1>34 DEF ConfirmIdentity, Goto, Preflight, stores, locks
<1>35. CASE AdoptGeneration(p)
  BY <1>35 DEF AdoptGeneration, Goto, Swap, Unlocked, locks, stores
<1>36. CASE Crash(p)
  BY <1>36 DEF Crash, Done, Goto, NoJob, stores, locks
<1>37. CASE StartSource(p)
  BY <1>37 DEF StartSource, Start, Goto, stores, locks
<1>38. CASE StartLocal(p)
  BY <1>38 DEF StartLocal, Start, Goto, stores, locks
<1>39. CASE List(p)
  BY <1>39 DEF List, locks, stores
<1>40. CASE StartRemoval(p)
  BY <1>40 DEF StartRemoval, Start, Goto, stores, locks
<1>41. CASE StartPrune(p)
  BY <1>41 DEF StartPrune, Start, Goto, stores, locks
<1>42. CASE StartDoctor(p)
  BY <1>42 DEF StartDoctor, Start, Goto, stores, locks
<1> QED
  BY <1>1, <1>2, <1>3, <1>4, <1>5, <1>6, <1>7, <1>8, <1>9, <1>10, <1>11,
     <1>12, <1>13, <1>14, <1>15, <1>16, <1>17, <1>18, <1>19, <1>20, <1>21,
     <1>22, <1>23, <1>24, <1>25, <1>26, <1>27, <1>28, <1>29, <1>30, <1>31,
     <1>32, <1>33, <1>34, <1>35, <1>36, <1>37, <1>38, <1>39, <1>40, <1>41,
     <1>42 DEF Begin, Step

\* What misses the entry before a step of p misses it after, if it does not mean
\* what p alone knows.
Hits(e, g, n) == HasGen(e, g) /\ (g = 0 => e.at = n)

Misses(p, g, n) ==
    /\ ~Hits(entry, g, n)
    /\ g # 0 => wt.gen # g
    /\ pc[p] \in {"enter", "git"} => ~Hits(job[p].snap, g, n)
    /\ pc[p] = "abort" => ~Hits(job[p].prior, g, n)
    /\ pc[p] \in {"finish", "complete"} /\ job[p].want # 0 => job[p].want # g

\* What a step means to drop it has read before, for each step.
LEMMA MissStep ==
    ASSUME LifecycleAssumption, IInv, NEW p \in Procs, Begin(p) \/ Step(p) \/ Crash(p),
           Wants(p), NEW g \in Generations, NEW n \in Nat, Misses(p, g, n), Unopened, Unopened',
           g # 0 /\ pc[p] \in Unstamped => job[p].num # g,
           g = 0 /\ pc[p] \in Claiming \cup Unclaimed => job[p].num # n,
           g <= ops
    PROVE  Misses(p, g, n)'
<1> USE DEF IInv, Sound, TypeOK, IsClaimed, Misses, Hits, HasGen, Wants, Unstamped, Unclaimed,
     Claiming, Entries, Generations, Numbers, Worktrees, NoWorktree, NoEntry, Unopened,
     Registered, LifecycleAssumption
<1>0. CASE Quiet(p)
  BY <1>0, QuietStays DEF stores, NoJob
<1>1. CASE ReadAbandoned(p)
  BY <1>1 DEF ReadAbandoned, Goto, stores, locks, NoJob
<1>2. CASE FinishAbandoned(p)
  BY <1>2 DEF FinishAbandoned, Goto, CompleteCreation, Unlocked, locks, stores, NoJob
<1>3. CASE Claim(p)
  BY <1>3 DEF Claim, Goto, Claimable, Unlocked, locks, stores, NoJob
<1>4. CASE EnterSource(p)
  BY <1>4 DEF EnterSource, Goto, GiveUp, stores, locks, NoJob
<1>5. CASE AddSource(p)
  BY <1>5 DEF AddSource, Goto, GitAdd, locks, stores, NoJob
<1>6. CASE SourceFails(p)
  BY <1>6 DEF SourceFails, GiveUp, Goto, stores, locks, NoJob
<1>7. CASE SourceRemains(p)
  BY <1>7 DEF SourceRemains, Goto, GitAdd, locks, stores, NoJob
<1>8. CASE StampSource(p)
  BY <1>8 DEF StampSource, Identify, Goto, locks, stores, NoJob
<1>9. CASE CompleteSource(p)
  BY <1>9 DEF CompleteSource, Goto, CompleteCreation, Unlocked, locks, stores, NoJob
<1>10. CASE AbortSource(p)
  BY <1>10 DEF AbortSource, Goto, Ours, Unlocked, locks, stores, NoJob
<1>11. CASE UndoSource(p)
  BY <1>11 DEF UndoSource, Goto, Done, NoJob, locks, stores
<1>12. CASE ForgetSource(p)
  BY <1>12 DEF ForgetSource, Done, Goto, NoJob, Unregister, Unlocked, locks, stores
<1>13. CASE Expire(p)
  BY <1>13 DEF Expire, Done, Goto, NoJob, Unlocked, locks, stores
<1>14. CASE CheckOut(p)
  BY <1>14 DEF CheckOut, Goto, GitAdd, locks, stores, NoJob
<1>15. CASE StampLocal(p)
  BY <1>15 DEF StampLocal, Identify, Goto, locks, stores, NoJob
<1>16. CASE Remove(p)
  BY <1>16 DEF Remove, Goto, Preflight, stores, locks, NoJob
<1>17. CASE Survey(p)
  BY <1>17 DEF Survey, Done, Goto, NoJob, Fix, Active, stores, locks
<1>18. CASE Deregister(p)
  BY <1>18 DEF Deregister, Goto, Swap, Unlocked, Unregister, locks, stores, NoJob
<1>19. CASE AdoptGeneration(p)
  BY <1>19 DEF AdoptGeneration, Goto, Swap, Unlocked, locks, stores, NoJob
<1>20. CASE StartSource(p)
  BY <1>20 DEF StartSource, Start, Goto, stores, locks, NoJob
<1>21. CASE StartLocal(p)
  BY <1>21 DEF StartLocal, Start, Goto, stores, locks, NoJob
<1>22. CASE List(p)
  BY <1>22 DEF List, locks, stores, NoJob
<1>23. CASE StartRemoval(p)
  BY <1>23 DEF StartRemoval, Start, Goto, stores, locks, NoJob
<1>24. CASE StartPrune(p)
  BY <1>24 DEF StartPrune, Start, Goto, stores, locks, NoJob
<1>25. CASE StartDoctor(p)
  BY <1>25 DEF StartDoctor, Start, Goto, stores, locks, NoJob
<1> QED
  BY <1>0, <1>1, <1>2, <1>3, <1>4, <1>5, <1>6, <1>7, <1>8, <1>9, <1>10,
     <1>11, <1>12, <1>13, <1>14, <1>15, <1>16, <1>17, <1>18, <1>19, <1>20,
     <1>21, <1>22, <1>23, <1>24, <1>25 DEF Begin, Step, Quiet

\* A step is of one process.
LEMMA OtherJobs ==
    ASSUME LifecycleAssumption, IInv, NEW p \in Procs, Begin(p) \/ Step(p) \/ Crash(p)
    PROVE  \A q \in Procs \ {p} : pc'[q] = pc[q] /\ job'[q] = job[q]
  BY FrameStep DEF Frame

\* A number in use was in use before, or is the one a creation stamps.
LEMMA UsesStep ==
    ASSUME LifecycleAssumption, IInv, NEW p \in Procs, Begin(p) \/ Step(p) \/ Crash(p),
           NEW n \in Numbers
    PROVE  /\ UsesGen(n)' => \/ UsesGen(n)
                             \/ (n = job[p].num /\ pc[p] \in {"stamp", "mark"})
                             \/ (n = ops + 1 /\ ops' = n /\ pc'[p] = "idle")
           /\ UsesAt(n)' => UsesAt(n) \/ (n = job[p].num /\ pc[p] \in {"claim", "expire"})
           /\ UsesFree(n)' => \/ UsesFree(n)
                              \/ n = job[p].num /\ pc[p] \in {"complete", "expire"}
                              \/ HasAt(entry, n) /\ creation = p /\ pc'[p] = "unlock"
                              \/ HasAt(job[p].snap, n) /\ creation = p
<1>1. Learns(p, n) BY LearnStep
<1>2. \A q \in Procs \ {p} : job'[q] = job[q] BY OtherJobs
<1>3. UsesGen(n)' => OwnGen(p, n)' \/ UsesGen(n) BY <1>2 DEF UsesGen, OwnGen
<1>4. UsesAt(n)' => OwnAt(p, n)' \/ UsesAt(n) BY <1>2 DEF UsesAt, OwnAt
<1>5. UsesFree(n)' => OwnFree(p, n)' \/ UsesFree(n) BY <1>2 DEF UsesFree, OwnFree
<1>6. OwnGen(p, n) => UsesGen(n) BY DEF UsesGen, OwnGen
<1>7. OwnAt(p, n) => UsesAt(n) BY DEF UsesAt, OwnAt
<1>8. OwnFree(p, n) => UsesFree(n) BY DEF UsesFree, OwnFree
<1>9. QED BY <1>1, <1>3, <1>4, <1>5, <1>6, <1>7, <1>8 DEF Learns

\* Who knows an entry unclaimed, knows it.
LEMMA FreeIsAt == ASSUME NEW n PROVE UsesFree(n) => UsesAt(n)
  BY DEF UsesFree, UsesAt, HasFree

\* A number that is not yet stamped is used nowhere.
LEMMA FreshStep ==
    ASSUME LifecycleAssumption, IInv, NumbersAreFresh, NEW p \in Procs,
           Begin(p) \/ Step(p) \/ Crash(p)
    PROVE  NumbersAreFresh'
<1>1. Moves(p) BY MoveStep
<1>2. \A q \in Procs \ {p} : pc'[q] = pc[q] /\ job'[q] = job[q] BY OtherJobs
<1>3. /\ ops \in Nat /\ ops' \in Nat /\ ops <= ops' /\ MaxOps \in Nat
      /\ \A q \in Procs : pc[q] # "idle" => job[q].num \in Numbers /\ Sound(q)
  BY <1>1 DEF IInv, TypeOK, Sound, Moves, LifecycleAssumption
<1>4. ops' <= MaxOps BY TypesStep DEF TypeOK, IInv, LifecycleAssumption
<1>5. ASSUME NEW n \in Numbers, n > ops' PROVE ~UsesGen(n)' /\ ~UsesAt(n)'
  <2>1. n > ops /\ ~(n = ops + 1 /\ ops' = n) BY <1>3, <1>5 DEF Numbers
  <2>2. ~UsesGen(n) /\ ~UsesAt(n) BY <2>1 DEF NumbersAreFresh
  <2>3. pc[p] # "idle" => n # job[p].num BY <1>3, <2>1 DEF NumbersAreFresh, Numbers
  <2>4. QED BY <2>1, <2>2, <2>3, UsesStep
<1>6. ASSUME NEW r \in Procs, pc'[r] # "idle"
      PROVE  /\ job'[r].num \in Numbers /\ job'[r].num <= ops'
             /\ ~HasAt(job'[r].snap, job'[r].num)
             /\ r # p => job'[r].num <= ops
  <2>1. CASE r # p BY <1>2, <1>3, <1>6, <2>1 DEF NumbersAreFresh, Numbers
  <2>2. CASE r = p /\ pc[p] # "idle"
    BY <1>1, <1>3, <1>6, <2>2 DEF NumbersAreFresh, Moves, Numbers
  <2>3. CASE r = p /\ pc[p] = "idle"
    <3>1. ops' = ops + 1 /\ job'[p].num = ops + 1 /\ job'[p].snap \in {entry, NoEntry}
      BY <1>1, <1>6, <2>3 DEF Moves
    <3>2. ops + 1 \in Numbers /\ ops + 1 > ops BY <1>3, <1>4, <3>1 DEF Numbers
    <3>3. ~UsesAt(ops + 1) BY <3>2 DEF NumbersAreFresh
    <3>4. QED BY <1>3, <2>3, <3>1, <3>2, <3>3 DEF UsesAt, HasAt
  <2>4. QED BY <2>1, <2>2, <2>3
<1>7. ASSUME NEW r \in Procs, NEW q \in Procs \ {r}, pc'[r] # "idle", pc'[q] # "idle"
      PROVE  job'[r].num # job'[q].num
  <2>1. \A x \in Procs : pc'[x] # "idle" =>
           \/ pc[x] # "idle" /\ job'[x].num = job[x].num
           \/ x = p /\ job'[x].num = ops + 1
    BY <1>1, <1>2 DEF Moves
  <2>2. \A x \in Procs : pc[x] # "idle" => job[x].num # ops + 1
    BY <1>3 DEF NumbersAreFresh, Numbers
  <2>3. QED BY <1>7, <2>1, <2>2 DEF NumbersAreFresh
<1>8. ASSUME NEW r \in Procs, NEW n \in Numbers, n = job'[r].num, pc'[r] \in Unstamped PROVE ~UsesGen(n)'
  <2>1. pc'[r] # "idle" /\ job'[r].num \in Numbers /\ n = job'[r].num BY <1>6, <1>8 DEF Unstamped
  <2>2. CASE r # p
    <3>1. pc[r] \in Unstamped /\ pc[r] # "idle" /\ job'[r].num = job[r].num BY <1>2, <1>8, <2>1, <2>2
    <3>2. ~UsesGen(job[r].num) BY <3>1 DEF NumbersAreFresh
    <3>3. pc[p] \in {"stamp", "mark"} => job[r].num # job[p].num BY <2>2, <3>1 DEF NumbersAreFresh
    <3>4. job[r].num # ops + 1 BY <1>3, <3>1 DEF NumbersAreFresh, Numbers
    <3>5. QED BY <2>1, <3>1, <3>2, <3>3, <3>4, UsesStep
  <2>3. CASE r = p /\ pc[p] # "idle"
    <3>1. pc[p] \in Unstamped \ {"stamp", "mark"} /\ job'[p].num = job[p].num
      BY <1>1, <1>8, <2>1, <2>3 DEF Moves
    <3>2. ~UsesGen(job[p].num) BY <3>1 DEF NumbersAreFresh
    <3>3. QED BY <2>1, <2>3, <3>1, <3>2, UsesStep
  <2>4. CASE r = p /\ pc[p] = "idle"
    <3>1. job'[p].num = ops + 1 BY <1>1, <2>1, <2>4 DEF Moves
    <3>2. ops + 1 > ops BY <1>3
    <3>3. ~UsesGen(ops + 1) BY <2>1, <2>4, <3>1, <3>2 DEF NumbersAreFresh
    <3>4. QED BY <2>1, <2>4, <3>1, <3>3, UsesStep
  <2>5. QED BY <2>2, <2>3, <2>4
<1>9. ASSUME NEW r \in Procs, NEW n \in Numbers, n = job'[r].num, pc'[r] \in Unclaimed PROVE ~UsesAt(n)'
  <2>1. pc'[r] # "idle" /\ job'[r].num \in Numbers /\ n = job'[r].num BY <1>6, <1>9 DEF Unclaimed
  <2>2. CASE r # p
    <3>1. pc[r] \in Unclaimed /\ pc[r] # "idle" /\ job'[r].num = job[r].num BY <1>2, <1>9, <2>1, <2>2
    <3>2. ~UsesAt(job[r].num) BY <3>1 DEF NumbersAreFresh
    <3>3. pc[p] # "idle" => job[r].num # job[p].num BY <2>2, <3>1 DEF NumbersAreFresh
    <3>4. QED BY <2>1, <3>1, <3>2, <3>3, UsesStep
  <2>3. CASE r = p /\ pc[p] # "idle"
    <3>1. pc[p] \in {"acquire", "recover"} /\ job'[p].num = job[p].num
      BY <1>1, <1>9, <2>1, <2>3 DEF Moves
    <3>2. ~UsesAt(job[p].num) BY <3>1 DEF NumbersAreFresh, Unclaimed
    <3>3. QED BY <2>1, <2>3, <3>1, <3>2, UsesStep
  <2>4. CASE r = p /\ pc[p] = "idle"
    <3>1. job'[p].num = ops + 1 BY <1>1, <2>1, <2>4 DEF Moves
    <3>2. ops + 1 > ops BY <1>3
    <3>3. ~UsesAt(ops + 1) BY <2>1, <2>4, <3>1, <3>2 DEF NumbersAreFresh
    <3>4. QED BY <2>1, <2>4, <3>1, <3>3, UsesStep
  <2>5. QED BY <2>2, <2>3, <2>4
<1>10. ASSUME NEW r \in Procs, NEW n \in Numbers, n = job'[r].num, pc'[r] \in Claiming PROVE ~UsesFree(n)'
  <2>1. pc'[r] # "idle" /\ job'[r].num \in Numbers /\ n = job'[r].num BY <1>6, <1>10 DEF Claiming
  <2>2. CASE r # p
    <3>1. pc[r] \in Claiming /\ pc[r] # "idle" /\ job'[r].num = job[r].num BY <1>2, <1>10, <2>1, <2>2
    <3>2. ~UsesFree(job[r].num) BY <3>1 DEF NumbersAreFresh
    <3>3. pc[p] # "idle" => job[r].num # job[p].num BY <2>2, <3>1 DEF NumbersAreFresh
    <3>4. creation # p BY <1>3, <2>2, <3>1 DEF Sound, Claiming, Creating
    <3>5. QED BY <2>1, <3>1, <3>2, <3>3, <3>4, UsesStep
  <2>3. CASE r = p
    <3>1. pc[p] \in (Claiming \ {"complete", "abort"}) \cup {"claim"}
      BY <1>1, <1>10, <2>3 DEF Moves
    <3>2. pc[p] # "idle" /\ pc[p] \notin {"complete", "expire"} /\ pc'[p] # "unlock"
      BY <1>10, <2>3, <3>1 DEF Claiming
    <3>3. job'[p].num = job[p].num /\ ~HasAt(job[p].snap, job[p].num)
      BY <1>1, <2>1, <2>3, <3>2 DEF Moves, NumbersAreFresh
    <3>4. ~UsesFree(job[p].num)
      BY <3>1, FreeIsAt DEF NumbersAreFresh, Unclaimed
    <3>5. QED BY <2>1, <2>3, <3>2, <3>3, <3>4, UsesStep
  <2>4. QED BY <2>2, <2>3
<1>11. ASSUME NEW r \in Procs
       PROVE  /\ pc'[r] \in Unstamped => ~UsesGen(job[r].num)'
              /\ pc'[r] \in Unclaimed => ~UsesAt(job[r].num)'
              /\ pc'[r] \in Claiming => ~UsesFree(job[r].num)'
  <2>1. CASE pc'[r] = "idle" BY <2>1 DEF Unstamped, Unclaimed, Claiming
  <2>2. CASE pc'[r] # "idle"
    <3>1. PICK n \in Numbers : n = job'[r].num BY <1>6, <2>2
    <3>2. /\ pc'[r] \in Unstamped => ~UsesGen(n)'
          /\ pc'[r] \in Unclaimed => ~UsesAt(n)'
          /\ pc'[r] \in Claiming => ~UsesFree(n)'
      BY <1>8, <1>9, <1>10, <3>1
    <3>3. QED BY <3>1, <3>2 DEF UsesGen, UsesAt, UsesFree
  <2>3. QED BY <2>1, <2>2
<1>12. QED BY <1>5, <1>6, <1>7, <1>11 DEF NumbersAreFresh

\* What the others have loaded, a step leaves to them.
LEMMA OthersWant ==
    ASSUME LifecycleAssumption, IInv, NEW p \in Procs, Begin(p) \/ Step(p) \/ Crash(p),
           NEW q \in Procs \ {p}, Wants(q)
    PROVE  Wants(q)'
<1>1. pc'[q] = pc[q] /\ job'[q] = job[q] BY OtherJobs
<1>2. pc[q] \in {"adopt", "stamp"} => mutex = q /\ ~Reserved
  BY DEF IInv, Sound, Mutating
<1>3. Frame(p) /\ q # Nobody BY FrameStep DEF LifecycleAssumption
<1>4. pc[q] \in {"adopt", "stamp"} => wt' = wt BY <1>2, <1>3 DEF Frame
<1>5. QED BY <1>1, <1>4 DEF Wants

\* No rollback is of what another creation has just made.
LEMMA UndoStep ==
    ASSUME LifecycleAssumption, KInv, NEW a \in Procs, Begin(a) \/ Step(a) \/ Crash(a)
    PROVE  UndoIsSafe'
<1> SUFFICES ASSUME NEW p \in Procs, NEW q \in Procs,
                    pc'[p] \in {"stamp", "complete"}, pc'[q] = "undo"
             PROVE  wt'.gen # job'[q].want
  BY DEF UndoIsSafe
<1>1. Touches(a) /\ Moves(a) BY TouchStep, MoveStep DEF KInv
<1>2. \A r \in Procs \ {a} : pc'[r] = pc[r] /\ job'[r] = job[r] BY OtherJobs DEF KInv
<1>3. p # q OBVIOUS
<1>4. \A r \in Procs : pc[r] \in {"git", "stamp", "complete"} => creation = r
  BY DEF KInv, IInv, Sound, Creating
<1>5. pc[p] \in {"git", "stamp", "complete"}
  BY <1>1, <1>2 DEF Touches
<1>6. q # a BY <1>1, <1>3, <1>4, <1>5 DEF Touches
<1>7. /\ pc[q] = "undo" /\ job'[q].want = job[q].want /\ job[q].want = job[q].num
      /\ job[q].num \in Numbers /\ job[q].num <= ops /\ ops \in Nat
  BY <1>2, <1>6 DEF KInv, Wants, NumbersAreFresh, IInv, Sound, TypeOK
<1>8. job[q].want # 0 /\ job[q].want # ops + 1 BY <1>7 DEF Numbers
<1>9. wt'.gen # wt.gen => wt'.gen # job[q].want
  <2>1. pc[a] \in {"stamp", "mark"} => job[a].num # job[q].num
    BY <1>6, <1>7 DEF KInv, NumbersAreFresh
  <2>2. QED BY <1>1, <1>7, <1>8, <2>1 DEF Touches
<1>10. CASE pc[p] \in {"stamp", "complete"}
  BY <1>7, <1>9, <1>10 DEF KInv, UndoIsSafe
<1>11. CASE pc[p] = "git"
  <2>1. p = a BY <1>2, <1>11
  <2>2. wt'.gen = 0 BY <1>1, <1>11, <2>1 DEF Touches
  <2>3. QED BY <1>7, <1>8, <2>2
<1>12. QED BY <1>5, <1>10, <1>11

\* What q means to drop is known, and so is nothing that another process alone
\* knows.
LEMMA MeantIsKnown ==
    ASSUME LifecycleAssumption, KInv, NEW p \in Procs, NEW q \in Procs \ {p}, Drops(q)
    PROVE  /\ Meant(q) \in Generations /\ Meant(q) <= ops /\ job[q].snap.at \in Nat
           /\ Meant(q) # 0 /\ pc[p] \in Unstamped => job[p].num # Meant(q)
           /\ Meant(q) = 0 /\ pc[p] \in Claiming \cup Unclaimed => job[p].num # job[q].snap.at
<1>1. /\ ops \in Nat /\ job[q].snap \in Entries \cup {NoEntry} /\ Sound(q) /\ Wants(q)
      /\ job[q].want \in Generations
  BY DEF KInv, IInv, TypeOK
<1>2. job[q].snap.at \in Nat BY <1>1 DEF Entries, NoEntry, Numbers
<1>3. CASE pc[q] = "forget"
  <2>1. Meant(q) = job[q].want /\ job[q].want = job[q].num /\ job[q].num \in Numbers
    BY <1>1, <1>3 DEF Meant, Wants, Sound
  <2>2. job[q].num <= ops BY <1>3 DEF KInv, NumbersAreFresh
  <2>3. UsesGen(Meant(q)) BY <2>1 DEF UsesGen
  <2>4. pc[p] \in Unstamped => job[p].num # Meant(q) BY <2>3 DEF KInv, NumbersAreFresh
  <2>5. Meant(q) # 0 BY <2>1 DEF Numbers
  <2>6. QED BY <1>1, <1>2, <2>1, <2>2, <2>4, <2>5
<1>4. CASE pc[q] = "deregister"
  <2>1. ~IsClaimed(job[q].snap) /\ Meant(q) = job[q].snap.gen BY <1>4 DEF Drops, Meant
  <2>2. job[q].snap # NoEntry BY <1>1, <1>4 DEF Sound, Fixing
  <2>3. job[q].snap \in Entries /\ Meant(q) \in Generations BY <1>1, <2>1, <2>2 DEF Entries
  <2>4. UsesGen(Meant(q)) BY <2>1, <2>2 DEF UsesGen, HasGen
  <2>5. pc[p] \in Unstamped => job[p].num # Meant(q) BY <2>4 DEF KInv, NumbersAreFresh
  <2>6. Meant(q) <= ops
    <3>1. CASE Meant(q) = 0 BY <1>1, <3>1
    <3>2. CASE Meant(q) # 0
      <4>1. Meant(q) \in Numbers BY <2>3, <3>2 DEF Numbers, Generations, LifecycleAssumption
      <4>2. ~(Meant(q) > ops) BY <2>4, <4>1 DEF KInv, NumbersAreFresh
      <4>3. QED BY <1>1, <4>1, <4>2 DEF Numbers
    <3>3. QED BY <3>1, <3>2
  <2>7. UsesFree(job[q].snap.at) BY <2>1, <2>2 DEF UsesFree, HasFree, HasAt, IsClaimed
  <2>8. pc[p] \in Claiming \cup Unclaimed => job[p].num # job[q].snap.at
    <3>1. pc[p] \in Claiming => ~UsesFree(job[p].num) BY DEF KInv, NumbersAreFresh
    <3>2. pc[p] \in Unclaimed => ~UsesAt(job[p].num) BY DEF KInv, NumbersAreFresh
    <3>3. UsesAt(job[q].snap.at) BY <2>7, FreeIsAt
    <3>4. QED BY <2>7, <3>1, <3>2, <3>3
  <2>9. QED BY <1>2, <2>3, <2>5, <2>6, <2>8
<1>5. QED BY <1>3, <1>4 DEF Drops

\* What is meant to be dropped does not hit what is still to be opened.
LEMMA DropsStep ==
    ASSUME LifecycleAssumption, KInv, NEW p \in Procs, Begin(p) \/ Step(p) \/ Crash(p)
    PROVE  DropsAreSafe'
<1> SUFFICES ASSUME Unopened', NEW q \in Procs
             PROVE  /\ Drops(q)' => Missed(q)'
                    /\ pc'[q] = "deregister" => ~IsClaimed(job'[q].snap)
  BY DEF DropsAreSafe, IsClaimed
<1>1. Touches(p) BY TouchStep DEF KInv
<1>2. \A r \in Procs \ {p} : pc'[r] = pc[r] /\ job'[r] = job[r] BY OtherJobs DEF KInv
<1>3. p = q => pc'[q] \notin {"forget", "deregister"} BY <1>1 DEF Touches
<1>4. CASE p = q BY <1>3, <1>4 DEF Drops
<1>5. CASE p # q
  <2>1. pc'[q] = pc[q] /\ job'[q] = job[q] /\ q \in Procs \ {p} BY <1>2, <1>5
  <2>2. (Drops(q)' <=> Drops(q)) /\ Meant(q)' = Meant(q) BY <2>1 DEF Drops, Meant, IsClaimed
  <2>3. CASE Unopened
    <3>1. pc[q] = "deregister" => ~IsClaimed(job[q].snap) BY <2>3 DEF KInv, DropsAreSafe
    <3>2. ASSUME Drops(q) PROVE Missed(q)'
      <4> DEFINE g == Meant(q)
                 n == job[q].snap.at
      <4>1. Missed(q) BY <2>3, <3>2 DEF KInv, DropsAreSafe
      <4>2. /\ g \in Generations /\ g <= ops /\ n \in Nat
            /\ g # 0 /\ pc[p] \in Unstamped => job[p].num # g
            /\ g = 0 /\ pc[p] \in Claiming \cup Unclaimed => job[p].num # n
        BY <2>1, <3>2, MeantIsKnown
      <4>3. Misses(p, g, n) BY <4>1 DEF Missed, Misses, Hit, Hits
      <4>4. PICK h \in Generations, m \in Nat : h = g /\ m = n BY <4>2
      <4>5. Misses(p, h, m)'
        <5>1. Misses(p, h, m) BY <4>3, <4>4
        <5>2. Wants(p) /\ IInv BY DEF KInv
        <5>3. /\ h # 0 /\ pc[p] \in Unstamped => job[p].num # h
              /\ h = 0 /\ pc[p] \in Claiming \cup Unclaimed => job[p].num # m
              /\ h <= ops
          BY <4>2, <4>4
        <5>4. QED BY <2>3, <5>1, <5>2, <5>3, MissStep
      <4>6. Meant(q)' = h /\ job'[q].snap.at = m BY <2>1, <2>2, <4>4
      <4>7. \A r \in Procs \ {p} :
               /\ pc'[r] \in {"enter", "git"} => ~Hits(job'[r].snap, h, m)
               /\ pc'[r] = "abort" => ~Hits(job'[r].prior, h, m)
               /\ pc'[r] \in {"finish", "complete"} /\ job'[r].want # 0 => job'[r].want # h
        BY <1>2, <4>1, <4>4 DEF Missed, Hit, Hits
      <4>8. /\ ~Hits(entry', h, m) /\ (h # 0 => wt'.gen # h)
            /\ pc'[p] \in {"enter", "git"} => ~Hits(job'[p].snap, h, m)
            /\ pc'[p] = "abort" => ~Hits(job'[p].prior, h, m)
            /\ pc'[p] \in {"finish", "complete"} /\ job'[p].want # 0 => job'[p].want # h
        BY <4>5 DEF Misses, Hits, HasGen
      <4>9. \A e : Hits(e, h, m) <=> HasGen(e, h) /\ (h = 0 => e.at = m) BY DEF Hits
      <4>10. QED BY <4>6, <4>7, <4>8, <4>9 DEF Missed, Hit, HasGen
    <3>3. QED BY <2>1, <2>2, <3>1, <3>2
  <2>4. CASE ~Unopened
    <3>1. AddSource(p) \/ SourceRemains(p) BY <1>1, <2>4 DEF Touches
    <3>2. /\ pc[p] = "git" /\ pc'[p] \in {"stamp", "complete"} /\ job' = job /\ entry' = entry
          /\ wt'.gen = 0
      BY <3>1 DEF AddSource, SourceRemains, GitAdd, Goto, KInv, IInv, TypeOK
    <3>3. /\ creation = p /\ Ours(p) /\ entry.gen = 0 /\ job[p].want = 0
      BY <3>2 DEF KInv, IInv, Sound, Creating, Claiming, Wants, Ours
    <3>4. \A r \in Procs \ {p} : pc[r] \notin Creating BY <3>3 DEF KInv, IInv, Sound
    <3>5. pc[q] = "deregister" => ~IsClaimed(job[q].snap)
      BY <1>5, <3>3 DEF KInv, IInv, Sound, Acting
    <3>6. ASSUME Drops(q) PROVE Missed(q)'
      <4>1. Meant(q) = 0 => job[p].num # job[q].snap.at
        BY <2>1, <3>2, <3>6, MeantIsKnown DEF Claiming
      <4>2. ~Hit(q, entry)' BY <2>1, <2>2, <3>2, <3>3, <4>1 DEF Hit, HasGen, Ours
      <4>3. \A r \in Procs : /\ pc'[r] \notin {"enter", "git", "abort", "finish"}
                             /\ pc'[r] = "complete" => job'[r].want = 0
        BY <1>2, <3>2, <3>3, <3>4 DEF Creating
      <4>4. QED BY <3>2, <2>2, <4>2, <4>3 DEF Missed
    <3>7. QED BY <2>1, <2>2, <3>5, <3>6
  <2>5. QED BY <2>3, <2>4
<1>6. QED BY <1>4, <1>5

\* Who may change the worktree, and who takes it away.
Takes(p) ==
    /\ pc[p] # "idle" => pc'[p] # pc[p]
    /\ \/ wt' = wt \/ pc[p] \in Mutating \cup Reserving
       \/ ~Reserved /\ mutex = Nobody
    /\ Registered /\ ~Registered' =>
          pc[p] = "remove" \/ (pc[p] = "undo" /\ wt.gen = job[p].want)

\* Who changes the worktree and who takes it away, for each step.
LEMMA TakeStep ==
    ASSUME LifecycleAssumption, IInv, NEW p \in Procs, Begin(p) \/ Step(p) \/ Crash(p)
    PROVE  Takes(p)
<1> USE DEF IInv, TypeOK, Takes, Registered, Mutating, Reserving, NoWorktree, Worktrees
<1>1. CASE AcquireSource(p)
  BY <1>1 DEF AcquireSource, AcquireCreation, Goto, Done, NoJob, stores, locks
<1>2. CASE ReadAbandoned(p)
  BY <1>2 DEF ReadAbandoned, Goto, stores, locks
<1>3. CASE FinishAbandoned(p)
  BY <1>3 DEF FinishAbandoned, Goto, CompleteCreation, Unlocked, locks, stores
<1>4. CASE Claim(p)
  BY <1>4 DEF Claim, Goto, Claimable, Unlocked, locks, stores
<1>5. CASE EnterSource(p)
  BY <1>5 DEF EnterSource, Goto, GiveUp, stores, locks
<1>6. CASE AddSource(p)
  BY <1>6 DEF AddSource, Goto, GitAdd, locks, stores
<1>7. CASE SourceFails(p)
  BY <1>7 DEF SourceFails, GiveUp, Goto, stores, locks
<1>8. CASE SourceRemains(p)
  BY <1>8 DEF SourceRemains, Goto, GitAdd, locks, stores
<1>9. CASE StampSource(p)
  BY <1>9 DEF StampSource, Identify, Goto, locks, stores
<1>10. CASE CompleteSource(p)
  BY <1>10 DEF CompleteSource, Goto, CompleteCreation, Unlocked, locks, stores
<1>11. CASE AbortSource(p)
  BY <1>11 DEF AbortSource, Goto, Ours, Unlocked, locks, stores
<1>12. CASE ReleaseCreation(p)
  BY <1>12 DEF ReleaseCreation, Goto, Done, NoJob, stores, locks
<1>13. CASE UndoSource(p)
  BY <1>13 DEF UndoSource, Goto, Done, NoJob, locks, stores
<1>14. CASE ForgetSource(p)
  BY <1>14 DEF ForgetSource, Done, Goto, NoJob, Unregister, Unlocked, locks, stores
<1>15. CASE Expire(p)
  BY <1>15 DEF Expire, Done, Goto, NoJob, Unlocked, locks, stores
<1>16. CASE Reserve(p)
  BY <1>16 DEF Reserve, Goto, Done, NoJob, stores, locks
<1>17. CASE CheckOut(p)
  BY <1>17 DEF CheckOut, Goto, GitAdd, locks, stores
<1>18. CASE Hook(p)
  BY <1>18 DEF Hook, Goto, stores, locks
<1>19. CASE Reenter(p)
  BY <1>19 DEF Reenter, Goto, stores, locks
<1>20. CASE CheckOutFails(p)
  BY <1>20 DEF CheckOutFails, Goto, stores, locks
<1>21. CASE RemoveRecord(p)
  BY <1>21 DEF RemoveRecord, Goto, stores, locks
<1>22. CASE DropReservation(p)
  BY <1>22 DEF DropReservation, Done, Goto, NoJob, stores, locks
<1>23. CASE YieldReservation(p)
  BY <1>23 DEF YieldReservation, Goto, stores, locks
<1>24. CASE StampLocal(p)
  BY <1>24 DEF StampLocal, Identify, Goto, locks, stores
<1>25. CASE OwnRemoval(p)
  BY <1>25 DEF OwnRemoval, AcquireCreation, Goto, Done, NoJob, stores, locks
<1>26. CASE InspectRemoval(p)
  BY <1>26 DEF InspectRemoval, Goto, Preflight, stores, locks
<1>27. CASE MatchRemoval(p)
  BY <1>27 DEF MatchRemoval, Goto, Unlocked, stores, locks
<1>28. CASE Remove(p)
  BY <1>28 DEF Remove, Goto, Preflight, stores, locks
<1>29. CASE Survey(p)
  BY <1>29 DEF Survey, Done, Goto, NoJob, Fix, Active, stores, locks
<1>30. CASE OwnStale(p)
  BY <1>30 DEF OwnStale, AcquireCreation, Goto, Done, NoJob, stores, locks
<1>31. CASE RecheckStale(p)
  BY <1>31 DEF RecheckStale, Goto, stores, locks
<1>32. CASE Deregister(p)
  BY <1>32 DEF Deregister, Goto, Swap, Unlocked, Unregister, locks, stores
<1>33. CASE OwnReconcile(p)
  BY <1>33 DEF OwnReconcile, AcquireCreation, Goto, Done, NoJob, stores, locks
<1>34. CASE ConfirmIdentity(p)
  BY <1>34 DEF ConfirmIdentity, Goto, Preflight, stores, locks
<1>35. CASE AdoptGeneration(p)
  BY <1>35 DEF AdoptGeneration, Goto, Swap, Unlocked, locks, stores
<1>36. CASE Crash(p)
  BY <1>36 DEF Crash, Done, Goto, NoJob, stores, locks
<1>37. CASE StartSource(p)
  BY <1>37 DEF StartSource, Start, Goto, stores, locks
<1>38. CASE StartLocal(p)
  BY <1>38 DEF StartLocal, Start, Goto, stores, locks
<1>39. CASE List(p)
  BY <1>39 DEF List, locks, stores
<1>40. CASE StartRemoval(p)
  BY <1>40 DEF StartRemoval, Start, Goto, stores, locks
<1>41. CASE StartPrune(p)
  BY <1>41 DEF StartPrune, Start, Goto, stores, locks
<1>42. CASE StartDoctor(p)
  BY <1>42 DEF StartDoctor, Start, Goto, stores, locks
<1> QED
  BY <1>1, <1>2, <1>3, <1>4, <1>5, <1>6, <1>7, <1>8, <1>9, <1>10, <1>11,
     <1>12, <1>13, <1>14, <1>15, <1>16, <1>17, <1>18, <1>19, <1>20, <1>21,
     <1>22, <1>23, <1>24, <1>25, <1>26, <1>27, <1>28, <1>29, <1>30, <1>31,
     <1>32, <1>33, <1>34, <1>35, <1>36, <1>37, <1>38, <1>39, <1>40, <1>41,
     <1>42 DEF Begin, Step

\* A creation that fails puts back what it found.
LEMMA AbortFlags ==
    ASSUME LifecycleAssumption, IInv, NEW p \in Procs, AbortSource(p), Flagged
    PROVE  Flagged' \/ (Ours(p) /\ entry' = job[p].prior)
<1>1. entry \in Entries /\ entry.unreviewed = TRUE BY DEF Flagged, IInv, TypeOK, Entries
<1>2. CASE ~Ours(p)
  <2>1. entry' = entry BY <1>2 DEF AbortSource
  <2>2. QED BY <2>1 DEF Flagged
<1>3. CASE Ours(p) /\ job[p].prior = NoEntry
  BY <1>3 DEF AbortSource
<1>4. CASE Ours(p) /\ job[p].prior # NoEntry
  <2>1. job[p].prior \in Entries BY <1>4 DEF IInv, TypeOK
  <2>2. entry' = [job[p].prior EXCEPT !.unreviewed = @ /\ entry.unreviewed]
    BY <1>4 DEF AbortSource
  <2>3. (job[p].prior.unreviewed /\ entry.unreviewed) = job[p].prior.unreviewed
    BY <1>1, <2>1 DEF Entries
  <2>4. entry' = [job[p].prior EXCEPT !.unreviewed = @] BY <2>2, <2>3
  <2>5. entry' = job[p].prior BY <2>1, <2>4 DEF Entries
  <2>6. QED BY <1>4, <2>5
<1>5. QED BY <1>2, <1>3, <1>4

\* ForgetSource and Deregister meet no entry of what is unopened.
LEMMA DropsMiss ==
    ASSUME LifecycleAssumption, KInv, NEW p \in Procs, ForgetSource(p) \/ Deregister(p), Unopened
    PROVE  entry' = entry
<1>1. CASE ForgetSource(p)
  <2>1. pc[p] = "forget" /\ Missed(p) /\ Meant(p) = job[p].want
    BY <1>1 DEF ForgetSource, KInv, DropsAreSafe, Drops, Meant
  <2>2. job[p].want # 0 BY <2>1 DEF KInv, Wants, IInv, Sound, Numbers
  <2>3. ~HasGen(entry, job[p].want) BY <2>1, <2>2 DEF Missed, Hit
  <2>4. QED BY <1>1, <2>3 DEF ForgetSource, Unregister, HasGen
<1>2. CASE Deregister(p)
  <2> DEFINE stale == job[p].snap
  <2>1. pc[p] = "deregister" /\ ~IsClaimed(stale) /\ stale # NoEntry
    BY <1>2 DEF Deregister, KInv, DropsAreSafe, IInv, Sound, Fixing
  <2>2. Missed(p) /\ Meant(p) = stale.gen /\ ~stale.claimed
    BY <2>1 DEF KInv, DropsAreSafe, Drops, Meant, IsClaimed
  <2>3. ~Hit(p, entry) BY <2>2 DEF Missed
  <2>4. CASE stale.gen # 0
    <3>1. ~HasGen(entry, stale.gen) BY <2>2, <2>3, <2>4 DEF Hit
    <3>2. QED BY <1>2, <2>2, <2>4, <3>1 DEF Deregister, Unregister, HasGen
  <2>5. CASE stale.gen = 0
    <3>1. entry # stale BY <2>1, <2>2, <2>3, <2>5 DEF Hit, HasGen
    <3>2. QED BY <1>2, <2>5, <3>1 DEF Deregister, Swap
  <2>6. QED BY <2>4, <2>5
<1>3. QED BY <1>1, <1>2

\* An entry that is not written keeps its mark.
LEMMA StillFlagged ==
    ASSUME IInv, Flagged, entry'.at = entry.at, entry'.unreviewed = entry.unreviewed
    PROVE  Flagged'
<1>1. entry \in Entries BY DEF Flagged, IInv, TypeOK
<1>2. entry.at # 0 BY <1>1 DEF Entries, Numbers
<1>3. NoEntry.at = 0 BY DEF NoEntry
<1>4. QED BY <1>2, <1>3 DEF Flagged

\* The steps that update an entry keep its mark.
LEMMA UpdatesFlagged ==
    ASSUME LifecycleAssumption, IInv, NEW p \in Procs, Flagged,
           FinishAbandoned(p) \/ CompleteSource(p) \/ Expire(p) \/ AdoptGeneration(p)
    PROVE  Flagged'
<1>1. entry \in Entries /\ entry # NoEntry BY DEF Flagged, IInv, TypeOK
<1>2. \/ entry' = entry
      \/ \E g \in Generations : entry' = [entry EXCEPT !.claimed = FALSE, !.gen = g]
      \/ \E g \in Generations :
            entry' = [entry EXCEPT !.claimed = FALSE, !.gen = g, !.expires = FALSE]
      \/ entry' = [entry EXCEPT !.expires = TRUE]
  <2>1. job[p].want \in Generations BY DEF IInv, TypeOK
  <2>2. CASE FinishAbandoned(p)
    BY <2>1, <2>2 DEF FinishAbandoned, CompleteCreation
  <2>3. CASE CompleteSource(p)
    BY <2>1, <2>3 DEF CompleteSource, CompleteCreation
  <2>4. CASE Expire(p)
    BY <1>1, <2>4 DEF Expire
  <2>5. CASE AdoptGeneration(p)
    BY <2>1, <2>5 DEF AdoptGeneration, Swap
  <2>6. QED BY <2>2, <2>3, <2>4, <2>5
<1>3. entry'.at = entry.at /\ entry'.unreviewed = entry.unreviewed
  BY <1>1, <1>2 DEF Entries
<1>4. QED BY <1>3, StillFlagged

\* A claim keeps the mark.
LEMMA ClaimFlags ==
    ASSUME LifecycleAssumption, IInv, NEW p \in Procs, Flagged, Claim(p)
    PROVE  Flagged'
<1>1. job[p].num \in Numbers BY DEF Claim, IInv, Sound
<1>2. CASE entry' = entry BY <1>2 DEF Flagged
<1>3. CASE entry' # entry
  <2>1. entry'.at = job[p].num /\ entry'.unreviewed = TRUE BY <1>3 DEF Claim
  <2>2. entry' # NoEntry BY <1>1, <2>1 DEF NoEntry, Numbers
  <2>3. QED BY <2>1, <2>2 DEF Flagged
<1>4. QED BY <1>2, <1>3

\* A step keeps the mark of what is still to be opened.
LEMMA FlagStep ==
    ASSUME LifecycleAssumption, KInv, NEW p \in Procs, Begin(p) \/ Step(p) \/ Crash(p),
           Unopened, Flagged, Unopened'
    PROVE  Flagged' \/ (Ours(p) /\ entry' = job[p].prior)
<1> USE DEF IInv, TypeOK, Entries, IsClaimed, Flagged
<1>0. CASE Quiet(p)
  BY <1>0, QuietStays DEF KInv, stores
<1>1. CASE ReadAbandoned(p)
  BY <1>1 DEF KInv, ReadAbandoned, Goto, stores, locks
<1>2. CASE FinishAbandoned(p)
  BY <1>2, UpdatesFlagged DEF KInv
<1>3. CASE Claim(p)
  BY <1>3, ClaimFlags DEF KInv
<1>4. CASE EnterSource(p)
  BY <1>4 DEF KInv, EnterSource, Goto, GiveUp, stores, locks
<1>5. CASE AddSource(p)
  BY <1>5 DEF KInv, AddSource, Goto, GitAdd, locks, stores
<1>6. CASE SourceFails(p)
  BY <1>6 DEF KInv, SourceFails, GiveUp, Goto, stores, locks
<1>7. CASE SourceRemains(p)
  BY <1>7 DEF KInv, SourceRemains, Goto, GitAdd, locks, stores
<1>8. CASE StampSource(p)
  BY <1>8 DEF KInv, StampSource, Identify, Goto, locks, stores
<1>9. CASE CompleteSource(p)
  BY <1>9, UpdatesFlagged DEF KInv
<1>10. CASE AbortSource(p)
  BY <1>10, AbortFlags DEF KInv
<1>11. CASE UndoSource(p)
  BY <1>11 DEF UndoSource
<1>12. CASE ForgetSource(p)
  BY <1>12, DropsMiss
<1>13. CASE Expire(p)
  BY <1>13, UpdatesFlagged DEF KInv
<1>14. CASE CheckOut(p)
  BY <1>14 DEF KInv, CheckOut, Goto, GitAdd, locks, stores
<1>15. CASE StampLocal(p)
  BY <1>15 DEF KInv, StampLocal, Identify, Goto, locks, stores
<1>16. CASE Remove(p)
  BY <1>16 DEF Remove, stores, Unopened, Registered
<1>17. CASE Survey(p)
  BY <1>17 DEF KInv, Survey, Done, Goto, NoJob, Fix, Active, stores, locks
<1>18. CASE Deregister(p)
  BY <1>18, DropsMiss
<1>19. CASE AdoptGeneration(p)
  BY <1>19, UpdatesFlagged DEF KInv
<1>20. CASE StartSource(p)
  BY <1>20 DEF KInv, StartSource, Start, Goto, stores, locks
<1>21. CASE StartLocal(p)
  BY <1>21 DEF KInv, StartLocal, Start, Goto, stores, locks
<1>22. CASE List(p)
  BY <1>22 DEF KInv, List, locks, stores
<1>23. CASE StartRemoval(p)
  BY <1>23 DEF KInv, StartRemoval, Start, Goto, stores, locks
<1>24. CASE StartPrune(p)
  BY <1>24 DEF KInv, StartPrune, Start, Goto, stores, locks
<1>25. CASE StartDoctor(p)
  BY <1>25 DEF KInv, StartDoctor, Start, Goto, stores, locks
<1> QED
  BY <1>0, <1>1, <1>2, <1>3, <1>4, <1>5, <1>6, <1>7, <1>8, <1>9, <1>10,
     <1>11, <1>12, <1>13, <1>14, <1>15, <1>16, <1>17, <1>18, <1>19, <1>20,
     <1>21, <1>22, <1>23, <1>24, <1>25 DEF Begin, Step, Quiet

\* What the user does: it tells nobody anything new.
LEMMA OutsideKeeps ==
    ASSUME LifecycleAssumption, KInv, Outside \/ UNCHANGED vars
    PROVE  NumbersAreFresh' /\ (\A p \in Procs : Wants(p)') /\ DropsAreSafe' /\ UndoIsSafe'
<1>1. /\ UNCHANGED <<pc, job, ops>>
      /\ wt' = wt \/ wt' = NoWorktree \/ wt' = [wt EXCEPT !.seen = TRUE]
      /\ entry' = entry \/ entry' = [entry EXCEPT !.unreviewed = FALSE]
      /\ Unopened' => Unopened /\ entry' = entry
  <2>1. CASE Acknowledge
    <3>1. wt \in Worktrees BY <2>1 DEF Acknowledge, Registered, KInv, IInv, TypeOK
    <3>2. ~Unopened' BY <2>1, <3>1 DEF Acknowledge, Unopened, Worktrees
    <3>3. QED BY <2>1, <3>2 DEF Acknowledge
  <2>2. CASE DeleteFiles BY <2>2 DEF DeleteFiles, Unopened
  <2>3. CASE PruneMissing BY <2>3 DEF PruneMissing, Unopened, Registered
  <2>4. CASE UNCHANGED vars BY <2>4 DEF vars, stores, locks, Unopened, Registered
  <2>5. QED BY <2>1, <2>2, <2>3, <2>4 DEF Outside
<1>2. wt'.gen = wt.gen \/ (wt' = NoWorktree /\ wt'.gen = 0)
  BY <1>1 DEF NoWorktree, KInv, IInv, TypeOK, Worktrees
<1>3. \A n \in Numbers : /\ HasGen(entry', n) => HasGen(entry, n)
                         /\ HasAt(entry', n) => HasAt(entry, n)
                         /\ HasFree(entry', n) => HasFree(entry, n)
  <2>1. CASE entry' = entry BY <2>1
  <2>2. CASE entry = NoEntry /\ entry' = [entry EXCEPT !.unreviewed = FALSE]
    BY <2>2 DEF NoEntry, HasGen, HasAt, HasFree, Numbers
  <2>3. CASE entry # NoEntry /\ entry' = [entry EXCEPT !.unreviewed = FALSE]
    <3>1. entry \in Entries BY <2>3 DEF KInv, IInv, TypeOK
    <3>2. entry'.gen = entry.gen /\ entry'.at = entry.at /\ entry'.claimed = entry.claimed
      BY <2>3, <3>1 DEF Entries
    <3>3. QED BY <2>3, <3>2 DEF HasGen, HasAt, HasFree
  <2>4. QED BY <1>1, <2>1, <2>2, <2>3
<1>4. ASSUME NEW n \in Numbers
      PROVE  /\ UsesGen(n)' => UsesGen(n)
             /\ UsesAt(n)' => UsesAt(n)
             /\ UsesFree(n)' => UsesFree(n)
  BY <1>1, <1>2, <1>3 DEF UsesGen, UsesAt, UsesFree, Numbers
<1>5. NumbersAreFresh'
  <2>1. \A p \in Procs : pc[p] # "idle" => job[p].num \in Numbers BY DEF KInv, IInv, Sound
  <2>2. ASSUME NEW p \in Procs
        PROVE  /\ pc[p] \in Unstamped => ~UsesGen(job[p].num)'
               /\ pc[p] \in Unclaimed => ~UsesAt(job[p].num)'
               /\ pc[p] \in Claiming => ~UsesFree(job[p].num)'
    <3>1. CASE pc[p] = "idle" BY <3>1 DEF Unstamped, Unclaimed, Claiming
    <3>2. CASE pc[p] # "idle"
      <4>1. PICK n \in Numbers : n = job[p].num BY <2>1, <3>2
      <4>2. /\ pc[p] \in Unstamped => ~UsesGen(n)'
            /\ pc[p] \in Unclaimed => ~UsesAt(n)'
            /\ pc[p] \in Claiming => ~UsesFree(n)'
        BY <1>4, <4>1 DEF KInv, NumbersAreFresh
      <4>3. job'[p].num = n BY <1>1, <4>1
      <4>4. QED BY <4>2, <4>3 DEF UsesGen, UsesAt, UsesFree
    <3>3. QED BY <3>1, <3>2
  <2>3. QED BY <1>1, <1>4, <2>2 DEF KInv, NumbersAreFresh
<1>6. \A p \in Procs : Wants(p)'
  <2>1. ASSUME NEW p \in Procs PROVE Wants(p)'
    <3>1. wt = NoWorktree => wt' = NoWorktree \/ wt'.gen = wt.gen BY <1>2
    <3>2. NoWorktree.gen = 0 BY DEF NoWorktree
    <3>3. Wants(p) BY DEF KInv
    <3>4. pc[p] = "adopt" /\ wt = NoWorktree => wt' = NoWorktree
      BY <1>1 DEF NoWorktree
    <3>5. QED BY <1>1, <1>2, <3>3, <3>4 DEF Wants
  <2>2. QED BY <2>1
<1>7. UndoIsSafe'
  <2>1. \A q \in Procs : pc[q] = "undo" => job[q].want # 0
    BY DEF KInv, Wants, IInv, Sound, Numbers
  <2>2. QED BY <1>1, <1>2, <2>1 DEF KInv, UndoIsSafe
<1>8. DropsAreSafe'
  <2>1. CASE ~Unopened' BY <2>1 DEF DropsAreSafe
  <2>2. CASE Unopened'
    <3>1. Unopened /\ entry' = entry /\ UNCHANGED <<pc, job>> BY <1>1, <2>2
    <3>2. DropsAreSafe BY DEF KInv
    <3>3. QED BY <1>2, <3>1, <3>2 DEF DropsAreSafe, Drops, Missed, Hit, Meant, HasGen, IsClaimed
  <2>3. QED BY <2>1, <2>2
<1>9. QED BY <1>5, <1>6, <1>7, <1>8

\* The invariant holds at the start, in every step, and so always.
LEMMA InitKInv == ASSUME LifecycleAssumption, Init PROVE KInv
<1>1. \A p \in Procs : pc[p] = "idle" /\ job[p] = NoJob BY DEF Init
<1>2. /\ NoJob.snap = NoEntry /\ NoJob.prior = NoEntry /\ NoJob.want = 0
      /\ wt.gen = 0 /\ entry = NoEntry /\ ~Registered
  BY DEF NoJob, Init, NoWorktree, Registered
<1>3. NumbersAreFresh
  BY <1>1, <1>2 DEF NumbersAreFresh, UsesGen, UsesAt, HasGen, HasAt, Unstamped, Unclaimed,
     Claiming, Numbers
<1>4. \A p \in Procs : Wants(p) BY <1>1 DEF Wants
<1>5. DropsAreSafe /\ UndoIsSafe BY <1>1, <1>2 DEF DropsAreSafe, UndoIsSafe, Unopened
<1>6. QED BY <1>3, <1>4, <1>5, InitIInv DEF KInv

LEMMA NextKInv == ASSUME LifecycleAssumption, KInv, [Next]_vars PROVE KInv'
<1>1. IInv' BY Inductive DEF KInv
<1>2. ASSUME NEW p \in Procs, Begin(p) \/ Step(p) \/ Crash(p) PROVE KInv'
  <2>1. NumbersAreFresh' BY <1>2, FreshStep DEF KInv
  <2>2. Wants(p)' BY <1>2, WantsStep DEF KInv
  <2>3. \A q \in Procs \ {p} : Wants(q)' BY <1>2, OthersWant DEF KInv
  <2>4. DropsAreSafe' /\ UndoIsSafe' BY <1>2, DropsStep, UndoStep
  <2>5. QED BY <1>1, <2>1, <2>2, <2>3, <2>4 DEF KInv
<1>3. CASE Outside \/ UNCHANGED vars BY <1>1, <1>3, OutsideKeeps DEF KInv
<1>4. QED BY <1>2, <1>3 DEF Next

LEMMA KeptAcross == ASSUME LifecycleAssumption PROVE Spec => []KInv
<1>1. Init => KInv BY InitKInv
<1>2. KInv /\ [Next]_vars => KInv' BY NextKInv
<1>3. QED BY <1>1, <1>2, PTL DEF Spec

\* Another process leaves alone what a creation has made.
LEMMA OthersLeave ==
    ASSUME LifecycleAssumption, KInv, NEW q \in Procs, Begin(q) \/ Step(q) \/ Crash(q),
           NEW p \in Procs, pc'[p] = pc[p]
    PROVE  /\ pc[p] \in {"checkout", "hook", "reenter", "yield", "mark"} => wt' = wt
           /\ pc[p] = "complete" /\ Registered => Registered'
<1>1. Takes(q) /\ Frame(q) /\ Sound(p) /\ Sound(q) BY TakeStep, FrameStep DEF KInv, IInv
<1>2. p # Nobody /\ q # Nobody BY DEF LifecycleAssumption
<1>3. pc[p] # "idle" => q # p BY <1>1 DEF Takes
<1>4. CASE pc[p] \in {"checkout", "hook", "reenter", "yield"}
  <2>1. reserver = p /\ Reserved /\ q # p BY <1>1, <1>2, <1>3, <1>4 DEF Sound, Reserving, Reserved
  <2>2. pc[q] \notin Mutating \cup Reserving BY <1>1, <2>1 DEF Sound
  <2>3. QED BY <1>1, <1>4, <2>1, <2>2 DEF Takes
<1>5. CASE pc[p] = "mark"
  <2>1. mutex = p /\ ~Reserved /\ q # p BY <1>1, <1>3, <1>5 DEF Sound, Mutating
  <2>2. QED BY <1>1, <1>2, <1>5, <2>1 DEF Frame
<1>6. CASE pc[p] = "complete"
  <2>1. creation = p /\ Ours(p) /\ q # p
    BY <1>1, <1>3, <1>6 DEF Sound, Creating, Claiming
  <2>2. pc[q] # "remove" BY <1>1, <2>1 DEF Sound, Acting, Ours
  <2>3. ~(pc[q] = "undo" /\ wt.gen = job[q].want) BY <1>6 DEF KInv, UndoIsSafe
  <2>4. QED BY <1>1, <1>6, <2>2, <2>3 DEF Takes
<1>7. QED BY <1>4, <1>5, <1>6

\* From its checkout to its identity no other process touches the worktree of a
\* creation, and none takes it away before it is registered; what is marked as
\* unreviewed stays marked until it is opened or gone (AddTree and its rollback
\* beside RemovalService, Fixer and the rollbacks of others), for any number of
\* processes and operations.
THEOREM CreatedStaysProtected == ASSUME LifecycleAssumption PROVE Spec => CreatedIsProtected
<1> DEFINE Kept == Unopened /\ Flagged /\ Unopened'
                   => Flagged' \/ \E p \in Procs : Ours(p) /\ entry' = job[p].prior
           Left == \A p \in Procs :
              LET checkingOut == pc[p] \in {"checkout", "hook", "reenter", "yield", "mark"} IN
              (checkingOut \/ pc[p] = "complete") /\ pc'[p] = pc[p] =>
                  /\ Registered /\ files => Registered'
                  /\ checkingOut /\ Registered' => wt'.gen = wt.gen
<1>1. ASSUME KInv, NEW q \in Procs, Begin(q) \/ Step(q) \/ Crash(q) PROVE Kept /\ Left
  <2>1. Kept BY <1>1, FlagStep
  <2>2. Left
    <3> SUFFICES ASSUME NEW p \in Procs, pc'[p] = pc[p],
                        pc[p] \in {"checkout", "hook", "reenter", "yield", "mark"} \/ pc[p] = "complete"
                 PROVE  /\ Registered /\ files => Registered'
                        /\ pc[p] \in {"checkout", "hook", "reenter", "yield", "mark"} /\ Registered'
                              => wt'.gen = wt.gen
      OBVIOUS
    <3>1. QED BY <1>1, OthersLeave DEF Registered
  <2>3. QED BY <2>1, <2>2
<1>2. ASSUME KInv, Outside PROVE Kept /\ Left
  <2>1. CASE Acknowledge
    <3>1. wt \in Worktrees BY <2>1, <1>2 DEF Acknowledge, Registered, KInv, IInv, TypeOK
    <3>2. ~Unopened' /\ wt'.gen = wt.gen /\ (Registered => Registered')
      BY <2>1, <3>1 DEF Acknowledge, Unopened, Registered, Worktrees, NoWorktree
    <3>3. QED BY <3>2
  <2>2. CASE DeleteFiles BY <2>2 DEF DeleteFiles, Unopened, Flagged, Registered
  <2>3. CASE PruneMissing BY <2>3 DEF PruneMissing, Unopened, Registered
  <2>4. QED BY <1>2, <2>1, <2>2, <2>3 DEF Outside
<1>3. KInv /\ [Next]_vars => [Kept]_vars /\ [Left]_vars
  BY <1>1, <1>2 DEF Next
<1>4. QED
  BY <1>3, KeptAcross, PTL DEF Spec, CreatedIsProtected, FlagIsKept, CreationIsLeftAlone
=============================================================================
