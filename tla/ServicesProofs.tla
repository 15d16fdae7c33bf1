---------------------------- MODULE ServicesProofs ----------------------------
(***************************************************************************)
(* Proofs about the components that MCServices explores side by side: the  *)
(* creation lock in its own variables, each of the others in the variables *)
(* s1, s2, ... that its instance gives it.  A component's invariant is      *)
(* named in its own module (TrustInv, FollowInv, QueryInv): it is the       *)
(* conjunction that makes its properties inductive, and the proof has a     *)
(* lemma per action or group of actions.  ServicesSpec takes one step of    *)
(* one component, so each theorem lifts its component's lemmas through the  *)
(* focus.                                                                   *)
(***************************************************************************)
EXTENDS MCServices, Integers, Sequences, FiniteSets, SequenceTheorems, FiniteSetTheorems, TLAPS

-----------------------------------------------------------------------------
(* CreationLock, for any number of processes, inodes and attempts.  LockInv *)
(* is inductive: a process past TryLock holds the lock of the inode it has  *)
(* open, a lock belongs to a process that has its inode open, and an        *)
(* owner's inode is the one the path names.  The last part survives the     *)
(* unlink of another process because that process is then an owner too, and *)
(* both would hold the lock of one inode.                                   *)

Holding == {"locked", "owner", "unlinked"}

LockInv ==
    /\ TypeOK
    /\ \A p \in Procs : pc[p] \in Holding => fd[p] \in Inodes /\ flock[fd[p]] = p
    /\ \A p \in Procs : pc[p] = "open" => fd[p] \in Inodes
    /\ \A p \in Procs : pc[p] \in Idle \cup {"retry"} => fd[p] = Nobody
    /\ \A i \in Inodes : flock[i] # Nobody => fd[flock[i]] = i
    /\ \A p \in Procs : pc[p] = "retry" => attempt[p] < MaxAttempts
    /\ \A p \in Procs : pc[p] = "owner" => file = fd[p]

LEMMA InitLock == ASSUME LockAssumption, Init PROVE LockInv
BY DEF LockAssumption, Init, LockInv, TypeOK, Holding, Idle

\* Opening the file takes no lock and moves no name away from an owner.
LEMMA OpenKeeps ==
    ASSUME LockAssumption, LockInv, NEW p \in Procs, pc[p] \in Idle \cup {"retry"},
           Open(p),
           attempt' \in [Procs -> 0..MaxAttempts],
           \A q \in Procs \ {p} : attempt'[q] = attempt[q]
    PROVE  LockInv'
<1> USE DEF LockInv, TypeOK, Holding, Idle, LockAssumption
<1>1. PICK i \in Inodes :
          /\ IF file = Nobody THEN Unused(i) ELSE i = file
          /\ file' = i
          /\ fd' = [fd EXCEPT ![p] = i]
  BY DEF Open
<1>2. pc' = [pc EXCEPT ![p] = "open"] /\ flock' = flock BY DEF Open
<1>3. \A j \in Inodes : flock[j] # p
  OBVIOUS
<1>4. TypeOK' BY <1>1, <1>2
<1>5. \A q \in Procs : pc'[q] = "owner" => file' = fd'[q] BY <1>1, <1>2
<1>6. \A j \in Inodes : flock'[j] # Nobody => fd'[flock'[j]] = j BY <1>1, <1>2, <1>3
<1> QED
  BY <1>1, <1>2, <1>4, <1>5, <1>6

\* Every step keeps the locks with the descriptors and the owner with the name.
LEMMA NextLock ==
    ASSUME LockAssumption, LockInv, [Next]_vars
    PROVE  LockInv'
<1> USE DEF LockInv, TypeOK, Holding, Idle, LockAssumption
<1>1. ASSUME NEW p \in Procs, Acquire(p) PROVE LockInv'
  <2>1. /\ attempt' \in [Procs -> 0..MaxAttempts]
        /\ \A q \in Procs \ {p} : attempt'[q] = attempt[q]
    BY <1>1 DEF Acquire
  <2> QED
    BY <1>1, <2>1, OpenKeeps DEF Acquire
<1>2. ASSUME NEW p \in Procs, TryLock(p) PROVE LockInv' BY <1>2 DEF TryLock, Close
<1>3. ASSUME NEW p \in Procs, Check(p) PROVE LockInv' BY <1>3 DEF Check, Matches
<1>4. ASSUME NEW p \in Procs, Mismatch(p) PROVE LockInv' BY <1>4 DEF Mismatch, Close
<1>5. ASSUME NEW p \in Procs, Retry(p) PROVE LockInv'
  <2>1. /\ attempt' \in [Procs -> 0..MaxAttempts]
        /\ \A q \in Procs \ {p} : attempt'[q] = attempt[q]
    BY <1>5 DEF Retry
  <2> QED
    BY <1>5, <2>1, OpenKeeps DEF Retry
<1>6. ASSUME NEW p \in Procs, Unlink(p) PROVE LockInv' BY <1>6 DEF Unlink
<1>7. ASSUME NEW p \in Procs, Unlock(p) PROVE LockInv' BY <1>7 DEF Unlock, Close
<1>8. ASSUME NEW p \in Procs, Crash(p) PROVE LockInv' BY <1>8 DEF Crash, Close
<1>9. CASE UNCHANGED vars BY <1>9 DEF vars
<1> QED
  BY <1>1, <1>2, <1>3, <1>4, <1>5, <1>6, <1>7, <1>8, <1>9 DEF Next, Step

\* The file an owner locked is the one the path names, for any number of
\* processes: contenders always meet the owner's lock.
THEOREM OwnersAreLinked ==
    ASSUME LockAssumption PROVE Spec => []OwnerFileIsLinked
<1>1. Init => LockInv BY InitLock
<1>2. LockInv /\ [Next]_vars => LockInv' BY NextLock
<1>3. LockInv => OwnerFileIsLinked BY DEF LockInv, TypeOK, OwnerFileIsLinked, Owners, Holding
<1> QED
  BY <1>1, <1>2, <1>3, PTL DEF Spec

\* The process CreationOwnership calls the owner.
TheOwner == IF Owners = {} THEN Nobody ELSE CHOOSE p \in Owners : TRUE

\* Two owners would hold the lock of the one file the path names.
LEMMA OneOwner ==
    ASSUME LockAssumption, LockInv, NEW p \in Owners, NEW q \in Owners
    PROVE  p = q
BY DEF LockAssumption, LockInv, TypeOK, Owners, Holding

\* AcquireCreation implements the abstract ownership: only Check makes an owner,
\* and only when there is none; Unlink and Crash give ownership up, and all
\* other steps leave it alone.
THEOREM LockImplementsOwnership ==
    ASSUME LockAssumption PROVE Spec => OwnershipIsExclusive
<1>1. Init => LockInv /\ Ownership!Init
  BY InitLock DEF Init, Ownership!Init, Ownership!Free, Owners
<1>2. LockInv /\ [Next]_vars => LockInv' BY NextLock
<1>3. ASSUME LockInv, LockInv', [Next]_vars
      PROVE  [Ownership!Next]_TheOwner
  <2>1. Owners' = Owners => TheOwner' = TheOwner BY DEF TheOwner
  <2>2. TheOwner' = Nobody => TheOwner' = TheOwner \/ Ownership!GiveUp
    BY DEF Ownership!GiveUp, Ownership!Free, TheOwner
  <2>3. CASE \E p \in Procs : Check(p)
    <3>1. PICK p \in Procs : Check(p) BY <2>3
    <3>2. p \in Owners' /\ Owners \subseteq Owners' /\ p \notin Owners
      BY <1>3, <3>1 DEF Check, Owners, LockInv, TypeOK
    <3>3. \A q \in Owners' : q = p
      BY <1>3, <3>2 DEF LockInv, TypeOK, Owners, Holding, LockAssumption
    <3>4. Owners = {} /\ Owners' = {p} BY <3>2, <3>3
    <3>5. TheOwner = Nobody /\ TheOwner' = p BY <3>4 DEF TheOwner
    <3> QED
      BY <3>1, <3>5 DEF Ownership!Next, Ownership!Acquire, Ownership!Free, TheOwner
  <2>4. CASE \E p \in Procs : Unlink(p) \/ Crash(p)
    <3>1. PICK p \in Procs : Unlink(p) \/ Crash(p) BY <2>4
    <3>2. Owners' = Owners \ {p} BY <1>3, <3>1 DEF Unlink, Crash, Owners, LockInv, TypeOK, Idle
    <3>3. CASE p \in Owners
      <4>1. Owners = {p} BY <1>3, <3>3, OneOwner
      <4>2. TheOwner' = Nobody BY <3>2, <4>1 DEF TheOwner
      <4> QED
        BY <2>2, <4>2 DEF Ownership!Next, TheOwner
    <3>4. CASE p \notin Owners BY <2>1, <3>2, <3>4
    <3> QED
      BY <3>3, <3>4
  <2>5. CASE \E p \in Procs : Acquire(p) \/ TryLock(p) \/ Mismatch(p) \/ Retry(p) \/ Unlock(p)
    <3>1. PICK p \in Procs : Acquire(p) \/ TryLock(p) \/ Mismatch(p) \/ Retry(p) \/ Unlock(p)
      BY <2>5
    <3>2. /\ pc[p] # "owner"
          /\ \E s \in {"open", "locked", "refused", "retry", "failed", "idle"} :
                pc' = [pc EXCEPT ![p] = s]
      BY <3>1 DEF Acquire, TryLock, Mismatch, Retry, Unlock, Open, Idle
    <3>3. Owners' = Owners BY <1>3, <3>2 DEF Owners, LockInv, TypeOK
    <3> QED
      BY <2>1, <3>3
  <2>6. CASE UNCHANGED vars BY <2>1, <2>6 DEF vars, Owners
  <2> QED
    BY <1>3, <2>3, <2>4, <2>5, <2>6 DEF Next, Step
<1> QED
  BY <1>1, <1>2, <1>3, PTL DEF Spec, OwnershipIsExclusive, Ownership!Spec, TheOwner

-----------------------------------------------------------------------------
(* ConfigTrust. *)

LEMMA InitTrust == ASSUME trust!Init PROVE trust!TrustInv
  BY DEF trust!Init, trust!TrustInv, trust!TypeOK, trust!OnlyReviewedConfigApplies,
    trust!WasReviewed, trust!Honest, trust!Digests

\* A step keeps what is trusted within what was reviewed: the digest a client is
\* about to save is the one it was prompted with, and the store it saves it into
\* is still the one it loaded.
LEMMA NextTrust ==
    ASSUME Assumption, trust!TrustInv, [trust!Next]_(trust!vars)
    PROVE  trust!TrustInv'
<1> USE DEF trust!TrustInv
<1>1. ASSUME NEW c \in Clients,
             \/ trust!Query(c) \/ trust!ReadConfig(c) \/ trust!CheckTrust(c) \/ trust!Prompt(c)
             \/ trust!ApproveConfig(c) \/ trust!ReloadStore(c) \/ trust!SaveStore(c) \/ trust!Crash(c)
      PROVE  trust!TrustInv'
  <2>1. trust!TypeOK'
    <3>1. CASE trust!Query(c) BY <1>1, <3>1 DEF trust!Query, trust!TypeOK, trust!Digests, trust!Goto, trust!Answer
    <3>2. CASE trust!ReadConfig(c) BY <1>1, <3>2 DEF trust!ReadConfig, trust!TypeOK, trust!Digests, trust!Goto, trust!Answer
    <3>3. CASE trust!CheckTrust(c)
      <4>1. <<s5[c], s6[c]>> \in Files \X Contents
        BY <3>3 DEF trust!CheckTrust, trust!Honest, trust!TypeOK, trust!Digests
      <4>2. s10' \in SUBSET (Files \X Contents) BY <3>3, <4>1 DEF trust!CheckTrust, trust!TypeOK
      <4>3. QED BY <3>3, <4>2 DEF trust!CheckTrust, trust!TypeOK, trust!Goto, trust!Answer
    <3>4. CASE trust!Prompt(c)
      <4>1. <<s5[c], s6[c]>> \in Files \X Contents
        BY <3>4 DEF trust!Prompt, trust!Honest, trust!TypeOK, trust!Digests
      <4>2. s9' \in SUBSET (Files \X Contents) BY <3>4, <4>1 DEF trust!Prompt, trust!TypeOK
      <4>3. QED BY <3>4, <4>2 DEF trust!Prompt, trust!TypeOK, trust!Goto
    <3>5. CASE trust!ApproveConfig(c) BY <1>1, <3>5 DEF trust!ApproveConfig, trust!TypeOK, trust!Digests, trust!Goto, trust!Answer
    <3>6. CASE trust!ReloadStore(c) BY <1>1, <3>6 DEF trust!ReloadStore, trust!TypeOK, trust!Digests, trust!Goto, trust!Answer
    <3>7. CASE trust!SaveStore(c)
      <4>1. s2' \in [Files -> trust!Digests]
        <5>1. s2' \in {s2, [s7[c] EXCEPT ![s5[c]] = s6[c]]} BY <3>7 DEF trust!SaveStore
        <5>2. /\ s7[c] \in [Files -> trust!Digests] /\ s6[c] \in trust!Digests
              /\ s2 \in [Files -> trust!Digests]
          BY DEF trust!TypeOK
        <5>3. QED BY <5>1, <5>2
      <4>2. /\ s3' \in Clients \cup {Unlocked} /\ s8' \in [Clients -> {"require", "ignore"}]
            /\ UNCHANGED <<s1, s5, s6, s7, s9, s10, s12, s13>>
        BY <3>7 DEF trust!SaveStore, trust!TypeOK, trust!Answer
      <4>3. (trust!Goto(c, "resolve") /\ UNCHANGED s11) \/ trust!Answer(c, "error")
        BY <3>7 DEF trust!SaveStore
      <4>4. QED BY <4>1, <4>2, <4>3 DEF trust!TypeOK, trust!Goto, trust!Answer
    <3>8. CASE trust!Crash(c) BY <1>1, <3>8 DEF trust!Crash, trust!TypeOK, trust!Digests, trust!Goto, trust!Answer
    <3>9. QED BY <1>1, <3>1, <3>2, <3>3, <3>4, <3>5, <3>6, <3>7, <3>8
  <2>2. trust!OnlyReviewedConfigApplies'
    <3>1. CASE trust!Query(c) BY <1>1, <3>1 DEF trust!Query, trust!OnlyReviewedConfigApplies, trust!Honest, trust!WasReviewed, trust!IsTrusted, trust!TypeOK
    <3>2. CASE trust!ReadConfig(c) BY <1>1, <3>2 DEF trust!ReadConfig, trust!OnlyReviewedConfigApplies, trust!Honest, trust!WasReviewed, trust!IsTrusted, trust!TypeOK
    <3>3. CASE trust!CheckTrust(c) BY <1>1, <3>3 DEF trust!CheckTrust, trust!OnlyReviewedConfigApplies, trust!Honest, trust!WasReviewed, trust!IsTrusted, trust!TypeOK
    <3>4. CASE trust!Prompt(c) BY <1>1, <3>4 DEF trust!Prompt, trust!OnlyReviewedConfigApplies, trust!Honest, trust!WasReviewed, trust!IsTrusted, trust!TypeOK
    <3>5. CASE trust!ApproveConfig(c) BY <1>1, <3>5 DEF trust!ApproveConfig, trust!OnlyReviewedConfigApplies, trust!Honest, trust!WasReviewed, trust!IsTrusted, trust!TypeOK
    <3>6. CASE trust!ReloadStore(c) BY <1>1, <3>6 DEF trust!ReloadStore, trust!OnlyReviewedConfigApplies, trust!Honest, trust!WasReviewed, trust!IsTrusted, trust!TypeOK
    <3>7. CASE trust!SaveStore(c) BY <1>1, <3>7 DEF trust!SaveStore, trust!OnlyReviewedConfigApplies, trust!Honest, trust!WasReviewed, trust!IsTrusted, trust!TypeOK
    <3>8. CASE trust!Crash(c) BY <1>1, <3>8 DEF trust!Crash, trust!OnlyReviewedConfigApplies, trust!Honest, trust!WasReviewed, trust!IsTrusted, trust!TypeOK
    <3>9. QED BY <1>1, <3>1, <3>2, <3>3, <3>4, <3>5, <3>6, <3>7, <3>8
  <2>3. \A f \in Files : trust!WasReviewed(f, s2[f])'
    <3>1. CASE trust!Query(c) BY <1>1, <3>1 DEF trust!Query, trust!Honest, trust!WasReviewed, trust!TypeOK
    <3>2. CASE trust!ReadConfig(c) BY <1>1, <3>2 DEF trust!ReadConfig, trust!Honest, trust!WasReviewed, trust!TypeOK
    <3>3. CASE trust!CheckTrust(c) BY <1>1, <3>3 DEF trust!CheckTrust, trust!Honest, trust!WasReviewed, trust!TypeOK
    <3>4. CASE trust!Prompt(c) BY <1>1, <3>4 DEF trust!Prompt, trust!Honest, trust!WasReviewed, trust!TypeOK
    <3>5. CASE trust!ApproveConfig(c) BY <1>1, <3>5 DEF trust!ApproveConfig, trust!Honest, trust!WasReviewed, trust!TypeOK
    <3>6. CASE trust!ReloadStore(c) BY <1>1, <3>6 DEF trust!ReloadStore, trust!Honest, trust!WasReviewed, trust!TypeOK
    <3>7. CASE trust!SaveStore(c)
      <4>1. s2' \in {s2, [s7[c] EXCEPT ![s5[c]] = s6[c]]} /\ s9' = s9 /\ s4[c] = "saving"
        BY <3>7 DEF trust!SaveStore
      <4>2. s7[c] \in [Files -> trust!Digests] BY DEF trust!TypeOK
      <4>3. QED BY <4>1, <4>2 DEF trust!Honest, trust!WasReviewed
    <3>8. CASE trust!Crash(c) BY <1>1, <3>8 DEF trust!Crash, trust!Honest, trust!WasReviewed, trust!TypeOK
    <3>9. QED BY <1>1, <3>1, <3>2, <3>3, <3>4, <3>5, <3>6, <3>7, <3>8
  <2>4. trust!Honest(c)'
    <3>1. CASE trust!Query(c) BY <1>1, <3>1 DEF trust!Query, trust!Honest, trust!WasReviewed, trust!TypeOK, trust!Digests, trust!Goto, trust!Answer
    <3>2. CASE trust!ReadConfig(c)
      <4>1. /\ UNCHANGED <<s1, s2, s5, s7, s9>> /\ s6' = [s6 EXCEPT ![c] = s1[s5[c]]]
            /\ \/ s4' = [s4 EXCEPT ![c] = "check"] /\ s1[s5[c]] # NoDigest
               \/ s4' = [s4 EXCEPT ![c] = "idle"]
        BY <3>2 DEF trust!ReadConfig, trust!Goto, trust!Answer
      <4>2. s6'[c] = s1[s5[c]] /\ s4'[c] \in {"check", "idle"}
            /\ (s4'[c] = "check" => s6'[c] # NoDigest)
        BY <4>1 DEF trust!TypeOK
      <4>3. \A f \in Files : (trust!WasReviewed(f, s7[c][f]))'
        BY <4>1 DEF trust!Honest, trust!WasReviewed
      <4>4. QED BY <4>2, <4>3 DEF trust!Honest
    <3>3. CASE trust!CheckTrust(c) BY <1>1, <3>3 DEF trust!CheckTrust, trust!Honest, trust!WasReviewed, trust!TypeOK, trust!Digests, trust!Goto, trust!Answer
    <3>4. CASE trust!Prompt(c) BY <1>1, <3>4 DEF trust!Prompt, trust!Honest, trust!WasReviewed, trust!TypeOK, trust!Digests, trust!Goto, trust!Answer
    <3>5. CASE trust!ApproveConfig(c) BY <1>1, <3>5 DEF trust!ApproveConfig, trust!Honest, trust!WasReviewed, trust!TypeOK, trust!Digests, trust!Goto, trust!Answer
    <3>6. CASE trust!ReloadStore(c)
      <4>1. /\ s4[c] = "verified" /\ s3' = c
            /\ s7' = [s7 EXCEPT ![c] = s2] /\ s4' = [s4 EXCEPT ![c] = "saving"]
            /\ UNCHANGED <<s1, s2, s5, s6, s9>>
        BY <3>6 DEF trust!ReloadStore, trust!Goto
      <4>2. s7'[c] = s2 /\ s4'[c] = "saving" BY <4>1 DEF trust!TypeOK
      <4>3. \A f \in Files : trust!WasReviewed(f, s2[f]) /\ (trust!WasReviewed(f, s2[f]))'
        BY <4>1 DEF trust!WasReviewed
      <4>4. /\ s6[c] # NoDigest /\ trust!WasReviewed(s5[c], s6[c])
            /\ (trust!WasReviewed(s5[c], s6[c]))'
        BY <4>1 DEF trust!Honest, trust!WasReviewed
      <4>5. QED BY <4>1, <4>2, <4>3, <4>4 DEF trust!Honest, trust!WasReviewed
    <3>7. CASE trust!SaveStore(c) BY <1>1, <3>7 DEF trust!SaveStore, trust!Honest, trust!WasReviewed, trust!TypeOK, trust!Digests, trust!Goto, trust!Answer
    <3>8. CASE trust!Crash(c) BY <1>1, <3>8 DEF trust!Crash, trust!Honest, trust!WasReviewed, trust!TypeOK, trust!Digests, trust!Goto, trust!Answer
    <3>9. QED BY <1>1, <3>1, <3>2, <3>3, <3>4, <3>5, <3>6, <3>7, <3>8
  <2>5. ASSUME NEW q \in Clients, q # c PROVE trust!Honest(q)'
    <3>1. CASE trust!Query(c) BY <1>1, <3>1, <2>5, Assumption DEF trust!Query, trust!Honest, trust!WasReviewed, trust!TypeOK, trust!Digests, trust!Goto, trust!Answer, Assumption, TrustAssumption
    <3>2. CASE trust!ReadConfig(c) BY <1>1, <3>2, <2>5, Assumption DEF trust!ReadConfig, trust!Honest, trust!WasReviewed, trust!TypeOK, trust!Digests, trust!Goto, trust!Answer, Assumption, TrustAssumption
    <3>3. CASE trust!CheckTrust(c) BY <1>1, <3>3, <2>5, Assumption DEF trust!CheckTrust, trust!Honest, trust!WasReviewed, trust!TypeOK, trust!Digests, trust!Goto, trust!Answer, Assumption, TrustAssumption
    <3>4. CASE trust!Prompt(c) BY <1>1, <3>4, <2>5, Assumption DEF trust!Prompt, trust!Honest, trust!WasReviewed, trust!TypeOK, trust!Digests, trust!Goto, trust!Answer, Assumption, TrustAssumption
    <3>5. CASE trust!ApproveConfig(c) BY <1>1, <3>5, <2>5, Assumption DEF trust!ApproveConfig, trust!Honest, trust!WasReviewed, trust!TypeOK, trust!Digests, trust!Goto, trust!Answer, Assumption, TrustAssumption
    <3>6. CASE trust!ReloadStore(c) BY <1>1, <3>6, <2>5, Assumption DEF trust!ReloadStore, trust!Honest, trust!WasReviewed, trust!TypeOK, trust!Digests, trust!Goto, trust!Answer, Assumption, TrustAssumption
    <3>7. CASE trust!SaveStore(c) BY <1>1, <3>7, <2>5, Assumption DEF trust!SaveStore, trust!Honest, trust!WasReviewed, trust!TypeOK, trust!Digests, trust!Goto, trust!Answer, Assumption, TrustAssumption
    <3>8. CASE trust!Crash(c) BY <1>1, <3>8, <2>5, Assumption DEF trust!Crash, trust!Honest, trust!WasReviewed, trust!TypeOK, trust!Digests, trust!Goto, trust!Answer, Assumption, TrustAssumption
    <3>9. QED BY <1>1, <3>1, <3>2, <3>3, <3>4, <3>5, <3>6, <3>7, <3>8
  <2>6. QED BY <2>1, <2>2, <2>3, <2>4, <2>5
<1>2. CASE trust!EditConfig \/ trust!LoseStore \/ UNCHANGED trust!vars
  <2>1. /\ UNCHANGED <<s3, s4, s5, s6, s7, s8, s9, s10, s11>>
        /\ s2' \in {s2, [f \in Files |-> NoDigest]}
    BY <1>2 DEF trust!EditConfig, trust!LoseStore, trust!vars
  <2>2. s1' \in [Files -> trust!Digests] /\ s2' \in [Files -> trust!Digests]
    BY <1>2, <2>1 DEF trust!EditConfig, trust!LoseStore, trust!vars, trust!TypeOK, trust!Digests
  <2>3. s12' \in Nat /\ s13' = s13
    BY <1>2 DEF trust!EditConfig, trust!LoseStore, trust!vars, trust!TypeOK
  <2>4. trust!TypeOK' /\ trust!OnlyReviewedConfigApplies'
    BY <2>1, <2>2, <2>3 DEF trust!TypeOK, trust!OnlyReviewedConfigApplies
  <2>5. \A f \in Files : s2'[f] \in {s2[f], NoDigest} BY <2>1
  <2>6. \A f \in Files : trust!WasReviewed(f, s2[f])' BY <2>1, <2>5 DEF trust!WasReviewed
  <2>7. \A c \in Clients : trust!Honest(c)' BY <2>1, <2>5 DEF trust!Honest, trust!WasReviewed
  <2>8. QED BY <2>4, <2>6, <2>7
<1>3. QED BY <1>1, <1>2 DEF trust!Next

LEMMA TrustSteps ==
    ASSUME Assumption, trust!TrustInv, [trust!Next]_(trust!vars)
    PROVE  [trust!ApprovalsKeepEachOther]_(trust!vars)
<1> USE DEF trust!TrustInv, trust!ApprovalsKeepEachOther
<1>1. ASSUME NEW c \in Clients, trust!SaveStore(c) PROVE trust!ApprovalsKeepEachOther
  <2>1. s2' \in {s2, [s7[c] EXCEPT ![s5[c]] = s6[c]]} /\ s4[c] = "saving"
    BY <1>1 DEF trust!SaveStore
  <2>2. s7[c] \in [Files -> trust!Digests] BY DEF trust!TypeOK
  <2>3. \A f \in Files : s2[f] \in {NoDigest, s7[c][f]} BY <2>1 DEF trust!Honest
  <2>4. QED BY <2>1, <2>2, <2>3
<1>2. ASSUME NEW c \in Clients,
             \/ trust!Query(c) \/ trust!ReadConfig(c) \/ trust!CheckTrust(c) \/ trust!Prompt(c)
             \/ trust!ApproveConfig(c) \/ trust!ReloadStore(c) \/ trust!Crash(c)
      PROVE  trust!ApprovalsKeepEachOther
  BY <1>2 DEF trust!Query, trust!ReadConfig, trust!CheckTrust, trust!Prompt, trust!ApproveConfig,
    trust!ReloadStore, trust!Crash
<1>3. CASE trust!EditConfig BY <1>3 DEF trust!EditConfig
<1>4. CASE trust!LoseStore BY <1>4 DEF trust!LoseStore, trust!TypeOK
<1>5. QED BY <1>1, <1>2, <1>3, <1>4 DEF trust!Next

\* Only content a person has read and agreed to configures anything, and approvals
\* at once do not lose each other, for any number of clients, files and contents:
\* ApproveWorkingDirectory compares digests, and Add reloads under its lock.
THEOREM TrustStaysReviewed ==
    ASSUME Assumption PROVE ServicesSpec => TrustIsReviewed
<1> DEFINE Inv == focus = "trust" => trust!TrustInv
<1>1. ServicesInit => Inv BY InitTrust DEF ServicesInit
<1>2. Inv /\ [ServicesNext]_services => Inv'
  BY NextTrust DEF ServicesNext, services, slots, trust!vars
<1>3. Inv => (focus = "trust" => trust!OnlyReviewedConfigApplies) BY DEF trust!TrustInv
<1>4. Inv /\ [ServicesNext]_services => [focus = "trust" => trust!ApprovalsKeepEachOther]_services
  BY TrustSteps DEF ServicesNext, services, slots, trust!vars
<1>5. QED BY <1>1, <1>2, <1>3, <1>4, PTL DEF ServicesSpec, TrustIsReviewed

-----------------------------------------------------------------------------
(* OperationFollow. *)

\* A rising sequence has no element twice, ...
LEMMA RisingIsInjective ==
    ASSUME NEW s \in Seq(Nat), NEW n \in Nat, follow!Rising(s, n)
    PROVE  \A i, j \in 1..Len(s) : s[i] = s[j] => i = j
<1>1. ASSUME NEW i \in 1..Len(s), NEW j \in 1..Len(s), s[i] = s[j] PROVE i = j
  <2>1. i \in Int /\ j \in Int /\ s[i] \in Nat OBVIOUS
  <2>2. ~(i < j) /\ ~(j < i) BY <1>1, <2>1 DEF follow!Rising
  <2>3. QED BY <2>1, <2>2
<1>2. QED BY <1>1

\* ... rises still under a greater bound, and with an element above the last one.
LEMMA RisingMore ==
    ASSUME NEW s \in Seq(Nat), NEW n \in Nat, NEW m \in Nat, n <= m, follow!Rising(s, n)
    PROVE  follow!Rising(s, m)
  BY DEF follow!Rising

LEMMA RisingAppend ==
    ASSUME NEW s \in Seq(Nat), NEW n \in Nat, NEW m \in Nat, n < m, follow!Rising(s, n)
    PROVE  follow!Rising(Append(s, m), m)
<1> DEFINE t == Append(s, m)
<1>1. t \in Seq(Nat) /\ Len(t) = Len(s) + 1 /\ t[Len(s) + 1] = m /\ \A i \in 1..Len(s) : t[i] = s[i]
  OBVIOUS
<1>2. ASSUME NEW i \in 1..Len(t), NEW j \in 1..Len(t), j < i PROVE t[j] < t[i]
  <2>1. j \in 1..Len(s) /\ t[j] = s[j] /\ s[j] \in 1..n BY <1>1, <1>2 DEF follow!Rising
  <2>2. CASE i \in 1..Len(s) BY <1>1, <1>2, <2>1, <2>2 DEF follow!Rising
  <2>3. CASE i = Len(s) + 1 BY <1>1, <2>1, <2>3
  <2>4. QED BY <1>1, <2>2, <2>3
<1>3. ASSUME NEW i \in 1..Len(t) PROVE t[i] \in 1..m
  <2>1. CASE i \in 1..Len(s) BY <1>1, <2>1 DEF follow!Rising
  <2>2. CASE i = Len(s) + 1 BY <1>1, <2>2
  <2>3. QED BY <1>1, <2>1, <2>2
<1>4. QED BY <1>2, <1>3 DEF follow!Rising

LEMMA MeantIsASequence ==
    ASSUME s3 \in Seq([meant : Nat, met : Nat])
    PROVE  /\ follow!Meant \in Seq(Nat) /\ Len(follow!Meant) = Len(s3)
           /\ \A i \in 1..Len(s3) : follow!Meant[i] = s3[i].meant
<1>1. ASSUME NEW i \in 1..Len(s3) PROVE s3[i].meant \in Nat
  <2>1. s3[i] \in [meant : Nat, met : Nat] BY ElementOfSeq
  <2>2. QED BY <2>1
<1>2. Len(s3) \in Nat OBVIOUS
<1>3. follow!Meant \in [1..Len(s3) -> Nat] BY <1>1 DEF follow!Meant
<1>4. PICK n \in Nat : n = Len(s3) BY <1>2
<1>5. follow!Meant \in Seq(Nat) BY <1>3, <1>4, SeqDef
<1>6. Len(follow!Meant) = n BY <1>3, <1>4, <1>5, LenProperties
<1>7. QED BY <1>4, <1>5, <1>6 DEF follow!Meant

LEMMA InitFollow == ASSUME follow!Init PROVE follow!FollowInv
<1> USE DEF follow!Init
<1>1. s1 \in Seq({"progress", "prompt"} \cup follow!Ends) /\ Len(s1) = 0 /\ 1..0 = {} OBVIOUS
<1>2. follow!LogIsSound BY <1>1 DEF follow!LogIsSound, follow!Ended
<1>3. s3 \in Seq([meant : Nat, met : Nat]) /\ Len(s3) = 0 /\ Len(follow!Meant) = 0
  BY <1>1 DEF follow!Meant
<1>4. follow!AnswersAreSound BY <1>1, <1>3 DEF follow!AnswersAreSound, follow!Rising
<1>5. s11 \in Seq(Nat) /\ s12 \in Seq(Nat) /\ Len(s11) = 0 /\ Len(s12) = 0 OBVIOUS
<1>6. follow!ClientIsSound
  BY <1>1, <1>5 DEF follow!ClientIsSound, follow!Rising, follow!OutcomeIsTheOperations, follow!Ends
<1>7. QED BY <1>2, <1>4, <1>6 DEF follow!FollowInv

\* The operation publishes, while no prompt is open.
LEMMA LogGrows ==
    ASSUME follow!FollowInv, NEW kind \in {"progress", "prompt"} \cup follow!Ends,
           s1' = Append(s1, kind), ~follow!Ended, s2 = 0,
           \/ s2' = 0
           \/ kind = "prompt" /\ s2' = Len(s1) + 1,
           UNCHANGED s3, UNCHANGED follow!followVars
    PROVE  follow!FollowInv'
<1> DEFINE n == Len(s1)
<1>1. /\ s1 \in Seq({"progress", "prompt"} \cup follow!Ends) /\ n \in Nat
      /\ \A i \in 1..n : s1[i] \notin follow!Ends
  <2>1. s1 \in Seq({"progress", "prompt"} \cup follow!Ends) BY DEF follow!FollowInv, follow!LogIsSound
  <2>2. \A i \in 1..n : s1[i] \in follow!Ends => i = n BY DEF follow!FollowInv, follow!LogIsSound
  <2>3. s1 # <<>> => s1[n] \notin follow!Ends BY DEF follow!Ended
  <2>4. QED BY <2>1, <2>2, <2>3
<1>2. /\ s1' \in Seq({"progress", "prompt"} \cup follow!Ends) /\ Len(s1') = n + 1 /\ s1' # <<>>
      /\ s1'[n + 1] = kind /\ \A i \in 1..n : s1'[i] = s1[i]
  BY <1>1
<1>3. follow!LogIsSound'
  <2>1. \A i \in 1..Len(s1') : s1'[i] \in follow!Ends => i = Len(s1') BY <1>1, <1>2
  <2>2. s2' \in {0, Len(s1')} BY <1>2
  <2>3. s2' # 0 => ~follow!Ended' BY <1>1, <1>2 DEF follow!Ended, follow!Ends
  <2>4. QED BY <1>2, <2>1, <2>2, <2>3 DEF follow!LogIsSound
<1>4. follow!AnswersAreSound'
  <2>1. follow!AnswersAreSound BY DEF follow!FollowInv
  <2>2. follow!Rising(follow!Meant, n) BY <2>1 DEF follow!AnswersAreSound
  <2>3. follow!Meant' = follow!Meant /\ follow!Meant \in Seq(Nat)
    <3>1. s3 \in Seq([meant : Nat, met : Nat]) BY <2>1 DEF follow!AnswersAreSound
    <3>2. QED BY <3>1, MeantIsASequence DEF follow!Meant
  <2>4. follow!Rising(follow!Meant, n + 1) BY <1>1, <2>2, <2>3, RisingMore
  <2>5. s2' # 0 => s2' - 1 = n BY <1>1
  <2>6. Len(s1') = n + 1 BY <1>2
  <2>7. (s2' = 0 => follow!Rising(follow!Meant', Len(s1'))) /\ (s2' # 0 => follow!Rising(follow!Meant', s2' - 1))
    BY <2>2, <2>3, <2>4, <2>5, <2>6
  <2>8. QED BY <2>1, <2>7 DEF follow!AnswersAreSound
<1>5. follow!ClientIsSound'
  <2>1. follow!ClientIsSound BY DEF follow!FollowInv
  <2>2. s13 \notin follow!Ends BY <2>1 DEF follow!ClientIsSound, follow!OutcomeIsTheOperations
  <2>3. follow!OutcomeIsTheOperations' BY <2>2 DEF follow!OutcomeIsTheOperations, follow!followVars
  <2>4. Len(s11) \in Nat /\ Len(s11) <= Len(s1') BY <1>1, <1>2, <2>1 DEF follow!ClientIsSound
  <2>5. UNCHANGED <<s6, s7, s8, s9, s10, s11, s12, s13>> BY DEF follow!followVars
  <2>6. QED BY <2>1, <2>3, <2>4, <2>5 DEF follow!ClientIsSound
<1>6. QED BY <1>3, <1>4, <1>5 DEF follow!FollowInv

\* A prompt is closed, by its answer or without one.
LEMMA PromptCloses ==
    ASSUME follow!LogIsSound, follow!AnswersAreSound, s2 # 0, s2' = 0, UNCHANGED s1,
           s3' = s3 \/ s3' = Append(s3, [meant |-> s2, met |-> s2])
    PROVE  follow!LogIsSound' /\ follow!AnswersAreSound'
<1>1. follow!LogIsSound' BY DEF follow!LogIsSound
<1>2. s1 \in Seq({"progress", "prompt"} \cup follow!Ends) /\ s2 = Len(s1) /\ s2 \in Nat /\ s2 - 1 \in Nat
  <2>1. s1 \in Seq({"progress", "prompt"} \cup follow!Ends) /\ s2 = Len(s1) BY DEF follow!LogIsSound
  <2>2. QED BY <2>1
<1>3. follow!Rising(follow!Meant, s2 - 1) /\ s3 \in Seq([meant : Nat, met : Nat])
  BY DEF follow!AnswersAreSound
<1>4. follow!Meant \in Seq(Nat) /\ Len(follow!Meant) = Len(s3) BY <1>3, MeantIsASequence
<1>5. follow!Rising(follow!Meant', s2) /\ s3' \in Seq([meant : Nat, met : Nat])
  <2>1. CASE s3' = s3
    <3>1. follow!Meant' = follow!Meant BY <2>1 DEF follow!Meant
    <3>2. follow!Rising(follow!Meant, s2) BY <1>2, <1>3, <1>4, RisingMore
    <3>3. QED BY <1>3, <2>1, <3>1, <3>2
  <2>2. CASE s3' = Append(s3, [meant |-> s2, met |-> s2])
    <3>1. s3' \in Seq([meant : Nat, met : Nat]) /\ Len(s3') = Len(s3) + 1
          /\ s3'[Len(s3) + 1] = [meant |-> s2, met |-> s2] /\ \A i \in 1..Len(s3) : s3'[i] = s3[i]
      BY <1>2, <1>3, <2>2
    <3>2. follow!Meant' = Append(follow!Meant, s2)
      <4>1. follow!Meant' = [i \in 1..(Len(s3) + 1) |-> s3'[i].meant] BY <3>1 DEF follow!Meant
      <4>2. /\ \A i \in 1..Len(s3) : follow!Meant[i] = s3[i].meant
            /\ Len(s3) \in Nat
        BY <1>3, MeantIsASequence
      <4>3. /\ Append(follow!Meant, s2) \in Seq(Nat)
            /\ Len(Append(follow!Meant, s2)) = Len(s3) + 1
            /\ \A i \in 1..Len(s3) : Append(follow!Meant, s2)[i] = follow!Meant[i]
            /\ Append(follow!Meant, s2)[Len(s3) + 1] = s2
        BY <1>2, <1>4, AppendProperties
      <4>4. Append(follow!Meant, s2) = [i \in 1..(Len(s3) + 1) |-> Append(follow!Meant, s2)[i]]
        BY <4>2, <4>3, LenProperties
      <4>5. ASSUME NEW i \in 1..(Len(s3) + 1) PROVE s3'[i].meant = Append(follow!Meant, s2)[i]
        <5>1. CASE i = Len(s3) + 1 BY <3>1, <4>3, <5>1
        <5>2. CASE i # Len(s3) + 1
          <6>1. i \in 1..Len(s3) BY <4>2, <5>2
          <6>2. QED BY <3>1, <4>2, <4>3, <6>1
        <5>3. QED BY <5>1, <5>2
      <4>6. QED BY <4>1, <4>4, <4>5
    <3>3. follow!Rising(Append(follow!Meant, s2), s2) BY <1>2, <1>3, <1>4, RisingAppend
    <3>4. QED BY <3>1, <3>2, <3>3
  <2>3. QED BY <2>1, <2>2
<1>6. ASSUME NEW i \in 1..Len(s3') PROVE s3'[i].meant = s3'[i].met
  <2>1. i \in 1..Len(s3) => s3[i].meant = s3[i].met BY DEF follow!AnswersAreSound
  <2>2. CASE s3' = s3 BY <2>1, <2>2
  <2>3. CASE s3' = Append(s3, [meant |-> s2, met |-> s2])
    <3>1. \/ i \in 1..Len(s3) /\ s3'[i] = s3[i]
          \/ s3'[i] = [meant |-> s2, met |-> s2]
      BY <1>3, <2>3
    <3>2. QED BY <2>1, <3>1
  <2>4. QED BY <2>2, <2>3
<1>7. QED BY <1>1, <1>2, <1>5, <1>6 DEF follow!AnswersAreSound

\* The client takes a step that shows nothing.
LEMMA ClientKeeps ==
    ASSUME follow!ClientIsSound, UNCHANGED <<s1, s11, s12>>, s8' \in Nat,
           s6' \in {"connect", "decode"} => Len(s11) = s8',
           s6' \in {"prompt", "respond", "answered"} => Len(s11) = s8' + 1 /\ s9' = Len(s11),
           s13' \in {"none", "unknown"}, s6' # "done" => s13' = "none"
    PROVE  follow!ClientIsSound'
<1>1. follow!OutcomeIsTheOperations' BY DEF follow!OutcomeIsTheOperations, follow!Ends
<1>2. QED BY <1>1 DEF follow!ClientIsSound

LEMMA ClientSteps ==
    ASSUME follow!FollowInv,
           \/ follow!Connect \/ follow!StreamBreaks \/ follow!PromptAnswered \/ follow!PromptExpires
           \/ follow!PromptFails \/ follow!ResponseReturns
    PROVE  follow!FollowInv'
<1>1. UNCHANGED <<s1, s2, s3, s11, s12>>
  BY DEF follow!Connect, follow!StreamBreaks, follow!PromptAnswered, follow!PromptExpires,
    follow!PromptFails, follow!ResponseReturns, follow!logVars
<1>2. follow!LogIsSound' /\ follow!AnswersAreSound'
  BY <1>1 DEF follow!FollowInv, follow!LogIsSound, follow!AnswersAreSound, follow!Ended, follow!Meant
<1>3. /\ s8 \in Nat /\ (s6 # "done" => s13 = "none")
      /\ s6 \in {"connect", "decode"} => Len(s11) = s8
      /\ s6 \in {"prompt", "respond", "answered"} => Len(s11) = s8 + 1 /\ s9 = Len(s11)
      /\ Len(s11) \in Nat
  BY DEF follow!FollowInv, follow!ClientIsSound
<1>4. /\ s8' \in Nat /\ s13' \in {"none", "unknown"} /\ (s6' # "done" => s13' = "none")
      /\ s6' \in {"connect", "decode"} => Len(s11) = s8'
      /\ s6' \in {"prompt", "respond", "answered"} => Len(s11) = s8' + 1 /\ s9' = Len(s11)
  <2> USE DEF follow!Interrupted, follow!Resume, follow!Return, follow!Handled
  <2>1. CASE follow!Connect BY <1>3, <2>1 DEF follow!Connect
  <2>2. CASE follow!StreamBreaks BY <1>3, <2>2 DEF follow!StreamBreaks
  <2>3. CASE follow!PromptAnswered BY <1>3, <2>3 DEF follow!PromptAnswered
  <2>4. CASE follow!PromptExpires BY <1>3, <2>4 DEF follow!PromptExpires
  <2>5. CASE follow!PromptFails BY <1>3, <2>5 DEF follow!PromptFails
  <2>6. CASE follow!ResponseReturns BY <1>3, <2>6 DEF follow!ResponseReturns
  <2>7. QED BY <2>1, <2>2, <2>3, <2>4, <2>5, <2>6
<1>5. follow!ClientIsSound' BY <1>1, <1>4, ClientKeeps DEF follow!FollowInv
<1>6. QED BY <1>2, <1>5 DEF follow!FollowInv

\* The next event is shown, and it is the next number that is shown.
LEMMA ReadStep == ASSUME follow!FollowInv, follow!ReadEvent PROVE follow!FollowInv'
<1> DEFINE n == s8 + 1
<1>1. UNCHANGED <<s1, s2, s3>> BY DEF follow!ReadEvent
<1>2. follow!LogIsSound' /\ follow!AnswersAreSound'
  BY <1>1 DEF follow!FollowInv, follow!LogIsSound, follow!AnswersAreSound, follow!Ended, follow!Meant
<1>3. /\ s8 \in Nat /\ s6 = "decode" /\ s13 = "none" /\ Len(s11) = s8 /\ n \in 1..Len(s1)
      /\ s11 \in Seq(Nat) /\ s12 \in Seq(Nat) /\ \A i \in 1..Len(s11) : s11[i] = i
      /\ follow!Rising(s12, s8)
  BY DEF follow!FollowInv, follow!ClientIsSound, follow!ReadEvent, follow!NextInStream
<1>4. s9' = n /\ s11' = Append(s11, n) BY DEF follow!ReadEvent, follow!NextInStream
<1>5. /\ s11' \in Seq(Nat) /\ Len(s11') = n /\ n \in Nat /\ s8 < n /\ s8 <= n
      /\ \A i \in 1..Len(s11') : s11'[i] = i
  BY <1>3, <1>4
<1>6. \/ s6' = "done" /\ s13' \in {"unknown", "failed callback"} /\ s8' \in {s8, n} /\ s12' = s12
      \/ s1[n] \in follow!Ends /\ s6' = "done" /\ s13' = s1[n] /\ s8' = n /\ s12' = s12
      \/ s6' = "prompt" /\ s12' = Append(s12, n) /\ UNCHANGED <<s8, s13>>
      \/ s6' = "decode" /\ s8' = n /\ UNCHANGED <<s12, s13>>
  <2>1. CASE follow!EventFails(n) BY <2>1 DEF follow!EventFails, follow!Return
  <2>2. CASE follow!EventSucceeds(n)
    <3>1. s1[n] \in {"progress", "prompt"} \cup follow!Ends
      <4>1. s1 \in Seq({"progress", "prompt"} \cup follow!Ends)
        BY DEF follow!FollowInv, follow!LogIsSound
      <4>2. QED BY <1>3, <4>1, ElementOfSeq
    <3>2. CASE s1[n] \in follow!Ends
      BY <2>2, <3>2 DEF follow!EventSucceeds, follow!Handled, follow!Return, follow!Ends
    <3>3. CASE s1[n] = "prompt" BY <2>2, <3>3 DEF follow!EventSucceeds, follow!Ends
    <3>4. CASE s1[n] = "progress"
      BY <2>2, <3>4 DEF follow!EventSucceeds, follow!Handled, follow!Ends
    <3>5. QED BY <3>1, <3>2, <3>3, <3>4
  <2>3. QED BY <2>1, <2>2, <1>4 DEF follow!ReadEvent
<1>7. s12' \in Seq(Nat) /\ follow!Rising(s12', n)
  <2>1. follow!Rising(s12, n) BY <1>3, <1>5, RisingMore
  <2>2. follow!Rising(Append(s12, n), n) BY <1>3, <1>5, RisingAppend
  <2>3. s12' = s12 \/ s12' = Append(s12, n) BY <1>6
  <2>4. CASE s12' = s12 BY <1>3, <2>1, <2>4
  <2>5. CASE s12' = Append(s12, n) BY <1>3, <1>5, <2>2, <2>5
  <2>6. QED BY <2>3, <2>4, <2>5
<1>8. follow!OutcomeIsTheOperations'
  <2>1. CASE s13' \in follow!Ends
    <3>1. s1[n] \in follow!Ends /\ s13' = s1[n] BY <1>3, <1>6, <2>1 DEF follow!Ends
    <3>2. n = Len(s1) /\ s1 # <<>> BY <1>3, <3>1 DEF follow!FollowInv, follow!LogIsSound
    <3>3. QED BY <1>1, <1>5, <3>1, <3>2 DEF follow!OutcomeIsTheOperations, follow!Ended
  <2>2. CASE s13' \notin follow!Ends BY <2>2 DEF follow!OutcomeIsTheOperations
  <2>3. QED BY <2>1, <2>2
<1>9. Len(s11') <= Len(s1') BY <1>1, <1>3, <1>5
<1>10. follow!ClientIsSound'
  <2>1. s8' \in Nat BY <1>3, <1>5, <1>6
  <2>2. s6' \in {"connect", "decode"} => Len(s11') = s8' BY <1>5, <1>6
  <2>3. s6' \in {"prompt", "respond", "answered"} => Len(s11') = s8' + 1 /\ s9' = Len(s11')
    BY <1>4, <1>5, <1>6
  <2>4. s6' # "done" => s13' = "none" BY <1>3, <1>6
  <2>5. follow!Rising(s12', Len(s11')) BY <1>5, <1>7
  <2>6. QED BY <1>5, <1>7, <1>8, <1>9, <2>1, <2>2, <2>3, <2>4, <2>5 DEF follow!ClientIsSound
<1>11. QED BY <1>2, <1>10 DEF follow!FollowInv

LEMMA NextFollow ==
    ASSUME follow!FollowInv, [follow!Next]_(follow!vars)
    PROVE  follow!FollowInv'
<1>0. follow!LogIsSound /\ follow!AnswersAreSound /\ follow!ClientIsSound BY DEF follow!FollowInv
<1>1. ASSUME NEW k \in {"progress", "prompt"}, follow!Publish(k) PROVE follow!FollowInv'
  <2>1. /\ s1' = Append(s1, k) /\ ~follow!Ended /\ s2 = 0 /\ UNCHANGED s3
        /\ UNCHANGED follow!followVars /\ (s2' = 0 \/ (k = "prompt" /\ s2' = Len(s1) + 1))
    BY <1>1 DEF follow!Publish
  <2>2. QED BY <2>1, LogGrows
<1>2. ASSUME NEW o \in follow!Ends, follow!Complete(o) PROVE follow!FollowInv'
  <2>1. /\ s1' = Append(s1, o) /\ ~follow!Ended /\ s2 = 0 /\ s2' = 0 /\ UNCHANGED s3
        /\ UNCHANGED follow!followVars
    BY <1>2 DEF follow!Complete
  <2>2. QED BY <2>1, LogGrows
<1>3. CASE follow!Withdraw
  <2>1. s2 # 0 /\ s2' = 0 /\ UNCHANGED <<s1, s3>> /\ UNCHANGED follow!followVars
    BY <1>3 DEF follow!Withdraw
  <2>2. follow!LogIsSound' /\ follow!AnswersAreSound' BY <1>0, <2>1, PromptCloses
  <2>3. follow!ClientIsSound'
    BY <1>0, <2>1 DEF follow!ClientIsSound, follow!OutcomeIsTheOperations, follow!Ended, follow!followVars
  <2>4. QED BY <2>2, <2>3 DEF follow!FollowInv
<1>4. CASE follow!SendResponse
  <2>1. /\ UNCHANGED <<s1, s8, s9, s11, s12, s13>> /\ s6 = "respond" /\ s6' = "answered"
        /\ \/ s2 # 0 /\ s2' = 0 /\ s3' = Append(s3, [meant |-> s2, met |-> s2])
           \/ UNCHANGED <<s2, s3>>
    BY <1>4 DEF follow!SendResponse, follow!AcceptsResponse
  <2>2. follow!LogIsSound' /\ follow!AnswersAreSound'
    <3>1. CASE UNCHANGED <<s2, s3>>
      BY <1>0, <2>1, <3>1 DEF follow!LogIsSound, follow!AnswersAreSound, follow!Ended, follow!Meant
    <3>2. QED BY <1>0, <2>1, <3>1, PromptCloses
  <2>3. follow!ClientIsSound'
    <3>1. s8' \in Nat /\ s13' = "none" /\ Len(s11) = s8' + 1 /\ s9' = Len(s11)
      BY <1>0, <2>1 DEF follow!ClientIsSound
    <3>2. QED BY <1>0, <2>1, <3>1, ClientKeeps
  <2>4. QED BY <2>2, <2>3 DEF follow!FollowInv
<1>5. CASE follow!Forget \/ follow!Stopped \/ UNCHANGED follow!vars
  <2>1. UNCHANGED <<s1, s2, s3, s6, s8, s9, s11, s12, s13>>
    BY <1>5 DEF follow!Forget, follow!Stopped, follow!vars, follow!logVars, follow!followVars
  <2>2. QED
    BY <1>0, <2>1 DEF follow!FollowInv, follow!LogIsSound, follow!AnswersAreSound,
      follow!ClientIsSound, follow!OutcomeIsTheOperations, follow!Ended, follow!Meant
<1>6. QED BY <1>1, <1>2, <1>3, <1>4, <1>5, ReadStep, ClientSteps DEF follow!Next

LEMMA FollowHolds == ASSUME follow!FollowInv PROVE follow!FollowingIsFaithful
<1>0. follow!LogIsSound /\ follow!AnswersAreSound /\ follow!ClientIsSound BY DEF follow!FollowInv
<1>1. follow!ShownOnceInOrder
  <2>1. /\ \A i \in 1..Len(s11) : s11[i] = i
        /\ s12 \in Seq(Nat) /\ Len(s11) \in Nat /\ follow!Rising(s12, Len(s11))
    BY <1>0 DEF follow!ClientIsSound
  <2>2. \A i, j \in 1..Len(s12) : s12[i] = s12[j] => i = j BY <2>1, RisingIsInjective
  <2>3. QED BY <2>1, <2>2 DEF follow!ShownOnceInOrder
<1>2. follow!AnswersMeetTheirPrompt
  <2>1. /\ s3 \in Seq([meant : Nat, met : Nat]) /\ \A i \in 1..Len(s3) : s3[i].meant = s3[i].met
    BY <1>0 DEF follow!AnswersAreSound
  <2>2. PICK m \in Nat : follow!Rising(follow!Meant, m)
    <3>1. CASE s2 = 0
      <4>1. Len(s1) \in Nat BY <1>0 DEF follow!LogIsSound
      <4>2. QED BY <1>0, <3>1, <4>1 DEF follow!AnswersAreSound
    <3>2. CASE s2 # 0
      <4>1. s2 - 1 \in Nat
        <5>1. s1 \in Seq({"progress", "prompt"} \cup follow!Ends) /\ s2 = Len(s1)
          BY <1>0, <3>2 DEF follow!LogIsSound
        <5>2. QED BY <3>2, <5>1
      <4>2. QED BY <1>0, <3>2, <4>1 DEF follow!AnswersAreSound
    <3>3. QED BY <3>1, <3>2
  <2>3. /\ follow!Meant \in Seq(Nat) /\ Len(follow!Meant) = Len(s3)
        /\ \A i \in 1..Len(s3) : follow!Meant[i] = s3[i].meant
    BY <2>1, MeantIsASequence
  <2>4. \A i, j \in 1..Len(s3) : follow!Meant[i] = follow!Meant[j] => i = j
    BY <2>2, <2>3, RisingIsInjective
  <2>5. QED BY <2>1, <2>3, <2>4 DEF follow!AnswersMeetTheirPrompt
<1>3. QED BY <1>0, <1>1, <1>2 DEF follow!FollowingIsFaithful, follow!ClientIsSound

\* A client that follows an operation shows every event once and in order across a
\* broken connection, its answers meet the prompts they were given for, and what it
\* reports is the operation's own outcome (FollowOperation), however many events
\* the operation publishes.
THEOREM FollowingStaysFaithful == ServicesSpec => []FollowingIsFaithful
<1> DEFINE Inv == focus = "follow" => follow!FollowInv
<1>1. ServicesInit => Inv BY InitFollow DEF ServicesInit
<1>2. Inv /\ [ServicesNext]_services => Inv'
  BY NextFollow DEF ServicesNext, services, slots, follow!vars, follow!logVars, follow!followVars
<1>3. Inv => FollowingIsFaithful BY FollowHolds DEF FollowingIsFaithful
<1>4. QED BY <1>1, <1>2, <1>3, PTL DEF ServicesSpec

-----------------------------------------------------------------------------
(* InventoryQuery. *)

LEMMA SameCardinality == ASSUME NEW S PROVE query!Cardinality(S) = Cardinality(S)
  BY DEF query!Cardinality, Cardinality

\* Counting the dashboards, of which there are two.
CountOf(f) == (IF f["here"] # query!Idle THEN 1 ELSE 0) + (IF f["elsewhere"] # query!Idle THEN 1 ELSE 0)

LEMMA TwoDashboards ==
    ASSUME NEW f, NEW S, S \subseteq query!Dashboards,
           \A k \in query!Dashboards : k \in S <=> f[k] # query!Idle
    PROVE  query!Cardinality(S) = CountOf(f)
<1> USE SameCardinality
<1>1. CASE f["here"] # query!Idle /\ f["elsewhere"] # query!Idle
  <2>1. S = {"here", "elsewhere"} BY <1>1 DEF query!Dashboards
  <2>2. Cardinality({"here", "elsewhere"}) = 2
    <3>1. IsFiniteSet({"here"}) /\ Cardinality({"here"}) = 1 BY FS_Singleton
    <3>2. {"here"} \cup {"elsewhere"} = {"here", "elsewhere"} /\ "elsewhere" \notin {"here"} OBVIOUS
    <3>3. Cardinality({"here"} \cup {"elsewhere"}) = Cardinality({"here"}) + 1 BY <3>1, <3>2, FS_AddElement
    <3>4. QED BY <3>1, <3>2, <3>3
  <2>3. QED BY <1>1, <2>1, <2>2 DEF CountOf
<1>2. CASE f["here"] # query!Idle /\ f["elsewhere"] = query!Idle
  <2>1. S = {"here"} BY <1>2 DEF query!Dashboards
  <2>2. Cardinality(S) = 1 BY <2>1, FS_Singleton
  <2>3. QED BY <1>2, <2>2 DEF CountOf
<1>3. CASE f["here"] = query!Idle /\ f["elsewhere"] # query!Idle
  <2>1. S = {"elsewhere"} BY <1>3 DEF query!Dashboards
  <2>2. Cardinality(S) = 1 BY <2>1, FS_Singleton
  <2>3. QED BY <1>3, <2>2 DEF CountOf
<1>4. CASE f["here"] = query!Idle /\ f["elsewhere"] = query!Idle
  <2>1. S = {} BY <1>4 DEF query!Dashboards
  <2>2. QED BY <1>4, <2>1, FS_EmptySet DEF CountOf
<1>5. QED BY <1>1, <1>2, <1>3, <1>4

LEMMA QueryTypes ==
    ASSUME query!TypeOK, Assumption
    PROVE  /\ \A q \in query!Keys : s3[q].name \in Nat /\ s3[q].generation \in Nat
           /\ s4 \in Nat /\ s6 \in Nat /\ s7 \in Nat /\ s12 \in Nat
           /\ s8.load \in Nat /\ s9.load \in Nat /\ s1 \in Nat /\ s2 \in Nat
           /\ s11.expected \in Nat /\ s11.since \in Nat
<1>1. \A n \in Nat : 0..n \subseteq Nat OBVIOUS
<1>2. MaxLoads \in Nat /\ MaxWorktrees \in Nat BY DEF Assumption, QueryAssumption
<1> USE DEF query!TypeOK, query!Loads, query!Stored, query!Removals
<1>3. \A q \in query!Keys : s3[q].name \in Nat /\ s3[q].generation \in Nat BY <1>1, <1>2
<1>4. s8.load \in Nat /\ s9.load \in Nat BY <1>1, <1>2
<1>5. s11.expected \in Nat /\ s11.since \in Nat BY <1>1, <1>2
<1>6. s4 \in Nat /\ s6 \in Nat /\ s7 \in Nat /\ s12 \in Nat /\ s1 \in Nat /\ s2 \in Nat
  BY <1>1, <1>2
<1>7. QED BY <1>3, <1>4, <1>5, <1>6

\* What a step does to the load of k, and to what is published of it, leaves the
\* order of the loads as it was.
LEMMA OrderStays ==
    ASSUME Assumption, query!TypeOK, query!LoadsAreOrdered, NEW k \in query!Keys, s3[k] # query!Idle,
           UNCHANGED <<s4, s6>>,
           \A q \in query!Keys \ {k} : s3'[q] = s3[q],
           \/ s3'[k] = query!Idle
           \/ s3'[k].name = s3[k].name /\ s3'[k].generation = s3[k].generation,
           s3'[k] # query!Idle /\ s3'[k].phase \in {"storing", "noting"} =>
              /\ s10' = k /\ k \in query!Dashboards
              /\ s3[k].phase \in {"storing", "noting"} \/ query!newest(k),
           \A q \in query!Dashboards \ {k} : s10 = q => s10' = q,
           s8' = s9',
           \/ s9' = s9
           \/ k \in query!Dashboards /\ s3[k].phase = "storing" /\ s9'.load = s3[k].name,
           \/ s7' \in {s7, 0}
           \/ k \in query!Dashboards /\ query!newest(k) /\ s3'[k] = query!Idle /\ s7' = s3[k].name,
           \/ s12' = s12
           \/ k \in query!Dashboards /\ query!newest(k) /\ s3'[k] = query!Idle /\ s12' = s3[k].name
    PROVE  query!LoadsAreOrdered'
<1> USE DEF query!Keys
<1>1. /\ \A q \in query!Keys : s3[q].name \in Nat /\ s3[q].generation \in Nat
      /\ s4 \in Nat /\ s6 \in Nat /\ s7 \in Nat /\ s12 \in Nat /\ s9.load \in Nat
  BY QueryTypes
<1>2. /\ s6 <= s4 /\ s7 <= s4 /\ s12 <= s4 /\ s9.load <= s4
      /\ \A q \in query!Keys : s3[q].name <= s4 /\ s3[q].generation <= s6
  BY DEF query!LoadsAreOrdered
<1>3. /\ s6' <= s4' /\ s7' <= s4' /\ s12' <= s4' /\ s9'.load <= s4'
      /\ s7' \in Nat /\ s12' \in Nat /\ s9'.load \in Nat
  BY <1>1, <1>2
<1>4. ASSUME NEW q \in query!Keys
      PROVE  /\ s3'[q].name <= s4' /\ s3'[q].generation <= s6'
             /\ s3'[q].phase \in {"storing", "noting"} => q \in query!Dashboards
  <2>1. /\ s3[q].name <= s4 /\ s3[q].generation <= s6
        /\ s3[q].phase \in {"storing", "noting"} => q \in query!Dashboards
    BY DEF query!LoadsAreOrdered
  <2>2. CASE s3'[q] = query!Idle BY <1>1, <2>2 DEF query!Idle, query!NoLoad
  <2>3. CASE s3'[q] # query!Idle BY <2>1, <2>3
  <2>4. QED BY <2>2, <2>3
<1>5. ASSUME NEW i \in query!Dashboards, NEW j \in query!Dashboards, i # j PROVE query!Ordered(i, j)'
  <2>1. query!Ordered(i, j) BY <1>5 DEF query!LoadsAreOrdered
  <2>2. QED BY <2>1 DEF query!Ordered
<1>6. ASSUME NEW q \in query!Dashboards, s3'[q] # query!Idle PROVE query!Current(q)'
  <2>1. /\ s3[q] # query!Idle
        /\ s3'[q].name = s3[q].name /\ s3'[q].generation = s3[q].generation
    BY <1>6
  <2>2. query!Current(q) BY <2>1 DEF query!LoadsAreOrdered
  <2>3. CASE q = k
    <3>1. s7' \in {s7, 0} /\ s12' = s12 /\ s9'.load \in {s9.load, s3[k].name} BY <1>6, <2>3
    <3>2. s3'[k].generation \in 1..s6' BY <2>1, <2>2, <2>3 DEF query!Current
    <3>3. query!newest(k)' =>
             s7' < s3'[k].name /\ s12' < s3'[k].name /\ s9'.load <= s3'[k].name
      <4>1. query!newest(k)' => query!newest(k) BY <2>1, <2>3 DEF query!newest
      <4>2. query!newest(k) => s7 < s3[k].name /\ s12 < s3[k].name /\ s9.load <= s3[k].name
        BY <2>2, <2>3 DEF query!Current
      <4>3. QED BY <1>1, <1>3, <2>1, <2>3, <3>1, <4>1, <4>2
    <3>4. s3'[k].phase \in {"storing", "noting"} => s10' = k /\ s9'.load <= s3'[k].name
      <4>1. query!newest(k) \/ s3[k].phase \in {"storing", "noting"} => s9.load <= s3[k].name
        BY <2>2, <2>3 DEF query!Current
      <4>2. QED BY <1>1, <1>6, <2>1, <2>3, <3>1, <4>1
    <3>5. QED BY <2>3, <3>2, <3>3, <3>4 DEF query!Current
  <2>4. CASE q # k
    <3>1. s3'[q] = s3[q] BY <2>4
    <3>2. ASSUME query!newest(q) PROVE
             s7' < s3[q].name /\ s12' < s3[q].name /\ s9'.load <= s3[q].name
      <4>1. s7 < s3[q].name /\ s12 < s3[q].name /\ s9.load <= s3[q].name
        BY <2>2, <3>2 DEF query!Current
      <4>2. ASSUME k \in query!Dashboards PROVE s3[k].name < s3[q].name
        <5>1. query!Ordered(k, q) BY <2>4, <4>2 DEF query!LoadsAreOrdered
        <5>2. s3[k].generation < s3[q].generation
          BY <1>1, <1>2, <2>1, <3>2, <5>1 DEF query!newest, query!Ordered
        <5>3. QED BY <2>1, <5>1, <5>2 DEF query!Ordered
      <4>3. QED BY <1>1, <4>1, <4>2
    <3>3. ASSUME s3[q].phase \in {"storing", "noting"} PROVE s10' = q /\ s9'.load <= s3[q].name
      <4>1. s10 = q /\ s9.load <= s3[q].name BY <2>2, <3>3 DEF query!Current
      <4>2. k \in query!Dashboards /\ s3[k].phase = "storing" => s10 = k
        BY DEF query!LoadsAreOrdered, query!Current
      <4>3. s9' = s9 BY <2>4, <4>1, <4>2
      <4>4. QED BY <2>4, <4>1, <4>3
    <3>4. QED BY <2>2, <3>1, <3>2, <3>3 DEF query!Current, query!newest
  <2>5. QED BY <2>3, <2>4
<1>7. QED BY <1>3, <1>4, <1>5, <1>6 DEF query!LoadsAreOrdered

\* What a step keeps of the types is what it leaves alone and what it changes.
LEMMA QueryTypesStay ==
    ASSUME s1' \in 0..MaxWorktrees, s2' \in 0..MaxWorktrees,
           s3' \in [query!Keys -> query!Loads], s4' \in 0..MaxLoads,
           s5' = CountOf(s3'), s6' \in 0..MaxLoads, s7' \in 0..MaxLoads,
           s8' \in query!Stored, s9' \in query!Stored,
           s10' \in query!Keys \cup {query!NoOne}, s11' \in query!Removals, s12' \in 0..MaxLoads,
           s13' \in Nat
    PROVE  query!TypeOK'
<1>1. s5' \in 0..2 BY DEF CountOf
<1>2. query!Stored' = query!Stored /\ query!Loads' = query!Loads /\ query!Removals' = query!Removals
  BY DEF query!Stored, query!Loads, query!Removals
<1>3. QED BY <1>1, <1>2 DEF query!TypeOK, query!Loads, query!Stored, query!Removals

\* The parts of the invariant, as the steps below use them.
LEMMA QueryParts ==
    ASSUME Assumption, query!QueryInv
    PROVE  /\ query!TypeOK /\ query!LoadsAreOrdered /\ query!RemovalIsSound
           /\ s5 = CountOf(s3) /\ query!ErrorsAreCurrent
           /\ s3 \in [query!Keys -> query!Loads]
<1>1. query!TypeOK /\ query!LoadsAreOrdered /\ query!RemovalIsSound /\ query!ErrorsAreCurrent
  BY DEF query!QueryInv, query!ServiceIsConsistent
<1>2. s5 = CountOf(s3)
  <2>1. /\ query!UnderWay \subseteq query!Dashboards
        /\ \A k \in query!Dashboards : k \in query!UnderWay <=> s3[k] # query!Idle
    BY DEF query!UnderWay
  <2>2. query!Cardinality(query!UnderWay) = CountOf(s3) BY <2>1, TwoDashboards
  <2>3. s5 = query!Cardinality(query!UnderWay)
    BY DEF query!QueryInv, query!ServiceIsConsistent, query!LoadsAreCounted
  <2>4. QED BY <2>2, <2>3
<1>3. s3 \in [query!Keys -> query!Loads] BY <1>1 DEF query!TypeOK
<1>4. QED BY <1>1, <1>2, <1>3

LEMMA QueryWhole ==
    ASSUME query!TypeOK', query!LoadsAreOrdered', query!RemovalIsSound', query!ErrorsAreCurrent',
           s5' = CountOf(s3'), s11'.report = "removed" => s1' # s11'.expected
    PROVE  query!QueryInv'
<1>1. /\ query!UnderWay' \subseteq query!Dashboards
      /\ \A k \in query!Dashboards : k \in query!UnderWay' <=> s3'[k] # query!Idle
  BY DEF query!UnderWay
<1>2. query!LoadsAreCounted'
  <2>1. query!Cardinality(query!UnderWay') = CountOf(s3') BY <1>1, TwoDashboards
  <2>2. QED BY <2>1 DEF query!LoadsAreCounted
<1>3. query!ReportedRemovalsHappened' BY DEF query!ReportedRemovalsHappened
<1>4. QED BY <1>2, <1>3 DEF query!QueryInv, query!ServiceIsConsistent

\* A load begins: it is later than everything known.
LEMMA AskStep ==
    ASSUME Assumption, query!QueryInv, NEW k \in query!Keys, s3[k] = query!Idle, query!Ask(k)
    PROVE  /\ query!LoadsAreOrdered' /\ query!ErrorsAreCurrent' /\ s5' = CountOf(s3')
           /\ s3' \in [query!Keys -> query!Loads] /\ s4' \in 0..MaxLoads /\ s6' \in 0..MaxLoads
           /\ UNCHANGED <<s7, s8, s9, s10, s12>>
           /\ s3'[k].phase = "loading" /\ s3'[k].name = s4 + 1
           /\ \A q \in query!Keys \ {k} : s3'[q] = s3[q]
<1> USE QueryParts, QueryTypes
<1>1. /\ s4 < MaxLoads /\ s4' = s4 + 1
      /\ k \in query!Dashboards => s5' = s5 + 1 /\ s6' = s6 + 1
      /\ k \notin query!Dashboards => s5' = s5 /\ s6' = s6
      /\ UNCHANGED <<s7, s8, s9, s10, s12>>
      /\ s3' = [s3 EXCEPT ![k] = [name |-> s4', generation |-> s6', phase |-> "loading", saw |-> 0]]
  BY DEF query!Ask
<1>2. s4' \in 0..MaxLoads /\ s6' \in 0..MaxLoads /\ s6' <= s4' /\ s6 <= s6' /\ s4' \in Nat /\ s6' \in Nat
  BY <1>1 DEF query!LoadsAreOrdered, Assumption, QueryAssumption
<1>3. /\ s3'[k] = [name |-> s4', generation |-> s6', phase |-> "loading", saw |-> 0]
      /\ \A q \in query!Keys \ {k} : s3'[q] = s3[q]
      /\ s3' \in [query!Keys -> query!Loads]
  <2>1. [name |-> s4', generation |-> s6', phase |-> "loading", saw |-> 0] \in query!Loads
    BY <1>2 DEF query!Loads, Assumption, QueryAssumption
  <2>2. QED BY <1>1, <2>1
<1>4. s3'[k] # query!Idle BY <1>1, <1>3 DEF query!Idle, query!NoLoad
<1>5. s5' = CountOf(s3') BY <1>1, <1>3, <1>4 DEF CountOf, query!Keys, query!Dashboards
<1>6. query!LoadsAreOrdered'
  <2>1. /\ s6' <= s4' /\ s7' <= s4' /\ s12' <= s4' /\ s8' = s9' /\ s9'.load <= s4'
        /\ s7 < s4' /\ s12 < s4' /\ s9.load < s4'
    BY <1>1, <1>2 DEF query!LoadsAreOrdered
  <2>2. ASSUME NEW q \in query!Keys
        PROVE  /\ s3'[q].name <= s4' /\ s3'[q].generation <= s6'
               /\ s3'[q].phase \in {"storing", "noting"} => q \in query!Dashboards
    <3>1. /\ s3[q].name <= s4 /\ s3[q].generation <= s6
          /\ s3[q].phase \in {"storing", "noting"} => q \in query!Dashboards
      BY DEF query!LoadsAreOrdered
    <3>2. CASE q = k BY <1>2, <1>3, <3>2
    <3>3. CASE q # k BY <1>1, <1>2, <1>3, <3>1, <3>3
    <3>4. QED BY <3>2, <3>3
  <2>3. ASSUME NEW q \in query!Dashboards, s3'[q] # query!Idle PROVE query!Current(q)'
    <3>1. CASE q = k
      <4>1. s6' = s6 + 1 BY <1>1, <3>1
      <4>2. QED BY <1>1, <1>2, <1>3, <2>1, <3>1, <4>1 DEF query!Current, query!newest
    <3>2. CASE q # k
      <4>1. s3'[q] = s3[q] /\ q \in query!Keys BY <1>3, <3>2 DEF query!Keys
      <4>2. query!Current(q) BY <2>3, <4>1 DEF query!LoadsAreOrdered
      <4>3. query!newest(q)' => query!newest(q)
        BY <1>1, <4>1, <4>2 DEF query!newest, query!Current
      <4>4. s3[q].generation \in 1..s6' BY <1>2, <4>1, <4>2 DEF query!Current
      <4>5. QED BY <1>1, <4>1, <4>2, <4>3, <4>4 DEF query!Current
    <3>3. QED BY <3>1, <3>2
  <2>4. ASSUME NEW i \in query!Dashboards, NEW j \in query!Dashboards, i # j PROVE query!Ordered(i, j)'
    <3>1. i \in query!Keys /\ j \in query!Keys BY DEF query!Keys
    <3>2. \A q \in query!Keys : s3[q].generation <= s6 /\ s3[q].name <= s4
      BY DEF query!LoadsAreOrdered
    <3>3. query!Ordered(i, j) BY <2>4 DEF query!LoadsAreOrdered
    <3>4. CASE i = k BY <1>1, <1>3, <2>4, <3>1, <3>2, <3>4 DEF query!Ordered
    <3>5. CASE j = k BY <1>1, <1>3, <2>4, <3>1, <3>2, <3>5 DEF query!Ordered
    <3>6. CASE i # k /\ j # k BY <1>3, <3>1, <3>3, <3>6 DEF query!Ordered
    <3>7. QED BY <3>4, <3>5, <3>6
  <2>5. QED BY <2>1, <2>2, <2>3, <2>4 DEF query!LoadsAreOrdered
<1>7. query!ErrorsAreCurrent' BY <1>1 DEF query!ErrorsAreCurrent
<1>8. QED BY <1>1, <1>2, <1>3, <1>5, <1>6, <1>7

\* A load goes on, or ends.
LEMMA LoadGoesOn ==
    ASSUME Assumption, query!QueryInv, NEW k \in query!Keys, s3[k] # query!Idle,
           UNCHANGED <<s4, s6>>,
           NEW v \in query!Loads, s3' = [s3 EXCEPT ![k] = v],
           v = query!Idle \/ (v.name = s3[k].name /\ v.generation = s3[k].generation),
           v # query!Idle /\ v.phase \in {"storing", "noting"} =>
              /\ s10' = k /\ k \in query!Dashboards
              /\ s3[k].phase \in {"storing", "noting"} \/ query!newest(k),
           v = query!Idle /\ k \in query!Dashboards => s5' = s5 - 1,
           v # query!Idle \/ k \notin query!Dashboards => s5' = s5,
           \A q \in query!Dashboards \ {k} : s10 = q => s10' = q,
           s8' = s9',
           \/ s9' = s9
           \/ k \in query!Dashboards /\ s3[k].phase = "storing" /\ s9'.load = s3[k].name,
           \/ s7' \in {s7, 0}
           \/ /\ k \in query!Dashboards /\ query!newest(k) /\ v = query!Idle
              /\ s7' = s3[k].name /\ s12' = s12,
           \/ s12' = s12
           \/ k \in query!Dashboards /\ query!newest(k) /\ v = query!Idle /\ s12' = s3[k].name /\ s7' = 0
    PROVE  /\ query!LoadsAreOrdered' /\ query!ErrorsAreCurrent' /\ s5' = CountOf(s3')
           /\ s3' \in [query!Keys -> query!Loads] /\ s3'[k] = v
           /\ \A q \in query!Keys \ {k} : s3'[q] = s3[q]
<1> USE QueryParts, QueryTypes
<1>1. /\ s3' \in [query!Keys -> query!Loads] /\ s3'[k] = v
      /\ \A q \in query!Keys \ {k} : s3'[q] = s3[q]
  OBVIOUS
<1>2. query!LoadsAreOrdered' BY <1>1, OrderStays
<1>3. query!ErrorsAreCurrent'
  <2>1. k \in query!Dashboards /\ query!newest(k) => s12 < s3[k].name
    BY DEF query!LoadsAreOrdered, query!Current
  <2>2. QED BY <2>1 DEF query!ErrorsAreCurrent, query!NoLoad
<1>4. s5' = CountOf(s3') BY <1>1 DEF CountOf, query!Keys, query!Dashboards
<1>5. QED BY <1>1, <1>2, <1>3, <1>4

\* What a step of a load leaves of a removal: only the load that settles it sees
\* the worktree, and it sees what is there.
LEMMA RemovalStays ==
    ASSUME query!RemovalIsSound, UNCHANGED <<s1, s2, s11>>,
           \/ s3'["repository"] = s3["repository"]
           \/ s3'["repository"].phase # "loaded"
           \/ s3'["repository"].saw = s1
    PROVE  query!RemovalIsSound'
  BY DEF query!RemovalIsSound

LEMMA LoadFieldsTypes ==
    ASSUME Assumption, query!TypeOK, NEW k \in query!Keys
    PROVE  /\ s3[k] \in query!Loads /\ query!Idle \in query!Loads
           /\ \A phase \in {"loading", "loaded", "failed", "storing", "noting"} :
                 [s3[k] EXCEPT !.phase = phase] \in query!Loads
           /\ [s3[k] EXCEPT !.phase = "loaded", !.saw = s1] \in query!Loads
           /\ [load |-> s3[k].name, saw |-> s3[k].saw] \in query!Stored
           /\ 0 \in 0..MaxLoads /\ s3[k].name \in 0..MaxLoads
<1>1. s3[k] \in query!Loads /\ s1 \in 0..MaxWorktrees BY DEF query!TypeOK
<1>2. query!Idle \in query!Loads /\ 0 \in 0..MaxLoads
  BY DEF query!Idle, query!NoLoad, query!Loads, Assumption, QueryAssumption
<1>3. QED BY <1>1, <1>2 DEF query!Loads, query!Stored

LEMMA LoadStep ==
    ASSUME Assumption, query!QueryInv, NEW k \in query!Keys, query!Load(k)
    PROVE  query!QueryInv'
<1> USE QueryParts
<1>0. s3[k] # query!Idle /\ UNCHANGED <<s1, s2, s4, s5, s6, s7, s8, s9, s10, s11, s12>> /\ s13' \in Nat
  BY DEF query!Load, query!Idle, query!Fault, query!TypeOK
<1>1. PICK v \in {[s3[k] EXCEPT !.phase = "loaded", !.saw = s1], [s3[k] EXCEPT !.phase = "failed"]} :
         s3' = [s3 EXCEPT ![k] = v]
  BY DEF query!Load
<1>2. /\ v \in query!Loads /\ v # query!Idle /\ v.name = s3[k].name /\ v.generation = s3[k].generation
      /\ v.phase \in {"loaded", "failed"} /\ (v.phase = "loaded" => v.saw = s1)
  <2>1. v \in query!Loads BY <1>1, LoadFieldsTypes
  <2>2. s3[k] \in query!Loads BY LoadFieldsTypes
  <2>3. CASE v = [s3[k] EXCEPT !.phase = "loaded", !.saw = s1]
    <3>1. v.phase = "loaded" /\ v.saw = s1 /\ v.name = s3[k].name /\ v.generation = s3[k].generation
      BY <2>2, <2>3 DEF query!Loads
    <3>2. QED BY <2>1, <3>1 DEF query!Idle
  <2>4. CASE v = [s3[k] EXCEPT !.phase = "failed"]
    <3>1. v.phase = "failed" /\ v.name = s3[k].name /\ v.generation = s3[k].generation
      BY <2>2, <2>4 DEF query!Loads
    <3>2. QED BY <2>1, <3>1 DEF query!Idle
  <2>5. QED BY <1>1, <2>3, <2>4
<1>3. /\ query!LoadsAreOrdered' /\ query!ErrorsAreCurrent' /\ s5' = CountOf(s3')
      /\ s3' \in [query!Keys -> query!Loads] /\ s3'[k] = v
      /\ \A q \in query!Keys \ {k} : s3'[q] = s3[q]
  <2>1. s8' = s9' /\ s9' = s9 /\ s7' \in {s7, 0} /\ s12' = s12 BY <1>0 DEF query!LoadsAreOrdered
  <2>2. QED BY <1>0, <1>1, <1>2, <2>1, LoadGoesOn
<1>4. query!RemovalIsSound'
  <2>1. "repository" \in query!Keys BY DEF query!Keys
  <2>2. QED BY <1>0, <1>2, <1>3, <2>1, RemovalStays
<1>5. query!TypeOK' BY <1>0, <1>3, QueryTypesStay DEF query!TypeOK
<1>6. s11'.report = "removed" => s1' # s11'.expected
  BY <1>0 DEF query!QueryInv, query!ServiceIsConsistent, query!ReportedRemovalsHappened
<1>7. QED BY <1>3, <1>4, <1>5, <1>6, QueryWhole

\* A dashboard load goes on: its phase changes, or it is delivered; what is noted of
\* it is its own, and noted only of the newest.
LEMMA DashboardStep ==
    ASSUME Assumption, query!QueryInv, NEW k \in query!Dashboards, s3[k] # query!Idle,
           UNCHANGED <<s1, s2, s4, s6, s11>>, s13' \in Nat,
           NEW phase \in {"idle", "storing", "noting"},
           phase = "idle" => /\ s3' = [s3 EXCEPT ![k] = query!Idle]
                             /\ s5' = s5 - 1,
           phase # "idle" =>
              /\ s3' = [s3 EXCEPT ![k].phase = phase] /\ s5' = s5 /\ s10' = k
              /\ s3[k].phase \in {"storing", "noting"} \/ query!newest(k),
           s10' \in {s10, k, query!NoOne}, s10 \in {query!NoOne, k} \/ s10' = s10,
           s8' = s9',
           \/ s9' = s9
           \/ s3[k].phase = "storing" /\ s9' = [load |-> s3[k].name, saw |-> s3[k].saw],
           \/ s7' \in {s7, 0}
           \/ query!newest(k) /\ phase = "idle" /\ s7' = s3[k].name /\ s12' = s12,
           \/ s12' = s12
           \/ query!newest(k) /\ phase = "idle" /\ s12' = s3[k].name /\ s7' = 0
    PROVE  query!QueryInv'
<1> USE QueryParts
<1>1. k \in query!Keys /\ k # "repository" /\ "repository" \in query!Keys
  BY DEF query!Keys, query!Dashboards
<1>2. PICK v : v = IF phase = "idle" THEN query!Idle ELSE [s3[k] EXCEPT !.phase = phase] OBVIOUS
<1>3. /\ v \in query!Loads /\ s3' = [s3 EXCEPT ![k] = v]
      /\ phase = "idle" => v = query!Idle
      /\ phase # "idle" =>
            v # query!Idle /\ v.phase = phase /\ v.name = s3[k].name /\ v.generation = s3[k].generation
  <2>1. CASE phase = "idle" BY <1>1, <1>2, <2>1, LoadFieldsTypes
  <2>2. CASE phase # "idle"
    <3>1. v = [s3[k] EXCEPT !.phase = phase] /\ s3[k] \in query!Loads BY <1>1, <1>2, <2>2, LoadFieldsTypes
    <3>2. v.phase = phase /\ v.name = s3[k].name /\ v.generation = s3[k].generation
      BY <3>1 DEF query!Loads
    <3>3. v \in query!Loads BY <1>1, <2>2, <3>1, LoadFieldsTypes
    <3>4. v # query!Idle BY <2>2, <3>2 DEF query!Idle
    <3>5. s3' = [s3 EXCEPT ![k] = v] BY <1>1, <2>2, <3>1
    <3>6. QED BY <2>2, <3>2, <3>3, <3>4, <3>5
  <2>3. QED BY <2>1, <2>2
<1>4. \/ s9' = s9
      \/ k \in query!Dashboards /\ s3[k].phase = "storing" /\ s9'.load = s3[k].name
  OBVIOUS
<1>5. \A q \in query!Dashboards \ {k} : s10 = q => s10' = q
  BY <1>1 DEF query!NoOne, query!Dashboards
<1>6. /\ query!LoadsAreOrdered' /\ query!ErrorsAreCurrent' /\ s5' = CountOf(s3')
      /\ s3' \in [query!Keys -> query!Loads] /\ s3'[k] = v
      /\ \A q \in query!Keys \ {k} : s3'[q] = s3[q]
  BY <1>1, <1>3, <1>4, <1>5, LoadGoesOn
<1>7. query!RemovalIsSound' BY <1>1, <1>6, RemovalStays
<1>8. query!TypeOK'
  <2>1. s9' \in query!Stored /\ s7' \in 0..MaxLoads /\ s12' \in 0..MaxLoads
    BY <1>1, LoadFieldsTypes DEF query!TypeOK
  <2>2. s10' \in query!Keys \cup {query!NoOne} BY <1>1 DEF query!TypeOK
  <2>3. QED BY <1>6, <2>1, <2>2, QueryTypesStay DEF query!TypeOK
<1>9. s11'.report = "removed" => s1' # s11'.expected
  BY DEF query!QueryInv, query!ServiceIsConsistent, query!ReportedRemovalsHappened
<1>10. QED BY <1>6, <1>7, <1>8, <1>9, QueryWhole

LEMMA PublishSteps ==
    ASSUME Assumption, query!QueryInv, NEW k \in query!Keys,
           query!Fail(k) \/ query!BeginPublish(k) \/ query!Store(k) \/ query!EndPublish(k)
    PROVE  query!QueryInv'
<1> USE QueryParts
<1>1. s8 = s9 /\ s13 \in Nat BY DEF query!LoadsAreOrdered, query!TypeOK
<1>2. CASE query!Fail(k)
  <2>1. /\ k \in query!Dashboards /\ s3[k] # query!Idle /\ s10 = query!NoOne
        /\ s3' = [s3 EXCEPT ![k] = query!Idle] /\ s5' = s5 - 1
        /\ UNCHANGED <<s1, s2, s4, s6, s8, s9, s10, s11, s12, s13>>
        /\ s7' = s7 \/ (query!newest(k) /\ s7' = s3[k].name)
    BY <1>2 DEF query!Fail, query!Deliver, query!Idle
  <2>2. QED BY <1>1, <2>1, DashboardStep
<1>3. CASE query!BeginPublish(k)
  <2>1. /\ k \in query!Dashboards /\ s3[k] # query!Idle /\ s10 = query!NoOne
        /\ UNCHANGED <<s1, s2, s4, s6, s7, s8, s9, s11, s12, s13>>
    BY <1>3 DEF query!BeginPublish, query!Idle
  <2>2. CASE query!newest(k)
    <3>1. PICK phase \in {"storing", "noting"} : s3' = [s3 EXCEPT ![k].phase = phase]
      BY <1>3, <2>2 DEF query!BeginPublish
    <3>2. s10' = k /\ s5' = s5 BY <1>3, <2>2 DEF query!BeginPublish
    <3>3. QED BY <1>1, <2>1, <2>2, <3>1, <3>2, DashboardStep
  <2>3. CASE ~query!newest(k)
    <3>1. s3' = [s3 EXCEPT ![k] = query!Idle] /\ s5' = s5 - 1 /\ s10' = s10
      BY <1>3, <2>1, <2>3 DEF query!BeginPublish, query!Deliver
    <3>2. QED BY <1>1, <2>1, <3>1, DashboardStep
  <2>4. QED BY <2>2, <2>3
<1>4. CASE query!Store(k) \/ query!EndPublish(k)
  <2>1. s3[k].phase \in {"storing", "noting"} /\ UNCHANGED <<s1, s2, s4, s6, s11>>
    BY <1>4 DEF query!Store, query!EndPublish
  <2>2. s3[k] # query!Idle /\ k \in query!Dashboards /\ s10 = k
    BY <2>1 DEF query!Idle, query!LoadsAreOrdered, query!Current
  <2>3. CASE query!EndPublish(k)
    <3>1. /\ s3' = [s3 EXCEPT ![k] = query!Idle] /\ s5' = s5 - 1 /\ s10' = query!NoOne
          /\ UNCHANGED <<s8, s9, s13>>
          /\ (s7' = s7 /\ s12' = s12) \/ (query!newest(k) /\ s7' = 0 /\ s12' = s3[k].name)
      BY <2>2, <2>3 DEF query!EndPublish, query!Deliver, query!NoLoad
    <3>2. QED BY <1>1, <2>1, <2>2, <3>1, DashboardStep
  <2>4. CASE query!Store(k)
    <3>1. \/ /\ s9' = [load |-> s3[k].name, saw |-> s3[k].saw] /\ s8' = s9'
             /\ s3' = [s3 EXCEPT ![k].phase = "noting"] /\ UNCHANGED <<s5, s7, s10, s12, s13>>
          \/ /\ s3' = [s3 EXCEPT ![k] = query!Idle] /\ s5' = s5 - 1 /\ s10' = query!NoOne
             /\ s13' = s13 + 1 /\ UNCHANGED <<s8, s9, s12>>
             /\ s7' = s7 \/ (query!newest(k) /\ s7' = s3[k].name)
      BY <2>2, <2>4 DEF query!Store, query!Deliver, query!Fault
    <3>2. s3[k].phase = "storing" BY <2>4 DEF query!Store
    <3>3. CASE s3' = [s3 EXCEPT ![k].phase = "noting"] /\ UNCHANGED <<s5, s7, s10, s12, s13>>
               /\ s9' = [load |-> s3[k].name, saw |-> s3[k].saw] /\ s8' = s9'
      BY <1>1, <2>1, <2>2, <3>2, <3>3, DashboardStep
    <3>4. CASE s3' = [s3 EXCEPT ![k] = query!Idle] /\ s5' = s5 - 1 /\ s10' = query!NoOne
               /\ s13' = s13 + 1 /\ UNCHANGED <<s8, s9, s12>>
               /\ (s7' = s7 \/ (query!newest(k) /\ s7' = s3[k].name))
      <4>1. s13' \in Nat BY <1>1, <3>4
      <4>2. QED BY <1>1, <2>1, <2>2, <3>4, <4>1, DashboardStep
    <3>5. QED BY <3>1, <3>3, <3>4
  <2>5. QED BY <1>4, <2>3, <2>4
<1>5. QED BY <1>2, <1>3, <1>4

LEMMA QueryStep ==
    ASSUME Assumption, query!QueryInv, NEW k \in query!Keys, query!Query(k)
    PROVE  query!QueryInv'
<1> USE QueryParts
<1>1. s3[k] = query!Idle /\ query!Ask(k) /\ UNCHANGED <<s1, s2, s11, s13>> BY DEF query!Query
<1>2. /\ query!LoadsAreOrdered' /\ query!ErrorsAreCurrent' /\ s5' = CountOf(s3')
      /\ s3' \in [query!Keys -> query!Loads] /\ s4' \in 0..MaxLoads /\ s6' \in 0..MaxLoads
      /\ UNCHANGED <<s7, s8, s9, s10, s12>>
      /\ s3'[k].phase = "loading"
      /\ \A q \in query!Keys \ {k} : s3'[q] = s3[q]
  BY <1>1, AskStep
<1>3. query!RemovalIsSound'
  <2>1. "repository" \in query!Keys BY DEF query!Keys
  <2>2. QED BY <1>1, <1>2, <2>1, RemovalStays
<1>4. query!TypeOK' BY <1>1, <1>2, QueryTypesStay DEF query!TypeOK
<1>5. s11'.report = "removed" => s1' # s11'.expected
  BY <1>1 DEF query!QueryInv, query!ServiceIsConsistent, query!ReportedRemovalsHappened
<1>6. QED BY <1>2, <1>3, <1>4, <1>5, QueryWhole

\* A reconciliation waits for a load that began before its response was lost, or
\* begins one.
LEMMA ReconcileStep ==
    ASSUME Assumption, query!QueryInv, query!Reconcile
    PROVE  query!QueryInv'
<1> DEFINE r == "repository"
<1> USE QueryParts, QueryTypes
<1>0. r \in query!Keys /\ r \notin query!Dashboards BY DEF query!Keys, query!Dashboards
<1>1. /\ s11.pc = "lost" /\ query!Ask(r) /\ UNCHANGED <<s1, s2, s13>>
      /\ s11' = [s11 EXCEPT !.pc = "reconcile", !.since = s4 + 1]
  BY DEF query!Reconcile
<1>2. /\ s11' \in query!Removals /\ s11'.pc = "reconcile" /\ s11'.since = s4 + 1
      /\ s11'.expected = s11.expected /\ s11'.report = s11.report /\ s11'.pending = s11.pending
  <2>1. s11 \in query!Removals /\ s4 + 1 \in Nat BY DEF query!TypeOK
  <2>2. QED BY <1>1, <2>1 DEF query!Removals
<1>3. /\ query!LoadsAreOrdered' /\ query!ErrorsAreCurrent' /\ s5' = CountOf(s3')
      /\ s3' \in [query!Keys -> query!Loads] /\ s4' \in 0..MaxLoads /\ s6' \in 0..MaxLoads
      /\ UNCHANGED <<s7, s8, s9, s10, s12>>
      /\ s3'[r].phase = "loading" \/ s3'[r].name <= s4
  <2>1. CASE s3[r] = query!Idle BY <1>0, <1>1, <2>1, AskStep
  <2>2. CASE s3[r] # query!Idle
    <3>1. UNCHANGED <<s3, s4, s5, s6, s7, s8, s9, s10, s12>> BY <1>0, <1>1, <2>2 DEF query!Ask
    <3>2. query!LoadsAreOrdered' /\ query!ErrorsAreCurrent'
      BY <3>1 DEF query!LoadsAreOrdered, query!ErrorsAreCurrent, query!Current, query!Ordered, query!newest
    <3>3. s3'[r].name <= s4 BY <1>0, <3>1 DEF query!LoadsAreOrdered
    <3>4. QED BY <3>1, <3>2, <3>3 DEF query!TypeOK
  <2>3. QED BY <2>1, <2>2
<1>4. query!RemovalIsSound'
  <2>1. s3'[r].phase = "loaded" => ~(s3'[r].name >= s11'.since)
    <3>1. s3'[r].name \in Nat BY <1>0, <1>3 DEF query!Loads, Assumption, QueryAssumption
    <3>2. QED BY <1>2, <1>3, <3>1
  <2>2. s11.report # "removed" BY <1>1 DEF query!RemovalIsSound
  <2>3. QED BY <1>1, <1>2, <2>1, <2>2 DEF query!RemovalIsSound
<1>5. query!TypeOK' BY <1>1, <1>2, <1>3, QueryTypesStay DEF query!TypeOK
<1>6. s11'.report = "removed" => s1' # s11'.expected BY <1>1, <1>2 DEF query!RemovalIsSound
<1>7. QED BY <1>3, <1>4, <1>5, <1>6, QueryWhole

LEMMA SettleStep ==
    ASSUME Assumption, query!QueryInv, query!SettleRemoval
    PROVE  query!QueryInv'
<1> DEFINE r == "repository"
<1> USE QueryParts, QueryTypes
<1>0. r \in query!Keys /\ r \notin query!Dashboards BY DEF query!Keys, query!Dashboards
<1>1. /\ s3[r].phase \in {"loaded", "failed"} /\ s3' = [s3 EXCEPT ![r] = query!Idle] /\ s5' = s5
      /\ UNCHANGED <<s1, s2, s4, s6, s7, s8, s9, s10, s12, s13>>
  BY <1>0 DEF query!SettleRemoval, query!Deliver
<1>2. /\ s11' \in query!Removals /\ s11'.expected = s11.expected /\ s11'.pending = s11.pending
      /\ \/ s11' = s11 /\ s11.pc # "reconcile"
         \/ /\ s11.pc = "reconcile" /\ s11'.pc = "reported"
            /\ s11'.report = "removed" =>
                  /\ s3[r].phase = "loaded" /\ s3[r].saw # s11.expected /\ s3[r].name >= s11.since
  <2>1. CASE s11.pc # "reconcile" BY <2>1 DEF query!SettleRemoval, query!TypeOK
  <2>2. CASE s11.pc = "reconcile"
    <3>1. PICK report : report = IF s3[r].phase = "failed" THEN "unknown"
                                 ELSE IF s3[r].saw = s11.expected THEN "kept"
                                 ELSE IF s3[r].name >= s11.since THEN "removed"
                                 ELSE "removed by an older load"
      OBVIOUS
    <3>2. s11' = [s11 EXCEPT !.pc = "reported", !.report = report]
      BY <2>2, <3>1 DEF query!SettleRemoval
    <3>3. /\ report \in {"unknown", "kept", "removed", "removed by an older load"}
          /\ report = "removed" =>
                s3[r].phase = "loaded" /\ s3[r].saw # s11.expected /\ s3[r].name >= s11.since
      <4>1. CASE s3[r].phase = "failed" BY <3>1, <4>1
      <4>2. CASE s3[r].phase # "failed" /\ s3[r].saw = s11.expected BY <3>1, <4>2
      <4>3. CASE s3[r].phase # "failed" /\ s3[r].saw # s11.expected /\ s3[r].name >= s11.since
        BY <1>1, <3>1, <4>3
      <4>4. CASE s3[r].phase # "failed" /\ s3[r].saw # s11.expected /\ ~(s3[r].name >= s11.since)
        BY <3>1, <4>4
      <4>5. QED BY <4>1, <4>2, <4>3, <4>4
    <3>4. QED BY <2>2, <3>2, <3>3 DEF query!TypeOK, query!Removals
  <2>3. QED BY <2>1, <2>2
<1>3. /\ query!LoadsAreOrdered' /\ query!ErrorsAreCurrent' /\ s5' = CountOf(s3')
      /\ s3' \in [query!Keys -> query!Loads] /\ s3'[r] = query!Idle
  <2>1. s3[r] # query!Idle BY <1>0, <1>1 DEF query!Idle
  <2>2. query!Idle \in query!Loads BY <1>0, LoadFieldsTypes
  <2>3. s8' = s9' BY <1>1 DEF query!LoadsAreOrdered
  <2>4. s7' \in {s7, 0} BY <1>1
  <2>5. PICK v \in query!Loads : v = query!Idle BY <2>2
  <2>6. /\ query!LoadsAreOrdered' /\ s5' = CountOf(s3') /\ s3' \in [query!Keys -> query!Loads]
    BY <1>0, <1>1, <2>1, <2>3, <2>4, <2>5, LoadGoesOn
  <2>7. query!ErrorsAreCurrent' BY <1>1 DEF query!ErrorsAreCurrent
  <2>8. QED BY <1>0, <1>1, <2>6, <2>7
<1>4. s11'.report = "removed" => s1' # s11'.expected
  BY <1>1, <1>2 DEF query!RemovalIsSound, query!QueryInv, query!ServiceIsConsistent,
    query!ReportedRemovalsHappened
<1>5. query!RemovalIsSound' BY <1>1, <1>2 DEF query!RemovalIsSound
<1>6. query!TypeOK' BY <1>1, <1>2, <1>3, QueryTypesStay DEF query!TypeOK
<1>7. QED BY <1>3, <1>4, <1>5, <1>6, QueryWhole

LEMMA RestartStep ==
    ASSUME Assumption, query!QueryInv, query!Restart
    PROVE  query!QueryInv'
<1> USE QueryParts, QueryTypes
<1>1. /\ s3' = [k \in query!Keys |-> query!Idle] /\ s5' = 0 /\ s6' = 0 /\ s7' = 0 /\ s8' = s9
      /\ s10' = query!NoOne /\ UNCHANGED <<s1, s2, s4, s9, s12>> /\ s13' = s13 + 1
  BY DEF query!Restart, query!Fault, query!NoLoad
<1>2. /\ s11' \in query!Removals /\ s11'.expected = s11.expected /\ ~s11'.pending
      /\ s11'.pc # "reconcile" /\ (s11'.pc = "idle" <=> s11.pc = "idle")
      /\ s11'.pc = "served" => s11.pc = "served"
      /\ s11'.report = "removed" => s11.report = "removed" /\ s11'.pc = "reported"
  <2>1. PICK step : step = CASE s11.pc \in {"sent", "served", "refused"} -> "lost"
                              [] s11.pc = "reconcile" -> "reported"
                              [] OTHER -> s11.pc
    OBVIOUS
  <2>2. PICK report : report = IF s11.pc = "reconcile" THEN "unknown" ELSE s11.report OBVIOUS
  <2>3. s11' = [s11 EXCEPT !.pending = FALSE, !.pc = step, !.report = report]
    BY <2>1, <2>2 DEF query!Restart
  <2>4. s11.pc \in {"idle", "sent", "served", "refused", "lost", "reconcile", "reported"}
    BY DEF query!TypeOK, query!Removals
  <2>5. /\ step \in {"idle", "lost", "reported"} /\ (step = "idle" <=> s11.pc = "idle")
        /\ s11.pc = "reported" => step = "reported"
    <3>1. CASE s11.pc \in {"sent", "served", "refused"} BY <2>1, <3>1
    <3>2. CASE s11.pc = "reconcile" BY <2>1, <3>2
    <3>3. CASE s11.pc \in {"idle", "lost", "reported"} BY <2>1, <3>3
    <3>4. QED BY <2>4, <3>1, <3>2, <3>3
  <2>6. s11 \in query!Removals BY DEF query!TypeOK
  <2>7. s11' \in query!Removals BY <2>2, <2>3, <2>5, <2>6 DEF query!Removals
  <2>8. s11'.expected = s11.expected /\ s11'.pending = FALSE /\ s11'.pc = step /\ s11'.report = report
    BY <2>3, <2>6 DEF query!Removals
  <2>9. report = "removed" => s11.report = "removed" /\ s11.pc = "reported"
    BY <2>2 DEF query!RemovalIsSound
  <2>10. QED BY <2>5, <2>7, <2>8, <2>9
<1>3. \A k \in query!Keys : s3'[k] = query!Idle BY <1>1
<1>4. query!LoadsAreOrdered'
  <2>1. \A k \in query!Dashboards : s3'[k] = query!Idle BY <1>3 DEF query!Keys
  <2>2. s6' <= s4' /\ s7' <= s4' /\ s12' <= s4' /\ s8' = s9' /\ s9'.load <= s4'
    BY <1>1 DEF query!LoadsAreOrdered
  <2>3. \A k \in query!Keys : s3'[k].name <= s4' /\ s3'[k].generation <= s6' /\ s3'[k].phase = "idle"
    BY <1>1, <1>3 DEF query!Idle, query!NoLoad
  <2>4. \A i, j \in query!Dashboards : query!Ordered(i, j)' BY <2>1 DEF query!Ordered
  <2>5. QED BY <2>1, <2>2, <2>3, <2>4 DEF query!LoadsAreOrdered
<1>5. s5' = CountOf(s3') BY <1>1, <1>3 DEF CountOf, query!Keys, query!Dashboards
<1>6. query!ErrorsAreCurrent' BY <1>1 DEF query!ErrorsAreCurrent, query!NoLoad
<1>7. query!RemovalIsSound'
  <2>1. /\ s1 <= s2 /\ s11.expected <= s2 /\ (s11.pc # "idle" => s11.expected # 0)
        /\ (s11.pc = "served" => s1 # s11.expected)
    BY DEF query!RemovalIsSound
  <2>2. QED BY <1>1, <1>2, <2>1 DEF query!RemovalIsSound
<1>8. query!TypeOK'
  <2>1. s3' \in [query!Keys -> query!Loads]
    BY <1>1, LoadFieldsTypes DEF query!Keys, query!Dashboards
  <2>2. 0 \in 0..MaxLoads /\ s13' \in Nat BY <1>1 DEF Assumption, QueryAssumption, query!TypeOK
  <2>3. QED BY <1>1, <1>2, <1>5, <2>1, <2>2, QueryTypesStay DEF query!TypeOK
<1>9. s11'.report = "removed" => s1' # s11'.expected
  BY <1>1, <1>2 DEF query!QueryInv, query!ServiceIsConsistent, query!ReportedRemovalsHappened
<1>10. QED BY <1>4, <1>5, <1>6, <1>7, <1>8, <1>9, QueryWhole

\* The removal's own steps, and another process at the worktree's path.
LEMMA RemovalSteps ==
    ASSUME Assumption, query!QueryInv,
           \/ query!SendRemoval \/ query!ServeRemoval \/ query!RespondRemoval \/ query!LoseResponse
           \/ query!ChangeWorktree
    PROVE  query!QueryInv'
<1> USE QueryParts, QueryTypes
<1>1. UNCHANGED <<s3, s4, s5, s6, s7, s8, s9, s10, s12, s13>>
  BY DEF query!SendRemoval, query!ServeRemoval, query!RespondRemoval, query!LoseResponse,
    query!ChangeWorktree, query!service
<1>2. query!LoadsAreOrdered' /\ query!ErrorsAreCurrent' /\ s5' = CountOf(s3')
  BY <1>1 DEF query!LoadsAreOrdered, query!ErrorsAreCurrent, query!Current, query!Ordered, query!newest
<1>3. s11 \in query!Removals /\ s1 \in 0..MaxWorktrees /\ s2 \in 0..MaxWorktrees BY DEF query!TypeOK
<1>4. s11.report = "removed" => s1 # s11.expected
  BY DEF query!QueryInv, query!ServiceIsConsistent, query!ReportedRemovalsHappened
<1>5. /\ s11' \in query!Removals /\ s1' \in 0..MaxWorktrees /\ s2' \in 0..MaxWorktrees
      /\ query!RemovalIsSound' /\ (s11'.report = "removed" => s1' # s11'.expected)
  <2>1. CASE query!SendRemoval
    <3>1. /\ s11' = [pc |-> "sent", pending |-> TRUE, expected |-> s1, since |-> 0, report |-> "none"]
          /\ s1 # 0 /\ UNCHANGED <<s1, s2>>
      BY <2>1 DEF query!SendRemoval
    <3>2. s11' \in query!Removals BY <1>3, <3>1 DEF query!Removals
    <3>3. QED BY <1>3, <3>1, <3>2 DEF query!RemovalIsSound
  <2>2. CASE query!ServeRemoval
    <3>1. PICK step : step = IF s11.pc # "sent" THEN s11.pc
                             ELSE IF s1 = s11.expected THEN "served" ELSE "refused"
      OBVIOUS
    <3>2. /\ s11.pending /\ s1' = (IF s1 = s11.expected THEN 0 ELSE s1) /\ s2' = s2
          /\ s11' = [s11 EXCEPT !.pending = FALSE, !.pc = step]
      BY <2>2, <3>1 DEF query!ServeRemoval
    <3>3. /\ s11'.pending = FALSE /\ s11'.pc = step /\ s11'.expected = s11.expected
          /\ s11'.report = s11.report /\ s11'.since = s11.since /\ s11' \in query!Removals
      BY <1>3, <3>1, <3>2 DEF query!Removals
    <3>4. s11.pc # "idle" /\ s11.expected # 0 BY <3>2 DEF query!RemovalIsSound
    <3>5. s1' # s11'.expected BY <3>2, <3>3, <3>4
    <3>6. s1' \in 0..MaxWorktrees BY <1>3, <3>2 DEF Assumption, QueryAssumption
    <3>7. step = "idle" => s11.pc = "idle" BY <3>1
    <3>8. s11.pc = "reported" => step = "reported" BY <3>1
    <3>9. query!RemovalIsSound'
      BY <1>1, <1>3, <3>2, <3>3, <3>4, <3>5, <3>7, <3>8 DEF query!RemovalIsSound
    <3>10. QED BY <1>3, <3>2, <3>3, <3>5, <3>6, <3>9
  <2>3. CASE query!RespondRemoval
    <3>1. PICK report : report = IF s11.pc = "served" THEN "removed" ELSE "refused" OBVIOUS
    <3>2. /\ s11.pc \in {"served", "refused"} /\ UNCHANGED <<s1, s2>>
          /\ s11' = [s11 EXCEPT !.pc = "reported", !.report = report]
      BY <2>3, <3>1 DEF query!RespondRemoval
    <3>3. /\ s11'.pc = "reported" /\ s11'.report = report /\ s11'.expected = s11.expected
          /\ s11'.pending = s11.pending /\ s11' \in query!Removals
      BY <1>3, <3>1, <3>2 DEF query!Removals
    <3>4. report = "removed" => s1 # s11.expected BY <3>1 DEF query!RemovalIsSound
    <3>5. QED BY <1>3, <3>2, <3>3, <3>4 DEF query!RemovalIsSound
  <2>4. CASE query!LoseResponse
    <3>1. /\ s11.pc \in {"sent", "served", "refused"} /\ UNCHANGED <<s1, s2>>
          /\ s11' = [s11 EXCEPT !.pc = "lost"]
      BY <2>4 DEF query!LoseResponse
    <3>2. /\ s11'.pc = "lost" /\ s11'.report = s11.report /\ s11'.expected = s11.expected
          /\ s11'.pending = s11.pending /\ s11' \in query!Removals
      BY <1>3, <3>1 DEF query!Removals
    <3>3. QED BY <1>3, <1>4, <3>1, <3>2 DEF query!RemovalIsSound
  <2>5. CASE query!ChangeWorktree
    <3>1. /\ s11' = s11
          /\ \/ s1' = 0 /\ s2' = s2
             \/ s2 < MaxWorktrees /\ s2' = s2 + 1 /\ s1' = s2'
      BY <2>5 DEF query!ChangeWorktree
    <3>2. s1' \in 0..MaxWorktrees /\ s2' \in 0..MaxWorktrees BY <1>3, <3>1 DEF Assumption, QueryAssumption
    <3>3. s1' <= s2' /\ s2 <= s2' BY <3>1
    <3>4. s11.expected # 0 => s1' # s11.expected BY <3>1 DEF query!RemovalIsSound
    <3>5. s11.report = "removed" => s11.expected # 0 BY DEF query!RemovalIsSound
    <3>6. query!RemovalIsSound' BY <1>1, <3>1, <3>3, <3>4 DEF query!RemovalIsSound
    <3>7. QED BY <1>3, <3>1, <3>2, <3>4, <3>5, <3>6
  <2>6. QED BY <2>1, <2>2, <2>3, <2>4, <2>5
<1>6. query!TypeOK' BY <1>1, <1>2, <1>5, QueryTypesStay DEF query!TypeOK
<1>7. QED BY <1>2, <1>5, <1>6, QueryWhole

LEMMA InitQuery == ASSUME Assumption, query!Init PROVE query!QueryInv
<1> DEFINE idle == [pc |-> "idle", pending |-> FALSE, expected |-> 0, since |-> 0, report |-> "none"]
<1>1. /\ s1 = 1 /\ s2 = 1 /\ s3 = [k \in query!Keys |-> query!Idle] /\ s4 = 0 /\ s5 = 0 /\ s6 = 0
      /\ s7 = 0 /\ s8 = query!Empty /\ s9 = query!Empty /\ s10 = query!NoOne /\ s12 = 0 /\ s13 = 0
      /\ s11 = idle
  BY DEF query!Init, query!NoLoad
<1>2. query!Idle \in query!Loads /\ query!Empty \in query!Stored /\ idle \in query!Removals
  BY DEF query!Idle, query!Empty, query!NoLoad, query!Loads, query!Stored, query!Removals, Assumption, QueryAssumption
<1>3. s3 \in [query!Keys -> query!Loads] BY <1>1, <1>2
<1>4. query!TypeOK
  <2>1. 0 \in 0..MaxLoads /\ 1 \in 0..MaxWorktrees BY DEF Assumption, QueryAssumption
  <2>2. 0 \in 0..2 /\ 0 \in Nat OBVIOUS
  <2>3. QED BY <1>1, <1>2, <1>3, <2>1, <2>2 DEF query!TypeOK
<1>5. query!LoadsAreOrdered
  <2>1. \A k \in query!Keys : s3[k].name = 0 /\ s3[k].generation = 0 /\ s3[k].phase = "idle"
    BY <1>1 DEF query!Idle, query!NoLoad
  <2>2. \A k \in query!Dashboards : s3[k] = query!Idle BY <1>1 DEF query!Keys
  <2>3. \A j, k \in query!Dashboards : query!Ordered(j, k) BY <2>2 DEF query!Ordered
  <2>4. s9.load = 0 /\ s8 = s9 BY <1>1 DEF query!Empty, query!NoLoad
  <2>5. QED BY <1>1, <2>1, <2>2, <2>3, <2>4 DEF query!LoadsAreOrdered
<1>6. query!RemovalIsSound /\ s11.report # "removed" BY <1>1 DEF query!RemovalIsSound
<1>7. query!LoadsAreCounted
  <2>1. query!UnderWay = {} BY <1>1 DEF query!UnderWay, query!Keys
  <2>2. QED BY <1>1, <2>1, SameCardinality, FS_EmptySet DEF query!LoadsAreCounted
<1>8. query!ErrorsAreCurrent BY <1>1 DEF query!ErrorsAreCurrent, query!NoLoad
<1>9. QED BY <1>4, <1>5, <1>6, <1>7, <1>8
  DEF query!QueryInv, query!ServiceIsConsistent, query!ReportedRemovalsHappened

LEMMA NextQuery ==
    ASSUME Assumption, query!QueryInv, [query!Next]_(query!vars)
    PROVE  query!QueryInv'
<1>1. ASSUME NEW k \in query!Keys,
             \/ query!Query(k) \/ query!Load(k) \/ query!Fail(k) \/ query!BeginPublish(k)
             \/ query!Store(k) \/ query!EndPublish(k)
      PROVE  query!QueryInv'
  BY <1>1, QueryStep, LoadStep, PublishSteps
<1>2. CASE query!Restart BY <1>2, RestartStep
<1>3. CASE query!Reconcile BY <1>3, ReconcileStep
<1>4. CASE query!SettleRemoval BY <1>4, SettleStep
<1>5. CASE \/ query!SendRemoval \/ query!ServeRemoval \/ query!RespondRemoval
           \/ query!LoseResponse \/ query!ChangeWorktree
  BY <1>5, RemovalSteps
<1>6. CASE UNCHANGED query!vars
  <2>1. UNCHANGED <<s1, s2, s3, s4, s5, s6, s7, s8, s9, s10, s11, s12, s13>>
    BY <1>6 DEF query!vars, query!service
  <2>2. query!UnderWay' = query!UnderWay BY <2>1 DEF query!UnderWay
  <2>3. QED BY <2>1, <2>2 DEF query!QueryInv, query!TypeOK, query!Loads, query!Stored,
    query!Removals, query!LoadsAreOrdered, query!Current, query!Ordered, query!newest,
    query!RemovalIsSound, query!ServiceIsConsistent, query!ErrorsAreCurrent,
    query!LoadsAreCounted, query!ReportedRemovalsHappened
<1>7. QED BY <1>1, <1>2, <1>3, <1>4, <1>5, <1>6 DEF query!Next

\* Only a store changes what is cached, and what it stores is no older.
LEMMA QuerySteps ==
    ASSUME Assumption, query!QueryInv, [query!Next]_(query!vars)
    PROVE  query!CacheNeverGoesBack
<1> USE QueryParts, QueryTypes
<1>1. s8 = s9 /\ s9.load \in Nat BY DEF query!LoadsAreOrdered
<1>2. ASSUME NEW k \in query!Keys, query!Store(k) PROVE query!CacheNeverGoesBack
  <2>1. UNCHANGED <<s8, s9>> \/ (s9'.load = s3[k].name /\ s8' = s9') BY <1>2 DEF query!Store
  <2>2. s9.load <= s3[k].name
    <3>1. s3[k].phase = "storing" BY <1>2 DEF query!Store
    <3>2. k \in query!Dashboards /\ s3[k] # query!Idle BY <3>1 DEF query!LoadsAreOrdered, query!Idle
    <3>3. query!Current(k) BY <3>2 DEF query!LoadsAreOrdered
    <3>4. QED BY <3>1, <3>3 DEF query!Current
  <2>3. QED BY <1>1, <2>1, <2>2 DEF query!CacheNeverGoesBack
<1>3. CASE \/ \E k \in query!Keys : \/ query!Query(k) \/ query!Load(k) \/ query!Fail(k)
                                    \/ query!BeginPublish(k) \/ query!EndPublish(k)
           \/ query!SendRemoval \/ query!ServeRemoval \/ query!RespondRemoval
           \/ query!LoseResponse \/ query!ChangeWorktree \/ query!Reconcile
           \/ query!SettleRemoval \/ UNCHANGED query!vars
  <2>1. UNCHANGED <<s8, s9>> BY <1>3 DEF query!Query, query!Ask, query!Load, query!Fail,
    query!BeginPublish, query!EndPublish, query!SendRemoval, query!ServeRemoval,
    query!RespondRemoval, query!LoseResponse, query!ChangeWorktree, query!Reconcile,
    query!SettleRemoval, query!vars, query!service
  <2>2. QED BY <1>1, <2>1 DEF query!CacheNeverGoesBack
<1>4. CASE query!Restart
  <2>1. s8' = s9 /\ s9' = s9 BY <1>4 DEF query!Restart
  <2>2. QED BY <1>1, <2>1 DEF query!CacheNeverGoesBack
<1>5. QED BY <1>2, <1>3, <1>4 DEF query!Next

\* However many loads of the inventory overlap, fail or are cut off by a restart:
\* the cached dashboard never goes back, an error is never older than the success
\* it hides, every load that began is counted until it ends, and a removal that is
\* reported to have happened did (publishDashboard, setDashboardDiagnostic,
\* reconcileRemoval).
THEOREM InventoryStaysConsistent ==
    ASSUME Assumption PROVE ServicesSpec => InventoryIsConsistent
<1> DEFINE Inv == focus = "query" => query!QueryInv
<1>1. ServicesInit => Inv BY InitQuery DEF ServicesInit
<1>2. Inv /\ [ServicesNext]_services => Inv'
  BY NextQuery DEF ServicesNext, services, slots, query!vars, query!service
<1>3. Inv => (focus = "query" => query!ServiceIsConsistent) BY DEF query!QueryInv
<1>4. Inv /\ [ServicesNext]_services => [focus = "query" => query!CacheNeverGoesBack]_services
  BY QuerySteps DEF ServicesNext, services, slots, query!vars, query!service
<1>5. QED BY <1>1, <1>2, <1>3, <1>4, PTL DEF ServicesSpec, InventoryIsConsistent

-----------------------------------------------------------------------------
(* MergedPrune, for any heads, sources, numbers of requests and moves.      *)
(* PruneInv is inductive: what the command has inspected was merged, and a *)
(* merged request stays merged; past the guard no session runs at the      *)
(* candidate; and a record written later than the candidate's has a later  *)
(* generation, so that the clean up cannot take it for its own.            *)

\* What git worktree add registers is a worktree.
LEMMA ReadyIs == ASSUME Assumption PROVE prune!Ready \in prune!Worktree /\ prune!Ready.gen =
       1
                       /\ ~prune!Ready.locked /\ ~prune!Ready.dirty
<1>1. (CHOOSE h \in Heads : TRUE) \in Heads /\ (CHOOSE s \in Sources : TRUE) \in Sources
  BY DEF Assumption, PruneAssumption
<1>2. 1 \in 1..(MaxMoves + 1) BY DEF Assumption, PruneAssumption
<1>3. QED BY <1>1, <1>2 DEF prune!Ready, prune!Worktree

\* Nothing is under way at first.
LEMMA InitPrune == ASSUME Assumption, prune!Init PROVE prune!PruneInv
<1>1. s1 \in prune!Worktree /\ s1.gen = 1 BY ReadyIs DEF prune!Init
<1>2. s2 \in prune!Record \cup {None} /\ (s2 # None => s2.gen = 1)
  <2>1. CASE s2 = None BY <2>1
  <2>2. CASE s2 # None
    <3>1. PICK n \in Numbers : s2 = [gen |-> 1, head |-> s1.head, source |-> s1.source,
        number |-> n]
      BY <2>2 DEF prune!Init
    <3>2. s1.head \in Heads /\ s1.source \in Sources /\ 1 \in 1..(MaxMoves + 1)
      BY <1>1 DEF prune!Worktree, Assumption, PruneAssumption
    <3>3. QED BY <3>1, <3>2 DEF prune!Record
  <2>3. QED BY <2>1, <2>2
<1>3. prune!TypeOK BY <1>1, <1>2 DEF prune!Init, prune!TypeOK
<1>4. QED BY <1>1, <1>2, <1>3 DEF prune!Init, prune!PruneInv, prune!OnlyMergedWorkIsLost,
  Assumption, PruneAssumption

\* What the provider calls merged stays merged.
LEMMA MergedStays ==
    ASSUME prune!TypeOK, prune!OpenOrMergeRequest \/ UNCHANGED s3, NEW w, prune!IsMerged(w)
    PROVE  prune!IsMerged(w)'
<1> USE DEF prune!IsMerged, prune!Matching
<1>1. PICK n \in DOMAIN s3 : s3[n].head = w.head /\ s3[n].source = w.source /\ s3[n].merged
  OBVIOUS
<1>2. CASE UNCHANGED s3 BY <1>2, <1>1
<1>3. CASE prune!OpenOrMergeRequest
  <2>1. CASE \E k \in Numbers \ DOMAIN s3, h \in Heads, s \in Sources :
            s3' = [j \in DOMAIN s3 \cup {k} |->
                     IF j = k THEN [head |-> h, source |-> s, merged |-> FALSE] ELSE s3[j]]
    BY <2>1, <1>1
  <2>2. CASE \E k \in DOMAIN s3 : s3' = [s3 EXCEPT ![k].merged = TRUE]
    <3>1. PICK k \in DOMAIN s3 : s3' = [s3 EXCEPT ![k].merged = TRUE] BY <2>2
    <3>2. s3[k] \in prune!Request BY DEF prune!TypeOK
    <3>3. DOMAIN s3' = DOMAIN s3 BY <3>1
    <3>4. s3'[n].head = s3[n].head /\ s3'[n].source = s3[n].source /\ s3'[n].merged
      BY <3>1, <3>2, <1>1 DEF prune!Request
    <3>5. QED BY <3>3, <3>4, <1>1
  <2>3. QED BY <1>3, <2>1, <2>2 DEF prune!OpenOrMergeRequest
<1>4. QED BY <1>2, <1>3

\* A merged request stays merged, whatever else is opened or merged.
LEMMA RequestsStay ==
    ASSUME prune!TypeOK, prune!OpenOrMergeRequest
    PROVE  \A n \in DOMAIN s3' : s3'[n] \in prune!Request
<1>1. CASE \E k \in Numbers \ DOMAIN s3, h \in Heads, s \in Sources :
          s3' = [j \in DOMAIN s3 \cup {k} |->
                   IF j = k THEN [head |-> h, source |-> s, merged |-> FALSE] ELSE s3[j]]
  BY <1>1 DEF prune!TypeOK, prune!Request
<1>2. CASE \E k \in DOMAIN s3 : s3' = [s3 EXCEPT ![k].merged = TRUE]
  <2>1. PICK k \in DOMAIN s3 : s3' = [s3 EXCEPT ![k].merged = TRUE] BY <1>2
  <2>2. [s3[k] EXCEPT !.merged = TRUE] \in prune!Request BY DEF prune!TypeOK, prune!Request
  <2>3. QED BY <2>1, <2>2 DEF prune!TypeOK
<1>3. QED BY <1>1, <1>2 DEF prune!OpenOrMergeRequest

\* What an evaluation calls eligible is merged.
LEMMA EligibleIsMerged ==
    ASSUME prune!Classified(s9) = "eligible"
    PROVE  prune!IsMerged(s9.w)
<1>1. CASE s9.record # None
  <2>1. prune!Imported(s9) = "eligible" BY <1>1 DEF prune!Classified
  <2>2. /\ s9.record.number \in DOMAIN s3
        /\ s3[s9.record.number].source = s9.w.source
        /\ s3[s9.record.number].head = s9.w.head
        /\ prune!MergedOrNot(s9.record.number) = "eligible"
    BY <2>1 DEF prune!Imported
  <2>3. s3[s9.record.number].merged BY <2>2 DEF prune!MergedOrNot
  <2>4. QED BY <2>2, <2>3 DEF prune!IsMerged, prune!Matching
<1>2. CASE s9.record = None
  <2> DEFINE exact == prune!Matching(s9.w.head, s9.w.source)
  <2>1. prune!Ordinary(s9) = "eligible" BY <1>2 DEF prune!Classified
  <2>2. exact # {} /\ prune!MergedOrNot(CHOOSE n \in exact : TRUE) = "eligible"
    BY <2>1 DEF prune!Ordinary, prune!diagnoseSourceHead
  <2>3. PICK n \in exact : prune!MergedOrNot(n) = "eligible" BY <2>2
  <2>4. s3[n].merged BY <2>3 DEF prune!MergedOrNot
  <2>5. QED BY <2>3, <2>4 DEF prune!IsMerged
<1>3. QED BY <1>1, <1>2

\* A removed worktree was merged, and stays so.
LEMMA LossStays ==
    ASSUME prune!PruneInv, prune!OpenOrMergeRequest \/ UNCHANGED s3, UNCHANGED s12,
           s9 # None => UNCHANGED s9, s12 # None => s9 # None
    PROVE  prune!OnlyMergedWorkIsLost'
<1> SUFFICES ASSUME s12 # None PROVE prune!OnlyMergedWorkIsLost'
  BY DEF prune!OnlyMergedWorkIsLost
<1>1. prune!IsMerged(s12.seen) BY DEF prune!PruneInv, prune!OnlyMergedWorkIsLost, prune!IsMerged
<1>2. prune!IsMerged(s12.seen)' BY <1>1, MergedStays DEF prune!PruneInv
<1>3. QED BY <1>2 DEF prune!PruneInv, prune!OnlyMergedWorkIsLost, prune!IsMerged

\* A user commits or edits: the generation of the worktree stays.
LEMMA UserChangesStep == ASSUME Assumption, prune!PruneInv, prune!UserChanges PROVE
       prune!PruneInv'
<1>1. s1 \in prune!Worktree /\ s1 # None BY DEF prune!PruneInv, prune!TypeOK, prune!UserChanges
<1>2. s1' \in prune!Worktree /\ s1'.gen = s1.gen BY <1>1 DEF prune!UserChanges, prune!Worktree
<1>3. s1' # None BY <1>2 DEF Assumption, PruneAssumption
<1>4. prune!OnlyMergedWorkIsLost'
  BY LossStays DEF prune!UserChanges, prune!Move, prune!command, prune!PruneInv
<1>5. prune!TypeOK'
  BY <1>2 DEF prune!UserChanges, prune!Move, prune!command, prune!PruneInv, prune!TypeOK
<1>6. s6' \in 0..MaxMoves /\ s7' \in 1..(s6' + 1)
  BY DEF prune!UserChanges, prune!Move, prune!PruneInv, Assumption, PruneAssumption
<1>7. s9 # None => prune!CandidateIsKnown'
  BY <1>1, <1>2 DEF prune!UserChanges, prune!Fenced, prune!Move, prune!command, prune!PruneInv,
    prune!CandidateIsKnown, prune!IsMerged, prune!Matching
<1>8. QED BY <1>1, <1>2, <1>3, <1>4, <1>5, <1>6, <1>7
  DEF prune!UserChanges, prune!Move, prune!command, prune!PruneInv

\* A new generation at the path is none that was there before.
LEMMA NewWorktree ==
    ASSUME Assumption, prune!PruneInv, prune!Move, s7' = s7 + 1
    PROVE  /\ s6' \in 0..MaxMoves /\ s7' \in 1..(s6' + 1) /\ s7' \in 1..(MaxMoves + 1)
           /\ s9 # None => s9.w.gen < s7' /\ s9.w.gen <= s7'
           /\ s2 # None => s2.gen <= s7'
<1>1. s7' \in Nat /\ s7 < s7' BY DEF prune!PruneInv, Assumption, PruneAssumption
<1>2. s6' \in 0..MaxMoves /\ s7' \in 1..(s6' + 1)
  BY DEF prune!Move, prune!PruneInv, Assumption, PruneAssumption
<1>3. s9 # None => s9.w.gen \in Nat /\ s9.w.gen <= s7
  BY DEF prune!PruneInv, prune!Candidate, prune!Worktree, prune!CandidateIsKnown
<1>4. s2 # None => s2.gen \in Nat /\ s2.gen <= s7
  BY DEF prune!PruneInv, prune!TypeOK, prune!Record
<1>5. s7 \in Nat BY DEF prune!PruneInv, Assumption, PruneAssumption
<1>6. s7' \in 1..(MaxMoves + 1)
  <2>1. MaxMoves \in Nat BY DEF Assumption, PruneAssumption
  <2>2. \A n \in 0..MaxMoves : \A g \in 1..(n + 1) : g \in 1..(MaxMoves + 1) BY <2>1
  <2>3. QED BY <1>2, <2>2
<1>7. \A n \in Nat : n <= s7 => n < s7' /\ n <= s7' BY <1>1, <1>5
<1>8. QED BY <1>2, <1>3, <1>4, <1>6, <1>7

\* A user replaces the worktree by one of a later generation.
LEMMA UserReplacesStep == ASSUME Assumption, prune!PruneInv, prune!UserReplaces PROVE
       prune!PruneInv'
<1>1. prune!Move /\ s7' = s7 + 1 /\ UNCHANGED <<s2, s3, s4, s5, s8, s9, s10, s11, s12>>
  BY DEF prune!UserReplaces, prune!Move, prune!command
<1>2. PICK h \in Heads : s1' = [prune!Ready EXCEPT !.gen = s7', !.head = h]
  BY DEF prune!UserReplaces
<1>3. s1' \in prune!Worktree /\ s1'.gen = s7'
  BY <1>1, <1>2, NewWorktree, ReadyIs DEF prune!Worktree
<1>4. prune!OnlyMergedWorkIsLost' BY <1>1, LossStays DEF prune!PruneInv
<1>5. prune!TypeOK' BY <1>1, <1>3 DEF prune!PruneInv, prune!TypeOK
<1>6. s9 # None => prune!CandidateIsKnown'
  <2> SUFFICES ASSUME s9 # None PROVE prune!CandidateIsKnown' OBVIOUS
  <2>1. s9.w.gen < s7' /\ s9.w.gen <= s7' BY <1>1, NewWorktree
  <2>2. prune!IsMerged(s9.w)' <=> prune!IsMerged(s9.w) BY <1>1 DEF prune!IsMerged, prune!Matching
  <2>3. QED BY <1>1, <1>3, <2>1, <2>2 DEF prune!PruneInv, prune!CandidateIsKnown, prune!Fenced
<1>7. s1' # None BY <1>3 DEF Assumption, PruneAssumption
<1>8. s7' <= s7' BY <1>1, NewWorktree
<1>9. QED BY <1>1, <1>3, <1>4, <1>5, <1>6, <1>7, <1>8, NewWorktree DEF prune!PruneInv

\* An import records the generation of the worktree it makes.
LEMMA ImportStep == ASSUME Assumption, prune!PruneInv, prune!Import PROVE prune!PruneInv'
<1>1. prune!Move /\ s7' = s7 + 1 /\ UNCHANGED <<s3, s4, s5, s8, s9, s10, s11, s12>>
  BY DEF prune!Import, prune!Move, prune!command
<1>2. PICK n \in DOMAIN s3 :
        /\ s1' = [prune!Ready EXCEPT !.gen = s7', !.head = s3[n].head, !.source = s3[n].source]
        /\ s2' = [gen |-> s7', head |-> s3[n].head, source |-> s3[n].source, number |-> n]
  BY DEF prune!Import
<1>3. s3[n] \in prune!Request BY DEF prune!PruneInv, prune!TypeOK
<1>4. s3[n].head \in Heads /\ s3[n].source \in Sources BY <1>3 DEF prune!Request
<1>5. s1' \in prune!Worktree /\ s1'.gen = s7'
  BY <1>1, <1>2, <1>4, NewWorktree, ReadyIs DEF prune!Worktree
<1>a. DOMAIN s3 \subseteq Numbers BY DEF prune!PruneInv
<1>6. s2' \in prune!Record /\ s2'.gen = s7' BY <1>1, <1>2, <1>4, <1>a, NewWorktree DEF prune!Record
<1>7. prune!OnlyMergedWorkIsLost' BY <1>1, LossStays DEF prune!PruneInv
<1>8. prune!TypeOK' BY <1>1, <1>5, <1>6 DEF prune!PruneInv, prune!TypeOK
<1>9. s9 # None => prune!CandidateIsKnown'
  <2> SUFFICES ASSUME s9 # None PROVE prune!CandidateIsKnown' OBVIOUS
  <2>1. s9.w.gen < s7' /\ s9.w.gen <= s7' BY <1>1, NewWorktree
  <2>2. prune!IsMerged(s9.w)' <=> prune!IsMerged(s9.w) BY <1>1 DEF prune!IsMerged, prune!Matching
  <2>3. QED BY <1>1, <1>5, <2>1, <2>2 DEF prune!PruneInv, prune!CandidateIsKnown, prune!Fenced
<1>10. s1' # None /\ s2' # None BY <1>5, <1>6 DEF Assumption, PruneAssumption
<1>11. s7' <= s7' BY <1>1, NewWorktree
<1>12. QED BY <1>1, <1>5, <1>6, <1>7, <1>8, <1>9, <1>10, <1>11, NewWorktree DEF prune!PruneInv

\* Requests are opened and merged.
LEMMA RequestStep == ASSUME Assumption, prune!PruneInv, prune!OpenOrMergeRequest PROVE
       prune!PruneInv'
<1>1. prune!Move /\ UNCHANGED <<s1, s2, s4, s5, s7, s8, s9, s10, s11, s12>>
  BY DEF prune!OpenOrMergeRequest, prune!Move, prune!command
<1>2. s6' \in 0..MaxMoves /\ s7' \in 1..(s6' + 1)
  BY <1>1 DEF prune!Move, prune!PruneInv, Assumption, PruneAssumption
<1>3. prune!OnlyMergedWorkIsLost' BY <1>1, LossStays DEF prune!PruneInv
<1>4. prune!TypeOK' BY <1>1, RequestsStay DEF prune!PruneInv, prune!TypeOK
<1>5. s9 # None => prune!CandidateIsKnown'
  <2> SUFFICES ASSUME s9 # None PROVE prune!CandidateIsKnown' OBVIOUS
  <2>1. prune!IsMerged(s9.w) => prune!IsMerged(s9.w)' BY <1>1, MergedStays DEF prune!PruneInv
  <2>2. QED BY <1>1, <2>1 DEF prune!PruneInv, prune!CandidateIsKnown, prune!Fenced
<1>6. DOMAIN s3' \subseteq Numbers
  <2>1. DOMAIN s3 \subseteq Numbers BY DEF prune!PruneInv
  <2>2. CASE \E k \in Numbers \ DOMAIN s3, h \in Heads, s \in Sources :
            s3' = [j \in DOMAIN s3 \cup {k} |->
                     IF j = k THEN [head |-> h, source |-> s, merged |-> FALSE] ELSE s3[j]]
    <3>1. \E k \in Numbers : DOMAIN s3' = DOMAIN s3 \cup {k} BY <2>2
    <3>2. QED BY <2>1, <3>1
  <2>3. CASE \E k \in DOMAIN s3 : s3' = [s3 EXCEPT ![k].merged = TRUE]
    <3>1. DOMAIN s3' = DOMAIN s3 BY <2>3
    <3>2. QED BY <2>1, <3>1
  <2>4. QED BY <2>2, <2>3 DEF prune!OpenOrMergeRequest
<1>7. QED BY <1>1, <1>2, <1>3, <1>4, <1>5, <1>6 DEF prune!PruneInv

\* Sessions come and go.
LEMMA SessionStep == ASSUME Assumption, prune!PruneInv, prune!OpenOrEndSession PROVE
       prune!PruneInv'
<1>1. prune!Move /\ ~prune!Fenced /\ UNCHANGED <<s1, s2, s3, s5, s7, s8, s9, s10, s11, s12>>
      /\ s4' \in BOOLEAN
  BY DEF prune!OpenOrEndSession, prune!Move, prune!command
<1>2. s6' \in 0..MaxMoves /\ s7' \in 1..(s6' + 1)
  BY <1>1 DEF prune!Move, prune!PruneInv, Assumption, PruneAssumption
<1>3. prune!OnlyMergedWorkIsLost' BY <1>1, LossStays DEF prune!PruneInv
<1>4. prune!TypeOK' BY <1>1 DEF prune!PruneInv, prune!TypeOK
<1>5. s9 # None => prune!CandidateIsKnown'
  BY <1>1 DEF prune!Fenced, prune!PruneInv, prune!CandidateIsKnown, prune!IsMerged, prune!Matching
<1>6. QED BY <1>1, <1>2, <1>3, <1>4, <1>5 DEF prune!PruneInv

\* The command up to the removal itself: it leaves the world as it is.
LEMMA CommandStep ==
    ASSUME Assumption, prune!PruneInv,
           prune!Inspect \/ prune!Evaluate \/ prune!InspectDirty \/ prune!Confirm \/ prune!Guard
    PROVE  prune!PruneInv'
<1>1. UNCHANGED <<s1, s2, s3, s4, s5, s6, s7, s12>>
  BY DEF prune!Inspect, prune!Evaluate, prune!providerFailure, prune!InspectDirty, prune!Confirm,
    prune!Guard, prune!world
<1>2. s12 = None
  BY DEF prune!Inspect, prune!Evaluate, prune!providerFailure, prune!InspectDirty, prune!Confirm,
    prune!Guard, prune!PruneInv
<1>3. prune!OnlyMergedWorkIsLost' BY <1>1, <1>2 DEF prune!OnlyMergedWorkIsLost
<1>4. prune!TypeOK'
  BY <1>1 DEF prune!Inspect, prune!Evaluate, prune!providerFailure, prune!InspectDirty,
    prune!Confirm, prune!Guard, prune!Report, prune!PruneInv, prune!TypeOK
<1>5. CASE prune!Inspect
  <2>1. s1 \in prune!Worktree BY <1>5 DEF prune!Inspect, prune!PruneInv, prune!TypeOK
  <2>2. prune!Attached \in prune!Record \cup {None} /\ (prune!Attached # None =>
      prune!Attached.gen = s1.gen)
    BY DEF prune!Attached, prune!PruneInv, prune!TypeOK
  <2>3. s9' = [w |-> s1, record |-> prune!Attached] /\ s8' \in {"done", "evaluate"}
    BY <1>5 DEF prune!Inspect, prune!Report
  <2>4. s9' \in prune!Candidate BY <2>1, <2>2, <2>3 DEF prune!Candidate
  <2>5. s9' # None BY <2>4 DEF Assumption, PruneAssumption
  <2>6. prune!CandidateIsKnown'
    BY <1>1, <1>5, <2>2, <2>3 DEF prune!CandidateIsKnown, prune!Fenced, prune!PruneInv,
      prune!Inspect
  <2>7. QED BY <1>1, <1>2, <1>3, <1>4, <2>3, <2>4, <2>5, <2>6 DEF prune!PruneInv
<1>6. CASE ~prune!Inspect
  <2>1. s9' = s9 /\ s9 # None /\ s9 \in prune!Candidate /\ prune!CandidateIsKnown
    BY <1>6 DEF prune!Evaluate, prune!providerFailure, prune!InspectDirty, prune!Confirm,
      prune!Guard, prune!PruneInv
  <2>2. s8' # "inspect" /\ s8' # "cleanup" /\ s8' # "deleting"
    BY <1>6 DEF prune!Evaluate, prune!providerFailure, prune!InspectDirty, prune!Confirm,
      prune!Guard, prune!Report
  <2>3. s8' \in {"dirty", "confirm", "guard", "removing", "deleting", "cleanup"} =>
      prune!IsMerged(s9.w)
    BY <1>6, <2>1, EligibleIsMerged DEF prune!Evaluate, prune!providerFailure, prune!InspectDirty,
      prune!Confirm, prune!Guard, prune!Report, prune!CandidateIsKnown
  <2>4. prune!Fenced' => (s9.record # None => ~s4)
    BY <1>6 DEF prune!Evaluate, prune!providerFailure, prune!InspectDirty, prune!Confirm,
      prune!Guard, prune!Report, prune!MayEnter, prune!Fenced
  <2>5. prune!IsMerged(s9.w)' <=> prune!IsMerged(s9.w)
    BY <1>1, <2>1 DEF prune!IsMerged, prune!Matching
  <2>6. prune!CandidateIsKnown'
    BY <1>1, <2>1, <2>2, <2>3, <2>4, <2>5 DEF prune!CandidateIsKnown, prune!Fenced
  <2>7. QED BY <1>1, <1>2, <1>3, <1>4, <2>1, <2>2, <2>6 DEF prune!PruneInv
<1>7. QED BY <1>5, <1>6

\* The last look at the candidate changes nothing it knows.
LEMMA ConditionsStep ==
    ASSUME Assumption, prune!PruneInv, prune!CheckConditions PROVE prune!PruneInv'
<1>1. UNCHANGED <<s1, s2, s3, s4, s5, s6, s7, s11, s12>> /\ s8 = "removing"
  BY DEF prune!CheckConditions, prune!world
<1>2. s9 # None /\ s9 \in prune!Candidate /\ prune!CandidateIsKnown /\ s12 = None
  BY <1>1 DEF prune!PruneInv
<1>3. prune!OnlyMergedWorkIsLost' BY <1>1, <1>2 DEF prune!OnlyMergedWorkIsLost
<1>4. CASE prune!ConditionsHold
  <2>1. s9' = [w |-> s1, record |-> s9.record] /\ s8' = "deleting"
    BY <1>4 DEF prune!CheckConditions
  <2>2. s1 \in prune!Worktree
    BY <1>4 DEF prune!ConditionsHold, prune!SameCheckout, prune!CleanOrForced, prune!PruneInv,
      prune!TypeOK
  <2>3. s9' \in prune!Candidate BY <1>2, <2>1, <2>2 DEF prune!Candidate
  <2>4. s9' # None BY <2>3 DEF Assumption, PruneAssumption
  <2>5. s1.gen = s9.w.gen /\ s1.head = s9.w.head /\ s1.source = s9.w.source /\ ~s1.locked
        /\ (s1.dirty => s11)
    BY <1>4 DEF prune!ConditionsHold, prune!SameCheckout, prune!CleanOrForced
  <2>6. prune!IsMerged(s9.w) BY <1>1, <1>2 DEF prune!CandidateIsKnown
  <2>7. prune!IsMerged(s1) BY <2>5, <2>6 DEF prune!IsMerged
  <2>8. s9'.w = s1 /\ s9'.record = s9.record BY <2>1
  <2>9. prune!IsMerged(s9.w)' BY <1>1, <2>7, <2>8 DEF prune!IsMerged, prune!Matching
  <2>10. s9.record # None => ~s4 BY <1>1, <1>2 DEF prune!CandidateIsKnown, prune!Fenced
  <2>11. s9.w.gen <= s7 /\ (s9.record # None => s9.record.gen = s9.w.gen)
    BY <1>2 DEF prune!CandidateIsKnown
  <2>12. prune!CandidateIsKnown'
    BY <1>1, <2>1, <2>5, <2>8, <2>9, <2>10, <2>11 DEF prune!CandidateIsKnown, prune!Fenced
  <2>13. prune!TypeOK' BY <1>1, <2>1 DEF prune!PruneInv, prune!TypeOK
  <2>14. QED BY <1>1, <1>2, <1>3, <2>1, <2>3, <2>4, <2>12, <2>13 DEF prune!PruneInv
<1>5. CASE ~prune!ConditionsHold
  <2>1. s9' = s9 /\ s8' = "done" BY <1>5 DEF prune!CheckConditions, prune!Report
  <2>2. prune!CandidateIsKnown' BY <1>1, <1>2, <2>1 DEF prune!CandidateIsKnown, prune!Fenced
  <2>3. prune!TypeOK' BY <1>1, <2>1 DEF prune!PruneInv, prune!TypeOK
  <2>4. QED BY <1>1, <1>2, <1>3, <2>1, <2>2, <2>3 DEF prune!PruneInv
<1>6. QED BY <1>4, <1>5

\* A removal takes the candidate the guard has looked at.
LEMMA PruneRemoves ==
    ASSUME Assumption, prune!PruneInv, prune!GitRemoves PROVE prune!PruneInv'
<1>1. UNCHANGED <<s2, s3, s4, s5, s6, s7, s9, s11>> /\ s8 = "deleting" BY DEF prune!GitRemoves
<1>2. s9 # None /\ s9 \in prune!Candidate /\ prune!CandidateIsKnown /\ s12 = None
  BY <1>1 DEF prune!PruneInv
<1>3. prune!IsMerged(s9.w)' <=> prune!IsMerged(s9.w) BY <1>1 DEF prune!IsMerged, prune!Matching
<1>4. ASSUME s1' = None, s8' = "cleanup",
             s12' = [seen |-> s9.w, session |-> s4, confirmed |-> s11]
      PROVE  prune!PruneInv'
  <2>1. s9.w \in prune!Worktree /\ s4 \in BOOLEAN /\ s11 \in BOOLEAN
    BY <1>2 DEF prune!Candidate, prune!PruneInv, prune!TypeOK
  <2>2. s12' \in prune!Loss BY <1>4, <2>1 DEF prune!Loss
  <2>3. prune!CandidateIsKnown' BY <1>1, <1>2, <1>3, <1>4 DEF prune!CandidateIsKnown, prune!Fenced
  <2>4. prune!OnlyMergedWorkIsLost'
    <3>1. prune!IsMerged(s9.w)' BY <1>1, <1>2, <1>3 DEF prune!CandidateIsKnown
    <3>2. s12'.seen = s9'.w /\ s12'.session = s4 /\ s12'.confirmed = s11 BY <1>1, <1>4
    <3>3. (\E n \in prune!Matching(s12.seen.head, s12.seen.source) : s3[n].merged)'
      BY <3>1, <3>2 DEF prune!IsMerged
    <3>4. s12'.seen.dirty => s12'.confirmed BY <1>1, <1>2, <3>2 DEF prune!CandidateIsKnown
    <3>5. ~s12'.seen.locked BY <1>1, <1>2, <3>2 DEF prune!CandidateIsKnown
    <3>6. s9.record # None => ~s12'.session
      BY <1>1, <1>2, <3>2 DEF prune!CandidateIsKnown, prune!Fenced
    <3>7. QED BY <1>1, <3>3, <3>4, <3>5, <3>6 DEF prune!OnlyMergedWorkIsLost
  <2>5. prune!TypeOK' BY <1>1, <1>4 DEF prune!PruneInv, prune!TypeOK
  <2>6. QED BY <1>1, <1>2, <1>4, <2>2, <2>3, <2>4, <2>5 DEF prune!PruneInv
<1>5. ASSUME s1' = s1, s8' = "done", s12' = s12 PROVE prune!PruneInv'
  <2>1. prune!OnlyMergedWorkIsLost' BY <1>2, <1>5 DEF prune!OnlyMergedWorkIsLost
  <2>2. prune!CandidateIsKnown' BY <1>1, <1>2, <1>5 DEF prune!CandidateIsKnown, prune!Fenced
  <2>3. prune!TypeOK' BY <1>1, <1>5 DEF prune!PruneInv, prune!TypeOK
  <2>4. QED BY <1>1, <1>2, <1>5, <2>1, <2>2, <2>3 DEF prune!PruneInv
<1>6. QED BY <1>4, <1>5 DEF prune!GitRemoves, prune!Report

\* The record goes with the worktree, if it is the one of the candidate.
LEMMA CleanUpStep == ASSUME Assumption, prune!PruneInv, prune!CleanUp PROVE prune!PruneInv'
<1>1. UNCHANGED <<s1, s3, s4, s5, s6, s7, s9, s11, s12>> /\ s8 = "cleanup" /\ s8' = "done"
      /\ s2' \in {None, s2}
  BY DEF prune!CleanUp, prune!Report
<1>2. s9 # None /\ s9 \in prune!Candidate /\ prune!CandidateIsKnown BY <1>1 DEF prune!PruneInv
<1>3. prune!OnlyMergedWorkIsLost' BY <1>1, <1>2, LossStays
<1>4. prune!CandidateIsKnown'
  BY <1>1, <1>2 DEF prune!CandidateIsKnown, prune!Fenced, prune!IsMerged, prune!Matching
<1>5. prune!TypeOK' BY <1>1 DEF prune!PruneInv, prune!TypeOK
<1>6. QED BY <1>1, <1>2, <1>3, <1>4, <1>5 DEF prune!PruneInv

\* PruneInv is inductive.
LEMMA NextPrune ==
    ASSUME Assumption, prune!PruneInv, [prune!Next]_(prune!vars)
    PROVE  prune!PruneInv'
<1>1. CASE prune!Next
  BY <1>1, UserChangesStep, UserReplacesStep, RequestStep, ImportStep, SessionStep, CommandStep,
    ConditionsStep, PruneRemoves, CleanUpStep DEF prune!Next
<1>2. CASE UNCHANGED prune!vars
  BY <1>2 DEF prune!vars, prune!world, prune!command, prune!PruneInv, prune!TypeOK,
    prune!OnlyMergedWorkIsLost, prune!Matching, prune!CandidateIsKnown, prune!IsMerged,
    prune!Fenced
<1>3. QED BY <1>1, <1>2

\* Only an import, whose worktree is gone by then, and the command's own clean up
\* touch a record.
LEMMA PruneSteps ==
    ASSUME Assumption, prune!PruneInv, prune!Next
    PROVE  prune!LaterImportsKeepTheirRecord
<1> USE DEF prune!LaterImportsKeepTheirRecord
<1>1. CASE prune!Import
  <2>1. s2 # None => s2.gen \in 1..(MaxMoves + 1) BY DEF prune!PruneInv, prune!TypeOK, prune!Record
  <2>2. QED BY <1>1, <2>1 DEF prune!Import, Assumption, PruneAssumption
<1>2. CASE prune!CleanUp
  <2>1. CASE prune!SameRecord
    <3>1. s9 # None /\ s9 \in prune!Candidate /\ prune!CandidateIsKnown
      BY <1>2 DEF prune!CleanUp, prune!PruneInv
    <3>2. s2.gen = s9.w.gen /\ s9.w.gen \in 1..(MaxMoves + 1)
      BY <2>1, <3>1 DEF prune!SameRecord, prune!CandidateIsKnown, prune!Candidate, prune!Worktree
    <3>3. s1 # None => s1.gen > s9.w.gen /\ s1.gen \in 1..(MaxMoves + 1)
      BY <1>2, <3>1 DEF prune!CleanUp, prune!CandidateIsKnown, prune!PruneInv, prune!TypeOK,
        prune!Worktree
    <3>4. QED BY <3>2, <3>3 DEF Assumption, PruneAssumption
  <2>2. CASE ~prune!SameRecord BY <1>2, <2>2 DEF prune!CleanUp
  <2>3. QED BY <2>1, <2>2
<1>3. QED
  BY <1>1, <1>2 DEF prune!Next, prune!UserChanges, prune!UserReplaces, prune!OpenOrMergeRequest,
    prune!OpenOrEndSession, prune!Inspect, prune!Evaluate, prune!providerFailure,
    prune!InspectDirty, prune!Confirm, prune!Guard, prune!CheckConditions, prune!GitRemoves,
    prune!world

\* What a prune takes was at the head of a merged request of its own upstream, its
\* local changes go with the user's consent only and no session of it runs (the
\* provider's verdict and the conditions of runPruneMerged); a later import keeps
\* its record (RemoveIfMatch).
THEOREM PruneStaysSafe == ASSUME Assumption PROVE ServicesSpec => PruneIsSafe
<1> DEFINE Inv == focus = "prune" => prune!PruneInv
<1>1. ServicesInit => Inv BY InitPrune DEF ServicesInit
<1>2. Inv /\ [ServicesNext]_services => Inv'
  BY NextPrune DEF ServicesNext, services, slots, prune!vars, prune!world, prune!command
<1>3. Inv => (focus = "prune" => prune!OnlyMergedWorkIsLost) BY DEF prune!PruneInv
<1>4. Inv /\ [ServicesNext]_services => [focus = "prune" =>
    prune!LaterImportsKeepTheirRecord]_services
  BY PruneSteps DEF ServicesNext, services, slots
<1>5. QED BY <1>1, <1>2, <1>3, <1>4, PTL DEF ServicesSpec, PruneIsSafe

-----------------------------------------------------------------------------
(* FleetSync, for any machines, spellings and publishers.  FleetInv is      *)
(* inductive: a manifest on its way, in a request, in the file about to be *)
(* renamed or in the store, is what its publisher observed, and a hub file *)
(* in which a host of another name or platform took a host_id over warns   *)
(* of it.                                                                  *)

\* Nothing is published at first.
LEMMA InitFleet == ASSUME Assumption, fleet!Init PROVE fleet!FleetInv
<1>1. \A p \in Publishers : s2[p].rows = {} /\ fleet!IsBuild(s2[p])
  BY DEF fleet!Init, fleet!EmptyManifest, fleet!IsBuild
<1>2. DOMAIN s4.hosts = {} BY DEF fleet!Init
<1>3. QED BY <1>1, <1>2 DEF fleet!Init, fleet!FleetInv, fleet!WasSeen, fleet!Filed

\* What was there once was there once.
LEMMA SeenStays ==
    ASSUME NEW m \in DOMAIN s8, s8[m] \subseteq s8'[m], NEW rows, fleet!WasSeen(m, rows)
    PROVE  fleet!WasSeen(m, rows)'
BY DEF fleet!WasSeen, fleet!SpelledAt

\* What people change on a machine is in no manifest yet.
LEMMA MoveStep ==
    ASSUME Assumption, fleet!FleetInv, NEW m \in Machines, NEW now, fleet!Move(m, now)
    PROVE  fleet!FleetInv'
<1>1. /\ UNCHANGED <<s2, s3, s4, s5>>
      /\ s1' = [s1 EXCEPT ![m] = now] /\ s8' = [s8 EXCEPT ![m] = @ \cup {now}]
  BY DEF fleet!Move
<1>2. DOMAIN s1 = Machines /\ DOMAIN s8 = Machines BY DEF fleet!FleetInv
<1>3. DOMAIN s1' = Machines /\ DOMAIN s8' = Machines /\ \A k \in Machines : s8[k] \subseteq s8'[k]
  BY <1>1, <1>2
<1>4. \A k \in Machines : \A rows : fleet!WasSeen(k, rows) => fleet!WasSeen(k, rows)'
  BY <1>2, <1>3, SeenStays
<1>5. \A k \in Machines : s1'[k] \in s8'[k] BY <1>1, <1>2 DEF fleet!FleetInv
<1>6. \A p \in Publishers : fleet!IsBuild(s2[p])' /\ fleet!WasSeen(MachineOf[p], s2[p].rows)'
  BY <1>1, <1>4 DEF fleet!FleetInv, Assumption, FleetAssumption, fleet!IsBuild
<1>7. \A k : fleet!Manifest(k) => fleet!Manifest(k)' BY <1>4 DEF fleet!Manifest
<1>8. \A k \in s3' : fleet!Manifest(k)' BY <1>1, <1>7 DEF fleet!FleetInv
<1>9. fleet!Filed(s4.hosts)' BY <1>1, <1>7 DEF fleet!FleetInv, fleet!Filed
<1>10. s5' # NoFile => fleet!Warns(s5)' /\ fleet!Filed(s5.hosts)'
  BY <1>1, <1>7 DEF fleet!FleetInv, fleet!Warns, fleet!Filed
<1>11. QED BY <1>1, <1>3, <1>5, <1>6, <1>8, <1>9, <1>10 DEF fleet!FleetInv

\* What a listing adds is there now, and no path that has been listed.
LEMMA ObservedIsSeen ==
    ASSUME NEW m \in Machines, s1[m] \in s8[m], NEW rows, fleet!WasSeen(m, rows),
           NEW paths, NEW spellings,
           \A x \in paths : spellings[x] \in fleet!SpelledAt(m, x)
    PROVE  fleet!WasSeen(m, fleet!Observed(m, rows, paths, spellings))
<1> DEFINE new == {[path |-> x, spelling |-> spellings[x], ref |-> s1[m][x]] :
                     x \in (paths \cap DOMAIN s1[m]) \ fleet!SeenPaths(rows)}
<1>1. fleet!Observed(m, rows, paths, spellings) = rows \cup new BY DEF fleet!Observed
<1>2. \A r \in new : /\ r.path \notin fleet!SeenPaths(rows) /\ r.path \in DOMAIN s1[m]
                     /\ s1[m][r.path] = r.ref /\ r.spelling \in fleet!SpelledAt(m, r.path)
  OBVIOUS
<1>3. \A r, s \in new : r.path = s.path => r = s OBVIOUS
<1>4. \A r \in rows : r.path \in fleet!SeenPaths(rows) BY DEF fleet!SeenPaths
<1> HIDE DEF new
<1>5. QED BY <1>1, <1>2, <1>3, <1>4 DEF fleet!WasSeen

\* A publisher builds its manifest from what it observes.
LEMMA BuildStep ==
    ASSUME Assumption, fleet!FleetInv, NEW p \in Publishers,
           fleet!BeginBuild(p) \/ fleet!ListProject(p) \/ fleet!DiscoverGlobal(p)
             \/ fleet!BuildFails(p) \/ fleet!Publish(p)
    PROVE  fleet!FleetInv'
<1> DEFINE m == MachineOf[p]
<1>1. UNCHANGED <<s1, s4, s5, s8>> /\ DOMAIN s2 = Publishers
  BY DEF fleet!FleetInv, fleet!BeginBuild, fleet!ListProject, fleet!DiscoverGlobal,
    fleet!BuildFails, fleet!Publish
<1>2. m \in Machines /\ s1[m] \in s8[m] /\ fleet!WasSeen(m, s2[p].rows)
      /\ s2[p] = [pc |-> s2[p].pc, next |-> s2[p].next, rows |-> s2[p].rows, at |-> s2[p].at]
      /\ s2[p].next \in Nat \ {0}
  BY DEF fleet!FleetInv, Assumption, FleetAssumption, fleet!IsBuild
<1>3. fleet!WasSeen(m, {}) BY DEF fleet!WasSeen
<1>4. DOMAIN s2' = Publishers /\ \A q \in Publishers \ {p} : s2'[q] = s2[q]
  BY <1>1 DEF fleet!BeginBuild, fleet!ListProject, fleet!DiscoverGlobal, fleet!BuildFails,
    fleet!Publish
<1>5. fleet!WasSeen(m, s2'[p].rows)
  <2>1. CASE fleet!BeginBuild(p)
    <3>1. s2'[p].rows = s2[p].rows BY <1>1, <1>2, <2>1 DEF fleet!BeginBuild
    <3>2. QED BY <1>2, <3>1
  <2>2. CASE fleet!ListProject(p)
    <3> DEFINE seen == fleet!Observed(m, s2[p].rows, Configured[m][s2[p].next].paths,
                 [x \in Configured[m][s2[p].next].paths |-> Configured[m][s2[p].next].spelling])
    <3>a. PICK listed \in BOOLEAN :
            s2' = [s2 EXCEPT ![p].next = s2[p].next + 1,
                ![p].rows = IF listed THEN seen ELSE s2[p].rows]
      BY <2>2 DEF fleet!ListProject
    <3> HIDE DEF seen
    <3>1. s2'[p].rows = s2[p].rows \/ s2'[p].rows = seen BY <1>1, <1>2, <3>a
    <3>2. fleet!WasSeen(m, fleet!Observed(m, s2[p].rows, Configured[m][s2[p].next].paths,
                 [x \in Configured[m][s2[p].next].paths |-> Configured[m][s2[p].next].spelling]))
      <4>1. s2[p].next \in 1..Len(Configured[m])
        <5>1. Len(Configured[m]) \in Nat BY <1>2 DEF Assumption, FleetAssumption
        <5>2. s2[p].next <= Len(Configured[m]) BY <2>2 DEF fleet!ListProject
        <5>3. QED BY <1>2, <5>1, <5>2
      <4>2. \A x \in Configured[m][s2[p].next].paths :
               Configured[m][s2[p].next].spelling \in fleet!SpelledAt(m, x)
        BY <4>1 DEF fleet!SpelledAt
      <4>3. QED BY <1>2, <4>2, ObservedIsSeen
    <3>3. QED BY <1>2, <3>1, <3>2 DEF seen
  <2>3. CASE fleet!DiscoverGlobal(p)
    <3>1. s2'[p].rows = fleet!Observed(m, s2[p].rows, DOMAIN Discovered[m], Discovered[m])
      BY <1>1, <1>2, <2>3 DEF fleet!DiscoverGlobal
    <3>2. \A x \in DOMAIN Discovered[m] : Discovered[m][x] \in fleet!SpelledAt(m, x)
      BY DEF fleet!SpelledAt
    <3>3. QED BY <1>2, <3>1, <3>2, ObservedIsSeen
  <2>4. CASE fleet!BuildFails(p) \/ fleet!Publish(p)
    <3>1. s2'[p].rows = {} BY <1>1, <2>4 DEF fleet!BuildFails, fleet!Publish, fleet!EmptyManifest
    <3>2. QED BY <1>3, <3>1
  <2>5. QED BY <2>1, <2>2, <2>3, <2>4
<1>b. fleet!IsBuild(s2'[p])
  <2> USE DEF fleet!IsBuild
  <2>1. CASE fleet!BeginBuild(p) BY <1>1, <1>2, <2>1 DEF fleet!BeginBuild
  <2>2. CASE fleet!ListProject(p)
    <3>1. \E rows : s2'[p] = [s2[p] EXCEPT !.next = s2[p].next + 1, !.rows = rows]
      BY <1>1, <1>2, <2>2 DEF fleet!ListProject
    <3>2. s2[p].next + 1 \in Nat \ {0} BY <1>2
    <3>3. QED BY <1>2, <3>1, <3>2
  <2>3. CASE fleet!DiscoverGlobal(p)
    <3>1. \E rows : s2'[p] = [s2[p] EXCEPT !.pc = "ready", !.rows = rows]
      BY <1>1, <1>2, <2>3 DEF fleet!DiscoverGlobal
    <3>2. QED BY <1>2, <3>1
  <2>4. CASE fleet!BuildFails(p) \/ fleet!Publish(p)
    <3>1. s2'[p] = [fleet!EmptyManifest(p) EXCEPT !.pc = "done"]
      BY <1>1, <2>4 DEF fleet!BuildFails, fleet!Publish
    <3>2. s2'[p] = [pc |-> "done", next |-> 1, rows |-> {}, at |-> 0]
      BY <3>1 DEF fleet!EmptyManifest
    <3>3. QED BY <3>2
  <2>5. QED BY <2>1, <2>2, <2>3, <2>4
<1>6. \A q \in Publishers : fleet!IsBuild(s2[q])' /\ fleet!WasSeen(MachineOf[q], s2[q].rows)'
  BY <1>1, <1>4, <1>5, <1>b DEF fleet!FleetInv, fleet!WasSeen, fleet!IsBuild
<1>7. \A k \in s3' : fleet!Manifest(k)
  <2>1. \/ s3' = s3
        \/ \E info \in InfosOf[m] :
              s3' = s3 \cup {[host |-> HostOf[m], info |-> info, machine |-> m, by |-> p,
                               rows |-> s2[p].rows, at |-> s2[p].at]}
    BY DEF fleet!BeginBuild, fleet!ListProject, fleet!DiscoverGlobal, fleet!BuildFails,
      fleet!Publish
  <2>2. QED BY <1>2, <2>1 DEF fleet!FleetInv, fleet!Manifest
<1>8. \A k : fleet!Manifest(k)' <=> fleet!Manifest(k)
  BY <1>1 DEF fleet!Manifest, fleet!WasSeen, fleet!SpelledAt
<1>9. QED BY <1>1, <1>4, <1>6, <1>7, <1>8 DEF fleet!FleetInv, fleet!Warns, fleet!Filed

\* The hub merges a request into its file.
LEMMA HubStep ==
    ASSUME Assumption, fleet!FleetInv,
           (\E m \in s3 : fleet!PutBegin(m)) \/ (\E id \in fleet!HostIDs : fleet!DeleteBegin(id))
             \/ fleet!Rename \/ fleet!HubFails
    PROVE  fleet!FleetInv'
<1>1. UNCHANGED <<s1, s2, s8>> /\ s3' \subseteq s3
  BY DEF fleet!PutBegin, fleet!DeleteBegin, fleet!Rename, fleet!HubFails
<1>2. \A k : fleet!Manifest(k)' <=> fleet!Manifest(k)
  BY <1>1 DEF fleet!Manifest, fleet!WasSeen, fleet!SpelledAt
<1>3. \A p \in Publishers : fleet!IsBuild(s2[p])' /\ fleet!WasSeen(MachineOf[p], s2[p].rows)'
  BY <1>1 DEF fleet!FleetInv, fleet!WasSeen, fleet!SpelledAt, fleet!IsBuild
<1>4. \A k \in s3' : fleet!Manifest(k)' BY <1>1, <1>2 DEF fleet!FleetInv
<1>5. fleet!Filed(s4'.hosts)
  BY DEF fleet!PutBegin, fleet!DeleteBegin, fleet!Rename, fleet!HubFails, fleet!FleetInv
<1>6. s5' # NoFile => fleet!Warns(s5)' /\ fleet!Filed(s5'.hosts)
  <2>1. CASE \E m \in s3 : fleet!PutBegin(m)
    <3>1. PICK m \in s3 : fleet!PutBegin(m) BY <2>1
    <3>2. /\ s4' = s4
          /\ s5'.hosts = [h \in DOMAIN s4.hosts \cup
              {m.host} |-> IF h = m.host THEN m ELSE s4.hosts[h]]
          /\ s5'.warned = IF fleet!Collides(m) THEN s4.warned \cup {m.host} ELSE s4.warned
      BY <3>1 DEF fleet!PutBegin
    <3>3. fleet!Warns(s5)' BY <3>2 DEF fleet!Warns, fleet!Collides
    <3>4. QED BY <3>2, <3>3 DEF fleet!FleetInv, fleet!Filed
  <2>2. CASE \E id \in fleet!HostIDs : fleet!DeleteBegin(id)
    <3>1. PICK id \in fleet!HostIDs : fleet!DeleteBegin(id) BY <2>2
    <3>2. /\ s4' = s4
          /\ s5'.hosts = [h \in DOMAIN s4.hosts \ {id} |-> s4.hosts[h]]
          /\ s5'.warned = s4.warned \ {id}
      BY <3>1 DEF fleet!DeleteBegin
    <3>3. fleet!Warns(s5)' BY <3>2 DEF fleet!Warns
    <3>4. QED BY <3>2, <3>3 DEF fleet!FleetInv, fleet!Filed
  <2>3. CASE fleet!Rename BY <2>3 DEF fleet!Rename
  <2>4. CASE fleet!HubFails BY <2>4 DEF fleet!HubFails, fleet!FleetInv, fleet!Warns
  <2>5. QED BY <2>1, <2>2, <2>3, <2>4
<1>7. \A hosts : fleet!Filed(hosts)' <=> fleet!Filed(hosts) BY <1>2 DEF fleet!Filed
<1>8. QED BY <1>1, <1>2, <1>3, <1>4, <1>5, <1>6, <1>7 DEF fleet!FleetInv

\* FleetInv is inductive.
LEMMA NextFleet ==
    ASSUME Assumption, fleet!FleetInv, [fleet!Next]_(fleet!vars)
    PROVE  fleet!FleetInv'
<1>1. CASE \E m \in Machines : \E x \in fleet!Paths(m) :
              fleet!RemoveWorktree(m, x) \/ \E r \in Refs : fleet!CreateWorktree(m, x, r)
  BY <1>1, MoveStep DEF fleet!RemoveWorktree, fleet!CreateWorktree
<1>2. CASE UNCHANGED fleet!vars
  <2>1. UNCHANGED <<s1, s2, s3, s4, s5, s8>> BY <1>2 DEF fleet!vars
  <2>2. \A k : \A rows : fleet!WasSeen(k, rows)' <=> fleet!WasSeen(k, rows)
    BY <2>1 DEF fleet!WasSeen, fleet!SpelledAt
  <2>3. \A k : fleet!Manifest(k)' <=> fleet!Manifest(k) BY <2>2 DEF fleet!Manifest
  <2>4. \A hosts : fleet!Filed(hosts)' <=> fleet!Filed(hosts) BY <2>3 DEF fleet!Filed
  <2>5. \A new : fleet!Warns(new)' <=> fleet!Warns(new) BY <2>1 DEF fleet!Warns
  <2>6. QED BY <2>1, <2>2, <2>3, <2>4, <2>5 DEF fleet!FleetInv, fleet!IsBuild
<1>3. QED BY <1>1, <1>2, BuildStep, HubStep DEF fleet!Next

\* What a manifest in the store has was once on disk under the same key.
LEMMA StoredWasHad ==
    ASSUME fleet!FleetInv, NEW o \in fleet!Observations
    PROVE  fleet!Had(o.host, fleet!FleetKey(o.row.spelling, o.row.ref))
<1>1. PICK h \in DOMAIN s4.hosts : \E r \in s4.hosts[h].rows : o = [host |-> h, row |-> r]
  BY DEF fleet!Observations
<1>2. PICK r \in s4.hosts[h].rows : o = [host |-> h, row |-> r] BY <1>1
<1>3. PICK n \in Machines : n = s4.hosts[h].machine /\ HostOf[n] = h
  BY DEF fleet!FleetInv, fleet!Filed, fleet!Manifest
<1>4. r.spelling \in fleet!SpelledAt(n, r.path)
      /\ \E was \in s8[n] : r.path \in DOMAIN was /\ was[r.path] = r.ref
  BY <1>2, <1>3 DEF fleet!FleetInv, fleet!Filed, fleet!Manifest, fleet!WasSeen
<1>5. PICK was \in s8[n] : r.path \in DOMAIN was /\ was[r.path] = r.ref BY <1>4
<1>6. fleet!FleetKey(r.spelling, r.ref) \in fleet!LocalKeys(n, was)
  BY <1>4, <1>5 DEF fleet!LocalKeys
<1>7. o.host = h /\ o.row = r BY <1>2
<1>8. QED BY <1>3, <1>5, <1>6, <1>7 DEF fleet!Had

\* The hub groups observations exactly as the dashboard matches rows.
LEMMA ViewIsTrue == fleet!FleetInv => fleet!DashboardShowsTheFleet
<1> SUFFICES ASSUME fleet!FleetInv, NEW m \in Machines, NEW was \in s8[m]
             PROVE  /\ \A v, w \in fleet!FleetView(m, was) : v.key = w.key => v = w
                    /\ \A o \in fleet!Observations : o.host # HostOf[m] =>
                         \E v \in fleet!FleetView(m, was) :
                            v.key = fleet!FleetKey(o.row.spelling, o.row.ref) /\ o.host \in v.hosts
                    /\ \A v \in fleet!FleetView(m, was) : \A h \in v.hosts : fleet!Had(h, v.key)
  BY DEF fleet!DashboardShowsTheFleet
<1> DEFINE K(o) == fleet!FleetKey(o.row.spelling, o.row.ref)
           G(k) == {o \in fleet!Observations : K(o) = k}
           V(k) == [key |-> k, local |-> k \in fleet!LocalKeys(m, was),
                    hosts |-> {o.host : o \in G(k)} \ {HostOf[m]}]
<1>1. \A o : fleet!RowKey(o.row) = K(o) BY DEF fleet!RowKey, fleet!FleetKey
<1>2. fleet!FleetRows = {G(k) : k \in {K(o) : o \in fleet!Observations}}
  <2>1. \A k : {o \in fleet!Observations : fleet!RowKey(o.row) = k} = G(k) BY <1>1
  <2>2. {fleet!RowKey(o.row) : o \in fleet!Observations} = {K(o) : o \in fleet!Observations} BY <1>1
  <2> HIDE DEF G, K
  <2>3. QED BY <2>1, <2>2 DEF fleet!FleetRows
<1>3. \A o \in fleet!Observations : fleet!MergedRow(m, was, G(K(o)), o) = V(K(o))
  BY DEF fleet!MergedRow, fleet!OtherHosts
<1>4. \A v \in fleet!FleetView(m, was) : v = V(v.key)
  <2> SUFFICES ASSUME NEW v \in fleet!FleetView(m, was) PROVE v = V(v.key)
    OBVIOUS
  <2>1. PICK row \in fleet!FleetRows : \E first \in row : v = fleet!MergedRow(m, was, row, first)
    BY DEF fleet!FleetView
  <2>2. PICK first \in row : v = fleet!MergedRow(m, was, row, first) BY <2>1
  <2>3. first \in fleet!Observations /\ row = G(K(first)) BY <1>2
  <2>4. v = V(K(first)) BY <1>3, <2>2, <2>3
  <2>5. v.key = K(first) BY <2>4
  <2>6. QED BY <2>4, <2>5
<1>5. ASSUME NEW o \in fleet!Observations, o.host # HostOf[m]
      PROVE  \E v \in fleet!FleetView(m, was) : v.key = K(o) /\ o.host \in v.hosts
  <2>1. o \in G(K(o)) /\ G(K(o)) \in fleet!FleetRows BY <1>2
  <2>2. V(K(o)).hosts = {x.host : x \in G(K(o))} \ {HostOf[m]} /\ V(K(o)).key = K(o) OBVIOUS
  <2>3. o.host \in V(K(o)).hosts BY <1>5, <2>1, <2>2
  <2>4. V(K(o)) = fleet!MergedRow(m, was, G(K(o)), o) BY <1>3
  <2> HIDE DEF V, G
  <2>5. V(K(o)) \in fleet!FleetView(m, was) BY <2>1, <2>3, <2>4 DEF fleet!FleetView
  <2>6. QED BY <2>2, <2>3, <2>5
<1>6. ASSUME NEW v \in fleet!FleetView(m, was), NEW h \in v.hosts PROVE fleet!Had(h, v.key)
  <2>1. v.hosts = {x.host : x \in G(v.key)} \ {HostOf[m]} BY <1>4
  <2>2. PICK x \in G(v.key) : x.host = h BY <2>1, <1>6
  <2>3. x \in fleet!Observations /\ K(x) = v.key BY <2>2
  <2>4. fleet!Had(x.host, fleet!FleetKey(x.row.spelling, x.row.ref)) BY <2>3, StoredWasHad
  <2>5. fleet!FleetKey(x.row.spelling, x.row.ref) = v.key BY <2>3
  <2> HIDE DEF K, G, V
  <2>6. fleet!Had(x.host, v.key) BY <2>4, <2>5
  <2>7. QED BY <2>2, <2>6
<1>7. \A v, w \in fleet!FleetView(m, was) : v.key = w.key => v = w
  <2> HIDE DEF V
  <2>1. QED BY <1>4
<1>8. \A o \in fleet!Observations : o.host # HostOf[m] =>
         \E v \in fleet!FleetView(m, was) :
            v.key = fleet!FleetKey(o.row.spelling, o.row.ref) /\ o.host \in v.hosts
  BY <1>5
<1>9. QED BY <1>6, <1>7, <1>8

\* A file is replaced by one that was built to replace it.
LEMMA FleetSteps ==
    ASSUME Assumption, fleet!FleetInv, fleet!Next
    PROVE  fleet!CollisionsAreFlagged
<1>1. CASE fleet!Rename
  BY <1>1 DEF fleet!Rename, fleet!FleetInv, fleet!Warns, fleet!CollisionsAreFlagged
<1>2. CASE s4' = s4 BY <1>2 DEF fleet!CollisionsAreFlagged
<1>3. QED BY <1>1, <1>2 DEF fleet!Next, fleet!RemoveWorktree, fleet!CreateWorktree, fleet!Move,
  fleet!BeginBuild, fleet!ListProject, fleet!DiscoverGlobal, fleet!BuildFails, fleet!Publish,
  fleet!PutBegin, fleet!DeleteBegin, fleet!HubFails

\* Every row the hub has was seen by its machine, once (ManifestBuilder); a dashboard
\* shows a branch in one row, with every other host whose manifest has it and with
\* none that never had it (buildFleetState, mergeFleetRows); and a manifest that
\* replaces one of another name or platform is warned of (Store.Put).
THEOREM FleetStaysTrue == ASSUME Assumption PROVE ServicesSpec => FleetIsTrue
<1> DEFINE Inv == focus = "fleet" => fleet!FleetInv
<1>1. ServicesInit => Inv BY InitFleet DEF ServicesInit
<1>2. Inv /\ [ServicesNext]_services => Inv'
  BY NextFleet DEF ServicesNext, services, slots, fleet!vars
<1>3. Inv => (focus = "fleet" => fleet!ManifestsAreObserved /\ fleet!DashboardShowsTheFleet)
  BY ViewIsTrue DEF fleet!FleetInv, fleet!Filed, fleet!Manifest, fleet!WasSeen,
    fleet!ManifestsAreObserved
<1>4. Inv /\ [ServicesNext]_services => [focus = "fleet" => fleet!CollisionsAreFlagged]_services
  BY FleetSteps DEF ServicesNext, services, slots
<1>5. QED BY <1>1, <1>2, <1>3, <1>4, PTL DEF ServicesSpec, FleetIsTrue

-----------------------------------------------------------------------------
(* WarmSpare, for any processes, which may run each of the five programs,  *)
(* and any bounds.  WarmInv is inductive: a process knows something        *)
(* about the path wherever it stands (Knows), and keeps what the others    *)
(* know (Keeps, OtherKnows): it has the pool lock or the repository lock,  *)
(* or it finds the native lock of the registration.  As long as nobody     *)
(* else touched the path a spare is as its marker says (SpareIsUsable).    *)

\* What one process does, and how it dies.
Dies(p) == warm!End(p) /\ UNCHANGED <<s1, s2, s7, s8, s9, s10, s11>>
WarmStep(p) ==
    \/ warm!PrepareWarm(p) \/ warm!InspectSpare(p) \/ warm!CreateSpare(p) \/ warm!MarkPreparing(p)
    \/ warm!LockSpare(p) \/ warm!StartReset(p) \/ warm!FinishReset(p) \/ warm!UnlockSpare(p)
    \/ warm!MarkReady(p)
    \/ warm!ClaimWarm(p) \/ warm!CheckoutClaim(p) \/ warm!MoveClaim(p) \/ warm!DiscardClaim(p)
    \/ warm!Recover(p) \/ warm!MakeDirectory(p) \/ warm!WriteBacklink(p) \/ warm!RestoreFiles(p)
    \/ warm!PruneRegistration(p) \/ warm!PruneStale(p)
    \/ warm!Quarantine(p) \/ warm!RenameAway(p)
    \/ Dies(p)

Locks == {"none", "own", "other"}
Markers == {"none", "preparing", "ready"}
RegIs(r) == /\ r \in [id : 0..MaxMade, lock : Locks, marker : Markers, identity : BOOLEAN,
                      attached : BOOLEAN, indexLock : BOOLEAN]
            /\ r.id = 0 => r = warm!NoReg
TreeIs(t) == /\ t \in [id : 0..MaxMade, files : {"missing", "bare", "partial", "full", "edited",
                 "stray"}]
             /\ t.id = 0 <=> t.files = "missing"
Labels == {"idle", "inspect", "create", "mark", "lock", "queue", "reset", "filling",
           "recheck", "ready", "check", "checkout", "move", "discard", "mkdir",
           "link", "fill", "rename", "prune"}

\* The registration and the directory that are not there.
LEMMA NothingThere == /\ warm!NoReg.id = 0 /\ warm!NoReg.lock = "none" /\ warm!NoReg.marker = "none"
                      /\ ~warm!NoReg.identity /\ ~warm!NoReg.attached /\ ~warm!NoReg.indexLock
                      /\ warm!NoTree.id = 0 /\ warm!NoTree.files = "missing"
BY DEF warm!NoReg, warm!NoTree, warm!Registration

\* They are of the types.
LEMMA NothingIs == ASSUME Assumption PROVE RegIs(warm!NoReg) /\ TreeIs(warm!NoTree)
  BY DEF Assumption, WarmAssumption, RegIs, TreeIs, Locks, Markers, warm!NoReg,
    warm!NoTree, warm!Registration

\* What TypeOK says of a registration, in one form.
LEMMA RegForms ==
    ASSUME Assumption, NEW r
    PROVE  RegIs(r) <=> r = warm!NoReg \/ r \in [id : 1..MaxMade, lock : Locks, marker : Markers,
        identity : BOOLEAN,
                                                 attached : BOOLEAN, indexLock : BOOLEAN]
<1>1. r = warm!NoReg => RegIs(r)
  BY DEF Assumption, WarmAssumption, RegIs, Locks, Markers, warm!NoReg, warm!Registration
<1>2. r \in [id : 1..MaxMade, lock : Locks, marker : Markers, identity : BOOLEAN,
             attached : BOOLEAN, indexLock : BOOLEAN] => RegIs(r)
  BY DEF Assumption, WarmAssumption, RegIs
<1>3. QED BY <1>1, <1>2 DEF Assumption, WarmAssumption, RegIs

\* And of a directory.
LEMMA TreeForms ==
    ASSUME Assumption, NEW t
    PROVE  TreeIs(t) <=> t = warm!NoTree \/ t \in [id : 1..MaxMade, files : warm!Filled \cup
        {"stray"}]
<1>1. t = warm!NoTree => TreeIs(t) BY DEF Assumption, WarmAssumption, TreeIs, warm!NoTree
<1>2. t \in [id : 1..MaxMade, files : warm!Filled \cup {"stray"}] => TreeIs(t)
  BY DEF Assumption, WarmAssumption, TreeIs, warm!Filled
<1>3. TreeIs(t) /\ t.id = 0 => t = warm!NoTree BY DEF TreeIs, warm!NoTree
<1>4. TreeIs(t) /\ t.id # 0 => t \in [id : 1..MaxMade, files : warm!Filled \cup {"stray"}]
  BY DEF Assumption, WarmAssumption, TreeIs, warm!Filled
<1>5. QED BY <1>1, <1>2, <1>3, <1>4

\* TypeOK in this form.
LEMMA WarmTypes ==
    ASSUME Assumption
    PROVE  warm!TypeOK <=> /\ RegIs(s1) /\ TreeIs(s2)
                           /\ {s3, s4} \subseteq warm!Workers \cup {Nobody}
                           /\ s5 \in [warm!Workers -> Labels] /\ s6 \in [warm!Workers -> 0..MaxMade]
                           /\ s10 \in 0..MaxMade
BY RegForms, TreeForms DEF warm!TypeOK, Labels, Locks, Markers

\* And in the next state.
LEMMA WarmTypesNext ==
    ASSUME Assumption
    PROVE  warm!TypeOK' <=> /\ RegIs(s1') /\ TreeIs(s2')
                           /\ {s3', s4'} \subseteq warm!Workers \cup {Nobody}
                           /\ s5' \in [warm!Workers -> Labels] /\
                               s6' \in [warm!Workers -> 0..MaxMade]
                           /\ s10' \in 0..MaxMade
BY RegForms, TreeForms DEF warm!TypeOK, Labels, Locks, Markers

\* A registration has a number.
LEMMA IdIs == ASSUME RegIs(s1), Assumption PROVE s1.id \in 0..MaxMade
  BY DEF RegIs

\* A live checkout has both.
LEMMA LiveIs == ASSUME RegIs(s1), warm!live PROVE s1.id # 0 /\ s2.files \in {"bare", "partial",
       "full", "edited"}
  BY DEF warm!live, warm!Filled, RegIs

\* What a preparation or a claim remembers is a registration.
LEMMA HeldIs ==
    ASSUME warm!TypeOK, warm!WarmInv, NEW p \in warm!Workers,
           s5[p] \in {"mark", "lock", "reset", "filling", "recheck", "ready", "checkout", "move",
               "discard"}
    PROVE  s6[p] # 0
<1>1. warm!Knows(p) /\ s8 \subseteq {"spare", "made", "quarantined"} \X (1..s10)
  BY DEF warm!WarmInv, warm!Numbered
<1>2. s6[p] # 0
  <2>1. CASE s5[p] \in {"checkout", "move", "discard"} BY <1>1, <2>1 DEF warm!Knows, warm!OfClaim
  <2>2. CASE s5[p] \notin {"checkout", "move", "discard"}
    <3>1. <<"spare", s6[p]>> \in s8 BY <1>1, <2>2 DEF warm!Knows, warm!Preparing
    <3>2. s6[p] \in 1..s10 BY <1>1, <3>1
    <3>3. QED BY <3>2
  <2>3. QED BY <2>1, <2>2
<1>3. QED BY <1>2

\* A number that is left is a number.
LEMMA NumbersLeft == ASSUME warm!TypeOK, Assumption, s10 < MaxMade PROVE s10 + 1 \in
       1..MaxMade /\ s10 + 1 \in 0..MaxMade
  BY DEF warm!TypeOK, Assumption, WarmAssumption

\* How a process's own state and the two locks move: it ends, or it goes on.
Moves(p) ==
    \/ warm!End(p)
    \/ /\ \E l \in Labels : warm!Goto(p, l)
       /\ s6' = s6 \/ \E n \in 0..MaxMade : s6' = [s6 EXCEPT ![p] = n]
       /\ s3' = s3 \/ (s3 = Nobody /\ s3' = p)
       /\ s4' = s4 \/ (s4 = Nobody /\ s4' = p) \/ (s4 = p /\ s4' = Nobody)

\* What a move leaves alone.
LEMMA MovesFrame ==
    ASSUME Assumption, warm!TypeOK, NEW p \in warm!Workers, Moves(p)
    PROVE  /\ s5' \in [warm!Workers -> Labels] /\ \A q \in warm!Workers \ {p} : s5'[q] = s5[q]
           /\ s6' \in [warm!Workers -> 0..MaxMade] /\ \A q \in warm!Workers \ {p} : s6'[q] = s6[q]
           /\ s3' \in {s3, p, Nobody} /\ (s3' = p => s3 \in {p, Nobody}) /\ (s3' = Nobody =>
               s3 \in {p, Nobody})
           /\ s4' \in {s4, p, Nobody} /\ (s4' = p => s4 \in {p, Nobody}) /\ (s4' = Nobody =>
               s4 \in {p, Nobody})
<1>1. s5 \in [warm!Workers -> Labels] /\ s6 \in [warm!Workers -> 0..MaxMade] BY WarmTypes
<1>2. CASE warm!End(p)
  <2>1. s5' = [s5 EXCEPT ![p] = "idle"] /\ s6' = [s6 EXCEPT ![p] = 0]
    BY <1>2 DEF warm!End, warm!Goto
  <2>2. "idle" \in Labels BY DEF Labels
  <2>3. 0 \in 0..MaxMade BY DEF Assumption, WarmAssumption
  <2>4. s3' \in {s3, Nobody} /\ (s3' # s3 => s3 = p) /\ s4' \in {s4, Nobody} /\ (s4' # s4 => s4 = p)
    BY <1>2 DEF warm!End, warm!Release
  <2>5. QED BY <1>1, <2>1, <2>2, <2>3, <2>4
<1>3. CASE ~warm!End(p)
  <2>1. PICK l \in Labels : s5' = [s5 EXCEPT ![p] = l] BY <1>3 DEF Moves, warm!Goto
  <2>2. s5' \in [warm!Workers -> Labels] /\ \A q \in warm!Workers \ {p} : s5'[q] = s5[q]
    BY <1>1, <2>1
  <2>3. s6' \in [warm!Workers -> 0..MaxMade] /\ \A q \in warm!Workers \ {p} : s6'[q] = s6[q]
    BY <1>1, <1>3 DEF Moves
  <2>4. QED BY <1>3, <2>2, <2>3 DEF Moves
<1>4. QED BY <1>2, <1>3

\* A step of one process leaves the others where they are.
LEMMA StepFrame ==
    ASSUME Assumption, warm!TypeOK, warm!WarmInv, NEW p \in warm!Workers, WarmStep(p)
    PROVE  /\ s5' \in [warm!Workers -> Labels] /\ \A q \in warm!Workers \ {p} : s5'[q] = s5[q]
           /\ s6' \in [warm!Workers -> 0..MaxMade] /\ \A q \in warm!Workers \ {p} : s6'[q] = s6[q]
           /\ s3' \in {s3, p, Nobody} /\ (s3' = p => s3 \in {p, Nobody}) /\ (s3' = Nobody =>
               s3 \in {p, Nobody})
           /\ s4' \in {s4, p, Nobody} /\ (s4' = p => s4 \in {p, Nobody}) /\ (s4' = Nobody =>
               s4 \in {p, Nobody})
           /\ s11' = s11
<1> SUFFICES Moves(p) /\ s11' = s11 BY MovesFrame
<1>a. s1.id \in 0..MaxMade BY WarmTypes, IdIs
<1>b. s10 < MaxMade => s10 + 1 \in 0..MaxMade BY NumbersLeft
<1>c. s5[p] = "lock" => s4 = p BY DEF warm!WarmInv, warm!Knows, warm!InScope
<1> USE DEF Labels, Moves
<1>1. CASE warm!PrepareWarm(p) BY <1>1 DEF warm!PrepareWarm
<1>2. CASE warm!InspectSpare(p) BY <1>2, <1>a DEF warm!InspectSpare
<1>3. CASE warm!CreateSpare(p) BY <1>3, <1>b DEF warm!CreateSpare
<1>4. CASE warm!MarkPreparing(p) BY <1>4 DEF warm!MarkPreparing
<1>5. CASE warm!LockSpare(p) BY <1>5, <1>c DEF warm!LockSpare
<1>6. CASE warm!StartReset(p) BY <1>6 DEF warm!StartReset
<1>7. CASE warm!FinishReset(p) BY <1>7 DEF warm!FinishReset
<1>8. CASE warm!UnlockSpare(p) BY <1>8 DEF warm!UnlockSpare
<1>9. CASE warm!MarkReady(p) BY <1>9 DEF warm!MarkReady
<1>10. CASE warm!ClaimWarm(p) BY <1>10, <1>a DEF warm!ClaimWarm
<1>11. CASE warm!CheckoutClaim(p) BY <1>11 DEF warm!CheckoutClaim
<1>12. CASE warm!MoveClaim(p) BY <1>12 DEF warm!MoveClaim
<1>13. CASE warm!DiscardClaim(p) BY <1>13 DEF warm!DiscardClaim
<1>14. CASE warm!Recover(p) BY <1>14 DEF warm!Recover, warm!CallersOwn
<1>15. CASE warm!MakeDirectory(p) BY <1>15, <1>b DEF warm!MakeDirectory
<1>16. CASE warm!WriteBacklink(p) BY <1>16 DEF warm!WriteBacklink, warm!GiveUp
<1>17. CASE warm!RestoreFiles(p) BY <1>17 DEF warm!RestoreFiles, warm!GiveUp
<1>18. CASE warm!PruneRegistration(p) BY <1>18 DEF warm!PruneRegistration
<1>19. CASE warm!PruneStale(p) BY <1>19 DEF warm!PruneStale
<1>20. CASE warm!Quarantine(p) BY <1>20 DEF warm!Quarantine
<1>21. CASE warm!RenameAway(p) BY <1>21 DEF warm!RenameAway
<1>22. CASE Dies(p) BY <1>22 DEF Dies
<1>99. QED BY <1>1, <1>2, <1>3, <1>4, <1>5, <1>6, <1>7, <1>8, <1>9, <1>10, <1>11, <1>12, <1>13,
  <1>14, <1>15, <1>16, <1>17, <1>18, <1>19, <1>20, <1>21, <1>22 DEF WarmStep

\* What is written to a registration is one.
LEMMA StepRegs ==
    ASSUME Assumption, warm!TypeOK, warm!WarmInv, NEW p \in warm!Workers, WarmStep(p)
    PROVE  RegIs(s1)'
<1> USE WarmTypes, NothingThere DEF RegIs, Locks, Markers
<1>0. RegIs(warm!NoReg) BY NothingIs
<1>1. CASE warm!PrepareWarm(p) BY <1>1, <1>0, HeldIs, LiveIs DEF warm!PrepareWarm
<1>2. CASE warm!InspectSpare(p)
  <2>1. s1' \in {s1, warm!NoReg} \/ (s1' = [s1 EXCEPT !.indexLock = FALSE] /\ warm!live)
    BY <1>2 DEF warm!InspectSpare, warm!warmState
  <2>2. QED BY <2>1, <1>0, LiveIs
<1>3. CASE warm!CreateSpare(p)
  <2>1. s1' = s1 \/ (s1' = [id |-> s10 + 1, lock |-> "own", marker |-> "none", identity |-> FALSE,
                             attached |-> FALSE, indexLock |-> FALSE] /\ s10 < MaxMade)
    BY <1>3 DEF warm!CreateSpare, warm!Registration
  <2>2. \A n \in 1..MaxMade : RegIs([id |-> n, lock |-> "own", marker |-> "none",
      identity |-> FALSE,
                                     attached |-> FALSE, indexLock |-> FALSE])
    BY Assumption DEF Assumption, WarmAssumption
  <2>3. s10 < MaxMade => s10 + 1 \in 1..MaxMade BY NumbersLeft
  <2> HIDE DEF RegIs
  <2>4. QED BY <2>1, <2>2, <2>3
<1>4. CASE warm!MarkPreparing(p) BY <1>4, <1>0, HeldIs, LiveIs DEF warm!MarkPreparing
<1>5. CASE warm!LockSpare(p) BY <1>5, <1>0, HeldIs, LiveIs DEF warm!LockSpare
<1>6. CASE warm!StartReset(p) BY <1>6, <1>0, HeldIs, LiveIs DEF warm!StartReset
<1>7. CASE warm!FinishReset(p) BY <1>7, <1>0, HeldIs, LiveIs DEF warm!FinishReset
<1>8. CASE warm!UnlockSpare(p)
  BY <1>8, <1>0, HeldIs, LiveIs DEF warm!UnlockSpare, warm!warmState, warm!spareState
<1>9. CASE warm!MarkReady(p) BY <1>9, <1>0, HeldIs, LiveIs DEF warm!MarkReady
<1>10. CASE warm!ClaimWarm(p)
  BY <1>10, <1>0, HeldIs, LiveIs DEF warm!ClaimWarm, warm!warmState, warm!spareState, warm!clean
<1>11. CASE warm!CheckoutClaim(p) BY <1>11, <1>0, HeldIs, LiveIs DEF warm!CheckoutClaim
<1>12. CASE warm!MoveClaim(p) BY <1>12, <1>0, HeldIs, LiveIs DEF warm!MoveClaim
<1>13. CASE warm!DiscardClaim(p) BY <1>13, <1>0, HeldIs, LiveIs DEF warm!DiscardClaim
<1>14. CASE warm!Recover(p) BY <1>14, <1>0, HeldIs, LiveIs DEF warm!Recover, warm!CallersOwn
<1>15. CASE warm!MakeDirectory(p) BY <1>15, <1>0, HeldIs, LiveIs DEF warm!MakeDirectory
<1>16. CASE warm!WriteBacklink(p)
  BY <1>16, <1>0, HeldIs, LiveIs DEF warm!WriteBacklink, warm!GiveUp
<1>17. CASE warm!RestoreFiles(p) BY <1>17, <1>0, HeldIs, LiveIs DEF warm!RestoreFiles, warm!GiveUp
<1>18. CASE warm!PruneRegistration(p) BY <1>18, <1>0, HeldIs, LiveIs DEF warm!PruneRegistration
<1>19. CASE warm!PruneStale(p) BY <1>19, <1>0, HeldIs, LiveIs DEF warm!PruneStale
<1>20. CASE warm!Quarantine(p) BY <1>20, <1>0, HeldIs, LiveIs DEF warm!Quarantine
<1>21. CASE warm!RenameAway(p) BY <1>21, <1>0, HeldIs, LiveIs DEF warm!RenameAway
<1>22. CASE Dies(p) BY <1>22 DEF Dies
<1>99. QED
  BY <1>1, <1>2, <1>3, <1>4, <1>5, <1>6, <1>7, <1>8, <1>9, <1>10, <1>11, <1>12, <1>13, <1>14,
    <1>15, <1>16, <1>17, <1>18, <1>19, <1>20, <1>21, <1>22 DEF WarmStep

\* The same for a directory.
LEMMA StepTrees ==
    ASSUME Assumption, warm!TypeOK, warm!WarmInv, NEW p \in warm!Workers, WarmStep(p)
    PROVE  TreeIs(s2)'
<1> USE WarmTypes DEF TreeIs
<1>0. TreeIs(warm!NoTree) BY NothingIs
<1>1. CASE warm!PrepareWarm(p)
  BY <1>1, <1>0, NumbersLeft, LiveIs, NothingThere DEF warm!PrepareWarm
<1>2. CASE warm!InspectSpare(p)
  BY <1>2, <1>0, NumbersLeft, LiveIs, NothingThere DEF warm!InspectSpare, warm!warmState,
    warm!spareState, warm!requireStaleSpare
<1>3. CASE warm!CreateSpare(p)
  BY <1>3, <1>0, NumbersLeft, LiveIs, NothingThere DEF warm!CreateSpare, warm!Registration
<1>4. CASE warm!MarkPreparing(p)
  BY <1>4, <1>0, NumbersLeft, LiveIs, NothingThere DEF warm!MarkPreparing
<1>5. CASE warm!LockSpare(p) BY <1>5, <1>0, NumbersLeft, LiveIs, NothingThere DEF warm!LockSpare
<1>6. CASE warm!StartReset(p) BY <1>6, <1>0, NumbersLeft, LiveIs, NothingThere DEF warm!StartReset
<1>7. CASE warm!FinishReset(p)
  BY <1>7, <1>0, NumbersLeft, LiveIs, NothingThere DEF warm!FinishReset
<1>8. CASE warm!UnlockSpare(p)
  BY <1>8, <1>0, NumbersLeft, LiveIs, NothingThere DEF warm!UnlockSpare, warm!warmState,
    warm!spareState
<1>9. CASE warm!MarkReady(p) BY <1>9, <1>0, NumbersLeft, LiveIs, NothingThere DEF warm!MarkReady
<1>10. CASE warm!ClaimWarm(p)
  BY <1>10, <1>0, NumbersLeft, LiveIs, NothingThere DEF warm!ClaimWarm, warm!warmState,
    warm!spareState, warm!clean
<1>11. CASE warm!CheckoutClaim(p)
  BY <1>11, <1>0, NumbersLeft, LiveIs, NothingThere DEF warm!CheckoutClaim
<1>12. CASE warm!MoveClaim(p) BY <1>12, <1>0, NumbersLeft, LiveIs, NothingThere DEF warm!MoveClaim
<1>13. CASE warm!DiscardClaim(p)
  BY <1>13, <1>0, NumbersLeft, LiveIs, NothingThere DEF warm!DiscardClaim
<1>14. CASE warm!Recover(p)
  BY <1>14, <1>0, NumbersLeft, LiveIs, NothingThere DEF warm!Recover, warm!CallersOwn
<1>15. CASE warm!MakeDirectory(p)
  BY <1>15, <1>0, NumbersLeft, LiveIs, NothingThere DEF warm!MakeDirectory
<1>16. CASE warm!WriteBacklink(p)
  BY <1>16, <1>0, NumbersLeft, LiveIs, NothingThere DEF warm!WriteBacklink, warm!GiveUp
<1>17. CASE warm!RestoreFiles(p)
  BY <1>17, <1>0, NumbersLeft, LiveIs, NothingThere DEF warm!RestoreFiles, warm!GiveUp
<1>18. CASE warm!PruneRegistration(p)
  BY <1>18, <1>0, NumbersLeft, LiveIs, NothingThere DEF warm!PruneRegistration
<1>19. CASE warm!PruneStale(p)
  BY <1>19, <1>0, NumbersLeft, LiveIs, NothingThere DEF warm!PruneStale
<1>20. CASE warm!Quarantine(p)
  BY <1>20, <1>0, NumbersLeft, LiveIs, NothingThere DEF warm!Quarantine
<1>21. CASE warm!RenameAway(p)
  BY <1>21, <1>0, NumbersLeft, LiveIs, NothingThere DEF warm!RenameAway
<1>22. CASE Dies(p) BY <1>22 DEF Dies
<1>99. QED
  BY <1>1, <1>2, <1>3, <1>4, <1>5, <1>6, <1>7, <1>8, <1>9, <1>10, <1>11, <1>12, <1>13, <1>14,
    <1>15, <1>16, <1>17, <1>18, <1>19, <1>20, <1>21, <1>22 DEF WarmStep

\* What a step of p leaves to the others.
Keeps(p) ==
    /\ s8 \subseteq s8'
    /\ \A n : <<"spare", n>> \in s8' => <<"spare", n>> \in s8 \/ (n = s10 + 1 /\ s4 = p)
    /\ s1'.id \in {s1.id, 0} \/ (s1'.id = s10 + 1 /\ s4 = p)
    /\ s3 # p => /\ s1'.id = s1.id => s1'.marker = s1.marker
                 /\ s1.lock = "own" /\ s5[p] \notin warm!OfClaim => s1'.id = s1.id /\
                     s1'.lock = "own"
    /\ s3 # p /\ s4 # p => s1' = s1 /\ s2' \in {s2, warm!NoTree}
    /\ s3 # p /\ s1.lock = "own" /\ s5[p] \notin warm!OfClaim \cup {"mkdir", "link", "fill"} =>
           s1' = s1 /\ s2' \in {s2, warm!NoTree}
    /\ s5[p] # "reset" /\ s4 # p => s2'.files \in {s2.files, "full", "missing", "stray"}
    /\ s5'[p] \in warm!Unscoped => s5[p] \in warm!Unscoped \cup {"lock"}

\* Every step does.
LEMMA StepKeeps ==
    ASSUME Assumption, warm!WarmInv, NEW p \in warm!Workers, WarmStep(p)
    PROVE  Keeps(p)
<1>0. /\ RegIs(s1) /\ TreeIs(s2) /\ warm!Numbered /\ warm!Knows(p) /\ s10 \in Nat
      /\ warm!NoReg.id = 0 /\ warm!NoReg.marker = "none" /\ warm!NoReg.lock = "none"
      /\ warm!NoTree.id = 0 /\ warm!NoTree.files = "missing" /\ s5 \in [warm!Workers -> Labels]
  BY WarmTypes, NothingThere DEF warm!WarmInv, Assumption, WarmAssumption
<1> USE DEF Keeps, RegIs, TreeIs, warm!Knows, warm!Preparing, warm!InScope, warm!OfClaim,
       warm!Unscoped, Labels
<1>1. CASE warm!PrepareWarm(p)
  BY <1>1, <1>0 DEF warm!PrepareWarm, warm!Goto, warm!End, warm!Release
<1>2. CASE warm!InspectSpare(p)
  BY <1>2, <1>0 DEF warm!InspectSpare, warm!Goto, warm!End, warm!Release, warm!live
<1>3. CASE warm!CreateSpare(p)
  BY <1>3, <1>0 DEF warm!CreateSpare, warm!Goto, warm!End, warm!Release, warm!Registration
<1>4. CASE warm!MarkPreparing(p)
  BY <1>4, <1>0 DEF warm!MarkPreparing, warm!Goto, warm!End, warm!Release
<1>5. CASE warm!LockSpare(p) BY <1>5, <1>0 DEF warm!LockSpare, warm!Goto, warm!End, warm!Release
<1>6. CASE warm!StartReset(p)
  BY <1>6, <1>0 DEF warm!StartReset, warm!Goto, warm!End, warm!Release, warm!live
<1>7. CASE warm!FinishReset(p)
  BY <1>7, <1>0 DEF warm!FinishReset, warm!Goto, warm!End, warm!Release, warm!live
<1>8. CASE warm!UnlockSpare(p)
  BY <1>8, <1>0 DEF warm!UnlockSpare, warm!Goto, warm!End, warm!Release, warm!live
<1>9. CASE warm!MarkReady(p) BY <1>9, <1>0 DEF warm!MarkReady, warm!Goto, warm!End, warm!Release
<1>10. CASE warm!ClaimWarm(p)
  BY <1>10, <1>0 DEF warm!ClaimWarm, warm!Goto, warm!End, warm!Release, warm!live, warm!clean
<1>11. CASE warm!CheckoutClaim(p)
  BY <1>11, <1>0 DEF warm!CheckoutClaim, warm!Goto, warm!End, warm!Release, warm!live
<1>12. CASE warm!MoveClaim(p)
  BY <1>12, <1>0 DEF warm!MoveClaim, warm!Goto, warm!End, warm!Release, warm!live
<1>13. CASE warm!DiscardClaim(p)
  BY <1>13, <1>0 DEF warm!DiscardClaim, warm!Goto, warm!End, warm!Release, warm!live
<1>14. CASE warm!Recover(p)
  BY <1>14, <1>0 DEF warm!Recover, warm!CallersOwn, warm!Goto, warm!End, warm!Release
<1>15. CASE warm!MakeDirectory(p)
  BY <1>15, <1>0 DEF warm!MakeDirectory, warm!Goto, warm!End, warm!Release
<1>16. CASE warm!WriteBacklink(p)
  BY <1>16, <1>0 DEF warm!WriteBacklink, warm!Goto, warm!End, warm!Release, warm!GiveUp
<1>17. CASE warm!RestoreFiles(p)
  BY <1>17, <1>0 DEF warm!RestoreFiles, warm!Goto, warm!End, warm!Release, warm!GiveUp, warm!live
<1>18. CASE warm!PruneRegistration(p)
  BY <1>18, <1>0 DEF warm!PruneRegistration, warm!Goto, warm!End, warm!Release
<1>19. CASE warm!PruneStale(p)
  BY <1>19, <1>0 DEF warm!PruneStale, warm!Goto, warm!End, warm!Release, warm!live
<1>20. CASE warm!Quarantine(p)
  BY <1>20, <1>0 DEF warm!Quarantine, warm!Goto, warm!End, warm!Release
<1>21. CASE warm!RenameAway(p)
  BY <1>21, <1>0 DEF warm!RenameAway, warm!Goto, warm!End, warm!Release
<1>22. CASE Dies(p) BY <1>22, <1>0 DEF Dies, warm!Goto, warm!End, warm!Release
<1>99. QED
  BY <1>1, <1>2, <1>3, <1>4, <1>5, <1>6, <1>7, <1>8, <1>9, <1>10, <1>11, <1>12, <1>13, <1>14,
    <1>15, <1>16, <1>17, <1>18, <1>19, <1>20, <1>21, <1>22 DEF WarmStep

\* What the process itself knows next.
LEMMA OwnStep ==
    ASSUME Assumption, warm!WarmInv, NEW p \in warm!Workers, WarmStep(p)
    PROVE  warm!Knows(p)'
<1>0. /\ RegIs(s1) /\ TreeIs(s2) /\ warm!Numbered /\ warm!Knows(p) /\ s10 \in Nat
      /\ warm!NoReg.id = 0 /\ warm!NoReg.marker = "none" /\ warm!NoReg.lock = "none"
      /\ warm!NoTree.id = 0 /\ warm!NoTree.files = "missing" /\ s5 \in [warm!Workers -> Labels]
  BY WarmTypes, NothingThere DEF warm!WarmInv, Assumption, WarmAssumption
<1> USE DEF RegIs, TreeIs, warm!Numbered, warm!Knows, warm!Preparing, warm!InScope, warm!OfClaim,
       warm!Unscoped, warm!IsSpare, Labels
<1>1. CASE warm!PrepareWarm(p)
  BY <1>1, <1>0 DEF warm!PrepareWarm, warm!Goto, warm!End, warm!Release
<1>2. CASE warm!InspectSpare(p)
  <2>1. CASE s2 # warm!NoTree /\ warm!warmState = "preparing" /\ s1.lock # "other"
    <3>1. warm!IsSpare /\ s1.marker # "ready" /\ s1.id # 0
      BY <1>0, <2>1, LiveIs DEF warm!warmState, warm!spareState, warm!live
    <3>2. s1' = [s1 EXCEPT !.indexLock = FALSE] /\ s6' = [s6 EXCEPT ![p] = s1.id] /\ s4' = p
          /\ s3' = s3 /\ s5' = [s5 EXCEPT ![p] = "mark"] /\ s8' = s8
      BY <1>2, <2>1 DEF warm!InspectSpare, warm!Goto
    <3>3. s1'.id = s1.id /\ s1'.marker = s1.marker /\ s5'[p] = "mark" /\ s6'[p] = s1.id
      BY <1>0, <3>2, WarmTypes DEF warm!WarmInv
    <3>4. s3 = p BY <1>2, <1>0 DEF warm!InspectSpare
    <3>5. QED BY <3>1, <3>2, <3>3, <3>4
  <2>2. CASE s2 = warm!NoTree /\ (s1 = warm!NoReg \/ warm!requireStaleSpare(s1))
    <3>1. s5' = [s5 EXCEPT ![p] = "create"] /\ s3' = s3 /\ s4' = p
      BY <1>2, <2>2 DEF warm!InspectSpare, warm!Goto
    <3>2. s3 = p /\ s5'[p] = "create" BY <1>2, <1>0, <3>1 DEF warm!InspectSpare
    <3>3. QED BY <3>1, <3>2
  <2>3. CASE warm!End(p) BY <1>0, <2>3 DEF warm!End, warm!Goto, warm!Release
  <2>4. QED BY <1>2, <2>1, <2>2, <2>3 DEF warm!InspectSpare
<1>3. CASE warm!CreateSpare(p)
  <2>1. CASE warm!End(p) BY <1>0, <2>1 DEF warm!End, warm!Goto, warm!Release
  <2>2. CASE ~warm!End(p)
    <3>1. s1' = warm!Registration(s10', "own", FALSE) /\ s8' = s8 \cup {<<"spare", s10'>>}
          /\ s6' = [s6 EXCEPT ![p] = s10'] /\ s3' = s3 /\ s4' = s4 /\
              s5' = [s5 EXCEPT ![p] = "mark"]
      BY <1>3, <2>2 DEF warm!CreateSpare, warm!Goto
    <3>2. s5'[p] = "mark" /\ s6'[p] = s10' /\ s1'.marker = "none"
      BY <1>0, <3>1, WarmTypes DEF warm!WarmInv, warm!Registration
    <3>3. s3 = p /\ s4 = p BY <1>3, <1>0 DEF warm!CreateSpare
    <3>4. <<"spare", s6'[p]>> \in s8' /\ s3' = p /\ s4' = p BY <3>1, <3>2, <3>3
    <3>5. QED BY <3>2, <3>4
  <2>3. QED BY <2>1, <2>2
<1>4. CASE warm!MarkPreparing(p)
  BY <1>4, <1>0 DEF warm!MarkPreparing, warm!Goto, warm!End, warm!Release
<1>5. CASE warm!LockSpare(p) BY <1>5, <1>0 DEF warm!LockSpare, warm!Goto, warm!End, warm!Release
<1>6. CASE warm!StartReset(p)
  BY <1>6, <1>0 DEF warm!StartReset, warm!Goto, warm!End, warm!Release, warm!live
<1>7. CASE warm!FinishReset(p)
  BY <1>7, <1>0 DEF warm!FinishReset, warm!Goto, warm!End, warm!Release, warm!live
<1>8. CASE warm!UnlockSpare(p)
  BY <1>8, <1>0 DEF warm!UnlockSpare, warm!Goto, warm!End, warm!Release, warm!live,
    warm!warmState, warm!spareState
<1>9. CASE warm!MarkReady(p) BY <1>9, <1>0 DEF warm!MarkReady, warm!Goto, warm!End, warm!Release
<1>10. CASE warm!ClaimWarm(p)
  <2>1. \A q \in warm!Workers : s5[q] \notin {"reset", "filling", "recheck"}
    BY <1>10 DEF warm!ClaimWarm, warm!WarmInv, warm!Knows, warm!Unscoped
  <2>2. /\ s1' = s1 /\ s2' = s2 /\ s8' = s8 /\ s4' = p /\ s6' = [s6 EXCEPT ![p] = s1.id]
        /\ s5' = [s5 EXCEPT ![p] = "checkout"] \/ s5' = [s5 EXCEPT ![p] = "move"]
        /\ s5[p] = "idle" /\ s2.files = "full"
    BY <1>10 DEF warm!ClaimWarm, warm!Goto, warm!clean
  <2>3. s1.id # 0 /\ s1.marker = "ready"
    BY <1>10, <1>0, LiveIs DEF warm!ClaimWarm, warm!warmState, warm!spareState
  <2>4. s6'[p] = s1.id /\ s5'[p] \in {"checkout", "move"} BY <1>0, <2>2, WarmTypes DEF warm!WarmInv
  <2>5. \A q \in warm!Workers : s5'[q] \notin warm!Unscoped BY <1>0, <2>1, <2>2
  <2>6. QED BY <1>0, <2>2, <2>3, <2>4, <2>5
<1>11. CASE warm!CheckoutClaim(p)
  BY <1>11, <1>0 DEF warm!CheckoutClaim, warm!Goto, warm!End, warm!Release, warm!live
<1>12. CASE warm!MoveClaim(p)
  BY <1>12, <1>0 DEF warm!MoveClaim, warm!Goto, warm!End, warm!Release, warm!live
<1>13. CASE warm!DiscardClaim(p)
  BY <1>13, <1>0 DEF warm!DiscardClaim, warm!Goto, warm!End, warm!Release, warm!live
<1>14. CASE warm!Recover(p)
  BY <1>14, <1>0 DEF warm!Recover, warm!CallersOwn, warm!Goto, warm!End, warm!Release
<1>15. CASE warm!MakeDirectory(p)
  <2>1. CASE warm!End(p) BY <1>0, <2>1 DEF warm!End, warm!Goto, warm!Release
  <2>2. CASE ~warm!End(p)
    <3>1. s8' = s8 \cup {<<"made", s10'>>}
          /\ s6' = [s6 EXCEPT ![p] = s10'] /\ s3' = s3 /\ s4' = s4 /\
              s5' = [s5 EXCEPT ![p] = "link"]
      BY <1>15, <2>2 DEF warm!MakeDirectory, warm!Goto
    <3>2. s5'[p] = "link" /\ s6'[p] = s10' BY <1>0, <3>1, WarmTypes DEF warm!WarmInv
    <3>3. s4 = p BY <1>15, <1>0 DEF warm!MakeDirectory
    <3>4. QED BY <3>1, <3>2, <3>3
  <2>3. QED BY <2>1, <2>2
<1>16. CASE warm!WriteBacklink(p)
  BY <1>16, <1>0 DEF warm!WriteBacklink, warm!Goto, warm!End, warm!Release, warm!GiveUp
<1>17. CASE warm!RestoreFiles(p)
  BY <1>17, <1>0 DEF warm!RestoreFiles, warm!Goto, warm!End, warm!Release, warm!GiveUp, warm!live
<1>18. CASE warm!PruneRegistration(p)
  BY <1>18, <1>0 DEF warm!PruneRegistration, warm!Goto, warm!End, warm!Release
<1>19. CASE warm!PruneStale(p)
  BY <1>19, <1>0 DEF warm!PruneStale, warm!Goto, warm!End, warm!Release, warm!live
<1>20. CASE warm!Quarantine(p)
  BY <1>20, <1>0 DEF warm!Quarantine, warm!Goto, warm!End, warm!Release
<1>21. CASE warm!RenameAway(p)
  BY <1>21, <1>0 DEF warm!RenameAway, warm!Goto, warm!End, warm!Release
<1>22. CASE Dies(p) BY <1>22, <1>0 DEF Dies, warm!Goto, warm!End, warm!Release
<1>99. QED
  BY <1>1, <1>2, <1>3, <1>4, <1>5, <1>6, <1>7, <1>8, <1>9, <1>10, <1>11, <1>12, <1>13, <1>14,
    <1>15, <1>16, <1>17, <1>18, <1>19, <1>20, <1>21, <1>22 DEF WarmStep

\* A directory that is there has a number.
LEMMA TreeThere == ASSUME TreeIs(s2), s2 # warm!NoTree, Assumption PROVE s2.id # 0 /\ s2.id
       \in Nat
<1>1. s2 = [id |-> s2.id, files |-> s2.files] BY DEF TreeIs
<1>2. QED BY <1>1 DEF TreeIs, warm!NoTree, Assumption, WarmAssumption

\* Why kwt may delete something.
Permitted(d) == /\ d[1] \in {"remove", "discard"} => <<"spare", d[2].id>> \in s8
                /\ d[1] = "remove" => ~d[2].identity /\ ~d[2].attached /\ d[2].lock # "other"
                /\ d[1] = "undo" => <<"made", d[3].id>> \in s8

\* What was handed out or deleted before stays as it should be.
LEMMA Spared ==
    ASSUME warm!OthersAreSpared, s8 \subseteq s8'
    PROVE  /\ \A d : s9' = s9 \cup {d} /\ Permitted(d) => (warm!OthersAreSpared)'
           /\ s9' = s9 => (warm!OthersAreSpared)'
           /\ warm!ClaimsAreComplete /\ s7' = s7 => (warm!ClaimsAreComplete)'
BY DEF warm!OthersAreSpared, Permitted, warm!ClaimsAreComplete

\* What another process knows stays so.
LEMMA OtherKnows ==
    ASSUME Assumption, warm!WarmInv, NEW p \in warm!Workers, WarmStep(p),
           NEW q \in warm!Workers, q # p
    PROVE  warm!Knows(q)'
<1>0. Keeps(p) /\ warm!Knows(q) /\ warm!Knows(p) BY StepKeeps DEF warm!WarmInv
<1>1. /\ s5' \in [warm!Workers -> Labels] /\ s5'[q] = s5[q] /\ s6'[q] = s6[q]
      /\ \A r \in warm!Workers \ {p} : s5'[r] = s5[r]
      /\ (s3 = q => s3' = q) /\ (s4 = q => s4' = q) /\ RegIs(s1)'
  BY StepFrame, StepRegs DEF warm!WarmInv, Assumption, WarmAssumption
<1>2. s8 \subseteq {"spare", "made", "quarantined"} \X (1..s10) /\ s10 \in Nat /\ RegIs(s1)
  BY WarmTypes DEF warm!WarmInv, warm!Numbered, Assumption, WarmAssumption
<1>3. s8 \subseteq s8' BY <1>0 DEF Keeps
<1> DEFINE Mine == <<"spare", s6[q]>> \in s8
<1>4. Mine => s6[q] # 0 /\ s6[q] # s10 + 1 BY <1>2
<1>5. s5[q] \in warm!Preparing => s3 = q /\ s3' = q /\ s3 # p BY <1>0, <1>1 DEF warm!Knows
<1>6. s5[q] \in warm!InScope => s4 = q /\ s4' = q /\ s4 # p BY <1>0, <1>1 DEF warm!Knows
<1>7. s5[q] \in warm!Preparing \ {"inspect", "create"} =>
        /\ <<"spare", s6'[q]>> \in s8'
        /\ s1'.id = s6[q] => s1.id = s6[q] /\ s1'.marker = s1.marker
  <2>1. s5[q] \in warm!Preparing \ {"inspect", "create"} => Mine BY <1>0 DEF warm!Knows
  <2>2. Mine => <<"spare", s6'[q]>> \in s8' BY <1>1, <1>3
  <2>3. Mine /\ s1'.id = s6[q] => s1.id = s6[q] BY <1>0, <1>4 DEF Keeps
  <2>4. QED BY <2>1, <2>2, <2>3, <1>0, <1>5 DEF Keeps
<1>8. s5[q] \in warm!Unscoped => s1'.id = s6'[q] /\ s1'.lock = "own"
  <2> SUFFICES ASSUME s5[q] \in warm!Unscoped PROVE s1'.id = s6'[q] /\ s1'.lock = "own" OBVIOUS
  <2>1. s5[p] \notin warm!OfClaim BY <1>0 DEF warm!Knows
  <2>2. s1.id = s6[q] /\ s1.lock = "own" /\ s3 # p
    BY <1>0, <1>5 DEF warm!Knows, warm!Unscoped, warm!Preparing
  <2>3. QED BY <1>0, <1>1, <2>1, <2>2 DEF Keeps
<1>9. s5[q] \in warm!OfClaim => /\ \A r \in warm!Workers : s5'[r] \notin warm!Unscoped
                                /\ s2'.files \notin {"bare", "partial"}
                                /\ s1' = warm!NoReg \/ (warm!IsSpare)'
                                /\ s6'[q] # 0
  <2> SUFFICES ASSUME s5[q] \in warm!OfClaim
               PROVE  /\ \A r \in warm!Workers : s5'[r] \notin warm!Unscoped
                      /\ s2'.files \notin {"bare", "partial"}
                      /\ s1' = warm!NoReg \/ (warm!IsSpare)'
                      /\ s6'[q] # 0
    OBVIOUS
  <2>1. s4 = q /\ s4 # p BY <1>6 DEF warm!OfClaim, warm!InScope
  <2>2. /\ \A r \in warm!Workers : s5[r] \notin warm!Unscoped
        /\ s2.files \notin {"bare", "partial"}
        /\ s1 = warm!NoReg \/ warm!IsSpare
        /\ s6[q] # 0
    BY <1>0 DEF warm!Knows
  <2>3. s5[p] # "lock" /\ s5[p] # "reset"
    BY <1>0, <2>1, <2>2 DEF warm!Knows, warm!InScope, warm!Unscoped
  <2>4. \A r \in warm!Workers : s5'[r] \notin warm!Unscoped BY <1>0, <1>1, <2>2, <2>3 DEF Keeps
  <2>5. s2'.files \notin {"bare", "partial"} BY <1>0, <2>1, <2>2, <2>3 DEF Keeps
  <2>6. s1' = warm!NoReg \/ (warm!IsSpare)'
    <3>1. s1'.id \in {s1.id, 0} BY <1>0, <2>1 DEF Keeps
    <3>2. s1'.id = 0 => s1' = warm!NoReg BY <1>1 DEF RegIs
    <3>3. s1 = warm!NoReg => s1.id = 0 BY NothingThere
    <3>4. QED BY <3>1, <3>2, <3>3, <2>2, <1>3 DEF warm!IsSpare
  <2>7. QED BY <2>2, <2>4, <2>5, <2>6, <1>1
<1>10. s5[q] \in {"link", "fill"} => <<"made", s6'[q]>> \in s8' BY <1>0, <1>1, <1>3 DEF warm!Knows
<1>11. s5'[q] = "mark" /\ s1'.id = s6'[q] => s1'.marker # "ready"
  BY <1>0, <1>1, <1>7 DEF warm!Knows, warm!Preparing
<1>12. s5'[q] \in warm!Preparing \ {"inspect", "create", "mark"} /\ s1'.id = s6'[q] =>
    s1'.marker = "preparing"
  BY <1>0, <1>1, <1>7 DEF warm!Knows
<1>13. QED BY <1>1, <1>5, <1>6, <1>7, <1>8, <1>9, <1>10, <1>11, <1>12 DEF warm!Knows

\* Numbers stay in step.
LEMMA StepNumbers ==
    ASSUME Assumption, warm!WarmInv, NEW p \in warm!Workers, WarmStep(p)
    PROVE  (warm!Numbered)'
<1>0. /\ RegIs(s1) /\ TreeIs(s2) /\ warm!Numbered /\ warm!Knows(p) /\ s10 \in Nat
      /\ warm!NoReg.id = 0 /\ warm!NoReg.marker = "none" /\ warm!NoReg.lock = "none"
      /\ warm!NoTree.id = 0 /\ warm!NoTree.files = "missing" /\ s5 \in [warm!Workers -> Labels]
  BY WarmTypes, NothingThere DEF warm!WarmInv, Assumption, WarmAssumption
<1> USE DEF RegIs, TreeIs, warm!Knows, warm!Preparing, warm!InScope, warm!OfClaim, warm!Unscoped,
       warm!IsSpare, Labels, warm!Numbered
<1>1. CASE warm!PrepareWarm(p)
  BY <1>1, <1>0 DEF warm!PrepareWarm, warm!Goto, warm!End, warm!Release
<1>2. CASE warm!InspectSpare(p)
  BY <1>2, <1>0 DEF warm!InspectSpare, warm!Goto, warm!End, warm!Release, warm!warmState,
    warm!live, warm!spareState, warm!requireStaleSpare
<1>3. CASE warm!CreateSpare(p)
  BY <1>3, <1>0 DEF warm!CreateSpare, warm!Goto, warm!End, warm!Release, warm!Registration
<1>4. CASE warm!MarkPreparing(p)
  BY <1>4, <1>0 DEF warm!MarkPreparing, warm!Goto, warm!End, warm!Release
<1>5. CASE warm!LockSpare(p) BY <1>5, <1>0 DEF warm!LockSpare, warm!Goto, warm!End, warm!Release
<1>6. CASE warm!StartReset(p)
  BY <1>6, <1>0 DEF warm!StartReset, warm!Goto, warm!End, warm!Release, warm!live
<1>7. CASE warm!FinishReset(p)
  BY <1>7, <1>0 DEF warm!FinishReset, warm!Goto, warm!End, warm!Release, warm!live
<1>8. CASE warm!UnlockSpare(p)
  BY <1>8, <1>0 DEF warm!UnlockSpare, warm!Goto, warm!End, warm!Release, warm!live,
    warm!warmState, warm!spareState
<1>9. CASE warm!MarkReady(p) BY <1>9, <1>0 DEF warm!MarkReady, warm!Goto, warm!End, warm!Release
<1>10. CASE warm!ClaimWarm(p)
  BY <1>10, <1>0 DEF warm!ClaimWarm, warm!Goto, warm!End, warm!Release, warm!warmState, warm!live,
    warm!spareState, warm!clean
<1>11. CASE warm!CheckoutClaim(p)
  BY <1>11, <1>0 DEF warm!CheckoutClaim, warm!Goto, warm!End, warm!Release, warm!live
<1>12. CASE warm!MoveClaim(p)
  BY <1>12, <1>0 DEF warm!MoveClaim, warm!Goto, warm!End, warm!Release, warm!live
<1>13. CASE warm!DiscardClaim(p)
  BY <1>13, <1>0 DEF warm!DiscardClaim, warm!Goto, warm!End, warm!Release, warm!live
<1>14. CASE warm!Recover(p)
  BY <1>14, <1>0 DEF warm!Recover, warm!CallersOwn, warm!Goto, warm!End, warm!Release
<1>15. CASE warm!MakeDirectory(p)
  BY <1>15, <1>0 DEF warm!MakeDirectory, warm!Goto, warm!End, warm!Release
<1>16. CASE warm!WriteBacklink(p)
  BY <1>16, <1>0 DEF warm!WriteBacklink, warm!Goto, warm!End, warm!Release, warm!GiveUp
<1>17. CASE warm!RestoreFiles(p)
  BY <1>17, <1>0 DEF warm!RestoreFiles, warm!Goto, warm!End, warm!Release, warm!GiveUp, warm!live
<1>18. CASE warm!PruneRegistration(p)
  BY <1>18, <1>0 DEF warm!PruneRegistration, warm!Goto, warm!End, warm!Release
<1>19. CASE warm!PruneStale(p)
  BY <1>19, <1>0 DEF warm!PruneStale, warm!Goto, warm!End, warm!Release, warm!live
<1>20. CASE warm!Quarantine(p)
  BY <1>20, <1>0 DEF warm!Quarantine, warm!Goto, warm!End, warm!Release
<1>21. CASE warm!RenameAway(p)
  <2>1. s2 # warm!NoTree => s2.id \in 1..s10
    BY <1>0, TreeThere DEF warm!Numbered, Assumption, WarmAssumption
  <2>2. s8' = s8 \/ (s2 # warm!NoTree /\ s8' = s8 \cup {<<"quarantined", s2.id>>})
    BY <1>21 DEF warm!RenameAway
  <2>3. s1' = s1 /\ s10' = s10 /\ (s2' = warm!NoTree \/ s2' = s2) BY <1>21 DEF warm!RenameAway
  <2>4. QED BY <1>0, <2>1, <2>2, <2>3
<1>22. CASE Dies(p) BY <1>22, <1>0 DEF Dies, warm!Goto, warm!End, warm!Release
<1>99. QED
  BY <1>1, <1>2, <1>3, <1>4, <1>5, <1>6, <1>7, <1>8, <1>9, <1>10, <1>11, <1>12, <1>13, <1>14,
    <1>15, <1>16, <1>17, <1>18, <1>19, <1>20, <1>21, <1>22 DEF WarmStep

\* What was handed out and what was deleted was as it should be.
LEMMA StepHistories ==
    ASSUME Assumption, warm!WarmInv, NEW p \in warm!Workers, WarmStep(p)
    PROVE  (warm!ClaimsAreComplete)' /\ (warm!OthersAreSpared)'
<1>0. /\ RegIs(s1) /\ TreeIs(s2) /\ warm!Numbered /\ warm!Knows(p) /\ s10 \in Nat
      /\ warm!NoReg.id = 0 /\ warm!NoReg.marker = "none" /\ warm!NoReg.lock = "none"
      /\ warm!NoTree.id = 0 /\ warm!NoTree.files = "missing" /\ s5 \in [warm!Workers -> Labels]
      /\ warm!ClaimsAreComplete /\ warm!OthersAreSpared
  BY WarmTypes, NothingThere DEF warm!WarmInv, Assumption, WarmAssumption
<1> USE DEF RegIs, TreeIs, warm!Knows, warm!Preparing, warm!InScope, warm!OfClaim, warm!Unscoped,
       warm!IsSpare, Labels, warm!Numbered, warm!ClaimsAreComplete, warm!OthersAreSpared
<1>1. CASE warm!PrepareWarm(p)
  BY <1>1, <1>0 DEF warm!PrepareWarm, warm!Goto, warm!End, warm!Release
<1>2. CASE warm!InspectSpare(p)
  <2>1. s7' = s7 /\ s8' = s8 BY <1>2 DEF warm!InspectSpare
  <2>2. s9' = s9 \/ (s9' = s9 \cup {<<"remove", s1, warm!NoTree>>} /\ warm!requireStaleSpare(s1))
    BY <1>2 DEF warm!InspectSpare
  <2>3. warm!requireStaleSpare(s1) => warm!IsSpare /\ ~s1.identity /\ ~s1.attached /\
      s1.lock # "other"
    BY <1>0 DEF warm!requireStaleSpare, warm!spareState
  <2>4. QED BY <1>0, <2>1, <2>2, <2>3, Spared DEF Permitted
<1>3. CASE warm!CreateSpare(p)
  <2>1. s9' = s9 /\ s8 \subseteq s8' /\ s7' = s7 BY <1>3 DEF warm!CreateSpare
  <2>2. QED BY <1>0, <2>1, Spared
<1>4. CASE warm!MarkPreparing(p)
  BY <1>4, <1>0 DEF warm!MarkPreparing, warm!Goto, warm!End, warm!Release
<1>5. CASE warm!LockSpare(p) BY <1>5, <1>0 DEF warm!LockSpare, warm!Goto, warm!End, warm!Release
<1>6. CASE warm!StartReset(p)
  BY <1>6, <1>0 DEF warm!StartReset, warm!Goto, warm!End, warm!Release, warm!live
<1>7. CASE warm!FinishReset(p)
  BY <1>7, <1>0 DEF warm!FinishReset, warm!Goto, warm!End, warm!Release, warm!live
<1>8. CASE warm!UnlockSpare(p)
  BY <1>8, <1>0 DEF warm!UnlockSpare, warm!Goto, warm!End, warm!Release, warm!live,
    warm!warmState, warm!spareState
<1>9. CASE warm!MarkReady(p) BY <1>9, <1>0 DEF warm!MarkReady, warm!Goto, warm!End, warm!Release
<1>10. CASE warm!ClaimWarm(p)
  BY <1>10, <1>0 DEF warm!ClaimWarm, warm!Goto, warm!End, warm!Release, warm!warmState, warm!live,
    warm!spareState, warm!clean
<1>11. CASE warm!CheckoutClaim(p)
  BY <1>11, <1>0 DEF warm!CheckoutClaim, warm!Goto, warm!End, warm!Release, warm!live
<1>12. CASE warm!MoveClaim(p)
  <2>1. s9' = s9 /\ s8' = s8 BY <1>12 DEF warm!MoveClaim
  <2>2. (warm!OthersAreSpared)' BY <1>0, <2>1, Spared
  <2>3. s7' = s7 \/ (warm!live /\ s7' = s7 \cup {[tree |-> s2, by |-> p]})
    BY <1>12 DEF warm!MoveClaim
  <2>4. warm!live => s2.files \in {"full", "edited"} BY <1>12, <1>0, LiveIs DEF warm!MoveClaim
  <2>5. (warm!ClaimsAreComplete)' BY <1>0, <2>3, <2>4 DEF warm!ClaimsAreComplete
  <2>6. QED BY <2>2, <2>5
<1>13. CASE warm!DiscardClaim(p)
  <2>1. s7' = s7 /\ s8' = s8 BY <1>13 DEF warm!DiscardClaim
  <2>2. s9' = s9 \/ (s9' = s9 \cup {<<"discard", s1, s2>>} /\ warm!live)
    BY <1>13 DEF warm!DiscardClaim
  <2>3. warm!live => warm!IsSpare BY <1>13, <1>0 DEF warm!live, warm!DiscardClaim
  <2>4. QED BY <1>0, <2>1, <2>2, <2>3, Spared DEF Permitted
<1>14. CASE warm!Recover(p)
  BY <1>14, <1>0 DEF warm!Recover, warm!CallersOwn, warm!Goto, warm!End, warm!Release
<1>15. CASE warm!MakeDirectory(p)
  <2>1. s9' = s9 /\ s8 \subseteq s8' /\ s7' = s7 BY <1>15 DEF warm!MakeDirectory
  <2>2. QED BY <1>0, <2>1, Spared
<1>16. CASE warm!WriteBacklink(p)
  <2>1. s7' = s7 /\ s8' = s8 BY <1>16 DEF warm!WriteBacklink
  <2>2. s9' = s9 \/ (s9' = s9 \cup {<<"undo", s1, s2>>} /\ s2.id = s6[p])
    BY <1>16 DEF warm!WriteBacklink, warm!GiveUp
  <2>3. <<"made", s6[p]>> \in s8 BY <1>16, <1>0 DEF warm!WriteBacklink
  <2>4. QED BY <1>0, <2>1, <2>2, <2>3, Spared DEF Permitted
<1>17. CASE warm!RestoreFiles(p)
  <2>1. s7' = s7 /\ s8' = s8 BY <1>17 DEF warm!RestoreFiles
  <2>2. s9' = s9 \/ (s9' = s9 \cup {<<"undo", s1, s2>>} /\ s2.id = s6[p])
    BY <1>17 DEF warm!RestoreFiles, warm!GiveUp
  <2>3. <<"made", s6[p]>> \in s8 BY <1>17, <1>0 DEF warm!RestoreFiles
  <2>4. QED BY <1>0, <2>1, <2>2, <2>3, Spared DEF Permitted
<1>18. CASE warm!PruneRegistration(p)
  BY <1>18, <1>0 DEF warm!PruneRegistration, warm!Goto, warm!End, warm!Release
<1>19. CASE warm!PruneStale(p)
  BY <1>19, <1>0 DEF warm!PruneStale, warm!Goto, warm!End, warm!Release, warm!live
<1>20. CASE warm!Quarantine(p)
  BY <1>20, <1>0 DEF warm!Quarantine, warm!Goto, warm!End, warm!Release
<1>21. CASE warm!RenameAway(p)
  <2>1. s9' = s9 /\ s8 \subseteq s8' /\ s7' = s7 BY <1>21 DEF warm!RenameAway
  <2>2. QED BY <1>0, <2>1, Spared
<1>22. CASE Dies(p) BY <1>22, <1>0 DEF Dies, warm!Goto, warm!End, warm!Release
<1>99. QED
  BY <1>1, <1>2, <1>3, <1>4, <1>5, <1>6, <1>7, <1>8, <1>9, <1>10, <1>11, <1>12, <1>13, <1>14,
    <1>15, <1>16, <1>17, <1>18, <1>19, <1>20, <1>21, <1>22 DEF WarmStep

\* A step of p does not disturb what q relies on while nobody touches the path.
LEMMA OtherCalm ==
    ASSUME Assumption, warm!WarmInv, s11 = 0, NEW p \in warm!Workers, WarmStep(p),
           NEW q \in warm!Workers, q # p
    PROVE  warm!Calm(q)'
<1>0. Keeps(p) /\ warm!Knows(q) /\ warm!Knows(p) /\ warm!Calm(q) /\ warm!Calm(p) /\ warm!Numbered
  BY StepKeeps DEF warm!WarmInv
<1>1. s5'[q] = s5[q] /\ (s3 = q => s3 # p) /\ (s4 = q => s4 # p) BY StepFrame DEF warm!WarmInv
<1>2. s5[q] \in {"recheck", "ready"} => s1' = s1 /\ s2' \in {s2, warm!NoTree}
  <2>1. s5[q] \in {"recheck", "ready"} => s3 # p BY <1>0, <1>1 DEF warm!Knows, warm!Preparing
  <2>2. s5[q] = "ready" => s4 # p BY <1>0, <1>1 DEF warm!Knows, warm!InScope
  <2>3. s5[q] = "recheck" => s1.lock = "own" /\ warm!IsSpare /\ s5[p] \notin warm!OfClaim
    <3> SUFFICES ASSUME s5[q] = "recheck" PROVE s1.lock = "own" /\ warm!IsSpare /\ s5[p] \notin
           warm!OfClaim
      OBVIOUS
    <3>1. s5[q] \in warm!Unscoped /\ s5[q] \in warm!Preparing \ {"inspect", "create"}
      BY DEF warm!Unscoped, warm!Preparing
    <3>2. s1.lock = "own" /\ s1.id = s6[q] /\ <<"spare", s6[q]>> \in s8 BY <1>0, <3>1 DEF warm!Knows
    <3>3. QED BY <1>0, <3>1, <3>2 DEF warm!Knows, warm!IsSpare
  <2>4. warm!IsSpare => s5[p] \notin {"mkdir", "link", "fill"} BY <1>0 DEF warm!Calm
  <2>5. s5[q] = "recheck" => s3 # p /\ s1.lock = "own" /\ s5[p] \notin warm!OfClaim \cup {"mkdir",
      "link", "fill"}
    BY <2>1, <2>3, <2>4
  <2>6. QED BY <1>0, <2>1, <2>2, <2>5 DEF Keeps
<1>3. s5[q] \in {"mkdir", "link", "fill"} => ~(warm!IsSpare)'
  <2> SUFFICES ASSUME s5[q] \in {"mkdir", "link", "fill"}, (warm!IsSpare)' PROVE FALSE OBVIOUS
  <2>1. s4 # p BY <1>0, <1>1 DEF warm!Knows, warm!InScope
  <2>2. <<"spare", s1'.id>> \in s8 /\ s1'.id \in {s1.id, 0} BY <1>0, <2>1 DEF Keeps, warm!IsSpare
  <2>3. <<"spare", 0>> \notin s8
    BY <1>0, WarmTypes DEF warm!Numbered, warm!WarmInv, Assumption, WarmAssumption
  <2>4. ~warm!IsSpare BY <1>0 DEF warm!Calm
  <2>5. QED BY <2>2, <2>3, <2>4 DEF warm!IsSpare
<1>4. QED BY <1>0, <1>1, <1>2, <1>3 DEF warm!Calm

\* A spare is as its marker says.
LEMMA StepUsable ==
    ASSUME Assumption, warm!WarmInv, s11 = 0, NEW p \in warm!Workers, WarmStep(p)
    PROVE  (warm!SpareIsUsable)'
<1>0. /\ RegIs(s1) /\ TreeIs(s2) /\ warm!Numbered /\ warm!Knows(p) /\ s10 \in Nat
      /\ warm!NoReg.id = 0 /\ warm!NoReg.marker = "none" /\ warm!NoReg.lock = "none"
      /\ warm!NoTree.id = 0 /\ warm!NoTree.files = "missing" /\ s5 \in [warm!Workers -> Labels]
      /\ warm!SpareIsUsable /\ warm!Calm(p)
      /\ s8 \subseteq {"spare", "made", "quarantined"} \X (1..s10)
  BY WarmTypes, NothingThere DEF warm!WarmInv, Assumption, WarmAssumption, warm!Numbered
<1> USE DEF RegIs, TreeIs, warm!Knows, warm!Preparing, warm!InScope, warm!OfClaim, warm!Unscoped,
       warm!IsSpare, Labels, warm!SpareIsUsable, warm!Calm, warm!Filled, warm!Numbered
<1>1. CASE warm!PrepareWarm(p)
  BY <1>1, <1>0 DEF warm!PrepareWarm, warm!Goto, warm!End, warm!Release
<1>2. CASE warm!InspectSpare(p)
  <2>1. /\ s1' \in {s1, warm!NoReg} \/ s1' = [s1 EXCEPT !.indexLock = FALSE]
        /\ s2' = s2 /\ s8' = s8
    BY <1>2 DEF warm!InspectSpare
  <2>2. s1' = [s1 EXCEPT !.indexLock = FALSE] =>
          /\ s1'.id = s1.id /\ s1'.identity = s1.identity /\ s1'.lock = s1.lock
          /\ s1'.marker = s1.marker /\ s1'.indexLock = FALSE
    BY <1>0
  <2>3. s1' = warm!NoReg => ~(warm!IsSpare)' BY <1>0, <2>1
  <2>4. QED BY <1>0, <2>1, <2>2, <2>3 DEF warm!SpareIsUsable, warm!IsSpare
<1>3. CASE warm!CreateSpare(p)
  BY <1>3, <1>0 DEF warm!CreateSpare, warm!Goto, warm!End, warm!Release, warm!Registration
<1>4. CASE warm!MarkPreparing(p)
  BY <1>4, <1>0 DEF warm!MarkPreparing, warm!Goto, warm!End, warm!Release
<1>5. CASE warm!LockSpare(p) BY <1>5, <1>0 DEF warm!LockSpare, warm!Goto, warm!End, warm!Release
<1>6. CASE warm!StartReset(p)
  BY <1>6, <1>0 DEF warm!StartReset, warm!Goto, warm!End, warm!Release, warm!live, warm!indexFree
<1>7. CASE warm!FinishReset(p)
  BY <1>7, <1>0 DEF warm!FinishReset, warm!Goto, warm!End, warm!Release, warm!live
<1>8. CASE warm!UnlockSpare(p)
  BY <1>8, <1>0 DEF warm!UnlockSpare, warm!Goto, warm!End, warm!Release, warm!live,
    warm!warmState, warm!spareState
<1>9. CASE warm!MarkReady(p) BY <1>9, <1>0 DEF warm!MarkReady, warm!Goto, warm!End, warm!Release
<1>10. CASE warm!ClaimWarm(p)
  BY <1>10, <1>0 DEF warm!ClaimWarm, warm!Goto, warm!End, warm!Release, warm!warmState, warm!live,
    warm!spareState, warm!clean
<1>11. CASE warm!CheckoutClaim(p)
  BY <1>11, <1>0 DEF warm!CheckoutClaim, warm!Goto, warm!End, warm!Release, warm!live,
    warm!indexFree
<1>12. CASE warm!MoveClaim(p)
  BY <1>12, <1>0 DEF warm!MoveClaim, warm!Goto, warm!End, warm!Release, warm!live
<1>13. CASE warm!DiscardClaim(p)
  BY <1>13, <1>0 DEF warm!DiscardClaim, warm!Goto, warm!End, warm!Release, warm!live
<1>14. CASE warm!Recover(p)
  BY <1>14, <1>0 DEF warm!Recover, warm!CallersOwn, warm!Goto, warm!End, warm!Release
<1>15. CASE warm!MakeDirectory(p)
  BY <1>15, <1>0 DEF warm!MakeDirectory, warm!Goto, warm!End, warm!Release
<1>16. CASE warm!WriteBacklink(p)
  BY <1>16, <1>0 DEF warm!WriteBacklink, warm!Goto, warm!End, warm!Release, warm!GiveUp
<1>17. CASE warm!RestoreFiles(p)
  BY <1>17, <1>0 DEF warm!RestoreFiles, warm!Goto, warm!End, warm!Release, warm!GiveUp, warm!live,
    warm!indexFree
<1>18. CASE warm!PruneRegistration(p)
  BY <1>18, <1>0 DEF warm!PruneRegistration, warm!Goto, warm!End, warm!Release
<1>19. CASE warm!PruneStale(p)
  BY <1>19, <1>0 DEF warm!PruneStale, warm!Goto, warm!End, warm!Release, warm!live
<1>20. CASE warm!Quarantine(p)
  BY <1>20, <1>0 DEF warm!Quarantine, warm!Goto, warm!End, warm!Release
<1>21. CASE warm!RenameAway(p)
  BY <1>21, <1>0 DEF warm!RenameAway, warm!Goto, warm!End, warm!Release, warm!live
<1>22. CASE Dies(p) BY <1>22, <1>0 DEF Dies, warm!Goto, warm!End, warm!Release
<1>99. QED
  BY <1>1, <1>2, <1>3, <1>4, <1>5, <1>6, <1>7, <1>8, <1>9, <1>10, <1>11, <1>12, <1>13, <1>14,
    <1>15, <1>16, <1>17, <1>18, <1>19, <1>20, <1>21, <1>22 DEF WarmStep

\* So is the one a preparation is about to hand on.
LEMMA OwnCalm ==
    ASSUME Assumption, warm!WarmInv, s11 = 0, NEW p \in warm!Workers, WarmStep(p)
    PROVE  warm!Calm(p)'
<1>0. /\ RegIs(s1) /\ TreeIs(s2) /\ warm!Numbered /\ warm!Knows(p) /\ s10 \in Nat
      /\ warm!NoReg.id = 0 /\ warm!NoReg.marker = "none" /\ warm!NoReg.lock = "none"
      /\ warm!NoTree.id = 0 /\ warm!NoTree.files = "missing" /\ s5 \in [warm!Workers -> Labels]
      /\ warm!SpareIsUsable /\ warm!Calm(p)
      /\ s8 \subseteq {"spare", "made", "quarantined"} \X (1..s10)
  BY WarmTypes, NothingThere DEF warm!WarmInv, Assumption, WarmAssumption, warm!Numbered
<1> USE DEF RegIs, TreeIs, warm!Knows, warm!Preparing, warm!InScope, warm!OfClaim, warm!Unscoped,
       warm!IsSpare, Labels, warm!SpareIsUsable, warm!Calm, warm!Filled, warm!Numbered
<1>1. CASE warm!PrepareWarm(p)
  BY <1>1, <1>0 DEF warm!PrepareWarm, warm!Goto, warm!End, warm!Release
<1>2. CASE warm!InspectSpare(p)
  <2>1. s5'[p] \in {"mark", "idle", "create"}
    BY <1>2, <1>0 DEF warm!InspectSpare, warm!Goto, warm!End
  <2>2. QED BY <2>1 DEF warm!Calm
<1>3. CASE warm!CreateSpare(p)
  BY <1>3, <1>0 DEF warm!CreateSpare, warm!Goto, warm!End, warm!Release, warm!Registration
<1>4. CASE warm!MarkPreparing(p)
  BY <1>4, <1>0 DEF warm!MarkPreparing, warm!Goto, warm!End, warm!Release
<1>5. CASE warm!LockSpare(p) BY <1>5, <1>0 DEF warm!LockSpare, warm!Goto, warm!End, warm!Release
<1>6. CASE warm!StartReset(p)
  BY <1>6, <1>0 DEF warm!StartReset, warm!Goto, warm!End, warm!Release, warm!live, warm!indexFree
<1>7. CASE warm!FinishReset(p)
  BY <1>7, <1>0 DEF warm!FinishReset, warm!Goto, warm!End, warm!Release, warm!live
<1>8. CASE warm!UnlockSpare(p)
  BY <1>8, <1>0 DEF warm!UnlockSpare, warm!Goto, warm!End, warm!Release, warm!live,
    warm!warmState, warm!spareState
<1>9. CASE warm!MarkReady(p) BY <1>9, <1>0 DEF warm!MarkReady, warm!Goto, warm!End, warm!Release
<1>10. CASE warm!ClaimWarm(p)
  BY <1>10, <1>0 DEF warm!ClaimWarm, warm!Goto, warm!End, warm!Release, warm!warmState, warm!live,
    warm!spareState, warm!clean
<1>11. CASE warm!CheckoutClaim(p)
  BY <1>11, <1>0 DEF warm!CheckoutClaim, warm!Goto, warm!End, warm!Release, warm!live,
    warm!indexFree
<1>12. CASE warm!MoveClaim(p)
  BY <1>12, <1>0 DEF warm!MoveClaim, warm!Goto, warm!End, warm!Release, warm!live
<1>13. CASE warm!DiscardClaim(p)
  BY <1>13, <1>0 DEF warm!DiscardClaim, warm!Goto, warm!End, warm!Release, warm!live
<1>14. CASE warm!Recover(p)
  BY <1>14, <1>0 DEF warm!Recover, warm!CallersOwn, warm!Goto, warm!End, warm!Release
<1>15. CASE warm!MakeDirectory(p)
  BY <1>15, <1>0 DEF warm!MakeDirectory, warm!Goto, warm!End, warm!Release
<1>16. CASE warm!WriteBacklink(p)
  BY <1>16, <1>0 DEF warm!WriteBacklink, warm!Goto, warm!End, warm!Release, warm!GiveUp
<1>17. CASE warm!RestoreFiles(p)
  BY <1>17, <1>0 DEF warm!RestoreFiles, warm!Goto, warm!End, warm!Release, warm!GiveUp, warm!live,
    warm!indexFree
<1>18. CASE warm!PruneRegistration(p)
  BY <1>18, <1>0 DEF warm!PruneRegistration, warm!Goto, warm!End, warm!Release
<1>19. CASE warm!PruneStale(p)
  BY <1>19, <1>0 DEF warm!PruneStale, warm!Goto, warm!End, warm!Release, warm!live
<1>20. CASE warm!Quarantine(p)
  BY <1>20, <1>0 DEF warm!Quarantine, warm!Goto, warm!End, warm!Release
<1>21. CASE warm!RenameAway(p)
  BY <1>21, <1>0 DEF warm!RenameAway, warm!Goto, warm!End, warm!Release, warm!live
<1>22. CASE Dies(p) BY <1>22, <1>0 DEF Dies, warm!Goto, warm!End, warm!Release
<1>99. QED
  BY <1>1, <1>2, <1>3, <1>4, <1>5, <1>6, <1>7, <1>8, <1>9, <1>10, <1>11, <1>12, <1>13, <1>14,
    <1>15, <1>16, <1>17, <1>18, <1>19, <1>20, <1>21, <1>22 DEF WarmStep

\* What people and native Git do to the path.
Outside == \/ warm!EditFiles \/ warm!DeleteTree \/ warm!PutDirectory \/ warm!TakeRegistration
           \/ warm!NativeRemove

\* Nobody but a preparation gives a registration its native lock or its marker.
LEMMA OutsideChanges ==
    ASSUME Assumption, warm!WarmInv, Outside
    PROVE  /\ UNCHANGED <<s3, s4, s5, s6, s7, s8, s9, s12>> /\ s11' = s11 + 1
           /\ RegIs(s1)' /\ TreeIs(s2)' /\ s10' \in s10..MaxMade /\ s2'.id <= s10'
           /\ \/ s1'.id = s1.id /\ s1'.marker = s1.marker /\ (s1'.lock = "own" <=> s1.lock = "own")
              \/ s1' = warm!NoReg /\ s1.lock # "own"
           /\ s2'.files \notin {"bare", "partial"} \/ s2'.files = s2.files
<1>0. /\ RegIs(s1) /\ TreeIs(s2) /\ s10 \in 0..MaxMade /\ s2.id <= s10
      /\ RegIs(warm!NoReg) /\ TreeIs(warm!NoTree) /\ warm!NoTree.id = 0 /\
          warm!NoTree.files = "missing"
      /\ MaxMade \in Nat
  BY WarmTypes, NothingIs, NothingThere DEF warm!WarmInv, warm!Numbered, Assumption,
    WarmAssumption
<1> USE DEF RegIs, TreeIs, warm!Touch, warm!Others
<1>1. CASE warm!EditFiles BY <1>0, <1>1, LiveIs DEF warm!EditFiles
<1>2. CASE warm!DeleteTree BY <1>0, <1>2 DEF warm!DeleteTree
<1>3. CASE warm!PutDirectory BY <1>0, <1>3 DEF warm!PutDirectory
<1>4. CASE warm!TakeRegistration
  <2>1. s1.id # 0
    <3>1. s1 = [id |-> s1.id, lock |-> s1.lock, marker |-> s1.marker, identity |-> s1.identity,
                attached |-> s1.attached, indexLock |-> s1.indexLock] BY <1>0
    <3>2. s1 # warm!NoReg BY <1>4 DEF warm!TakeRegistration
    <3>3. QED BY <1>0, <3>2
  <2>2. \/ s1.lock = "none" /\ s1' = [s1 EXCEPT !.lock = "other"]
        \/ s1' = [s1 EXCEPT !.attached = TRUE]
        \/ s1' = [s1 EXCEPT !.identity = TRUE]
    BY <1>4 DEF warm!TakeRegistration
  <2>3. RegIs(s1)' /\ s1'.id = s1.id /\ s1'.marker = s1.marker /\ (s1'.lock = "own" <=>
      s1.lock = "own")
    BY <1>0, <2>1, <2>2 DEF Locks
  <2>4. QED BY <1>0, <1>4, <2>3 DEF warm!TakeRegistration
<1>5. CASE warm!NativeRemove BY <1>0, <1>5 DEF warm!NativeRemove
<1>6. QED BY <1>1, <1>2, <1>3, <1>4, <1>5 DEF Outside

\* So a process still knows what it knew.
LEMMA OutsideStep ==
    ASSUME Assumption, warm!WarmInv, Outside
    PROVE  warm!WarmInv'
<1>0. /\ warm!TypeOK /\ warm!Numbered /\ s11 \in Nat /\ MaxMade \in Nat /\ s10 \in 0..MaxMade
      /\ s1.id \in Nat /\ s2.id \in Nat /\ RegIs(s1)
  BY WarmTypes DEF warm!WarmInv, Assumption, WarmAssumption, RegIs, TreeIs
<1>1. /\ UNCHANGED <<s3, s4, s5, s6, s7, s8, s9, s12>> /\ s11' = s11 + 1
      /\ RegIs(s1)' /\ TreeIs(s2)' /\ s10' \in s10..MaxMade /\ s2'.id <= s10'
      /\ \/ s1'.id = s1.id /\ s1'.marker = s1.marker /\ (s1'.lock = "own" <=> s1.lock = "own")
         \/ s1' = warm!NoReg /\ s1.lock # "own"
      /\ s2'.files \notin {"bare", "partial"} \/ s2'.files = s2.files
  BY OutsideChanges
<1>2. warm!TypeOK'
  <2>1. s10' \in 0..MaxMade BY <1>0, <1>1
  <2>2. /\ {s3, s4} \subseteq warm!Workers \cup {Nobody}
        /\ s5 \in [warm!Workers -> Labels] /\ s6 \in [warm!Workers -> 0..MaxMade]
    BY <1>0, WarmTypes
  <2>3. QED BY <1>1, <2>1, <2>2, WarmTypesNext
<1>3. s1'.id \in {s1.id, 0} BY <1>1, NothingThere
<1>4. (warm!Numbered)'
  <2>1. s8' \subseteq {"spare", "made", "quarantined"} \X (1..s10')
    BY <1>0, <1>1 DEF warm!Numbered
  <2>2. s1'.id <= s10' BY <1>0, <1>1, <1>3 DEF warm!Numbered
  <2>3. s1'.marker # "none" \/ s1'.lock = "own" => (warm!IsSpare)'
    BY <1>0, <1>1, NothingThere DEF warm!Numbered, warm!IsSpare
  <2>4. QED BY <1>1, <2>1, <2>2, <2>3 DEF warm!Numbered
<1>5. (warm!ClaimsAreComplete)' /\ (warm!OthersAreSpared)'
  BY <1>1 DEF warm!WarmInv, warm!ClaimsAreComplete, warm!OthersAreSpared
<1>6. ASSUME NEW p \in warm!Workers PROVE warm!Knows(p)'
  <2>1. warm!Knows(p) /\ s8 \subseteq {"spare", "made", "quarantined"} \X (1..s10)
    BY DEF warm!WarmInv, warm!Numbered
  <2>2. <<"spare", s6[p]>> \in s8 => s6[p] # 0 BY <1>0, <2>1
  <2>3. s5'[p] = "mark" /\ s1'.id = s6'[p] => s1'.marker # "ready"
    BY <1>1, <2>1, <2>2, NothingThere DEF warm!Knows, warm!Preparing
  <2>4. s5'[p] \in warm!Preparing \ {"inspect", "create", "mark"} /\ s1'.id = s6'[p] =>
      s1'.marker = "preparing"
    BY <1>1, <2>1, <2>2, NothingThere DEF warm!Knows, warm!Preparing
  <2>5. s5'[p] \in warm!Unscoped => s1'.id = s6'[p] /\ s1'.lock = "own"
    BY <1>1, <2>1 DEF warm!Knows
  <2>6. s5'[p] \in warm!OfClaim =>
          /\ \A q \in warm!Workers : s5'[q] \notin warm!Unscoped
          /\ s2'.files \notin {"bare", "partial"}
          /\ s1' = warm!NoReg \/ (warm!IsSpare)'
          /\ s6'[p] # 0
    <3>1. s1 = warm!NoReg => s1'.id = 0 BY <1>3, NothingThere
    <3>2. s1'.id = 0 => s1' = warm!NoReg BY <1>1 DEF RegIs
    <3>3. s1'.id = s1.id /\ warm!IsSpare => (warm!IsSpare)' BY <1>1 DEF warm!IsSpare
    <3>4. QED BY <1>1, <1>3, <2>1, <3>1, <3>2, <3>3 DEF warm!Knows
  <2>7. QED BY <1>1, <2>1, <2>3, <2>4, <2>5, <2>6 DEF warm!Knows
<1>7. s11' # 0 /\ s11' \in Nat BY <1>0, <1>1
<1>8. QED BY <1>2, <1>4, <1>5, <1>6, <1>7 DEF warm!WarmInv

\* Nor are more numbers handed out than there are.
LEMMA StepMade ==
    ASSUME Assumption, warm!TypeOK, NEW p \in warm!Workers, WarmStep(p)
    PROVE  s10' \in 0..MaxMade
<1> USE WarmTypes, NumbersLeft
<1>1. CASE warm!PrepareWarm(p) BY <1>1 DEF warm!PrepareWarm, warm!Goto, warm!End, warm!Release
<1>2. CASE warm!InspectSpare(p)
  BY <1>2 DEF warm!InspectSpare, warm!Goto, warm!End, warm!Release, warm!warmState,
    warm!spareState, warm!requireStaleSpare
<1>3. CASE warm!CreateSpare(p)
  BY <1>3 DEF warm!CreateSpare, warm!Goto, warm!End, warm!Release, warm!Registration
<1>4. CASE warm!MarkPreparing(p) BY <1>4 DEF warm!MarkPreparing, warm!Goto, warm!End, warm!Release
<1>5. CASE warm!LockSpare(p) BY <1>5 DEF warm!LockSpare, warm!Goto, warm!End, warm!Release
<1>6. CASE warm!StartReset(p) BY <1>6 DEF warm!StartReset, warm!Goto, warm!End, warm!Release
<1>7. CASE warm!FinishReset(p) BY <1>7 DEF warm!FinishReset, warm!Goto, warm!End, warm!Release
<1>8. CASE warm!UnlockSpare(p)
  BY <1>8 DEF warm!UnlockSpare, warm!Goto, warm!End, warm!Release, warm!warmState, warm!spareState
<1>9. CASE warm!MarkReady(p) BY <1>9 DEF warm!MarkReady, warm!Goto, warm!End, warm!Release
<1>10. CASE warm!ClaimWarm(p)
  BY <1>10 DEF warm!ClaimWarm, warm!Goto, warm!End, warm!Release, warm!warmState, warm!spareState,
    warm!clean
<1>11. CASE warm!CheckoutClaim(p)
  BY <1>11 DEF warm!CheckoutClaim, warm!Goto, warm!End, warm!Release
<1>12. CASE warm!MoveClaim(p) BY <1>12 DEF warm!MoveClaim, warm!Goto, warm!End, warm!Release
<1>13. CASE warm!DiscardClaim(p) BY <1>13 DEF warm!DiscardClaim, warm!Goto, warm!End, warm!Release
<1>14. CASE warm!Recover(p)
  BY <1>14 DEF warm!Recover, warm!CallersOwn, warm!Goto, warm!End, warm!Release
<1>15. CASE warm!MakeDirectory(p)
  BY <1>15 DEF warm!MakeDirectory, warm!Goto, warm!End, warm!Release
<1>16. CASE warm!WriteBacklink(p)
  BY <1>16 DEF warm!WriteBacklink, warm!Goto, warm!End, warm!Release, warm!GiveUp
<1>17. CASE warm!RestoreFiles(p)
  BY <1>17 DEF warm!RestoreFiles, warm!Goto, warm!End, warm!Release, warm!GiveUp
<1>18. CASE warm!PruneRegistration(p)
  BY <1>18 DEF warm!PruneRegistration, warm!Goto, warm!End, warm!Release
<1>19. CASE warm!PruneStale(p) BY <1>19 DEF warm!PruneStale, warm!Goto, warm!End, warm!Release
<1>20. CASE warm!Quarantine(p) BY <1>20 DEF warm!Quarantine, warm!Goto, warm!End, warm!Release
<1>21. CASE warm!RenameAway(p) BY <1>21 DEF warm!RenameAway, warm!Goto, warm!End, warm!Release
<1>22. CASE Dies(p) BY <1>22 DEF Dies, warm!Goto, warm!End, warm!Release
<1>99. QED
  BY <1>1, <1>2, <1>3, <1>4, <1>5, <1>6, <1>7, <1>8, <1>9, <1>10, <1>11, <1>12, <1>13, <1>14,
    <1>15, <1>16, <1>17, <1>18, <1>19, <1>20, <1>21, <1>22 DEF WarmStep

\* A step or the death of a process keeps the invariant.
LEMMA WorkersStep ==
    ASSUME Assumption, warm!WarmInv, NEW p \in warm!Workers, WarmStep(p)
    PROVE  warm!WarmInv'
<1>1. warm!TypeOK BY DEF warm!WarmInv
<1>2. warm!TypeOK'
  <2>1. RegIs(s1)' /\ TreeIs(s2)' BY <1>1, StepRegs, StepTrees
  <2>2. /\ s5' \in [warm!Workers -> Labels] /\ s6' \in [warm!Workers -> 0..MaxMade]
        /\ s3' \in {s3, p, Nobody} /\ s4' \in {s4, p, Nobody}
    BY <1>1, StepFrame
  <2>3. s10' \in 0..MaxMade BY <1>1, StepMade
  <2>4. {s3, s4} \subseteq warm!Workers \cup {Nobody} BY <1>1, WarmTypes
  <2>5. {s3', s4'} \subseteq warm!Workers \cup {Nobody} BY <2>2, <2>4
  <2>6. QED BY <2>1, <2>2, <2>3, <2>5, WarmTypesNext
<1>3. (warm!Numbered)' BY StepNumbers
<1>4. (warm!ClaimsAreComplete)' /\ (warm!OthersAreSpared)' BY StepHistories
<1>5. ASSUME NEW q \in warm!Workers PROVE warm!Knows(q)' BY OwnStep, OtherKnows
<1>6. s11' = s11 BY <1>1, StepFrame
<1>7. s11' = 0 => (warm!SpareIsUsable)' /\ \A q \in warm!Workers : warm!Calm(q)'
  <2> SUFFICES ASSUME s11' = 0 PROVE (warm!SpareIsUsable)' /\ \A q \in warm!Workers : warm!Calm(q)'
    OBVIOUS
  <2>1. s11 = 0 BY <1>6
  <2>2. (warm!SpareIsUsable)' BY <2>1, StepUsable
  <2>3. ASSUME NEW q \in warm!Workers PROVE warm!Calm(q)' BY <2>1, OwnCalm, OtherCalm
  <2>4. QED BY <2>2, <2>3
<1>8. s11' \in Nat BY <1>6 DEF warm!WarmInv
<1>9. QED BY <1>2, <1>3, <1>4, <1>5, <1>7, <1>8 DEF warm!WarmInv

\* No process has begun.
LEMMA InitWarm == ASSUME Assumption, warm!Init PROVE warm!WarmInv
<1>1. /\ s1 \in {warm!NoReg, [warm!Registration(1, "none", TRUE) EXCEPT !.identity = TRUE],
                 warm!Registration(1, "none", FALSE)}
      /\ s2 = warm!NoTree /\ s3 = Nobody /\ s4 = Nobody /\ s10 = s1.id /\ s11 = 0
      /\ s5 = [p \in warm!Workers |-> "idle"] /\ s6 = [p \in warm!Workers |-> 0]
      /\ s7 = {} /\ s8 = {} /\ s9 = {}
  BY DEF warm!Init
<1>2. RegIs(s1) /\ s1.lock = "none" /\ s1.marker = "none" /\ s1.id \in 0..1 /\ TreeIs(s2) /\
    s2.id = 0
  <2>1. RegIs(warm!Registration(1, "none", FALSE))
    BY DEF RegIs, Locks, Markers, warm!Registration, Assumption, WarmAssumption
  <2>2. RegIs([warm!Registration(1, "none", TRUE) EXCEPT !.identity = TRUE])
    <3> DEFINE r == warm!Registration(1, "none", TRUE)
               n == [r EXCEPT !.identity = TRUE]
    <3>1. RegIs(r) /\ r.id = 1
      BY DEF r, RegIs, Locks, Markers, warm!Registration, Assumption, WarmAssumption
    <3> HIDE DEF r
    <3>2. n \in [id : 0..MaxMade, lock : Locks, marker : Markers, identity : BOOLEAN,
                 attached : BOOLEAN, indexLock : BOOLEAN] /\ n.id = 1
      BY <3>1 DEF RegIs
    <3>3. RegIs(n) BY <3>2 DEF RegIs
    <3>4. QED BY <3>3 DEF r
  <2>3. s1.lock = "none" /\ s1.marker = "none" /\ s1.id \in 0..1
    BY <1>1, NothingThere DEF warm!Registration
  <2>4. QED BY <1>1, <2>1, <2>2, <2>3, NothingIs, NothingThere
<1>3. warm!TypeOK
  BY <1>1, <1>2, WarmTypes, Assumption DEF Labels, Assumption, WarmAssumption
<1>4. warm!Numbered BY <1>1, <1>2 DEF warm!Numbered
<1>5. \A p \in warm!Workers : warm!Knows(p) /\ warm!Calm(p)
  BY <1>1 DEF warm!Knows, warm!Calm, warm!Preparing, warm!InScope, warm!Unscoped, warm!OfClaim
<1>6. warm!SpareIsUsable BY <1>1 DEF warm!SpareIsUsable, warm!IsSpare
<1>7. QED
  BY <1>1, <1>3, <1>4, <1>5, <1>6 DEF warm!WarmInv, warm!ClaimsAreComplete, warm!OthersAreSpared

\* WarmInv is inductive.
LEMMA NextWarm ==
    ASSUME Assumption, warm!WarmInv, [warm!Next]_(warm!vars)
    PROVE  warm!WarmInv'
<1>1. ASSUME NEW p \in warm!Workers, WarmStep(p) PROVE warm!WarmInv' BY <1>1, WorkersStep
<1>2. CASE warm!Crash
  <2>1. PICK p \in warm!Workers : warm!End(p) BY <1>2 DEF warm!Crash
  <2>2. Dies(p) BY <1>2, <2>1 DEF warm!Crash, Dies
  <2>3. QED BY <1>1, <2>2 DEF WarmStep
<1>3. CASE Outside BY <1>3, OutsideStep
<1>4. CASE \E p \in Warmers : \/ warm!PrepareWarm(p) \/ warm!InspectSpare(p) \/ warm!CreateSpare(p)
                              \/ warm!MarkPreparing(p) \/ warm!LockSpare(p) \/ warm!StartReset(p)
                              \/ warm!FinishReset(p) \/ warm!UnlockSpare(p) \/ warm!MarkReady(p)
  BY <1>1, <1>4 DEF WarmStep, warm!Workers
<1>5. CASE \E p \in Claimers : warm!ClaimWarm(p) \/ warm!CheckoutClaim(p) \/ warm!MoveClaim(p) \/
    warm!DiscardClaim(p)
  BY <1>1, <1>5 DEF WarmStep, warm!Workers
<1>6. CASE \E p \in Recoverers : warm!Recover(p) \/ warm!MakeDirectory(p) \/
    warm!WriteBacklink(p) \/ warm!RestoreFiles(p)
  BY <1>1, <1>6 DEF WarmStep, warm!Workers
<1>7. CASE \E p \in Pruners : warm!PruneRegistration(p) \/ warm!PruneStale(p)
  BY <1>1, <1>7 DEF WarmStep, warm!Workers
<1>8. CASE \E p \in Movers : warm!Quarantine(p) \/ warm!RenameAway(p)
  BY <1>1, <1>8 DEF WarmStep, warm!Workers
<1>9. CASE UNCHANGED warm!vars
  BY <1>9 DEF warm!vars, warm!WarmInv, warm!TypeOK, warm!Numbered, warm!ClaimsAreComplete,
    warm!OthersAreSpared, warm!SpareIsUsable, warm!IsSpare, warm!Calm, warm!Knows
<1>10. QED BY <1>2, <1>3, <1>4, <1>5, <1>6, <1>7, <1>8, <1>9 DEF warm!Next, Outside

\* What the invariant says of spares.
LEMMA WarmIsSafe == ASSUME Assumption, warm!WarmInv PROVE warm!SparesAreSafe
<1>0. warm!TypeOK /\ warm!Numbered /\ RegIs(s1) /\ TreeIs(s2) BY WarmTypes DEF warm!WarmInv
<1>1. warm!ResetIsUndisturbed
  <2> SUFFICES ASSUME NEW p \in Warmers, s5[p] \in {"reset", "filling", "recheck"}
               PROVE  /\ s1 # warm!NoReg /\ s1.id = s6[p] /\ s1.lock = "own"
                      /\ \A q \in warm!Workers \ {p} :
                           s5[q] \notin {"create", "mark", "lock", "reset", "filling", "recheck",
                                         "ready", "checkout", "move", "discard"}
    BY DEF warm!ResetIsUndisturbed
  <2>1. p \in warm!Workers /\ warm!Knows(p) BY DEF warm!Workers, warm!WarmInv
  <2>2. s1.id = s6[p] /\ s1.lock = "own" /\ s3 = p
    BY <2>1 DEF warm!Knows, warm!Unscoped, warm!Preparing
  <2>3. s1 # warm!NoReg BY <2>2, NothingThere
  <2>4. ASSUME NEW q \in warm!Workers, q # p
        PROVE  s5[q] \notin {"create", "mark", "lock", "reset", "filling", "recheck",
                             "ready", "checkout", "move", "discard"}
    <3>1. warm!Knows(q) BY DEF warm!WarmInv
    <3>2. s5[q] \notin warm!Preparing BY <2>2, <2>4, <3>1 DEF warm!Knows
    <3>3. s5[q] \notin warm!OfClaim BY <2>1, <3>1 DEF warm!Knows, warm!Unscoped
    <3>4. QED BY <3>2, <3>3 DEF warm!Preparing, warm!OfClaim
  <2>5. QED BY <2>2, <2>3, <2>4
<1>2. warm!InterruptedSparesAreUsable
  <2> SUFFICES ASSUME s11 = 0, warm!IsSpare, ~s1.attached
               PROVE  \/ warm!warmState = "ready" /\ s1.lock = "none" /\ warm!clean /\
                          warm!indexFree
                      \/ warm!warmState = "preparing" /\ s1.lock # "other"
                      \/ s2 = warm!NoTree /\ warm!requireStaleSpare(s1)
    BY DEF warm!InterruptedSparesAreUsable, warm!IsSpare
  <2>1. warm!SpareIsUsable BY DEF warm!WarmInv
  <2>2. ~s1.identity /\ s1.lock # "other" /\ (s1.marker # "none" \/ s1.lock = "own")
    BY <2>1 DEF warm!SpareIsUsable
  <2>3. s1.id # 0
    BY <1>0, WarmTypes DEF warm!IsSpare, warm!Numbered, Assumption, WarmAssumption
  <2>4. warm!spareState(s1) # "" /\ warm!spareState(s1) \in {"ready", "preparing"}
    BY <1>0, <2>2 DEF warm!spareState, RegIs, Markers
  <2>5. CASE s2 = warm!NoTree BY <2>2, <2>4, <2>5 DEF warm!requireStaleSpare
  <2>6. CASE s2 # warm!NoTree
    <3>1. s2.files \in warm!Filled BY <2>1, <2>6 DEF warm!SpareIsUsable
    <3>2. warm!live BY <2>3, <3>1, NothingThere DEF warm!live
    <3>3. warm!warmState = warm!spareState(s1) BY <3>2 DEF warm!warmState
    <3>4. warm!spareState(s1) = "ready" => s1.marker = "ready" BY <2>2 DEF warm!spareState
    <3>5. s1.marker = "ready" => s1.lock = "none" /\ ~s1.indexLock /\ s2.files = "full"
      BY <2>1, <2>6 DEF warm!SpareIsUsable
    <3>6. QED BY <2>2, <2>4, <3>3, <3>4, <3>5 DEF warm!clean, warm!indexFree
  <2>7. QED BY <2>5, <2>6
<1>3. QED BY <1>1, <1>2 DEF warm!SparesAreSafe, warm!WarmInv

-----------------------------------------------------------------------------
(* BaseSync, for any bounds.  BaseInv is inductive: past the reading of    *)
(* the branch the old tip is in the history of the source or in a backup,  *)
(* and native Git only ever adds to the history of a commit; of a sync     *)
(* that nobody disturbed everything it read is still so.                   *)

Goals == {"idle", "source", "local", "backup", "check", "write", "refused"}
Outcomes == {"none", "nil", "error"}
SyncIs(j) ==
    j \in [pc : Goals, outcome : Outcomes, managed : BOOLEAN, remote : base!Made \cup {0},
           local : base!Made \cup {0}, late : BOOLEAN, quiet : BOOLEAN]

\* The instance counts as the library does.
LEMMA BaseCardinality == ASSUME NEW S PROVE base!Cardinality(S) = Cardinality(S)
  BY DEF base!Cardinality, Cardinality

\* A new commit takes the next number, and leaves the history of the others alone.
LEMMA CommitsExtend ==
    ASSUME Assumption, base!TypeOK, NEW old \in base!Made, base!Commits(old)
    PROVE  /\ base!Made \subseteq base!Made' /\ 0 \notin base!Made'
           /\ (base!Made \in {1..n : n \in 1..MaxCommits})'
           /\ (\A c \in base!Made : s1[c] \in 0..(c - 1))'
           /\ \A c \in base!Made : base!History(c) \subseteq (base!History(c))'
<1>1. PICK n \in 1..MaxCommits : base!Made = 1..n BY DEF base!TypeOK
<1>2. base!Cardinality(base!Made) = n
  <2>1. Cardinality(1..n) = n BY FS_Interval
  <2>2. QED BY <1>1, <2>1, BaseCardinality
<1>3. /\ n + 1 <= MaxCommits
      /\ s1' = [c \in 1..(n + 1) |-> IF c = n + 1 THEN old ELSE s1[c]]
      /\ base!Made' = 1..(n + 1)
  <2>1. base!Made \cup {n + 1} = 1..(n + 1) BY <1>1
  <2>2. /\ n + 1 <= MaxCommits
        /\ s1' = [c \in 1..(n + 1) |-> IF c = n + 1 THEN old ELSE s1[c]]
    BY <1>2, <2>1 DEF base!Commits
  <2>3. QED BY <2>2 DEF base!Made
<1>4. \A c \in 1..n : s1[c] \in 0..(c - 1) BY <1>1 DEF base!TypeOK
<1>5. \A c \in 1..(n + 1) : s1'[c] \in 0..(c - 1) BY <1>1, <1>3, <1>4
<1>6. n + 1 \in 1..MaxCommits BY <1>3, Assumption DEF Assumption, BaseAssumption
<1>7. ASSUME NEW c \in base!Made, NEW d \in base!History(c) PROVE d \in (base!History(c))'
  <2>1. d \in base!Made' /\ c # 0 BY <1>1, <1>3, <1>7 DEF base!History
  <2>2. ASSUME NEW S \in SUBSET (base!Made'), c \in S, \A x \in S : s1'[x] # 0 => s1'[x] \in S
        PROVE  d \in S
    <3> DEFINE T == S \cap base!Made
    <3>1. c \in T /\ T \in SUBSET base!Made BY <2>2
    <3>2. ASSUME NEW x \in T, s1[x] # 0 PROVE s1[x] \in T
      <4>1. x \in 1..n /\ s1'[x] = s1[x] BY <1>1, <1>3
      <4>2. s1[x] \in 0..(x - 1) BY <1>4, <4>1
      <4>3. s1[x] \in 1..n BY <3>2, <4>1, <4>2
      <4>4. QED BY <1>1, <2>2, <3>2, <4>1, <4>3
    <3>3. d \in T BY <1>7, <3>1, <3>2 DEF base!History, base!WithParents
    <3>4. QED BY <3>3
  <2>3. QED BY <2>1, <2>2 DEF base!History, base!WithParents
<1>8. QED BY <1>1, <1>3, <1>5, <1>6, <1>7

\* No sync is one that knows nothing.
LEMMA NoSyncIs == /\ SyncIs(base!NoSync) /\ base!NoSync.pc = "idle" /\ base!NoSync.late = FALSE
                  /\ base!NoSync.quiet = FALSE
BY DEF base!NoSync, SyncIs, Goals, Outcomes

\* No sync is under way at first.
LEMMA InitBase == ASSUME Assumption, base!Init PROVE base!BaseInv
<1>1. base!Made = 1..1 /\ 1 \in 1..MaxCommits /\ s1[1] = 0
  BY DEF base!Init, base!Made, Assumption, BaseAssumption
<1>2. base!TypeOK
  <2>1. base!Made \in {1..n : n \in 1..MaxCommits} BY <1>1
  <2>2. \A c \in base!Made : s1[c] \in 0..(c - 1) BY <1>1
  <2>3. SyncIs(s7) BY DEF base!Init, base!NoSync, SyncIs, Goals, Outcomes
  <2>4. s8 \in 0..MaxSyncs /\ s9 \in 0..MaxWrites
    BY DEF base!Init, Assumption, BaseAssumption
  <2>5. s2 \in base!Made \cup {0} /\ s3 \in base!Made \cup {0} /\ s4 \subseteq base!Made
        /\ s5 \in BOOLEAN /\ s6 \in BOOLEAN
    <3>1. 1 \in base!Made BY <1>1
    <3>2. QED BY <3>1 DEF base!Init
  <2>6. QED BY <2>1, <2>2, <2>3, <2>4, <2>5 DEF base!TypeOK, SyncIs, Goals, Outcomes
<1>3. QED BY <1>2 DEF base!Init, base!NoSync, base!BaseInv, base!SyncIsSound, base!QuietIsAsRead,
  base!OutcomeIsTrue

\* A step of the sync.
SyncStep == \/ base!Begin \/ base!ReadSource \/ base!ReadBranch \/ base!Backup \/
                base!CheckWorktrees
            \/ base!UpdateRef \/ base!ExplainRefusal \/ base!Cancel

\* A sync keeps the types.
LEMMA SyncTypes == ASSUME Assumption, base!BaseInv, SyncStep PROVE base!TypeOK'
<1>1. /\ SyncIs(s7) /\ s2 \in base!Made \cup {0} /\ s3 \in base!Made \cup {0}
      /\ s4 \subseteq base!Made /\ s8 \in 0..MaxSyncs /\ MaxSyncs \in Nat /\ base!TypeOK
      /\ s7.pc = "backup" => s7.local # 0
  BY DEF base!BaseInv, base!SyncIsSound, base!TypeOK, SyncIs, Goals, Outcomes, Assumption,
    BaseAssumption
<1>2. UNCHANGED <<s1, s3, s5, s6, s9>> /\ base!Made' = base!Made
  BY DEF SyncStep, base!Begin, base!ReadSource, base!ReadBranch, base!Backup, base!CheckWorktrees,
    base!UpdateRef, base!ExplainRefusal, base!Cancel, base!repository, base!Made
<1>3. SyncIs(s7') /\ s2' \in base!Made \cup {0} /\ s8' \in 0..MaxSyncs /\ s4' \subseteq base!Made
  <2> USE <1>1 DEF base!repository, base!Goto, base!Ends, SyncIs, Goals, Outcomes
  <2>1. CASE base!Begin
    <3>1. PICK managed \in BOOLEAN :
            s7' = [base!NoSync EXCEPT !.pc = "source", !.managed = managed, !.quiet = TRUE]
      BY <2>1 DEF base!Begin
    <3>2. SyncIs(s7') BY <3>1, NoSyncIs
    <3>3. QED BY <2>1, <3>2 DEF base!Begin
  <2>2. CASE base!ReadSource
    <3>1. CASE s7' = [s7 EXCEPT !.pc = "idle", !.outcome = "nil"] BY <2>2, <3>1 DEF base!ReadSource
    <3>2. CASE s7' = [s7 EXCEPT !.pc = "local", !.remote = s3] BY <2>2, <3>2 DEF base!ReadSource
    <3>3. QED BY <2>2, <3>1, <3>2 DEF base!ReadSource
  <2>3. CASE base!ReadBranch
    <3>1. \/ s7' = [s7 EXCEPT !.pc = "idle", !.outcome = "nil"]
          \/ s7' = [s7 EXCEPT !.local = s2, !.pc = "check"]
          \/ s7' = [s7 EXCEPT !.local = s2, !.pc = "backup"]
      BY <2>3 DEF base!ReadBranch
    <3>2. SyncIs([s7 EXCEPT !.pc = "idle", !.outcome = "nil"]) OBVIOUS
    <3>3. SyncIs([s7 EXCEPT !.local = s2, !.pc = "check"]) OBVIOUS
    <3>4. SyncIs([s7 EXCEPT !.local = s2, !.pc = "backup"]) OBVIOUS
    <3>5. SyncIs(s7') BY <3>1, <3>2, <3>3, <3>4
    <3>6. QED BY <2>3, <3>5 DEF base!ReadBranch
  <2>4. CASE base!Backup BY <2>4 DEF base!Backup
  <2>5. CASE base!CheckWorktrees BY <2>5 DEF base!CheckWorktrees
  <2>6. CASE base!UpdateRef BY <2>6 DEF base!UpdateRef
  <2>7. CASE base!ExplainRefusal BY <2>7 DEF base!ExplainRefusal
  <2>8. CASE base!Cancel BY <2>8 DEF base!Cancel
  <2>9. QED BY <2>1, <2>2, <2>3, <2>4, <2>5, <2>6, <2>7, <2>8 DEF SyncStep
<1>4. QED BY <1>1, <1>2, <1>3 DEF base!TypeOK, SyncIs, Goals, Outcomes

\* A sync keeps what it relies on.
LEMMA SyncKeeps ==
    ASSUME Assumption, base!BaseInv, SyncStep
    PROVE  (base!SyncIsSound /\ base!QuietIsAsRead /\ base!OutcomeIsTrue)'
<1>1. /\ SyncIs(s7) /\ base!SyncIsSound /\ base!QuietIsAsRead /\ s8 \in Nat /\ base!OutcomeIsTrue
      /\ s5 \in BOOLEAN
  BY DEF base!BaseInv, base!TypeOK, SyncIs, Goals, Outcomes, Assumption, BaseAssumption
<1>2. UNCHANGED <<s1, s3, s5, s6, s9>> /\ \A c : (base!History(c))' = base!History(c)
  BY DEF SyncStep, base!Begin, base!ReadSource, base!ReadBranch, base!Backup, base!CheckWorktrees,
    base!UpdateRef, base!ExplainRefusal, base!Cancel, base!repository, base!History, base!Made,
    base!WithParents
<1> USE <1>1, <1>2 DEF base!SyncIsSound, base!QuietIsAsRead, base!OutcomeIsTrue, base!repository,
        base!Goto, base!Ends, SyncIs
<1>3. CASE base!Begin BY <1>3, NoSyncIs DEF base!Begin
<1>4. CASE base!ReadSource
  <2>1. CASE s3 = 0 /\ s7' = [s7 EXCEPT !.pc = "idle", !.outcome = "nil"]
    BY <1>4, <2>1 DEF base!ReadSource
  <2>2. CASE s7' = [s7 EXCEPT !.pc = "local", !.remote = s3] BY <1>4, <2>2 DEF base!ReadSource
  <2>3. QED BY <1>4, <2>1, <2>2 DEF base!ReadSource
<1>5. CASE base!ReadBranch
  <2>1. CASE /\ s7' = [s7 EXCEPT !.pc = "idle", !.outcome = "nil"]
             /\ s2 = s7.remote \/ (~s7.managed /\ s2 \notin base!History(s7.remote))
    BY <1>5, <2>1 DEF base!ReadBranch
  <2>2. CASE s7' = [s7 EXCEPT !.local = s2, !.pc = "check"] /\ s2 \in base!History(s7.remote) \cup
      {0}
    <3>1. s7'.pc = "check" /\ s7'.local = s2 /\ s7'.remote = s7.remote /\ s7'.quiet = s7.quiet
      BY <2>2
    <3>2. QED BY <1>5, <2>2, <3>1 DEF base!ReadBranch
  <2>3. CASE s7' = [s7 EXCEPT !.local = s2, !.pc = "backup"] /\ s7.managed /\ s2 # 0
    BY <1>5, <2>3 DEF base!ReadBranch
  <2>4. QED BY <1>5, <2>1, <2>2, <2>3 DEF base!ReadBranch
<1>6. CASE base!Backup BY <1>6 DEF base!Backup
<1>7. CASE base!CheckWorktrees
  <2>1. CASE s5 /\ s7' = [s7 EXCEPT !.pc = "idle", !.outcome = "nil"]
    BY <1>7, <2>1 DEF base!CheckWorktrees
  <2>2. CASE ~s5 /\ s7' = [s7 EXCEPT !.pc = "write"] BY <1>7, <2>2 DEF base!CheckWorktrees
  <2>3. QED BY <1>7, <2>1, <2>2 DEF base!CheckWorktrees
<1>8. CASE base!UpdateRef
  <2>1. CASE base!Updates /\ s2' = s7.remote /\ s7' = [s7 EXCEPT !.pc = "idle", !.outcome = "nil"]
    BY <1>8, <2>1 DEF base!UpdateRef
  <2>2. CASE ~base!Updates /\ s2' = s2 /\ s7' = [s7 EXCEPT !.pc = "refused"]
    BY <1>8, <2>2 DEF base!UpdateRef, base!Updates
  <2>3. QED BY <1>8, <2>1, <2>2 DEF base!UpdateRef
<1>9. CASE base!ExplainRefusal BY <1>9 DEF base!ExplainRefusal
<1>10. CASE base!Cancel BY <1>10 DEF base!Cancel
<1>11. QED BY <1>3, <1>4, <1>5, <1>6, <1>7, <1>8, <1>9, <1>10 DEF SyncStep

\* What native Git does meanwhile.
NativeStep == \/ base!Commit \/ base!Fetch \/ base!DeleteSource \/ base!MoveBranch \/
                  base!DeleteBranch
              \/ base!Checkout \/ base!OccupyName

\* It adds commits at most, and tells the sync of nothing.
LEMMA NativeChanges ==
    ASSUME Assumption, base!BaseInv, NativeStep
    PROVE  /\ UNCHANGED s4 /\ s8' = s8 /\ s9' \in 0..MaxWrites
           /\ base!Made \subseteq base!Made' /\ (base!Made \in {1..n : n \in 1..MaxCommits})'
           /\ (\A c \in base!Made : s1[c] \in 0..(c - 1))'
           /\ \A c \in base!Made : base!History(c) \subseteq (base!History(c))'
           /\ s2' \in base!Made' \cup {0} /\ s3' \in base!Made' \cup {0} /\ s5' \in BOOLEAN /\
               s6' \in BOOLEAN
           /\ s7' = [s7 EXCEPT !.quiet = FALSE, !.late = s7'.late] /\ s7'.late \in BOOLEAN
           /\ s7.pc = "write" /\ s5' => s7'.late
<1>0. /\ base!TypeOK /\ SyncIs(s7) /\ s9 \in 0..MaxWrites /\ MaxWrites \in Nat
      /\ s7.pc = "write" /\ s5 => s7.late
  BY DEF base!BaseInv, base!SyncIsSound, base!TypeOK, SyncIs, Goals, Outcomes, Assumption,
    BaseAssumption
<1>1. ASSUME NEW out \in BOOLEAN, base!Disturbs(out), s5' = s5 \/ out = s5', s5' \in BOOLEAN
      PROVE  /\ s7' = [s7 EXCEPT !.quiet = FALSE, !.late = s7'.late] /\ s7'.late \in BOOLEAN
             /\ s7.pc = "write" /\ s5' => s7'.late
  BY <1>0, <1>1 DEF base!Disturbs, SyncIs
<1>2. CASE base!Commit \/ base!Fetch
  <2>1. PICK old \in base!Made : base!Commits(old)
    BY <1>0, <1>2 DEF base!Commit, base!Fetch, base!TypeOK
  <2>2. /\ UNCHANGED <<s4, s5, s6, s8, s9>> /\ base!Disturbs(FALSE)
        /\ s2' \in {s2} \cup base!Made' /\ s3' \in {s3} \cup base!Made'
    BY <1>2 DEF base!Commit, base!Fetch, base!Made
  <2>3. s5 \in BOOLEAN /\ s6 \in BOOLEAN /\ s2 \in base!Made \cup {0} /\ s3 \in base!Made \cup {0}
    BY <1>0 DEF base!TypeOK
  <2>4. /\ s7' = [s7 EXCEPT !.quiet = FALSE, !.late = s7'.late] /\ s7'.late \in BOOLEAN
        /\ s7.pc = "write" /\ s5' => s7'.late
    BY <1>1, <2>2, <2>3
  <2>5. /\ base!Made \subseteq base!Made' /\ (base!Made \in {1..n : n \in 1..MaxCommits})'
        /\ (\A c \in base!Made : s1[c] \in 0..(c - 1))'
        /\ \A c \in base!Made : base!History(c) \subseteq (base!History(c))'
    BY <1>0, <2>1, CommitsExtend
  <2>6. QED BY <1>0, <2>2, <2>3, <2>4, <2>5
<1>3. CASE base!DeleteSource \/ base!MoveBranch \/ base!DeleteBranch \/ base!Checkout \/
    base!OccupyName
  <2>1. /\ s1' = s1 /\ s4' = s4 /\ s8' = s8 /\ s9' = s9 + 1 /\ s9 < MaxWrites
        /\ s2' \in base!Made \cup {0} /\ s3' \in {s3, 0} /\ s6' \in {s6, TRUE}
        /\ (s5' = s5 /\ base!Disturbs(FALSE)) \/ (s5' = ~s5 /\ base!Disturbs(s5'))
    BY <1>0, <1>3 DEF base!DeleteSource, base!MoveBranch, base!DeleteBranch, base!Checkout,
      base!OccupyName, base!Writes, base!TypeOK
  <2>2. s5 \in BOOLEAN /\ s6 \in BOOLEAN /\ s2 \in base!Made \cup {0} /\ s3 \in base!Made \cup {0}
        /\ base!Made \in {1..n : n \in 1..MaxCommits} /\ (\A c \in base!Made : s1[c] \in 0..(c - 1))
    BY <1>0 DEF base!TypeOK
  <2>3. /\ s7' = [s7 EXCEPT !.quiet = FALSE, !.late = s7'.late] /\ s7'.late \in BOOLEAN
        /\ s7.pc = "write" /\ s5' => s7'.late
    BY <1>1, <2>1, <2>2
  <2>4. base!Made' = base!Made /\ \A c : (base!History(c))' = base!History(c)
    BY <2>1 DEF base!Made, base!History, base!WithParents
  <2>5. s9' \in 0..MaxWrites BY <1>0, <2>1
  <2>6. QED BY <2>1, <2>2, <2>3, <2>4, <2>5
<1>4. QED BY <1>2, <1>3 DEF NativeStep

\* And so does native Git.
LEMMA NativeKeeps == ASSUME Assumption, base!BaseInv, NativeStep PROVE base!BaseInv'
<1>0. base!TypeOK /\ SyncIs(s7) /\ base!SyncIsSound /\ s8 \in 0..MaxSyncs /\ s4 \subseteq base!Made
  BY DEF base!BaseInv, base!TypeOK, SyncIs, Goals, Outcomes
<1>1. /\ UNCHANGED s4 /\ s8' = s8 /\ s9' \in 0..MaxWrites
      /\ base!Made \subseteq base!Made' /\ (base!Made \in {1..n : n \in 1..MaxCommits})'
      /\ (\A c \in base!Made : s1[c] \in 0..(c - 1))'
      /\ \A c \in base!Made : base!History(c) \subseteq (base!History(c))'
      /\ s2' \in base!Made' \cup {0} /\ s3' \in base!Made' \cup {0} /\ s5' \in BOOLEAN /\
          s6' \in BOOLEAN
      /\ s7' = [s7 EXCEPT !.quiet = FALSE, !.late = s7'.late] /\ s7'.late \in BOOLEAN
      /\ s7.pc = "write" /\ s5' => s7'.late
  BY NativeChanges
<1>2. /\ s7'.pc = s7.pc /\ s7'.local = s7.local /\ s7'.remote = s7.remote /\
          s7'.managed = s7.managed
      /\ s7'.outcome = s7.outcome /\ s7'.quiet = FALSE
  BY <1>0, <1>1 DEF SyncIs
<1>3. base!TypeOK'
  <2>1. s7.remote \in base!Made \cup {0} /\ s7.local \in base!Made \cup {0} BY <1>0 DEF SyncIs
  <2>2. (s7 \in [pc : Goals, outcome : Outcomes, managed : BOOLEAN, remote : base!Made \cup {0},
                local : base!Made \cup {0}, late : BOOLEAN, quiet : BOOLEAN])'
    BY <1>0, <1>1, <2>1 DEF SyncIs
  <2>3. s4' \subseteq base!Made' BY <1>0, <1>1
  <2>4. QED BY <1>0, <1>1, <2>2, <2>3 DEF base!TypeOK, Goals, Outcomes
<1>4. (base!SyncIsSound)'
  <2>1. s7.local \in base!History(s7.remote) \cup {0} =>
      s7.local \in (base!History(s7.remote))' \cup {0}
    <3>1. s7.remote \in base!Made \cup {0} BY <1>0 DEF SyncIs
    <3>2. base!History(0) = {} BY DEF base!History
    <3>3. CASE s7.remote = 0 BY <3>2, <3>3
    <3>4. CASE s7.remote \in base!Made BY <1>1, <1>2, <3>4
    <3>5. QED BY <3>1, <3>3, <3>4
  <2>2. QED BY <1>0, <1>1, <1>2, <2>1 DEF base!SyncIsSound
<1>5. (base!QuietIsAsRead /\ base!OutcomeIsTrue)' BY <1>2 DEF base!QuietIsAsRead, base!OutcomeIsTrue
<1>6. QED BY <1>3, <1>4, <1>5 DEF base!BaseInv

\* BaseInv is inductive.
LEMMA NextBase == ASSUME Assumption, base!BaseInv, [base!Next]_(base!vars) PROVE
       base!BaseInv'
<1>1. CASE SyncStep BY <1>1, SyncTypes, SyncKeeps DEF base!BaseInv
<1>2. CASE NativeStep BY <1>2, NativeKeeps
<1>3. CASE UNCHANGED base!vars
  <2>1. UNCHANGED <<s1, s2, s3, s4, s5, s6, s7, s8, s9>> BY <1>3 DEF base!vars, base!repository
  <2>2. base!Made' = base!Made BY <2>1 DEF base!Made
  <2>3. ASSUME NEW c PROVE base!History(c)' = base!History(c)
    BY <2>1, <2>2 DEF base!History, base!WithParents
  <2>4. base!TypeOK' BY <2>1, <2>2 DEF base!TypeOK, base!BaseInv
  <2>5. base!SyncIsSound' BY <2>1, <2>3 DEF base!SyncIsSound, base!BaseInv
  <2>6. base!QuietIsAsRead' BY <2>1 DEF base!QuietIsAsRead, base!BaseInv
  <2>7. base!OutcomeIsTrue' BY <2>1, <2>3 DEF base!OutcomeIsTrue, base!BaseInv
  <2>8. QED BY <2>4, <2>5, <2>6, <2>7 DEF base!BaseInv
<1>4. QED BY <1>1, <1>2, <1>3 DEF base!Next, SyncStep, NativeStep

\* A sync moves the branch forward, or leaves the old tip in a backup.
LEMMA BaseMoves == ASSUME Assumption, base!BaseInv PROVE base!HistoryIsKept
<1> SUFFICES ASSUME base!UpdateRef, s2' # s2
             PROVE  /\ \/ s2 \in base!History(s2') \cup {0}
                       \/ s7.managed /\ s2 \in s4
                    /\ s5 => s7.late
  BY DEF base!HistoryIsKept
<1>1. s2' = s7.remote /\ s2 = s7.local /\ s7.pc = "write" BY DEF base!UpdateRef, base!Updates
<1>2. base!SyncIsSound BY DEF base!BaseInv
<1>3. QED BY <1>1, <1>2 DEF base!SyncIsSound

\* A spare is prepared undisturbed, claimed whole, never at somebody else's expense
\* and still of use wherever its preparation was cut short (PrepareWarm, ClaimWarm,
\* Recover, PruneRegistration and Quarantine at one path); a base branch is brought
\* to the source it read, or left for a reason, and no commit of it is lost (SyncBase).
THEOREM SparesAndBasesStaySafe == ASSUME Assumption PROVE ServicesSpec =>
       SparesAndBasesAreSafe
<1> DEFINE Inv == /\ focus = "warm" => warm!WarmInv
                  /\ focus = "base" => base!BaseInv
<1>1. ServicesInit => Inv BY InitWarm, InitBase DEF ServicesInit
<1>2. Inv /\ [ServicesNext]_services => Inv'
  BY NextWarm, NextBase DEF ServicesNext, services, slots, warm!vars, base!vars, base!repository
<1>3. Inv => (focus = "warm" => warm!SparesAreSafe) BY WarmIsSafe
<1>4. Inv => (focus = "base" => base!OutcomeIsTrue) BY DEF base!BaseInv
<1>5. Inv /\ [ServicesNext]_services => [focus = "base" => base!HistoryIsKept]_services
  BY BaseMoves DEF ServicesNext, services, slots
<1>6. QED BY <1>1, <1>2, <1>3, <1>4, <1>5, PTL DEF ServicesSpec, SparesAndBasesAreSafe

-----------------------------------------------------------------------------
(* TmuxSessions, for any generations, directories, openers, removers and   *)
(* bounds.  TmuxInv is inductive: a session that bears a marker bears its  *)
(* own (SessionIsSound) and shares its name with no other (Alone); and a   *)
(* process knows of the session it asked for, made or cleared what its     *)
(* place says (Knows), as long as it has the lock of the repository or the *)
(* worktree is gone.                                                       *)

TmuxProcs == Openers \cup Removers
TmuxStep(p) ==
    \/ tmux!BeginOpen(p) \/ tmux!Resolve(p) \/ tmux!ResolveDegraded(p) \/ tmux!ResolveProtected(p)
    \/ tmux!Ensure(p) \/ tmux!RefuseProtected(p) \/ tmux!Repair(p) \/ tmux!NewSession(p)
    \/ tmux!Bootstrap(p) \/ tmux!BuildPanes(p) \/ tmux!CreateFails(p) \/ tmux!Abort(p)
    \/ tmux!Attach(p) \/ tmux!BeginRemoval(p) \/ tmux!Quiesce(p) \/ tmux!RemoveWorktree(p)
    \/ tmux!RemovalRefused(p) \/ tmux!Sweep(p) \/ tmux!KillBySweep(p) \/ tmux!Inspect(p)
    \/ tmux!Retest(p) \/ tmux!Swept(p) \/ tmux!Die(p)

\* A session after a step of p: one that p made, or one that was there, with the
\* marker it had or that of its own worktree.
StaysMarked(p, s) ==
    /\ s \in tmux!Live /\ s1'[s] \in tmux!Session
    /\ s1'[s].server = s1[s].server /\ s1'[s].name = s1[s].name /\ s1'[s].for = s1[s].for
    /\ \/ s1'[s].gen = s1[s].gen /\ s1'[s].path = s1[s].path
       \/ s4 = p /\ s2[s1[s].for] # None /\ s1'[s].gen = s1[s].for
IsMade(p, s) ==
    /\ s \notin tmux!Live /\ s4 = p /\ s5[p].pc = "create" /\ tmux!At(s5[p]) = {}
    /\ s1'[s] = [server |-> s5[p].server, name |-> s5[p].name, path |-> None, gen |-> None,
                 sweep |-> FALSE, for |-> s5[p].gen, built |-> FALSE]
    /\ \A t \in tmux!Live' : t # s => t \in tmux!Live

\* A job is of the kind its place says.
LEMMA TmuxJobs ==
    ASSUME NEW j \in tmux!Job
    PROVE  /\ j.pc = "idle" => j = tmux!Idle
           /\ j.pc = "resolve" => j \in tmux!Asking
           /\ j.pc \in {"ensure", "repair", "create"} => j \in tmux!Choosing
           /\ j.pc = "opened" => j \in tmux!Choosing \cup tmux!Making
           /\ j.pc \in {"bootstrap", "panes", "abort"} => j \in tmux!Making
           /\ j.pc \in tmux!Servers \cup {"remove", "sweep"} => j \in tmux!Removing
           /\ j.pc = "kill" => j \in tmux!Killing
           /\ j.pc = "inspect" => j \in tmux!Inspecting
           /\ j.pc = "retest" => j \in tmux!Retesting
BY DEF tmux!Job, tmux!Idle, tmux!Asking, tmux!Choosing, tmux!Making, tmux!Removing, tmux!Killing,
  tmux!Inspecting, tmux!Retesting, tmux!Servers, tmux!Shared, tmux!Sockets

\* A name is that of a directory.
LEMMA TmuxNames ==
    ASSUME Assumption, NEW n \in tmux!Names
    PROVE  /\ n[1] \in Directories /\ n # tmux!Mine /\ n \in tmux!Names \cup {tmux!Mine}
           /\ tmux!Mine[1] = None /\ None \notin Directories
BY DEF Assumption, TmuxAssumption, tmux!Names, tmux!Mine

\* What the process has, in one list.
LEMMA TmuxKnown ==
    ASSUME tmux!TmuxInv, NEW p \in TmuxProcs
    PROVE  /\ s5[p] \in tmux!Job /\ tmux!HasLock(p, s5[p]) /\ tmux!AsksForIt(s5[p])
           /\ tmux!HasSession(s5[p]) /\ tmux!HasCleared(s5[p]) /\ tmux!HasListed(s5[p])
BY DEF tmux!TmuxInv, tmux!Knows, TmuxProcs

\* A step of one process leaves the others where they are.
LEMMA TmuxFrame ==
    ASSUME Assumption, tmux!TmuxInv, NEW p \in TmuxProcs, TmuxStep(p)
    PROVE  /\ DOMAIN s5' = TmuxProcs /\ \A q \in TmuxProcs \ {p} : s5'[q] = s5[q]
           /\ s4' \in TmuxProcs \cup {None} /\ (s4' # s4 => s4 \in {p, None} /\ s4' \in {p, None})
           /\ s3' = s3 /\ s6' = s6 /\ s2' \in [Gens -> Directories \cup {None}]
           /\ \A g \in Gens : s2'[g] # s2[g] => s2'[g] = None /\ s4 = p
<1> USE DEF tmux!TmuxInv, TmuxProcs
<1>1. CASE tmux!BeginOpen(p) BY <1>1 DEF tmux!BeginOpen, tmux!Do, tmux!World
<1>2. CASE tmux!Resolve(p)
  BY <1>2 DEF tmux!Resolve, tmux!adoptDefaultServerSession, tmux!Resolved, tmux!Do, tmux!End,
    tmux!World
<1>3. CASE tmux!ResolveDegraded(p)
  BY <1>3 DEF tmux!ResolveDegraded, tmux!Resolved, tmux!Do, tmux!End, tmux!World
<1>4. CASE tmux!ResolveProtected(p)
  BY <1>4 DEF tmux!ResolveProtected, tmux!Resolved, tmux!Do, tmux!End, tmux!World
<1>5. CASE tmux!Ensure(p) BY <1>5 DEF tmux!Ensure, tmux!Do, tmux!End, tmux!World
<1>6. CASE tmux!RefuseProtected(p) BY <1>6 DEF tmux!RefuseProtected, tmux!Do, tmux!End, tmux!World
<1>7. CASE tmux!Repair(p) BY <1>7 DEF tmux!Repair, tmux!Do, tmux!End, tmux!World
<1>8. CASE tmux!NewSession(p) BY <1>8 DEF tmux!NewSession, tmux!Do, tmux!End, tmux!World
<1>9. CASE tmux!Bootstrap(p) BY <1>9 DEF tmux!Bootstrap, tmux!Do, tmux!World
<1>10. CASE tmux!BuildPanes(p) BY <1>10 DEF tmux!BuildPanes, tmux!Do, tmux!World
<1>11. CASE tmux!CreateFails(p) BY <1>11 DEF tmux!CreateFails, tmux!Do, tmux!World
<1>12. CASE tmux!Abort(p) BY <1>12 DEF tmux!Abort, tmux!Do, tmux!End, tmux!World
<1>13. CASE tmux!Attach(p) BY <1>13 DEF tmux!Attach, tmux!Do, tmux!End, tmux!World
<1>14. CASE tmux!BeginRemoval(p) BY <1>14 DEF tmux!BeginRemoval, tmux!Do, tmux!World
<1>15. CASE tmux!Quiesce(p) BY <1>15 DEF tmux!Quiesce, tmux!Do, tmux!End, tmux!World
<1>16. CASE tmux!RemoveWorktree(p)
  <2>1. s5[p] \in tmux!Removing /\ s4 = p /\ s5[p].gen \in Gens
    BY <1>16, TmuxKnown, TmuxJobs DEF tmux!RemoveWorktree, tmux!Removes, tmux!HasLock,
      tmux!RemoverAt, tmux!Removing
  <2>2. QED BY <1>16, <2>1 DEF tmux!RemoveWorktree, tmux!Do, tmux!TmuxInv, TmuxProcs
<1>17. CASE tmux!RemovalRefused(p)
  BY <1>17 DEF tmux!RemovalRefused, tmux!Do, tmux!End, tmux!Removes, tmux!World
<1>18. CASE tmux!Sweep(p) BY <1>18 DEF tmux!Sweep, tmux!Do, tmux!Sweeping, tmux!World
<1>19. CASE tmux!KillBySweep(p)
  BY <1>19 DEF tmux!KillBySweep, tmux!Do, tmux!Drop, tmux!Sweeping, tmux!World
<1>20. CASE tmux!Inspect(p)
  BY <1>20 DEF tmux!Inspect, tmux!CleanupIdentity, tmux!Do, tmux!Drop, tmux!Sweeping, tmux!World
<1>21. CASE tmux!Retest(p) BY <1>21 DEF tmux!Retest, tmux!Do, tmux!Drop, tmux!Sweeping, tmux!World
<1>22. CASE tmux!Swept(p) BY <1>22 DEF tmux!Swept, tmux!Do, tmux!End, tmux!World
<1>23. CASE tmux!Die(p) BY <1>23 DEF tmux!Die, tmux!Do, tmux!End, tmux!World
<1>99. QED
  BY <1>1, <1>2, <1>3, <1>4, <1>5, <1>6, <1>7, <1>8, <1>9, <1>10, <1>11, <1>12, <1>13, <1>14,
    <1>15, <1>16, <1>17, <1>18, <1>19, <1>20, <1>21, <1>22, <1>23 DEF TmuxStep

\* What is known of every session.
LEMMA SessionIs ==
    ASSUME tmux!TmuxInv, NEW s \in tmux!Live
    PROVE  /\ s \in tmux!Ids /\ s1[s] \in tmux!Session /\ s1[s].for \in Gens \cap s3
           /\ s1[s].gen \in {None, s1[s].for} /\ s1[s].server \in tmux!Servers
           /\ tmux!SessionIsSound(s) /\ tmux!Alone(s)
BY DEF tmux!TmuxInv, tmux!SessionIsSound, tmux!Live, tmux!Session

\* Sessions stay as they are,
LEMMA UnchangedSessions ==
    ASSUME tmux!TmuxInv, NEW p \in TmuxProcs, s1' = s1
    PROVE  DOMAIN s1' = tmux!Ids /\ \A s \in tmux!Live' : StaysMarked(p, s)
BY SessionIs DEF tmux!TmuxInv, tmux!Live, StaysMarked

\* end,
LEMMA EndedSessions ==
    ASSUME tmux!TmuxInv, NEW p \in TmuxProcs, NEW S, s1' = [s \in tmux!Ids |-> IF s \in S THEN
           None ELSE s1[s]]
    PROVE  DOMAIN s1' = tmux!Ids /\ \A s \in tmux!Live' : StaysMarked(p, s) /\ s \notin S
BY SessionIs DEF tmux!TmuxInv, tmux!Live, StaysMarked

\* or get the marker of the worktree they are for.
LEMMA MarkedSessions ==
    ASSUME Assumption, tmux!TmuxInv, NEW p \in TmuxProcs, NEW S \in SUBSET tmux!Live, NEW j,
           j.path \in Directories, j.gen \in Gens, s4 = p, s2[j.gen] # None,
           \A s \in S : s1[s].for = j.gen, s1' = tmux!Marked(S, j)
    PROVE  DOMAIN s1' = tmux!Ids /\ \A s \in tmux!Live' : StaysMarked(p, s)
<1>1. DOMAIN s1' = tmux!Ids BY DEF tmux!Marked
<1>2. ASSUME NEW s \in tmux!Live' PROVE StaysMarked(p, s)
  <2>1. s \in tmux!Ids /\ s1'[s] # None BY <1>2 DEF tmux!Live
  <2>2. CASE s \in S
    <3>1. s \in tmux!Live /\ s1[s] \in tmux!Session /\ s1[s].for = j.gen BY <2>2, SessionIs
    <3>2. s1'[s] = [s1[s] EXCEPT !.path = j.path, !.gen = j.gen, !.sweep = TRUE]
      BY <2>1, <2>2 DEF tmux!Marked
    <3>5. PICK n : n = s1'[s] BY <2>1
    <3>6. PICK r : r = s1[s] BY <3>1
    <3>7. PICK d, g : d = j.path /\ g = j.gen BY <3>1
    <3>8. r \in tmux!Session /\ d \in Directories /\ g \in Gens BY <3>1, <3>6, <3>7
    <3>9. n = [r EXCEPT !.path = d, !.gen = g, !.sweep = TRUE] BY <3>2, <3>5, <3>6, <3>7
    <3>3. /\ n \in tmux!Session /\ n.server = r.server /\ n.name = r.name /\ n.for = r.for /\
              n.gen = g
      BY <3>8, <3>9 DEF tmux!Session
    <3>4. QED BY <3>1, <3>3, <3>5, <3>6, <3>7 DEF StaysMarked
  <2>3. CASE s \notin S
    <3>1. s1'[s] = s1[s] BY <2>1, <2>3 DEF tmux!Marked
    <3>2. s \in tmux!Live BY <2>1, <3>1 DEF tmux!Live
    <3>3. QED BY <3>1, <3>2, SessionIs DEF StaysMarked
  <2>4. QED BY <2>2, <2>3
<1>3. QED BY <1>1, <1>2

\* What a step of one process does to the sessions.
LEMMA TmuxSessionsStep ==
    ASSUME Assumption, tmux!TmuxInv, NEW p \in TmuxProcs, TmuxStep(p)
    PROVE  DOMAIN s1' = tmux!Ids /\ \A s \in tmux!Live' : StaysMarked(p, s) \/ IsMade(p, s)
<1>1. CASE tmux!BeginOpen(p) BY <1>1, UnchangedSessions DEF tmux!BeginOpen
<1>2. CASE tmux!Resolve(p)
  BY <1>2, UnchangedSessions DEF tmux!Resolve, tmux!adoptDefaultServerSession
<1>3. CASE tmux!ResolveDegraded(p) BY <1>3, UnchangedSessions DEF tmux!ResolveDegraded
<1>4. CASE tmux!ResolveProtected(p) BY <1>4, UnchangedSessions DEF tmux!ResolveProtected
<1>5. CASE tmux!Ensure(p) BY <1>5, UnchangedSessions DEF tmux!Ensure
<1>6. CASE tmux!RefuseProtected(p) BY <1>6, UnchangedSessions DEF tmux!RefuseProtected
<1>7. CASE tmux!Repair(p)
  <2>1. s5[p] \in tmux!Choosing /\ s5[p].path \in Directories /\ s5[p].gen \in Gens /\ s4 = p /\
      s2[s5[p].gen] # None
    BY <1>7, TmuxKnown, TmuxJobs DEF tmux!Repair, tmux!HasLock, tmux!OpenerAt, tmux!Choosing
  <2>2. \A s \in tmux!At(s5[p]) : s \in tmux!Live /\ s1[s].for = s5[p].gen
    <3>1. ASSUME NEW s \in tmux!At(s5[p]) PROVE s \in tmux!Live /\ s1[s].for = s5[p].gen
      <4>1. s \in tmux!Live /\ tmux!HasSession(s5[p]) BY TmuxKnown DEF tmux!At, tmux!Called, tmux!On
      <4>2. s1[s].gen \in {None, s1[s].for} BY <4>1, SessionIs
      <4>3. QED BY <1>7, <2>1, <4>1, <4>2, Assumption DEF tmux!HasSession, tmux!Repair,
        Assumption, TmuxAssumption
    <3>2. QED BY <3>1
  <2>3. s1' = tmux!Marked(tmux!At(s5[p]), s5[p]) /\ tmux!At(s5[p]) \subseteq tmux!Live
    BY <1>7, <2>2 DEF tmux!Repair
  <2>4. QED BY <2>1, <2>2, <2>3, MarkedSessions
<1>8. CASE tmux!NewSession(p)
  <2>1. CASE s1' = s1 BY <2>1, UnchangedSessions
  <2>2. CASE s1' # s1
    <3>1. PICK s \in tmux!Ids \ tmux!Live :
            /\ s5[p].pc = "create" /\ tmux!At(s5[p]) = {}
            /\ s1' = [s1 EXCEPT ![s] =
                   [server |-> s5[p].server, name |-> s5[p].name, path |-> None, gen |-> None,
                    sweep |-> FALSE, for |-> s5[p].gen, built |-> FALSE]]
      BY <1>8, <2>2 DEF tmux!NewSession
    <3>2. s4 = p BY <3>1, TmuxKnown DEF tmux!HasLock, tmux!OpenerAt
    <3>3. DOMAIN s1 = tmux!Ids BY DEF tmux!TmuxInv
    <3>4. \A t \in tmux!Live' : t # s => t \in tmux!Live /\ s1'[t] = s1[t]
      BY <3>1, <3>3 DEF tmux!Live
    <3>5. s1'[s] = [server |-> s5[p].server, name |-> s5[p].name, path |-> None, gen |-> None,
                    sweep |-> FALSE, for |-> s5[p].gen, built |-> FALSE]
      BY <3>1, <3>3
    <3>6. \A t \in tmux!Live' : t # s => StaysMarked(p, t) BY <3>4, SessionIs DEF StaysMarked
    <3>7. IsMade(p, s) BY <3>1, <3>2, <3>4, <3>5 DEF IsMade
    <3>8. DOMAIN s1' = tmux!Ids BY <3>1, <3>3
    <3>9. QED BY <3>6, <3>7, <3>8
  <2>3. QED BY <2>1, <2>2
<1>9. CASE tmux!Bootstrap(p)
  <2>1. s5[p] \in tmux!Making /\ s5[p].path \in Directories /\ s5[p].gen \in Gens /\ s4 = p /\
      s2[s5[p].gen] # None
    BY <1>9, TmuxKnown, TmuxJobs DEF tmux!Bootstrap, tmux!HasLock, tmux!OpenerAt, tmux!Making
  <2>2. \A s \in tmux!At(s5[p]) : s \in tmux!Live /\ s1[s].for = s5[p].gen
    <3>1. ASSUME NEW s \in tmux!At(s5[p]) PROVE s \in tmux!Live /\ s1[s].for = s5[p].gen
      <4>1. s \in tmux!Live /\ tmux!HasSession(s5[p]) BY TmuxKnown DEF tmux!At, tmux!Called, tmux!On
      <4>2. s1[s].gen \in {None, s1[s].for} BY <4>1, SessionIs
      <4>3. QED BY <1>9, <2>1, <4>1, <4>2, Assumption DEF tmux!HasSession, tmux!Bootstrap,
        Assumption, TmuxAssumption
    <3>2. QED BY <3>1
  <2>3. s1' = tmux!Marked(tmux!At(s5[p]), s5[p]) /\ tmux!At(s5[p]) \subseteq tmux!Live
    BY <1>9, <2>2 DEF tmux!Bootstrap
  <2>4. QED BY <2>1, <2>2, <2>3, MarkedSessions
<1>10. CASE tmux!BuildPanes(p)
  <2>1. PICK n : n = s5[p].made BY <1>10
  <2>2. s1' = [s1 EXCEPT ![n].built = TRUE] /\ tmux!At(s5[p]) = {n}
    BY <1>10, <2>1 DEF tmux!BuildPanes
  <2>3. n \in tmux!Live /\ DOMAIN s1 = tmux!Ids
    BY <2>2 DEF tmux!At, tmux!Called, tmux!On, tmux!TmuxInv
  <2>4. s1[n] \in tmux!Session /\ n \in tmux!Ids BY <2>3, SessionIs
  <2>5. PICK r : r = s1[n] BY <2>4
  <2>6. s1'[n] = [r EXCEPT !.built = TRUE] BY <2>2, <2>3, <2>4, <2>5
  <2>7. /\ s1'[n] \in tmux!Session /\ s1'[n].server = r.server /\ s1'[n].name = r.name /\
            s1'[n].for = r.for
        /\ s1'[n].gen = r.gen /\ s1'[n].path = r.path
    BY <2>4, <2>5, <2>6 DEF tmux!Session
  <2>8. DOMAIN s1' = tmux!Ids /\ \A s \in tmux!Ids : s # n => s1'[s] = s1[s] BY <2>2, <2>3
  <2>9. StaysMarked(p, n) BY <2>3, <2>5, <2>7 DEF StaysMarked
  <2>10. \A s \in tmux!Live' : s # n => StaysMarked(p, s)
    BY <2>8, SessionIs DEF StaysMarked, tmux!Live
  <2>11. QED BY <2>8, <2>9, <2>10
<1>11. CASE tmux!CreateFails(p) BY <1>11, UnchangedSessions DEF tmux!CreateFails
<1>12. CASE tmux!Abort(p)
  <2>1. s1' = s1 \/ s1' = [s \in tmux!Ids |-> IF s \in tmux!At(s5[p]) THEN None ELSE s1[s]]
    BY <1>12 DEF tmux!Abort
  <2>2. QED BY <2>1, UnchangedSessions, EndedSessions
<1>13. CASE tmux!Attach(p) BY <1>13, UnchangedSessions DEF tmux!Attach
<1>14. CASE tmux!BeginRemoval(p) BY <1>14, UnchangedSessions DEF tmux!BeginRemoval
<1>15. CASE tmux!Quiesce(p) BY <1>15, UnchangedSessions DEF tmux!Quiesce
<1>16. CASE tmux!RemoveWorktree(p) BY <1>16, UnchangedSessions DEF tmux!RemoveWorktree
<1>17. CASE tmux!RemovalRefused(p) BY <1>17, UnchangedSessions DEF tmux!RemovalRefused
<1>18. CASE tmux!Sweep(p) BY <1>18, UnchangedSessions DEF tmux!Sweep
<1>19. CASE tmux!KillBySweep(p)
  <2>1. s1' = s1 \/ \E S : s1' = [s \in tmux!Ids |-> IF s \in S THEN None ELSE s1[s]]
    BY <1>19 DEF tmux!KillBySweep, tmux!Ended
  <2>2. QED BY <2>1, UnchangedSessions, EndedSessions
<1>20. CASE tmux!Inspect(p) BY <1>20, UnchangedSessions DEF tmux!Inspect, tmux!CleanupIdentity
<1>21. CASE tmux!Retest(p)
  <2>1. s1' = s1 \/ s1' = [s \in tmux!Ids |-> IF s \in {s5[p].seen} THEN None ELSE s1[s]]
    BY <1>21 DEF tmux!Retest, tmux!Ended
  <2>2. QED BY <2>1, UnchangedSessions, EndedSessions
<1>22. CASE tmux!Swept(p) BY <1>22, UnchangedSessions DEF tmux!Swept
<1>23. CASE tmux!Die(p) BY <1>23, UnchangedSessions DEF tmux!Die
<1>99. QED
  BY <1>1, <1>2, <1>3, <1>4, <1>5, <1>6, <1>7, <1>8, <1>9, <1>10, <1>11, <1>12, <1>13, <1>14,
    <1>15, <1>16, <1>17, <1>18, <1>19, <1>20, <1>21, <1>22, <1>23 DEF TmuxStep

\* A session is sound after a step of a process,
LEMMA TmuxSound ==
    ASSUME Assumption, tmux!TmuxInv, NEW p \in TmuxProcs, TmuxStep(p)
    PROVE  \A s \in tmux!Live' : tmux!SessionIsSound(s)' /\ tmux!Alone(s)'
<1>1. /\ s3' = s3 /\ \A g \in Gens : s2'[g] # s2[g] => s2'[g] = None /\ s4 = p BY TmuxFrame
<1>2. \A s \in tmux!Live' : StaysMarked(p, s) \/ IsMade(p, s) BY TmuxSessionsStep
<1>3. ASSUME NEW s \in tmux!Live', StaysMarked(p, s) PROVE tmux!SessionIsSound(s)'
  <2>1. s \in tmux!Live /\ s1[s] \in tmux!Session /\ tmux!SessionIsSound(s) /\
      s1[s].for \in Gens \cap s3
    BY <1>3, SessionIs DEF StaysMarked
  <2>2. /\ s1'[s] \in tmux!Session /\ s1'[s].server = s1[s].server /\ s1'[s].name = s1[s].name
        /\ s1'[s].for = s1[s].for
        /\ \/ s1'[s].gen = s1[s].gen /\ s1'[s].path = s1[s].path
           \/ s1'[s].gen = s1[s].for
    BY <1>3 DEF StaysMarked
  <2>3. None \notin Gens BY DEF Assumption, TmuxAssumption
  <2>4. s2'[s1[s].for] # None => s2'[s1[s].for] = s2[s1[s].for] BY <1>1, <2>1
  <2>5. QED BY <1>1, <2>1, <2>2, <2>3, <2>4 DEF tmux!SessionIsSound, tmux!KwtName, tmux!NamesIt
<1>4. ASSUME NEW s \in tmux!Live', IsMade(p, s) PROVE tmux!SessionIsSound(s)'
  <2>1. /\ s5[p] \in tmux!Choosing /\ s5[p].pc = "create"
        /\ tmux!HasLock(p, s5[p]) /\ tmux!AsksForIt(s5[p])
    BY <1>4, TmuxKnown, TmuxJobs DEF IsMade
  <2>2. PICK j : j = s5[p] BY <2>1
  <2>3. j.server \in tmux!Servers /\ j.name \in tmux!Names /\ j.gen \in Gens
    BY <2>1, <2>2 DEF tmux!Choosing
  <2>4. s2[j.gen] # None /\ j.gen \in s3
    BY <2>1, <2>2, <2>3 DEF tmux!HasLock, tmux!OpenerAt, tmux!TmuxInv
  <2>5. j.server \in tmux!Sockets => j.gen \in Protected /\ j.name = <<s2[j.gen], tmux!Imported>>
    BY <2>1, <2>2 DEF tmux!AsksForIt, tmux!OpenerAt, tmux!NamesIt
  <2>6. s1'[s] = [server |-> j.server, name |-> j.name, path |-> None, gen |-> None,
                  sweep |-> FALSE, for |-> j.gen, built |-> FALSE]
    BY <1>4, <2>2 DEF IsMade
  <2>7. s1'[s] \in tmux!Session BY <2>3, <2>6 DEF tmux!Session
  <2>8. j.name # tmux!Mine BY <2>3, TmuxNames
  <2>9. s2'[j.gen] # None => s2'[j.gen] = s2[j.gen] BY <1>1, <2>3
  <2>10. QED
    BY <1>1, <2>3, <2>4, <2>5, <2>6, <2>7, <2>8, <2>9 DEF tmux!SessionIsSound, tmux!KwtName,
      tmux!NamesIt
<1>5. ASSUME NEW s \in tmux!Live', NEW t \in tmux!Live', s1'[t].server = s1'[s].server, s1'[t].name
       = s1'[s].name
      PROVE  t = s
  <2>1. CASE StaysMarked(p, s) /\ StaysMarked(p, t)
    BY <1>5, <2>1, SessionIs DEF StaysMarked, tmux!Alone
  <2>2. ASSUME NEW u \in tmux!Live', NEW v \in tmux!Live', IsMade(p, u), StaysMarked(p, v),
               s1'[v].server = s1'[u].server, s1'[v].name = s1'[u].name
        PROVE  FALSE
    <3>1. v \in tmux!Live /\ s1[v].server = s5[p].server /\ s1[v].name = s5[p].name
      BY <2>2 DEF IsMade, StaysMarked
    <3>2. v \in tmux!At(s5[p]) BY <3>1 DEF tmux!At, tmux!Called, tmux!On
    <3>3. QED BY <2>2, <3>2 DEF IsMade
  <2>3. CASE IsMade(p, s) /\ IsMade(p, t) BY <2>3 DEF IsMade
  <2>4. QED BY <1>2, <1>5, <2>1, <2>2, <2>3
<1>6. QED BY <1>2, <1>3, <1>4, <1>5 DEF tmux!Alone

\* What the lock of another leaves a process with.
SeenBy(q, s) ==
    \/ /\ s \in tmux!Live /\ s1'[s].server = s1[s].server /\ s1'[s].for = s1[s].for
       /\ s1'[s].name \in {s1[s].name, tmux!Mine}
       /\ s1'[s].gen = s1[s].gen \/ (s1'[s].gen = s1[s].for /\ s2[s1[s].for] # None /\ s4 # q)
    \/ s \notin tmux!Live /\ s1'[s].gen = None /\ s2[s1'[s].for] # None /\ s4 # q
HomeSeenBy(q, g) ==
    \/ s2'[g] = s2[g]
    \/ g \notin Protected /\ s2[g] # None /\ s2'[g] # None
    \/ s2[g] = None /\ g \notin s3
    \/ s2'[g] = None /\ s4 # q

\* What a job says it knows stays so.
LEMMA TmuxOther ==
    ASSUME Assumption, tmux!TmuxInv, NEW q \in TmuxProcs, s5'[q] = s5[q],
           s4 = q => s4' = q, s3 \subseteq s3', \A g \in Gens : HomeSeenBy(q, g),
           \A s \in tmux!Live' : SeenBy(q, s)
    PROVE  tmux!Knows(q, s5[q])'
<1>1. PICK j : j = s5[q] BY TmuxKnown
<1>2. /\ j \in tmux!Job /\ tmux!HasLock(q, j) /\ tmux!AsksForIt(j) /\ tmux!HasSession(j)
      /\ tmux!HasCleared(j) /\ tmux!HasListed(j)
  BY <1>1, TmuxKnown
<1>3. /\ j.pc \in tmux!OpenerAt \cup tmux!RemoverAt \cup tmux!SweeperAt => j.gen \in Gens
      /\ j.pc \in tmux!OpenerAt \ {"resolve"} => j.name \in tmux!Names
      /\ j.pc = "sweep" => j.name \in tmux!Names
      /\ j.pc = "retest" => j.at[2] \in tmux!Names
  <2>1. /\ j.pc \in {"idle"} \cup tmux!OpenerAt \cup tmux!RemoverAt \cup tmux!SweeperAt
        /\ j.pc \in tmux!OpenerAt => j \in tmux!Asking \cup tmux!Choosing \cup tmux!Making
    BY <1>2, TmuxJobs DEF tmux!OpenerAt, tmux!RemoverAt, tmux!SweeperAt, tmux!Job, tmux!Idle,
      tmux!Asking, tmux!Choosing, tmux!Making, tmux!Removing, tmux!Killing, tmux!Inspecting,
      tmux!Retesting
  <2>2. j.pc \in tmux!OpenerAt => j.gen \in Gens /\ (j.pc # "resolve" => j.name \in tmux!Names)
    BY <2>1 DEF tmux!Asking, tmux!Choosing, tmux!Making
  <2>3. j.pc \in tmux!RemoverAt \cup {"sweep"} => j.gen \in Gens /\ j.name \in tmux!Names
    BY <1>2, TmuxJobs DEF tmux!RemoverAt, tmux!Removing
  <2>4. j.pc \in {"kill", "inspect", "retest"} => j.gen \in Gens /\ (j.pc = "retest" =>
      j.at[2] \in tmux!Names)
    BY <1>2, TmuxJobs DEF tmux!Killing, tmux!Inspecting, tmux!Retesting, tmux!Endpoints
  <2>5. QED BY <2>2, <2>3, <2>4 DEF tmux!SweeperAt
<1>4. tmux!HasLock(q, j)'
  <2>1. j.pc \in tmux!OpenerAt \cup tmux!RemoverAt => s4 = q /\ s2[j.gen] # None
    BY <1>2 DEF tmux!HasLock
  <2>2. j.pc \in tmux!OpenerAt \cup tmux!RemoverAt => s4' = q /\ s2'[j.gen] # None
    BY <1>3, <2>1 DEF HomeSeenBy
  <2>3. QED BY <2>2 DEF tmux!HasLock
<1>5. ASSUME j.pc \in tmux!OpenerAt \cup tmux!RemoverAt, j.gen \in Protected PROVE s2'[j.gen] =
       s2[j.gen]
  <2>1. s4 = q /\ s2[j.gen] # None /\ j.gen \in Gens BY <1>2, <1>3, <1>5 DEF tmux!HasLock
  <2>2. QED BY <1>5, <2>1 DEF HomeSeenBy
<1>6. tmux!AsksForIt(j)'
  <2>1. j \in tmux!Choosing => j.pc \in tmux!OpenerAt BY DEF tmux!Choosing, tmux!OpenerAt
  <2>2. QED BY <1>2, <1>5, <2>1 DEF tmux!AsksForIt, tmux!NamesIt, tmux!OpenerAt, tmux!RemoverAt
<1>7. ASSUME NEW n \in tmux!Names, NEW e, s4 = q, NEW s \in tmux!Called(e, n)'
      PROVE  s \in tmux!Called(e, n) /\ s1'[s].for = s1[s].for /\ s1'[s].gen = s1[s].gen
  <2>1. s \in tmux!Live' /\ s1'[s].server = e /\ s1'[s].name = n BY <1>7 DEF tmux!Called, tmux!On
  <2>2. n # tmux!Mine BY TmuxNames
  <2>3. QED BY <1>7, <2>1, <2>2 DEF SeenBy, tmux!Called, tmux!On
<1>8. tmux!HasSession(j)'
  <2>1. ASSUME j.pc \in {"repair", "bootstrap", "panes", "abort"}, NEW s \in tmux!At(j)'
        PROVE  s \in tmux!At(j) /\ s1'[s].for = s1[s].for /\ s1'[s].gen = s1[s].gen
    <3>1. s4 = q /\ j.name \in tmux!Names BY <1>2, <1>3, <2>1 DEF tmux!HasLock, tmux!OpenerAt
    <3>2. s \in tmux!Called(j.server, j.name)' BY <2>1 DEF tmux!At
    <3>3. QED BY <1>7, <3>1, <3>2 DEF tmux!At
  <2>2. QED BY <1>2, <2>1 DEF tmux!HasSession
<1>9. tmux!HasCleared(j)'
  <2>1. ASSUME j.pc \in tmux!RemoverAt, NEW s \in tmux!Live'
        PROVE  s \in tmux!Live /\ s1'[s].server = s1[s].server /\ s1'[s].for = s1[s].for
    <3>1. s4 = q BY <1>2, <2>1 DEF tmux!HasLock
    <3>2. QED BY <2>1, <3>1 DEF SeenBy
  <2>2. {"default", "socket", "former", "remove"} \subseteq tmux!RemoverAt
    BY DEF tmux!RemoverAt, tmux!Servers, tmux!Shared, tmux!Sockets
  <2>3. QED BY <1>2, <2>1, <2>2 DEF tmux!HasCleared
<1>10. tmux!HasListed(j)'
  <2>1. CASE j.pc \notin tmux!SweeperAt BY <2>1 DEF tmux!HasListed, tmux!SweeperAt
  <2>2. CASE j.pc \in tmux!SweeperAt
    <3>1. s2[j.gen] = None /\ j.gen \in s3 /\ j.gen \in Gens BY <1>2, <1>3, <2>2 DEF tmux!HasListed
    <3>2. s2'[j.gen] = None /\ j.gen \in s3' BY <3>1 DEF HomeSeenBy
    <3>3. ASSUME NEW s \in tmux!Live', s1'[s].for = j.gen
          PROVE  /\ s \in tmux!Live /\ s1'[s].server = s1[s].server /\ s1[s].for = j.gen /\
                     s1'[s].gen = s1[s].gen
                 /\ s1'[s].name \in {s1[s].name, tmux!Mine}
      BY <3>1, <3>3 DEF SeenBy
    <3>4. ASSUME NEW s \in tmux!Live', s1'[s].gen = j.gen
          PROVE  /\ s \in tmux!Live /\ s1'[s].server = s1[s].server /\ s1[s].gen = j.gen
                 /\ s1'[s].name \in {s1[s].name, tmux!Mine}
      BY <3>1, <3>4, Assumption DEF SeenBy, Assumption, TmuxAssumption
    <3>5. j.pc = "sweep" => \A s \in tmux!Live' : s1'[s].server \in tmux!Sockets /\ tmux!KwtName(s)'
                              /\ s1'[s].for = j.gen => s1'[s].name = j.name
      BY <1>2, <3>3 DEF tmux!HasListed, tmux!KwtName
    <3>6. j.pc \in tmux!SweeperAt \ {"sweep"} => j.bad \/
            \A s \in tmux!Live' : s1'[s].gen = j.gen /\ tmux!KwtName(s)' => <<s1'[s].server,
                s1'[s].name>> \in j.left
      BY <1>2, <3>4 DEF tmux!HasListed, tmux!KwtName
    <3>7. j.pc = "retest" => \A s \in tmux!Called(j.at[1], j.at[2])' : s1'[s].gen = j.gen =>
        s = j.seen
      <4>1. ASSUME j.pc = "retest", NEW s \in tmux!Called(j.at[1], j.at[2])', s1'[s].gen =
             j.gen PROVE s = j.seen
        <5>1. s \in tmux!Live' /\ s1'[s].server = j.at[1] /\ s1'[s].name = j.at[2]
          BY <4>1 DEF tmux!Called, tmux!On
        <5>2. j.at[2] # tmux!Mine BY <1>3, <4>1, TmuxNames
        <5>3. s \in tmux!Called(j.at[1], j.at[2]) /\ s1[s].gen = j.gen
          BY <3>4, <4>1, <5>1, <5>2 DEF tmux!Called, tmux!On
        <5>4. QED BY <1>2, <4>1, <5>3 DEF tmux!HasListed
      <4>2. QED BY <4>1
    <3>8. QED BY <3>2, <3>5, <3>6, <3>7 DEF tmux!HasListed
  <2>3. QED BY <2>1, <2>2
<1>11. s5'[q] = j BY <1>1
<1>12. QED BY <1>2, <1>4, <1>6, <1>8, <1>9, <1>10, <1>11 DEF tmux!Knows

\* What one process does keeps what the others know.
LEMMA TmuxOthers ==
    ASSUME Assumption, tmux!TmuxInv, NEW p \in TmuxProcs, TmuxStep(p), NEW q \in
           TmuxProcs, q # p
    PROVE  tmux!Knows(q, s5[q])'
<1>1. /\ s5'[q] = s5[q] /\ s3' = s3 /\ (s4' # s4 => s4 \in {p, None} /\ s4' \in {p, None})
      /\ \A g \in Gens : s2'[g] # s2[g] => s2'[g] = None /\ s4 = p
  BY TmuxFrame
<1>2. s4 = q => s4' = q
  BY <1>1, Assumption DEF Assumption, TmuxAssumption, TmuxProcs
<1>3. \A g \in Gens : HomeSeenBy(q, g) BY <1>1 DEF HomeSeenBy
<1>4. ASSUME NEW s \in tmux!Live' PROVE SeenBy(q, s)
  <2>1. CASE StaysMarked(p, s) BY <2>1 DEF StaysMarked, SeenBy
  <2>2. CASE IsMade(p, s)
    <3>1. s2[s5[p].gen] # None BY <2>2, TmuxKnown DEF IsMade, tmux!HasLock, tmux!OpenerAt
    <3>2. s \notin tmux!Live /\ s4 = p /\ s1'[s].gen = None /\ s1'[s].for = s5[p].gen
      BY <2>2 DEF IsMade
    <3>3. QED BY <3>1, <3>2 DEF SeenBy
  <2>3. QED BY <2>1, <2>2, TmuxSessionsStep
<1>5. QED BY <1>1, <1>2, <1>3, <1>4, TmuxOther

\* A process that has nothing to do knows nothing,
LEMMA IdleKnows ==
    ASSUME NEW p, s5'[p] = tmux!Idle
    PROVE  tmux!Knows(p, s5[p])'
<1>1. PICK j : j = tmux!Idle BY DEF tmux!Idle
<1>2. j.pc = "idle" /\ j \in tmux!Job BY <1>1 DEF tmux!Idle, tmux!Job
<1>3. j \notin tmux!Choosing BY <1>2 DEF tmux!Choosing
<1>4. "idle" \notin tmux!OpenerAt \cup tmux!RemoverAt \cup tmux!SweeperAt \cup tmux!Sockets
  BY DEF tmux!OpenerAt, tmux!RemoverAt, tmux!SweeperAt, tmux!Sockets, tmux!Servers, tmux!Shared
<1>5. tmux!HasLock(p, j)' /\ tmux!HasCleared(j)' /\ tmux!HasListed(j)' /\ tmux!AsksForIt(j)' /\
    tmux!HasSession(j)'
  BY <1>2, <1>3, <1>4 DEF tmux!HasLock, tmux!HasCleared, tmux!HasListed, tmux!AsksForIt,
    tmux!HasSession
<1>6. s5'[p] = j BY <1>1
<1>7. QED BY <1>2, <1>5, <1>6 DEF tmux!Knows

\* so does one that ends.
LEMMA EndKnows ==
    ASSUME tmux!TmuxInv, NEW p \in TmuxProcs, tmux!End(p)
    PROVE  tmux!Knows(p, s5[p])'
<1>1. s5'[p] = tmux!Idle BY DEF tmux!End, tmux!Do, tmux!TmuxInv, TmuxProcs
<1>2. QED BY <1>1, IdleKnows

\* A step of a process puts its next job in place.
LEMMA DoesIt ==
    ASSUME tmux!TmuxInv, NEW p \in TmuxProcs, NEW j, tmux!Do(p, j)
    PROVE  s5'[p] = j
BY DEF tmux!Do, tmux!TmuxInv, TmuxProcs

\* an open what it asks for and finds,
LEMMA OpenerKnows ==
    ASSUME NEW p, NEW j \in tmux!Job, s5'[p] = j, j.pc \in tmux!OpenerAt,
           s4' = p, s2'[j.gen] # None, tmux!AsksForIt(j)', tmux!HasSession(j)'
    PROVE  tmux!Knows(p, s5[p])'
<1>1. j.pc \notin tmux!RemoverAt \cup tmux!SweeperAt
  BY DEF tmux!OpenerAt, tmux!RemoverAt, tmux!SweeperAt, tmux!Sockets, tmux!Servers, tmux!Shared
<1>2. tmux!HasLock(p, j)' /\ tmux!HasCleared(j)' /\ tmux!HasListed(j)'
  <2>1. {"sweep", "retest"} \subseteq tmux!SweeperAt BY DEF tmux!SweeperAt
  <2>2. QED BY <1>1, <2>1 DEF tmux!HasLock, tmux!HasCleared, tmux!HasListed
<1>3. QED BY <1>2 DEF tmux!Knows

\* a removal what it has left behind,
LEMMA RemoverKnows ==
    ASSUME NEW p, NEW j \in tmux!Job, s5'[p] = j, j.pc \in tmux!RemoverAt,
           s4' = p, s2'[j.gen] # None, tmux!AsksForIt(j)', tmux!HasCleared(j)'
    PROVE  tmux!Knows(p, s5[p])'
<1>1. j.pc \notin tmux!OpenerAt \cup tmux!SweeperAt
  BY DEF tmux!OpenerAt, tmux!RemoverAt, tmux!SweeperAt, tmux!Sockets, tmux!Servers, tmux!Shared
<1>2. tmux!HasLock(p, j)' /\ tmux!HasSession(j)' /\ tmux!HasListed(j)'
  BY <1>1 DEF tmux!HasLock, tmux!HasSession, tmux!HasListed, tmux!OpenerAt, tmux!SweeperAt
<1>3. QED BY <1>2 DEF tmux!Knows

\* and a clean-up what is left to end.
LEMMA SweeperKnows ==
    ASSUME NEW p, NEW j \in tmux!Job, s5'[p] = j, j.pc \in tmux!SweeperAt, tmux!HasListed(j)'
    PROVE  tmux!Knows(p, s5[p])'
<1>1. j.pc \notin tmux!OpenerAt \cup tmux!RemoverAt \cup tmux!Sockets
  BY DEF tmux!OpenerAt, tmux!RemoverAt, tmux!SweeperAt, tmux!Sockets, tmux!Servers, tmux!Shared
<1>2. j \notin tmux!Choosing /\ j.pc # "resolve" BY <1>1 DEF tmux!Choosing, tmux!OpenerAt
<1>3. tmux!HasLock(p, j)' /\ tmux!HasSession(j)' /\ tmux!HasCleared(j)' /\ tmux!AsksForIt(j)'
  BY <1>1, <1>2 DEF tmux!HasLock, tmux!HasSession, tmux!HasCleared, tmux!AsksForIt, tmux!OpenerAt
<1>4. QED BY <1>3 DEF tmux!Knows

\* What an open that asks has.
LEMMA OpenerHas ==
    ASSUME tmux!TmuxInv, NEW p \in TmuxProcs, NEW i, i = s5[p], i.pc \in tmux!OpenerAt
    PROVE  /\ i \in tmux!Job /\ i.gen \in Gens /\ i.path \in Directories /\ s4 = p /\
               s2[i.gen] # None
           /\ tmux!AsksForIt(i) /\ tmux!HasSession(i)
           /\ i.pc = "resolve" => i \in tmux!Asking
           /\ i.pc \in {"ensure", "repair", "create"} => i \in tmux!Choosing
           /\ i.pc \in {"bootstrap", "panes", "abort"} => i \in tmux!Making
<1>1. i \in tmux!Job /\ tmux!HasLock(p, i) /\ tmux!AsksForIt(i) /\ tmux!HasSession(i) BY TmuxKnown
<1>2. i \in tmux!Asking \cup tmux!Choosing \cup tmux!Making BY <1>1, TmuxJobs DEF tmux!OpenerAt
<1>3. i.gen \in Gens /\ i.path \in Directories BY <1>2 DEF tmux!Asking, tmux!Choosing, tmux!Making
<1>4. QED BY <1>1, <1>3, TmuxJobs DEF tmux!HasLock

\* A clean-up knows what is left on its list,
LEMMA SweepingKnows ==
    ASSUME tmux!TmuxInv, NEW p \in TmuxProcs, NEW i, i = s5[p], i.gen \in Gens, i.name \in
           tmux!Names,
           s2'[i.gen] = None, i.gen \in s3', NEW left \in SUBSET tmux!Endpoints,
               NEW bad \in BOOLEAN,
           \A s \in tmux!Live' : bad \/ (s1'[s].gen = i.gen /\ tmux!KwtName(s)' =>
               <<s1'[s].server, s1'[s].name>> \in left),
           tmux!Sweeping(p, left, bad)
    PROVE  tmux!Knows(p, s5[p])'
<1>1. PICK j : j = [pc |-> "kill", gen |-> i.gen, name |-> i.name, left |-> left,
    bad |-> bad] OBVIOUS
<1>2. tmux!Do(p, j) BY <1>1 DEF tmux!Sweeping
<1>3. s5'[p] = j BY <1>2, DoesIt
<1>4. j \in tmux!Killing /\ j.pc = "kill" BY <1>1 DEF tmux!Killing
<1>5. j \in tmux!Job /\ j.pc \in tmux!SweeperAt BY <1>4 DEF tmux!Job, tmux!SweeperAt
<1>6. tmux!HasListed(j)' BY <1>1, <1>4 DEF tmux!HasListed
<1>7. QED BY <1>3, <1>5, <1>6, SweeperKnows

\* also where a name could not be inspected,
LEMMA DropFails ==
    ASSUME tmux!TmuxInv, NEW p \in TmuxProcs, NEW i, i = s5[p], i.gen \in Gens, i.name \in
           tmux!Names,
           s2'[i.gen] = None, i.gen \in s3', i.left \subseteq tmux!Endpoints, i.bad \in BOOLEAN,
           NEW e, tmux!Drop(p, e, TRUE)
    PROVE  tmux!Knows(p, s5[p])'
<1>1. PICK left \in SUBSET tmux!Endpoints : left = i.left \ {e} OBVIOUS
<1>2. tmux!Sweeping(p, left, TRUE)
  <2>1. (i.bad \/ TRUE) = TRUE OBVIOUS
  <2>2. QED BY <1>1, <2>1 DEF tmux!Drop
<1>3. QED BY <1>2, SweepingKnows

\* or was, and is off the list.
LEMMA DropKnows ==
    ASSUME tmux!TmuxInv, NEW p \in TmuxProcs, NEW i, i = s5[p], i.gen \in Gens, i.name \in
           tmux!Names,
           s2'[i.gen] = None, i.gen \in s3', i.left \subseteq tmux!Endpoints, i.bad \in BOOLEAN,
           i.bad \/ \A s \in tmux!Live : s1[s].gen = i.gen /\ tmux!KwtName(s) => <<s1[s].server,
               s1[s].name>> \in i.left,
           \A s \in tmux!Live' : s \in tmux!Live /\ s1'[s] = s1[s],
           NEW e, \A s \in tmux!Called(e[1], e[2])' : s1'[s].gen # i.gen, tmux!Drop(p, e, FALSE)
    PROVE  tmux!Knows(p, s5[p])'
<1>1. PICK left \in SUBSET tmux!Endpoints : left = i.left \ {e} OBVIOUS
<1>2. PICK bad \in BOOLEAN : bad = i.bad OBVIOUS
<1>3. tmux!Sweeping(p, left, bad)
  <2>1. (i.bad \/ FALSE) = bad BY <1>2
  <2>2. QED BY <1>1, <2>1 DEF tmux!Drop
<1>4. ASSUME NEW s \in tmux!Live', ~bad, s1'[s].gen = i.gen, tmux!KwtName(s)'
      PROVE  <<s1'[s].server, s1'[s].name>> \in left
  <2>1. <<s1'[s].server, s1'[s].name>> \in i.left BY <1>2, <1>4 DEF tmux!KwtName
  <2>2. ASSUME <<s1'[s].server, s1'[s].name>> = e PROVE FALSE
    <3>1. s1'[s].server = e[1] /\ s1'[s].name = e[2] BY <2>2
    <3>2. s \in tmux!Called(e[1], e[2])' BY <3>1 DEF tmux!Called, tmux!On
    <3>3. QED BY <1>4, <3>2
  <2>3. QED BY <1>1, <2>1, <2>2
<1>5. QED BY <1>3, <1>4, SweepingKnows

\* An open has resolved a name of its worktree.
LEMMA ResolvedKnows ==
    ASSUME Assumption, tmux!TmuxInv, NEW p \in TmuxProcs, NEW server \in tmux!Servers,
           NEW name \in tmux!Names,
           NEW only \in BOOLEAN, s5[p].pc = "resolve", name[1] = s5[p].path, tmux!NamesIt(name,
               s5[p].gen),
           server \in tmux!Sockets <=> s5[p].gen \in Protected, s2' = s2, tmux!Resolved(p, server,
               name, only)
    PROVE  tmux!Knows(p, s5[p])'
<1>1. PICK i : i = s5[p] BY TmuxKnown
<1>2. i.pc \in tmux!OpenerAt BY <1>1 DEF tmux!OpenerAt
<1>3. i \in tmux!Asking /\ i.gen \in Gens /\ s4 = p /\ s2[i.gen] # None /\ tmux!AsksForIt(i)
  BY <1>1, <1>2, OpenerHas
<1>4. CASE i.expected \in {None, name}
  <2>1. PICK j : j = [pc |-> "ensure", gen |-> i.gen, path |-> i.path, wanted |-> i.wanted,
                      expected |-> i.expected, retried |-> i.retried,
                      server |-> server, name |-> name, repairOnly |-> only]
    OBVIOUS
  <2>2. s4' = s4 /\ tmux!Do(p, j) BY <1>1, <1>4, <2>1 DEF tmux!Resolved
  <2>3. s5'[p] = j BY <2>2, DoesIt
  <2>4. j \in tmux!Choosing /\ j.pc = "ensure" BY <1>3, <2>1 DEF tmux!Choosing, tmux!Asking
  <2>5. j \in tmux!Job /\ j.pc \in tmux!OpenerAt BY <2>4 DEF tmux!Job, tmux!OpenerAt
  <2>6. i.wanted[1] = i.path /\ tmux!NamesIt(i.wanted, i.gen) BY <1>1, <1>3 DEF tmux!AsksForIt
  <2>7. "ensure" \notin tmux!RemoverAt \cup tmux!Sockets
    BY DEF tmux!RemoverAt, tmux!Servers, tmux!Shared, tmux!Sockets
  <2>8. tmux!AsksForIt(j)' BY <1>1, <2>1, <2>4, <2>6, <2>7 DEF tmux!AsksForIt, tmux!NamesIt
  <2>9. tmux!HasSession(j)' BY <2>4 DEF tmux!HasSession
  <2>10. QED BY <1>3, <2>1, <2>2, <2>3, <2>5, <2>8, <2>9, OpenerKnows
<1>5. CASE i.expected \notin {None, name}
  <2>1. tmux!End(p) BY <1>1, <1>5 DEF tmux!Resolved
  <2>2. QED BY <2>1, EndKnows
<1>6. QED BY <1>4, <1>5

\* And so does the process that steps, in its next job.
LEMMA TmuxOwn ==
    ASSUME Assumption, tmux!TmuxInv, NEW p \in TmuxProcs, TmuxStep(p)
    PROVE  tmux!Knows(p, s5[p])'
<1>1. CASE tmux!BeginOpen(p)
  <2>1. PICK g \in Gens, br \in Branches, expected \in tmux!Names \cup {None} :
          /\ s2[g] # None /\ (g \in Protected => br = tmux!Imported)
          /\ tmux!Do(p, [pc |-> "resolve", gen |-> g, path |-> s2[g], wanted |-> <<s2[g], br>>,
                         expected |-> expected, retried |-> FALSE])
    BY <1>1 DEF tmux!BeginOpen
  <2>2. PICK d : d = s2[g] BY <2>1
  <2>3. d \in Directories BY <2>1, <2>2 DEF tmux!TmuxInv
  <2>4. PICK n : n = <<d, br>> OBVIOUS
  <2>5. n \in tmux!Names /\ n[1] = d BY <2>3, <2>4 DEF tmux!Names
  <2>6. PICK j : j = [pc |-> "resolve", gen |-> g, path |-> d, wanted |-> n,
                      expected |-> expected, retried |-> FALSE]
    OBVIOUS
  <2>7. s5'[p] = j BY <2>1, <2>2, <2>4, <2>6, DoesIt
  <2>8. j \in tmux!Asking /\ j.pc = "resolve" BY <2>3, <2>5, <2>6 DEF tmux!Asking
  <2>9. j \in tmux!Job /\ j.pc \in tmux!OpenerAt BY <2>8 DEF tmux!Job, tmux!OpenerAt
  <2>10. s2' = s2 /\ s4' = p BY <1>1 DEF tmux!BeginOpen, tmux!World
  <2>11. "resolve" \notin tmux!RemoverAt \cup tmux!Sockets
    BY DEF tmux!RemoverAt, tmux!Servers, tmux!Shared, tmux!Sockets
  <2>12. j \notin tmux!Choosing BY <2>8 DEF tmux!Choosing
  <2>13. g \in Protected => n = <<s2[g], tmux!Imported>> BY <2>1, <2>2, <2>4
  <2>14. tmux!AsksForIt(j)'
    BY <2>5, <2>6, <2>10, <2>11, <2>12, <2>13 DEF tmux!AsksForIt, tmux!NamesIt
  <2>15. tmux!HasSession(j)' BY <2>8 DEF tmux!HasSession
  <2>16. QED BY <2>1, <2>6, <2>7, <2>9, <2>10, <2>14, <2>15, OpenerKnows
<1>2. CASE tmux!Resolve(p)
  <2>1. s5[p].pc = "resolve" /\ s2' = s2 BY <1>2 DEF tmux!Resolve, tmux!World
  <2>2. /\ s5[p] \in tmux!Asking /\ s5[p].wanted \in tmux!Names /\ s5[p].wanted[1] = s5[p].path
        /\ tmux!NamesIt(s5[p].wanted, s5[p].gen) /\ s5[p].path \in Directories
    <3>1. PICK i : i = s5[p] BY <2>1
    <3>2. i \in tmux!Asking /\ tmux!AsksForIt(i) BY <2>1, <3>1, OpenerHas DEF tmux!OpenerAt
    <3>3. QED BY <2>1, <3>1, <3>2 DEF tmux!AsksForIt, tmux!Asking
  <2>3. {"kwt", "default", "socket", "former"} \subseteq tmux!Servers /\ {"socket",
      "former"} = tmux!Sockets
    BY DEF tmux!Servers, tmux!Shared, tmux!Sockets
  <2>4. s5[p].gen \notin Protected BY <1>2 DEF tmux!Resolve
  <2>5. ASSUME NEW server \in {"kwt", "default"}, NEW s \in tmux!Candidates(server, s5[p])
        PROVE  s1[s].name \in tmux!Names /\ s1[s].name[1] = s5[p].path
    <3>1. s \in tmux!Live /\ (s1[s].name = s5[p].wanted \/ s1[s].name[1] = s5[p].path)
      BY <2>5 DEF tmux!Candidates, tmux!Called, tmux!On
    <3>2. s1[s].name \in tmux!Names \cup {tmux!Mine} BY <3>1, SessionIs DEF tmux!Session
    <3>3. tmux!Mine[1] = None /\ None \notin Directories
      BY Assumption DEF tmux!Mine, Assumption, TmuxAssumption
    <3>4. QED BY <2>2, <3>1, <3>2, <3>3
  <2>6. ASSUME NEW server \in {"kwt", "default"}, NEW name \in tmux!Names, name[1] = s5[p].path,
               NEW only \in BOOLEAN, tmux!Resolved(p, server, name, only)
        PROVE  tmux!Knows(p, s5[p])'
    <3>1. tmux!NamesIt(name, s5[p].gen) /\ server \notin tmux!Sockets /\ server \in tmux!Servers
      BY <2>3, <2>4 DEF tmux!NamesIt
    <3>2. QED BY <2>1, <2>4, <2>6, <3>1, ResolvedKnows
  <2>7. ASSUME NEW server \in {"kwt", "default"}, NEW s \in tmux!Candidates(server, s5[p]), NEW
         only \in BOOLEAN,
               tmux!Resolved(p, server, s1[s].name, only)
        PROVE  tmux!Knows(p, s5[p])'
    <3>1. PICK name \in tmux!Names : name = s1[s].name BY <2>5
    <3>2. tmux!Resolved(p, server, name, only) BY <2>7, <3>1 DEF tmux!Resolved
    <3>3. QED BY <2>5, <2>6, <3>1, <3>2
  <2>8. ASSUME tmux!Resolved(p, "kwt", s5[p].wanted, FALSE) PROVE tmux!Knows(p, s5[p])'
    <3>1. PICK name \in tmux!Names : name = s5[p].wanted BY <2>2
    <3>2. tmux!Resolved(p, "kwt", name, FALSE) BY <2>8, <3>1 DEF tmux!Resolved
    <3>3. QED BY <2>2, <2>6, <3>1, <3>2
  <2>9. CASE tmux!Candidates("kwt", s5[p]) # {}
    <3>1. PICK s \in tmux!Candidates("kwt", s5[p]) :
            IF tmux!Matches(s, s5[p])
            THEN tmux!Resolved(p, "kwt", s1[s].name, s1[s].name # s5[p].wanted)
            ELSE tmux!End(p)
      BY <1>2, <2>9 DEF tmux!Resolve
    <3>2. CASE tmux!End(p) BY <3>2, EndKnows
    <3>3. CASE tmux!Resolved(p, "kwt", s1[s].name, s1[s].name # s5[p].wanted)
      <4>1. PICK only \in BOOLEAN : only <=> s1[s].name # s5[p].wanted BY Zenon
      <4>2. tmux!Resolved(p, "kwt", s1[s].name, only) BY <3>3, <4>1 DEF tmux!Resolved
      <4>3. QED BY <2>7, <4>2
    <3>4. QED BY <3>1, <3>2, <3>3
  <2>10. CASE tmux!Candidates("kwt", s5[p]) = {}
    <3>1. \/ \E s \in tmux!Candidates("default", s5[p]) : tmux!Resolved(p, "default", s1[s].name,
              TRUE)
          \/ tmux!Resolved(p, "kwt", s5[p].wanted, FALSE)
      BY <1>2, <2>10 DEF tmux!Resolve, tmux!adoptDefaultServerSession
    <3>2. CASE \E s \in tmux!Candidates("default", s5[p]) : tmux!Resolved(p, "default",
        s1[s].name, TRUE)
      BY <2>7, <3>2
    <3>3. QED BY <2>8, <3>1, <3>2
  <2>11. QED BY <2>9, <2>10
<1>3. CASE tmux!ResolveDegraded(p)
  <2>1. s5[p].pc = "resolve" /\ s2' = s2 BY <1>3 DEF tmux!ResolveDegraded, tmux!World
  <2>2. /\ s5[p] \in tmux!Asking /\ s5[p].wanted \in tmux!Names /\ s5[p].wanted[1] = s5[p].path
        /\ tmux!NamesIt(s5[p].wanted, s5[p].gen) /\ s5[p].path \in Directories
    <3>1. PICK i : i = s5[p] BY <2>1
    <3>2. i \in tmux!Asking /\ tmux!AsksForIt(i) BY <2>1, <3>1, OpenerHas DEF tmux!OpenerAt
    <3>3. QED BY <2>1, <3>1, <3>2 DEF tmux!AsksForIt, tmux!Asking
  <2>3. {"kwt", "default", "socket", "former"} \subseteq tmux!Servers /\ {"socket",
      "former"} = tmux!Sockets
    BY DEF tmux!Servers, tmux!Shared, tmux!Sockets
  <2>4. s5[p].gen \notin Protected /\ tmux!Resolved(p, "kwt", s5[p].wanted, FALSE)
    BY <1>3 DEF tmux!ResolveDegraded
  <2>5. PICK name \in tmux!Names : name = s5[p].wanted BY <2>2
  <2>6. tmux!Resolved(p, "kwt", name, FALSE) BY <2>4, <2>5 DEF tmux!Resolved
  <2>7. tmux!NamesIt(name, s5[p].gen) BY <2>4 DEF tmux!NamesIt
  <2>8. QED BY <2>1, <2>2, <2>3, <2>4, <2>5, <2>6, <2>7, ResolvedKnows
<1>4. CASE tmux!ResolveProtected(p)
  <2>1. s5[p].pc = "resolve" /\ s2' = s2 BY <1>4 DEF tmux!ResolveProtected, tmux!World
  <2>2. /\ s5[p] \in tmux!Asking /\ s5[p].wanted \in tmux!Names /\ s5[p].wanted[1] = s5[p].path
        /\ tmux!NamesIt(s5[p].wanted, s5[p].gen) /\ s5[p].path \in Directories
    <3>1. PICK i : i = s5[p] BY <2>1
    <3>2. i \in tmux!Asking /\ tmux!AsksForIt(i) BY <2>1, <3>1, OpenerHas DEF tmux!OpenerAt
    <3>3. QED BY <2>1, <3>1, <3>2 DEF tmux!AsksForIt, tmux!Asking
  <2>3. {"kwt", "default", "socket", "former"} \subseteq tmux!Servers /\ {"socket",
      "former"} = tmux!Sockets
    BY DEF tmux!Servers, tmux!Shared, tmux!Sockets
  <2>4. s5[p].gen \in Protected BY <1>4 DEF tmux!ResolveProtected
  <2>5. ASSUME NEW server \in tmux!Sockets, tmux!Resolved(p, server, s5[p].wanted, FALSE) PROVE
         tmux!Knows(p, s5[p])'
    <3>1. PICK name \in tmux!Names : name = s5[p].wanted BY <2>2
    <3>2. tmux!Resolved(p, server, name, FALSE) BY <2>5, <3>1 DEF tmux!Resolved
    <3>3. tmux!NamesIt(name, s5[p].gen) BY <2>2, <3>1
    <3>4. QED BY <2>1, <2>2, <2>3, <2>4, <2>5, <3>1, <3>2, <3>3, ResolvedKnows
  <2>6. \/ tmux!End(p)
        \/ \E server \in tmux!Sockets : tmux!Resolved(p, server, s5[p].wanted, FALSE)
    <3>1. \/ tmux!End(p)
          \/ tmux!Resolved(p, "socket", s5[p].wanted, FALSE)
          \/ tmux!Resolved(p, IF tmux!Probe("former",
              s5[p].wanted) = "live" THEN "former" ELSE "socket",
                           s5[p].wanted, FALSE)
      BY <1>4 DEF tmux!ResolveProtected
    <3>2. PICK server \in tmux!Sockets :
            server = IF tmux!Probe("former", s5[p].wanted) = "live" THEN "former" ELSE "socket"
      BY <2>3
    <3>3. \/ tmux!End(p) \/ tmux!Resolved(p, "socket", s5[p].wanted, FALSE)
          \/ tmux!Resolved(p, server, s5[p].wanted, FALSE)
      BY <3>1, <3>2 DEF tmux!Resolved
    <3>4. QED BY <2>3, <3>3
  <2>7. QED BY <2>5, <2>6, EndKnows
<1>5. CASE tmux!Ensure(p)
  <2>1. PICK i : i = s5[p] BY TmuxKnown
  <2>2. i.pc = "ensure" /\ i.pc \in tmux!OpenerAt /\ s2' = s2
    BY <1>5, <2>1 DEF tmux!Ensure, tmux!OpenerAt, tmux!World
  <2>3. /\ i \in tmux!Choosing /\ i.gen \in Gens /\ s4 = p /\ s2[i.gen] # None /\ tmux!AsksForIt(i)
        /\ tmux!HasSession(i)
    BY <2>1, <2>2, OpenerHas
  <2>4. /\ i.wanted[1] = i.path /\ tmux!NamesIt(i.wanted, i.gen) /\ i.name[1] = i.path
        /\ tmux!NamesIt(i.name, i.gen) /\ (i.server \in tmux!Sockets <=> i.gen \in Protected)
    BY <2>2, <2>3 DEF tmux!AsksForIt
  <2>5. {"resolve", "ensure", "repair", "create", "bootstrap", "panes", "abort", "opened"}
          \cap (tmux!RemoverAt \cup tmux!Sockets) = {}
    BY DEF tmux!RemoverAt, tmux!Servers, tmux!Shared, tmux!Sockets
  <2>6. \/ tmux!End(p)
        \/ s4' = s4 /\ tmux!Do(p, [i EXCEPT !.pc = "repair"]) /\ \A s \in tmux!At(i) :
            tmux!Matches(s, i)
        \/ s4' = s4 /\ tmux!Do(p, [i EXCEPT !.pc = "create"])
        \/ s4' = s4 /\ tmux!Do(p, [pc |-> "resolve", gen |-> i.gen, path |-> i.path,
            wanted |-> i.wanted,
                        expected |-> i.expected, retried |-> TRUE])
    BY <1>5, <2>1 DEF tmux!Ensure
  <2>7. s1' = s1 BY <1>5 DEF tmux!Ensure
  <2>8. ASSUME s4' = s4, NEW k \in {"repair", "create"}, tmux!Do(p, [i EXCEPT !.pc = k]),
               k = "repair" => \A s \in tmux!At(i) : tmux!Matches(s, i)
        PROVE  tmux!Knows(p, s5[p])'
    <3>1. PICK j : j = [i EXCEPT !.pc = k] OBVIOUS
    <3>2. s5'[p] = j BY <2>8, <3>1, DoesIt
    <3>3. /\ j \in tmux!Choosing /\ j.pc = k /\ j.gen = i.gen /\ j.path = i.path /\
              j.wanted = i.wanted
          /\ j.server = i.server /\ j.name = i.name
      BY <2>3, <3>1 DEF tmux!Choosing
    <3>4. j \in tmux!Job /\ j.pc \in tmux!OpenerAt BY <3>3 DEF tmux!Job, tmux!OpenerAt
    <3>5. tmux!AsksForIt(j)' BY <2>2, <2>4, <2>5, <3>3 DEF tmux!AsksForIt, tmux!NamesIt
    <3>6. tmux!HasSession(j)'
      BY <2>7, <2>8, <3>3 DEF tmux!HasSession, tmux!At, tmux!Called, tmux!On, tmux!Live,
        tmux!Matches
    <3>7. QED BY <2>2, <2>3, <2>8, <3>2, <3>3, <3>4, <3>5, <3>6, OpenerKnows
  <2>9. ASSUME s4' = s4, tmux!Do(p, [pc |-> "resolve", gen |-> i.gen, path |-> i.path, wanted |->
         i.wanted,
                        expected |-> i.expected, retried |-> TRUE])
        PROVE  tmux!Knows(p, s5[p])'
    <3>1. PICK j : j = [pc |-> "resolve", gen |-> i.gen, path |-> i.path, wanted |-> i.wanted,
                        expected |-> i.expected, retried |-> TRUE]
      OBVIOUS
    <3>2. s5'[p] = j BY <2>9, <3>1, DoesIt
    <3>3. j \in tmux!Asking /\ j.pc = "resolve" BY <2>3, <3>1 DEF tmux!Asking, tmux!Choosing
    <3>4. j \in tmux!Job /\ j.pc \in tmux!OpenerAt BY <3>3 DEF tmux!Job, tmux!OpenerAt
    <3>5. j \notin tmux!Choosing BY <3>3 DEF tmux!Choosing
    <3>6. tmux!AsksForIt(j)' BY <2>2, <2>4, <2>5, <3>1, <3>3, <3>5 DEF tmux!AsksForIt, tmux!NamesIt
    <3>7. tmux!HasSession(j)' BY <3>3 DEF tmux!HasSession
    <3>8. QED BY <2>2, <2>3, <2>9, <3>1, <3>2, <3>4, <3>6, <3>7, OpenerKnows
  <2>10. QED BY <2>6, <2>8, <2>9, EndKnows
<1>6. CASE tmux!RefuseProtected(p) BY <1>6, EndKnows DEF tmux!RefuseProtected
<1>7. CASE tmux!Repair(p)
  <2>1. PICK i : i = s5[p] BY TmuxKnown
  <2>2. i.pc = "repair" /\ i.pc \in tmux!OpenerAt /\ s2' = s2
    BY <1>7, <2>1 DEF tmux!Repair, tmux!OpenerAt, tmux!World
  <2>3. /\ i \in tmux!Choosing /\ i.gen \in Gens /\ s4 = p /\ s2[i.gen] # None /\ tmux!AsksForIt(i)
        /\ tmux!HasSession(i)
    BY <2>1, <2>2, OpenerHas
  <2>4. /\ i.wanted[1] = i.path /\ tmux!NamesIt(i.wanted, i.gen) /\ i.name[1] = i.path
        /\ tmux!NamesIt(i.name, i.gen) /\ (i.server \in tmux!Sockets <=> i.gen \in Protected)
    BY <2>2, <2>3 DEF tmux!AsksForIt
  <2>5. {"resolve", "ensure", "repair", "create", "bootstrap", "panes", "abort", "opened"}
          \cap (tmux!RemoverAt \cup tmux!Sockets) = {}
    BY DEF tmux!RemoverAt, tmux!Servers, tmux!Shared, tmux!Sockets
  <2>6. CASE tmux!End(p) BY <2>6, EndKnows
  <2>7. CASE s4' = s4 /\ tmux!Do(p, [i EXCEPT !.pc = "opened"])
    <3>1. PICK j : j = [i EXCEPT !.pc = "opened"] OBVIOUS
    <3>2. s5'[p] = j BY <2>7, <3>1, DoesIt
    <3>3. /\ j \in tmux!Choosing /\ j.pc = "opened" /\ j.gen = i.gen /\ j.path = i.path /\
              j.wanted = i.wanted
          /\ j.server = i.server /\ j.name = i.name
      BY <2>3, <3>1 DEF tmux!Choosing
    <3>4. j \in tmux!Job /\ j.pc \in tmux!OpenerAt BY <3>3 DEF tmux!Job, tmux!OpenerAt
    <3>5. tmux!AsksForIt(j)' BY <2>2, <2>4, <2>5, <3>3 DEF tmux!AsksForIt, tmux!NamesIt
    <3>6. tmux!HasSession(j)' BY <3>3 DEF tmux!HasSession
    <3>7. QED BY <2>2, <2>3, <2>7, <3>2, <3>3, <3>4, <3>5, <3>6, OpenerKnows
  <2>8. QED BY <1>7, <2>1, <2>6, <2>7 DEF tmux!Repair
<1>8. CASE tmux!NewSession(p)
  <2>1. PICK i : i = s5[p] BY TmuxKnown
  <2>2. i.pc = "create" /\ i.pc \in tmux!OpenerAt /\ s2' = s2
    BY <1>8, <2>1 DEF tmux!NewSession, tmux!OpenerAt, tmux!World
  <2>3. /\ i \in tmux!Choosing /\ i.gen \in Gens /\ s4 = p /\ s2[i.gen] # None /\ tmux!AsksForIt(i)
        /\ tmux!HasSession(i)
    BY <2>1, <2>2, OpenerHas
  <2>4. /\ i.wanted[1] = i.path /\ tmux!NamesIt(i.wanted, i.gen) /\ i.name[1] = i.path
        /\ tmux!NamesIt(i.name, i.gen) /\ (i.server \in tmux!Sockets <=> i.gen \in Protected)
    BY <2>2, <2>3 DEF tmux!AsksForIt
  <2>5. {"resolve", "ensure", "repair", "create", "bootstrap", "panes", "abort", "opened"}
          \cap (tmux!RemoverAt \cup tmux!Sockets) = {}
    BY DEF tmux!RemoverAt, tmux!Servers, tmux!Shared, tmux!Sockets
  <2>6. CASE tmux!End(p) BY <2>6, EndKnows
  <2>7. CASE ~tmux!End(p)
    <3>1. PICK s \in tmux!Ids \ tmux!Live :
            /\ s1' = [s1 EXCEPT ![s] =
                   [server |-> i.server, name |-> i.name, path |-> None, gen |-> None,
                    sweep |-> FALSE, for |-> i.gen, built |-> FALSE]]
            /\ tmux!Do(p, [pc |-> "bootstrap", gen |-> i.gen, path |-> i.path, name |-> i.name,
                           server |-> i.server, made |-> s])
            /\ s4' = s4 /\ tmux!At(i) = {}
      BY <1>8, <2>1, <2>7 DEF tmux!NewSession
    <3>2. PICK j : j = [pc |-> "bootstrap", gen |-> i.gen, path |-> i.path, name |-> i.name,
                        server |-> i.server, made |-> s]
      OBVIOUS
    <3>3. s5'[p] = j BY <3>1, <3>2, DoesIt
    <3>4. j \in tmux!Making /\ j.pc = "bootstrap" BY <2>3, <3>2 DEF tmux!Making, tmux!Choosing
    <3>5. j \in tmux!Job /\ j.pc \in tmux!OpenerAt BY <3>4 DEF tmux!Job, tmux!OpenerAt
    <3>6. j \notin tmux!Choosing BY <3>4 DEF tmux!Choosing
    <3>7. tmux!AsksForIt(j)' BY <2>2, <2>4, <2>5, <3>2, <3>4, <3>6 DEF tmux!AsksForIt, tmux!NamesIt
    <3>8. \A t \in tmux!At(j)' : t = s /\ s1'[t].for = i.gen
      <4>1. DOMAIN s1 = tmux!Ids BY DEF tmux!TmuxInv
      <4>2. s1'[s].for = i.gen BY <3>1, <4>1
      <4>3. ASSUME NEW t \in tmux!At(j)', t # s PROVE FALSE
        <5>1. t \in tmux!Ids /\ s1'[t] # None /\ s1'[t].server = i.server /\ s1'[t].name = i.name
          BY <3>2, <4>3 DEF tmux!At, tmux!Called, tmux!On, tmux!Live
        <5>2. s1'[t] = s1[t] BY <3>1, <4>1, <4>3, <5>1
        <5>3. t \in tmux!At(i) BY <5>1, <5>2 DEF tmux!At, tmux!Called, tmux!On, tmux!Live
        <5>4. QED BY <3>1, <5>3
      <4>4. QED BY <4>2, <4>3
    <3>9. tmux!HasSession(j)' BY <3>2, <3>4, <3>8 DEF tmux!HasSession
    <3>10. QED BY <2>2, <2>3, <3>1, <3>2, <3>3, <3>5, <3>7, <3>9, OpenerKnows
  <2>8. QED BY <2>6, <2>7
<1>9. CASE tmux!Bootstrap(p)
  <2>1. PICK i : i = s5[p] BY TmuxKnown
  <2>2. i.pc = "bootstrap" /\ i.pc \in tmux!OpenerAt /\ s2' = s2
    BY <1>9, <2>1 DEF tmux!Bootstrap, tmux!OpenerAt, tmux!World
  <2>3. /\ i \in tmux!Making /\ i.gen \in Gens /\ s4 = p /\ s2[i.gen] # None /\ tmux!AsksForIt(i)
        /\ tmux!HasSession(i)
    BY <2>1, <2>2, OpenerHas
  <2>4. /\ i.name[1] = i.path
        /\ tmux!NamesIt(i.name, i.gen) /\ (i.server \in tmux!Sockets <=> i.gen \in Protected)
    BY <2>2, <2>3 DEF tmux!AsksForIt
  <2>5. {"resolve", "ensure", "repair", "create", "bootstrap", "panes", "abort", "opened"}
          \cap (tmux!RemoverAt \cup tmux!Sockets) = {}
    BY DEF tmux!RemoverAt, tmux!Servers, tmux!Shared, tmux!Sockets
  <2>6. \A t \in tmux!At(i)' : t \in tmux!At(i) /\ s1'[t].for = s1[t].for
    <3>1. ASSUME NEW t \in tmux!At(i)' PROVE t \in tmux!At(i) /\ s1'[t].for = s1[t].for
      <4>1. t \in tmux!Live' /\ s1'[t].server = i.server /\ s1'[t].name = i.name
        BY <3>1 DEF tmux!At, tmux!Called, tmux!On
      <4>2. StaysMarked(p, t)
        <5>1. ~IsMade(p, t) BY <2>1, <2>2 DEF IsMade
        <5>2. QED BY <4>1, <5>1, TmuxSessionsStep
      <4>3. QED BY <4>1, <4>2 DEF StaysMarked, tmux!At, tmux!Called, tmux!On
    <3>2. QED BY <3>1
  <2>7. s4' = s4 /\ tmux!Do(p, [i EXCEPT !.pc = "panes"]) BY <1>9, <2>1 DEF tmux!Bootstrap
  <2>8. QED
    <3>1. PICK j : j = [i EXCEPT !.pc = "panes"] OBVIOUS
    <3>2. s5'[p] = j BY <2>7, <3>1, DoesIt
    <3>3. /\ j \in tmux!Making /\ j.pc = "panes" /\ j.gen = i.gen /\ j.path = i.path /\
              j.made = i.made
          /\ j.server = i.server /\ j.name = i.name
      BY <2>3, <3>1 DEF tmux!Making
    <3>4. j \in tmux!Job /\ j.pc \in tmux!OpenerAt BY <3>3 DEF tmux!Job, tmux!OpenerAt
    <3>5. j \notin tmux!Choosing BY <2>3, <3>1 DEF tmux!Choosing, tmux!Making
    <3>6. tmux!AsksForIt(j)' BY <2>2, <2>4, <2>5, <3>3, <3>5 DEF tmux!AsksForIt, tmux!NamesIt
    <3>7. tmux!HasSession(j)'
      <4>1. \A t \in tmux!At(j)' : t \in tmux!At(i)' BY <3>3 DEF tmux!At
      <4>2. \A s \in tmux!At(i) : s = i.made /\ s1[s].for = i.gen BY <2>2, <2>3 DEF tmux!HasSession
      <4>3. QED BY <2>6, <3>3, <4>1, <4>2 DEF tmux!HasSession
    <3>8. QED BY <2>2, <2>3, <2>7, <3>2, <3>3, <3>4, <3>6, <3>7, OpenerKnows
<1>10. CASE tmux!BuildPanes(p)
  <2>1. PICK i : i = s5[p] BY TmuxKnown
  <2>2. i.pc = "panes" /\ i.pc \in tmux!OpenerAt /\ s2' = s2
    BY <1>10, <2>1 DEF tmux!BuildPanes, tmux!OpenerAt, tmux!World
  <2>3. /\ i \in tmux!Making /\ i.gen \in Gens /\ s4 = p /\ s2[i.gen] # None /\ tmux!AsksForIt(i)
        /\ tmux!HasSession(i)
    BY <2>1, <2>2, OpenerHas
  <2>4. /\ i.name[1] = i.path
        /\ tmux!NamesIt(i.name, i.gen) /\ (i.server \in tmux!Sockets <=> i.gen \in Protected)
    BY <2>2, <2>3 DEF tmux!AsksForIt
  <2>5. {"resolve", "ensure", "repair", "create", "bootstrap", "panes", "abort", "opened"}
          \cap (tmux!RemoverAt \cup tmux!Sockets) = {}
    BY DEF tmux!RemoverAt, tmux!Servers, tmux!Shared, tmux!Sockets
  <2>7. s4' = s4 /\ tmux!Do(p, [i EXCEPT !.pc = "opened"]) BY <1>10, <2>1 DEF tmux!BuildPanes
  <2>8. QED
    <3>1. PICK j : j = [i EXCEPT !.pc = "opened"] OBVIOUS
    <3>2. s5'[p] = j BY <2>7, <3>1, DoesIt
    <3>3. /\ j \in tmux!Making /\ j.pc = "opened" /\ j.gen = i.gen /\ j.path = i.path /\
              j.made = i.made
          /\ j.server = i.server /\ j.name = i.name
      BY <2>3, <3>1 DEF tmux!Making
    <3>4. j \in tmux!Job /\ j.pc \in tmux!OpenerAt BY <3>3 DEF tmux!Job, tmux!OpenerAt
    <3>5. j \notin tmux!Choosing BY <2>3, <3>1 DEF tmux!Choosing, tmux!Making
    <3>6. tmux!AsksForIt(j)' BY <2>2, <2>4, <2>5, <3>3, <3>5 DEF tmux!AsksForIt, tmux!NamesIt
    <3>7. tmux!HasSession(j)' BY <3>3 DEF tmux!HasSession
    <3>8. QED BY <2>2, <2>3, <2>7, <3>2, <3>3, <3>4, <3>6, <3>7, OpenerKnows
<1>11. CASE tmux!CreateFails(p)
  <2>1. PICK i : i = s5[p] BY TmuxKnown
  <2>2. i.pc \in {"bootstrap", "panes"} /\ i.pc \in tmux!OpenerAt /\ s2' = s2
    BY <1>11, <2>1 DEF tmux!CreateFails, tmux!OpenerAt, tmux!World
  <2>3. /\ i \in tmux!Making /\ i.gen \in Gens /\ s4 = p /\ s2[i.gen] # None /\ tmux!AsksForIt(i)
        /\ tmux!HasSession(i)
    BY <2>1, <2>2, OpenerHas
  <2>4. /\ i.name[1] = i.path
        /\ tmux!NamesIt(i.name, i.gen) /\ (i.server \in tmux!Sockets <=> i.gen \in Protected)
    BY <2>2, <2>3 DEF tmux!AsksForIt
  <2>5. {"resolve", "ensure", "repair", "create", "bootstrap", "panes", "abort", "opened"}
          \cap (tmux!RemoverAt \cup tmux!Sockets) = {}
    BY DEF tmux!RemoverAt, tmux!Servers, tmux!Shared, tmux!Sockets
  <2>7. s4' = s4 /\ s1' = s1 /\ tmux!Do(p, [i EXCEPT !.pc = "abort"])
    BY <1>11, <2>1 DEF tmux!CreateFails
  <2>8. QED
    <3>1. PICK j : j = [i EXCEPT !.pc = "abort"] OBVIOUS
    <3>2. s5'[p] = j BY <2>7, <3>1, DoesIt
    <3>3. /\ j \in tmux!Making /\ j.pc = "abort" /\ j.gen = i.gen /\ j.path = i.path /\
              j.made = i.made
          /\ j.server = i.server /\ j.name = i.name
      BY <2>3, <3>1 DEF tmux!Making
    <3>4. j \in tmux!Job /\ j.pc \in tmux!OpenerAt BY <3>3 DEF tmux!Job, tmux!OpenerAt
    <3>5. j \notin tmux!Choosing BY <2>3, <3>1 DEF tmux!Choosing, tmux!Making
    <3>6. tmux!AsksForIt(j)' BY <2>2, <2>4, <2>5, <3>3, <3>5 DEF tmux!AsksForIt, tmux!NamesIt
    <3>7. tmux!HasSession(j)'
      <4>1. \A s \in tmux!At(i) : s = i.made /\ s1[s].for = i.gen BY <2>2, <2>3 DEF tmux!HasSession
      <4>2. tmux!At(j)' = tmux!At(i) BY <2>7, <3>3 DEF tmux!At, tmux!Called, tmux!On, tmux!Live
      <4>3. QED BY <2>7, <3>3, <4>1, <4>2 DEF tmux!HasSession
    <3>8. QED BY <2>2, <2>3, <2>7, <3>2, <3>3, <3>4, <3>6, <3>7, OpenerKnows
<1>12. CASE tmux!Abort(p) BY <1>12, EndKnows DEF tmux!Abort
<1>13. CASE tmux!Attach(p) BY <1>13, EndKnows DEF tmux!Attach
<1>14. CASE tmux!BeginRemoval(p)
  <2>1. PICK g \in Gens, br \in Branches, guarded \in BOOLEAN :
          /\ s2[g] # None /\ (g \in Protected => br = tmux!Imported)
          /\ tmux!Do(p, [pc |-> IF guarded THEN "kwt" ELSE "remove", gen |-> g, path |-> s2[g],
                         name |-> <<s2[g], br>>, guarded |-> guarded])
    BY <1>14 DEF tmux!BeginRemoval
  <2>2. PICK d : d = s2[g] BY <2>1
  <2>3. d \in Directories BY <2>1, <2>2 DEF tmux!TmuxInv
  <2>4. PICK n : n = <<d, br>> OBVIOUS
  <2>5. n \in tmux!Names /\ n[1] = d BY <2>3, <2>4 DEF tmux!Names
  <2>6. PICK j : j = [pc |-> IF guarded THEN "kwt" ELSE "remove", gen |-> g, path |-> d, name |-> n,
                      guarded |-> guarded]
    OBVIOUS
  <2>7. s5'[p] = j BY <2>1, <2>2, <2>4, <2>6, DoesIt
  <2>8. /\ {"kwt", "remove"} \subseteq tmux!RemoverAt /\ {"kwt",
            "remove"} \cap (tmux!OpenerAt \cup tmux!Sockets) = {}
        /\ tmux!RemoverAt \subseteq tmux!Servers \cup {"remove", "sweep"}
    BY DEF tmux!RemoverAt, tmux!Servers, tmux!Shared, tmux!OpenerAt, tmux!Sockets
  <2>9. j \in tmux!Removing /\ j.pc \in {"kwt", "remove"} /\ (j.pc = "remove" => ~j.guarded)
    BY <2>3, <2>5, <2>6, <2>8 DEF tmux!Removing
  <2>10. j \in tmux!Job BY <2>9 DEF tmux!Job
  <2>11. s2' = s2 /\ s4' = p BY <1>14 DEF tmux!BeginRemoval, tmux!World
  <2>12. g \in Protected => n = <<s2[g], tmux!Imported>> BY <2>1, <2>2, <2>4
  <2>13. j \notin tmux!Choosing BY <2>9 DEF tmux!Choosing
  <2>14. tmux!AsksForIt(j)'
    BY <2>6, <2>8, <2>9, <2>11, <2>12, <2>13 DEF tmux!AsksForIt, tmux!NamesIt, tmux!OpenerAt
  <2>15. tmux!HasCleared(j)' BY <2>9 DEF tmux!HasCleared
  <2>16. QED BY <2>1, <2>6, <2>7, <2>8, <2>9, <2>10, <2>11, <2>14, <2>15, RemoverKnows
<1>15. CASE tmux!Quiesce(p)
  <2>1. PICK i : i = s5[p] BY TmuxKnown
  <2>2. i.pc \in tmux!Servers /\ s2' = s2 /\ s1' = s1
    BY <1>15, <2>1 DEF tmux!Quiesce, tmux!World, tmux!Servers
  <2>3. i.pc \in tmux!RemoverAt /\ i \in tmux!Removing /\ i.gen \in Gens
    BY <2>1, <2>2, TmuxKnown, TmuxJobs DEF tmux!RemoverAt, tmux!Removing
  <2>4. /\ s4 = p /\ s2[i.gen] # None /\ tmux!NamesIt(i.name, i.gen) /\ tmux!HasCleared(i)
        /\ i.pc \in tmux!Sockets => i.gen \in Protected
    BY <2>1, <2>3, TmuxKnown DEF tmux!HasLock, tmux!AsksForIt
  <2>5. CASE tmux!End(p) BY <2>5, EndKnows
  <2>6. CASE /\ i.pc \in tmux!Shared => ~\E s \in tmux!On(i.pc) : tmux!Threatens(s, i)
             /\ i.pc \in tmux!Sockets => tmux!Probe(i.pc, i.name) = "absent"
             /\ tmux!Do(p, [i EXCEPT !.pc = tmux!NextServer(i)]) /\ s4' = s4
    <3>1. \A s \in tmux!Live : s1[s].server = i.pc => s1[s].for # i.gen
      <4>1. ASSUME NEW s \in tmux!Live, s1[s].server = i.pc, s1[s].for = i.gen PROVE FALSE
        <5>1. s \in tmux!On(i.pc) BY <4>1 DEF tmux!On
        <5>2. CASE i.pc \in tmux!Sockets
          <6>1. tmux!On(i.pc) = {} BY <2>6, <5>2 DEF tmux!Probe
          <6>2. QED BY <5>1, <6>1
        <5>3. CASE i.pc \in tmux!Shared
          <6>1. ~tmux!Threatens(s, i) BY <2>6, <5>1, <5>3
          <6>2. s1[s].gen \in {None, i.gen} /\ tmux!SessionIsSound(s) BY <4>1, SessionIs
          <6>3. QED BY <6>1, <6>2 DEF tmux!Threatens, tmux!SessionIsSound
        <5>4. QED BY <2>2, <5>2, <5>3 DEF tmux!Servers
      <4>2. QED BY <4>1
    <3>2. PICK k : k = tmux!NextServer(i) OBVIOUS
    <3>3. /\ i.pc = "kwt" => k = "default"
          /\ i.pc = "default" => k = IF i.gen \in Protected THEN "socket" ELSE "remove"
          /\ i.pc = "socket" => k = "former"
          /\ i.pc = "former" => k = "remove"
      BY <3>2 DEF tmux!NextServer
    <3>4. i.pc \in {"kwt", "default", "socket", "former"}
      BY <2>2 DEF tmux!Servers, tmux!Shared, tmux!Sockets
    <3>5. /\ {"default", "socket", "former", "remove"} \subseteq tmux!RemoverAt
          /\ tmux!RemoverAt \subseteq tmux!Servers \cup {"remove", "sweep"}
          /\ tmux!RemoverAt \cap tmux!OpenerAt = {} /\ "resolve" \in tmux!OpenerAt
          /\ tmux!Sockets = {"socket", "former"} /\ tmux!Shared = {"kwt", "default"}
          /\ tmux!Servers = {"kwt", "default", "socket", "former"}
      BY DEF tmux!RemoverAt, tmux!Servers, tmux!Shared, tmux!Sockets, tmux!OpenerAt
    <3>6. PICK j : j = [i EXCEPT !.pc = k] OBVIOUS
    <3>7. s5'[p] = j BY <2>6, <3>2, <3>6, DoesIt
    <3>8. k \in {"default", "socket", "former", "remove"} BY <3>3, <3>4
    <3>9. j \in tmux!Removing /\ j.pc = k /\ j.gen = i.gen /\ j.name = i.name /\
        j.guarded = i.guarded
      BY <2>3, <3>5, <3>6, <3>8 DEF tmux!Removing
    <3>10. j \in tmux!Job /\ j.pc \in tmux!RemoverAt BY <3>5, <3>8, <3>9 DEF tmux!Job
    <3>11. j \notin tmux!Choosing /\ j.pc # "resolve" BY <3>8, <3>9 DEF tmux!Choosing
    <3>12. k \in tmux!Sockets => i.gen \in Protected BY <2>4, <3>3, <3>4, <3>5
    <3>13. tmux!AsksForIt(j)'
      BY <2>2, <2>4, <3>5, <3>9, <3>10, <3>11, <3>12 DEF tmux!AsksForIt, tmux!NamesIt
    <3>14. tmux!HasCleared(j)'
      <4>1. ASSUME NEW s \in tmux!Live, s1[s].for = i.gen
            PROVE  /\ k \in {"default", "socket", "former"} => s1[s].server # "kwt"
                   /\ k \in {"socket", "former"} => s1[s].server # "default"
                   /\ k = "former" => s1[s].server # "socket"
                   /\ k # "remove"
        <5>1. /\ i.pc \in {"default", "socket", "former"} => s1[s].server # "kwt"
              /\ i.pc \in {"socket", "former"} => s1[s].server # "default"
              /\ i.pc = "former" => s1[s].server # "socket"
          BY <2>3, <2>4, <4>1 DEF tmux!HasCleared
        <5>2. s1[s].server # i.pc BY <3>1, <4>1
        <5>3. s1[s].server \in tmux!Servers /\ (s1[s].server \in tmux!Sockets =>
            i.gen \in Protected)
          BY <4>1, SessionIs DEF tmux!SessionIsSound
        <5>4. QED BY <3>3, <3>4, <3>5, <5>1, <5>2, <5>3
      <4>2. tmux!Live' = tmux!Live BY <2>2 DEF tmux!Live
      <4>3. QED BY <2>2, <3>9, <4>1, <4>2 DEF tmux!HasCleared
    <3>15. QED BY <2>2, <2>4, <2>6, <3>7, <3>9, <3>10, <3>13, <3>14, RemoverKnows
  <2>7. QED BY <1>15, <2>1, <2>5, <2>6 DEF tmux!Quiesce
<1>16. CASE tmux!RemoveWorktree(p)
  <2>1. PICK i : i = s5[p] BY TmuxKnown
  <2>2. i.pc = "remove" /\ s1' = s1 /\ s3' = s3 /\ s2' = [s2 EXCEPT ![i.gen] = None]
    BY <1>16, <2>1 DEF tmux!RemoveWorktree, tmux!Removes
  <2>3. i.pc \in tmux!RemoverAt /\ i \in tmux!Removing /\ i.gen \in Gens
    BY <2>1, <2>2, TmuxKnown, TmuxJobs DEF tmux!RemoverAt, tmux!Removing
  <2>4. s2[i.gen] # None /\ tmux!NamesIt(i.name, i.gen) /\ i.gen \in s3
    BY <2>1, <2>3, TmuxKnown DEF tmux!HasLock, tmux!AsksForIt, tmux!TmuxInv
  <2>5. CASE tmux!Do(p, tmux!Idle)
    <3>1. PICK j : j = tmux!Idle OBVIOUS
    <3>2. s5'[p] = j BY <2>5, <3>1, DoesIt
    <3>3. QED BY <3>1, <3>2, IdleKnows
  <2>6. CASE tmux!Do(p, [i EXCEPT !.pc = "sweep"])
    <3>1. PICK j : j = [i EXCEPT !.pc = "sweep"] OBVIOUS
    <3>2. s5'[p] = j BY <2>6, <3>1, DoesIt
    <3>3. j \in tmux!Removing /\ j.pc = "sweep" /\ j.gen = i.gen /\ j.name = i.name
      BY <2>3, <3>1 DEF tmux!Removing
    <3>4. j \in tmux!Job /\ j.pc \in tmux!SweeperAt BY <3>3 DEF tmux!Job, tmux!SweeperAt
    <3>5. s2'[i.gen] = None BY <2>2, <2>3 DEF tmux!TmuxInv
    <3>6. \A s \in tmux!Live' : s1'[s].server \in tmux!Sockets /\ tmux!KwtName(s)'
                              /\ s1'[s].for = j.gen => s1'[s].name = j.name
      <4>1. ASSUME NEW s \in tmux!Live, s1[s].server \in tmux!Sockets, tmux!KwtName(s),
             s1[s].for = i.gen
            PROVE  s1[s].name = i.name
        <5>1. i.gen \in Protected /\ tmux!NamesIt(s1[s].name, i.gen)
          BY <2>4, <4>1, SessionIs DEF tmux!SessionIsSound
        <5>2. QED BY <2>4, <5>1 DEF tmux!NamesIt
      <4>2. QED BY <2>2, <3>3, <4>1 DEF tmux!Live, tmux!KwtName
    <3>7. tmux!HasListed(j)' BY <2>2, <2>4, <3>3, <3>5, <3>6 DEF tmux!HasListed
    <3>8. QED BY <3>2, <3>4, <3>7, SweeperKnows
  <2>7. QED BY <1>16, <2>1, <2>5, <2>6 DEF tmux!RemoveWorktree
<1>17. CASE tmux!RemovalRefused(p) BY <1>17, EndKnows DEF tmux!RemovalRefused
<1>18. CASE tmux!Sweep(p)
  <2>1. PICK i : i = s5[p] BY TmuxKnown
  <2>2. i.pc = "sweep" /\ s2' = s2 /\ s3' = s3 BY <1>18, <2>1 DEF tmux!Sweep, tmux!World
  <2>3. i \in tmux!Removing /\ tmux!HasListed(i) BY <2>1, <2>2, TmuxKnown, TmuxJobs
  <2>4. s2'[i.gen] = None /\ i.gen \in s3' BY <2>2, <2>3 DEF tmux!HasListed, tmux!SweeperAt
  <2>5. i.gen # None /\ i.gen \in Gens /\ i.name \in tmux!Names
    BY <2>3, Assumption DEF Assumption, TmuxAssumption, tmux!Removing
  <2>6. s1' = s1 BY <1>18 DEF tmux!Sweep
  <2>7. PICK own : own = IF i.gen \in Protected THEN tmux!Sockets \X {i.name} ELSE {} OBVIOUS
  <2>8. PICK found : found = {s \in tmux!On("kwt") \cup tmux!On("default") : tmux!KwtName(s) /\
      s1[s].gen = i.gen} OBVIOUS
  <2>9. PICK more : more = own \cup {<<s1[s].server, s1[s].name>> : s \in found} OBVIOUS
  <2>10. tmux!Sweeping(p, own, TRUE) \/ tmux!Sweeping(p, more, FALSE)
    BY <1>18, <2>1, <2>7, <2>8, <2>9 DEF tmux!Sweep
  <2>11. own \subseteq tmux!Endpoints BY <2>5, <2>7 DEF tmux!Endpoints, tmux!Servers
  <2>12. more \subseteq tmux!Endpoints
    <3>1. ASSUME NEW s \in found PROVE <<s1[s].server, s1[s].name>> \in tmux!Endpoints
      <4>1. s \in tmux!Live /\ s1[s].name # tmux!Mine BY <2>8 DEF tmux!On, tmux!KwtName
      <4>2. s1[s].server \in tmux!Servers /\ s1[s].name \in tmux!Names
        BY <4>1, SessionIs DEF tmux!Session
      <4>3. QED BY <4>2 DEF tmux!Endpoints
    <3>2. QED BY <2>9, <2>11, <3>1
  <2>13. \A s \in tmux!Live : s1[s].gen = i.gen /\ tmux!KwtName(s) => <<s1[s].server,
      s1[s].name>> \in more
    <3>1. ASSUME NEW s \in tmux!Live, s1[s].gen = i.gen, tmux!KwtName(s) PROVE <<s1[s].server,
           s1[s].name>> \in more
      <4>1. s1[s].server \in tmux!Servers /\ s1[s].for = i.gen /\ tmux!SessionIsSound(s)
        BY <2>5, <3>1, SessionIs
      <4>2. CASE s1[s].server \in tmux!Sockets
        <5>1. i.gen \in Protected /\ s1[s].name = i.name
          BY <2>2, <2>3, <3>1, <4>1, <4>2 DEF tmux!SessionIsSound, tmux!HasListed
        <5>2. QED BY <2>7, <2>9, <4>2, <5>1
      <4>3. CASE s1[s].server \in tmux!Shared
        <5>1. s \in found BY <2>8, <3>1, <4>3 DEF tmux!Shared, tmux!On
        <5>2. QED BY <2>9, <5>1
      <4>4. QED BY <4>1, <4>2, <4>3 DEF tmux!Servers
    <3>2. QED BY <3>1
  <2>14. ASSUME NEW left \in SUBSET tmux!Endpoints, NEW bad \in BOOLEAN, tmux!Sweeping(p, left,
         bad),
                bad \/ \A s \in tmux!Live : s1[s].gen = i.gen /\ tmux!KwtName(s) =>
                    <<s1[s].server, s1[s].name>> \in left
         PROVE  tmux!Knows(p, s5[p])'
    <3>1. \A s \in tmux!Live' : bad \/ (s1'[s].gen = i.gen /\ tmux!KwtName(s)' => <<s1'[s].server,
        s1'[s].name>> \in left)
      BY <2>6, <2>14 DEF tmux!Live, tmux!KwtName
    <3>2. QED BY <2>1, <2>4, <2>5, <2>14, <3>1, SweepingKnows
  <2>15. QED BY <2>10, <2>11, <2>12, <2>13, <2>14
<1>19. CASE tmux!KillBySweep(p)
  <2>1. PICK i : i = s5[p] BY TmuxKnown
  <2>2. i.pc = "kill" /\ s2' = s2 /\ s3' = s3 BY <1>19, <2>1 DEF tmux!KillBySweep, tmux!World
  <2>3. i \in tmux!Killing /\ tmux!HasListed(i) BY <2>1, <2>2, TmuxKnown, TmuxJobs
  <2>4. s2'[i.gen] = None /\ i.gen \in s3' BY <2>2, <2>3 DEF tmux!HasListed, tmux!SweeperAt
  <2>5. i.gen # None /\ i.gen \in Gens /\ i.name \in tmux!Names
    BY <2>3, Assumption DEF Assumption, TmuxAssumption, tmux!Killing
  <2>6. i.left \subseteq tmux!Endpoints /\ i.bad \in BOOLEAN BY <2>3 DEF tmux!Killing
  <2>7. i.bad \/ \A s \in tmux!Live : s1[s].gen = i.gen /\ tmux!KwtName(s) => <<s1[s].server,
      s1[s].name>> \in i.left
    BY <2>2, <2>3 DEF tmux!HasListed, tmux!SweeperAt
  <2>8. PICK e \in i.left :
          \/ tmux!Drop(p, e, TRUE) /\ s1' = s1
          \/ tmux!Called(e[1], e[2]) = {} /\ tmux!Drop(p, e, FALSE) /\ s1' = s1
          \/ /\ {s \in tmux!Called(e[1], e[2]) : s1[s].sweep /\ s1[s].gen = i.gen} # {}
             /\ s1' = tmux!Ended({s \in tmux!Called(e[1], e[2]) : s1[s].sweep /\ s1[s].gen = i.gen})
             /\ tmux!Drop(p, e, FALSE)
          \/ /\ tmux!Do(p, [pc |-> "inspect", gen |-> i.gen, name |-> i.name, left |-> i.left,
                            bad |-> i.bad, at |-> e])
             /\ s1' = s1
    BY <1>19, <2>1 DEF tmux!KillBySweep
  <2>9. \A s \in tmux!Live' : s \in tmux!Live /\ s1'[s] = s1[s]
    BY <2>8, Assumption DEF tmux!Ended, tmux!Live
  <2>10. CASE tmux!Drop(p, e, TRUE) BY <2>1, <2>4, <2>5, <2>6, <2>10, DropFails
  <2>11. ASSUME tmux!Drop(p, e, FALSE), tmux!Called(e[1], e[2])' = {} PROVE tmux!Knows(p, s5[p])'
    BY <2>1, <2>4, <2>5, <2>6, <2>7, <2>9, <2>11, DropKnows
  <2>12. CASE tmux!Called(e[1], e[2]) = {} /\ tmux!Drop(p, e, FALSE) /\ s1' = s1
    <3>1. tmux!Called(e[1], e[2])' = {} BY <2>12 DEF tmux!Called, tmux!On, tmux!Live
    <3>2. QED BY <2>11, <2>12, <3>1
  <2>13. CASE /\ {s \in tmux!Called(e[1], e[2]) : s1[s].sweep /\ s1[s].gen = i.gen} # {}
              /\ s1' = tmux!Ended({s \in tmux!Called(e[1], e[2]) : s1[s].sweep /\
                  s1[s].gen = i.gen})
              /\ tmux!Drop(p, e, FALSE)
    <3>1. PICK s \in tmux!Called(e[1], e[2]) : s1[s].sweep /\ s1[s].gen = i.gen BY <2>13
    <3>2. s \in tmux!Live /\ tmux!Alone(s) BY <3>1, SessionIs DEF tmux!Called, tmux!On
    <3>3. ASSUME NEW t \in tmux!Called(e[1], e[2])' PROVE FALSE
      <4>1. t \in tmux!Live /\ t \in tmux!Ids /\ s1'[t] # None /\ s1[t].server = e[1] /\
          s1[t].name = e[2]
        BY <2>9, <3>3 DEF tmux!Called, tmux!On, tmux!Live
      <4>2. t = s BY <3>1, <3>2, <4>1 DEF tmux!Alone, tmux!Called, tmux!On
      <4>3. QED BY <2>13, <3>1, <4>1, <4>2 DEF tmux!Ended
    <3>4. QED BY <2>11, <2>13, <3>3
  <2>14. CASE /\ tmux!Do(p, [pc |-> "inspect", gen |-> i.gen, name |-> i.name, left |-> i.left,
                            bad |-> i.bad, at |-> e])
              /\ s1' = s1
    <3>1. PICK j : j = [pc |-> "inspect", gen |-> i.gen, name |-> i.name, left |-> i.left,
                        bad |-> i.bad, at |-> e]
      OBVIOUS
    <3>2. s5'[p] = j BY <2>14, <3>1, DoesIt
    <3>3. j \in tmux!Inspecting /\ j.pc = "inspect" BY <2>5, <2>6, <3>1 DEF tmux!Inspecting
    <3>4. j \in tmux!Job /\ j.pc \in tmux!SweeperAt BY <3>3 DEF tmux!Job, tmux!SweeperAt
    <3>5. j.bad \/ \A s \in tmux!Live' : s1'[s].gen = j.gen /\ tmux!KwtName(s)' =>
        <<s1'[s].server, s1'[s].name>> \in j.left
      BY <2>7, <2>9, <2>14, <3>1 DEF tmux!KwtName
    <3>6. tmux!HasListed(j)' BY <2>4, <3>1, <3>3, <3>5 DEF tmux!HasListed
    <3>7. QED BY <3>2, <3>4, <3>6, SweeperKnows
  <2>15. QED BY <2>8, <2>10, <2>12, <2>13, <2>14
<1>20. CASE tmux!Inspect(p)
  <2>1. PICK i : i = s5[p] BY TmuxKnown
  <2>2. i.pc = "inspect" /\ s2' = s2 /\ s3' = s3 BY <1>20, <2>1 DEF tmux!Inspect, tmux!World
  <2>3. i \in tmux!Inspecting /\ tmux!HasListed(i) BY <2>1, <2>2, TmuxKnown, TmuxJobs
  <2>4. s2'[i.gen] = None /\ i.gen \in s3' BY <2>2, <2>3 DEF tmux!HasListed, tmux!SweeperAt
  <2>5. i.gen # None /\ i.gen \in Gens /\ i.name \in tmux!Names
    BY <2>3, Assumption DEF Assumption, TmuxAssumption, tmux!Inspecting
  <2>6. i.left \subseteq tmux!Endpoints /\ i.bad \in BOOLEAN /\ i.at \in tmux!Endpoints
    BY <2>3 DEF tmux!Inspecting
  <2>7. i.bad \/ \A s \in tmux!Live : s1[s].gen = i.gen /\ tmux!KwtName(s) => <<s1[s].server,
      s1[s].name>> \in i.left
    BY <2>2, <2>3 DEF tmux!HasListed, tmux!SweeperAt
  <2>8. \/ tmux!Drop(p, i.at, TRUE)
        \/ tmux!Called(i.at[1], i.at[2]) = {} /\ tmux!Drop(p, i.at, FALSE)
        \/ \E s \in tmux!Called(i.at[1], i.at[2]) :
             tmux!Do(p, [pc |-> "retest", gen |-> i.gen, name |-> i.name, left |-> i.left,
                         bad |-> i.bad, at |-> i.at, seen |-> s])
    <3>1. CASE tmux!CleanupIdentity(i.at) = {}
      <4>1. tmux!Drop(p, i.at, FALSE) BY <1>20, <2>1, <3>1 DEF tmux!Inspect
      <4>2. tmux!Called(i.at[1], i.at[2]) = {} BY <3>1 DEF tmux!CleanupIdentity
      <4>3. QED BY <4>1, <4>2
    <3>2. CASE tmux!CleanupIdentity(i.at) # {}
      <4>1. PICK k \in tmux!CleanupIdentity(i.at) :
              IF k.gen = i.gen
              THEN tmux!Do(p, [pc |-> "retest", gen |-> i.gen, name |-> i.name, left |-> i.left,
                               bad |-> i.bad, at |-> i.at, seen |-> k.id])
              ELSE tmux!Drop(p, i.at, TRUE)
        BY <1>20, <2>1, <3>2 DEF tmux!Inspect
      <4>2. PICK s \in tmux!Called(i.at[1], i.at[2]) : k.id = s BY DEF tmux!CleanupIdentity
      <4>3. QED BY <4>1, <4>2
    <3>3. QED BY <3>1, <3>2
  <2>9. s1' = s1 /\ tmux!Live' = tmux!Live BY <1>20 DEF tmux!Inspect, tmux!Live
  <2>10. CASE tmux!Drop(p, i.at, TRUE) BY <2>1, <2>4, <2>5, <2>6, <2>10, DropFails
  <2>11. CASE tmux!Called(i.at[1], i.at[2]) = {} /\ tmux!Drop(p, i.at, FALSE)
    <3>1. tmux!Called(i.at[1], i.at[2])' = {} BY <2>9, <2>11 DEF tmux!Called, tmux!On, tmux!Live
    <3>2. QED BY <2>1, <2>4, <2>5, <2>6, <2>7, <2>9, <2>11, <3>1, DropKnows
  <2>12. ASSUME NEW s \in tmux!Called(i.at[1], i.at[2]),
                tmux!Do(p, [pc |-> "retest", gen |-> i.gen, name |-> i.name, left |-> i.left,
                            bad |-> i.bad, at |-> i.at, seen |-> s])
         PROVE  tmux!Knows(p, s5[p])'
    <3>1. PICK j : j = [pc |-> "retest", gen |-> i.gen, name |-> i.name, left |-> i.left,
                        bad |-> i.bad, at |-> i.at, seen |-> s]
      OBVIOUS
    <3>2. s5'[p] = j BY <2>12, <3>1, DoesIt
    <3>3. s \in tmux!Live /\ s \in tmux!Ids /\ tmux!Alone(s)
      BY SessionIs DEF tmux!Called, tmux!On, tmux!Live
    <3>4. j \in tmux!Retesting /\ j.pc = "retest" BY <2>5, <2>6, <3>1, <3>3 DEF tmux!Retesting
    <3>5. j \in tmux!Job /\ j.pc \in tmux!SweeperAt BY <3>4 DEF tmux!Job, tmux!SweeperAt
    <3>6. j.bad \/ \A t \in tmux!Live' : s1'[t].gen = j.gen /\ tmux!KwtName(t)' =>
        <<s1'[t].server, s1'[t].name>> \in j.left
      BY <2>7, <2>9, <3>1 DEF tmux!KwtName
    <3>7. \A t \in tmux!Called(j.at[1], j.at[2])' : t = s
      BY <2>9, <2>12, <3>1, <3>3 DEF tmux!Called, tmux!On, tmux!Live, tmux!Alone
    <3>8. tmux!HasListed(j)' BY <2>4, <3>1, <3>4, <3>6, <3>7 DEF tmux!HasListed
    <3>9. QED BY <3>2, <3>5, <3>8, SweeperKnows
  <2>13. QED BY <2>8, <2>10, <2>11, <2>12
<1>21. CASE tmux!Retest(p)
  <2>1. PICK i : i = s5[p] BY TmuxKnown
  <2>2. i.pc = "retest" /\ s2' = s2 /\ s3' = s3 BY <1>21, <2>1 DEF tmux!Retest, tmux!World
  <2>3. i \in tmux!Retesting /\ tmux!HasListed(i) BY <2>1, <2>2, TmuxKnown, TmuxJobs
  <2>4. s2'[i.gen] = None /\ i.gen \in s3' BY <2>2, <2>3 DEF tmux!HasListed, tmux!SweeperAt
  <2>5. i.gen # None /\ i.gen \in Gens /\ i.name \in tmux!Names
    BY <2>3, Assumption DEF Assumption, TmuxAssumption, tmux!Retesting
  <2>6. i.left \subseteq tmux!Endpoints /\ i.bad \in BOOLEAN /\ i.at \in tmux!Endpoints
    BY <2>3 DEF tmux!Retesting
  <2>7. /\ i.bad \/ \A s \in tmux!Live : s1[s].gen = i.gen /\ tmux!KwtName(s) => <<s1[s].server,
            s1[s].name>> \in i.left
        /\ \A s \in tmux!Called(i.at[1], i.at[2]) : s1[s].gen = i.gen => s = i.seen
    BY <2>2, <2>3 DEF tmux!HasListed, tmux!SweeperAt
  <2>8. \/ tmux!Drop(p, i.at, TRUE) /\ s1' = s1
        \/ tmux!Called(i.at[1], i.at[2]) = {} /\ tmux!Drop(p, i.at, FALSE) /\ s1' = s1
        \/ s1' = tmux!Ended({i.seen}) /\ tmux!Drop(p, i.at, FALSE)
    BY <1>21, <2>1 DEF tmux!Retest
  <2>9. \A s \in tmux!Live' : s \in tmux!Live /\ s1'[s] = s1[s] BY <2>8 DEF tmux!Ended, tmux!Live
  <2>10. CASE tmux!Drop(p, i.at, TRUE) BY <2>1, <2>4, <2>5, <2>6, <2>10, DropFails
  <2>11. CASE tmux!Drop(p, i.at, FALSE) /\ (tmux!Called(i.at[1], i.at[2]) = {} \/
      s1' = tmux!Ended({i.seen}))
    <3>1. \A s \in tmux!Called(i.at[1], i.at[2])' : s1'[s].gen # i.gen
      <4>1. ASSUME NEW s \in tmux!Called(i.at[1], i.at[2])', s1'[s].gen = i.gen PROVE FALSE
        <5>1. /\ s \in tmux!Live /\ s \in tmux!Ids /\ s1'[s] # None /\ s1'[s] = s1[s]
              /\ s1[s].server = i.at[1] /\ s1[s].name = i.at[2]
          BY <2>9, <4>1 DEF tmux!Called, tmux!On, tmux!Live
        <5>2. s \in tmux!Called(i.at[1], i.at[2]) BY <5>1 DEF tmux!Called, tmux!On
        <5>3. s = i.seen BY <2>7, <4>1, <5>1, <5>2
        <5>4. s1' = tmux!Ended({i.seen}) BY <2>11, <5>2
        <5>5. QED BY <5>1, <5>3, <5>4 DEF tmux!Ended
      <4>2. QED BY <4>1
    <3>2. QED BY <2>1, <2>4, <2>5, <2>6, <2>7, <2>9, <2>11, <3>1, DropKnows
  <2>12. QED BY <2>8, <2>10, <2>11
<1>22. CASE tmux!Swept(p) BY <1>22, EndKnows DEF tmux!Swept
<1>23. CASE tmux!Die(p) BY <1>23, EndKnows DEF tmux!Die
<1>99. QED
  BY <1>1, <1>2, <1>3, <1>4, <1>5, <1>6, <1>7, <1>8, <1>9, <1>10, <1>11, <1>12, <1>13, <1>14,
    <1>15, <1>16, <1>17, <1>18, <1>19, <1>20, <1>21, <1>22, <1>23 DEF TmuxStep

\* What the user and kwt do besides is known to nobody, and disturbs nobody.
LEMMA TmuxOutside ==
    ASSUME Assumption, tmux!TmuxInv, s5' = s5, s4' = s4, s6' \in Nat, DOMAIN s1' = tmux!Ids,
           s2' \in [Gens -> Directories \cup {None}], s3 \subseteq s3', s3' \subseteq Gens,
           \A g \in Gens : /\ s2'[g] # None => g \in s3'
                           /\ \/ s2'[g] = s2[g]
                              \/ g \notin Protected /\ s2[g] # None /\ s2'[g] # None
                              \/ s2[g] = None /\ g \notin s3,
           \A s \in tmux!Live' : /\ s \in tmux!Live /\ s1'[s].server = s1[s].server /\
                                     s1'[s].for = s1[s].for
                                 /\ s1'[s].name \in {s1[s].name, tmux!Mine} /\
                                     s1'[s].gen = s1[s].gen
                                 /\ s1'[s].path = s1[s].path /\ s1'[s] \in tmux!Session
                                 /\ s1[s].gen = None => s1'[s].name = s1[s].name,
           \A s \in tmux!Live' : tmux!Alone(s)'
    PROVE  tmux!TmuxInv'
<1>1. ASSUME NEW q \in TmuxProcs PROVE tmux!Knows(q, s5[q])'
  <2>1. \A g \in Gens : HomeSeenBy(q, g) BY DEF HomeSeenBy
  <2>2. \A s \in tmux!Live' : SeenBy(q, s) BY DEF SeenBy
  <2>3. QED BY <2>1, <2>2, TmuxOther
<1>2. ASSUME NEW s \in tmux!Live' PROVE tmux!SessionIsSound(s)'
  <2>1. /\ s \in tmux!Live /\ s1'[s].server = s1[s].server /\ s1'[s].for = s1[s].for
        /\ s1'[s].name \in {s1[s].name, tmux!Mine} /\ s1'[s].gen = s1[s].gen
        /\ s1'[s].path = s1[s].path /\ s1'[s] \in tmux!Session
        /\ s1[s].gen = None => s1'[s].name = s1[s].name
    BY <1>2
  <2>2. tmux!SessionIsSound(s) /\ s1[s].for \in Gens \cap s3 BY <2>1, SessionIs
  <2>3. s1[s].for \in Protected /\ s2'[s1[s].for] # None => s2'[s1[s].for] = s2[s1[s].for] BY <2>2
  <2>4. QED BY <2>1, <2>2, <2>3 DEF tmux!SessionIsSound, tmux!KwtName, tmux!NamesIt
<1>3. DOMAIN s5' = Openers \cup Removers /\ s4' \in Openers \cup Removers \cup {None}
  BY DEF tmux!TmuxInv
<1>4. \A q \in Openers \cup Removers : tmux!Knows(q, s5[q])' BY <1>1 DEF TmuxProcs
<1>5. QED BY <1>2, <1>3, <1>4 DEF tmux!TmuxInv

\* Each step of a process keeps TmuxInv,
LEMMA TmuxInside ==
    ASSUME Assumption, tmux!TmuxInv, NEW p \in TmuxProcs, TmuxStep(p)
    PROVE  tmux!TmuxInv'
<1>1. /\ DOMAIN s5' = TmuxProcs /\ s4' \in TmuxProcs \cup {None} /\ s3' = s3 /\ s6' = s6
      /\ s2' \in [Gens -> Directories \cup {None}] /\ \A g \in Gens : s2'[g] # s2[g] =>
          s2'[g] = None
  BY TmuxFrame
<1>2. DOMAIN s1' = tmux!Ids BY TmuxSessionsStep
<1>3. \A s \in tmux!Live' : tmux!SessionIsSound(s)' /\ tmux!Alone(s)' BY TmuxSound
<1>4. \A q \in TmuxProcs : tmux!Knows(q, s5[q])' BY TmuxOwn, TmuxOthers
<1>5. s3' \subseteq Gens /\ \A g \in Gens : s2'[g] # None => g \in s3' BY <1>1 DEF tmux!TmuxInv
<1>6. QED BY <1>1, <1>2, <1>3, <1>4, <1>5 DEF tmux!TmuxInv, TmuxProcs

\* No session runs at first.
LEMMA InitTmux == ASSUME Assumption, tmux!Init PROVE tmux!TmuxInv
<1>1. PICK g \in Gens, d \in Directories :
        /\ s2 = [h \in Gens |-> IF h = g THEN d ELSE None] /\ s3 = {g}
        /\ \E marks \in BOOLEAN, kept \in BOOLEAN :
              /\ g \in Protected => marks
              /\ s1 = [s \in tmux!Ids |-> IF s = 1 /\ kept THEN tmux!Old(g, d, marks) ELSE None]
  BY DEF tmux!Init
<1>2. PICK marks \in BOOLEAN, kept \in BOOLEAN :
        /\ g \in Protected => marks
        /\ s1 = [s \in tmux!Ids |-> IF s = 1 /\ kept THEN tmux!Old(g, d, marks) ELSE None]
  BY <1>1
<1>3. s4 = None /\ s6 = 0 /\ s5 = [q \in TmuxProcs |-> tmux!Idle] BY DEF tmux!Init, TmuxProcs
<1>4. PICK n : n = <<d, tmux!Imported>> OBVIOUS
<1>5. tmux!Imported \in Branches
  BY Assumption DEF tmux!Imported, Assumption, TmuxAssumption
<1>6. n \in tmux!Names BY <1>4, <1>5 DEF tmux!Names
<1>7. n # tmux!Mine BY <1>6, TmuxNames
<1>8. PICK o : o = [server |-> IF g \in Protected THEN "former" ELSE "default", name |-> n,
                    path |-> IF marks THEN d ELSE None, gen |-> IF marks THEN g ELSE None,
                    sweep |-> FALSE, for |-> g, built |-> TRUE]
  OBVIOUS
<1>9. o = tmux!Old(g, d, marks) BY <1>4, <1>8 DEF tmux!Old
<1>10. {"former", "default"} \subseteq tmux!Servers /\ "former" \in tmux!Sockets /\
    "default" \notin tmux!Sockets
  BY DEF tmux!Servers, tmux!Sockets, tmux!Shared
<1>11. o \in tmux!Session BY <1>6, <1>8, <1>10 DEF tmux!Session
<1>12. \A s \in tmux!Live : s = 1 /\ s1[s] = o BY <1>2, <1>9 DEF tmux!Live
<1>13. ASSUME NEW s \in tmux!Live PROVE tmux!SessionIsSound(s) /\ tmux!Alone(s)
  <2>1. s1[s] = o BY <1>12
  <2>2. s2[g] = d BY <1>1
  <2>3. tmux!Alone(s) BY <1>12 DEF tmux!Alone
  <2>4. g \in s3 /\ o.for = g /\ o.name = n /\ o.gen \in {None, g} BY <1>1, <1>8
  <2>5. o.gen = None => o.path = None
    <3>1. ~marks => o.path = None BY <1>8
    <3>2. marks => o.gen = g BY <1>8
    <3>3. g # None BY Assumption DEF Assumption, TmuxAssumption
    <3>4. QED BY <3>1, <3>2, <3>3
  <2>6. tmux!KwtName(s) BY <1>7, <2>1, <2>4 DEF tmux!KwtName
  <2>7. o.server \in tmux!Sockets => g \in Protected BY <1>8, <1>10
  <2>8. tmux!NamesIt(n, g) BY <1>4, <2>2 DEF tmux!NamesIt
  <2>9. tmux!SessionIsSound(s)
    BY <1>11, <2>1, <2>4, <2>5, <2>6, <2>7, <2>8 DEF tmux!SessionIsSound
  <2>10. QED BY <2>3, <2>9
<1>14. ASSUME NEW q \in TmuxProcs PROVE tmux!Knows(q, s5[q])
  <2>1. PICK j : j = tmux!Idle OBVIOUS
  <2>2. j.pc = "idle" /\ j \in tmux!Job BY <2>1 DEF tmux!Idle, tmux!Job
  <2>3. j \notin tmux!Choosing BY <2>2 DEF tmux!Choosing
  <2>4. "idle" \notin tmux!OpenerAt \cup tmux!RemoverAt \cup tmux!SweeperAt \cup tmux!Sockets
    BY DEF tmux!OpenerAt, tmux!RemoverAt, tmux!SweeperAt, tmux!Sockets, tmux!Servers, tmux!Shared
  <2>5. tmux!HasLock(q, j) /\ tmux!HasCleared(j) /\ tmux!HasListed(j) /\ tmux!AsksForIt(j) /\
      tmux!HasSession(j)
    BY <2>2, <2>3, <2>4 DEF tmux!HasLock, tmux!HasCleared, tmux!HasListed, tmux!AsksForIt,
      tmux!HasSession
  <2>6. s5[q] = j BY <1>3, <2>1
  <2>7. QED BY <2>2, <2>5, <2>6 DEF tmux!Knows
<1>15. /\ DOMAIN s1 = tmux!Ids /\ DOMAIN s5 = TmuxProcs /\ s2 \in [Gens -> Directories \cup {None}]
       /\ s3 \subseteq Gens /\ \A h \in Gens : s2[h] # None => h \in s3
  BY <1>1, <1>2, <1>3
<1>16. QED BY <1>3, <1>13, <1>14, <1>15 DEF tmux!TmuxInv, TmuxProcs

\* worktrees that come and move keep it,
LEMMA CreateSteps ==
    ASSUME Assumption, tmux!TmuxInv, NEW g \in Gens, NEW d \in Directories,
           tmux!CreateWorktree(g, d) \/ tmux!MoveWorktree(g, d)
    PROVE  tmux!TmuxInv'
<1>1. /\ s1' = s1 /\ s5' = s5 /\ s4' = s4 /\ s2' = [s2 EXCEPT ![g] = d]
      /\ s6' \in {s6, s6 + 1}
      /\ \/ g \notin s3 /\ s3' = s3 \cup {g}
         \/ s2[g] # None /\ g \notin Protected /\ s3' = s3
  BY DEF tmux!CreateWorktree, tmux!MoveWorktree
<1>2. s2 \in [Gens -> Directories \cup {None}] /\ s3 \subseteq Gens /\ \A h \in Gens :
    s2[h] # None => h \in s3
  BY DEF tmux!TmuxInv
<1>3. d # None BY Assumption DEF Assumption, TmuxAssumption
<1>4. /\ s2' \in [Gens -> Directories \cup {None}] /\ s2'[g] = d /\ \A h \in Gens : h # g =>
          s2'[h] = s2[h]
  BY <1>1, <1>2
<1>5. tmux!Live' = tmux!Live BY <1>1 DEF tmux!Live
<1>6. \A s \in tmux!Live' : s1'[s] \in tmux!Session /\ tmux!Alone(s)'
  BY <1>1, <1>5, SessionIs DEF tmux!Alone
<1>7. DOMAIN s1' = tmux!Ids /\ s6' \in Nat BY <1>1 DEF tmux!TmuxInv
<1>8. s3 \subseteq s3' /\ s3' \subseteq Gens BY <1>1, <1>2
<1>9. \A h \in Gens : /\ s2'[h] # None => h \in s3'
                      /\ \/ s2'[h] = s2[h]
                         \/ h \notin Protected /\ s2[h] # None /\ s2'[h] # None
                         \/ s2[h] = None /\ h \notin s3
  BY <1>1, <1>2, <1>3, <1>4
<1>10. \A s \in tmux!Live' : /\ s \in tmux!Live /\ s1'[s].server = s1[s].server /\
                                 s1'[s].for = s1[s].for
                             /\ s1'[s].name \in {s1[s].name, tmux!Mine} /\ s1'[s].gen = s1[s].gen
                             /\ s1'[s].path = s1[s].path /\ s1'[s] \in tmux!Session
                             /\ s1[s].gen = None => s1'[s].name = s1[s].name
  BY <1>1, <1>5, <1>6
<1>11. QED BY <1>1, <1>4, <1>6, <1>7, <1>8, <1>9, <1>10, TmuxOutside

\* and what the user does in tmux.
LEMMA UserSteps ==
    ASSUME Assumption, tmux!TmuxInv, NEW u \in tmux!Ids, tmux!UserEnds(u) \/
           tmux!UserRenames(u)
    PROVE  tmux!TmuxInv'
<1>1. u \in tmux!Live /\ s2' = s2 /\ s3' = s3 /\ s4' = s4 /\ s5' = s5 /\ s6' = s6 + 1
  BY DEF tmux!UserEnds, tmux!UserRenames
<1>2. /\ DOMAIN s1 = tmux!Ids /\ s2 \in [Gens -> Directories \cup {None}] /\ s3 \subseteq Gens
      /\ \A h \in Gens : s2[h] # None => h \in s3
  BY DEF tmux!TmuxInv
<1>3. DOMAIN s1' = tmux!Ids /\ \A s \in tmux!Ids : s # u => s1'[s] = s1[s]
  BY <1>2 DEF tmux!UserEnds, tmux!UserRenames
<1>4. \/ s1'[u] = None
      \/ /\ s1'[u] \in tmux!Session /\ s1'[u].server = s1[u].server /\ s1'[u].for = s1[u].for
         /\ s1'[u].name = tmux!Mine /\ s1'[u].gen = s1[u].gen /\ s1'[u].path = s1[u].path
         /\ s1[u].gen # None /\ tmux!Called(s1[u].server, tmux!Mine) = {}
  <2>1. CASE tmux!UserEnds(u) BY <1>2, <2>1 DEF tmux!UserEnds
  <2>2. CASE tmux!UserRenames(u)
    <3>1. PICK r : r = s1[u] OBVIOUS
    <3>2. r \in tmux!Session BY <1>1, <3>1, SessionIs
    <3>3. s1' = [s1 EXCEPT ![u].name = tmux!Mine] BY <2>2 DEF tmux!UserRenames
    <3>4. PICK n : n = s1'[u] OBVIOUS
    <3>5. n = [r EXCEPT !.name = tmux!Mine] BY <1>2, <3>1, <3>2, <3>3, <3>4
    <3>6. PICK m : m = tmux!Mine OBVIOUS
    <3>7. n = [r EXCEPT !.name = m] /\ m \in tmux!Names \cup {tmux!Mine} BY <3>5, <3>6
    <3>8. /\ n \in tmux!Session /\ n.server = r.server /\ n.for = r.for /\ n.name = m
          /\ n.gen = r.gen /\ n.path = r.path
      BY <3>2, <3>7 DEF tmux!Session
    <3>9. s1[u].gen # None /\ tmux!Called(s1[u].server, tmux!Mine) = {} BY <2>2 DEF tmux!UserRenames
    <3>10. QED BY <3>1, <3>4, <3>6, <3>8, <3>9
  <2>3. QED BY <2>1, <2>2
<1>5. ASSUME NEW s \in tmux!Live'
      PROVE  /\ s \in tmux!Live /\ s1'[s].server = s1[s].server /\ s1'[s].for = s1[s].for
             /\ s1'[s].name \in {s1[s].name, tmux!Mine} /\ s1'[s].gen = s1[s].gen
             /\ s1'[s].path = s1[s].path /\ s1'[s] \in tmux!Session
             /\ s1[s].gen = None => s1'[s].name = s1[s].name
  <2>1. s \in tmux!Ids /\ s1'[s] # None BY <1>5 DEF tmux!Live
  <2>2. CASE s = u BY <1>1, <1>4, <2>1, <2>2
  <2>3. CASE s # u
    <3>1. s1'[s] = s1[s] /\ s \in tmux!Live BY <1>3, <2>1, <2>3 DEF tmux!Live
    <3>2. QED BY <3>1, SessionIs
  <2>4. QED BY <2>2, <2>3
<1>6. ASSUME NEW s \in tmux!Live' PROVE tmux!Alone(s)'
  <2>1. ASSUME NEW x \in tmux!Live', NEW y \in tmux!Live', s1'[y].server = s1'[x].server,
               s1'[y].name = s1'[x].name, x # u
        PROVE  y = x
    <3>1. x \in tmux!Live /\ y \in tmux!Live /\ s1'[x] = s1[x] /\ s1'[y].server = s1[y].server
      BY <1>3, <1>5, <2>1 DEF tmux!Live
    <3>2. CASE y # u
      <4>1. s1'[y] = s1[y] BY <1>3, <3>1, <3>2 DEF tmux!Live
      <4>2. QED BY <2>1, <3>1, <4>1, SessionIs DEF tmux!Alone
    <3>3. CASE y = u
      <4>1. s1'[u].name = tmux!Mine /\ tmux!Called(s1[u].server, tmux!Mine) = {}
        BY <1>4, <2>1, <3>3 DEF tmux!Live
      <4>2. x \in tmux!Called(s1[u].server, tmux!Mine)
        BY <2>1, <3>1, <3>3, <4>1 DEF tmux!Called, tmux!On
      <4>3. QED BY <4>1, <4>2
    <3>4. QED BY <3>2, <3>3
  <2>2. QED BY <2>1 DEF tmux!Alone
<1>7. \A h \in Gens : s2'[h] # None => h \in s3' BY <1>1, <1>2
<1>8. s2' \in [Gens -> Directories \cup {None}] /\ s3 \subseteq s3' /\ s3' \subseteq Gens /\
    s6' \in Nat
  BY <1>1, <1>2 DEF tmux!TmuxInv
<1>9. \A h \in Gens : s2'[h] = s2[h] BY <1>1
<1>10. QED BY <1>1, <1>3, <1>5, <1>6, <1>7, <1>8, <1>9, TmuxOutside

\* There is nothing else.
LEMMA TmuxSteps ==
    ASSUME tmux!Next
    PROVE  \/ \E p \in TmuxProcs : TmuxStep(p)
           \/ \E g \in Gens, d \in Directories : tmux!CreateWorktree(g, d) \/ tmux!MoveWorktree(g,
               d)
           \/ \E u \in tmux!Ids : tmux!UserEnds(u) \/ tmux!UserRenames(u)
BY Zenon DEF tmux!Next, TmuxStep, TmuxProcs

\* TmuxInv is inductive.
LEMMA NextTmux == ASSUME Assumption, tmux!TmuxInv, tmux!Next PROVE tmux!TmuxInv'
BY TmuxSteps, TmuxInside, CreateSteps, UserSteps

\* It speaks of these variables only.
LEMMA StutterTmux == ASSUME tmux!TmuxInv, UNCHANGED <<s1, s2, s3, s4, s5, s6>> PROVE tmux!TmuxInv'
BY DEF tmux!TmuxInv, tmux!Knows, tmux!HasLock, tmux!AsksForIt, tmux!HasSession, tmux!HasCleared,
  tmux!HasListed, tmux!SessionIsSound, tmux!Alone, tmux!Live, tmux!At, tmux!Called, tmux!On,
  tmux!KwtName, tmux!NamesIt

\* What an open does, and what a removal.
OpenerStep(p) ==
    \/ tmux!BeginOpen(p) \/ tmux!Resolve(p) \/ tmux!ResolveDegraded(p) \/ tmux!ResolveProtected(p)
    \/ tmux!Ensure(p) \/ tmux!RefuseProtected(p) \/ tmux!Repair(p) \/ tmux!NewSession(p)
    \/ tmux!Bootstrap(p) \/ tmux!BuildPanes(p) \/ tmux!CreateFails(p) \/ tmux!Abort(p)
    \/ tmux!Attach(p) \/ tmux!Die(p)
RemoverStep(p) ==
    \/ tmux!BeginRemoval(p) \/ tmux!Quiesce(p) \/ tmux!RemoveWorktree(p) \/ tmux!RemovalRefused(p)
    \/ tmux!Sweep(p) \/ tmux!KillBySweep(p) \/ tmux!Inspect(p) \/ tmux!Retest(p)
    \/ tmux!Swept(p) \/ tmux!Die(p)

\* A creation that fails ends what it had made,
LEMMA OpenerEnds ==
    ASSUME Assumption, tmux!TmuxInv, NEW p \in TmuxProcs, OpenerStep(p), NEW s \in
           tmux!Live, s1'[s] = None
    PROVE  s5[p] # s5'[p] /\ s = s5[p].made
<1>0. s \in tmux!Ids /\ s1[s] # None /\ s1[s] \in tmux!Session BY SessionIs DEF tmux!Live
<1>1. CASE tmux!BeginOpen(p) BY <1>1, <1>0 DEF tmux!BeginOpen
<1>2. CASE tmux!Resolve(p) BY <1>2, <1>0 DEF tmux!Resolve, tmux!adoptDefaultServerSession
<1>3. CASE tmux!ResolveDegraded(p) BY <1>3, <1>0 DEF tmux!ResolveDegraded
<1>4. CASE tmux!ResolveProtected(p) BY <1>4, <1>0 DEF tmux!ResolveProtected
<1>5. CASE tmux!Ensure(p) BY <1>5, <1>0 DEF tmux!Ensure
<1>6. CASE tmux!RefuseProtected(p) BY <1>6, <1>0 DEF tmux!RefuseProtected
<1>7. CASE tmux!Repair(p)
  <2>1. s1' = tmux!Marked(tmux!At(s5[p]), s5[p]) /\ s5[p].path \in Directories /\ s5[p].gen \in Gens
    <3>1. PICK i : i = s5[p] BY <1>7
    <3>2. i.pc \in tmux!OpenerAt BY <1>7, <3>1 DEF tmux!Repair, tmux!OpenerAt
    <3>3. QED BY <1>7, <3>1, <3>2, OpenerHas DEF tmux!Repair
  <2>2. s1'[s] = s1[s] \/ s1'[s] = [s1[s] EXCEPT !.path = s5[p].path, !.gen = s5[p].gen,
      !.sweep = TRUE]
    BY <1>0, <2>1 DEF tmux!Marked
  <2>3. s1'[s] \in tmux!Session BY <1>0, <2>1, <2>2 DEF tmux!Session
  <2>4. QED BY <2>3, Assumption DEF Assumption, TmuxAssumption
<1>8. CASE tmux!NewSession(p)
  <2>1. s1' = s1 \/ \E t \in tmux!Ids \ tmux!Live : \E r : s1' = [s1 EXCEPT ![t] = r]
    BY <1>8 DEF tmux!NewSession
  <2>2. DOMAIN s1 = tmux!Ids BY DEF tmux!TmuxInv
  <2>3. QED BY <1>0, <2>1, <2>2
<1>9. CASE tmux!Bootstrap(p)
  <2>1. s1' = tmux!Marked(tmux!At(s5[p]), s5[p]) /\ s5[p].path \in Directories /\ s5[p].gen \in Gens
    <3>1. PICK i : i = s5[p] BY <1>9
    <3>2. i.pc \in tmux!OpenerAt BY <1>9, <3>1 DEF tmux!Bootstrap, tmux!OpenerAt
    <3>3. QED BY <1>9, <3>1, <3>2, OpenerHas DEF tmux!Bootstrap
  <2>2. s1'[s] = s1[s] \/ s1'[s] = [s1[s] EXCEPT !.path = s5[p].path, !.gen = s5[p].gen,
      !.sweep = TRUE]
    BY <1>0, <2>1 DEF tmux!Marked
  <2>3. s1'[s] \in tmux!Session BY <1>0, <2>1, <2>2 DEF tmux!Session
  <2>4. QED BY <2>3, Assumption DEF Assumption, TmuxAssumption
<1>10. CASE tmux!BuildPanes(p)
  <2>1. s1' = [s1 EXCEPT ![s5[p].made].built = TRUE] /\ DOMAIN s1 = tmux!Ids
    BY <1>10 DEF tmux!BuildPanes, tmux!TmuxInv
  <2>2. s1'[s] = s1[s] \/ s1'[s] = [s1[s] EXCEPT !.built = TRUE] BY <1>0, <2>1
  <2>3. s1'[s] \in tmux!Session BY <1>0, <2>2 DEF tmux!Session
  <2>4. QED BY <2>3, Assumption DEF Assumption, TmuxAssumption
<1>11. CASE tmux!CreateFails(p) BY <1>11, <1>0 DEF tmux!CreateFails
<1>12. CASE tmux!Abort(p)
  <2>1. PICK i : i = s5[p] BY <1>12
  <2>2. i.pc = "abort" /\ s5'[p] = tmux!Idle /\ s \in tmux!At(i)
    BY <1>12, <1>0, <2>1 DEF tmux!Abort, tmux!End, tmux!Do, tmux!TmuxInv, TmuxProcs
  <2>3. s = i.made BY <2>1, <2>2, TmuxKnown DEF tmux!HasSession
  <2>4. s5'[p].pc = "idle" BY <2>2 DEF tmux!Idle
  <2>5. QED BY <2>1, <2>2, <2>3, <2>4
<1>13. CASE tmux!Attach(p) BY <1>13, <1>0 DEF tmux!Attach
<1>14. CASE tmux!Die(p) BY <1>14, <1>0 DEF tmux!Die
<1>99. QED
  BY <1>1, <1>2, <1>3, <1>4, <1>5, <1>6, <1>7, <1>8, <1>9, <1>10, <1>11, <1>12, <1>13, <1>14 DEF
     OpenerStep

\* and a clean-up sessions of the worktree it removed.
LEMMA RemoverEnds ==
    ASSUME Assumption, tmux!TmuxInv, NEW p \in TmuxProcs, RemoverStep(p), NEW s \in
           tmux!Live, s1'[s] = None
    PROVE  s5[p] # s5'[p] /\ s1[s].for = s5[p].gen
<1>0. s \in tmux!Ids /\ s1[s] # None /\ s1[s] \in tmux!Session BY SessionIs DEF tmux!Live
<1>1. CASE tmux!BeginRemoval(p) BY <1>1, <1>0 DEF tmux!BeginRemoval
<1>2. CASE tmux!Quiesce(p) BY <1>2, <1>0 DEF tmux!Quiesce
<1>3. CASE tmux!RemoveWorktree(p) BY <1>3, <1>0 DEF tmux!RemoveWorktree
<1>4. CASE tmux!RemovalRefused(p) BY <1>4, <1>0 DEF tmux!RemovalRefused
<1>5. CASE tmux!Sweep(p) BY <1>5, <1>0 DEF tmux!Sweep
<1>6. CASE tmux!KillBySweep(p)
  <2>1. PICK i : i = s5[p] BY <1>6
  <2>2. i.pc = "kill" /\ i \in tmux!Killing BY <1>6, <2>1, TmuxKnown, TmuxJobs DEF tmux!KillBySweep
  <2>3. PICK e \in i.left :
          /\ s1' = tmux!Ended({x \in tmux!Called(e[1], e[2]) : s1[x].sweep /\ s1[x].gen = i.gen})
          /\ tmux!Drop(p, e, FALSE)
    BY <1>6, <1>0, <2>1 DEF tmux!KillBySweep
  <2>4. s1[s].gen = i.gen BY <1>0, <2>3 DEF tmux!Ended
  <2>5. s5'[p].left = i.left \ {e}
    BY <2>1, <2>3 DEF tmux!Drop, tmux!Sweeping, tmux!Do, tmux!TmuxInv, TmuxProcs
  <2>6. i.gen # None
    BY <2>2, Assumption DEF tmux!Killing, Assumption, TmuxAssumption
  <2>7. s1[s].for = i.gen BY <2>4, <2>6, SessionIs
  <2>8. QED BY <2>1, <2>3, <2>5, <2>7
<1>7. CASE tmux!Inspect(p) BY <1>7, <1>0 DEF tmux!Inspect, tmux!CleanupIdentity
<1>8. CASE tmux!Retest(p)
  <2>1. PICK i : i = s5[p] BY <1>8
  <2>2. i.pc = "retest" /\ i \in tmux!Retesting BY <1>8, <2>1, TmuxKnown, TmuxJobs DEF tmux!Retest
  <2>3. s1' = tmux!Ended({i.seen}) /\ s1[i.seen].gen = i.gen /\ tmux!Drop(p, i.at, FALSE)
    BY <1>8, <1>0, <2>1 DEF tmux!Retest
  <2>4. s1[s].gen = i.gen BY <1>0, <2>3 DEF tmux!Ended
  <2>5. s5'[p].pc = "kill"
    BY <2>1, <2>3 DEF tmux!Drop, tmux!Sweeping, tmux!Do, tmux!TmuxInv, TmuxProcs
  <2>6. i.gen # None
    BY <2>2, Assumption DEF tmux!Retesting, Assumption, TmuxAssumption
  <2>7. s1[s].for = i.gen BY <2>4, <2>6, SessionIs
  <2>8. QED BY <2>1, <2>2, <2>5, <2>7
<1>9. CASE tmux!Swept(p) BY <1>9, <1>0 DEF tmux!Swept
<1>10. CASE tmux!Die(p) BY <1>10, <1>0 DEF tmux!Die
<1>99. QED BY <1>1, <1>2, <1>3, <1>4, <1>5, <1>6, <1>7, <1>8, <1>9, <1>10 DEF RemoverStep

\* What an open has repaired or built is of the worktree.
LEMMA OpenerFinds ==
    ASSUME Assumption, tmux!TmuxInv, NEW p \in TmuxProcs, TmuxStep(p), s5[p].pc \in
           {"repair", "panes"}, s5'[p].pc = "opened"
    PROVE  \E s \in tmux!Called(s5[p].server, s5[p].name) : s1[s].for = s5[p].gen
<1>1. CASE tmux!BeginOpen(p) BY <1>1 DEF tmux!BeginOpen, tmux!Idle
<1>2. CASE tmux!Resolve(p) BY <1>2 DEF tmux!Resolve, tmux!adoptDefaultServerSession
<1>3. CASE tmux!ResolveDegraded(p) BY <1>3 DEF tmux!ResolveDegraded
<1>4. CASE tmux!ResolveProtected(p) BY <1>4 DEF tmux!ResolveProtected
<1>5. CASE tmux!Ensure(p) BY <1>5 DEF tmux!Ensure
<1>6. CASE tmux!RefuseProtected(p) BY <1>6 DEF tmux!RefuseProtected
<1>7. CASE tmux!Repair(p)
  <2>1. PICK i : i = s5[p] BY <1>7
  <2>2. i.pc = "repair" /\ i.pc \in tmux!OpenerAt BY <1>7, <2>1 DEF tmux!Repair, tmux!OpenerAt
  <2>3. i \in tmux!Choosing /\ tmux!HasSession(i) /\ i.gen \in Gens BY <2>1, <2>2, OpenerHas
  <2>4. PICK s \in tmux!At(i) : TRUE
    <3>1. ~tmux!End(p)
      <4>1. ASSUME tmux!End(p) PROVE s5'[p].pc = "idle"
        BY <4>1 DEF tmux!End, tmux!Do, tmux!Idle, tmux!TmuxInv, TmuxProcs
      <4>2. QED BY <4>1
    <3>2. QED BY <1>7, <2>1, <3>1 DEF tmux!Repair
  <2>5. s1[s].gen = i.gen /\ s \in tmux!Live
    BY <2>2, <2>3 DEF tmux!HasSession, tmux!At, tmux!Called, tmux!On
  <2>6. s1[s].for = i.gen
    BY <2>3, <2>5, SessionIs, Assumption DEF Assumption, TmuxAssumption
  <2>7. QED BY <2>1, <2>4, <2>6 DEF tmux!At
<1>8. CASE tmux!NewSession(p) BY <1>8 DEF tmux!NewSession
<1>9. CASE tmux!Bootstrap(p) BY <1>9 DEF tmux!Bootstrap
<1>10. CASE tmux!BuildPanes(p)
  <2>1. PICK i : i = s5[p] BY <1>10
  <2>2. i.pc = "panes" /\ tmux!At(i) = {i.made} /\ tmux!HasSession(i)
    BY <1>10, <2>1, TmuxKnown DEF tmux!BuildPanes
  <2>3. s1[i.made].for = i.gen /\ i.made \in tmux!At(i) BY <2>2 DEF tmux!HasSession
  <2>4. QED BY <2>1, <2>3 DEF tmux!At
<1>11. CASE tmux!CreateFails(p)
  <2>1. PICK i : i = s5[p] BY <1>11
  <2>2. i.pc \in {"bootstrap", "panes"} /\ s5'[p] = [i EXCEPT !.pc = "abort"]
    BY <1>11, <2>1 DEF tmux!CreateFails, tmux!Do, tmux!TmuxInv, TmuxProcs
  <2>3. i \in tmux!Making BY <2>1, <2>2, TmuxKnown, TmuxJobs
  <2>4. s5'[p].pc = "abort" BY <2>2, <2>3 DEF tmux!Making
  <2>5. QED BY <2>4
<1>12. CASE tmux!Abort(p) BY <1>12 DEF tmux!Abort
<1>13. CASE tmux!Attach(p) BY <1>13 DEF tmux!Attach
<1>14. CASE tmux!BeginRemoval(p) BY <1>14 DEF tmux!BeginRemoval, tmux!Idle
<1>15. CASE tmux!Quiesce(p) BY <1>15 DEF tmux!Quiesce, tmux!Shared, tmux!Sockets
<1>16. CASE tmux!RemoveWorktree(p) BY <1>16 DEF tmux!RemoveWorktree, tmux!Removes
<1>17. CASE tmux!RemovalRefused(p) BY <1>17 DEF tmux!RemovalRefused
<1>18. CASE tmux!Sweep(p) BY <1>18 DEF tmux!Sweep
<1>19. CASE tmux!KillBySweep(p) BY <1>19 DEF tmux!KillBySweep
<1>20. CASE tmux!Inspect(p) BY <1>20 DEF tmux!Inspect, tmux!CleanupIdentity
<1>21. CASE tmux!Retest(p) BY <1>21 DEF tmux!Retest
<1>22. CASE tmux!Swept(p) BY <1>22 DEF tmux!Swept
<1>23. CASE tmux!Die(p)
  BY <1>23 DEF tmux!Die, tmux!End, tmux!Do, tmux!Idle, tmux!TmuxInv, TmuxProcs
<1>99. QED
  BY <1>1, <1>2, <1>3, <1>4, <1>5, <1>6, <1>7, <1>8, <1>9, <1>10, <1>11, <1>12, <1>13, <1>14,
    <1>15, <1>16, <1>17, <1>18, <1>19, <1>20, <1>21, <1>22, <1>23 DEF TmuxStep

\* What no step may do, by TmuxInv.
LEMMA TmuxMoves ==
    ASSUME Assumption, tmux!TmuxInv, tmux!Next
    PROVE  tmux!StepsKeepSessions
<1>1. tmux!RemovalFindsNoSession
  <2>1. ASSUME NEW p \in Removers, tmux!RemoveWorktree(p), s5[p].guarded PROVE \A s \in tmux!Live
         : s1[s].for # s5[p].gen
    <3>1. s5[p].pc = "remove" BY <2>1 DEF tmux!RemoveWorktree, tmux!Removes
    <3>2. tmux!HasCleared(s5[p]) BY TmuxKnown DEF TmuxProcs
    <3>3. QED BY <2>1, <3>1, <3>2 DEF tmux!HasCleared, tmux!RemoverAt
  <2>2. QED BY <2>1 DEF tmux!RemovalFindsNoSession
<1>2. tmux!OnlyItsSessionsEnd
  <2>1. ASSUME NEW s \in tmux!Live, s1'[s] = None, s6' = s6
        PROVE  \/ \E p \in Removers : s5[p] # s5'[p] /\ s1[s].for = s5[p].gen
               \/ \E p \in Openers : s5[p] # s5'[p] /\ s = s5[p].made
    <3>1. \/ \E p \in Openers : OpenerStep(p)
          \/ \E p \in Removers : RemoverStep(p)
          \/ \E g \in Gens, d \in Directories : tmux!CreateWorktree(g, d) \/ tmux!MoveWorktree(g, d)
          \/ \E u \in tmux!Ids : tmux!UserEnds(u) \/ tmux!UserRenames(u)
      BY Zenon DEF tmux!Next, OpenerStep, RemoverStep
    <3>2. CASE \E p \in Openers : OpenerStep(p) BY <2>1, <3>2, OpenerEnds DEF TmuxProcs
    <3>3. CASE \E p \in Removers : RemoverStep(p) BY <2>1, <3>3, RemoverEnds DEF TmuxProcs
    <3>4. CASE \E g \in Gens, d \in Directories : tmux!CreateWorktree(g, d) \/
        tmux!MoveWorktree(g, d)
      BY <2>1, <3>4, SessionIs DEF tmux!CreateWorktree, tmux!MoveWorktree, tmux!Live
    <3>5. CASE \E u \in tmux!Ids : tmux!UserEnds(u) \/ tmux!UserRenames(u)
      <4>1. PICK u \in tmux!Ids : tmux!UserEnds(u) \/ tmux!UserRenames(u) BY <3>5
      <4>2. s6 < MaxActs /\ s6' = s6 + 1 BY <4>1 DEF tmux!UserEnds, tmux!UserRenames
      <4>3. QED BY <2>1, <4>2 DEF tmux!TmuxInv
    <3>6. QED BY <3>1, <3>2, <3>3, <3>4, <3>5
  <2>2. QED BY <2>1 DEF tmux!OnlyItsSessionsEnd
<1>3. tmux!OpensItsOwn
  <2>1. ASSUME NEW p \in Openers, s5[p].pc \in {"repair", "panes"}, s5'[p].pc = "opened"
        PROVE  \E s \in tmux!Called(s5[p].server, s5[p].name) : s1[s].for = s5[p].gen
    <3>1. CASE \E q \in TmuxProcs : TmuxStep(q)
      <4>1. PICK q \in TmuxProcs : TmuxStep(q) BY <3>1
      <4>2. p \in TmuxProcs /\ q = p
        <5>1. p \in TmuxProcs BY DEF TmuxProcs
        <5>2. q # p => s5'[p] = s5[p] BY <4>1, <5>1, TmuxFrame
        <5>3. QED BY <2>1, <5>1, <5>2
      <4>3. QED BY <2>1, <4>1, <4>2, OpenerFinds
    <3>2. CASE s5' = s5 BY <2>1, <3>2
    <3>3. QED BY <3>1, <3>2, TmuxSteps DEF tmux!CreateWorktree, tmux!MoveWorktree, tmux!UserEnds,
      tmux!UserRenames
  <2>2. QED BY <2>1 DEF tmux!OpensItsOwn
<1>4. tmux!SweepIsComplete
  <2>1. ASSUME NEW p \in Removers, tmux!Swept(p), ~s5[p].bad, NEW s \in tmux!Live, s1[s].gen =
         s5[p].gen, tmux!KwtName(s)
        PROVE  FALSE
    <3>1. s5[p].pc = "kill" /\ s5[p].left = {} BY <2>1 DEF tmux!Swept
    <3>2. tmux!HasListed(s5[p]) BY TmuxKnown DEF TmuxProcs
    <3>3. QED BY <2>1, <3>1, <3>2 DEF tmux!HasListed, tmux!SweeperAt
  <2>2. QED BY <2>1 DEF tmux!SweepIsComplete
<1>5. QED BY <1>1, <1>2, <1>3, <1>4 DEF tmux!StepsKeepSessions

\* However opens, guarded removals and clean-ups of the repository's worktrees are
\* interleaved with each other, with deaths and with what the user does in tmux: no
\* marker lies, a guarded removal leaves no session behind, only the sessions of the
\* removed worktree end, an open hands over its own worktree's, and a clean-up that
\* reports success has found them all (workspaceSessionCandidate, repairBootstrap,
\* removalSessionGuard, KillMatching).
THEOREM SessionsStayKept == ASSUME Assumption PROVE ServicesSpec => SessionsAreKept
<1> DEFINE Inv == focus = "tmux" => tmux!TmuxInv
<1>1. ServicesInit => Inv BY InitTmux DEF ServicesInit
<1>2. Inv /\ [ServicesNext]_services => Inv'
  BY NextTmux, StutterTmux DEF ServicesNext, services, slots
<1>3. Inv => (focus = "tmux" => tmux!MarksAreTrue) BY SessionIs DEF tmux!MarksAreTrue
<1>4. Inv /\ [ServicesNext]_services => [focus = "tmux" => tmux!StepsKeepSessions]_services
  BY TmuxMoves DEF ServicesNext, services, slots
<1>5. QED BY <1>1, <1>2, <1>3, <1>4, PTL DEF ServicesSpec, SessionsAreKept

-----------------------------------------------------------------------------
(* PullRequestImport, for any sources, importers, visitors and bounds.     *)
(* ImportInv is inductive: the file, and the one an importer is about to   *)
(* write, agree with the worktrees (RecordsAgree); whoever has the claim   *)
(* knows under which names the project goes (KnowsProject), and of the     *)
(* worktree it made that nobody recorded it (KnowsItsOwn); an open that    *)
(* has looked names a worktree that will not be recorded any more.         *)

PrProcs == pr!Processes
PrStep(p) ==
    \/ pr!Prepare(p) \/ pr!BeginImport(p) \/ pr!ReadRecords(p) \/ pr!ChooseBranch(p)
    \/ pr!Decide(p) \/ pr!ImportPullRequest(p) \/ pr!PreserveImport(p) \/ pr!Save(p)
    \/ pr!SaveFails(p) \/ pr!Rollback(p) \/ pr!BeginOpen(p) \/ pr!RejectProtected(p)
    \/ pr!Establish(p) \/ pr!BeginAttach(p) \/ pr!VerifyAttach(p) \/ pr!ClaimAttach(p)
    \/ pr!EstablishAttach(p) \/ pr!Die(p)

\* The worktrees after a step: those that were there, of the same origin, and new ones.
TreesStay ==
    /\ s4' \in 0..MaxMade /\ s4 <= s4' /\ DOMAIN s3' = pr!Generations
    /\ \A g \in pr!Live' :
         /\ s3'[g] \in pr!Tree /\ g <= s4'
         /\ g <= s4 => /\ g \in pr!Live /\ s3'[g].path = s3[g].path /\ s3'[g].import = s3[g].import
                       /\ s3'[g].push = s3[g].push

\* A job is of the kind its place says.
LEMMA PrJobs ==
    ASSUME NEW j \in pr!Job
    PROVE  /\ j.pc = "idle" => j = pr!Idle
           /\ j.pc = "prepared" => j \in pr!Preparing
           /\ j.pc = "records" => j \in pr!Reading
           /\ j.pc = "branch" => j \in pr!Branching
           /\ j.pc \in {"update", "git"} => j \in pr!Updating
           /\ j.pc = "save" => j \in pr!Storing
           /\ j.pc = "rollback" => j \in pr!Undoing
           /\ j.pc \in {"check", "open"} => j \in pr!Opening
           /\ j.pc \in {"verify", "claim", "establish"} => j \in pr!Attaching
BY DEF pr!Job, pr!Idle, pr!Preparing, pr!Reading, pr!Branching, pr!Updating, pr!Storing,
  pr!Undoing, pr!Opening, pr!Attaching

\* What ImportInv says of a process.
LEMMA PrKnown ==
    ASSUME pr!ImportInv, NEW p \in PrProcs
    PROVE  /\ s9[p] \in pr!Job
           /\ s9[p].pc \in {"records", "branch", "update", "git", "save", "rollback",
               "establish"} => s8 = p
           /\ s9[p].pc \in {"git", "save"} => s7 = p
           /\ pr!KnowsProject(s9[p]) /\ pr!KnowsFile(s9[p]) /\ pr!KnowsItsOwn(s9[p]) /\
               pr!KnowsWorktree(s9[p])
BY DEF pr!ImportInv, pr!Knows, PrProcs, pr!Claiming, pr!Resolving, pr!Writing

\* What it says of a live worktree.
LEMMA TreeIsThere ==
    ASSUME pr!ImportInv, NEW g \in pr!Live
    PROVE  g \in pr!Generations /\ s3[g] \in pr!Tree /\ g <= s4 /\ g \in 1..s4 /\ s4 \in 0..MaxMade
BY DEF pr!ImportInv, pr!Live, pr!Generations

\* The repository has an old and a new name.
LEMMA Two == "old" # "new" /\ pr!Repos = {"old", "new"} BY DEF pr!Repos

\* Aliases are kept where there are two names.
LEMMA MergedIs ==
    ASSUME NEW X \in SUBSET pr!Repos, NEW Y \in SUBSET pr!Repos
    PROVE  pr!MergedAliases(X, Y) = IF X \cup Y = pr!Repos THEN pr!Repos ELSE {}
<1>1. CASE X \cup Y = pr!Repos
  <2>1. pr!Cardinality(X \cup Y) = 2
    <3>1. X \cup Y = {"old", "new"} BY <1>1, Two
    <3>2. Cardinality({"old"}) = 1 /\ IsFiniteSet({"old"}) BY FS_Singleton
    <3>3. Cardinality({"old"} \cup {"new"}) = 2 BY <3>2, FS_AddElement
    <3>4. QED BY <3>1, <3>3 DEF pr!Cardinality, Cardinality
  <2>2. ~(pr!Cardinality(X \cup Y) < 2) BY <2>1
  <2>3. QED BY <1>1, <2>2 DEF pr!MergedAliases
<1>2. CASE X \cup Y # pr!Repos
  <2>1. X \cup Y = {} \/ X \cup Y = {"old"} \/ X \cup Y = {"new"} BY <1>2, Two
  <2>2. Cardinality(X \cup Y) \in {0, 1}
    <3>1. CASE X \cup Y = {} BY <3>1, FS_EmptySet
    <3>2. CASE X \cup Y = {"old"} BY <3>2, FS_Singleton
    <3>3. CASE X \cup Y = {"new"} BY <3>3, FS_Singleton
    <3>4. QED BY <2>1, <3>1, <3>2, <3>3
  <2>3. pr!Cardinality(X \cup Y) < 2 BY <2>2 DEF pr!Cardinality, Cardinality
  <2>4. QED BY <1>2, <2>3 DEF pr!MergedAliases
<1>3. QED BY <1>1, <1>2

\* A record has its own name, or both.
LEMMA IdentitiesAre ==
    ASSUME NEW rec \in pr!Record
    PROVE  pr!Identities(rec) = IF rec.aliases = {} THEN {rec.repo} ELSE pr!Repos
BY DEF pr!Record, pr!Identities

\* A record is found under its name, or by one of its identities.
LEMMA FoundIs ==
    ASSUME Assumption, NEW recs \in pr!Records, NEW repo \in pr!Repos, NEW mine
    PROVE  LET found == pr!FindProvenance(recs, repo, mine) IN
           /\ \A r \in found : r \in pr!Repos /\ recs[r] # None /\ recs[r] \in pr!Record
           /\ recs[repo] # None => found = {repo}
           /\ recs[repo] = None => \A r \in pr!Repos : recs[r] # None /\ r \notin found =>
               pr!Identities(recs[r]) \cap mine = {}
           /\ found # {} => (CHOOSE r \in found : TRUE) \in found
BY DEF pr!FindProvenance, pr!Records, pr!Connected, Assumption, WarmAssumption,
  ImportAssumption

\* An import has a local branch to go to.
LEMMA BranchIs ==
    ASSUME Assumption, NEW recs \in pr!Records, NEW j, j.repo \in pr!Repos, j.source \in
           Sources
    PROVE  pr!ImportBranchFromState(recs, j) \in pr!LocalBranches
<1>1. PICK found : found = pr!FindProvenance(recs, j.repo, j.mine) OBVIOUS
<1>2. <<j.source>> \in pr!LocalBranches BY DEF pr!LocalBranches
<1>3. CASE found = {} BY <1>1, <1>2, <1>3 DEF pr!ImportBranchFromState, pr!ImportBranchName
<1>4. CASE found # {}
  <2>1. PICK r : r = CHOOSE x \in found : TRUE OBVIOUS
  <2>2. recs[r] \in pr!Record BY <1>1, <1>4, <2>1, FoundIs
  <2>3. recs[r].workspace.branch \in pr!LocalBranches /\ recs[r].workspace.gen \in pr!Generations
    BY <2>2 DEF pr!Record, pr!Workspace
  <2>4. <<j.source, recs[r].workspace.gen>> \in pr!LocalBranches BY <2>3 DEF pr!LocalBranches
  <2>5. QED BY <1>1, <1>4, <2>1, <2>3, <2>4 DEF pr!ImportBranchFromState, pr!ReassociationBranchName
<1>5. QED BY <1>3, <1>4

\* Routing that passes the check pushes to the source.
LEMMA PushesAre ==
    ASSUME NEW c \in pr!Routings, NEW source \in Sources
    PROVE  /\ pr!Pushes(c, source) \in SUBSET ({"origin", "head",
               "elsewhere"} \X (pr!LocalBranches \cup {None}))
           /\ pr!PushIsSafe(c) => pr!Pushes(c, source) \subseteq {<<"head", <<s>>>> : s \in Sources}
<1>1. <<source>> \in pr!LocalBranches /\ pr!Own \in pr!LocalBranches BY DEF pr!LocalBranches
<1>2. pr!Pushes(c, source) \in SUBSET ({"origin", "head", "elsewhere"} \X (pr!LocalBranches \cup
    {None}))
  <2> DEFINE urls == IF c.pushRemote = "import" \/ c.remote = "import" THEN c.urls ELSE {"origin"}
             refspecs == IF c.mirror \/ c.refspec THEN {None}
                         ELSE IF c.default = "upstream" /\ c.merge = "source" THEN {<<source>>}
                         ELSE {pr!Own}
  <2>3. pr!Pushes(c, source) = urls \X (refspecs \cup IF c.tags THEN {None} ELSE {})
    BY DEF pr!Pushes
  <2>4. urls \subseteq {"origin", "head", "elsewhere"} BY DEF pr!Routings
  <2>5. refspecs \subseteq pr!LocalBranches \cup {None} BY <1>1
  <2>6. (refspecs \cup IF c.tags THEN {None} ELSE {}) \subseteq pr!LocalBranches \cup {None} BY <2>5
  <2> HIDE DEF urls, refspecs
  <2>7. QED BY <2>3, <2>4, <2>6
<1>3. ASSUME pr!PushIsSafe(c) PROVE pr!Pushes(c, source) \subseteq {<<"head", <<s>>>> : s \in
       Sources}
  <2>1. pr!Pushes(c, source) = {"head"} \X {<<source>>}
    BY <1>3 DEF pr!Pushes, pr!PushIsSafe, pr!Routings
  <2>2. QED BY <2>1
<1>4. QED BY <1>2, <1>3

\* The worktree of an import is one.
LEMMA ImportedIs ==
    ASSUME NEW j \in pr!Updating, NEW c \in pr!Routings
    PROVE  LET t == pr!ImportedTree(j, c) IN
           /\ t \in pr!Tree /\ t.import /\ ~t.recorded
           /\ pr!PushIsSafe(c) => t.push \subseteq {<<"head", <<s>>>> : s \in Sources}
<1>1. /\ j.repo \in pr!Repos /\ j.branch \in pr!LocalBranches /\ j.moved \in BOOLEAN /\
          j.source \in Sources
  BY DEF pr!Updating
<1>2. PICK push : push = pr!Pushes(c, j.source) OBVIOUS
<1>3. push \in SUBSET ({"origin", "head", "elsewhere"} \X (pr!LocalBranches \cup {None})) /\
      (pr!PushIsSafe(c) => push \subseteq {<<"head", <<s>>>> : s \in Sources})
  BY <1>1, <1>2, PushesAre
<1>4. pr!ImportedTree(j, c) =
        [path |-> <<j.repo, j.branch>>, branch |-> j.branch, clean |-> TRUE, import |-> TRUE,
         recorded |-> FALSE, moved |-> j.moved, push |-> push]
  BY <1>2 DEF pr!ImportedTree, pr!PathFor
<1>5. QED BY <1>1, <1>3, <1>4 DEF pr!Tree

\* A step of one process leaves the others where they are.
LEMMA ImportFrame ==
    ASSUME Assumption, pr!ImportInv, NEW p \in PrProcs, PrStep(p)
    PROVE  /\ DOMAIN s9' = PrProcs /\ \A q \in PrProcs \ {p} : s9'[q] = s9[q]
           /\ s1' = s1 /\ s2' = s2 /\ s12' = s12
           /\ (s8' = s8 \/ (s8' = None /\ s8 = p) \/ (s8' = p /\ s8 = None))
           /\ (s7' = s7 \/ (s7' = None /\ s7 = p) \/ (s7' = p /\ s7 = None))
           /\ (s6' = s6 \/ (s9[p].pc = "save" /\ s6' = s9[p].next))
<1> USE DEF pr!ImportInv, PrProcs
<1>1. CASE pr!Prepare(p)
  BY <1>1 DEF pr!Prepare, pr!Do, pr!End, pr!Fail, pr!Unlock, pr!world, pr!git
<1>2. CASE pr!BeginImport(p)
  BY <1>2 DEF pr!BeginImport, pr!Do, pr!End, pr!Fail, pr!Unlock, pr!world, pr!git
<1>3. CASE pr!ReadRecords(p)
  BY <1>3 DEF pr!ReadRecords, pr!Do, pr!End, pr!Fail, pr!Unlock, pr!world, pr!git
<1>4. CASE pr!ChooseBranch(p)
  BY <1>4 DEF pr!ChooseBranch, pr!Do, pr!End, pr!Fail, pr!Unlock, pr!world, pr!git
<1>5. CASE pr!Decide(p) BY <1>5 DEF pr!Decide, pr!Do, pr!End, pr!Fail, pr!Unlock, pr!world, pr!git
<1>6. CASE pr!ImportPullRequest(p)
  BY <1>6 DEF pr!ImportPullRequest, pr!Do, pr!End, pr!Fail, pr!Unlock, pr!world, pr!git
<1>7. CASE pr!PreserveImport(p)
  BY <1>7 DEF pr!PreserveImport, pr!Do, pr!End, pr!Fail, pr!Unlock, pr!world, pr!git
<1>8. CASE pr!Save(p) BY <1>8 DEF pr!Save, pr!Do, pr!End, pr!Fail, pr!Unlock, pr!world, pr!git
<1>9. CASE pr!SaveFails(p)
  BY <1>9 DEF pr!SaveFails, pr!Do, pr!End, pr!Fail, pr!Unlock, pr!world, pr!git
<1>10. CASE pr!Rollback(p)
  BY <1>10 DEF pr!Rollback, pr!Do, pr!End, pr!Fail, pr!Unlock, pr!world, pr!git
<1>11. CASE pr!BeginOpen(p)
  BY <1>11 DEF pr!BeginOpen, pr!Do, pr!End, pr!Fail, pr!Unlock, pr!world, pr!git
<1>12. CASE pr!RejectProtected(p)
  BY <1>12 DEF pr!RejectProtected, pr!Do, pr!End, pr!Fail, pr!Unlock, pr!world, pr!git
<1>13. CASE pr!Establish(p)
  BY <1>13 DEF pr!Establish, pr!Do, pr!End, pr!Fail, pr!Unlock, pr!world, pr!git
<1>14. CASE pr!BeginAttach(p)
  BY <1>14 DEF pr!BeginAttach, pr!Do, pr!End, pr!Fail, pr!Unlock, pr!world, pr!git
<1>15. CASE pr!VerifyAttach(p)
  BY <1>15 DEF pr!VerifyAttach, pr!Do, pr!End, pr!Fail, pr!Unlock, pr!world, pr!git
<1>16. CASE pr!ClaimAttach(p)
  BY <1>16 DEF pr!ClaimAttach, pr!Do, pr!End, pr!Fail, pr!Unlock, pr!world, pr!git
<1>17. CASE pr!EstablishAttach(p)
  BY <1>17 DEF pr!EstablishAttach, pr!Do, pr!End, pr!Fail, pr!Unlock, pr!world, pr!git
<1>18. CASE pr!Die(p) BY <1>18 DEF pr!Die, pr!Do, pr!End, pr!Fail, pr!Unlock, pr!world, pr!git
<1>99. QED
  BY <1>1, <1>2, <1>3, <1>4, <1>5, <1>6, <1>7, <1>8, <1>9, <1>10, <1>11, <1>12, <1>13, <1>14,
    <1>15, <1>16, <1>17, <1>18 DEF PrStep

\* The worktrees stay as they are; or there is a new one,
LEMMA TreesSame ==
    ASSUME pr!ImportInv, s3' = s3, s4' = s4
    PROVE  TreesStay /\ pr!Live' = pr!Live
<1>1. pr!Live' = pr!Live BY DEF pr!Live, pr!Generations
<1>2. QED BY <1>1, TreeIsThere DEF TreesStay, pr!ImportInv

\* A new worktree,
LEMMA TreeAdded ==
    ASSUME Assumption, pr!ImportInv, NEW g \in pr!Generations, g = s4 + 1, NEW t \in
           pr!Tree,
           s3' = [s3 EXCEPT ![g] = t], s4' = g
    PROVE  TreesStay /\ pr!Live' = pr!Live \cup {g} /\ s3'[g] = t /\ g \notin pr!Live
<1>1. t # None BY Assumption DEF Assumption, WarmAssumption, ImportAssumption
<1>2. g \in 1..MaxMade /\ s4 \in 0..MaxMade /\ DOMAIN s3 = pr!Generations
  BY DEF pr!Generations, pr!ImportInv
<1>3. g \notin pr!Live BY <1>2, TreeIsThere
<1>4. pr!Live' = pr!Live \cup {g} BY <1>1, <1>2 DEF pr!Live, pr!Generations
<1>5. ASSUME NEW h \in pr!Live'
      PROVE  /\ s3'[h] \in pr!Tree /\ h <= s4'
             /\ h <= s4 => h \in pr!Live /\ s3'[h] = s3[h]
  <2>1. CASE h = g BY <1>2, <2>1
  <2>2. CASE h # g
    <3>1. h \in pr!Live /\ s3'[h] = s3[h] BY <1>2, <1>4, <2>2 DEF pr!Live
    <3>2. s3[h] \in pr!Tree /\ h \in 1..s4 BY <3>1, TreeIsThere
    <3>3. QED BY <1>2, <3>1, <3>2
  <2>3. QED BY <2>1, <2>2, Zenon
<1>6. DOMAIN s3' = pr!Generations /\ s4' \in 0..MaxMade /\ s4 <= s4' BY <1>2
<1>7. TreesStay
  <2>1. \A h \in pr!Live' :
          /\ s3'[h] \in pr!Tree /\ h <= s4'
          /\ h <= s4 => /\ h \in pr!Live /\ s3'[h].path = s3[h].path /\ s3'[h].import = s3[h].import
                        /\ s3'[h].push = s3[h].push
    <3>1. TAKE h \in pr!Live'
    <3>2. s3'[h] \in pr!Tree /\ h <= s4' BY <1>5
    <3>3. h <= s4 => h \in pr!Live /\ s3'[h] = s3[h] BY <1>5
    <3>4. QED BY <3>2, <3>3
  <2>2. QED BY <1>6, <2>1, Zenon DEF TreesStay
<1>8. s3'[g] = t BY <1>2
<1>9. QED BY <1>3, <1>4, <1>7, <1>8

\* one that is gone,
LEMMA TreeEnded ==
    ASSUME Assumption, pr!ImportInv, NEW g \in pr!Live, s3' = [s3 EXCEPT ![g] = None],
           s4' = s4
    PROVE  TreesStay /\ pr!Live' = pr!Live \ {g} /\ \A h \in pr!Live' : s3'[h] = s3[h]
<1>1. g \in pr!Generations /\ DOMAIN s3 = pr!Generations BY TreeIsThere DEF pr!ImportInv
<1>2. pr!Live' = pr!Live \ {g} BY <1>1 DEF pr!Live, pr!Generations
<1>3. \A h \in pr!Live' : s3'[h] = s3[h] BY <1>1, <1>2, TreeIsThere
<1>4. QED BY <1>1, <1>2, <1>3, TreeIsThere DEF TreesStay

\* and one that is otherwise now.
LEMMA TreeChanged ==
    ASSUME Assumption, pr!ImportInv, NEW g \in pr!Live, NEW t \in pr!Tree,
           t.path = s3[g].path, t.import = s3[g].import, t.push = s3[g].push,
           s3' = [s3 EXCEPT ![g] = t], s4' = s4
    PROVE  TreesStay /\ pr!Live' = pr!Live /\ s3'[g] = t /\ \A h \in pr!Live \ {g} : s3'[h] = s3[h]
<1>1. g \in pr!Generations /\ DOMAIN s3 = pr!Generations BY TreeIsThere DEF pr!ImportInv
<1>2. t # None BY Assumption DEF Assumption, WarmAssumption, ImportAssumption
<1>3. pr!Live' = pr!Live BY <1>1, <1>2 DEF pr!Live, pr!Generations
<1>4. s3'[g] = t /\ \A h \in pr!Live \ {g} : s3'[h] = s3[h] BY <1>1, TreeIsThere
<1>5. QED BY <1>1, <1>3, <1>4, TreeIsThere DEF TreesStay

\* What a step of a process makes of the worktrees.
LEMMA ImportTrees ==
    ASSUME Assumption, pr!ImportInv, NEW p \in PrProcs, PrStep(p)
    PROVE  /\ TreesStay
           /\ \A g \in pr!Live' : s3'[g].recorded =>
                (g \in pr!Live /\ s3[g].recorded) \/ (s9[p].pc = "save" /\ g = s9[p].gen)
<1> USE DEF pr!git
<1>1. CASE pr!Prepare(p)
  <2>1. s3' = s3 /\ s4' = s4 BY <1>1 DEF pr!Prepare, pr!git, pr!Fail
  <2>2. QED BY <2>1, TreesSame
<1>2. CASE pr!BeginImport(p)
  <2>1. s3' = s3 /\ s4' = s4 BY <1>2 DEF pr!BeginImport, pr!git, pr!Fail
  <2>2. QED BY <2>1, TreesSame
<1>3. CASE pr!ReadRecords(p)
  <2>1. s3' = s3 /\ s4' = s4 BY <1>3 DEF pr!ReadRecords, pr!git, pr!Fail
  <2>2. QED BY <2>1, TreesSame
<1>4. CASE pr!ChooseBranch(p)
  <2>1. s3' = s3 /\ s4' = s4 BY <1>4 DEF pr!ChooseBranch, pr!git, pr!Fail
  <2>2. QED BY <2>1, TreesSame
<1>5. CASE pr!Decide(p)
  <2>1. s3' = s3 /\ s4' = s4 BY <1>5 DEF pr!Decide, pr!git, pr!Fail
  <2>2. QED BY <2>1, TreesSame
<1>6. CASE pr!ImportPullRequest(p)
  <2>1. PICK j : j = s9[p] OBVIOUS
  <2>2. j \in pr!Updating BY <1>6, <2>1, PrKnown, PrJobs DEF pr!ImportPullRequest
  <2>3. CASE s3' = s3 /\ s4' = s4 BY <2>3, TreesSame
  <2>4. CASE \E g \in pr!Generations \cap {s4 + 1}, c \in pr!Routings :
               s3' = [s3 EXCEPT ![g] = pr!ImportedTree(j, c)] /\ s4' = g
    <3>1. PICK g \in pr!Generations \cap {s4 + 1}, c \in pr!Routings :
            s3' = [s3 EXCEPT ![g] = pr!ImportedTree(j, c)] /\ s4' = g
      BY <2>4
    <3>2. PICK t : t = pr!ImportedTree(j, c) OBVIOUS
    <3>3. t \in pr!Tree /\ ~t.recorded BY <2>2, <3>2, ImportedIs
    <3>4. g \in pr!Generations /\ g = s4 + 1 BY <3>1
    <3>5. TreesStay /\ pr!Live' = pr!Live \cup {g} /\ s3'[g] = t
      BY <3>1, <3>2, <3>3, <3>4, TreeAdded
    <3>6. \A h \in pr!Live : h # g => s3'[h] = s3[h] BY <3>1, <3>4, TreeIsThere DEF pr!ImportInv
    <3>7. QED BY <3>3, <3>5, <3>6
  <2>5. QED BY <1>6, <2>1, <2>3, <2>4 DEF pr!ImportPullRequest, pr!git
<1>7. CASE pr!PreserveImport(p)
  <2>1. PICK j : j = s9[p] OBVIOUS
  <2>2. j \in pr!Updating BY <1>7, <2>1, PrKnown, PrJobs DEF pr!PreserveImport
  <2>3. PICK g \in pr!Generations \cap {s4 + 1}, c \in pr!Routings :
          s3' = [s3 EXCEPT ![g] = pr!ImportedTree(j, c)] /\ s4' = g
    BY <1>7, <2>1 DEF pr!PreserveImport
  <2>4. PICK t : t = pr!ImportedTree(j, c) OBVIOUS
  <2>5. t \in pr!Tree /\ ~t.recorded BY <2>2, <2>4, ImportedIs
  <2>6. g \in pr!Generations /\ g = s4 + 1 BY <2>3
  <2>7. TreesStay /\ pr!Live' = pr!Live \cup {g} /\ s3'[g] = t BY <2>3, <2>4, <2>5, <2>6, TreeAdded
  <2>8. \A h \in pr!Live : h # g => s3'[h] = s3[h] BY <2>3, <2>6, TreeIsThere DEF pr!ImportInv
  <2>9. QED BY <2>5, <2>7, <2>8
<1>8. CASE pr!Save(p)
  <2>1. PICK g : g = s9[p].gen OBVIOUS
  <2>2. CASE g \notin pr!Live
    <3>1. s3' = s3 /\ s4' = s4 BY <1>8, <2>1, <2>2 DEF pr!Save
    <3>2. QED BY <3>1, TreesSame
  <2>3. CASE g \in pr!Live
    <3>1. s3' = [s3 EXCEPT ![g].recorded = TRUE] /\ s4' = s4 BY <1>8, <2>1, <2>3 DEF pr!Save
    <3>2. PICK i : i = s3[g] OBVIOUS
    <3>3. i \in pr!Tree BY <2>3, <3>2, TreeIsThere
    <3>4. PICK t : t = [i EXCEPT !.recorded = TRUE] OBVIOUS
    <3>5. t \in pr!Tree /\ t.path = i.path /\ t.import = i.import /\ t.push = i.push
      BY <3>3, <3>4 DEF pr!Tree
    <3>6. s3' = [s3 EXCEPT ![g] = t] BY <3>1, <3>2, <3>4
    <3>7. TreesStay /\ pr!Live' = pr!Live /\ \A h \in pr!Live \ {g} : s3'[h] = s3[h]
      BY <2>3, <3>1, <3>2, <3>5, <3>6, TreeChanged
    <3>8. QED BY <1>8, <2>1, <3>7 DEF pr!Save
  <2>4. QED BY <2>2, <2>3
<1>9. CASE pr!SaveFails(p)
  <2>1. s3' = s3 /\ s4' = s4 BY <1>9 DEF pr!SaveFails, pr!git, pr!Fail
  <2>2. QED BY <2>1, TreesSame
<1>10. CASE pr!Rollback(p)
  <2>1. PICK g : g = s9[p].gen OBVIOUS
  <2>2. CASE s3' = s3 /\ s4' = s4 BY <2>2, TreesSame
  <2>3. CASE g \in pr!Live /\ s3' = [s3 EXCEPT ![g] = None] /\ s4' = s4
    <3>1. TreesStay /\ pr!Live' = pr!Live \ {g} /\ \A h \in pr!Live' : s3'[h] = s3[h]
      BY <2>3, TreeEnded
    <3>2. QED BY <3>1
  <2>4. QED BY <1>10, <2>1, <2>2, <2>3 DEF pr!Rollback, pr!git
<1>11. CASE pr!BeginOpen(p)
  <2>1. s3' = s3 /\ s4' = s4 BY <1>11 DEF pr!BeginOpen, pr!git, pr!Fail
  <2>2. QED BY <2>1, TreesSame
<1>12. CASE pr!RejectProtected(p)
  <2>1. s3' = s3 /\ s4' = s4 BY <1>12 DEF pr!RejectProtected, pr!git, pr!Fail
  <2>2. QED BY <2>1, TreesSame
<1>13. CASE pr!Establish(p)
  <2>1. s3' = s3 /\ s4' = s4 BY <1>13 DEF pr!Establish, pr!git, pr!Fail
  <2>2. QED BY <2>1, TreesSame
<1>14. CASE pr!BeginAttach(p)
  <2>1. s3' = s3 /\ s4' = s4 BY <1>14 DEF pr!BeginAttach, pr!git, pr!Fail
  <2>2. QED BY <2>1, TreesSame
<1>15. CASE pr!VerifyAttach(p)
  <2>1. s3' = s3 /\ s4' = s4 BY <1>15 DEF pr!VerifyAttach, pr!git, pr!Fail
  <2>2. QED BY <2>1, TreesSame
<1>16. CASE pr!ClaimAttach(p)
  <2>1. s3' = s3 /\ s4' = s4 BY <1>16 DEF pr!ClaimAttach, pr!git, pr!Fail
  <2>2. QED BY <2>1, TreesSame
<1>17. CASE pr!EstablishAttach(p)
  <2>1. s3' = s3 /\ s4' = s4 BY <1>17 DEF pr!EstablishAttach, pr!git, pr!Fail
  <2>2. QED BY <2>1, TreesSame
<1>18. CASE pr!Die(p)
  <2>1. s3' = s3 /\ s4' = s4 BY <1>18 DEF pr!Die, pr!git, pr!Fail
  <2>2. QED BY <2>1, TreesSame
<1>99. QED
  BY <1>1, <1>2, <1>3, <1>4, <1>5, <1>6, <1>7, <1>8, <1>9, <1>10, <1>11, <1>12, <1>13, <1>14,
    <1>15, <1>16, <1>17, <1>18 DEF PrStep

\* A file agrees with the worktrees as long as none of them changes its origin.
LEMMA RecordsStay ==
    ASSUME pr!ImportInv, TreesStay, NEW recs \in pr!Records, pr!RecordsAgree(recs),
           s1.repo = "new" => s1'.repo = "new", s2 = "new" => s2' = "new"
    PROVE  pr!RecordsAgree(recs)'
<1>1. ASSUME NEW r \in pr!Repos, recs[r] # None
      PROVE  /\ recs[r].repo = r /\ recs[r].workspace.gen <= s4'
             /\ recs[r].workspace.gen \in pr!Live' =>
                  s3'[recs[r].workspace.gen].import /\ pr!ReturnsToSource(recs[r].workspace.gen)'
  <2>1. PICK g : g = recs[r].workspace.gen OBVIOUS
  <2>2. g \in pr!Generations BY <1>1, <2>1 DEF pr!Records, pr!Record, pr!Workspace
  <2>3. recs[r].repo = r /\ g <= s4 /\ (g \in pr!Live => s3[g].import /\ pr!ReturnsToSource(g))
    BY <1>1, <2>1 DEF pr!RecordsAgree
  <2>4. g <= s4' BY <2>2, <2>3 DEF TreesStay, pr!Generations, pr!ImportInv
  <2>5. ASSUME g \in pr!Live' PROVE s3'[g].import /\ pr!ReturnsToSource(g)'
    <3>1. g \in pr!Live /\ s3'[g].import = s3[g].import /\ s3'[g].push = s3[g].push
      BY <2>3, <2>5 DEF TreesStay
    <3>2. s3[g].push \subseteq {<<"head", <<s>>>> : s \in Sources}
      BY <2>3, <3>1 DEF pr!ReturnsToSource
    <3>3. QED BY <2>3, <3>1, <3>2 DEF pr!ReturnsToSource
  <2>6. QED BY <2>1, <2>3, <2>4, <2>5
<1>2. /\ recs["old"] # None => recs["old"].aliases = {}
      /\ recs["new"] # None => s1'.repo = "new"
      /\ recs["old"] # None /\ recs["new"] # None => s2' = "new"
  BY DEF pr!RecordsAgree
<1>3. QED BY <1>1, <1>2 DEF pr!RecordsAgree

\* What another process knows stays true of a step that keeps its claim, its lock, what
\* it decided on and which worktrees have no record.
LEMMA ImportOther ==
    ASSUME Assumption, pr!ImportInv, TreesStay, NEW q \in PrProcs, s9'[q] = s9[q],
           s8 = q => /\ s8' = q /\ s2' = s2 /\ s6' = s6
                     /\ \A g \in pr!Live' : s3'[g].recorded => g \in pr!Live /\ s3[g].recorded,
           s7 = q => s7' = q,
           s1.repo = "new" => s1'.repo = "new", s2 = "new" => s2' = "new",
           \A g \in 1..s4 : g \in pr!Live' /\ pr!IsUnrecorded(g) => pr!IsUnrecorded(g)'
    PROVE  pr!Knows(q, s9[q])'
<1>1. PICK j : j = s9[q] OBVIOUS
<1>2. s9'[q] = j BY <1>1
<1>3. /\ j \in pr!Job /\ (j.pc \in pr!Claiming => s8 = q) /\ (j.pc \in pr!Writing => s7 = q)
      /\ pr!KnowsProject(j) /\ pr!KnowsFile(j) /\ pr!KnowsItsOwn(j) /\ pr!KnowsWorktree(j)
  BY <1>1 DEF pr!ImportInv, pr!Knows, PrProcs
<1>4. s4 <= s4' /\ s4 \in Nat /\ s4' \in Nat BY DEF TreesStay, pr!ImportInv
<1>5. pr!KnowsProject(j)' BY <1>3 DEF pr!KnowsProject, pr!Claiming
<1>6. pr!KnowsFile(j)'
  <2>1. SUFFICES ASSUME j.pc = "save" PROVE pr!KnowsFile(j)' BY DEF pr!KnowsFile
  <2>2. j \in pr!Storing /\ s6' = s6 BY <1>3, <2>1, PrJobs DEF pr!Claiming
  <2>3. PICK n : n = j.next OBVIOUS
  <2>4. n \in pr!Records /\ pr!RecordsAgree(n)
    BY <1>3, <2>1, <2>2, <2>3 DEF pr!Storing, pr!KnowsFile
  <2>5. pr!RecordsAgree(n)' BY <2>4, RecordsStay
  <2>6. j.gen <= s4' BY <1>3, <1>4, <2>1, <2>2 DEF pr!KnowsFile, pr!Storing, pr!Generations
  <2>7. /\ \A r \in pr!Repos : j.next[r] # None =>
              j.next[r].workspace.gen = j.gen \/ pr!RecordedNow(j.next[r].workspace.gen)'
        /\ \E r \in pr!Repos : j.next[r] # None /\ j.next[r].workspace.gen = j.gen
        /\ ~j.made => pr!RecordedNow(j.gen)'
    BY <1>3, <2>1, <2>2 DEF pr!KnowsFile, pr!RecordedNow
  <2>8. QED BY <2>3, <2>5, <2>6, <2>7 DEF pr!KnowsFile
<1>7. pr!KnowsItsOwn(j)'
  <2>1. SUFFICES ASSUME (j.pc = "save" /\ j.made) \/ j.pc = "rollback" PROVE pr!KnowsItsOwn(j)'
    BY DEF pr!KnowsItsOwn
  <2>2. j \in pr!Storing \cup pr!Undoing /\ s8 = q BY <1>3, <2>1, PrJobs DEF pr!Claiming
  <2>3. j.gen \in pr!Generations /\ j.gen <= s4
    BY <1>3, <2>1, <2>2 DEF pr!Storing, pr!Undoing, pr!KnowsItsOwn
  <2>4. ~pr!RecordedNow(j.gen)' BY <1>3, <2>1, <2>2 DEF pr!KnowsItsOwn, pr!RecordedNow
  <2>5. j.gen <= s4' BY <1>4, <2>3 DEF pr!Generations
  <2>6. ASSUME j.gen \in pr!Live' PROVE s3'[j.gen].import /\ ~s3'[j.gen].recorded
    <3>1. j.gen \in pr!Live /\ s3'[j.gen].import = s3[j.gen].import BY <2>3, <2>6 DEF TreesStay
    <3>2. s3[j.gen].import /\ ~s3[j.gen].recorded BY <1>3, <2>1, <3>1 DEF pr!KnowsItsOwn
    <3>3. QED BY <2>2, <2>6, <3>1, <3>2
  <2>7. QED BY <2>4, <2>5, <2>6 DEF pr!KnowsItsOwn
<1>8. pr!KnowsWorktree(j)'
  <2>1. ASSUME j.pc \in {"check", "open"}
        PROVE  /\ j.gen <= s4' /\ (j.gen \in pr!Live' => s3'[j.gen].path = j.path)
               /\ j.pc = "open" => (j.gen \in pr!Live' => pr!IsUnrecorded(j.gen)')
    <3>1. j \in pr!Opening BY <1>3, <2>1, PrJobs
    <3>2. j.gen \in pr!Generations /\ j.gen <= s4
      BY <1>3, <2>1, <3>1 DEF pr!Opening, pr!KnowsWorktree
    <3>3. j.gen <= s4' /\ j.gen \in 1..s4 BY <1>4, <3>2 DEF pr!Generations
    <3>4. j.gen \in pr!Live' => j.gen \in pr!Live /\ s3'[j.gen].path = s3[j.gen].path
      BY <3>2 DEF TreesStay
    <3>5. j.gen \in pr!Live => s3[j.gen].path = j.path /\ (j.pc = "open" => pr!IsUnrecorded(j.gen))
      BY <1>3, <2>1 DEF pr!KnowsWorktree
    <3>6. QED BY <3>3, <3>4, <3>5
  <2>2. j.pc = "establish" => j.expected = None \/ pr!RecordedNow(j.expected)'
    BY <1>3 DEF pr!Claiming, pr!KnowsWorktree, pr!RecordedNow
  <2>3. QED BY <2>1, <2>2 DEF pr!KnowsWorktree
<1>9. (j.pc \in pr!Claiming => s8' = q) /\ (j.pc \in pr!Writing => s7' = q) BY <1>3
<1>10. QED BY <1>2, <1>3, <1>5, <1>6, <1>7, <1>8, <1>9 DEF pr!Knows

\* A process that has nothing to do knows nothing,
LEMMA NoJobKnows ==
    ASSUME NEW p, s9'[p] = pr!Idle
    PROVE  pr!Knows(p, s9[p])'
<1>1. PICK j : j = pr!Idle BY DEF pr!Idle
<1>2. j.pc = "idle" /\ j \in pr!Job BY <1>1 DEF pr!Idle, pr!Job
<1>3. "idle" \notin pr!Claiming \cup pr!Writing \cup pr!Resolving
  BY DEF pr!Claiming, pr!Writing, pr!Resolving
<1>4. pr!KnowsProject(j)' /\ pr!KnowsFile(j)' /\ pr!KnowsItsOwn(j)' /\ pr!KnowsWorktree(j)'
  BY <1>2, <1>3 DEF pr!KnowsProject, pr!KnowsFile, pr!KnowsItsOwn, pr!KnowsWorktree
<1>5. s9'[p] = j BY <1>1
<1>6. QED BY <1>2, <1>3, <1>4, <1>5 DEF pr!Knows

\* A step of a process puts its next job in place,
LEMMA PrDoes ==
    ASSUME pr!ImportInv, NEW p \in PrProcs, NEW j, pr!Do(p, j)
    PROVE  s9'[p] = j
BY DEF pr!Do, pr!ImportInv, PrProcs

\* or ends it.
LEMMA PrEnds ==
    ASSUME pr!ImportInv, NEW p \in PrProcs, pr!End(p)
    PROVE  pr!Knows(p, s9[p])' /\ s9'[p] = pr!Idle
<1>1. s9'[p] = pr!Idle BY PrDoes DEF pr!End
<1>2. QED BY <1>1, NoJobKnows

\* one that resolves what to import the project,
LEMMA ResolverKnows ==
    ASSUME NEW p, NEW j \in pr!Job, s9'[p] = j, j.pc \in pr!Resolving, s8' = p,
           j.pc = "git" => s7' = p, pr!KnowsProject(j)'
    PROVE  pr!Knows(p, s9[p])'
<1>1. j.pc \notin {"save", "rollback", "check", "open", "establish"} /\ (j.pc \in pr!Writing =>
    j.pc = "git")
  BY DEF pr!Resolving, pr!Writing
<1>2. pr!KnowsFile(j)' /\ pr!KnowsItsOwn(j)' /\ pr!KnowsWorktree(j)'
  BY <1>1 DEF pr!KnowsFile, pr!KnowsItsOwn, pr!KnowsWorktree
<1>3. QED BY <1>1, <1>2 DEF pr!Knows

\* one that stores or undoes its import what it has found or made,
LEMMA StorerKnows ==
    ASSUME NEW p, NEW j \in pr!Job, s9'[p] = j, j.pc \in {"save", "rollback"}, s8' = p,
           j.pc = "save" => s7' = p, pr!KnowsFile(j)', pr!KnowsItsOwn(j)'
    PROVE  pr!Knows(p, s9[p])'
<1>1. j.pc \notin pr!Resolving \cup {"check", "open", "establish"} /\ (j.pc \in pr!Writing =>
    j.pc = "save")
  BY DEF pr!Resolving, pr!Writing
<1>2. pr!KnowsProject(j)' /\ pr!KnowsWorktree(j)' BY <1>1 DEF pr!KnowsProject, pr!KnowsWorktree
<1>3. QED BY <1>1, <1>2 DEF pr!Knows

\* and one that opens or attaches the worktree.
LEMMA VisitorKnows ==
    ASSUME NEW p, NEW j \in pr!Job, s9'[p] = j, j.pc \in {"prepared", "check", "open", "verify",
           "claim", "establish"},
           j.pc = "establish" => s8' = p, pr!KnowsWorktree(j)'
    PROVE  pr!Knows(p, s9[p])'
<1>1. /\ j.pc \notin pr!Resolving \cup pr!Writing \cup {"save", "rollback"}
      /\ j.pc \in pr!Claiming => j.pc = "establish"
  BY DEF pr!Resolving, pr!Writing, pr!Claiming
<1>2. pr!KnowsProject(j)' /\ pr!KnowsFile(j)' /\ pr!KnowsItsOwn(j)'
  BY <1>1 DEF pr!KnowsProject, pr!KnowsFile, pr!KnowsItsOwn
<1>3. QED BY <1>1, <1>2 DEF pr!Knows

\* What an import writes: its own record under the repository's present name, none of the
\* records it has found elsewhere, and those it has nothing to do with.
LEMMA ReplacedIs ==
    ASSUME NEW j, j.repo \in pr!Repos, NEW found, NEW w,
           s6 \in pr!Records, w \in pr!Record
    PROVE  LET next == pr!Replaced(found, j, w) IN
           /\ next \in pr!Records /\ next[j.repo] = w
           /\ \A r \in pr!Repos \ {j.repo} : next[r] = IF r \in found THEN None ELSE s6[r]
BY DEF pr!Replaced, pr!Records

\* What an import stores, and what becomes of the file by it.
Stores(j, found, ids, w, next) ==
    /\ j.pc \in pr!Resolving /\ j.repo \in pr!Repos /\ pr!KnowsProject(j)
    /\ found = pr!FindProvenance(s6, j.repo, j.mine)
    /\ ids = {j.repo} \/ (\E r \in found : ids = pr!Identities(s6[r]))
    /\ w \in pr!Record /\ w.repo = j.repo /\ w.aliases = pr!MergedAliases(ids, j.mine)
    /\ next = pr!Replaced(found, j, w)
StoresWell(j, w, next) ==
    /\ next \in pr!Records /\ next[j.repo] = w
    /\ \A r \in pr!Repos \ {j.repo} : next[r] # None => next[r] = s6[r]
    /\ \A r \in pr!Repos : next[r] # None => next[r].repo = r
    /\ next["old"] # None => next["old"].aliases = {}
    /\ next["new"] # None => s1.repo = "new"
    /\ next["old"] # None /\ next["new"] # None => s2 = "new"

\* It agrees with the worktrees if the file it replaces did.
LEMMA StoresAgree ==
    ASSUME Assumption, pr!ImportInv, NEW j, NEW found, NEW ids, NEW w, NEW next,
           Stores(j, found, ids, w, next)
    PROVE  StoresWell(j, w, next)
<1>a. j.pc \in pr!Resolving /\ j.repo \in pr!Repos /\ pr!KnowsProject(j) BY DEF Stores
<1>b. found = pr!FindProvenance(s6, j.repo, j.mine) BY DEF Stores
<1>c. ids = {j.repo} \/ (\E r \in found : ids = pr!Identities(s6[r])) BY DEF Stores
<1>d. w \in pr!Record /\ w.repo = j.repo /\ w.aliases = pr!MergedAliases(ids, j.mine)
  BY DEF Stores
<1>e. next = pr!Replaced(found, j, w) BY DEF Stores
<1> USE <1>a, <1>b, <1>c, <1>d, <1>e
<1>1. s6 \in pr!Records /\ pr!RecordsAgree(s6) /\ s2 \in pr!Repos /\ "old" # "new" /\
    pr!Repos = {"old", "new"}
  BY Two DEF pr!ImportInv
<1>2. next \in pr!Records /\ next[j.repo] = w /\ \A r \in pr!Repos \ {j.repo} :
    next[r] = IF r \in found THEN None ELSE s6[r]
  BY <1>1, ReplacedIs
<1>3. \A r \in pr!Repos \ {j.repo} : next[r] # None => next[r] = s6[r] BY <1>2
<1>4. \A r \in pr!Repos : next[r] # None => next[r].repo = r
  BY <1>1, <1>2, <1>3 DEF pr!RecordsAgree
<1>5. w # None /\ None \notin pr!Record
  BY Assumption DEF Assumption, WarmAssumption, ImportAssumption
<1>6. (j.mine = {s2, j.repo} \/ (j.mine = pr!Repos /\ j.repo = "new")) /\ (j.repo = "new" =>
    s1.repo = "new") /\ (j.repo = "old" => s2 = "old" /\ s6["new"] = None)
  BY DEF pr!KnowsProject
<1>7. \A r \in found : r \in pr!Repos /\ s6[r] # None /\ s6[r] \in pr!Record BY <1>1, FoundIs
<1>8. CASE j.repo = "old"
  <2>1. j.mine = {"old"} /\ s6["new"] = None BY <1>1, <1>6, <1>8
  <2>2. found \subseteq {"old"} BY <1>1, <1>7, <2>1
  <2>3. ids = {"old"}
    <3>1. ASSUME NEW r \in found, ids = pr!Identities(s6[r]) PROVE ids = {"old"}
      <4>1. r = "old" /\ s6["old"] \in pr!Record /\ s6["old"] # None BY <1>7, <2>2, <3>1
      <4>2. s6["old"].aliases = {} /\ s6["old"].repo = "old" BY <1>1, <4>1 DEF pr!RecordsAgree
      <4>3. QED BY <3>1, <4>1, <4>2, IdentitiesAre
    <3>2. QED BY <1>8, <3>1
  <2>4. w.aliases = {}
    <3>1. ids \cup j.mine = {"old"} /\ {"old"} # pr!Repos BY <1>1, <2>1, <2>3
    <3>2. ids \in SUBSET pr!Repos /\ j.mine \in SUBSET pr!Repos BY <1>1, <2>1, <2>3
    <3>3. QED BY <3>1, <3>2, MergedIs
  <2>5. next["new"] = None BY <1>1, <1>2, <1>8, <2>1
  <2>6. QED BY <1>2, <1>3, <1>4, <1>8, <2>4, <2>5 DEF StoresWell
<1>9. CASE j.repo = "new"
  <2>1. s1.repo = "new" BY <1>6, <1>9
  <2>2. next["old"] # None => s6["old"] # None /\ next["old"] = s6["old"] /\ "old" \notin found
    BY <1>1, <1>2, <1>9
  <2>3. next["old"] # None => next["old"].aliases = {} BY <1>1, <2>2 DEF pr!RecordsAgree
  <2>4. ASSUME next["old"] # None PROVE s2 = "new"
    <3>1. s6["old"] # None /\ "old" \notin found BY <2>2, <2>4
    <3>2. s6["old"].aliases = {} /\ s6["old"].repo = "old" /\ s6["old"] \in pr!Record
      BY <1>1, <3>1 DEF pr!RecordsAgree, pr!Records
    <3>3. CASE s6["new"] # None BY <1>1, <3>1, <3>3 DEF pr!RecordsAgree
    <3>4. CASE s6["new"] = None
      <4>1. pr!Identities(s6["old"]) \cap j.mine = {} BY <1>1, <1>9, <3>1, <3>4, FoundIs
      <4>2. pr!Identities(s6["old"]) = {"old"} BY <3>2, IdentitiesAre
      <4>3. "old" \notin j.mine BY <4>1, <4>2
      <4>4. j.mine = {s2, j.repo} BY <1>1, <1>6, <4>3
      <4>5. QED BY <1>1, <4>3, <4>4
    <3>5. QED BY <3>3, <3>4
  <2>5. QED BY <1>2, <1>3, <1>4, <1>9, <2>1, <2>3, <2>4 DEF StoresWell
<1>10. QED BY <1>1, <1>8, <1>9

\* What is stored has a record, or is new.
LEMMA ImportStores ==
    ASSUME Assumption, pr!ImportInv, NEW p \in PrProcs, PrStep(p)
    PROVE  s9'[p].pc = "save" => pr!RecordedNow(s9'[p].gen) \/ s9'[p].gen = s4 + 1
<1>1. CASE pr!Prepare(p) BY <1>1, PrDoes DEF pr!Prepare, pr!End, pr!Fail, pr!Idle
<1>2. CASE pr!BeginImport(p) BY <1>2, PrDoes DEF pr!BeginImport, pr!End, pr!Fail, pr!Idle
<1>3. CASE pr!ReadRecords(p) BY <1>3, PrDoes DEF pr!ReadRecords, pr!End, pr!Fail, pr!Idle
<1>4. CASE pr!ChooseBranch(p) BY <1>4, PrDoes DEF pr!ChooseBranch, pr!End, pr!Fail, pr!Idle
<1>5. CASE pr!Decide(p)
  <2>1. PICK j : j = s9[p] OBVIOUS
  <2>2. PICK found : found = pr!FindProvenance(s6, j.repo, j.mine) OBVIOUS
  <2>3. PICK r : r = CHOOSE x \in found : TRUE OBVIOUS
  <2>4. j \in pr!Updating BY <1>5, <2>1, PrKnown, PrJobs DEF pr!Decide
  <2>5. CASE pr!Fail(p) BY <2>5, PrEnds DEF pr!Fail, pr!Idle
  <2>6. CASE pr!Do(p, [j EXCEPT !.pc = "git"])
    <3>1. PICK k : k = [j EXCEPT !.pc = "git"] OBVIOUS
    <3>2. k.pc = "git" BY <2>4, <3>1 DEF pr!Updating
    <3>3. s9'[p] = k BY <2>6, <3>1, PrDoes
    <3>4. QED BY <3>2, <3>3
  <2>7. CASE /\ found # {}
             /\ pr!Do(p, [pc |-> "save", gen |-> s6[r].workspace.gen, made |-> FALSE,
                          branch |-> j.branch, next |-> pr!Replaced(found, j, pr!Recorded(s6[r],
                              j))])
    <3>1. s9'[p].gen = s6[r].workspace.gen BY <2>7, PrDoes
    <3>2. r \in found BY <2>3, <2>7
    <3>3. r \in pr!Repos /\ s6[r] # None BY <2>2, <2>4, <3>2, FoundIs DEF pr!ImportInv, pr!Updating
    <3>4. QED BY <3>1, <3>3 DEF pr!RecordedNow
  <2>8. QED BY <1>5, <2>1, <2>2, <2>3, <2>5, <2>6, <2>7 DEF pr!Decide
<1>6. CASE pr!ImportPullRequest(p)
  <2>1. PICK j : j = s9[p] OBVIOUS
  <2>2. \/ pr!Fail(p)
        \/ \E g \in pr!Generations \cap {s4 + 1} : \E n :
             pr!Do(p, [pc |-> "save", gen |-> g, made |-> TRUE, branch |-> j.branch, next |-> n])
    BY <1>6, <2>1 DEF pr!ImportPullRequest
  <2>3. CASE pr!Fail(p) BY <2>3, PrEnds DEF pr!Fail, pr!Idle
  <2>4. ASSUME NEW g \in pr!Generations \cap {s4 + 1}, NEW n,
               pr!Do(p, [pc |-> "save", gen |-> g, made |-> TRUE, branch |-> j.branch, next |-> n])
        PROVE  s9'[p].gen = s4 + 1
    BY <2>4, PrDoes
  <2>5. QED BY <2>2, <2>3, <2>4
<1>7. CASE pr!PreserveImport(p) BY <1>7, PrDoes DEF pr!PreserveImport, pr!End, pr!Fail, pr!Idle
<1>8. CASE pr!Save(p) BY <1>8, PrDoes DEF pr!Save, pr!End, pr!Fail, pr!Idle
<1>9. CASE pr!SaveFails(p) BY <1>9, PrDoes DEF pr!SaveFails, pr!End, pr!Fail, pr!Idle
<1>10. CASE pr!Rollback(p) BY <1>10, PrDoes DEF pr!Rollback, pr!End, pr!Fail, pr!Idle
<1>11. CASE pr!BeginOpen(p) BY <1>11, PrDoes DEF pr!BeginOpen, pr!End, pr!Fail, pr!Idle
<1>12. CASE pr!RejectProtected(p)
  <2>1. PICK i : i = s9[p] OBVIOUS
  <2>2. i.pc \in {"check", "verify"} BY <1>12, <2>1 DEF pr!RejectProtected
  <2>3. i \in pr!Opening \cup pr!Attaching BY <2>1, <2>2, PrKnown, PrJobs
  <2>4. pr!End(p) \/ \E c \in {"open", "claim"} : pr!Do(p, [i EXCEPT !.pc = c])
    BY <1>12, <2>1 DEF pr!RejectProtected
  <2>5. CASE pr!End(p) BY <2>5, PrEnds DEF pr!Idle
  <2>6. ASSUME NEW c \in {"open", "claim"}, pr!Do(p, [i EXCEPT !.pc = c]) PROVE s9'[p].pc # "save"
    <3>1. PICK k : k = [i EXCEPT !.pc = c] OBVIOUS
    <3>2. k.pc = c BY <2>3, <3>1 DEF pr!Opening, pr!Attaching
    <3>3. s9'[p] = k BY <2>6, <3>1, PrDoes
    <3>4. QED BY <2>6, <3>2, <3>3
  <2>7. QED BY <2>4, <2>5, <2>6
<1>13. CASE pr!Establish(p) BY <1>13, PrDoes DEF pr!Establish, pr!End, pr!Fail, pr!Idle
<1>14. CASE pr!BeginAttach(p) BY <1>14, PrDoes DEF pr!BeginAttach, pr!End, pr!Fail, pr!Idle
<1>15. CASE pr!VerifyAttach(p)
  <2>1. PICK i : i = s9[p] OBVIOUS
  <2>2. i.pc \in {"check", "verify"} BY <1>15, <2>1 DEF pr!VerifyAttach
  <2>3. i \in pr!Opening \cup pr!Attaching BY <2>1, <2>2, PrKnown, PrJobs
  <2>4. pr!End(p) \/ \E c \in {"open", "claim"} : pr!Do(p, [i EXCEPT !.pc = c])
    BY <1>15, <2>1 DEF pr!VerifyAttach
  <2>5. CASE pr!End(p) BY <2>5, PrEnds DEF pr!Idle
  <2>6. ASSUME NEW c \in {"open", "claim"}, pr!Do(p, [i EXCEPT !.pc = c]) PROVE s9'[p].pc # "save"
    <3>1. PICK k : k = [i EXCEPT !.pc = c] OBVIOUS
    <3>2. k.pc = c BY <2>3, <3>1 DEF pr!Opening, pr!Attaching
    <3>3. s9'[p] = k BY <2>6, <3>1, PrDoes
    <3>4. QED BY <2>6, <3>2, <3>3
  <2>7. QED BY <2>4, <2>5, <2>6
<1>16. CASE pr!ClaimAttach(p)
  <2>1. PICK i : i = s9[p] OBVIOUS
  <2>2. i \in pr!Attaching BY <1>16, <2>1, PrKnown, PrJobs DEF pr!ClaimAttach
  <2>3. pr!End(p) \/ pr!Do(p, [i EXCEPT !.pc = "establish"]) BY <1>16, <2>1 DEF pr!ClaimAttach
  <2>4. CASE pr!End(p) BY <2>4, PrEnds DEF pr!Idle
  <2>5. ASSUME pr!Do(p, [i EXCEPT !.pc = "establish"]) PROVE s9'[p].pc # "save"
    <3>1. PICK k : k = [i EXCEPT !.pc = "establish"] OBVIOUS
    <3>2. k.pc = "establish" BY <2>2, <3>1 DEF pr!Attaching
    <3>3. s9'[p] = k BY <2>5, <3>1, PrDoes
    <3>4. QED BY <3>2, <3>3
  <2>6. QED BY <2>3, <2>4, <2>5
<1>17. CASE pr!EstablishAttach(p)
  BY <1>17, PrDoes DEF pr!EstablishAttach, pr!End, pr!Fail, pr!Idle
<1>18. CASE pr!Die(p) BY <1>18, PrDoes DEF pr!Die, pr!End, pr!Fail, pr!Idle
<1>99. QED
  BY <1>1, <1>2, <1>3, <1>4, <1>5, <1>6, <1>7, <1>8, <1>9, <1>10, <1>11, <1>12, <1>13, <1>14,
    <1>15, <1>16, <1>17, <1>18 DEF PrStep

\* A worktree that was there gets a record only when one that names it is being stored.
LEMMA StaysUnrecorded ==
    ASSUME Assumption, pr!ImportInv, NEW p \in PrProcs, PrStep(p), NEW g \in 1..s4,
           pr!IsUnrecorded(g)
    PROVE  pr!IsUnrecorded(g)'
<1>1. ~pr!RecordedNow(g)'
  <2>1. CASE s6' = s6 BY <2>1 DEF pr!IsUnrecorded, pr!RecordedNow
  <2>2. CASE s9[p].pc = "save" /\ s6' = s9[p].next
    <3>1. PICK j : j = s9[p] OBVIOUS
    <3>2. pr!KnowsFile(j) BY <3>1, PrKnown
    <3>3. ASSUME NEW r \in pr!Repos, j.next[r] # None, j.next[r].workspace.gen = g PROVE FALSE
      <4>1. g = j.gen \/ pr!RecordedNow(g) BY <2>2, <3>1, <3>2, <3>3 DEF pr!KnowsFile
      <4>2. QED BY <2>2, <3>1, <4>1 DEF pr!IsUnrecorded, pr!Stores, PrProcs
    <3>4. QED BY <2>2, <3>1, <3>3 DEF pr!RecordedNow
  <2>3. QED BY <2>1, <2>2, ImportFrame
<1>2. ~pr!Stores(g)'
  <2>1. ASSUME NEW q \in PrProcs, s9'[q].pc = "save", s9'[q].gen = g PROVE FALSE
    <3>1. CASE q = p
      <4>1. pr!RecordedNow(g) \/ g = s4 + 1 BY <2>1, <3>1, ImportStores
      <4>2. s4 \in Nat /\ g <= s4 BY DEF pr!ImportInv
      <4>3. QED BY <4>1, <4>2 DEF pr!IsUnrecorded
    <3>2. CASE q # p
      <4>1. s9[q].pc = "save" /\ s9[q].gen = g BY <2>1, <3>2, ImportFrame
      <4>2. QED BY <4>1 DEF pr!IsUnrecorded, pr!Stores, PrProcs
    <3>3. QED BY <3>1, <3>2
  <2>2. QED BY <2>1 DEF pr!Stores, PrProcs
<1>3. QED BY <1>1, <1>2 DEF pr!IsUnrecorded

\* What a process knows after a step of its own.
LEMMA OwnKnows ==
    ASSUME Assumption, pr!ImportInv, NEW p \in PrProcs, PrStep(p)
    PROVE  pr!Knows(p, s9[p])'
<1>1. CASE pr!Prepare(p)
  <2>1. PICK j : j = [pc |-> "prepared", repo |-> s1.repo, registered |-> s2] OBVIOUS
  <2>2. s9'[p] = j BY <1>1, <2>1, PrDoes DEF pr!Prepare
  <2>3. s1.repo \in pr!Repos /\ s2 \in pr!Repos /\ (s2 = "new" => s1.repo = "new")
    BY DEF pr!ImportInv
  <2>4. j \in pr!Preparing /\ j.pc = "prepared" BY <2>1, <2>3 DEF pr!Preparing
  <2>5. j \in pr!Job /\ pr!KnowsWorktree(j)' BY <2>4 DEF pr!Job, pr!KnowsWorktree
  <2>6. QED BY <2>2, <2>4, <2>5, VisitorKnows
<1>2. CASE pr!BeginImport(p)
  <2>1. PICK i : i = s9[p] OBVIOUS
  <2>2. i \in pr!Preparing BY <1>2, <2>1, PrKnown, PrJobs DEF pr!BeginImport
  <2>3. CASE pr!End(p) BY <2>3, PrEnds
  <2>4. PICK j : j = [pc |-> "records", repo |-> i.repo, mine |-> {i.registered, i.repo},
                      source |-> s1.source, moved |-> s1.moved]
    OBVIOUS
  <2>5. CASE s2 \in {i.registered, i.repo} /\ s1.repo = i.repo /\ s8' = p /\ pr!Do(p, j)
    <3>1. s9'[p] = j /\ s1' = s1 /\ s2' = s2 /\ s6' = s6
      BY <1>2, <2>5, PrDoes DEF pr!BeginImport, pr!world
    <3>2. /\ s1 \in [source : Sources, moved : BOOLEAN, repo : pr!Repos] /\ s2 \in pr!Repos
          /\ s2 = "new" => s1.repo = "new"
          /\ s6["new"] # None => s1.repo = "new"
      BY DEF pr!ImportInv, pr!RecordsAgree
    <3>3. j \in pr!Reading /\ j.pc = "records"
      <4>1. i.registered \in pr!Repos /\ i.repo \in pr!Repos BY <2>2 DEF pr!Preparing
      <4>2. s1.source \in Sources /\ s1.moved \in BOOLEAN BY <3>2
      <4>3. {i.registered, i.repo} \in SUBSET pr!Repos BY <4>1
      <4>4. QED BY <2>4, <4>1, <4>2, <4>3 DEF pr!Reading
    <3>4. j \in pr!Job BY <3>3 DEF pr!Job
    <3>5. "records" \in pr!Resolving /\ j.pc # "git" BY <3>3 DEF pr!Resolving
    <3>6. j.repo = s1.repo /\ (j.mine = {s2, j.repo} \/ (j.mine = pr!Repos /\ j.repo = "new"))
      <4>1. i.registered \in pr!Repos /\ i.repo \in pr!Repos BY <2>2 DEF pr!Preparing
      <4>2. j.repo = i.repo /\ j.mine = {i.registered, i.repo} /\ s1.repo = i.repo BY <2>4, <2>5
      <4>3. CASE i.registered = s2 BY <4>2, <4>3
      <4>4. CASE i.registered # s2
        <5>1. s2 = i.repo BY <2>5, <4>4
        <5>2. CASE i.repo = "new" BY <4>1, <4>2, <4>4, <5>1, <5>2, Two
        <5>3. CASE i.repo = "old"
          <6>1. i.registered = "new" BY <4>1, <4>4, <5>1, <5>3, Two
          <6>2. i.registered = "new" => i.repo = "new" BY <2>2 DEF pr!Preparing
          <6>3. QED BY <5>3, <6>1, <6>2, Two
        <5>4. QED BY <4>1, <5>2, <5>3, Two
      <4>5. QED BY <4>3, <4>4
    <3>7. pr!KnowsProject(j)' BY <3>1, <3>2, <3>6, Two DEF pr!KnowsProject
    <3>8. QED BY <2>5, <3>1, <3>3, <3>4, <3>5, <3>7, ResolverKnows
  <2>6. QED BY <1>2, <2>1, <2>3, <2>4, <2>5 DEF pr!BeginImport, pr!NamesProject, pr!ExpectedProject
<1>3. CASE pr!ReadRecords(p)
  <2>1. PICK i : i = s9[p] OBVIOUS
  <2>2. i \in pr!Reading /\ i.pc = "records" /\ pr!KnowsProject(i) /\ s8 = p
    BY <1>3, <2>1, PrKnown, PrJobs DEF pr!ReadRecords
  <2>3. PICK j : j = [pc |-> "branch", repo |-> i.repo, mine |-> i.mine,
                      source |-> i.source, moved |-> i.moved, seen |-> s6]
    OBVIOUS
  <2>4. s9'[p] = j /\ s1' = s1 /\ s2' = s2 /\ s6' = s6 /\ s8' = s8
    BY <1>3, <2>1, <2>3, PrDoes DEF pr!ReadRecords, pr!world
  <2>5. j \in pr!Branching /\ j.pc = "branch"
    BY <2>2, <2>3 DEF pr!Reading, pr!Branching, pr!ImportInv
  <2>6. j \in pr!Job BY <2>5 DEF pr!Job
  <2>7. "records" \in pr!Resolving /\ "branch" \in pr!Resolving /\ j.pc # "git"
    BY <2>5 DEF pr!Resolving
  <2>8. j.mine = i.mine /\ j.repo = i.repo BY <2>3
  <2>9. pr!KnowsProject(j)' BY <2>2, <2>4, <2>7, <2>8 DEF pr!KnowsProject
  <2>10. QED BY <2>2, <2>4, <2>5, <2>6, <2>7, <2>9, ResolverKnows
<1>4. CASE pr!ChooseBranch(p)
  <2>1. PICK i : i = s9[p] OBVIOUS
  <2>2. i \in pr!Branching /\ i.pc = "branch" /\ pr!KnowsProject(i) /\ s8 = p
    BY <1>4, <2>1, PrKnown, PrJobs DEF pr!ChooseBranch
  <2>3. CASE pr!End(p) BY <2>3, PrEnds
  <2>4. PICK br : br = pr!ImportBranchFromState(i.seen, i) OBVIOUS
  <2>5. i.seen \in pr!Records /\ i.repo \in pr!Repos /\ i.source \in Sources
    BY <2>2 DEF pr!Branching
  <2>6. br \in pr!LocalBranches BY <2>4, <2>5, BranchIs
  <2>7. PICK j : j = [pc |-> "update", repo |-> i.repo, mine |-> i.mine, source |-> i.source,
                      moved |-> i.moved, branch |-> br]
    OBVIOUS
  <2>8. CASE pr!Do(p, j) /\ s8' = s8
    <3>1. s9'[p] = j /\ s1' = s1 /\ s2' = s2 /\ s6' = s6
      BY <1>4, <2>8, PrDoes DEF pr!ChooseBranch, pr!world
    <3>2. j \in pr!Updating /\ j.pc = "update" BY <2>2, <2>6, <2>7 DEF pr!Updating, pr!Branching
    <3>3. j \in pr!Job BY <3>2 DEF pr!Job
    <3>4. "branch" \in pr!Resolving /\ "update" \in pr!Resolving /\ j.pc # "git"
      BY <3>2 DEF pr!Resolving
    <3>5. j.mine = i.mine /\ j.repo = i.repo BY <2>7
    <3>6. pr!KnowsProject(j)' BY <2>2, <3>1, <3>4, <3>5 DEF pr!KnowsProject
    <3>7. QED BY <2>2, <2>8, <3>1, <3>2, <3>3, <3>4, <3>6, ResolverKnows
  <2>9. QED BY <1>4, <2>1, <2>3, <2>4, <2>7, <2>8 DEF pr!ChooseBranch
<1>5. CASE pr!Decide(p)
  <2>1. PICK j : j = s9[p] OBVIOUS
  <2>2. j \in pr!Updating /\ j.pc = "update" /\ pr!KnowsProject(j) /\ s8 = p
    BY <1>5, <2>1, PrKnown, PrJobs DEF pr!Decide
  <2>3. s1' = s1 /\ s2' = s2 /\ s6' = s6 /\ s3' = s3 /\ s4' = s4
    BY <1>5 DEF pr!Decide, pr!world, pr!git
  <2>4. PICK found : found = pr!FindProvenance(s6, j.repo, j.mine) OBVIOUS
  <2>5. PICK r : r = CHOOSE x \in found : TRUE OBVIOUS
  <2>6. CASE pr!Fail(p) BY <2>6, PrEnds DEF pr!Fail
  <2>7. CASE s7' = p /\ s8' = s8 /\ pr!Do(p, [j EXCEPT !.pc = "git"])
    <3>1. PICK k : k = [j EXCEPT !.pc = "git"] OBVIOUS
    <3>2. k \in pr!Updating /\ k.pc = "git" /\ k.mine = j.mine /\ k.repo = j.repo
      BY <2>2, <3>1 DEF pr!Updating
    <3>3. s9'[p] = k BY <2>7, <3>1, PrDoes
    <3>4. "git" \in pr!Resolving /\ "update" \in pr!Resolving /\ k \in pr!Job
      BY <3>2 DEF pr!Resolving, pr!Job
    <3>5. pr!KnowsProject(k)' BY <2>2, <2>3, <3>2, <3>4 DEF pr!KnowsProject
    <3>6. QED BY <2>2, <2>7, <3>2, <3>3, <3>4, <3>5, ResolverKnows
  <2>8. CASE /\ found # {} /\ s7' = p /\ s8' = s8
             /\ pr!Do(p, [pc |-> "save", gen |-> s6[r].workspace.gen, made |-> FALSE,
                          branch |-> j.branch, next |-> pr!Replaced(found, j, pr!Recorded(s6[r],
                              j))])
    <3>1. r \in found BY <2>5, <2>8
    <3>2. s6 \in pr!Records /\ pr!RecordsAgree(s6) /\ j.repo \in pr!Repos /\ j.pc \in pr!Resolving
      BY <2>2 DEF pr!ImportInv, pr!Updating, pr!Resolving
    <3>3. r \in pr!Repos /\ s6[r] # None /\ s6[r] \in pr!Record BY <2>4, <3>1, <3>2, FoundIs
    <3>4. PICK w : w = pr!Recorded(s6[r], j) OBVIOUS
    <3>5. PICK ids : ids = pr!Identities(s6[r]) OBVIOUS
    <3>6. w = [workspace |-> s6[r].workspace, source |-> s6[r].source, repo |-> j.repo,
               aliases |-> pr!MergedAliases(ids, j.mine)]
      BY <3>4, <3>5 DEF pr!Recorded
    <3>7. pr!MergedAliases(ids, j.mine) \in {{}, pr!Repos}
      <4>1. ids \in SUBSET pr!Repos BY <3>3, <3>5, IdentitiesAre DEF pr!Record
      <4>2. j.mine \in SUBSET pr!Repos BY <2>2 DEF pr!Updating
      <4>3. QED BY <4>1, <4>2, MergedIs
    <3>8. w \in pr!Record /\ w.repo = j.repo /\ w.aliases = pr!MergedAliases(ids, j.mine) /\
        w.workspace = s6[r].workspace
      BY <3>2, <3>3, <3>6, <3>7 DEF pr!Record
    <3>9. PICK next : next = pr!Replaced(found, j, w) OBVIOUS
    <3>10. ids = {j.repo} \/ (\E x \in found : ids = pr!Identities(s6[x])) BY <3>1, <3>5
    <3>11. /\ next \in pr!Records /\ next[j.repo] = w
           /\ \A x \in pr!Repos \ {j.repo} : next[x] # None => next[x] = s6[x]
           /\ \A x \in pr!Repos : next[x] # None => next[x].repo = x
           /\ next["old"] # None => next["old"].aliases = {}
           /\ next["new"] # None => s1.repo = "new"
           /\ next["old"] # None /\ next["new"] # None => s2 = "new"
      <4>1. j.pc \in pr!Resolving /\ j.repo \in pr!Repos /\ pr!KnowsProject(j) BY <2>2, <3>2
      <4>2. found = pr!FindProvenance(s6, j.repo, j.mine) BY <2>4
      <4>3. ids = {j.repo} \/ (\E x \in found : ids = pr!Identities(s6[x])) BY <3>10
      <4>4. w \in pr!Record /\ w.repo = j.repo /\ w.aliases = pr!MergedAliases(ids, j.mine) BY <3>8
      <4>5. next = pr!Replaced(found, j, w) BY <3>9
      <4>6. Stores(j, found, ids, w, next) BY <4>1, <4>2, <4>3, <4>4, <4>5 DEF Stores
      <4>7. StoresWell(j, w, next) BY <4>6, StoresAgree
      <4>8. QED BY <4>7 DEF StoresWell
    <3>12. ASSUME NEW x \in pr!Repos, next[x] # None
           PROVE  \E y \in pr!Repos : s6[y] # None /\ next[x].workspace = s6[y].workspace
      BY <3>3, <3>8, <3>11, <3>12
    <3>13. pr!RecordsAgree(next)
      <4>1. ASSUME NEW x \in pr!Repos, next[x] # None
            PROVE  /\ next[x].workspace.gen <= s4
                   /\ next[x].workspace.gen \in pr!Live =>
                        s3[next[x].workspace.gen].import /\
                            pr!ReturnsToSource(next[x].workspace.gen)
        <5>1. PICK y \in pr!Repos : s6[y] # None /\ next[x].workspace = s6[y].workspace
          BY <3>12, <4>1
        <5>2. QED BY <3>2, <5>1 DEF pr!RecordsAgree
      <4>2. QED BY <3>11, <4>1 DEF pr!RecordsAgree
    <3>14. PICK g : g = s6[r].workspace.gen OBVIOUS
    <3>15. g \in pr!Generations /\ g <= s4
      BY <3>2, <3>3, <3>14 DEF pr!Record, pr!Workspace, pr!RecordsAgree
    <3>16. PICK k : k = [pc |-> "save", gen |-> g, made |-> FALSE, branch |-> j.branch,
        next |-> next] OBVIOUS
    <3>17. s9'[p] = k BY <2>8, <3>4, <3>9, <3>14, <3>16, PrDoes
    <3>18. k.pc = "save" /\ k \in pr!Storing
      BY <2>2, <3>11, <3>15, <3>16 DEF pr!Storing, pr!Updating
    <3>19. k \in pr!Job BY <3>18 DEF pr!Job
    <3>20. pr!RecordsAgree(next)'
      <4>1. TreesStay BY <2>3, TreesSame
      <4>2. QED BY <2>3, <3>11, <3>13, <4>1, RecordsStay
    <3>21. \A x \in pr!Repos : next[x] # None => pr!RecordedNow(next[x].workspace.gen)'
      BY <2>3, <3>12 DEF pr!RecordedNow
    <3>22. pr!RecordedNow(g)' BY <2>3, <3>3, <3>14 DEF pr!RecordedNow
    <3>23. next[j.repo] # None /\ next[j.repo].workspace.gen = g
      BY <3>8, <3>11, <3>14, Assumption DEF Assumption, WarmAssumption,
        ImportAssumption
    <3>24. k.next = next /\ k.gen = g /\ k.made = FALSE BY <3>16
    <3>25. pr!KnowsFile(k)'
      BY <2>3, <3>2, <3>15, <3>20, <3>21, <3>22, <3>23, <3>24 DEF pr!KnowsFile
    <3>26. pr!KnowsItsOwn(k)' BY <3>18, <3>24 DEF pr!KnowsItsOwn
    <3>27. QED BY <2>2, <2>8, <3>17, <3>18, <3>19, <3>25, <3>26, StorerKnows
  <2>9. QED BY <1>5, <2>1, <2>4, <2>5, <2>6, <2>7, <2>8 DEF pr!Decide
<1>6. CASE pr!ImportPullRequest(p)
  <2>1. PICK j : j = s9[p] OBVIOUS
  <2>2. j \in pr!Updating /\ j.pc = "git" /\ pr!KnowsProject(j) /\ s8 = p /\ s7 = p
    BY <1>6, <2>1, PrKnown, PrJobs DEF pr!ImportPullRequest
  <2>3. s1' = s1 /\ s2' = s2 /\ s6' = s6 BY <1>6 DEF pr!ImportPullRequest, pr!world
  <2>4. PICK found : found = pr!FindProvenance(s6, j.repo, j.mine) OBVIOUS
  <2>5. CASE pr!Fail(p) BY <2>5, PrEnds DEF pr!Fail
  <2>6. CASE \E g \in pr!Generations \cap {s4 + 1}, c \in pr!Routings :
               /\ pr!PushIsSafe(c)
               /\ s3' = [s3 EXCEPT ![g] = pr!ImportedTree(j, c)] /\ s4' = g
               /\ pr!Do(p, [pc |-> "save", gen |-> g, made |-> TRUE, branch |-> j.branch,
                            next |-> pr!Replaced(found, j, pr!NewRecord(j, g))])
               /\ s7' = s7 /\ s8' = s8
    <3>1. PICK g \in pr!Generations \cap {s4 + 1}, c \in pr!Routings :
               /\ pr!PushIsSafe(c)
               /\ s3' = [s3 EXCEPT ![g] = pr!ImportedTree(j, c)] /\ s4' = g
               /\ pr!Do(p, [pc |-> "save", gen |-> g, made |-> TRUE, branch |-> j.branch,
                            next |-> pr!Replaced(found, j, pr!NewRecord(j, g))])
               /\ s7' = s7 /\ s8' = s8
      BY <2>6
    <3>2. PICK t : t = pr!ImportedTree(j, c) OBVIOUS
    <3>3. /\ t \in pr!Tree /\ t.import /\ ~t.recorded /\ t.push \subseteq {<<"head", <<s>>>> :
              s \in Sources}
      BY <2>2, <3>1, <3>2, ImportedIs
    <3>4. g \in pr!Generations /\ g = s4 + 1 /\ s4 \in Nat BY <3>1 DEF pr!ImportInv
    <3>5. TreesStay /\ pr!Live' = pr!Live \cup {g} /\ s3'[g] = t
      BY <3>1, <3>2, <3>3, <3>4, TreeAdded
    <3>6. s6 \in pr!Records /\ pr!RecordsAgree(s6) /\ j.repo \in pr!Repos /\ j.pc \in pr!Resolving
      BY <2>2 DEF pr!ImportInv, pr!Updating, pr!Resolving
    <3>7. PICK w : w = pr!NewRecord(j, g) OBVIOUS
    <3>8. PICK ids : ids = {j.repo} OBVIOUS
    <3>9. w = [workspace |-> [gen |-> g, path |-> <<j.repo, j.branch>>, branch |-> j.branch],
               source |-> j.source, repo |-> j.repo, aliases |-> pr!MergedAliases(ids, j.mine)]
      BY <3>7, <3>8 DEF pr!NewRecord, pr!PathFor
    <3>10. pr!MergedAliases(ids, j.mine) \in {{}, pr!Repos}
      <4>1. ids \in SUBSET pr!Repos BY <3>6, <3>8
      <4>2. j.mine \in SUBSET pr!Repos BY <2>2 DEF pr!Updating
      <4>3. QED BY <4>1, <4>2, MergedIs
    <3>11. j.branch \in pr!LocalBranches /\ j.source \in Sources BY <2>2 DEF pr!Updating
    <3>12. w \in pr!Record /\ w.repo = j.repo /\ w.aliases = pr!MergedAliases(ids, j.mine) /\
        w.workspace.gen = g
      BY <3>4, <3>6, <3>9, <3>10, <3>11 DEF pr!Record, pr!Workspace
    <3>13. PICK next : next = pr!Replaced(found, j, w) OBVIOUS
    <3>14. /\ next \in pr!Records /\ next[j.repo] = w
           /\ \A x \in pr!Repos \ {j.repo} : next[x] # None => next[x] = s6[x]
           /\ \A x \in pr!Repos : next[x] # None => next[x].repo = x
           /\ next["old"] # None => next["old"].aliases = {}
           /\ next["new"] # None => s1.repo = "new"
           /\ next["old"] # None /\ next["new"] # None => s2 = "new"
      <4>1. j.pc \in pr!Resolving /\ j.repo \in pr!Repos /\ pr!KnowsProject(j) BY <2>2, <3>6
      <4>2. found = pr!FindProvenance(s6, j.repo, j.mine) BY <2>4
      <4>3. ids = {j.repo} \/ \E x \in found : ids = pr!Identities(s6[x]) BY <3>8
      <4>4. w \in pr!Record /\ w.repo = j.repo /\ w.aliases = pr!MergedAliases(ids, j.mine) BY <3>12
      <4>5. next = pr!Replaced(found, j, w) BY <3>13
      <4>6. Stores(j, found, ids, w, next) BY <4>1, <4>2, <4>3, <4>4, <4>5 DEF Stores
      <4>7. StoresWell(j, w, next) BY <4>6, StoresAgree
      <4>8. QED BY <4>7 DEF StoresWell
    <3>15. pr!RecordsAgree(s6)' BY <2>3, <3>5, <3>6, RecordsStay
    <3>16. pr!RecordsAgree(next)'
      <4>1. ASSUME NEW x \in pr!Repos, next[x] # None
            PROVE  /\ next[x].workspace.gen <= s4'
                   /\ next[x].workspace.gen \in pr!Live' =>
                        s3'[next[x].workspace.gen].import /\
                            pr!ReturnsToSource(next[x].workspace.gen)'
        <5>1. CASE x = j.repo
          <6>1. next[x].workspace.gen = g BY <3>12, <3>14, <5>1
          <6>2. pr!ReturnsToSource(g)' BY <3>3, <3>5 DEF pr!ReturnsToSource
          <6>3. g <= s4' BY <3>1, <3>4
          <6>4. QED BY <3>3, <3>5, <6>1, <6>2, <6>3
        <5>2. CASE x # j.repo
          <6>1. next[x] = s6[x] BY <3>14, <4>1, <5>2
          <6>2. QED BY <2>3, <3>15, <4>1, <6>1 DEF pr!RecordsAgree
        <5>3. QED BY <5>1, <5>2
      <4>2. QED BY <2>3, <3>14, <4>1 DEF pr!RecordsAgree
    <3>17. PICK k : k = [pc |-> "save", gen |-> g, made |-> TRUE, branch |-> j.branch,
        next |-> next] OBVIOUS
    <3>18. s9'[p] = k BY <3>1, <3>7, <3>13, <3>17, PrDoes
    <3>19. k.pc = "save" /\ k \in pr!Storing BY <3>4, <3>11, <3>14, <3>17 DEF pr!Storing
    <3>20. k \in pr!Job BY <3>19 DEF pr!Job
    <3>21. k.next = next /\ k.gen = g /\ k.made = TRUE BY <3>17
    <3>22. \A x \in pr!Repos : next[x] # None => next[x].workspace.gen = g \/
        pr!RecordedNow(next[x].workspace.gen)'
      BY <2>3, <3>12, <3>14 DEF pr!RecordedNow
    <3>23. next[j.repo] # None /\ next[j.repo].workspace.gen = g
      BY <3>12, <3>14, Assumption DEF Assumption, WarmAssumption, ImportAssumption
    <3>24. g <= s4' BY <3>1, <3>4
    <3>25. pr!KnowsFile(k)' BY <3>6, <3>16, <3>21, <3>22, <3>23, <3>24 DEF pr!KnowsFile
    <3>26. ~pr!RecordedNow(g)'
      <4>1. ASSUME NEW x \in pr!Repos, s6[x] # None PROVE s6[x].workspace.gen # g
        <5>1. s6[x].workspace.gen <= s4 BY <3>6, <4>1 DEF pr!RecordsAgree
        <5>2. ~(g <= s4) BY <3>4
        <5>3. QED BY <5>1, <5>2
      <4>2. QED BY <2>3, <4>1 DEF pr!RecordedNow
    <3>27. pr!KnowsItsOwn(k)' BY <3>3, <3>5, <3>21, <3>24, <3>26 DEF pr!KnowsItsOwn
    <3>28. QED BY <2>2, <3>1, <3>18, <3>19, <3>20, <3>25, <3>27, StorerKnows
  <2>7. QED BY <1>6, <2>1, <2>4, <2>5, <2>6 DEF pr!ImportPullRequest
<1>7. CASE pr!PreserveImport(p) BY <1>7, PrEnds DEF pr!PreserveImport, pr!Fail
<1>8. CASE pr!Save(p) BY <1>8, PrEnds DEF pr!Save, pr!Fail
<1>9. CASE pr!SaveFails(p)
  <2>1. PICK i : i = s9[p] OBVIOUS
  <2>2. i \in pr!Storing /\ i.pc = "save" /\ pr!KnowsItsOwn(i) /\ s8 = p
    BY <1>9, <2>1, PrKnown, PrJobs DEF pr!SaveFails
  <2>3. CASE pr!End(p) BY <2>3, PrEnds
  <2>4. PICK j : j = [pc |-> "rollback", gen |-> i.gen, branch |-> i.branch] OBVIOUS
  <2>5. CASE i.made /\ pr!Do(p, j) /\ s8' = s8
    <3>1. s9'[p] = j /\ s3' = s3 /\ s4' = s4 /\ s6' = s6
      BY <1>9, <2>5, PrDoes DEF pr!SaveFails, pr!git
    <3>2. j \in pr!Undoing /\ j.pc = "rollback" /\ j.gen = i.gen
      BY <2>2, <2>4 DEF pr!Storing, pr!Undoing
    <3>3. j \in pr!Job BY <3>2 DEF pr!Job
    <3>4. pr!KnowsFile(j)' BY <3>2 DEF pr!KnowsFile
    <3>5. pr!KnowsItsOwn(j)'
      <4>1. ~pr!RecordedNow(i.gen) /\ i.gen <= s4 /\ (i.gen \in pr!Live => s3[i.gen].import /\
          ~s3[i.gen].recorded)
        BY <2>2, <2>5 DEF pr!KnowsItsOwn
      <4>2. QED BY <3>1, <3>2, <4>1 DEF pr!KnowsItsOwn, pr!RecordedNow, pr!Live
    <3>6. QED BY <2>2, <2>5, <3>1, <3>2, <3>3, <3>4, <3>5, StorerKnows
  <2>6. QED BY <1>9, <2>1, <2>3, <2>4, <2>5 DEF pr!SaveFails
<1>10. CASE pr!Rollback(p) BY <1>10, PrEnds DEF pr!Rollback, pr!Fail
<1>11. CASE pr!BeginOpen(p)
  <2>1. PICK g \in pr!Live : pr!Do(p, [pc |-> "check", gen |-> g, path |-> s3[g].path])
    BY <1>11 DEF pr!BeginOpen
  <2>2. PICK j : j = [pc |-> "check", gen |-> g, path |-> s3[g].path] OBVIOUS
  <2>3. s9'[p] = j /\ s3' = s3 /\ s4' = s4 BY <1>11, <2>1, <2>2, PrDoes DEF pr!BeginOpen, pr!git
  <2>4. g \in pr!Generations /\ s3[g] \in pr!Tree /\ g <= s4 BY TreeIsThere
  <2>5. j \in pr!Opening /\ j.pc = "check" /\ j.gen = g /\ j.path = s3[g].path
    BY <2>2, <2>4 DEF pr!Opening, pr!Tree
  <2>6. j \in pr!Job BY <2>5 DEF pr!Job
  <2>7. pr!KnowsWorktree(j)' BY <2>3, <2>4, <2>5 DEF pr!KnowsWorktree
  <2>8. QED BY <2>3, <2>5, <2>6, <2>7, VisitorKnows
<1>12. CASE pr!RejectProtected(p)
  <2>1. PICK i : i = s9[p] OBVIOUS
  <2>2. i \in pr!Opening /\ i.pc = "check" /\ pr!KnowsWorktree(i)
    BY <1>12, <2>1, PrKnown, PrJobs DEF pr!RejectProtected
  <2>3. CASE pr!End(p) BY <2>3, PrEnds
  <2>4. CASE ~pr!Protects(i) /\ pr!Do(p, [i EXCEPT !.pc = "open"])
    <3>1. PICK j : j = [i EXCEPT !.pc = "open"] OBVIOUS
    <3>2. j \in pr!Opening /\ j.pc = "open" /\ j.gen = i.gen /\ j.path = i.path
      BY <2>2, <3>1 DEF pr!Opening
    <3>3. s9'[p] = j /\ s3' = s3 /\ s4' = s4 /\ s6' = s6 /\ s7 = None
      BY <1>12, <2>4, <3>1, PrDoes DEF pr!RejectProtected, pr!git
    <3>4. j \in pr!Job BY <3>2 DEF pr!Job
    <3>5. i.gen \in pr!Generations /\ i.gen <= s4 /\ (i.gen \in pr!Live => s3[i.gen].path = i.path)
      BY <2>2 DEF pr!Opening, pr!KnowsWorktree
    <3>6. pr!Live' = pr!Live BY <3>3 DEF pr!Live
    <3>7. ASSUME i.gen \in pr!Live PROVE ~pr!RecordedNow(i.gen)
      <4>1. i.gen \in pr!At(i.path) BY <3>5, <3>7 DEF pr!At
      <4>2. ~\E x \in {s6[r].workspace : r \in {r \in pr!Repos : s6[r] # None}} : x.gen = i.gen
        BY <2>4, <4>1 DEF pr!Protects
      <4>3. QED BY <4>2 DEF pr!RecordedNow
    <3>8. ~pr!Stores(i.gen)'
      <4>1. ASSUME NEW q \in PrProcs, s9'[q].pc = "save" PROVE FALSE
        <5>1. q # p BY <3>2, <3>3, <4>1
        <5>2. s9[q].pc = "save" BY <4>1, <5>1, ImportFrame
        <5>3. s7 = q BY <5>2, PrKnown
        <5>4. QED BY <3>3, <5>3, Assumption DEF Assumption, WarmAssumption,
          ImportAssumption, PrProcs, pr!Processes
      <4>2. QED BY <4>1 DEF pr!Stores, PrProcs
    <3>9. i.gen \in pr!Live => pr!IsUnrecorded(i.gen)'
      BY <3>3, <3>7, <3>8 DEF pr!IsUnrecorded, pr!RecordedNow
    <3>10. pr!KnowsWorktree(j)' BY <3>2, <3>3, <3>5, <3>6, <3>9 DEF pr!KnowsWorktree
    <3>11. QED BY <3>2, <3>3, <3>4, <3>10, VisitorKnows
  <2>5. QED BY <1>12, <2>1, <2>3, <2>4 DEF pr!RejectProtected
<1>13. CASE pr!Establish(p) BY <1>13, PrEnds DEF pr!Establish, pr!Fail
<1>14. CASE pr!BeginAttach(p)
  <2>1. PICK g \in pr!Live, x \in pr!Generations \cup {None} :
          pr!Do(p, [pc |-> "verify", path |-> s3[g].path, expected |-> x])
    <3>1. PICK g \in pr!Live, guarded \in BOOLEAN :
            pr!Do(p, [pc |-> "verify", path |-> s3[g].path,
                expected |-> IF guarded THEN g ELSE None])
      BY <1>14 DEF pr!BeginAttach
    <3>2. (IF guarded THEN g ELSE None) \in pr!Generations \cup {None} BY TreeIsThere
    <3>3. QED BY <3>1, <3>2
  <2>2. PICK j : j = [pc |-> "verify", path |-> s3[g].path, expected |-> x] OBVIOUS
  <2>3. s9'[p] = j BY <2>1, <2>2, PrDoes
  <2>4. s3[g] \in pr!Tree BY TreeIsThere
  <2>5. j \in pr!Attaching /\ j.pc = "verify" BY <2>2, <2>4 DEF pr!Attaching, pr!Tree
  <2>6. j \in pr!Job /\ pr!KnowsWorktree(j)' BY <2>5 DEF pr!Job, pr!KnowsWorktree
  <2>7. QED BY <2>3, <2>5, <2>6, VisitorKnows
<1>15. CASE pr!VerifyAttach(p)
  <2>1. PICK i : i = s9[p] OBVIOUS
  <2>2. i \in pr!Attaching BY <1>15, <2>1, PrKnown, PrJobs DEF pr!VerifyAttach
  <2>3. CASE pr!End(p) BY <2>3, PrEnds
  <2>4. CASE pr!Do(p, [i EXCEPT !.pc = "claim"])
    <3>1. PICK j : j = [i EXCEPT !.pc = "claim"] OBVIOUS
    <3>2. j \in pr!Attaching /\ j.pc = "claim" BY <2>2, <3>1 DEF pr!Attaching
    <3>3. s9'[p] = j BY <2>4, <3>1, PrDoes
    <3>4. j \in pr!Job /\ pr!KnowsWorktree(j)' BY <3>2 DEF pr!Job, pr!KnowsWorktree
    <3>5. QED BY <3>2, <3>3, <3>4, VisitorKnows
  <2>5. QED BY <1>15, <2>1, <2>3, <2>4 DEF pr!VerifyAttach
<1>16. CASE pr!ClaimAttach(p)
  <2>1. PICK i : i = s9[p] OBVIOUS
  <2>2. i \in pr!Attaching BY <1>16, <2>1, PrKnown, PrJobs DEF pr!ClaimAttach
  <2>3. CASE pr!End(p) BY <2>3, PrEnds
  <2>4. CASE /\ pr!Verified(i.path) /\ \A g \in pr!At(i.path) : i.expected \in {None, g}
             /\ s8' = p /\ pr!Do(p, [i EXCEPT !.pc = "establish"])
    <3>1. PICK j : j = [i EXCEPT !.pc = "establish"] OBVIOUS
    <3>2. j \in pr!Attaching /\ j.pc = "establish" /\ j.expected = i.expected
      BY <2>2, <3>1 DEF pr!Attaching
    <3>3. s9'[p] = j /\ s6' = s6 BY <1>16, <2>4, <3>1, PrDoes DEF pr!ClaimAttach
    <3>4. pr!Provenance(i.path) # {}
      <4>1. PICK X : X = pr!Provenance(i.path) OBVIOUS
      <4>2. pr!Cardinality(X) = 1 BY <2>4, <4>1 DEF pr!Verified
      <4>3. Cardinality(X) = 1 BY <4>2 DEF pr!Cardinality, Cardinality
      <4>4. Cardinality({}) = 0 BY FS_EmptySet
      <4>6. X # {} BY <4>3, <4>4
      <4>5. QED BY <4>1, <4>6
    <3>5. PICK r \in pr!Repos : s6[r] # None /\ s6[r].workspace.gen \in pr!At(i.path)
      BY <3>4 DEF pr!Provenance
    <3>6. i.expected = None \/ pr!RecordedNow(i.expected)' BY <2>4, <3>3, <3>5 DEF pr!RecordedNow
    <3>7. pr!KnowsWorktree(j)' BY <3>2, <3>6 DEF pr!KnowsWorktree
    <3>8. j \in pr!Job BY <3>2 DEF pr!Job
    <3>9. QED BY <2>4, <3>2, <3>3, <3>7, <3>8, VisitorKnows
  <2>5. QED BY <1>16, <2>1, <2>3, <2>4 DEF pr!ClaimAttach
<1>17. CASE pr!EstablishAttach(p) BY <1>17, PrEnds DEF pr!EstablishAttach, pr!Fail
<1>18. CASE pr!Die(p) BY <1>18, PrEnds DEF pr!Die, pr!Fail
<1>99. QED
  BY <1>1, <1>2, <1>3, <1>4, <1>5, <1>6, <1>7, <1>8, <1>9, <1>10, <1>11, <1>12, <1>13, <1>14,
    <1>15, <1>16, <1>17, <1>18 DEF PrStep

\* Only what is stored replaces a record,
LEMMA ImportLoses ==
    ASSUME Assumption, pr!ImportInv, NEW p \in PrProcs, PrStep(p)
    PROVE  pr!Save(p) \/ (s6' = s6 /\ s11' = s11 /\ \A g \in pr!Live' : s3'[g].recorded =>
        g \in pr!Live /\ s3[g].recorded)
<1>1. CASE pr!Prepare(p)
  <2>1. s6' = s6 /\ s11' = s11 /\ s9[p].pc # "save" BY <1>1 DEF pr!Prepare, pr!Idle
  <2>2. QED BY <2>1, ImportTrees
<1>2. CASE pr!BeginImport(p)
  <2>1. s6' = s6 /\ s11' = s11 /\ s9[p].pc # "save" BY <1>2 DEF pr!BeginImport, pr!Idle
  <2>2. QED BY <2>1, ImportTrees
<1>3. CASE pr!ReadRecords(p)
  <2>1. s6' = s6 /\ s11' = s11 /\ s9[p].pc # "save" BY <1>3 DEF pr!ReadRecords, pr!Idle
  <2>2. QED BY <2>1, ImportTrees
<1>4. CASE pr!ChooseBranch(p)
  <2>1. s6' = s6 /\ s11' = s11 /\ s9[p].pc # "save" BY <1>4 DEF pr!ChooseBranch, pr!Idle
  <2>2. QED BY <2>1, ImportTrees
<1>5. CASE pr!Decide(p)
  <2>1. s6' = s6 /\ s11' = s11 /\ s9[p].pc # "save" BY <1>5 DEF pr!Decide, pr!Idle
  <2>2. QED BY <2>1, ImportTrees
<1>6. CASE pr!ImportPullRequest(p)
  <2>1. s6' = s6 /\ s11' = s11 /\ s9[p].pc # "save" BY <1>6 DEF pr!ImportPullRequest, pr!Idle
  <2>2. QED BY <2>1, ImportTrees
<1>7. CASE pr!PreserveImport(p)
  <2>1. s6' = s6 /\ s11' = s11 /\ s9[p].pc # "save" BY <1>7 DEF pr!PreserveImport, pr!Idle
  <2>2. QED BY <2>1, ImportTrees
<1>8. CASE pr!Save(p) BY <1>8
<1>9. CASE pr!SaveFails(p)
  <2>1. s3' = s3 /\ s4' = s4 /\ s6' = s6 /\ s11' = s11 BY <1>9 DEF pr!SaveFails, pr!git
  <2>2. pr!Live' = pr!Live BY <2>1, TreesSame
  <2>3. QED BY <2>1, <2>2
<1>10. CASE pr!Rollback(p)
  <2>1. s6' = s6 /\ s11' = s11 /\ s9[p].pc # "save" BY <1>10 DEF pr!Rollback, pr!Idle
  <2>2. QED BY <2>1, ImportTrees
<1>11. CASE pr!BeginOpen(p)
  <2>1. s6' = s6 /\ s11' = s11 /\ s9[p].pc # "save" BY <1>11 DEF pr!BeginOpen, pr!Idle
  <2>2. QED BY <2>1, ImportTrees
<1>12. CASE pr!RejectProtected(p)
  <2>1. s6' = s6 /\ s11' = s11 /\ s9[p].pc # "save" BY <1>12 DEF pr!RejectProtected, pr!Idle
  <2>2. QED BY <2>1, ImportTrees
<1>13. CASE pr!Establish(p)
  <2>1. s6' = s6 /\ s11' = s11 /\ s9[p].pc # "save" BY <1>13 DEF pr!Establish, pr!Idle
  <2>2. QED BY <2>1, ImportTrees
<1>14. CASE pr!BeginAttach(p)
  <2>1. s6' = s6 /\ s11' = s11 /\ s9[p].pc # "save" BY <1>14 DEF pr!BeginAttach, pr!Idle
  <2>2. QED BY <2>1, ImportTrees
<1>15. CASE pr!VerifyAttach(p)
  <2>1. s6' = s6 /\ s11' = s11 /\ s9[p].pc # "save" BY <1>15 DEF pr!VerifyAttach, pr!Idle
  <2>2. QED BY <2>1, ImportTrees
<1>16. CASE pr!ClaimAttach(p)
  <2>1. s6' = s6 /\ s11' = s11 /\ s9[p].pc # "save" BY <1>16 DEF pr!ClaimAttach, pr!Idle
  <2>2. QED BY <2>1, ImportTrees
<1>17. CASE pr!EstablishAttach(p)
  <2>1. s6' = s6 /\ s11' = s11 /\ s9[p].pc # "save" BY <1>17 DEF pr!EstablishAttach, pr!Idle
  <2>2. QED BY <2>1, ImportTrees
<1>18. CASE pr!Die(p)
  <2>1. s3' = s3 /\ s4' = s4 /\ s6' = s6 /\ s11' = s11 BY <1>18 DEF pr!Die, pr!git
  <2>2. pr!Live' = pr!Live BY <2>1, TreesSame
  <2>3. QED BY <2>1, <2>2
<1>99. QED
  BY <1>1, <1>2, <1>3, <1>4, <1>5, <1>6, <1>7, <1>8, <1>9, <1>10, <1>11, <1>12, <1>13, <1>14,
    <1>15, <1>16, <1>17, <1>18 DEF PrStep

\* and only an open enters a worktree.
LEMMA ImportOpens ==
    ASSUME Assumption, pr!ImportInv, NEW p \in PrProcs, PrStep(p)
    PROVE  \A g \in s10' : g \in s10 \/ (s9[p].pc = "open" /\ g = s9[p].gen /\ g \in pr!Generations)
<1> USE DEF pr!At, pr!Live
<1>1. CASE pr!Prepare(p)
  BY <1>1 DEF pr!Prepare, pr!Do, pr!End, pr!Fail, pr!Unlock, pr!world, pr!git
<1>2. CASE pr!BeginImport(p)
  BY <1>2 DEF pr!BeginImport, pr!Do, pr!End, pr!Fail, pr!Unlock, pr!world, pr!git
<1>3. CASE pr!ReadRecords(p)
  BY <1>3 DEF pr!ReadRecords, pr!Do, pr!End, pr!Fail, pr!Unlock, pr!world, pr!git
<1>4. CASE pr!ChooseBranch(p)
  BY <1>4 DEF pr!ChooseBranch, pr!Do, pr!End, pr!Fail, pr!Unlock, pr!world, pr!git
<1>5. CASE pr!Decide(p) BY <1>5 DEF pr!Decide, pr!Do, pr!End, pr!Fail, pr!Unlock, pr!world, pr!git
<1>6. CASE pr!ImportPullRequest(p)
  BY <1>6 DEF pr!ImportPullRequest, pr!Do, pr!End, pr!Fail, pr!Unlock, pr!world, pr!git
<1>7. CASE pr!PreserveImport(p)
  BY <1>7 DEF pr!PreserveImport, pr!Do, pr!End, pr!Fail, pr!Unlock, pr!world, pr!git
<1>8. CASE pr!Save(p) BY <1>8 DEF pr!Save, pr!Do, pr!End, pr!Fail, pr!Unlock, pr!world, pr!git
<1>9. CASE pr!SaveFails(p)
  BY <1>9 DEF pr!SaveFails, pr!Do, pr!End, pr!Fail, pr!Unlock, pr!world, pr!git
<1>10. CASE pr!Rollback(p)
  BY <1>10 DEF pr!Rollback, pr!Do, pr!End, pr!Fail, pr!Unlock, pr!world, pr!git
<1>11. CASE pr!BeginOpen(p)
  BY <1>11 DEF pr!BeginOpen, pr!Do, pr!End, pr!Fail, pr!Unlock, pr!world, pr!git
<1>12. CASE pr!RejectProtected(p)
  BY <1>12 DEF pr!RejectProtected, pr!Do, pr!End, pr!Fail, pr!Unlock, pr!world, pr!git
<1>13. CASE pr!Establish(p)
  BY <1>13 DEF pr!Establish, pr!Do, pr!End, pr!Fail, pr!Unlock, pr!world, pr!git
<1>14. CASE pr!BeginAttach(p)
  BY <1>14 DEF pr!BeginAttach, pr!Do, pr!End, pr!Fail, pr!Unlock, pr!world, pr!git
<1>15. CASE pr!VerifyAttach(p)
  BY <1>15 DEF pr!VerifyAttach, pr!Do, pr!End, pr!Fail, pr!Unlock, pr!world, pr!git
<1>16. CASE pr!ClaimAttach(p)
  BY <1>16 DEF pr!ClaimAttach, pr!Do, pr!End, pr!Fail, pr!Unlock, pr!world, pr!git
<1>17. CASE pr!EstablishAttach(p)
  BY <1>17 DEF pr!EstablishAttach, pr!Do, pr!End, pr!Fail, pr!Unlock, pr!world, pr!git
<1>18. CASE pr!Die(p) BY <1>18 DEF pr!Die, pr!Do, pr!End, pr!Fail, pr!Unlock, pr!world, pr!git
<1>99. QED
  BY <1>1, <1>2, <1>3, <1>4, <1>5, <1>6, <1>7, <1>8, <1>9, <1>10, <1>11, <1>12, <1>13, <1>14,
    <1>15, <1>16, <1>17, <1>18 DEF PrStep

\* A step that leaves the files, the claim and the lock alone.
LEMMA InvAround ==
    ASSUME Assumption, pr!ImportInv, TreesStay,
           s1' \in [source : Sources, moved : BOOLEAN, repo : pr!Repos], s2' \in pr!Repos,
           s2' = "new" => s1'.repo = "new", s1.repo = "new" => s1'.repo = "new", s2 = "new" =>
               s2' = "new",
           s12' \in Nat, s6' \in pr!Records, pr!RecordsAgree(s6)', DOMAIN s9' = PrProcs,
           \A q \in PrProcs : pr!Knows(q, s9[q])',
           \A g \in pr!Live' : s3'[g].recorded => pr!RecordedNow(g)' \/ g \in s11',
           \A g \in s10' : g \in 1..s4 /\ (g \in pr!Live => pr!IsUnrecorded(g)'
                                           \/ g \notin pr!Live')
    PROVE  pr!ImportInv'
<1>1. DOMAIN s3' = pr!Generations /\ s4' \in 0..MaxMade /\ s4 <= s4' /\ s4 \in Nat
      /\ \A g \in pr!Live' : s3'[g] \in pr!Tree /\ g <= s4' /\ (g <= s4 => g \in pr!Live)
  BY DEF TreesStay, pr!ImportInv
<1>2. ASSUME NEW g \in s10' PROVE g \in 1..s4' /\ (g \in pr!Live' => pr!IsUnrecorded(g)')
  <2>1. g \in 1..s4 /\ (g \in pr!Live => pr!IsUnrecorded(g)' \/ g \notin pr!Live') OBVIOUS
  <2>2. g \in 1..s4' BY <1>1, <2>1
  <2>3. g \in pr!Live' => g \in pr!Live BY <1>1, <2>1
  <2>4. QED BY <2>1, <2>2, <2>3
<1>3. DOMAIN s9' = pr!Processes /\ \A q \in pr!Processes : pr!Knows(q, s9[q])' BY DEF PrProcs
<1>4. QED BY <1>1, <1>2, <1>3 DEF pr!ImportInv

\* What the user and the provider do changes no file.
LEMMA OutsideKeeps ==
    ASSUME Assumption, pr!ImportInv, TreesStay,
           s1' \in [source : Sources, moved : BOOLEAN, repo : pr!Repos], s2' \in pr!Repos,
           s2' = "new" => s1'.repo = "new", s1.repo = "new" => s1'.repo = "new", s2 = "new" =>
               s2' = "new",
           s2' = s2 \/ s8 = None,
           s6' = s6, s7' = s7, s8' = s8, s9' = s9, s10' = s10, s11' = s11, s12' = s12 + 1,
           \A g \in pr!Live' : s3'[g].recorded => g \in pr!Live /\ s3[g].recorded
    PROVE  pr!ImportInv'
<1>1. ASSUME NEW g PROVE pr!IsUnrecorded(g)' <=> pr!IsUnrecorded(g)
  BY DEF pr!IsUnrecorded, pr!RecordedNow, pr!Stores
<1>2. ASSUME NEW q \in PrProcs PROVE pr!Knows(q, s9[q])'
  <2>1. s8 = q => s2' = s2
    BY Assumption DEF Assumption, WarmAssumption, ImportAssumption, PrProcs,
      pr!Processes
  <2>2. s9'[q] = s9[q] /\ \A g \in 1..s4 : g \in pr!Live' /\ pr!IsUnrecorded(g) => pr!IsUnrecorded(g)'
    BY <1>1
  <2>3. QED BY <2>1, <2>2, ImportOther
<1>3. s6 \in pr!Records /\ pr!RecordsAgree(s6) /\ s12' \in Nat /\ DOMAIN s9' = PrProcs
  BY DEF pr!ImportInv, PrProcs
<1>4. pr!RecordsAgree(s6)' BY <1>3, RecordsStay
<1>5. \A g \in pr!Live' : s3'[g].recorded => pr!RecordedNow(g)' \/ g \in s11'
  BY DEF pr!ImportInv, pr!RecordedNow
<1>6. \A g \in s10' : g \in 1..s4 /\ (g \in pr!Live => pr!IsUnrecorded(g)' \/ g \notin pr!Live')
  BY <1>1 DEF pr!ImportInv
<1>7. QED BY <1>2, <1>3, <1>4, <1>5, <1>6, InvAround

\* Each step of a process keeps ImportInv.
LEMMA ImportInside ==
    ASSUME Assumption, pr!ImportInv, NEW p \in PrProcs, PrStep(p)
    PROVE  pr!ImportInv'
<1>1. TreesStay /\ \A g \in pr!Live' : s3'[g].recorded =>
         (g \in pr!Live /\ s3[g].recorded) \/ (s9[p].pc = "save" /\ g = s9[p].gen)
  BY ImportTrees
<1>2. /\ DOMAIN s9' = PrProcs /\ \A q \in PrProcs \ {p} : s9'[q] = s9[q]
      /\ s1' = s1 /\ s2' = s2 /\ s12' = s12
      /\ (s8' = s8 \/ (s8' = None /\ s8 = p) \/ (s8' = p /\ s8 = None))
      /\ (s7' = s7 \/ (s7' = None /\ s7 = p) \/ (s7' = p /\ s7 = None))
      /\ (s6' = s6 \/ (s9[p].pc = "save" /\ s6' = s9[p].next))
  BY ImportFrame
<1>3. \A g \in 1..s4 : pr!IsUnrecorded(g) => pr!IsUnrecorded(g)' BY StaysUnrecorded
<1>4. ASSUME NEW q \in PrProcs \ {p} PROVE pr!Knows(q, s9[q])'
  <2>1. q # None
    BY Assumption DEF Assumption, WarmAssumption, ImportAssumption, PrProcs,
      pr!Processes
  <2>2. (s8 = q => s8' = q) /\ (s7 = q => s7' = q) /\ s9'[q] = s9[q] BY <1>2, <2>1
  <2>3. s8 = q => s9[p].pc # "save" BY PrKnown
  <2>4. s8 = q => /\ s8' = q /\ s2' = s2 /\ s6' = s6
                  /\ \A g \in pr!Live' : s3'[g].recorded => g \in pr!Live /\ s3[g].recorded
    BY <1>1, <1>2, <2>2, <2>3
  <2>5. QED BY <1>1, <1>2, <1>3, <2>2, <2>4, ImportOther
<1>5. \A q \in PrProcs : pr!Knows(q, s9[q])' BY <1>4, OwnKnows
<1>6. s6' \in pr!Records /\ pr!RecordsAgree(s6)'
  <2>1. CASE s6' = s6
    <3>1. s6 \in pr!Records /\ pr!RecordsAgree(s6) BY DEF pr!ImportInv
    <3>2. PICK recs : recs = s6 OBVIOUS
    <3>3. pr!RecordsAgree(recs)' /\ s6' = recs BY <1>1, <1>2, <2>1, <3>1, <3>2, RecordsStay
    <3>4. QED BY <2>1, <3>1, <3>3
  <2>2. CASE s9[p].pc = "save" /\ s6' = s9[p].next
    <3>1. PICK recs : recs = s9[p].next OBVIOUS
    <3>2. s9[p] \in pr!Storing /\ pr!KnowsFile(s9[p]) BY <2>2, PrKnown, PrJobs
    <3>3. recs \in pr!Records /\ pr!RecordsAgree(recs)
      BY <2>2, <3>1, <3>2 DEF pr!Storing, pr!KnowsFile
    <3>4. pr!RecordsAgree(recs)' /\ s6' = recs BY <1>1, <1>2, <2>2, <3>1, <3>3, RecordsStay
    <3>5. QED BY <3>3, <3>4
  <2>3. QED BY <1>2, <2>1, <2>2
<1>7. ASSUME NEW g \in pr!Live', s3'[g].recorded PROVE pr!RecordedNow(g)' \/ g \in s11'
  <2>1. CASE s6' = s6 /\ s11' = s11 /\ \A h \in pr!Live' : s3'[h].recorded => h \in pr!Live /\
      s3[h].recorded
    <3>1. g \in pr!Live /\ s3[g].recorded BY <1>7, <2>1
    <3>2. QED BY <2>1, <3>1 DEF pr!ImportInv, pr!RecordedNow
  <2>2. CASE pr!Save(p)
    <3>1. PICK j : j = s9[p] OBVIOUS
    <3>2. j.pc = "save" /\ s6' = j.next /\ s11' = s11 \cup
             {h \in pr!Live : /\ \E r \in pr!Repos : s6[r] # None /\ s6[r].workspace.gen = h
                              /\ \A r \in pr!Repos : j.next[r] # None =>
                                  j.next[r].workspace.gen # h}
      BY <2>2, <3>1 DEF pr!Save
    <3>3. pr!KnowsFile(j) BY <3>1, PrKnown
    <3>4. CASE g = j.gen
      <4>1. \E r \in pr!Repos : j.next[r] # None /\ j.next[r].workspace.gen = j.gen
        BY <3>2, <3>3 DEF pr!KnowsFile
      <4>2. QED BY <3>2, <3>4, <4>1 DEF pr!RecordedNow
    <3>5. CASE g \in pr!Live /\ s3[g].recorded
      <4>1. pr!RecordedNow(g) \/ g \in s11 BY <3>5 DEF pr!ImportInv
      <4>2. CASE \E r \in pr!Repos : j.next[r] # None /\ j.next[r].workspace.gen = g
        BY <3>2, <4>2 DEF pr!RecordedNow
      <4>3. CASE \A r \in pr!Repos : j.next[r] # None => j.next[r].workspace.gen # g
        BY <3>2, <3>5, <4>1, <4>3 DEF pr!RecordedNow
      <4>4. QED BY <4>2, <4>3
    <3>6. QED BY <1>1, <1>7, <3>1, <3>4, <3>5
  <2>3. QED BY <2>1, <2>2, ImportLoses
<1>8. ASSUME NEW g \in s10'
      PROVE  g \in 1..s4 /\ (g \in pr!Live => pr!IsUnrecorded(g)' \/ g \notin pr!Live')
  <2>1. g \in 1..s4 /\ (g \in pr!Live => pr!IsUnrecorded(g))
    <3>1. CASE g \in s10 BY <3>1 DEF pr!ImportInv
    <3>2. CASE s9[p].pc = "open" /\ g = s9[p].gen /\ g \in pr!Generations
      <4>1. PICK j : j = s9[p] OBVIOUS
      <4>2. j.pc = "open" /\ g = j.gen /\ pr!KnowsWorktree(j) BY <3>2, <4>1, PrKnown
      <4>3. s4 \in Nat /\ g \in 1..MaxMade BY <3>2 DEF pr!Generations, pr!ImportInv
      <4>4. g <= s4 /\ (g \in pr!Live => pr!IsUnrecorded(g)) BY <4>2 DEF pr!KnowsWorktree
      <4>5. QED BY <4>3, <4>4
    <3>3. QED BY <3>1, <3>2, ImportOpens
  <2>2. QED BY <1>3, <2>1
<1>9. /\ s1 \in [source : Sources, moved : BOOLEAN, repo : pr!Repos] /\ s2 \in pr!Repos
      /\ s2 = "new" => s1.repo = "new"
      /\ s12 \in Nat
  BY DEF pr!ImportInv
<1>10. QED BY <1>1, <1>2, <1>5, <1>6, <1>7, <1>8, <1>9, InvAround

\* Nothing is imported at first.
LEMMA InitPr == ASSUME Assumption, pr!Init PROVE pr!ImportInv
<1>1. PICK repo \in pr!Repos : s1 = [source |-> CHOOSE s \in Sources : TRUE, moved |-> FALSE,
    repo |-> repo]
  BY DEF pr!Init
<1>2. (CHOOSE s \in Sources : TRUE) \in Sources
  BY Assumption DEF Assumption, PruneAssumption
<1>3. s1 \in [source : Sources, moved : BOOLEAN, repo : pr!Repos] BY <1>1, <1>2
<1>4. /\ s2 = "old" /\ s3 = [g \in pr!Generations |-> None] /\ s4 = 0 /\
          s6 = [r \in pr!Repos |-> None]
      /\ s9 = [q \in PrProcs |-> pr!Idle] /\ s10 = {} /\ s12 = 0
  BY DEF pr!Init, PrProcs
<1>5. s6 \in pr!Records /\ pr!RecordsAgree(s6) /\ pr!Live = {}
  BY <1>4, Two DEF pr!Records, pr!RecordsAgree, pr!Live
<1>6. ASSUME NEW q \in PrProcs PROVE pr!Knows(q, s9[q])
  <2>1. PICK j : j = pr!Idle BY DEF pr!Idle
  <2>2. j.pc = "idle" /\ j \in pr!Job /\ s9[q] = j BY <1>4, <2>1 DEF pr!Idle, pr!Job
  <2>3. "idle" \notin pr!Claiming \cup pr!Writing \cup pr!Resolving
    BY DEF pr!Claiming, pr!Writing, pr!Resolving
  <2>4. QED BY <2>2, <2>3 DEF pr!Knows, pr!KnowsProject, pr!KnowsFile, pr!KnowsItsOwn,
    pr!KnowsWorktree
<1>7. s4 \in 0..MaxMade /\ s12 \in Nat /\ s2 \in pr!Repos /\ s2 # "new"
  BY <1>4, Two, Assumption DEF Assumption, WarmAssumption, ImportAssumption
<1>8. QED BY <1>3, <1>4, <1>5, <1>6, <1>7 DEF pr!ImportInv, PrProcs

\* The user's Git, and what the provider and a registration do.
LEMMA PrUser ==
    ASSUME Assumption, pr!ImportInv,
           \/ \E g \in pr!Generations : pr!Switch(g) \/ pr!Commit(g) \/ \E x \in BOOLEAN :
               pr!RemoveTree(g, x)
           \/ \E g \in pr!Generations, br \in pr!LocalBranches : pr!AddTree(g, br)
           \/ pr!ProviderChanges \/ pr!Register
    PROVE  pr!ImportInv'
<1>1. /\ s6' = s6 /\ s7' = s7 /\ s8' = s8 /\ s9' = s9 /\ s10' = s10 /\ s11' = s11 /\ s12' = s12 + 1
  BY DEF pr!Switch, pr!Commit, pr!RemoveTree, pr!AddTree, pr!ProviderChanges, pr!Register, pr!Act
<1>2. /\ s1 \in [source : Sources, moved : BOOLEAN, repo : pr!Repos] /\ s2 \in pr!Repos
      /\ s2 = "new" => s1.repo = "new"
      /\ pr!Repos = {"old", "new"} /\ "old" # "new"
  BY Two DEF pr!ImportInv
<1>3. ASSUME NEW g \in pr!Generations, NEW x \in BOOLEAN, pr!RemoveTree(g, x) PROVE pr!ImportInv'
  <2>1. g \in pr!Live /\ s3' = [s3 EXCEPT ![g] = None] /\ s4' = s4 /\ s1' = s1 /\ s2' = s2
    BY <1>3 DEF pr!RemoveTree
  <2>2. TreesStay /\ pr!Live' = pr!Live \ {g} /\ \A h \in pr!Live' : s3'[h] = s3[h]
    BY <2>1, TreeEnded
  <2>3. QED BY <1>1, <1>2, <2>1, <2>2, OutsideKeeps
<1>4. ASSUME NEW g \in pr!Live, NEW t \in pr!Tree, t.path = s3[g].path, t.import = s3[g].import,
       t.push = s3[g].push,
             t.recorded = s3[g].recorded, s3' = [s3 EXCEPT ![g] = t], s4' = s4, s1' = s1, s2' = s2
      PROVE  pr!ImportInv'
  <2>1. TreesStay /\ pr!Live' = pr!Live /\ s3'[g] = t /\ \A h \in pr!Live \ {g} : s3'[h] = s3[h]
    BY <1>4, TreeChanged
  <2>2. \A h \in pr!Live' : s3'[h].recorded => h \in pr!Live /\ s3[h].recorded BY <1>4, <2>1
  <2>3. QED BY <1>1, <1>2, <1>4, <2>1, <2>2, OutsideKeeps
<1>5. ASSUME NEW g \in pr!Generations, pr!Switch(g) PROVE pr!ImportInv'
  <2>1. g \in pr!Live /\ s3' = [s3 EXCEPT ![g].branch = pr!Own] /\ s4' = s4 /\ s1' = s1 /\ s2' = s2
    BY <1>5 DEF pr!Switch
  <2>2. PICK i : i = s3[g] OBVIOUS
  <2>3. i \in pr!Tree BY <2>1, <2>2, TreeIsThere
  <2>4. PICK o : o = pr!Own OBVIOUS
  <2>5. o \in pr!LocalBranches BY <2>4 DEF pr!LocalBranches
  <2>6. PICK t : t = [i EXCEPT !.branch = o] OBVIOUS
  <2>7. t \in pr!Tree /\ t.path = i.path /\ t.import = i.import /\ t.push = i.push /\
      t.recorded = i.recorded
    BY <2>3, <2>5, <2>6 DEF pr!Tree
  <2>8. s3' = [s3 EXCEPT ![g] = t] BY <2>1, <2>2, <2>4, <2>6
  <2>9. QED BY <1>4, <2>1, <2>2, <2>7, <2>8
<1>6. ASSUME NEW g \in pr!Generations, pr!Commit(g) PROVE pr!ImportInv'
  <2>1. g \in pr!Live /\ s3' = [s3 EXCEPT ![g].clean = FALSE] /\ s4' = s4 /\ s1' = s1 /\ s2' = s2
    BY <1>6 DEF pr!Commit
  <2>2. PICK i : i = s3[g] OBVIOUS
  <2>3. i \in pr!Tree BY <2>1, <2>2, TreeIsThere
  <2>4. PICK t : t = [i EXCEPT !.clean = FALSE] OBVIOUS
  <2>5. t \in pr!Tree /\ t.path = i.path /\ t.import = i.import /\ t.push = i.push /\
      t.recorded = i.recorded
    BY <2>3, <2>4 DEF pr!Tree
  <2>6. s3' = [s3 EXCEPT ![g] = t] BY <2>1, <2>2, <2>4
  <2>7. QED BY <1>4, <2>1, <2>2, <2>5, <2>6
<1>7. ASSUME NEW g \in pr!Generations, NEW br \in pr!LocalBranches, pr!AddTree(g, br) PROVE
       pr!ImportInv'
  <2>1. PICK t : t = [path |-> <<"old", br>>, branch |-> br, clean |-> TRUE, import |-> FALSE,
                      recorded |-> FALSE, moved |-> FALSE, push |-> {}]
    OBVIOUS
  <2>2. s3' = [s3 EXCEPT ![g] = t] /\ g = s4 + 1 /\ s4' = g /\ s1' = s1 /\ s2' = s2
    BY <1>7, <2>1 DEF pr!AddTree, pr!PathFor
  <2>3. t \in pr!Tree /\ ~t.recorded BY <1>2, <2>1 DEF pr!Tree
  <2>4. TreesStay /\ pr!Live' = pr!Live \cup {g} /\ s3'[g] = t BY <2>2, <2>3, TreeAdded
  <2>5. \A h \in pr!Live : h # g => s3'[h] = s3[h] BY <2>2, TreeIsThere DEF pr!ImportInv
  <2>6. \A h \in pr!Live' : s3'[h].recorded => h \in pr!Live /\ s3[h].recorded BY <2>3, <2>4, <2>5
  <2>7. QED BY <1>1, <1>2, <2>2, <2>4, <2>6, OutsideKeeps
<1>8. ASSUME s3' = s3, s4' = s4 PROVE TreesStay /\ \A h \in pr!Live' : s3'[h].recorded => h \in
       pr!Live /\ s3[h].recorded
  BY <1>8, TreesSame
<1>9. CASE pr!ProviderChanges
  <2>1. s3' = s3 /\ s4' = s4 /\ s2' = s2 BY <1>9 DEF pr!ProviderChanges, pr!git
  <2>2. s1' \in [source : Sources, moved : BOOLEAN, repo : pr!Repos] /\ (s1.repo = "new" =>
      s1'.repo = "new")
    BY <1>2, <1>9 DEF pr!ProviderChanges
  <2>3. QED BY <1>1, <1>2, <1>8, <2>1, <2>2, OutsideKeeps
<1>10. CASE pr!Register
  <2>1. s3' = s3 /\ s4' = s4 /\ s1' = s1 /\ s8 = None /\ s2' = s1.repo /\ s2 # s1.repo
    BY <1>10 DEF pr!Register, pr!git
  <2>2. s2' \in pr!Repos /\ (s2' = "new" => s1'.repo = "new") /\ (s2 = "new" => s2' = "new")
    BY <1>2, <2>1
  <2>3. QED BY <1>1, <1>2, <1>8, <2>1, <2>2, OutsideKeeps
<1>11. QED BY <1>3, <1>5, <1>6, <1>7, <1>9, <1>10

\* The steps are those of a process, and of the user and the provider.
LEMMA PrSteps ==
    ASSUME pr!Next
    PROVE  \/ \E p \in PrProcs : PrStep(p)
           \/ \E g \in pr!Generations : pr!Switch(g) \/ pr!Commit(g) \/ \E x \in BOOLEAN :
               pr!RemoveTree(g, x)
           \/ \E g \in pr!Generations, br \in pr!LocalBranches : pr!AddTree(g, br)
           \/ pr!ProviderChanges \/ pr!Register
BY Zenon DEF pr!Next, PrStep, PrProcs, pr!Processes

\* ImportInv is inductive.
LEMMA NextPr == ASSUME Assumption, pr!ImportInv, pr!Next PROVE pr!ImportInv'
<1>1. CASE \E p \in PrProcs : PrStep(p) BY <1>1, ImportInside
<1>2. CASE \/ \E g \in pr!Generations : pr!Switch(g) \/ pr!Commit(g) \/ \E x \in BOOLEAN :
               pr!RemoveTree(g, x)
           \/ \E g \in pr!Generations, br \in pr!LocalBranches : pr!AddTree(g, br)
           \/ pr!ProviderChanges \/ pr!Register
  BY <1>2, PrUser
<1>3. QED BY <1>1, <1>2, PrSteps

\* It speaks of these variables only.
LEMMA StutterPr == ASSUME pr!ImportInv, UNCHANGED slots PROVE pr!ImportInv'
BY DEF slots, pr!ImportInv, pr!Knows, pr!KnowsProject, pr!KnowsFile, pr!KnowsItsOwn,
  pr!KnowsWorktree, pr!RecordsAgree, pr!RecordedNow, pr!IsUnrecorded, pr!Stores,
  pr!ReturnsToSource, pr!Live

\* Of the steps of the processes only a roll-back ends a worktree, the one it made.
LEMMA ImportEnds ==
    ASSUME Assumption, pr!ImportInv, NEW p \in PrProcs, PrStep(p), NEW g \in pr!Live,
           s3'[g] = None
    PROVE  pr!Rollback(p) /\ g = s9[p].gen
<1>a. s3[g] # None /\ None \notin pr!Tree /\ g <= s4 /\ s4 \in Nat /\ g \in pr!Generations /\
    DOMAIN s3 = pr!Generations
  BY TreeIsThere, Assumption DEF pr!Live, pr!ImportInv, Assumption, ImportAssumption
<1>b. s3' # s3 BY <1>a
<1>1. CASE pr!Prepare(p) BY <1>1, <1>b DEF pr!Prepare, pr!git
<1>2. CASE pr!BeginImport(p) BY <1>2, <1>b DEF pr!BeginImport, pr!git
<1>3. CASE pr!ReadRecords(p) BY <1>3, <1>b DEF pr!ReadRecords, pr!git
<1>4. CASE pr!ChooseBranch(p) BY <1>4, <1>b DEF pr!ChooseBranch, pr!git
<1>5. CASE pr!Decide(p) BY <1>5, <1>b DEF pr!Decide, pr!git
<1>6. CASE pr!ImportPullRequest(p)
  <2>1. PICK j : j = s9[p] OBVIOUS
  <2>2. \E h \in pr!Generations \cap {s4 + 1}, c \in pr!Routings :
      s3' = [s3 EXCEPT ![h] = pr!ImportedTree(j, c)]
    BY <1>6, <1>b, <2>1 DEF pr!ImportPullRequest, pr!git
  <2>3. PICK h, t : s3' = [s3 EXCEPT ![h] = t] /\ h = s4 + 1 BY <2>2
  <2>4. g # h BY <1>a, <2>3
  <2>5. QED BY <1>a, <2>3, <2>4
<1>7. CASE pr!PreserveImport(p)
  <2>1. PICK j : j = s9[p] OBVIOUS
  <2>2. \E h \in pr!Generations \cap {s4 + 1}, c \in pr!Routings :
      s3' = [s3 EXCEPT ![h] = pr!ImportedTree(j, c)]
    BY <1>7, <1>b, <2>1 DEF pr!PreserveImport, pr!git
  <2>3. PICK h, t : s3' = [s3 EXCEPT ![h] = t] /\ h = s4 + 1 BY <2>2
  <2>4. g # h BY <1>a, <2>3
  <2>5. QED BY <1>a, <2>3, <2>4
<1>8. CASE pr!Save(p)
  <2>1. PICK h : h = s9[p].gen OBVIOUS
  <2>2. h \in pr!Live /\ s3' = [s3 EXCEPT ![h].recorded = TRUE] BY <1>8, <1>b, <2>1 DEF pr!Save
  <2>3. PICK k : k = s3[h] OBVIOUS
  <2>4. k \in pr!Tree BY <2>2, <2>3, TreeIsThere
  <2>5. PICK t : t = [k EXCEPT !.recorded = TRUE] OBVIOUS
  <2>6. t \in pr!Tree BY <2>4, <2>5 DEF pr!Tree
  <2>7. s3' = [s3 EXCEPT ![h] = t] BY <2>2, <2>3, <2>5
  <2>8. s3'[g] = s3[g] \/ s3'[g] = t BY <1>a, <2>7
  <2>9. QED BY <1>a, <2>6, <2>8
<1>9. CASE pr!SaveFails(p) BY <1>9, <1>b DEF pr!SaveFails, pr!git
<1>10. CASE pr!Rollback(p)
  <2>1. PICK h : h = s9[p].gen OBVIOUS
  <2>2. s3' = [s3 EXCEPT ![h] = None] BY <1>10, <1>b, <2>1 DEF pr!Rollback, pr!git
  <2>3. g = h BY <1>a, <2>2
  <2>4. QED BY <1>10, <2>1, <2>3
<1>11. CASE pr!BeginOpen(p) BY <1>11, <1>b DEF pr!BeginOpen, pr!git
<1>12. CASE pr!RejectProtected(p) BY <1>12, <1>b DEF pr!RejectProtected, pr!git
<1>13. CASE pr!Establish(p) BY <1>13, <1>b DEF pr!Establish, pr!git
<1>14. CASE pr!BeginAttach(p) BY <1>14, <1>b DEF pr!BeginAttach, pr!git
<1>15. CASE pr!VerifyAttach(p) BY <1>15, <1>b DEF pr!VerifyAttach, pr!git
<1>16. CASE pr!ClaimAttach(p) BY <1>16, <1>b DEF pr!ClaimAttach, pr!git
<1>17. CASE pr!EstablishAttach(p) BY <1>17, <1>b DEF pr!EstablishAttach, pr!git
<1>18. CASE pr!Die(p) BY <1>18, <1>b DEF pr!Die, pr!git
<1>99. QED
  BY <1>1, <1>2, <1>3, <1>4, <1>5, <1>6, <1>7, <1>8, <1>9, <1>10, <1>11, <1>12, <1>13, <1>14,
    <1>15, <1>16, <1>17, <1>18 DEF PrStep

\* What no step may do, by ImportInv.
LEMMA ImportMoves ==
    ASSUME Assumption, pr!ImportInv, pr!Next
    PROVE  pr!ImportSteps
<1>1. pr!RollbacksTakeTheirOwn
  <2>1. ASSUME NEW g \in pr!Live, s12' = s12, s3'[g] = None
        PROVE  s3[g].import /\ s3[g].clean /\ ~pr!RecordedNow(g) /\ ~s3[g].recorded
    <3>1. CASE \E p \in PrProcs : PrStep(p)
      <4>1. PICK p \in PrProcs : PrStep(p) BY <3>1
      <4>2. pr!Rollback(p) /\ g = s9[p].gen BY <2>1, <4>1, ImportEnds
      <4>3. s9[p].pc = "rollback" BY <4>2 DEF pr!Rollback
      <4>4. s3[g].clean
        <5>1. s3[g] # None BY DEF pr!Live
        <5>2. s3' # s3 BY <2>1, <5>1
        <5>3. QED BY <4>2, <5>2 DEF pr!Rollback, pr!git
      <4>5. pr!KnowsItsOwn(s9[p]) BY PrKnown
      <4>6. QED BY <4>2, <4>3, <4>4, <4>5 DEF pr!KnowsItsOwn
    <3>2. CASE s12' = s12 + 1
      <4>1. s12 \in Nat BY DEF pr!ImportInv
      <4>2. QED BY <2>1, <3>2, <4>1
    <3>3. QED BY <3>1, <3>2, PrSteps DEF pr!Switch, pr!Commit, pr!RemoveTree, pr!AddTree,
      pr!ProviderChanges, pr!Register, pr!Act
  <2>2. QED BY <2>1 DEF pr!RollbacksTakeTheirOwn
<1>2. pr!GuardedAttachmentsAreExact
  <2>1. ASSUME NEW p \in Visitors, pr!EstablishAttach(p), pr!Ensures(s9[p])
        PROVE  pr!RecordedNow(s9[p].expected) /\ s3[s9[p].expected].import
    <3>1. PICK g : g = s9[p].expected OBVIOUS
    <3>2. s9[p].pc = "establish" /\ g \in pr!Live
      BY <2>1, <3>1 DEF pr!EstablishAttach, pr!Ensures, pr!At
    <3>3. pr!KnowsWorktree(s9[p]) BY PrKnown DEF PrProcs, pr!Processes
    <3>4. g # None
      BY <3>2, Assumption DEF pr!Live, pr!Generations, Assumption, ImportAssumption
    <3>5. pr!RecordedNow(g) BY <3>1, <3>2, <3>3, <3>4 DEF pr!KnowsWorktree
    <3>6. s3[g].import BY <3>2, <3>5 DEF pr!RecordedNow, pr!RecordsAgree, pr!ImportInv
    <3>7. QED BY <3>1, <3>5, <3>6
  <2>2. QED BY <2>1 DEF pr!GuardedAttachmentsAreExact
<1>3. QED BY <1>1, <1>2 DEF pr!ImportSteps

\* And what always holds.
LEMMA ImportsKept == ASSUME pr!ImportInv PROVE pr!ImportsAreKept
<1>1. pr!OpensAvoidImports BY DEF pr!OpensAvoidImports, pr!ImportInv, pr!IsUnrecorded
<1>2. pr!OneImportIsRecorded BY Two DEF pr!OneImportIsRecorded, pr!ImportInv, pr!RecordsAgree
<1>3. pr!PushesReturnToTheirSource
  BY DEF pr!PushesReturnToTheirSource, pr!ImportInv, pr!RecordsAgree, pr!ReturnsToSource
<1>4. QED BY <1>1, <1>2, <1>3 DEF pr!ImportsAreKept

\* However imports, opens and attachments are interleaved with each other, with
\* deaths, failures, the user's Git, the provider's renamings and re-registrations:
\* kwt open enters no worktree that has an import's record, imports of one pull
\* request converge while the project has its name, a push from a recorded import
\* returns to its branch, a roll-back takes only what the import made and nobody
\* recorded or changed, and an attachment that names a generation ensures the session
\* of that one (importBranch, RejectProtected, RollbackUnchanged, verifyPushRouting).
THEOREM ImportsStayProtected == ASSUME Assumption PROVE ServicesSpec => ImportsAreProtected
<1> DEFINE Inv == focus = "pr" => pr!ImportInv
<1>1. ServicesInit => Inv BY InitPr DEF ServicesInit
<1>2. Inv /\ [ServicesNext]_services => Inv'
  BY NextPr, StutterPr DEF ServicesNext, services, slots
<1>3. Inv => (focus = "pr" => pr!ImportsAreKept) BY ImportsKept
<1>4. Inv /\ [ServicesNext]_services => [focus = "pr" => pr!ImportSteps]_services
  BY ImportMoves DEF ServicesNext, services, slots
<1>5. QED BY <1>1, <1>2, <1>3, <1>4, PTL DEF ServicesSpec, ImportsAreProtected
=============================================================================
