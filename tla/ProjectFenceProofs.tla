------------------------- MODULE ProjectFenceProofs -------------------------
(***************************************************************************)
(* Proofs about ProjectFence, for any number of processes and operations:  *)
(* the types, that the registration an operation runs under stays, that    *)
(* ProjectFence implements ProjectAuthority, and that the live session of  *)
(* an imported worktree is the one on record.                              *)
(***************************************************************************)
EXTENDS ProjectFence, TLAPS

Waiting == {"transition", "fences", "confirm"}
Fenced == {"confirm"} \cup Inside \cup Removing

\* A registration whose identity no change of origin can touch while it is fenced.
Anchored(e) == Named(e) \/ ~RepointsAnytime

\* What holds of one process, whatever the others do: what it is there for,
\* which fences it wants and has, and what they keep from changing.
Sound(p) ==
    /\ pc[p] # "idle" => job[p].num \in 1..MaxOps
    /\ pc[p] = "observe" => job[p].kind \in Guarded
    /\ pc[p] \in Waiting => job[p].kind \in Guarded \cup {"remove", "register"}
    /\ pc[p] \in Inside => job[p].kind \in Guarded
    /\ pc[p] \in {"import", "save", "rollback"} => job[p].kind = "import"
    /\ pc[p] \in {"save", "session"} => job[p].rec \in Records
    /\ pc[p] \in Removing => job[p].kind = "remove"
    /\ job[p].kind = "import" => job[p].id \in Repositories
    /\ job[p].kind \in Guarded /\ pc[p] # "observe" => job[p].wanted = {job[p].id, PathIdentity}
    /\ job[p].kind = "remove" => job[p].wanted = {job[p].id}
    /\ pc[p] \in Fenced => job[p].wanted \subseteq Held(p)
    /\ pc[p] \in Inside \cup Removing /\ Anchored(job[p].reg) => job[p].id = Identity(job[p].reg)
    /\ pc[p] \in Inside => entry = job[p].reg \/ (entry = NoEntry /\ ~Anchored(job[p].reg))

IInv == TypeOK /\ \A p \in Procs : Sound(p)

\* What a step of p leaves to the others: their positions, jobs and fences; git's
\* origin; and the entry, if one of them runs under it and is anchored.
Frame(p) ==
    /\ \A q \in Procs \ {p} : pc'[q] = pc[q] /\ job'[q] = job[q] /\ Held(q)' = Held(q)
    /\ origin' = origin
    /\ \A q \in Procs \ {p} : pc[q] \in Inside =>
          entry' = entry \/ (entry' = NoEntry /\ ~Anchored(job[q].reg))

LEMMA OthersStaySound ==
    ASSUME IInv, NEW p \in Procs, Frame(p)
    PROVE  \A q \in Procs \ {p} : Sound(q)'
<1>1. TAKE q \in Procs \ {p}
<1>2. Sound(q) BY DEF IInv
<1>3. pc'[q] = pc[q] /\ job'[q] = job[q] /\ Held(q)' = Held(q) /\ origin' = origin
  BY DEF Frame
<1>4. pc[q] \in Inside => entry' = entry \/ (entry' = NoEntry /\ ~Anchored(job[q].reg))
  BY DEF Frame
<1>5. Identity(job[q].reg)' = Identity(job[q].reg) BY <1>3 DEF Identity
<1>6. Anchored(job[q].reg)' = Anchored(job[q].reg) BY <1>3 DEF Anchored, Named
<1>7. QED BY <1>2, <1>3, <1>4, <1>5, <1>6 DEF Sound

LEMMA InitIInv == ASSUME FenceAssumption, Init PROVE IInv
<1>1. NoEntry \in Registrations \cup {NoEntry} /\ NoRecord \in Records \cup {NoRecord}
  OBVIOUS
<1>2. NoJob \in Jobs
  BY <1>1, FenceAssumption DEF NoJob, Jobs, Identities, PathIdentity
<1>3. entry \in Registrations \cup {NoEntry}
  BY DEF Init, Registrations, Stamps
<1>4. record \in Records \cup {NoRecord}
  BY FenceAssumption DEF Init, Records, Repositories
<1>5. TypeOK
  BY <1>2, <1>3, <1>4, FenceAssumption DEF Init, TypeOK, Repositories, Holders
<1>6. ASSUME NEW p \in Procs PROVE Sound(p)
  BY DEF Init, Sound, NoJob, Inside, Removing, Fenced, Guarded, Waiting
<1>7. QED BY <1>5, <1>6 DEF IInv

LEMMA IdentityType ==
    ASSUME TypeOK, NEW e \in Registrations \cup {NoEntry}
    PROVE  /\ Identity(e) \in Identities
           /\ e # NoEntry => Identity(e) \in Repositories
  BY DEF TypeOK, Identity, Registrations, Identities, PathIdentity

\* An operation that ends leaves nothing to be said of it.
LEMMA EndStep ==
    ASSUME FenceAssumption, IInv, NEW p \in Procs, End(p)
    PROVE  /\ transition' \in Holders /\ store' \in Holders
           /\ fences' \in [Identities -> Holders]
           /\ ops' \in 0..MaxOps
           /\ pc' \in [Procs -> {"idle", "observe", "transition", "fences", "confirm"} \cup Inside \cup Removing]
           /\ job' \in [Procs -> Jobs]
           /\ Sound(p)'
           /\ \A q \in Procs \ {p} : pc'[q] = pc[q] /\ job'[q] = job[q] /\ Held(q)' = Held(q)
<1> USE DEF IInv, TypeOK, Holders
<1>1. NoJob \in Jobs
  BY FenceAssumption DEF NoJob, Jobs, Identities, PathIdentity
<1>2. pc' = [pc EXCEPT ![p] = "idle"] /\ job' = [job EXCEPT ![p] = NoJob] /\ fences' = Unfenced(p)
  BY DEF End, Goto
<1>3. job' \in [Procs -> Jobs] BY <1>1, <1>2
<1>4. /\ pc' \in [Procs -> {"idle", "observe", "transition", "fences", "confirm"} \cup Inside \cup Removing]
      /\ pc'[p] = "idle" /\ job'[p] = NoJob
  BY <1>2
<1>5. transition' \in Holders /\ store' \in Holders /\ fences' \in [Identities -> Holders] /\ ops' \in 0..MaxOps
  BY DEF End, WithoutTransition, WithoutStore, Unfenced
<1>6. Sound(p)'
  BY <1>4 DEF Sound, NoJob, Inside, Removing, Fenced, Guarded, Waiting
<1>7. ASSUME NEW q \in Procs \ {p} PROVE pc'[q] = pc[q] /\ job'[q] = job[q] /\ Held(q)' = Held(q)
  <2>1. pc'[q] = pc[q] /\ job'[q] = job[q] BY <1>2
  <2>2. q # Nobody BY FenceAssumption DEF FenceAssumption
  <2>3. ASSUME NEW i \in Identities PROVE fences'[i] = q <=> fences[i] = q
    BY <1>2, <2>2 DEF Unfenced
  <2>4. QED BY <2>1, <2>3 DEF Held
<1>8. QED BY <1>3, <1>4, <1>5, <1>6, <1>7

\* A step that ends its operation and leaves the registration alone.
LEMMA EndKeeps ==
    ASSUME FenceAssumption, IInv, NEW p \in Procs, End(p), UNCHANGED <<entry, origin>>,
           workspace' \in 0..MaxOps, sessions' \subseteq 1..MaxOps, record' \in Records \cup {NoRecord}
    PROVE  TypeOK' /\ Frame(p) /\ Sound(p)'
<1>1. TypeOK' BY EndStep DEF TypeOK, IInv
<1>2. Frame(p) BY EndStep DEF Frame
<1>3. QED BY <1>1, <1>2, EndStep

LEMMA FailStep ==
    ASSUME FenceAssumption, IInv, NEW p \in Procs, Fail(p)
    PROVE  TypeOK' /\ Frame(p) /\ Sound(p)'
<1>1. End(p) /\ UNCHANGED <<entry, origin>> BY DEF Fail, data
<1>2. workspace' \in 0..MaxOps /\ sessions' \subseteq 1..MaxOps /\ record' \in Records \cup {NoRecord}
  BY DEF Fail, data, IInv, TypeOK
<1>3. QED BY <1>1, <1>2, EndKeeps

LEMMA BeginStep ==
    ASSUME FenceAssumption, IInv, NEW p \in Procs, NEW f \in Jobs,
           NEW label \in {"transition", "observe"}, Begin(p, f, label),
           f.kind \in Guarded \cup {"remove", "register"},
           label = "observe" => f.kind \in Guarded,
           f.kind = "import" => f.id \in Repositories,
           f.kind \in Guarded /\ label # "observe" => f.wanted = {f.id, PathIdentity},
           f.kind = "remove" => f.wanted = {f.id}
    PROVE  TypeOK' /\ Frame(p) /\ Sound(p)'
<1> USE DEF IInv, TypeOK
<1>1. ops + 1 \in 1..MaxOps /\ ops' = ops + 1
  BY FenceAssumption DEF Begin, FenceAssumption
<1>2. DEFINE g == [f EXCEPT !.num = ops + 1]
<1>3. /\ g \in Jobs /\ g.num = ops + 1 /\ g.kind = f.kind /\ g.id = f.id
      /\ g.wanted = f.wanted
  BY <1>1, FenceAssumption DEF Jobs, FenceAssumption
<1>4. job' = [job EXCEPT ![p] = g] /\ pc' = [pc EXCEPT ![p] = label]
  BY DEF Begin, Goto
<1> HIDE DEF g
<1>5. job'[p] = g /\ pc'[p] = label /\ job' \in [Procs -> Jobs]
  BY <1>3, <1>4
<1>6. pc' \in [Procs -> {"idle", "observe", "transition", "fences", "confirm"} \cup Inside \cup Removing]
  BY <1>4
<1>7. UNCHANGED <<entry, origin, workspace, sessions, record, transition, fences, store>>
  BY DEF Begin, data, locks
<1>8. TypeOK' BY <1>1, <1>5, <1>6, <1>7
<1>9. Frame(p) BY <1>4, <1>7 DEF Frame, Held
<1>10. Sound(p)'
  BY <1>1, <1>3, <1>5 DEF Sound, Waiting, Inside, Removing, Fenced
<1>11. QED BY <1>8, <1>9, <1>10

\* A step of an operation behind its fences.
LEMMA InsideStep ==
    ASSUME FenceAssumption, IInv, NEW p \in Procs, NEW label \in Inside,
           NEW r \in Records \cup {NoRecord},
           pc[p] \in Inside, Goto(p, label),
           job' = job \/ job' = [job EXCEPT ![p].rec = r],
           label \in {"import", "save", "rollback"} => job[p].kind = "import",
           label \in {"save", "session"} => job'[p].rec \in Records,
           UNCHANGED <<entry, origin, transition, fences, ops>>,
           store' \in Holders, workspace' \in 0..MaxOps, sessions' \subseteq 1..MaxOps,
           record' \in Records \cup {NoRecord}
    PROVE  TypeOK' /\ Frame(p) /\ Sound(p)'
<1> USE DEF IInv, TypeOK
<1>1. pc' = [pc EXCEPT ![p] = label] BY DEF Goto
<1>2. /\ pc' \in [Procs -> {"idle", "observe", "transition", "fences", "confirm"} \cup Inside \cup Removing]
      /\ pc'[p] = label
  BY <1>1
<1>3. job' \in [Procs -> Jobs] BY DEF Jobs
<1>4. /\ job'[p].num = job[p].num /\ job'[p].kind = job[p].kind /\ job'[p].id = job[p].id
      /\ job'[p].reg = job[p].reg /\ job'[p].wanted = job[p].wanted
  BY DEF Jobs
<1>5. \A q \in Procs \ {p} : job'[q] = job[q] BY DEF Jobs
<1>6. TypeOK' BY <1>2, <1>3
<1>7. Frame(p) BY <1>1, <1>5 DEF Frame, Held
<1>8. Sound(p) OBVIOUS
<1>9. Identity(job[p].reg)' = Identity(job[p].reg) /\ Anchored(job[p].reg)' = Anchored(job[p].reg)
  BY <1>4 DEF Identity, Anchored, Named
<1>10. Held(p)' = Held(p) BY DEF Held
<1>11. pc[p] # "idle" /\ pc[p] # "observe" /\ pc'[p] # "observe" /\ pc'[p] \notin Removing
       /\ pc[p] \in Fenced /\ pc'[p] \notin Waiting
  BY <1>2 DEF Inside, Removing, Fenced, Waiting
<1>12. Sound(p)' BY <1>2, <1>4, <1>8, <1>9, <1>10, <1>11 DEF Sound
<1>13. QED BY <1>6, <1>7, <1>12

\* A step of a removal behind its fence.
LEMMA RemovingStep ==
    ASSUME FenceAssumption, IInv, NEW p \in Procs, NEW label \in Removing,
           NEW r \in Records \cup {NoRecord},
           pc[p] \in Removing, Goto(p, label),
           job' = job \/ job' = [job EXCEPT ![p].rec = r],
           UNCHANGED <<data, locks, ops>>
    PROVE  TypeOK' /\ Frame(p) /\ Sound(p)'
<1> USE DEF IInv, TypeOK, data, locks
<1>1. pc' = [pc EXCEPT ![p] = label] BY DEF Goto
<1>2. /\ pc' \in [Procs -> {"idle", "observe", "transition", "fences", "confirm"} \cup Inside \cup Removing]
      /\ pc'[p] = label
  BY <1>1
<1>3. job' \in [Procs -> Jobs] BY DEF Jobs
<1>4. /\ job'[p].num = job[p].num /\ job'[p].kind = job[p].kind /\ job'[p].id = job[p].id
      /\ job'[p].reg = job[p].reg /\ job'[p].wanted = job[p].wanted
  BY DEF Jobs
<1>5. \A q \in Procs \ {p} : job'[q] = job[q] BY DEF Jobs
<1>6. TypeOK' BY <1>2, <1>3
<1>7. Frame(p) BY <1>1, <1>5 DEF Frame, Held
<1>8. Sound(p) OBVIOUS
<1>9. Identity(job[p].reg)' = Identity(job[p].reg) /\ Anchored(job[p].reg)' = Anchored(job[p].reg)
  BY <1>4 DEF Identity, Anchored, Named
<1>10. Held(p)' = Held(p) BY DEF Held
<1>11. /\ pc[p] # "idle" /\ pc[p] # "observe" /\ pc'[p] # "observe" /\ pc'[p] \notin Inside
       /\ pc'[p] \notin {"import", "save", "rollback", "session"} /\ pc[p] \in Fenced /\ pc'[p] \notin Waiting
  BY <1>2 DEF Inside, Removing, Fenced, Waiting
<1>12. Sound(p)' BY <1>2, <1>4, <1>8, <1>9, <1>10, <1>11 DEF Sound
<1>13. QED BY <1>6, <1>7, <1>12

LEMMA StartsStep ==
    ASSUME FenceAssumption, IInv, NEW p \in Procs, Starts(p)
    PROVE  TypeOK' /\ Frame(p) /\ Sound(p)'
<1>1. entry \in Registrations \cup {NoEntry} /\ record \in Records \cup {NoRecord}
  BY DEF IInv, TypeOK
<1>2. Identity(entry) \in Identities /\ (entry # NoEntry => Identity(entry) \in Repositories)
  BY <1>1, IdentityType DEF IInv
<1>3. NoJob \in Jobs
  BY FenceAssumption DEF NoJob, Jobs, Identities, PathIdentity, FenceAssumption
<1>4. ASSUME NEW kind \in {"create", "import", "remove"}
      PROVE  /\ Observe(kind) \in Jobs
             /\ Observe(kind).kind = kind /\ Observe(kind).id = Identity(entry)
             /\ Observe(kind).wanted = {Identity(entry), PathIdentity}
  BY <1>1, <1>2, <1>3 DEF Observe, Jobs, NoJob, Guarded, Identities, PathIdentity
<1>5. CASE StartCreate(p)
  <2>1. "create" \in Guarded /\ "create" # "import" /\ "create" # "remove" BY DEF Guarded
  <2> HIDE DEF Observe
  <2>2. Begin(p, Observe("create"), "transition") BY <1>5 DEF StartCreate
  <2>3. QED BY <1>4, <2>1, <2>2, BeginStep
<1>6. CASE StartImport(p)
  <2>1. Begin(p, Observe("import"), "transition") /\ entry # NoEntry BY <1>6 DEF StartImport
  <2>2. "import" \in Guarded /\ "import" # "remove" BY DEF Guarded
  <2>3. QED BY <1>2, <1>4, <2>1, <2>2, BeginStep
<1>7. CASE StartRecorded(p)
  <2>1. PICK kind \in {"attach", "prune"} :
          Begin(p, [NoJob EXCEPT !.kind = kind, !.rec = record], "observe")
    BY <1>7 DEF StartRecorded
  <2>2. DEFINE f == [NoJob EXCEPT !.kind = kind, !.rec = record]
  <2>3. f \in Jobs /\ f.kind = kind BY <1>1, <1>3 DEF Jobs, NoJob, Guarded
  <2>4. kind \in Guarded /\ kind # "import" /\ kind # "remove" BY DEF Guarded
  <2> HIDE DEF f
  <2>5. Begin(p, f, "observe") BY <2>1 DEF f
  <2>6. QED BY <2>3, <2>4, <2>5, BeginStep
<1>8. CASE StartRemove(p)
  <2>1. DEFINE f == [Observe("remove") EXCEPT !.wanted = {Identity(entry)}]
  <2>2. Begin(p, f, "transition") BY <1>8 DEF StartRemove
  <2>3. Observe("remove") \in Jobs /\ Observe("remove").kind = "remove"
        /\ Observe("remove").id = Identity(entry)
    BY <1>4
  <2>4. f \in Jobs /\ f.kind = "remove" /\ f.id = Identity(entry) /\ f.wanted = {Identity(entry)}
    BY <2>3, <1>2 DEF Jobs
  <2> HIDE DEF f
  <2>5. "remove" \notin Guarded BY DEF Guarded
  <2>6. QED BY <2>2, <2>4, <2>5, BeginStep
<1>9. CASE StartRegister(p)
  <2>1. PICK repo \in 0..2 :
          Begin(p, [NoJob EXCEPT !.kind = "register", !.repo = repo], "transition")
    BY <1>9 DEF StartRegister
  <2>2. DEFINE f == [NoJob EXCEPT !.kind = "register", !.repo = repo]
  <2>3. f \in Jobs /\ f.kind = "register" BY <1>3 DEF Jobs, NoJob
  <2> HIDE DEF f
  <2>4. Begin(p, f, "transition") BY <2>1 DEF f
  <2>5. "register" \notin Guarded BY DEF Guarded
  <2>6. QED BY <2>3, <2>4, <2>5, BeginStep
<1>10. QED BY <1>5, <1>6, <1>7, <1>8, <1>9 DEF Starts

LEMMA ObserveRecordedStep ==
    ASSUME FenceAssumption, IInv, NEW p \in Procs, ObserveRecorded(p)
    PROVE  TypeOK' /\ Frame(p) /\ Sound(p)'
<1> USE DEF IInv, TypeOK
<1>1. DEFINE f == [Observe(job[p].kind) EXCEPT !.num = job[p].num, !.rec = job[p].rec]
<1>2. Identity(entry) \in Identities /\ (entry # NoEntry => Identity(entry) \in Repositories)
  BY IdentityType
<1>3. job[p] \in Jobs /\ Sound(p) /\ pc[p] = "observe" /\ entry # NoEntry
  BY DEF ObserveRecorded
<1>4. job[p].kind \in Guarded /\ job[p].num \in 1..MaxOps BY <1>3 DEF Sound
<1>5. /\ f \in Jobs /\ f.kind = job[p].kind /\ f.id = Identity(entry) /\ f.num = job[p].num
      /\ f.wanted = {Identity(entry), PathIdentity}
  <2>1. NoJob \in Jobs
    BY FenceAssumption DEF NoJob, Jobs, Identities, PathIdentity, FenceAssumption
  <2>2. DEFINE o == Observe(job[p].kind)
  <2>3. /\ o \in Jobs /\ o.kind = job[p].kind /\ o.id = Identity(entry)
        /\ o.wanted = {Identity(entry), PathIdentity}
    BY <1>2, <1>3, <2>1 DEF Observe, Jobs, NoJob, Identities, PathIdentity
  <2> HIDE DEF o
  <2>4. f = [o EXCEPT !.num = job[p].num, !.rec = job[p].rec] BY DEF o
  <2>5. job[p].num \in 0..MaxOps /\ job[p].rec \in Records \cup {NoRecord}
    BY <1>3 DEF Jobs
  <2>6. QED BY <2>3, <2>4, <2>5 DEF Jobs
<1>6. job' = [job EXCEPT ![p] = f] BY DEF ObserveRecorded
<1> HIDE DEF f
<1>7. job' \in [Procs -> Jobs] /\ job'[p] = f /\ \A q \in Procs \ {p} : job'[q] = job[q]
  BY <1>5, <1>6
<1>8. pc' = [pc EXCEPT ![p] = "transition"] /\ UNCHANGED <<data, locks, ops>>
  BY DEF ObserveRecorded, Goto
<1>9. /\ pc' \in [Procs -> {"idle", "observe", "transition", "fences", "confirm"} \cup Inside \cup Removing]
      /\ pc'[p] = "transition"
  BY <1>8
<1>10. TypeOK' BY <1>7, <1>8, <1>9 DEF data, locks
<1>11. Frame(p) BY <1>7, <1>8 DEF Frame, Held, data, locks
<1>12. Sound(p)'
  BY <1>2, <1>3, <1>4, <1>5, <1>7, <1>9 DEF Sound, Waiting, Inside, Removing, Fenced, Guarded
<1>13. QED BY <1>10, <1>11, <1>12

LEMMA TakeTransitionStep ==
    ASSUME FenceAssumption, IInv, NEW p \in Procs, TakeTransition(p)
    PROVE  TypeOK' /\ Frame(p) /\ Sound(p)'
<1> USE DEF IInv, TypeOK
<1>1. DEFINE w == IF job[p].wanted # {} THEN job[p].wanted ELSE TransitionIdentities(job[p].repo)
<1>2. job[p] \in Jobs /\ Sound(p) /\ pc[p] = "transition" BY DEF TakeTransition
<1>3. Identity(entry) \in Identities BY IdentityType
<1>4. TransitionIdentities(job[p].repo) \subseteq Identities
  BY <1>2, <1>3 DEF TransitionIdentities, Jobs, Identities, PathIdentity, Repositories
<1>5. w \subseteq Identities BY <1>2, <1>4 DEF Jobs
<1>6. job' = [job EXCEPT ![p].wanted = w] BY DEF TakeTransition
<1>7. job[p].kind \in Guarded \cup {"remove"} => w = job[p].wanted
  BY <1>2 DEF Sound
<1> HIDE DEF w
<1>8. job' \in [Procs -> Jobs] /\ \A q \in Procs \ {p} : job'[q] = job[q]
  BY <1>5, <1>6 DEF Jobs
<1>9. /\ job'[p].num = job[p].num /\ job'[p].kind = job[p].kind /\ job'[p].id = job[p].id
      /\ job'[p].reg = job[p].reg /\ job'[p].wanted = w
  BY <1>6 DEF Jobs
<1>10. pc' = [pc EXCEPT ![p] = "fences"] BY DEF TakeTransition, Goto
<1>11. /\ pc' \in [Procs -> {"idle", "observe", "transition", "fences", "confirm"} \cup Inside \cup Removing]
       /\ pc'[p] = "fences"
  BY <1>10
<1>12. UNCHANGED <<data, fences, store, ops>> /\ transition' \in Holders
  BY DEF TakeTransition, Holders
<1>13. TypeOK' BY <1>8, <1>11, <1>12 DEF data
<1>14. Frame(p) BY <1>8, <1>10, <1>12 DEF Frame, Held, data
<1>15. Sound(p)'
  BY <1>2, <1>7, <1>9, <1>11 DEF Sound, Waiting, Inside, Removing, Fenced, Guarded
<1>16. QED BY <1>13, <1>14, <1>15

LEMMA TakeFenceStep ==
    ASSUME FenceAssumption, IInv, NEW p \in Procs, TakeFence(p)
    PROVE  TypeOK' /\ Frame(p) /\ Sound(p)'
<1> USE DEF IInv, TypeOK
<1>1. PICK i \in job[p].wanted \ Held(p) :
        /\ fences[i] = Nobody
        /\ fences' = [fences EXCEPT ![i] = p]
        /\ Goto(p, IF job[p].wanted \subseteq Held(p) \cup {i} THEN "confirm" ELSE "fences")
  BY DEF TakeFence
<1>2. DEFINE label == IF job[p].wanted \subseteq Held(p) \cup {i} THEN "confirm" ELSE "fences"
<1>3. job[p] \in Jobs /\ i \in Identities /\ Sound(p) /\ pc[p] = "fences"
  BY <1>1 DEF Jobs, TakeFence
<1>4. p # Nobody BY FenceAssumption DEF FenceAssumption
<1>5. fences' \in [Identities -> Holders] BY <1>1, <1>3 DEF Holders
<1>6. Held(p)' = Held(p) \cup {i} BY <1>1, <1>3 DEF Held
<1>7. ASSUME NEW q \in Procs \ {p} PROVE Held(q)' = Held(q)
  <2>1. q # Nobody BY FenceAssumption DEF FenceAssumption
  <2>2. QED BY <1>1, <1>3, <2>1 DEF Held
<1>8. /\ pc' = [pc EXCEPT ![p] = label] /\ label \in {"confirm", "fences"}
      /\ label = "confirm" => job[p].wanted \subseteq Held(p)'
  BY <1>1, <1>6 DEF Goto
<1> HIDE DEF label
<1>9. /\ pc' \in [Procs -> {"idle", "observe", "transition", "fences", "confirm"} \cup Inside \cup Removing]
      /\ pc'[p] = label
  BY <1>8
<1>10. UNCHANGED <<data, transition, store, ops, job>> BY DEF TakeFence
<1>11. TypeOK' BY <1>5, <1>9, <1>10 DEF data
<1>12. Frame(p) BY <1>7, <1>8, <1>10 DEF Frame, data
<1>13. Sound(p)'
  BY <1>3, <1>8, <1>9, <1>10 DEF Sound, Waiting, Inside, Removing, Fenced, Guarded
<1>14. QED BY <1>11, <1>12, <1>13

LEMMA ConfirmStep ==
    ASSUME FenceAssumption, IInv, NEW p \in Procs, Confirm(p)
    PROVE  TypeOK' /\ Frame(p) /\ Sound(p)'
<1> USE DEF IInv, TypeOK
<1>1. DEFINE label == IF job[p].kind = "remove" THEN "view" ELSE "inside"
<1>2. /\ pc[p] = "confirm" /\ job[p].kind # "register" /\ Sound(p) /\ job[p] \in Jobs
      /\ entry = job[p].reg /\ job[p].id = Identity(job[p].reg)
  BY DEF Confirm, Confirmed, Matches
<1>3. pc' = [pc EXCEPT ![p] = label] /\ UNCHANGED <<data, fences, store, ops, job>> /\ transition' \in Holders
  BY DEF Confirm, Goto, Holders
<1>4. label \in Inside \cup Removing BY DEF Inside, Removing
<1>5. (label = "view" /\ job[p].kind = "remove") \/ (label = "inside" /\ job[p].kind # "remove")
  OBVIOUS
<1> HIDE DEF label
<1>6. /\ pc' \in [Procs -> {"idle", "observe", "transition", "fences", "confirm"} \cup Inside \cup Removing]
      /\ pc'[p] = label
  BY <1>3, <1>4
<1>7. TypeOK' BY <1>3, <1>6 DEF data
<1>8. Frame(p) BY <1>3 DEF Frame, Held, data
<1>9. /\ Identity(job[p].reg)' = Identity(job[p].reg) /\ Held(p)' = Held(p)
      /\ Anchored(job[p].reg)' = Anchored(job[p].reg)
  BY <1>3 DEF Identity, Held, data, Anchored, Named
<1>10. job[p].kind # "none"
  BY <1>2 DEF Sound, Waiting, Guarded
<1>11. Sound(p)'
  BY <1>2, <1>3, <1>5, <1>6, <1>9, <1>10 DEF Sound, Waiting, Inside, Removing, Fenced, Guarded, data, Jobs
<1>12. QED BY <1>7, <1>8, <1>11

\* Whoever replaces the entry holds the fence of the path, ...
LEMMA WriteStep ==
    ASSUME FenceAssumption, IInv, NEW p \in Procs, Write(p)
    PROVE  TypeOK' /\ Frame(p) /\ Sound(p)'
<1> USE DEF IInv
<1>1. End(p) /\ UNCHANGED <<origin, workspace, sessions, record>> BY DEF Write
<1>2. job[p] \in Jobs /\ Sound(p) /\ pc[p] = "confirm" BY DEF Write, TypeOK
<1>3. entry' \in Registrations
  BY <1>2 DEF Write, Registrations, Jobs
<1>4. TypeOK' BY <1>1, <1>3, EndStep DEF TypeOK
<1>5. PathIdentity \in Held(p)
  BY <1>2 DEF Write, TransitionIdentities, Sound, Fenced
<1>6. ASSUME NEW q \in Procs, q # p, pc[q] \in Inside PROVE FALSE
  <2>1. PathIdentity \in Held(q)
    BY <1>6 DEF Sound, Fenced, Inside
  <2>2. fences[PathIdentity] = p /\ fences[PathIdentity] = q BY <1>5, <2>1 DEF Held
  <2>3. QED BY <2>2, <1>6
<1>7. Frame(p) BY <1>1, <1>6, EndStep DEF Frame
<1>8. QED BY <1>1, <1>4, <1>7, EndStep

LEMMA WriteRetriesStep ==
    ASSUME FenceAssumption, IInv, NEW p \in Procs, WriteRetries(p)
    PROVE  TypeOK' /\ Frame(p) /\ Sound(p)'
<1> USE DEF IInv, TypeOK
<1>1. /\ pc' = [pc EXCEPT ![p] = "transition"] /\ job' = [job EXCEPT ![p].wanted = {}]
      /\ fences' = Unfenced(p) /\ transition' \in Holders /\ UNCHANGED <<data, store, ops>>
      /\ pc[p] = "confirm" /\ job[p].kind = "register" /\ Sound(p) /\ job[p] \in Jobs
  BY DEF WriteRetries, Goto, Holders
<1>2. job' \in [Procs -> Jobs] /\ \A q \in Procs \ {p} : job'[q] = job[q]
  BY <1>1 DEF Jobs
<1>3. job'[p].num = job[p].num /\ job'[p].kind = "register" BY <1>1 DEF Jobs
<1>4. /\ pc' \in [Procs -> {"idle", "observe", "transition", "fences", "confirm"} \cup Inside \cup Removing]
      /\ pc'[p] = "transition"
  BY <1>1
<1>5. fences' \in [Identities -> Holders] BY <1>1 DEF Unfenced, Holders
<1>6. ASSUME NEW q \in Procs \ {p} PROVE Held(q)' = Held(q)
  <2>1. q # Nobody BY FenceAssumption DEF FenceAssumption
  <2>2. ASSUME NEW i \in Identities PROVE fences'[i] = q <=> fences[i] = q
    BY <1>1, <2>1 DEF Unfenced
  <2>3. QED BY <2>2 DEF Held
<1>7. TypeOK' BY <1>1, <1>2, <1>4, <1>5 DEF data
<1>8. Frame(p) BY <1>1, <1>2, <1>6 DEF Frame, data
<1>9. Sound(p)'
  BY <1>1, <1>3, <1>4 DEF Sound, Waiting, Inside, Removing, Fenced, Guarded
<1>10. QED BY <1>7, <1>8, <1>9

\* ... and whoever removes it holds the fence of the identity it was observed
\* under, as does an operation that runs under the same entry.
LEMMA SwapStep ==
    ASSUME FenceAssumption, IInv, NEW p \in Procs, Swap(p)
    PROVE  TypeOK' /\ Frame(p) /\ Sound(p)'
<1> USE DEF IInv
<1>1. End(p) /\ UNCHANGED <<origin, workspace, sessions, record>> BY DEF Swap
<1>2. Sound(p) /\ pc[p] = "swap" BY DEF Swap
<1>3. entry' \in Registrations \cup {NoEntry} BY DEF Swap, TypeOK
<1>4. TypeOK' BY <1>1, <1>3, EndStep DEF TypeOK
<1>5. job[p].id \in Held(p) /\ (Anchored(job[p].reg) => job[p].id = Identity(job[p].reg))
  BY <1>2 DEF Sound, Fenced, Removing
<1>6. ASSUME NEW q \in Procs, q # p, pc[q] \in Inside
      PROVE  entry' = entry \/ (entry' = NoEntry /\ ~Anchored(job[q].reg))
  <2>1. SUFFICES ASSUME entry' # entry, Anchored(job[q].reg) PROVE FALSE
    BY DEF Swap
  <2>2. entry = job[p].reg BY <2>1 DEF Swap
  <2>3. entry = job[q].reg /\ job[q].id = Identity(job[q].reg) /\ job[q].id \in Held(q)
    BY <1>6, <2>1 DEF Sound, Fenced, Inside
  <2>4. job[p].id = job[q].id BY <1>5, <2>1, <2>2, <2>3
  <2>5. fences[job[p].id] = p /\ fences[job[p].id] = q BY <1>5, <2>3, <2>4 DEF Held
  <2>6. QED BY <2>5, <1>6
<1>7. Frame(p) BY <1>1, <1>6, EndStep DEF Frame
<1>8. QED BY <1>1, <1>4, <1>7, EndStep

LEMMA RollbackStep ==
    ASSUME FenceAssumption, IInv, NEW p \in Procs, Rollback(p)
    PROVE  TypeOK' /\ Frame(p) /\ Sound(p)'
<1>1. End(p) /\ UNCHANGED <<entry, origin, sessions, record>> BY DEF Rollback
<1>2. workspace' \in 0..MaxOps BY FenceAssumption DEF Rollback, IInv, TypeOK, FenceAssumption
<1>3. sessions' \subseteq 1..MaxOps /\ record' \in Records \cup {NoRecord}
  BY <1>1 DEF IInv, TypeOK
<1>4. QED BY <1>1, <1>2, <1>3, EndKeeps

LEMMA GuardedStep ==
    ASSUME FenceAssumption, IInv, NEW p \in Procs,
           \/ ImportLocks(p) \/ ImportExisting(p) \/ ImportCreates(p) \/ Save(p) \/ SaveFails(p)
           \/ VerifyAttach(p) \/ StartSession(p)
           \/ PruneProbes(p) \/ PruneOwns(p) \/ PruneRemoves(p) \/ Forget(p)
    PROVE  TypeOK' /\ Frame(p) /\ Sound(p)'
<1> USE DEF Inside
<1>1. /\ store \in Holders /\ workspace \in 0..MaxOps /\ sessions \subseteq 1..MaxOps
      /\ record \in Records \cup {NoRecord} /\ NoRecord \in Records \cup {NoRecord}
      /\ p \in Holders /\ Nobody \in Holders
      /\ job[p] \in Jobs /\ job[p].rec \in Records \cup {NoRecord} /\ 0 \in 0..MaxOps
  BY FenceAssumption DEF IInv, TypeOK, Holders, Jobs, FenceAssumption
<1>2. Sound(p) BY DEF IInv
<1>3. CASE ImportLocks(p)
  BY <1>1, <1>3, InsideStep DEF ImportLocks, data
<1>4. CASE ImportExisting(p)
  <2>1. job[p].id \in Repositories BY <1>2, <1>4 DEF ImportExisting, Sound
  <2>2. PICK known \in KnownTo(p) : record' = [record EXCEPT !.aliases = @ \cup known]
    BY <1>4 DEF ImportExisting
  <2>3. known \subseteq Repositories BY <2>1, <2>2 DEF KnownTo
  <2>4. record \in Records BY <1>1, <1>4 DEF ImportExisting, Recorded
  <2>5. record' \in Records \cup {NoRecord} BY <2>2, <2>3, <2>4 DEF Records
  <2>6. /\ pc[p] \in Inside /\ "session" \in Inside /\ Goto(p, "session")
        /\ job' = [job EXCEPT ![p].rec = record'] /\ store' \in Holders
        /\ UNCHANGED <<entry, origin, workspace, sessions, transition, fences, ops>>
    BY <1>1, <1>4 DEF ImportExisting
  <2>7. record' \in Records /\ job'[p].rec = record'
    BY <1>1, <2>2, <2>3, <2>4, <2>6 DEF Records, Jobs, IInv, TypeOK
  <2>8. QED BY <1>1, <2>5, <2>6, <2>7, InsideStep
<1>5. CASE ImportCreates(p)
  <2>1. job[p].id \in Repositories /\ job[p].num \in 1..MaxOps /\ job[p].kind = "import"
    BY <1>2, <1>5 DEF ImportCreates, Sound
  <2>2. PICK known \in KnownTo(p) :
          job' = [job EXCEPT ![p].rec = [aliases |-> known, gen |-> job[p].num]]
    BY <1>5 DEF ImportCreates
  <2>3. known \subseteq Repositories BY <2>1, <2>2 DEF KnownTo
  <2>4. [aliases |-> known, gen |-> job[p].num] \in Records \cup {NoRecord}
    BY <2>1, <2>3 DEF Records
  <2>5. /\ pc[p] \in Inside /\ "save" \in Inside /\ Goto(p, "save")
        /\ workspace' \in 0..MaxOps
        /\ UNCHANGED <<entry, origin, sessions, record, transition, fences, store, ops>>
    BY <1>5, <2>1 DEF ImportCreates, locks
  <2>6. job'[p].rec \in Records BY <1>1, <2>1, <2>2, <2>3 DEF Records, Jobs, IInv, TypeOK
  <2>7. QED BY <1>1, <2>1, <2>2, <2>4, <2>5, <2>6, InsideStep
<1>6. CASE Save(p)
  <2>1. job' = job /\ job[p].rec \in Records BY <1>2, <1>6 DEF Save, Sound
  <2>2. QED BY <1>1, <1>6, <2>1, InsideStep DEF Save
<1>7. CASE SaveFails(p)
  <2>1. job[p].kind = "import" BY <1>2, <1>7 DEF SaveFails, Sound
  <2>2. QED BY <1>1, <1>7, <2>1, InsideStep DEF SaveFails, data
<1>8. CASE VerifyAttach(p)
  <2>1. record \in Records /\ job' = [job EXCEPT ![p].rec = record]
    BY <1>1, <1>8 DEF VerifyAttach, Recorded
  <2>2. job'[p].rec \in Records BY <1>1, <2>1 DEF Jobs, IInv, TypeOK
  <2>3. QED BY <1>1, <1>8, <2>1, <2>2, InsideStep DEF VerifyAttach, data, locks
<1>9. CASE StartSession(p)
  <2>1. job[p].rec \in Records /\ job[p].rec.gen = workspace
    BY <1>2, <1>9 DEF StartSession, Sound
  <2>2. sessions' \subseteq 1..MaxOps BY <1>1, <1>9, <2>1 DEF StartSession, Records
  <2>3. QED BY <1>1, <1>9, <2>2, InsideStep DEF StartSession, locks
<1>10. CASE PruneProbes(p)
  BY <1>1, <1>10, InsideStep DEF PruneProbes, data, locks
<1>11. CASE PruneOwns(p)
  BY <1>1, <1>11, InsideStep DEF PruneOwns, data, locks
<1>12. CASE PruneRemoves(p)
  BY <1>1, <1>12, InsideStep DEF PruneRemoves, locks
<1>13. CASE Forget(p)
  BY <1>1, <1>13, InsideStep DEF Forget, locks
<1>14. QED BY <1>3, <1>4, <1>5, <1>6, <1>7, <1>8, <1>9, <1>10, <1>11, <1>12, <1>13

LEMMA RemovalStep ==
    ASSUME FenceAssumption, IInv, NEW p \in Procs, View(p) \/ ProbeAbsent(p)
    PROVE  TypeOK' /\ Frame(p) /\ Sound(p)'
<1>1. record \in Records \cup {NoRecord} BY DEF IInv, TypeOK
<1>2. CASE View(p)
  BY <1>1, <1>2, RemovingStep DEF View, Removing
<1>3. CASE ProbeAbsent(p)
  BY <1>1, <1>3, RemovingStep DEF ProbeAbsent, Removing
<1>4. QED BY <1>2, <1>3

LEMMA CommandStep ==
    ASSUME FenceAssumption, IInv, NEW p \in Procs,
           Starts(p) \/ Step(p) \/ GiveUp(p) \/ Crash(p)
    PROVE  TypeOK' /\ Frame(p) /\ Sound(p)'
<1>1. CASE Starts(p) BY <1>1, StartsStep
<1>2. CASE GiveUp(p) \/ Crash(p)
  <2>1. Fail(p) BY <1>2 DEF GiveUp, Crash
  <2>2. QED BY <2>1, FailStep
<1>3. CASE Step(p)
  <2>1. CASE ObserveRecorded(p) BY <2>1, ObserveRecordedStep
  <2>2. CASE TakeTransition(p) BY <2>2, TakeTransitionStep
  <2>3. CASE TakeFence(p) BY <2>3, TakeFenceStep
  <2>4. CASE Confirm(p) BY <2>4, ConfirmStep
  <2>5. CASE Write(p) BY <2>5, WriteStep
  <2>6. CASE WriteRetries(p) BY <2>6, WriteRetriesStep
  <2>7. CASE Rollback(p) BY <2>7, RollbackStep
  <2>8. CASE Swap(p) BY <2>8, SwapStep
  <2>9. CASE \/ ImportLocks(p) \/ ImportExisting(p) \/ ImportCreates(p) \/ Save(p) \/ SaveFails(p)
             \/ VerifyAttach(p) \/ StartSession(p)
             \/ PruneProbes(p) \/ PruneOwns(p) \/ PruneRemoves(p) \/ Forget(p)
    BY <2>9, GuardedStep
  <2>10. CASE View(p) \/ ProbeAbsent(p) BY <2>10, RemovalStep
  <2>11. CASE \/ NotExpected(p) \/ Refused(p) \/ NotConfirmed(p) \/ CreateInside(p) \/ ImportFails(p)
              \/ AttachFails(p) \/ NoSession(p) \/ Leave(p) \/ PruneRefused(p)
              \/ PruneDisowned(p) \/ PruneFails(p) \/ ViewRefused(p) \/ ProbeRefused(p)
    <3>1. Fail(p)
      BY <2>11 DEF NotExpected, Refused, NotConfirmed, CreateInside, ImportFails, AttachFails,
                   NoSession, Leave, PruneRefused, PruneDisowned, PruneFails, ViewRefused, ProbeRefused
    <3>2. QED BY <3>1, FailStep
  <2>12. QED
    BY <1>3, <2>1, <2>2, <2>3, <2>4, <2>5, <2>6, <2>7, <2>8, <2>9, <2>10, <2>11 DEF Step
<1>4. QED BY <1>1, <1>2, <1>3

LEMMA OutsideStep ==
    ASSUME FenceAssumption, IInv, Outside
    PROVE  IInv'
<1> USE DEF IInv
<1>1. CASE SessionEnds \/ DeleteWorkspace
  <2>1. /\ UNCHANGED <<entry, origin, record, locks, ops, pc, job>>
        /\ workspace' \in 0..MaxOps /\ sessions' \subseteq 1..MaxOps
    <3>1. workspace \in 0..MaxOps /\ sessions \subseteq 1..MaxOps /\ 0 \in 0..MaxOps
      BY FenceAssumption DEF TypeOK, FenceAssumption
    <3>2. CASE SessionEnds BY <3>1, <3>2 DEF SessionEnds
    <3>3. CASE DeleteWorkspace BY <3>1, <3>3 DEF DeleteWorkspace
    <3>4. QED BY <1>1, <3>2, <3>3
  <2>2. TypeOK' BY <2>1 DEF TypeOK, locks
  <2>3. ASSUME NEW p \in Procs PROVE Sound(p)'
    BY <2>1 DEF Sound, Held, Identity, locks, Anchored, Named
  <2>4. QED BY <2>2, <2>3
<1>2. CASE Repoint
  <2>1. /\ RepointsAnytime \/ \A i \in Identities : fences[i] = Nobody
        /\ UNCHANGED <<entry, workspace, sessions, record, locks, pc, job>>
        /\ origin' \in Repositories /\ ops' \in 0..MaxOps
    BY <1>2, FenceAssumption DEF Repoint, TypeOK, FenceAssumption
  <2>2. TypeOK' BY <2>1 DEF TypeOK, locks
  <2>3. ASSUME NEW p \in Procs PROVE Sound(p)'
    <3>1. Sound(p) /\ p # Nobody BY FenceAssumption DEF FenceAssumption
    <3>2. /\ Held(p)' = Held(p) /\ Anchored(job[p].reg)' = Anchored(job[p].reg)
          /\ Named(job[p].reg) => Identity(job[p].reg)' = Identity(job[p].reg)
      BY <2>1 DEF Held, locks, Anchored, Named, Identity
    <3>3. CASE pc[p] \in Inside \cup Removing /\ Anchored(job[p].reg) /\ ~Named(job[p].reg)
      <4>1. Held(p) = {} BY <2>1, <3>1, <3>3 DEF Held, Anchored
      <4>2. QED BY <3>1, <3>3, <4>1 DEF Sound, Fenced, Inside, Removing, Guarded
    <3>4. CASE ~(pc[p] \in Inside \cup Removing /\ Anchored(job[p].reg) /\ ~Named(job[p].reg))
      BY <2>1, <3>1, <3>2, <3>4 DEF Sound
    <3>5. QED BY <3>3, <3>4
  <2>4. QED BY <2>2, <2>3
<1>3. QED BY <1>1, <1>2 DEF Outside

LEMMA Inductive ==
    ASSUME FenceAssumption, IInv, [Next]_vars
    PROVE  IInv'
<1>1. CASE Outside BY <1>1, OutsideStep
<1>2. ASSUME NEW p \in Procs, Starts(p) \/ Step(p) \/ GiveUp(p) \/ Crash(p) PROVE IInv'
  <2>1. TypeOK' /\ Frame(p) /\ Sound(p)' BY <1>2, CommandStep
  <2>2. \A q \in Procs \ {p} : Sound(q)' BY <2>1, OthersStaySound
  <2>3. QED BY <2>1, <2>2 DEF IInv
<1>3. CASE UNCHANGED vars
  BY <1>3 DEF vars, data, locks, IInv, TypeOK, Sound, Held, Identity, Anchored, Named
<1>4. QED BY <1>1, <1>2, <1>3 DEF Next

LEMMA Invariance ==
    ASSUME FenceAssumption
    PROVE  Spec => []IInv
<1>1. Init => IInv BY InitIInv
<1>2. IInv /\ [Next]_vars => IInv' BY Inductive
<1>3. QED BY <1>1, <1>2, PTL DEF Spec

\* Registrations, fences, records and what the operations carry are always what
\* they are meant to be: an import keys its provenance by the identities of a
\* repository, never by that of a path.
THEOREM TypesHold ==
    ASSUME FenceAssumption
    PROVE  Spec => []TypeOK
<1>1. IInv => TypeOK BY DEF IInv
<1>2. QED BY <1>1, Invariance, PTL

\* Nothing unregisters or replaces a project under an operation that runs behind
\* its fences, whatever is done to origin, if its entry names its repository: a
\* registration takes the fence of the path, and a removal that of the identity
\* its entry was observed under.  An entry that names none is not replaced either,
\* and stays if origin is not repointed behind a fence.
THEOREM ClaimsStayCurrent ==
    ASSUME FenceAssumption
    PROVE  Spec => /\ []NamedClaimIsCurrent
                   /\ RepointsAnytime \/ []ClaimIsCurrent
<1>1. IInv => NamedClaimIsCurrent
  BY DEF IInv, Sound, NamedClaimIsCurrent, Anchored
<1>2. Spec => []NamedClaimIsCurrent BY <1>1, Invariance, PTL
<1>3. CASE RepointsAnytime BY <1>2, <1>3
<1>4. CASE ~RepointsAnytime
  <2>1. IInv => ClaimIsCurrent
    BY <1>4 DEF IInv, Sound, ClaimIsCurrent, Anchored
  <2>2. Spec => []ClaimIsCurrent BY <2>1, Invariance, PTL
  <2>3. QED BY <1>2, <2>2
<1>5. QED BY <1>3, <1>4

-----------------------------------------------------------------------------
(* The refinement of ProjectAuthority. *)

\* What a removal has found out stays true for as long as its entry is there,
\* and an operation that may start a session runs for a registered project.
Found(p) ==
    /\ job[p].kind = "remove" => job[p].reg # NoEntry
    /\ job[p].kind \in {"import", "attach", "prune"} /\ pc[p] # "observe" => job[p].reg # NoEntry
    /\ pc[p] \in {"session", "ownership", "removal", "forget"} =>
          job[p].kind \in {"import", "attach", "prune"}
    /\ pc[p] \in {"probe", "swap"} /\ entry = job[p].reg /\ Anchored(job[p].reg) =>
          record = job[p].rec
    /\ pc[p] = "swap" /\ entry = job[p].reg /\ Anchored(job[p].reg) => ~Live(record)

RInv == IInv /\ \A p \in Procs : Found(p)

\* Identities keep a removal and an operation under the same entry apart.
LEMMA Apart ==
    ASSUME IInv, NEW p \in Procs, NEW q \in Procs,
           pc[p] \in Removing, pc[q] \in Inside, entry = job[p].reg,
           entry # NoEntry, Anchored(job[p].reg)
    PROVE  FALSE
<1>1. Sound(p) /\ Sound(q) BY DEF IInv
<1>2. job[p].id \in Held(p) /\ job[p].id = Identity(entry)
  BY <1>1 DEF Sound, Fenced, Removing
<1>3. job[q].id \in Held(q) /\ job[q].id = Identity(entry)
  BY <1>1 DEF Sound, Fenced, Inside
<1>4. fences[job[p].id] = p /\ fences[job[p].id] = q BY <1>2, <1>3 DEF Held
<1>5. p # q BY DEF Inside, Removing
<1>6. QED BY <1>4, <1>5

\* The steps that change the provenance or start a session, ...
Recording(p) == ImportExisting(p) \/ Save(p) \/ StartSession(p) \/ Forget(p)

\* ... all of them under a registration, if it is anchored, and ...
LEMMA RecordingRegistered ==
    ASSUME RInv, NEW p \in Procs, Recording(p)
    PROVE  pc[p] \in Inside /\ entry' = entry /\ (Anchored(job[p].reg) => entry # NoEntry)
<1>1. Sound(p) /\ Found(p) BY DEF RInv, IInv
<1>2. pc[p] \in {"import", "save", "session", "forget"} /\ entry' = entry
  BY DEF Recording, ImportExisting, Save, StartSession, Forget
<1>3. pc[p] \in Inside /\ pc[p] # "observe" BY <1>2 DEF Inside
<1>4. job[p].kind \in {"import", "attach", "prune"} BY <1>1, <1>2 DEF Sound, Found
<1>5. Anchored(job[p].reg) => entry = job[p].reg BY <1>1, <1>3 DEF Sound
<1>6. QED BY <1>1, <1>2, <1>3, <1>4, <1>5 DEF Found

\* ... those that change none of the three.
LEMMA Quiet ==
    ASSUME NEW p \in Procs, Starts(p) \/ Step(p) \/ GiveUp(p) \/ Crash(p),
           ~Recording(p), ~Write(p), ~Swap(p)
    PROVE  UNCHANGED <<entry, record, sessions>>
<1> USE DEF data, locks
<1>1. CASE Starts(p)
  BY <1>1 DEF Starts, StartCreate, StartImport, StartRecorded, StartRemove, StartRegister, Begin
<1>2. CASE GiveUp(p) \/ Crash(p)
  BY <1>2 DEF GiveUp, Crash, Fail
<1>3. CASE \/ NotExpected(p) \/ Refused(p) \/ NotConfirmed(p) \/ CreateInside(p) \/ ImportFails(p)
           \/ AttachFails(p) \/ NoSession(p) \/ Leave(p) \/ PruneRefused(p)
           \/ PruneDisowned(p) \/ PruneFails(p) \/ ViewRefused(p) \/ ProbeRefused(p)
  BY <1>3 DEF Fail, NotExpected, Refused, NotConfirmed, CreateInside, ImportFails, AttachFails,
              NoSession, Leave, PruneRefused, PruneDisowned, PruneFails, ViewRefused, ProbeRefused
<1>4. CASE \/ ObserveRecorded(p) \/ TakeTransition(p) \/ TakeFence(p) \/ Confirm(p)
           \/ WriteRetries(p) \/ ImportLocks(p) \/ ImportCreates(p) \/ SaveFails(p) \/ Rollback(p)
           \/ VerifyAttach(p) \/ PruneProbes(p) \/ PruneOwns(p) \/ PruneRemoves(p)
           \/ View(p) \/ ProbeAbsent(p)
  BY <1>4 DEF ObserveRecorded, TakeTransition, TakeFence, Confirm, WriteRetries, ImportLocks,
              ImportCreates, SaveFails, Rollback, VerifyAttach, PruneProbes, PruneOwns, PruneRemoves,
              View, ProbeAbsent
<1>5. QED BY <1>1, <1>2, <1>3, <1>4 DEF Step, Recording

\* A registration under which a removal still waits cannot come back: writing it
\* would take the fence the removal holds.
LEMMA WriteChanges ==
    ASSUME RInv, NEW p \in Procs, NEW q \in Procs, Write(p), pc[q] \in Removing,
           Anchored(job[q].reg)
    PROVE  entry' # job[q].reg
<1> USE DEF RInv, IInv
<1>1. SUFFICES ASSUME entry' = job[q].reg PROVE FALSE OBVIOUS
<1>2. Sound(p) /\ Sound(q) /\ Found(q) /\ job[p] \in Jobs /\ pc[p] = "confirm"
  BY DEF Write, TypeOK
<1>3. PICK stamp \in Stamps : entry' = [repo |-> job[p].repo, stamp |-> stamp]
  BY DEF Write
<1>4. TransitionIdentities(job[p].repo) \subseteq Held(p)
  BY <1>2 DEF Write, Sound, Fenced
<1>5. job[q].id \in Held(q) /\ job[q].id = Identity(job[q].reg) /\ job[q].reg # NoEntry
  BY <1>2 DEF Sound, Found, Fenced, Removing
<1>6. job[q].id = IF job[p].repo \in Repositories THEN job[p].repo ELSE origin
  <2>1. job[q].reg.repo = job[p].repo BY <1>1, <1>3
  <2>2. QED BY <1>5, <2>1 DEF Identity
<1>7. job[p].repo \in 0..2 BY <1>2 DEF Jobs
<1>8. job[q].id \in TransitionIdentities(job[p].repo)
  BY <1>6, <1>7 DEF TransitionIdentities, Repositories
<1>9. fences[job[q].id] = p /\ fences[job[q].id] = q BY <1>4, <1>5, <1>8 DEF Held
<1>10. p # q BY <1>2 DEF Removing
<1>11. QED BY <1>9, <1>10

LEMMA OthersFindings ==
    ASSUME FenceAssumption, RInv, NEW p \in Procs, NEW q \in Procs \ {p},
           Starts(p) \/ Step(p) \/ GiveUp(p) \/ Crash(p)
    PROVE  Found(q)'
<1> USE DEF RInv
<1>0. Found(q) /\ pc'[q] = pc[q] /\ job'[q] = job[q] BY CommandStep DEF Frame
<1>1. Found(q) /\ pc'[q] = pc[q] /\ job'[q] = job[q] /\ Anchored(job[q].reg)' = Anchored(job[q].reg)
  BY <1>0 DEF Anchored, Named
<1> DEFINE Waits == pc[q] \in {"probe", "swap"} /\ Anchored(job[q].reg)
<1>7. Waits => job[q].reg # NoEntry
  BY <1>1 DEF Found, Sound, IInv, Removing
<1>2. CASE ~Recording(p) /\ ~Write(p) /\ ~Swap(p)
  BY <1>1, <1>2, Quiet DEF Found, Live
<1>3. CASE Recording(p)
  <2>1. pc[p] \in Inside /\ entry' = entry BY <1>3, RecordingRegistered
  <2>2. Waits => entry # job[q].reg BY <1>7, <2>1, Apart DEF Removing
  <2>3. QED BY <1>1, <2>1, <2>2 DEF Found
<1>4. CASE Write(p)
  <2>1. Waits => entry' # job[q].reg BY <1>4, WriteChanges DEF Removing
  <2>2. QED BY <1>1, <2>1 DEF Found
<1>5. CASE Swap(p)
  <2>1. UNCHANGED <<record, sessions>> /\ entry' \in {NoEntry, entry} BY <1>5 DEF Swap
  <2>2. QED BY <1>1, <1>7, <2>1 DEF Found, Live
<1>6. QED BY <1>2, <1>3, <1>4, <1>5

\* An operation that ends has found out nothing.
LEMMA EndFinds ==
    ASSUME IInv, NEW p \in Procs, End(p)
    PROVE  Found(p)'
<1>1. job'[p] = NoJob /\ pc'[p] = "idle" BY DEF End, Goto, IInv, TypeOK
<1>2. QED BY <1>1 DEF Found, NoJob

LEMMA StartsFind ==
    ASSUME FenceAssumption, IInv, NEW p \in Procs, Starts(p)
    PROVE  Found(p)'
<1> USE DEF Begin, Goto, IInv, TypeOK, Found, NoJob
<1>1. CASE StartCreate(p)
  <2>1. job'[p].kind = "create" /\ pc'[p] = "transition" BY <1>1 DEF StartCreate, Observe
  <2>2. QED BY <2>1
<1>2. CASE StartImport(p)
  <2>1. job'[p].kind = "import" /\ job'[p].reg # NoEntry /\ pc'[p] = "transition"
    BY <1>2 DEF StartImport, Observe
  <2>2. QED BY <2>1
<1>3. CASE StartRecorded(p)
  <2>1. job'[p].kind \in {"attach", "prune"} /\ pc'[p] = "observe" BY <1>3 DEF StartRecorded
  <2>2. QED BY <2>1
<1>4. CASE StartRemove(p)
  <2>1. job'[p].kind = "remove" /\ job'[p].reg # NoEntry /\ pc'[p] = "transition"
    BY <1>4 DEF StartRemove, Observe
  <2>2. QED BY <2>1
<1>5. CASE StartRegister(p)
  <2>1. job'[p].kind = "register" /\ pc'[p] = "transition" BY <1>5 DEF StartRegister
  <2>2. QED BY <2>1
<1>6. QED BY <1>1, <1>2, <1>3, <1>4, <1>5 DEF Starts

LEMMA OwnFindings ==
    ASSUME FenceAssumption, RInv, NEW p \in Procs,
           Starts(p) \/ Step(p) \/ GiveUp(p) \/ Crash(p)
    PROVE  Found(p)'
<1> USE DEF RInv
<1>1. Sound(p) /\ Found(p) /\ job[p] \in Jobs BY DEF IInv, TypeOK
<1>2. /\ pc \in [Procs -> {"idle", "observe", "transition", "fences", "confirm"} \cup Inside \cup Removing]
      /\ job \in [Procs -> Jobs]
  BY DEF IInv, TypeOK
<1>3. CASE Starts(p) BY <1>3, StartsFind
<1>4. CASE \/ GiveUp(p) \/ Crash(p) \/ NotExpected(p) \/ Refused(p) \/ NotConfirmed(p)
           \/ CreateInside(p) \/ ImportFails(p) \/ AttachFails(p) \/ NoSession(p) \/ Leave(p)
           \/ PruneRefused(p) \/ PruneDisowned(p) \/ PruneFails(p)
           \/ ViewRefused(p) \/ ProbeRefused(p) \/ Write(p) \/ Swap(p) \/ Rollback(p)
  <2>1. End(p)
    BY <1>4 DEF GiveUp, Crash, Fail, NotExpected, Refused, NotConfirmed, CreateInside, ImportFails,
                AttachFails, NoSession, Leave, PruneRefused, PruneDisowned, PruneFails, ViewRefused,
                ProbeRefused, Write, Swap, Rollback
  <2>2. QED BY <2>1, EndFinds
<1>5. CASE ObserveRecorded(p)
  <2>1. job'[p].kind = job[p].kind /\ job'[p].reg = entry /\ pc'[p] = "transition"
    BY <1>2, <1>5 DEF ObserveRecorded, Observe, NoJob, Goto
  <2>2. entry # NoEntry /\ job[p].kind \in Guarded BY <1>1, <1>5 DEF ObserveRecorded, Sound
  <2>3. QED BY <2>1, <2>2 DEF Found
<1>6. CASE \/ TakeTransition(p) \/ TakeFence(p) \/ Confirm(p) \/ WriteRetries(p)
  <2>1. job'[p].kind = job[p].kind /\ job'[p].reg = job[p].reg
    BY <1>2, <1>6 DEF TakeTransition, TakeFence, Confirm, WriteRetries, Jobs
  <2>2. pc[p] # "observe" /\ pc'[p] \in {"fences", "confirm", "view", "inside", "transition"}
    BY <1>2, <1>6 DEF TakeTransition, TakeFence, Confirm, WriteRetries, Goto
  <2>3. QED BY <1>1, <2>1, <2>2 DEF Found
<1>7. CASE \/ ImportLocks(p) \/ ImportExisting(p) \/ ImportCreates(p) \/ Save(p) \/ SaveFails(p)
           \/ VerifyAttach(p) \/ StartSession(p)
           \/ PruneProbes(p) \/ PruneOwns(p) \/ PruneRemoves(p) \/ Forget(p)
  <2>1. job'[p].kind = job[p].kind /\ job'[p].reg = job[p].reg
    BY <1>2, <1>7 DEF ImportLocks, ImportExisting, ImportCreates, Save, SaveFails, VerifyAttach,
                      StartSession, PruneProbes, PruneOwns, PruneRemoves, Forget, Jobs
  <2>2. pc[p] # "observe" /\ pc'[p] \notin {"observe", "probe", "swap"}
    BY <1>2, <1>7 DEF ImportLocks, ImportExisting, ImportCreates, Save, SaveFails, VerifyAttach,
                      StartSession, PruneProbes, PruneOwns, PruneRemoves, Forget, Goto
  <2>3. pc'[p] \in {"session", "ownership", "removal", "forget"} =>
          job[p].kind \in {"import", "attach", "prune"}
    BY <1>1, <1>2, <1>7 DEF ImportLocks, ImportExisting, ImportCreates, Save, SaveFails, VerifyAttach,
                      StartSession, PruneProbes, PruneOwns, PruneRemoves, Forget, Goto, Sound, Found
  <2>4. QED BY <1>1, <2>1, <2>2, <2>3 DEF Found
<1>8. CASE View(p)
  <2>1. job'[p].kind = "remove" /\ job'[p].reg = job[p].reg /\ job'[p].rec = record
    BY <1>1, <1>2, <1>8 DEF View, Jobs, Sound, Removing
  <2>2. /\ pc'[p] \in {"swap", "probe"} /\ UNCHANGED <<record, sessions>>
        /\ pc'[p] = "swap" => record = NoRecord
    BY <1>2, <1>8 DEF View, NoEndpoint, Goto, data
  <2>3. ~Live(NoRecord) BY DEF Live, NoRecord, IInv, TypeOK
  <2>4. job[p].reg # NoEntry BY <1>1, <1>8 DEF View, Sound, Found, Removing
  <2>5. QED BY <2>1, <2>2, <2>3, <2>4 DEF Found, Live
<1>9. CASE ProbeAbsent(p)
  <2>1. /\ pc[p] = "probe" /\ pc'[p] = "swap" /\ ~Live(job[p].rec)
        /\ UNCHANGED <<entry, record, sessions, job>>
    BY <1>2, <1>9 DEF ProbeAbsent, Goto, data
  <2>2. QED BY <1>1, <2>1 DEF Found, Live
<1>10. QED BY <1>3, <1>4, <1>5, <1>6, <1>7, <1>8, <1>9 DEF Step

LEMMA InitRInv == ASSUME FenceAssumption, Init PROVE RInv
<1>1. ASSUME NEW p \in Procs PROVE Found(p) BY DEF Init, Found, NoJob
<1>2. QED BY <1>1, InitIInv DEF RInv

LEMMA OutsideFindings ==
    ASSUME RInv, NEW p \in Procs, Outside \/ UNCHANGED vars
    PROVE  Found(p)'
<1>1. /\ UNCHANGED <<entry, record, pc, job>>
      /\ sessions' \subseteq sessions
  BY DEF Outside, SessionEnds, DeleteWorkspace, Repoint, vars, data
<1>2. Found(p) /\ Anchored(job[p].reg)' = Anchored(job[p].reg) BY <1>1 DEF RInv, Anchored, Named
<1>3. QED BY <1>1, <1>2 DEF Found, Live

LEMMA RInductive ==
    ASSUME FenceAssumption, RInv, [Next]_vars
    PROVE  RInv'
<1>1. IInv' BY Inductive DEF RInv
<1>2. CASE Outside \/ UNCHANGED vars BY <1>1, <1>2, OutsideFindings DEF RInv
<1>3. ASSUME NEW p \in Procs, Starts(p) \/ Step(p) \/ GiveUp(p) \/ Crash(p) PROVE RInv'
  BY <1>1, <1>3, OwnFindings, OthersFindings DEF RInv
<1>4. QED BY <1>2, <1>3 DEF Next

\* Every step of an anchored operation registers, unregisters, starts or ends a
\* session as ProjectAuthority allows, or is no step of it.
LEMMA AuthorityStep ==
    ASSUME FenceAssumption, RInv, [Next]_vars,
           \A p \in Procs : Step(p) => Anchored(job[p].reg)
    PROVE  [Authority!Next]_<<entry # NoEntry, Live(record)>>
<1> DEFINE Registered == entry # NoEntry
           IsLive == Live(record)
<1> USE DEF Authority!Next, Authority!Register, Authority!Unregister,
            Authority!StartSession, Authority!EndSession
<1>1. IsLive \in BOOLEAN /\ IsLive' \in BOOLEAN BY DEF Live
<1>2. CASE Outside \/ UNCHANGED vars
  <2>1. Registered' = Registered /\ (IsLive' => IsLive)
    BY <1>2 DEF Outside, SessionEnds, DeleteWorkspace, Repoint, vars, data, Live
  <2>2. QED BY <1>1, <2>1
<1>3. ASSUME NEW p \in Procs, Starts(p) \/ Step(p) \/ GiveUp(p) \/ Crash(p)
      PROVE  [Authority!Next]_<<entry # NoEntry, Live(record)>>
  <2>1. CASE Recording(p)
    <3>0. Anchored(job[p].reg) BY <2>1 DEF Recording, Step
    <3>1. Registered /\ Registered' /\ Registered' = Registered
      BY <2>1, <3>0, RecordingRegistered
    <3>2. QED BY <1>1, <3>1
  <2>2. CASE Write(p)
    <3>1. Registered' BY <2>2 DEF Write, NoEntry
    <3>2. IsLive' = IsLive BY <2>2 DEF Write, Live
    <3>3. QED BY <3>1, <3>2
  <2>3. CASE Swap(p)
    <3>1. IsLive' = IsLive BY <2>3 DEF Swap, Live
    <3>2. CASE entry = job[p].reg
      <4>0. Anchored(job[p].reg) BY <2>3 DEF Step
      <4>1. ~IsLive BY <2>3, <3>2, <4>0 DEF Swap, RInv, Found
      <4>2. ~Registered' BY <2>3, <3>2 DEF Swap
      <4>3. QED BY <3>1, <4>1, <4>2
    <3>3. CASE entry # job[p].reg
      <4>1. Registered' = Registered BY <2>3, <3>3 DEF Swap
      <4>2. QED BY <3>1, <4>1
    <3>4. QED BY <3>2, <3>3
  <2>4. CASE ~Recording(p) /\ ~Write(p) /\ ~Swap(p)
    <3>1. UNCHANGED <<entry, record, sessions>> BY <1>3, <2>4, Quiet
    <3>2. Registered' = Registered /\ IsLive' = IsLive BY <3>1 DEF Live
    <3>3. QED BY <3>2
  <2>5. QED BY <2>1, <2>2, <2>3, <2>4
<1>4. QED BY <1>2, <1>3 DEF Next

\* A project is unregistered only while the session its provenance names is not
\* live, and such a session starts only under a registration, although a removal
\* gives the transition lock back before it reads the provenance and probes: by
\* every step, whatever is done to origin, but those of operations whose entry
\* names no repository, and by these too if origin is not repointed behind a fence.
THEOREM SessionsStayRegistered ==
    ASSUME FenceAssumption
    PROVE  Spec => /\ NamedSessionsAreRegistered
                   /\ RepointsAnytime \/ SessionsAreRegistered
<1>1. Init => RInv BY InitRInv
<1>2. RInv /\ [Next]_vars => RInv' BY RInductive
<1>3. RInv /\ [Next]_vars =>
        ((\A p \in Procs : Step(p) => Named(job[p].reg))
            => [Authority!Next]_<<entry # NoEntry, Live(record)>>)
  BY AuthorityStep DEF Anchored
<1>4. Spec => NamedSessionsAreRegistered
  BY <1>1, <1>2, <1>3, PTL DEF Spec, NamedSessionsAreRegistered
<1>5. CASE RepointsAnytime BY <1>4, <1>5
<1>6. CASE ~RepointsAnytime
  <2>1. RInv /\ [Next]_vars => [Authority!Next]_<<entry # NoEntry, Live(record)>>
    BY <1>6, AuthorityStep DEF Anchored
  <2>2. Init => Authority!Init BY DEF Init, Authority!Init, Live
  <2>3. Spec => SessionsAreRegistered
    BY <1>1, <1>2, <2>1, <2>2, PTL DEF Spec, SessionsAreRegistered, Authority!Spec
  <2>4. QED BY <1>4, <2>3
<1>7. QED BY <1>5, <1>6

-----------------------------------------------------------------------------
(* The protected session of the imported worktree is the one on record. *)

\* Where an import has its number and has not yet created its worktree.
Early == {"observe"} \cup Waiting \cup {"inside", "import"}

\* The number of an operation is its own, and until an import has created its
\* worktree neither a worktree nor a session has it.
Fresh(p) ==
    /\ pc[p] # "idle" => job[p].num <= ops
    /\ \A q \in Procs \ {p} :
          pc[p] # "idle" /\ pc[q] # "idle" => job[p].num # job[q].num
    /\ job[p].kind = "import" /\ pc[p] \in Early =>
          job[p].num # workspace /\ job[p].num \notin sessions

\* What an operation behind its fences knows of the worktree and its record.
Known(p) ==
    /\ pc[p] = "save" => job[p].rec.gen = job[p].num /\ workspace \in {0, job[p].num}
    /\ pc[p] = "session" => record = job[p].rec
    /\ pc[p] = "forget" => workspace = 0

\* What was created was created by an operation that has started.
Past == workspace <= ops /\ \A gen \in sessions : gen <= ops

KInv ==
    /\ RInv
    /\ EndpointIsKnown
    /\ Past
    /\ \A p \in Procs : Fresh(p) /\ Known(p)

\* Behind the fences there is one operation at a time: all of them take the fence
\* of the project's path.
LEMMA Alone ==
    ASSUME IInv, NEW p \in Procs, NEW q \in Procs, pc[p] \in Inside, pc[q] \in Inside
    PROVE  p = q
<1>1. ASSUME NEW r \in Procs, pc[r] \in Inside PROVE fences[PathIdentity] = r
  <2>1. Sound(r) BY DEF IInv
  <2>2. pc[r] # "observe" /\ pc[r] \in Fenced BY <1>1 DEF Inside, Fenced
  <2>3. PathIdentity \in job[r].wanted /\ job[r].wanted \subseteq Held(r)
    BY <1>1, <2>1, <2>2 DEF Sound
  <2>4. QED BY <2>3 DEF Held
<1>2. QED BY <1>1

\* A number stays its operation's own, and unused until its worktree is created,
\* as long as worktrees are created only under such a number and sessions are
\* started only in the worktree that is there.
LEMMA NumbersStayFresh ==
    ASSUME FenceAssumption, KInv, NEW p \in Procs, IInv', Frame(p),
           ops' \in {ops, ops + 1},
           \/ pc'[p] = "idle"
           \/ pc[p] # "idle" /\ job'[p].num = job[p].num /\ job'[p].kind = job[p].kind
           \/ ops' = ops + 1 /\ job'[p].num = ops + 1,
           pc'[p] \in Early => pc[p] \in Early \/ ops' = ops + 1 \/ job'[p].kind # "import",
           ops' = ops + 1 => pc[p] = "idle",
           sessions' \subseteq sessions \cup {workspace},
           \/ workspace' \in {0, workspace}
           \/ pc[p] \in Early /\ pc'[p] \notin Early /\ workspace' = job[p].num
    PROVE  Past' /\ \A q \in Procs : Fresh(q)'
<1> DEFINE Mine(q) == pc[q] # "idle" => job[q].num \in 1..MaxOps /\ job[q].num <= ops
<1>1. ops \in Nat /\ workspace \in Nat /\ sessions \subseteq Nat /\ ops <= ops' /\ ops' \in Nat
  BY DEF KInv, RInv, IInv, TypeOK
<1>2. ASSUME NEW q \in Procs PROVE Mine(q)
  <2>1. Sound(q) /\ Fresh(q) BY DEF KInv, RInv, IInv
  <2>2. QED BY <2>1 DEF Sound, Fresh
<1>3. workspace <= ops /\ \A gen \in sessions : gen <= ops BY DEF KInv, Past
<1>4. pc[p] \in Early => pc[p] # "idle" BY DEF Early, Waiting
<1>5. Past'
  <2>1. workspace' <= ops' BY <1>1, <1>2, <1>3, <1>4
  <2>2. ASSUME NEW gen \in sessions' PROVE gen <= ops'
    <3>1. gen \in sessions \cup {workspace} OBVIOUS
    <3>2. gen \in Nat /\ gen <= ops BY <1>1, <1>3, <3>1
    <3>3. QED BY <1>1, <3>2
  <2>3. QED BY <2>1, <2>2 DEF Past
<1>6. \A q \in Procs \ {p} : pc'[q] = pc[q] /\ job'[q] = job[q] BY DEF Frame
<1>7. ASSUME NEW q \in Procs PROVE pc'[q] # "idle" => job'[q].num \in 1..MaxOps /\ job'[q].num <= ops'
  <2>1. pc'[q] # "idle" => job'[q].num \in 1..MaxOps BY DEF IInv, Sound
  <2>2. CASE q = p BY <1>1, <1>2, <2>1, <2>2
  <2>3. CASE q # p BY <1>1, <1>2, <1>6, <2>1, <2>3
  <2>4. QED BY <2>2, <2>3
<1>8. ASSUME NEW q \in Procs, NEW r \in Procs \ {q}, pc'[q] # "idle", pc'[r] # "idle"
      PROVE  job'[q].num # job'[r].num
  <2>1. pc[q] # "idle" /\ pc[r] # "idle" => job[q].num # job[r].num BY DEF KInv, Fresh
  <2>2. CASE q # p /\ r # p BY <1>6, <1>8, <2>1, <2>2
  <2>3. CASE q = p BY <1>1, <1>2, <1>6, <1>8, <2>1, <2>3
  <2>4. CASE r = p BY <1>1, <1>2, <1>6, <1>8, <2>1, <2>4
  <2>5. QED BY <2>2, <2>3, <2>4
<1>9. ASSUME NEW q \in Procs, job'[q].kind = "import", pc'[q] \in Early
      PROVE  job'[q].num # workspace' /\ job'[q].num \notin sessions'
  <2>0. pc'[q] # "idle" BY <1>9 DEF Early, Waiting
  <2>1. job'[q].num \in 1..MaxOps BY <1>7, <2>0
  <2>2. CASE q = p /\ ops' = ops + 1
    <3>1. job'[q].num = ops + 1 /\ pc[p] = "idle" BY <1>1, <2>0, <2>2
    <3>2. workspace' \in {0, workspace} BY <1>4, <3>1
    <3>3. QED BY <1>1, <1>3, <3>1, <3>2
  <2>3. CASE q = p /\ ops' # ops + 1
    <3>1. pc[p] # "idle" /\ job'[p].num = job[p].num /\ job[p].kind = "import" /\ pc[p] \in Early
      BY <1>9, <2>0, <2>3
    <3>2. job[p].num # workspace /\ job[p].num \notin sessions BY <3>1 DEF KInv, Fresh
    <3>3. workspace' \in {0, workspace} BY <1>9, <2>3
    <3>4. QED BY <1>1, <2>1, <2>3, <3>1, <3>2, <3>3
  <2>4. CASE q # p
    <3>1. pc'[q] = pc[q] /\ job'[q] = job[q] BY <1>6, <2>4
    <3>2. job[q].num # workspace /\ job[q].num \notin sessions BY <1>9, <3>1 DEF KInv, Fresh
    <3>3. pc[p] \in Early => job[q].num # job[p].num
      BY <1>4, <2>0, <2>4, <3>1 DEF KInv, Fresh
    <3>4. QED BY <1>1, <2>1, <3>1, <3>2, <3>3
  <2>5. QED BY <2>2, <2>3, <2>4
<1>10. QED BY <1>5, <1>7, <1>8, <1>9 DEF Fresh

\* A process that is not behind its fences, or for which nothing changes but that
\* the worktree may go, knows what it knew.
LEMMA OthersKnow ==
    ASSUME FenceAssumption, KInv, NEW p \in Procs, Frame(p),
           \/ UNCHANGED record /\ workspace' \in {0, workspace}
           \/ pc[p] \in Inside
    PROVE  \A q \in Procs \ {p} : Known(q)'
<1>1. TAKE q \in Procs \ {p}
<1>2. pc'[q] = pc[q] /\ job'[q] = job[q] BY DEF Frame
<1>3. Known(q) BY DEF KInv
<1>4. CASE pc[q] \notin Inside BY <1>2, <1>4 DEF Known, Inside
<1>5. CASE pc[q] \in Inside
  <2>1. pc[p] \notin Inside BY <1>5, Alone DEF KInv, RInv
  <2>2. QED BY <1>2, <1>3, <2>1 DEF Known
<1>6. QED BY <1>4, <1>5

\* A step that ends its operation.
LEMMA EndKnows ==
    ASSUME FenceAssumption, KInv, NEW p \in Procs, RInv', Frame(p), End(p),
           UNCHANGED <<sessions, record>>, workspace' \in {0, workspace}
    PROVE  KInv'
<1>0. IInv /\ TypeOK /\ IInv' /\ EndpointIsKnown /\ ops \in Nat BY DEF KInv, RInv, IInv, TypeOK
<1>1. pc'[p] = "idle" /\ ops' = ops BY <1>0 DEF End, Goto, TypeOK
<1>2. pc'[p] \notin Early BY <1>1 DEF Early, Waiting
<1>3. Past' /\ \A q \in Procs : Fresh(q)' BY <1>0, <1>1, <1>2, NumbersStayFresh
<1>4. Known(p)' BY <1>1 DEF Known
<1>5. EndpointIsKnown'
  <2>1. 0 \notin sessions BY <1>0 DEF TypeOK
  <2>2. QED BY <1>0, <2>1 DEF EndpointIsKnown
<1>6. QED BY <1>3, <1>4, <1>5, OthersKnow DEF KInv

\* A step that begins an operation.
LEMMA BeginKnows ==
    ASSUME FenceAssumption, KInv, NEW p \in Procs, RInv', Frame(p), Starts(p)
    PROVE  KInv'
<1>0. IInv /\ TypeOK /\ IInv' /\ EndpointIsKnown /\ ops \in Nat BY DEF KInv, RInv, IInv, TypeOK
<1>1. ASSUME NEW f, NEW label \in {"transition", "observe"}, Begin(p, f, label), "num" \in DOMAIN f
      PROVE  /\ pc[p] = "idle" /\ pc'[p] = label /\ ops' = ops + 1 /\ job'[p].num = ops + 1
             /\ UNCHANGED <<workspace, sessions, record>>
  <2>1. job'[p] = [f EXCEPT !.num = ops + 1] BY <1>0, <1>1 DEF Begin, TypeOK
  <2>2. job'[p].num = ops + 1 BY <1>1, <2>1
  <2>3. QED BY <1>0, <1>1, <2>2 DEF Begin, Goto, TypeOK, data
<1>2. /\ pc[p] = "idle" /\ pc'[p] \in {"transition", "observe"} /\ ops' = ops + 1
      /\ job'[p].num = ops + 1 /\ UNCHANGED <<workspace, sessions, record>>
  <2>1. ASSUME NEW kind PROVE "num" \in DOMAIN Observe(kind) BY DEF Observe, NoJob
  <2>2. CASE StartCreate(p) BY <1>1, <2>1, <2>2 DEF StartCreate
  <2>3. CASE StartImport(p) BY <1>1, <2>1, <2>3 DEF StartImport
  <2>4. CASE StartRecorded(p)
    <3>1. PICK kind : Begin(p, [NoJob EXCEPT !.kind = kind, !.rec = record], "observe")
      BY <2>4 DEF StartRecorded
    <3>2. "num" \in DOMAIN [NoJob EXCEPT !.kind = kind, !.rec = record] BY DEF NoJob
    <3>3. QED BY <1>1, <3>1, <3>2
  <2>5. CASE StartRemove(p)
    <3>1. Begin(p, [Observe("remove") EXCEPT !.wanted = {Identity(entry)}], "transition")
      BY <2>5 DEF StartRemove
    <3>2. "num" \in DOMAIN [Observe("remove") EXCEPT !.wanted = {Identity(entry)}] BY <2>1
    <3>3. QED BY <1>1, <3>1, <3>2
  <2>6. CASE StartRegister(p)
    <3>1. PICK repo : Begin(p, [NoJob EXCEPT !.kind = "register", !.repo = repo], "transition")
      BY <2>6 DEF StartRegister
    <3>2. "num" \in DOMAIN [NoJob EXCEPT !.kind = "register", !.repo = repo] BY DEF NoJob
    <3>3. QED BY <1>1, <3>1, <3>2
  <2>7. QED BY <2>2, <2>3, <2>4, <2>5, <2>6 DEF Starts
<1>3. Past' /\ \A q \in Procs : Fresh(q)' BY <1>0, <1>2, NumbersStayFresh
<1>4. Known(p)' BY <1>2 DEF Known
<1>5. EndpointIsKnown' BY <1>0, <1>2 DEF EndpointIsKnown
<1>6. QED BY <1>2, <1>3, <1>4, <1>5, OthersKnow DEF KInv

\* A step of an operation that goes on.
LEMMA StepKnows ==
    ASSUME FenceAssumption, KInv, NEW p \in Procs, RInv', Frame(p), ops' = ops,
           pc[p] # "idle", job'[p].num = job[p].num, job'[p].kind = job[p].kind,
           pc'[p] \in Early => pc[p] \in Early \/ job[p].kind # "import",
           sessions' \subseteq sessions \cup {workspace},
           \/ workspace' \in {0, workspace}
           \/ pc[p] \in Early /\ pc'[p] \notin Early /\ workspace' = job[p].num,
           \/ UNCHANGED record /\ workspace' \in {0, workspace}
           \/ pc[p] \in Inside,
           Known(p)', EndpointIsKnown'
    PROVE  KInv'
<1>1. ops \in Nat /\ IInv' BY DEF KInv, RInv, IInv, TypeOK
<1>2. Past' /\ \A q \in Procs : Fresh(q)' BY <1>1, NumbersStayFresh
<1>3. QED BY <1>2, OthersKnow DEF KInv

LEMMA CommandKnows ==
    ASSUME FenceAssumption, KInv, NEW p \in Procs, RInv',
           Starts(p) \/ Step(p) \/ GiveUp(p) \/ Crash(p)
    PROVE  KInv'
<1>0. IInv /\ TypeOK /\ EndpointIsKnown /\ Sound(p) /\ Found(p) /\ Known(p) /\ Fresh(p)
  BY DEF KInv, RInv, IInv
<1>1. Frame(p) BY <1>0, CommandStep
<1>2. /\ pc \in [Procs -> {"idle", "observe", "transition", "fences", "confirm"} \cup Inside \cup Removing]
      /\ job \in [Procs -> Jobs] /\ 0 \notin sessions
  BY <1>0 DEF TypeOK
<1>3. CASE Starts(p) BY <1>1, <1>3, BeginKnows
<1>4. CASE \/ GiveUp(p) \/ Crash(p) \/ NotExpected(p) \/ Refused(p) \/ NotConfirmed(p)
           \/ CreateInside(p) \/ ImportFails(p) \/ AttachFails(p) \/ NoSession(p) \/ Leave(p)
           \/ PruneRefused(p) \/ PruneDisowned(p) \/ PruneFails(p)
           \/ ViewRefused(p) \/ ProbeRefused(p) \/ Write(p) \/ Swap(p) \/ Rollback(p)
  <2>1. End(p) /\ UNCHANGED <<sessions, record>> /\ workspace' \in {0, workspace}
    BY <1>4 DEF GiveUp, Crash, Fail, NotExpected, Refused, NotConfirmed, CreateInside, ImportFails,
                AttachFails, NoSession, Leave, PruneRefused, PruneDisowned, PruneFails, ViewRefused,
                ProbeRefused, Write, Swap, Rollback, data
  <2>2. QED BY <1>1, <2>1, EndKnows
<1>5. CASE \/ ObserveRecorded(p) \/ TakeTransition(p) \/ TakeFence(p) \/ Confirm(p) \/ WriteRetries(p)
           \/ ImportLocks(p) \/ SaveFails(p) \/ PruneProbes(p) \/ PruneOwns(p)
           \/ View(p) \/ ProbeAbsent(p)
  <2>1. /\ pc[p] # "idle" /\ ops' = ops /\ UNCHANGED <<workspace, sessions, record>>
        /\ pc'[p] \notin {"save", "session", "forget"}
        /\ pc'[p] \in Early => pc[p] \in Early
    BY <1>2, <1>5 DEF ObserveRecorded, TakeTransition, TakeFence, Confirm, WriteRetries,
                      ImportLocks, SaveFails, PruneProbes, PruneOwns, View, ProbeAbsent,
                      Goto, data, Early, Waiting
  <2>2. job'[p].num = job[p].num /\ job'[p].kind = job[p].kind
    <3>1. CASE ObserveRecorded(p)
      BY <1>2, <3>1 DEF ObserveRecorded, Observe, NoJob
    <3>2. CASE ~ObserveRecorded(p)
      BY <1>2, <1>5, <3>2 DEF TakeTransition, TakeFence, Confirm, WriteRetries,
                      ImportLocks, SaveFails, PruneProbes, PruneOwns, View, ProbeAbsent, Jobs
    <3>3. QED BY <3>1, <3>2
  <2>3. Known(p)' BY <2>1 DEF Known
  <2>4. EndpointIsKnown' BY <1>0, <2>1 DEF EndpointIsKnown
  <2>5. QED BY <1>1, <2>1, <2>2, <2>3, <2>4, StepKnows
<1>6. CASE ImportExisting(p)
  <2>1. /\ pc[p] = "import" /\ pc'[p] = "session" /\ ops' = ops
        /\ UNCHANGED <<workspace, sessions>>
        /\ record.gen = workspace
        /\ job'[p].num = job[p].num /\ job'[p].kind = job[p].kind /\ job'[p].rec = record'
    BY <1>2, <1>6 DEF ImportExisting, Goto, Recorded, Jobs
  <2>2. record'.gen = record.gen
    BY <1>0, <1>6 DEF ImportExisting, Recorded, TypeOK, Records
  <2>3. Known(p)' BY <2>1 DEF Known
  <2>4. EndpointIsKnown' BY <2>1, <2>2 DEF EndpointIsKnown
  <2>5. pc[p] \in Inside /\ pc'[p] \notin Early BY <2>1 DEF Inside, Early, Waiting
  <2>6. QED BY <1>1, <2>1, <2>3, <2>4, <2>5, StepKnows
<1>7. CASE ImportCreates(p)
  <2>1. /\ pc[p] = "import" /\ pc'[p] = "save" /\ ops' = ops
        /\ UNCHANGED <<sessions, record>> /\ workspace' = job[p].num
    BY <1>2, <1>7 DEF ImportCreates, Goto, locks
  <2>2. PICK known \in KnownTo(p) :
          job' = [job EXCEPT ![p].rec = [aliases |-> known, gen |-> job[p].num]]
    BY <1>7 DEF ImportCreates
  <2>3. job'[p].num = job[p].num /\ job'[p].kind = job[p].kind /\ job'[p].rec.gen = job[p].num
    BY <1>2, <2>2 DEF Jobs
  <2>4. Known(p)' BY <2>1, <2>3 DEF Known
  <2>5. job[p].kind = "import" /\ pc[p] \in Early /\ pc[p] \in Inside /\ pc'[p] \notin Early
    BY <1>0, <2>1 DEF Sound, Early, Inside, Waiting
  <2>6. job[p].num \notin sessions BY <1>0, <2>5 DEF Fresh
  <2>7. EndpointIsKnown' BY <2>1, <2>6 DEF EndpointIsKnown
  <2>8. QED BY <1>1, <2>1, <2>3, <2>4, <2>5, <2>7, StepKnows
<1>8. CASE Save(p)
  <2>1. /\ pc[p] = "save" /\ pc'[p] = "session" /\ ops' = ops
        /\ UNCHANGED <<workspace, sessions, job>> /\ record' = job[p].rec
    BY <1>2, <1>8 DEF Save, Goto
  <2>2. Known(p)' BY <2>1 DEF Known
  <2>3. record'.gen = job[p].num /\ workspace \in {0, job[p].num} BY <1>0, <2>1 DEF Known
  <2>4. EndpointIsKnown' BY <1>2, <2>1, <2>3 DEF EndpointIsKnown
  <2>5. pc[p] \in Inside /\ pc'[p] \notin Early BY <2>1 DEF Inside, Early, Waiting
  <2>6. QED BY <1>1, <2>1, <2>2, <2>4, <2>5, StepKnows
<1>9. CASE VerifyAttach(p)
  <2>1. /\ pc[p] = "inside" /\ pc'[p] = "session" /\ ops' = ops
        /\ UNCHANGED <<workspace, sessions, record>>
        /\ job'[p].num = job[p].num /\ job'[p].kind = job[p].kind /\ job'[p].rec = record
    BY <1>2, <1>9 DEF VerifyAttach, Goto, data, Jobs
  <2>2. Known(p)' /\ EndpointIsKnown' BY <1>0, <2>1 DEF Known, EndpointIsKnown
  <2>3. pc'[p] \notin Early BY <2>1 DEF Early, Waiting
  <2>4. QED BY <1>1, <2>1, <2>2, <2>3, StepKnows
<1>10. CASE StartSession(p)
  <2>1. /\ pc[p] = "session" /\ pc'[p] = "leave" /\ UNCHANGED <<ops, job, workspace, record>>
        /\ job[p].rec.gen = workspace /\ sessions' = sessions \cup {workspace}
    BY <1>2, <1>10 DEF StartSession, Goto
  <2>2. record.gen = workspace BY <1>0, <2>1 DEF Known
  <2>3. Known(p)' /\ EndpointIsKnown' BY <2>1, <2>2 DEF Known, EndpointIsKnown
  <2>4. pc[p] \in Inside /\ pc'[p] \notin Early BY <2>1 DEF Inside, Early, Waiting
  <2>5. QED BY <1>1, <2>1, <2>3, <2>4, StepKnows
<1>11. CASE PruneRemoves(p)
  <2>1. /\ pc[p] = "removal" /\ pc'[p] = "forget" /\ UNCHANGED <<ops, job, sessions, record>>
        /\ workspace' = 0
    BY <1>2, <1>11 DEF PruneRemoves, Goto
  <2>2. Known(p)' /\ EndpointIsKnown' BY <1>2, <2>1 DEF Known, EndpointIsKnown
  <2>3. pc'[p] \notin Early BY <2>1 DEF Early, Waiting
  <2>4. QED BY <1>1, <2>1, <2>2, <2>3, StepKnows
<1>12. CASE Forget(p)
  <2>1. /\ pc[p] = "forget" /\ pc'[p] = "leave" /\ UNCHANGED <<ops, job, sessions, workspace>>
    BY <1>2, <1>12 DEF Forget, Goto
  <2>2. workspace = 0 BY <1>0, <2>1 DEF Known
  <2>3. Known(p)' /\ EndpointIsKnown' BY <1>2, <2>1, <2>2 DEF Known, EndpointIsKnown
  <2>4. pc[p] \in Inside /\ pc'[p] \notin Early BY <2>1 DEF Inside, Early, Waiting
  <2>5. QED BY <1>1, <2>1, <2>3, <2>4, StepKnows
<1>13. QED BY <1>3, <1>4, <1>5, <1>6, <1>7, <1>8, <1>9, <1>10, <1>11, <1>12 DEF Step

LEMMA KInductive ==
    ASSUME FenceAssumption, KInv, [Next]_vars
    PROVE  KInv'
<1>1. RInv' BY RInductive DEF KInv
<1>2. RInv /\ IInv /\ TypeOK /\ EndpointIsKnown /\ IInv' BY <1>1 DEF KInv, RInv, IInv
<1>3. CASE Outside \/ UNCHANGED vars
  <2>1. /\ UNCHANGED <<record, pc, job>> /\ ops' \in {ops, ops + 1} /\ ops \in Nat
        /\ sessions' \subseteq sessions /\ workspace' \in {0, workspace}
    BY <1>2, <1>3 DEF Outside, SessionEnds, DeleteWorkspace, Repoint, vars, data, TypeOK
  <2>2. 0 \notin sessions /\ workspace \in Nat /\ sessions \subseteq Nat BY <1>2 DEF TypeOK
  <2>3. ASSUME NEW p \in Procs PROVE Fresh(p)' /\ Known(p)'
    <3>1. Fresh(p) /\ Known(p) /\ Sound(p) /\ job[p] \in Jobs BY <1>2 DEF KInv, IInv, TypeOK
    <3>2. pc[p] \in Early => pc[p] # "idle" BY DEF Early, Waiting
    <3>3. job[p].num \in Nat BY <3>1 DEF Jobs
    <3>4. pc[p] # "idle" => job[p].num # 0 BY <3>1 DEF Sound
    <3>5. Fresh(p)' BY <2>1, <2>2, <3>1, <3>2, <3>3, <3>4 DEF Fresh
    <3>6. Known(p)' BY <2>1, <3>1 DEF Known
    <3>7. QED BY <3>5, <3>6
  <2>4. Past'
    <3>1. workspace' <= ops' BY <2>1, <2>2 DEF KInv, Past
    <3>2. ASSUME NEW gen \in sessions' PROVE gen <= ops'
      <4>1. gen \in Nat /\ gen <= ops BY <2>1, <2>2 DEF KInv, Past
      <4>2. QED BY <2>1, <4>1
    <3>3. QED BY <3>1, <3>2 DEF Past
  <2>5. EndpointIsKnown' BY <1>2, <2>1, <2>2 DEF EndpointIsKnown
  <2>6. QED BY <1>1, <2>3, <2>4, <2>5 DEF KInv
<1>4. ASSUME NEW p \in Procs, Starts(p) \/ Step(p) \/ GiveUp(p) \/ Crash(p) PROVE KInv'
  BY <1>1, <1>4, CommandKnows
<1>5. QED BY <1>3, <1>4 DEF Next

LEMMA InitKInv == ASSUME FenceAssumption, Init PROVE KInv
<1>1. RInv BY InitRInv
<1>2. EndpointIsKnown /\ Past BY DEF Init, EndpointIsKnown, Past
<1>3. ASSUME NEW p \in Procs PROVE Fresh(p) /\ Known(p)
  BY DEF Init, Fresh, Known, Early, Waiting
<1>4. QED BY <1>1, <1>2, <1>3 DEF KInv

\* A live session of the present worktree is always the one the provenance names,
\* whatever import, attachment, prune or removal ends half way: sessions are
\* started under the fences of a record that was just read or saved, and a record
\* is replaced only with its worktree.
THEOREM EndpointStaysKnown ==
    ASSUME FenceAssumption
    PROVE  Spec => []EndpointIsKnown
<1>1. Init => KInv BY InitKInv
<1>2. KInv /\ [Next]_vars => KInv' BY KInductive
<1>3. KInv => EndpointIsKnown BY DEF KInv
<1>4. QED BY <1>1, <1>2, <1>3, PTL DEF Spec
=============================================================================
