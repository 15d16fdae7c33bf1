------------------------- MODULE OperationHubProofs -------------------------
(* Theorems about OperationHub, for every number of operations,            *)
(* subscriptions, identifiers and every limit of the hub.                  *)
EXTENDS OperationHub, FiniteSetTheorems, TLAPS

-----------------------------------------------------------------------------
(* Pruning only removes, and only what is terminal and has no worker. *)

\* pruneCompletedLocked deletes only terminal entries without a worker.
LEMMA PruneCompletedKeeps ==
    ASSUME NEW K, NEW term, NEW at, NEW act, NEW keep \in PruneCompleted(K, term, at, act)
    PROVE  /\ keep \subseteq K
           /\ \A e \in K : ~term[e] \/ e \in act => e \in keep
BY DEF PruneCompleted, Removable

\* pruneLocked, which also drops expired entries, deletes no others either.
LEMMA PruneLockedKeeps ==
    ASSUME NEW K, NEW act, NEW keep \in PruneLocked(K, act)
    PROVE  /\ keep \subseteq K
           /\ \A e \in K : ~terminal[e] \/ e \in act => e \in keep
<1> DEFINE expired == {e \in K \ act : terminal[e] /\ now >= completedAt[e] + Retention}
<1>1. keep \in PruneCompleted(K \ expired, terminal, completedAt, act)
  BY DEF PruneLocked
<1>2. /\ keep \subseteq K \ expired
      /\ \A e \in K \ expired : ~terminal[e] \/ e \in act => e \in keep
  BY <1>1, PruneCompletedKeeps
<1> QED
  BY <1>2

-----------------------------------------------------------------------------
(* Type correctness. *)

\* Every limit leaves a completion of the hub's own within the byte budget.
LEMMA ByteLimits ==
    NonterminalByteLimit \in Nat /\ NonterminalByteLimit + CompletionSize <= MaxBytes
BY HubAssumption DEF NonterminalByteLimit, SmallerOf

\* An event that appendLocked admits stays within MaxBytes.
LEMMA FitsWithinBytes ==
    ASSUME TypeOK, NEW e \in Entries, NEW kind, NEW size \in Nat, Fits(e, kind, size)
    PROVE  bytes[e] + size \in 0..MaxBytes
<1>1. bytes[e] \in 0..MaxBytes
  BY DEF TypeOK
<1>2. bytes[e] + size <= MaxBytes
  BY <1>1, ByteLimits, HubAssumption DEF Fits
<1> QED
  BY <1>1, <1>2, HubAssumption

\* appendLocked of a progress or prompt event keeps the types.
LEMMA PublishType ==
    ASSUME TypeOK, NEW e \in Entries, NEW kind \in {"progress", "prompt"}, NEW size \in Nat,
           Fits(e, kind, size), Publish(e, kind, size)
    PROVE  /\ live' \subseteq Entries
           /\ opId' \in [Entries -> Ids \cup {NoId}]
           /\ events' \in [Entries -> Seq(Event)]
           /\ bytes' \in [Entries -> 0..MaxBytes]
           /\ terminal' \in [Entries -> BOOLEAN] /\ completedAt' \in [Entries -> Nat]
           /\ cancelled' \in [Entries -> BOOLEAN]
           /\ lossTimer' \in [Entries -> Nat] /\ lossToken' \in [Entries -> Nat]
           /\ fired' \subseteq Entries \X Nat /\ attachToken' \in [Entries -> Nat]
           /\ subEntry' \in [Subs -> Entries \cup {NoEntry}]
           /\ registered' \subseteq Subs /\ counted' \subseteq Subs
           /\ capacity' \in [Subs -> Nat] /\ queue' \in [Subs -> Seq(Nat)]
           /\ cursor' \in [Subs -> Nat] /\ closes' \in [Subs -> Nat]
<1>1. bytes' \in [Entries -> 0..MaxBytes]
  BY FitsWithinBytes DEF Publish, TypeOK
<1>2. events' \in [Entries -> Seq(Event)]
  <2>1. [kind |-> kind, outcome |-> "none"] \in Event
    BY DEF Event
  <2> QED
    BY <2>1 DEF Publish, TypeOK
<1>3. queue' \in [Subs -> Seq(Nat)]
  BY DEF Publish, Dispatched, TypeOK
<1>4. closes' \in [Subs -> Nat] /\ registered' \subseteq Subs
  BY DEF Publish, CloseAll, TypeOK
<1>5. lossTimer' \in [Entries -> Nat] /\ lossToken' \in [Entries -> Nat]
  <2>1. lossTimer \in [Entries -> Nat] /\ lossToken \in [Entries -> Nat]
    BY DEF TypeOK
  <2>2. ScheduleSubscriberLoss(e, SubscribersOf(e) \ Overflown(e, kind))
    BY DEF Publish
  <2> QED
    BY <2>1, <2>2 DEF ScheduleSubscriberLoss
<1> QED
  BY <1>1, <1>2, <1>3, <1>4, <1>5 DEF Publish, TypeOK

\* A completion, followed by the pruning of the map, keeps the types.
LEMMA CompleteType ==
    ASSUME TypeOK, NEW e \in Entries, NEW outcome \in Outcomes, NEW size \in Nat,
           Complete(e, outcome, size), PruneAfterTerminal(ActiveWorkers),
           UNCHANGED <<draining, gateDraining, now>>,
           worker' \in [Entries -> WorkerStates], reserved' \subseteq Entries
    PROVE  TypeOK'
<1>1. bytes' \in [Entries -> 0..MaxBytes]
  BY FitsWithinBytes DEF Complete, TypeOK
<1>2. events' \in [Entries -> Seq(Event)]
  <2>1. [kind |-> "complete", outcome |-> outcome] \in Event
    BY DEF Event
  <2> QED
    BY <2>1 DEF Complete, TypeOK
<1>3. queue' \in [Subs -> Seq(Nat)]
  BY DEF Complete, Dispatched, TypeOK
<1>4. closes' \in [Subs -> Nat] /\ registered' \subseteq Subs
  <2>1. closes \in [Subs -> Nat] /\ registered \subseteq Subs
    BY DEF TypeOK
  <2>2. closes' = CloseAll(SubscribersOf(e)) /\ registered' \subseteq registered
    BY DEF Complete
  <2> QED
    BY <2>1, <2>2 DEF CloseAll
<1>5. /\ terminal' \in [Entries -> BOOLEAN] /\ cancelled' \in [Entries -> BOOLEAN]
      /\ completedAt' \in [Entries -> Nat]
  BY DEF Complete, TypeOK
<1>6. lossTimer' \in [Entries -> Nat] /\ lossToken' \in [Entries -> Nat]
  <2>1. lossTimer \in [Entries -> Nat] /\ lossToken \in [Entries -> Nat]
    BY DEF TypeOK
  <2>2. /\ lossTimer' = [lossTimer EXCEPT ![e] = 0]
        /\ \/ lossToken' = lossToken
           \/ lossToken' = [lossToken EXCEPT ![e] = @ + 1]
    BY DEF Complete
  <2> QED
    BY <2>1, <2>2
<1>7. live' \subseteq Entries
  BY PruneCompletedKeeps DEF PruneAfterTerminal, TypeOK
<1>8. prompt' \in [Entries -> Nat]
  BY DEF Complete, TypeOK
<1> QED
  BY <1>1, <1>2, <1>3, <1>4, <1>5, <1>6, <1>7, <1>8 DEF Complete, TypeOK

\* Every step of the hub, its clients, workers and timers keeps the types.
LEMMA TypeStep == TypeOK /\ [Next]_vars => TypeOK'
<1> SUFFICES ASSUME TypeOK, [Next]_vars PROVE TypeOK'
  OBVIOUS
<1> USE DEF hubVars, logVars, workVars, timerVars, promptVars, subVars
<1>0. live \subseteq Entries /\ EventSizes \subseteq Nat
  BY HubAssumption DEF TypeOK
<1>1. ASSUME NEW id \in Ids, NEW e \in Entries, Start(id, e) PROVE TypeOK'
  <2>1. live' \subseteq Entries
    BY <1>0, <1>1, PruneLockedKeeps DEF Start
  <2>2. lossTimer' \in [Entries -> Nat] /\ lossToken' \in [Entries -> Nat]
    <3>1. lossTimer \in [Entries -> Nat] /\ lossToken \in [Entries -> Nat]
      BY DEF TypeOK
    <3> QED
      BY <1>1, <3>1 DEF Start, ScheduleSubscriberLoss
  <2>3. /\ opId' \in [Entries -> Ids \cup {NoId}] /\ worker' \in [Entries -> WorkerStates]
        /\ reserved' \subseteq Entries
    BY <1>1 DEF Start, TypeOK, WorkerStates
  <2> QED
    BY <1>1, <2>1, <2>2, <2>3 DEF Start, TypeOK
<1>2. CASE CallWithoutEffect
  <2>1. live' \subseteq Entries
    BY <1>0, <1>2, PruneLockedKeeps DEF CallWithoutEffect
  <2> QED
    BY <1>2, <2>1 DEF CallWithoutEffect, TypeOK
<1>3. ASSUME NEW s \in Subs, NEW e \in Entries, NEW after \in 0..MaxEvents,
             Subscribe(s, e, after)
      PROVE  TypeOK'
  <2>1. live' \subseteq Entries
    BY <1>0, <1>3, PruneLockedKeeps DEF Subscribe
  <2>2. Replay(e, after) \in Seq(Nat)
    BY HubAssumption, <1>3 DEF Subscribe, Replay, TypeOK
  <2>3. queue' \in [Subs -> Seq(Nat)]
    BY <1>3, <2>2 DEF Subscribe, TypeOK
  <2>4. capacity' \in [Subs -> Nat]
    <3>1. capacity \in [Subs -> Nat] /\ Len(Replay(e, after)) \in Nat
      BY <2>2 DEF TypeOK
    <3>2. Len(Replay(e, after)) + SubscriberQueue + 1 \in Nat
      BY <3>1, HubAssumption
    <3> QED
      BY <1>3, <3>1, <3>2 DEF Subscribe
  <2>5. closes' \in [Subs -> Nat]
    BY <1>3 DEF Subscribe, CloseAll, TypeOK
  <2>6. lossTimer' \in [Entries -> Nat] /\ attachToken' \in [Entries -> Nat]
    BY <1>3 DEF Subscribe, TypeOK
  <2>7. /\ subEntry' \in [Subs -> Entries \cup {NoEntry}] /\ cursor' \in [Subs -> Nat]
        /\ registered' \subseteq Subs /\ counted' \subseteq Subs
    <3>1. after \in Nat
      BY HubAssumption
    <3> QED
      BY <1>3, <3>1 DEF Subscribe, TypeOK
  <2> QED
    BY <1>3, <2>1, <2>3, <2>4, <2>5, <2>6, <2>7 DEF Subscribe, TypeOK
<1>4. ASSUME NEW s \in Subs, Receive(s) PROVE TypeOK'
  <2>1. queue[s] \in Seq(Nat) /\ queue[s] # <<>>
    BY <1>4 DEF Receive, TypeOK
  <2>2. Head(queue[s]) \in Nat /\ Tail(queue[s]) \in Seq(Nat)
    BY <2>1
  <2>3. queue' \in [Subs -> Seq(Nat)] /\ cursor' \in [Subs -> Nat]
    BY <1>4, <2>2 DEF Receive, TypeOK
  <2> QED
    BY <1>4, <2>3 DEF Receive, TypeOK
<1>5. ASSUME NEW s \in Subs, CloseSubscription(s) PROVE TypeOK'
  <2>1. lossTimer' \in [Entries -> Nat] /\ lossToken' \in [Entries -> Nat]
    <3>1. lossTimer \in [Entries -> Nat] /\ lossToken \in [Entries -> Nat]
      BY DEF TypeOK
    <3>2. ScheduleSubscriberLoss(subEntry[s], SubscribersOf(subEntry[s]) \ {s})
      BY <1>5 DEF CloseSubscription
    <3>3. CASE subEntry[s] \in Entries
      BY <3>1, <3>2, <3>3 DEF ScheduleSubscriberLoss
    <3>4. CASE subEntry[s] \notin Entries
      BY <3>1, <3>2, <3>4 DEF ScheduleSubscriberLoss
    <3> QED
      BY <3>3, <3>4
  <2>2. closes' \in [Subs -> Nat]
    BY <1>5 DEF CloseSubscription, CloseAll, TypeOK
  <2>3. queue' \in [Subs -> Seq(Nat)] /\ capacity' \in [Subs -> Nat]
    BY <1>5 DEF CloseSubscription, TypeOK
  <2>4. registered' \subseteq Subs /\ counted' \subseteq Subs
    BY <1>5 DEF CloseSubscription, Uncount, TypeOK
  <2> QED
    BY <1>5, <2>1, <2>2, <2>3, <2>4 DEF CloseSubscription, TypeOK
<1>6. ASSUME NEW id \in Ids, NEW p \in 1..MaxEvents, Respond(id, p) PROVE TypeOK'
  <2>1. answered' \in [Entries -> BOOLEAN] /\ responses' \in [Entries -> Nat]
    <3>1. answered \in [Entries -> BOOLEAN] /\ responses \in [Entries -> Nat]
      BY DEF TypeOK
    <3>2. PICK e \in Entries : /\ answered' = [answered EXCEPT ![e] = TRUE]
                               /\ responses' = [responses EXCEPT ![e] = @ + 1]
      BY <1>0, <1>6 DEF Respond
    <3> QED
      BY <3>1, <3>2
  <2>2. UNCHANGED <<hubVars, logVars, workVars, timerVars, subVars, prompt, prompter, asked>>
    BY <1>6 DEF Respond
  <2> QED
    BY <2>1, <2>2 DEF TypeOK
<1>7. ASSUME NEW id \in Ids, Cancel(id) PROVE TypeOK'
  BY <1>0, <1>7 DEF Cancel, TypeOK
<1>8. ASSUME NEW e \in Entries, NEW size \in EventSizes, Emit(e, size) PROVE TypeOK'
  <2>1. CASE Fits(e, "progress", size) /\ Publish(e, "progress", size) /\ UNCHANGED promptVars
    BY <1>0, <1>8, <2>1, PublishType DEF Emit, TypeOK
  <2>2. CASE TerminateCapacity(e) /\ PruneAfterTerminal(ActiveWorkers)
    BY <1>8, <2>2, CompleteType, HubAssumption DEF Emit, TerminateCapacity, Outcomes, TypeOK
  <2> QED
    BY <1>8, <2>1, <2>2 DEF Emit
<1>9. ASSUME NEW e \in Entries, NEW size \in EventSizes, PromptBegin(e, size) PROVE TypeOK'
  <2>1. CASE /\ Fits(e, "prompt", size) /\ Publish(e, "prompt", size)
             /\ prompt' = [prompt EXCEPT ![e] = Len(events[e]) + 1]
             /\ asked' = [asked EXCEPT ![e] = Len(events[e]) + 1]
             /\ answered' = [answered EXCEPT ![e] = FALSE]
             /\ responses' = [responses EXCEPT ![e] = 0]
             /\ prompter' = [prompter EXCEPT ![e] = "waiting"]
    <3>1. Len(events[e]) + 1 \in Nat
      BY DEF TypeOK
    <3>2. /\ prompt' \in [Entries -> Nat] /\ asked' \in [Entries -> Nat]
          /\ answered' \in [Entries -> BOOLEAN] /\ responses' \in [Entries -> Nat]
          /\ prompter' \in [Entries -> PrompterStates]
      BY <2>1, <3>1 DEF TypeOK, PrompterStates
    <3> QED
      BY <1>0, <1>9, <2>1, <3>2, PublishType DEF PromptBegin, TypeOK
  <2>2. CASE TerminateCapacity(e) /\ PruneAfterTerminal(ActiveWorkers)
    BY <1>9, <2>2, CompleteType, HubAssumption DEF PromptBegin, TerminateCapacity, Outcomes, TypeOK
  <2> QED
    BY <1>9, <2>1, <2>2 DEF PromptBegin
<1>10. ASSUME NEW e \in Entries, PromptAnswered(e) PROVE TypeOK'
  <2>1. responses[e] - 1 \in Nat
    BY <1>10 DEF PromptAnswered, TypeOK
  <2> QED
    BY <1>10, <2>1 DEF PromptAnswered, TypeOK, PrompterStates
<1>11. ASSUME NEW e \in Entries, PromptExpires(e) \/ PromptCancelled(e) PROVE TypeOK'
  BY <1>11 DEF PromptExpires, PromptCancelled, PromptGivesUp, TypeOK, PrompterStates
<1>12. ASSUME NEW e \in Entries, PromptLeave(e) PROVE TypeOK'
  BY <1>12 DEF PromptLeave, TypeOK, PrompterStates
<1>13. ASSUME NEW e \in Entries, NEW outcome \in Outcomes, NEW size \in EventSizes,
              Finish(e, outcome, size)
       PROVE  TypeOK'
  <2>1. worker' \in [Entries -> WorkerStates] /\ reserved' \subseteq Entries
    BY <1>13 DEF Finish, TypeOK, WorkerStates
  <2>2. CASE terminal[e] /\ UNCHANGED <<live, logVars, cancelled, timerVars, promptVars, subVars>>
    BY <1>13, <2>1, <2>2 DEF Finish, TypeOK
  <2>3. CASE /\ Complete(e, outcome, size) \/ Complete(e, "unknown", CompletionSize)
             /\ PruneAfterTerminal(ActiveWorkers)
    BY <1>0, <1>13, <2>1, <2>3, CompleteType, HubAssumption DEF Finish, Outcomes
  <2> QED
    BY <1>13, <2>2, <2>3 DEF Finish, TerminateCapacity
<1>14. ASSUME NEW e \in Entries, ReleaseReservation(e) PROVE TypeOK'
  BY <1>14 DEF ReleaseReservation, TypeOK, WorkerStates
<1>15. ASSUME NEW e \in Entries, RetireWorker(e) PROVE TypeOK'
  <2>1. live' \subseteq Entries
    BY <1>0, <1>15, PruneLockedKeeps DEF RetireWorker
  <2> QED
    BY <1>15, <2>1 DEF RetireWorker, TypeOK, WorkerStates
<1>16. ASSUME NEW e \in Entries, LossTimerFires(e) PROVE TypeOK'
  <2>1. <<e, lossTimer[e]>> \in Entries \X Nat
    BY DEF TypeOK
  <2>2. fired' \subseteq Entries \X Nat
    BY <1>16, <2>1 DEF LossTimerFires, TypeOK
  <2> QED
    BY <1>16, <2>2 DEF LossTimerFires, TypeOK
<1>17. ASSUME NEW e \in Entries, NEW token \in 1..lossToken[e], LossTimerCallback(e, token)
       PROVE  TypeOK'
  <2>1. cancelled' \in [Entries -> BOOLEAN] /\ lossTimer' \in [Entries -> Nat]
    <3>1. cancelled \in [Entries -> BOOLEAN] /\ lossTimer \in [Entries -> Nat]
      BY DEF TypeOK
    <3>2. /\ \/ cancelled' = cancelled
             \/ cancelled' = [cancelled EXCEPT ![e] = TRUE]
          /\ \/ lossTimer' = lossTimer
             \/ lossTimer' = [lossTimer EXCEPT ![e] = 0]
      BY <1>17 DEF LossTimerCallback
    <3>3. [cancelled EXCEPT ![e] = TRUE] \in [Entries -> BOOLEAN]
      BY <3>1, Zenon
    <3>4. [lossTimer EXCEPT ![e] = 0] \in [Entries -> Nat]
      BY <3>1
    <3> QED
      BY <3>1, <3>2, <3>3, <3>4, Zenon
  <2>2. fired' \subseteq Entries \X Nat
    BY <1>17 DEF LossTimerCallback, TypeOK
  <2> QED
    BY <1>17, <2>1, <2>2 DEF LossTimerCallback, TypeOK
<1>18. CASE Tick \/ GateBeginsDrain \/ BeginDrain
  <2>1. CASE Tick
    <3>1. now' \in Nat
      BY <2>1 DEF Tick, TypeOK
    <3> QED
      BY <2>1, <3>1 DEF Tick, TypeOK
  <2>2. CASE GateBeginsDrain
    BY <2>2 DEF GateBeginsDrain, TypeOK
  <2>3. CASE BeginDrain
    BY <2>3 DEF BeginDrain, TypeOK
  <2> QED
    BY <1>18, <2>1, <2>2, <2>3
<1>19. CASE CancelActiveForDrain
  <2>1. bytes' \in [Entries -> 0..MaxBytes]
    BY <1>19, FitsWithinBytes, HubAssumption DEF CancelActiveForDrain, TypeOK
  <2>2. events' \in [Entries -> Seq(Event)]
    <3>1. [kind |-> "complete", outcome |-> "unknown"] \in Event
      BY DEF Event, Outcomes
    <3> QED
      BY <1>19, <3>1 DEF CancelActiveForDrain, TypeOK
  <2>3. queue' \in [Subs -> Seq(Nat)]
    <3>1. \A s \in Subs : \A n \in Nat : Append(queue[s], n) \in Seq(Nat)
      BY DEF TypeOK
    <3>2. \A e \in Entries : Len(events[e]) + 1 \in Nat
      BY DEF TypeOK
    <3>3. \A s \in UNION {SubscribersOf(e) : e \in Unfinished} : subEntry[s] \in Entries
      BY <1>0 DEF SubscribersOf, Unfinished
    <3> QED
      BY <1>19, <3>1, <3>2, <3>3 DEF CancelActiveForDrain, TypeOK
  <2>4. closes' \in [Subs -> Nat] /\ registered' \subseteq Subs
    BY <1>19 DEF CancelActiveForDrain, CloseAll, TypeOK
  <2>5. /\ terminal' \in [Entries -> BOOLEAN] /\ cancelled' \in [Entries -> BOOLEAN]
        /\ completedAt' \in [Entries -> Nat] /\ prompt' \in [Entries -> Nat]
    BY <1>19 DEF CancelActiveForDrain, TypeOK
  <2>6. lossTimer' \in [Entries -> Nat] /\ lossToken' \in [Entries -> Nat]
    BY <1>19 DEF CancelActiveForDrain, TypeOK
  <2>7. live' \subseteq Entries
    BY <1>0, <1>19, PruneCompletedKeeps DEF CancelActiveForDrain, PruneAfterTerminal
  <2> QED
    BY <1>19, <2>1, <2>2, <2>3, <2>4, <2>5, <2>6, <2>7 DEF CancelActiveForDrain, TypeOK
<1>20. CASE UNCHANGED vars
  BY <1>20 DEF vars, TypeOK
<1> QED
  BY <1>1, <1>2, <1>3, <1>4, <1>5, <1>6, <1>7, <1>8, <1>9, <1>10, <1>11, <1>12, <1>13,
     <1>14, <1>15, <1>16, <1>17, <1>18, <1>19, <1>20 DEF Next

\* The hub's state always has its declared types; in particular no sequence of
\* events, prompts and completions makes a log exceed MaxBytes.
THEOREM TypeCorrect == Spec => []TypeOK
<1>1. Init => TypeOK
  <2> SUFFICES ASSUME Init PROVE TypeOK
    OBVIOUS
  <2>1. /\ opId \in [Entries -> Ids \cup {NoId}] /\ events \in [Entries -> Seq(Event)]
        /\ bytes \in [Entries -> 0..MaxBytes] /\ terminal \in [Entries -> BOOLEAN]
        /\ completedAt \in [Entries -> Nat]
    BY HubAssumption DEF Init
  <2>2. /\ cancelled \in [Entries -> BOOLEAN] /\ worker \in [Entries -> WorkerStates]
        /\ lossTimer \in [Entries -> Nat] /\ lossToken \in [Entries -> Nat]
        /\ attachToken \in [Entries -> Nat]
    BY DEF Init, WorkerStates
  <2>3. /\ prompt \in [Entries -> Nat] /\ asked \in [Entries -> Nat]
        /\ answered \in [Entries -> BOOLEAN] /\ responses \in [Entries -> Nat]
        /\ prompter \in [Entries -> PrompterStates]
    BY DEF Init, PrompterStates
  <2>4. /\ subEntry \in [Subs -> Entries \cup {NoEntry}] /\ capacity \in [Subs -> Nat]
        /\ queue \in [Subs -> Seq(Nat)] /\ cursor \in [Subs -> Nat]
        /\ closes \in [Subs -> Nat]
    BY DEF Init
  <2>5. /\ live \subseteq Entries /\ draining \in BOOLEAN /\ gateDraining \in BOOLEAN
        /\ now \in Nat /\ reserved \subseteq Entries /\ fired \subseteq Entries \X Nat
        /\ registered \subseteq Subs /\ counted \subseteq Subs
    BY DEF Init
  <2> QED
    BY <2>1, <2>2, <2>3, <2>4, <2>5 DEF TypeOK
<1> QED
  BY <1>1, TypeStep, PTL DEF Spec

-----------------------------------------------------------------------------
(* Identifiers, workers and reservations. *)

\* A finished worker has published its end; a live entry has had a worker;
\* entries with a worker are live; live entries have distinct identifiers; a
\* running worker holds its reservation; the gate drains before the hub.
WorkInv ==
    /\ \A e \in Entries : worker[e] \in {"finished", "released", "gone"} => terminal[e]
    /\ \A e \in live : worker[e] # "none"
    /\ \A e \in Entries : WorkerActive(e) => e \in live
    /\ \A e, f \in live : opId[e] = opId[f] => e = f
    /\ \A e \in Entries : worker[e] = "running" => e \in reserved
    /\ draining => gateDraining

\* A completion followed by pruning drops no entry that has a worker.
LEMMA CompleteWork ==
    ASSUME TypeOK, WorkInv, NEW e \in Entries, NEW outcome, NEW size,
           Complete(e, outcome, size), PruneAfterTerminal(ActiveWorkers),
           UNCHANGED <<draining, gateDraining, reserved>>,
           \/ worker' = worker
           \/ worker[e] = "running" /\ worker' = [worker EXCEPT ![e] = "finished"]
    PROVE  WorkInv'
<1>1. /\ live' \subseteq live
      /\ \A f \in live : WorkerActive(f) => f \in live'
  BY PruneCompletedKeeps DEF PruneAfterTerminal, ActiveWorkers, TypeOK
<1>2. /\ terminal' = [terminal EXCEPT ![e] = TRUE] /\ opId' = opId
      /\ terminal \in [Entries -> BOOLEAN] /\ worker \in [Entries -> WorkerStates]
      /\ live \subseteq Entries
  BY DEF Complete, TypeOK
<1>3. \A f \in Entries : WorkerActive(f)' => WorkerActive(f)
  BY <1>2 DEF WorkerActive
<1>4. \A f \in Entries : worker'[f] \in {"finished", "released", "gone"} => terminal'[f]
  BY <1>2 DEF WorkInv
<1>5. \A f \in live' : worker'[f] # "none"
  BY <1>1, <1>2 DEF WorkInv
<1>6. \A f \in Entries : WorkerActive(f)' => f \in live'
  BY <1>1, <1>3 DEF WorkInv
<1>7. \A f \in Entries : worker'[f] = "running" => f \in reserved'
  BY <1>2 DEF WorkInv
<1>8. \A f, g \in live' : opId'[f] = opId'[g] => f = g
  BY <1>1, <1>2 DEF WorkInv
<1> QED
  BY <1>4, <1>5, <1>6, <1>7, <1>8 DEF WorkInv

\* A step that only prunes the map keeps WorkInv.
LEMMA PruneWork ==
    ASSUME TypeOK, WorkInv, live' \in PruneLocked(live, ActiveWorkers),
           UNCHANGED <<opId, worker, terminal, reserved, draining, gateDraining>>
    PROVE  WorkInv'
<1>1. live' \subseteq live /\ \A f \in live : WorkerActive(f) => f \in live'
  BY PruneLockedKeeps DEF ActiveWorkers, TypeOK
<1>2. live \subseteq Entries
  BY DEF TypeOK
<1> QED
  BY <1>1, <1>2 DEF WorkInv, WorkerActive

\* Every step keeps WorkInv.
LEMMA WorkStep == TypeOK /\ WorkInv /\ [Next]_vars => WorkInv'
<1> SUFFICES ASSUME TypeOK, WorkInv, [Next]_vars PROVE WorkInv'
  OBVIOUS
<1> USE DEF hubVars, logVars, workVars, timerVars, promptVars, subVars
<1>0. /\ live \subseteq Entries /\ worker \in [Entries -> WorkerStates]
      /\ opId \in [Entries -> Ids \cup {NoId}] /\ terminal \in [Entries -> BOOLEAN]
  BY DEF TypeOK
<1>1. ASSUME NEW id \in Ids, NEW e \in Entries, Start(id, e) PROVE WorkInv'
  <2>1. PICK kept \in PruneLocked(live, ActiveWorkers) :
            /\ \A f \in kept : opId[f] # id
            /\ live' = kept \cup {e}
            /\ ~draining
    BY <1>1 DEF Start
  <2>2. kept \subseteq live /\ \A f \in live : WorkerActive(f) => f \in kept
    BY <1>0, PruneLockedKeeps DEF ActiveWorkers
  <2>3. /\ worker[e] = "none" /\ worker' = [worker EXCEPT ![e] = "running"]
        /\ opId' = [opId EXCEPT ![e] = id] /\ terminal' = terminal
        /\ reserved' = reserved \cup {e} /\ draining' = draining
    BY <1>1 DEF Start
  <2>4. e \notin kept
    BY <2>2, <2>3 DEF WorkInv
  <2>5. \A f \in Entries : worker'[f] \in {"finished", "released", "gone"} => terminal'[f]
    BY <1>0, <2>3 DEF WorkInv
  <2>6. \A f \in live' : worker'[f] # "none"
    BY <1>0, <2>1, <2>2, <2>3 DEF WorkInv
  <2>7. \A f \in Entries : WorkerActive(f)' => f \in live'
    BY <1>0, <2>1, <2>2, <2>3 DEF WorkInv, WorkerActive
  <2>8. \A f, g \in live' : opId'[f] = opId'[g] => f = g
    BY <1>0, <2>1, <2>2, <2>3, <2>4 DEF WorkInv
  <2>9. \A f \in Entries : worker'[f] = "running" => f \in reserved'
    BY <1>0, <2>3 DEF WorkInv
  <2> QED
    BY <2>1, <2>3, <2>5, <2>6, <2>7, <2>8, <2>9 DEF WorkInv
<1>2. CASE CallWithoutEffect
  BY <1>2, PruneWork DEF CallWithoutEffect
<1>3. ASSUME NEW s \in Subs, NEW e \in Entries, NEW after \in 0..MaxEvents,
             Subscribe(s, e, after)
      PROVE  WorkInv'
  BY <1>3, PruneWork DEF Subscribe
<1>4. ASSUME NEW e \in Entries, NEW size \in EventSizes,
             Emit(e, size) \/ PromptBegin(e, size)
      PROVE  WorkInv'
  <2>1. CASE \E kind \in {"progress", "prompt"} : Publish(e, kind, size)
    BY <1>0, <1>4, <2>1 DEF Emit, PromptBegin, Publish, WorkInv, WorkerActive
  <2>2. CASE TerminateCapacity(e) /\ PruneAfterTerminal(ActiveWorkers)
    BY <1>4, <2>2, CompleteWork DEF Emit, PromptBegin, TerminateCapacity
  <2> QED
    BY <1>4, <2>1, <2>2 DEF Emit, PromptBegin
<1>5. ASSUME NEW e \in Entries, NEW outcome \in Outcomes, NEW size \in EventSizes,
             Finish(e, outcome, size)
      PROVE  WorkInv'
  <2>1. CASE terminal[e] /\ UNCHANGED <<live, logVars>>
    BY <1>0, <1>5, <2>1 DEF Finish, WorkInv, WorkerActive
  <2>2. CASE /\ Complete(e, outcome, size) \/ Complete(e, "unknown", CompletionSize)
             /\ PruneAfterTerminal(ActiveWorkers)
    BY <1>5, <2>2, CompleteWork DEF Finish
  <2> QED
    BY <1>5, <2>1, <2>2 DEF Finish, TerminateCapacity
<1>6. ASSUME NEW e \in Entries, ReleaseReservation(e) PROVE WorkInv'
  BY <1>0, <1>6 DEF ReleaseReservation, WorkInv, WorkerActive
<1>7. ASSUME NEW e \in Entries, RetireWorker(e) PROVE WorkInv'
  <2>1. live' \subseteq live /\ \A f \in live : WorkerActive(f) /\ f # e => f \in live'
    BY <1>0, <1>7, PruneLockedKeeps DEF RetireWorker, ActiveWorkers
  <2>2. /\ worker[e] = "released" /\ worker' = [worker EXCEPT ![e] = "gone"]
        /\ UNCHANGED <<opId, terminal, reserved, draining, gateDraining>>
    BY <1>7 DEF RetireWorker
  <2> QED
    BY <1>0, <2>1, <2>2 DEF WorkInv, WorkerActive
<1>8. CASE GateBeginsDrain \/ BeginDrain \/ Tick
  BY <1>8 DEF GateBeginsDrain, BeginDrain, Tick, WorkInv, WorkerActive
<1>9. CASE CancelActiveForDrain
  <2>1. live' \subseteq live /\ \A f \in live : WorkerActive(f) => f \in live'
    BY <1>0, <1>9, PruneCompletedKeeps
       DEF CancelActiveForDrain, PruneAfterTerminal, ActiveWorkers
  <2>2. /\ \A f \in Entries : terminal[f] => terminal'[f]
        /\ UNCHANGED <<opId, worker, reserved, draining, gateDraining>>
    BY <1>9 DEF CancelActiveForDrain
  <2> QED
    BY <1>0, <2>1, <2>2 DEF WorkInv, WorkerActive
<1>10. CASE UNCHANGED <<live, opId, worker, terminal, reserved, draining, gateDraining>>
  BY <1>10 DEF WorkInv, WorkerActive
<1>11. ASSUME NEW s \in Subs, Receive(s) \/ CloseSubscription(s) PROVE WorkInv'
  BY <1>10, <1>11 DEF Receive, CloseSubscription
<1>12. ASSUME NEW id \in Ids, (\E p \in 1..MaxEvents : Respond(id, p)) \/ Cancel(id)
       PROVE  WorkInv'
  BY <1>10, <1>12 DEF Respond, Cancel
<1>13. ASSUME NEW e \in Entries,
              \/ PromptAnswered(e) \/ PromptExpires(e) \/ PromptCancelled(e) \/ PromptLeave(e)
              \/ LossTimerFires(e)
              \/ \E token \in 1..lossToken[e] : LossTimerCallback(e, token)
       PROVE  WorkInv'
  BY <1>10, <1>13 DEF PromptAnswered, PromptExpires, PromptCancelled, PromptGivesUp,
                      PromptLeave, LossTimerFires, LossTimerCallback
<1>14. CASE UNCHANGED vars
  BY <1>10, <1>14 DEF vars
<1> QED
  BY <1>1, <1>2, <1>3, <1>4, <1>5, <1>6, <1>7, <1>8, <1>9, <1>11, <1>12, <1>13, <1>14 DEF Next

\* Reusing an operation ID never gives two workers to one ID, and a gate
\* reservation covers every unfinished operation, however completions,
\* pruning, drains and retries of Start interleave.
THEOREM WorkIsExclusiveAndReserved == Spec => []WorkIsExclusiveAndCounted
<1>1. Init => WorkInv
  BY DEF Init, WorkInv, WorkerActive
<1>2. TypeOK /\ WorkInv => WorkIsExclusiveAndCounted
  <2> SUFFICES ASSUME TypeOK, WorkInv PROVE OneWorkerPerOperationId /\ ReservationCoversTheWork
    BY DEF WorkIsExclusiveAndCounted
  <2>1. OneWorkerPerOperationId
    BY DEF WorkInv, OneWorkerPerOperationId
  <2>2. \A e \in live : ~terminal[e] => worker[e] = "running"
    BY DEF WorkInv, TypeOK, WorkerStates
  <2>3. ReservationCoversTheWork
    BY <2>2 DEF WorkInv, ReservationCoversTheWork
  <2> QED
    BY <2>1, <2>3
<1> QED
  BY <1>1, <1>2, WorkStep, TypeCorrect, PTL DEF Spec

-----------------------------------------------------------------------------
(* Prompts. *)

\* A prompt's channel holds at most one value, and none before an answer.
PromptInv ==
    \A e \in Entries : responses[e] \in 0..1 /\ (~answered[e] => responses[e] = 0)

\* Every step keeps PromptInv.
LEMMA PromptStep == TypeOK /\ PromptInv /\ [Next]_vars => PromptInv'
<1> SUFFICES ASSUME TypeOK, PromptInv, [Next]_vars PROVE PromptInv'
  OBVIOUS
<1> USE DEF hubVars, logVars, workVars, timerVars, promptVars, subVars
<1>0. /\ responses \in [Entries -> Nat] /\ answered \in [Entries -> BOOLEAN]
      /\ live \subseteq Entries
  BY DEF TypeOK
<1>1. CASE UNCHANGED <<responses, answered>>
  BY <1>1 DEF PromptInv
<1>2. ASSUME NEW e \in Entries, NEW size \in EventSizes, PromptBegin(e, size) PROVE PromptInv'
  <2>1. CASE /\ answered' = [answered EXCEPT ![e] = FALSE]
             /\ responses' = [responses EXCEPT ![e] = 0]
    BY <1>0, <2>1 DEF PromptInv
  <2>2. CASE TerminateCapacity(e)
    BY <1>1, <2>2 DEF TerminateCapacity, Complete
  <2> QED
    BY <1>2, <2>1, <2>2 DEF PromptBegin
<1>3. ASSUME NEW id \in Ids, NEW p \in 1..MaxEvents, Respond(id, p) PROVE PromptInv'
  BY <1>0, <1>3 DEF Respond, AcceptsResponse, PromptInv
<1>4. ASSUME NEW e \in Entries, PromptAnswered(e) PROVE PromptInv'
  BY <1>0, <1>4 DEF PromptAnswered, PromptInv
<1>5. ASSUME NEW e \in Entries, PromptLeave(e) PROVE PromptInv'
  BY <1>0, <1>5 DEF PromptLeave, PromptInv
<1>6. CASE \/ \E id \in Ids, e \in Entries : Start(id, e)
           \/ CallWithoutEffect
           \/ \E s \in Subs, e \in Entries : \E after \in 0..MaxEvents : Subscribe(s, e, after)
           \/ \E s \in Subs : Receive(s) \/ CloseSubscription(s)
           \/ \E id \in Ids : Cancel(id)
  BY <1>1, <1>6 DEF Start, CallWithoutEffect, Subscribe, Receive, CloseSubscription, Cancel
<1>7. CASE \E e \in Entries : \/ \E size \in EventSizes : Emit(e, size)
                             \/ PromptExpires(e) \/ PromptCancelled(e)
                             \/ ReleaseReservation(e) \/ RetireWorker(e)
  BY <1>1, <1>7 DEF Emit, Publish, TerminateCapacity, Complete, PromptExpires,
                    PromptCancelled, PromptGivesUp, ReleaseReservation, RetireWorker
<1>8. CASE \E e \in Entries, outcome \in Outcomes, size \in EventSizes : Finish(e, outcome, size)
  BY <1>1, <1>8 DEF Finish, TerminateCapacity, Complete
<1>9. CASE \/ \E e \in Entries : LossTimerFires(e)
           \/ \E e \in Entries : \E token \in 1..lossToken[e] : LossTimerCallback(e, token)
           \/ Tick \/ GateBeginsDrain \/ BeginDrain \/ CancelActiveForDrain \/ UNCHANGED vars
  BY <1>1, <1>9 DEF LossTimerFires, LossTimerCallback, Tick, GateBeginsDrain, BeginDrain,
                    CancelActiveForDrain, vars
<1> QED
  BY <1>2, <1>3, <1>4, <1>5, <1>6, <1>7, <1>8, <1>9 DEF Next

\* Respond never blocks while it holds the hub's mutex, whatever late,
\* repeated or stale answers clients send.
THEOREM RespondIsSafe == Spec => []RespondNeverBlocks
<1>1. Init => PromptInv
  BY DEF Init, PromptInv
<1>2. PromptInv => RespondNeverBlocks
  BY DEF PromptInv, RespondNeverBlocks
<1> QED
  BY <1>1, <1>2, PromptStep, TypeCorrect, PTL DEF Spec

-----------------------------------------------------------------------------
(* The retained log. *)

\* An unfinished log has no completion and keeps room for one.
LogOpen(e) ==
    /\ Len(events[e]) <= MaxEvents - 1
    /\ bytes[e] <= NonterminalByteLimit
    /\ \A i \in 1..Len(events[e]) : events[e][i].kind # "complete"

\* A finished log ends with its only completion.
LogClosed(e) ==
    /\ Len(events[e]) \in 1..MaxEvents
    /\ \A i \in 1..Len(events[e]) : events[e][i].kind = "complete" <=> i = Len(events[e])

LogInv == \A e \in Entries : IF terminal[e] THEN LogClosed(e) ELSE LogOpen(e)

\* Room is kept for the hub's own completion, so it always fits.
LEMMA CompletionFits ==
    ASSUME TypeOK, LogInv, NEW e \in Entries, ~terminal[e]
    PROVE  Fits(e, "complete", CompletionSize)
<1>1. bytes[e] \in Nat /\ Len(events[e]) \in Nat
  BY HubAssumption DEF TypeOK
<1>2. Len(events[e]) <= MaxEvents - 1 /\ bytes[e] <= NonterminalByteLimit
  BY DEF LogInv, LogOpen
<1> QED
  BY <1>1, <1>2, ByteLimits, HubAssumption DEF Fits

\* Appending a completion to an open log closes it.
LEMMA AppendCloses ==
    ASSUME TypeOK, NEW e \in Entries, LogOpen(e), NEW outcome,
           events'[e] = Append(events[e], [kind |-> "complete", outcome |-> outcome])
    PROVE  LogClosed(e)'
<1>1. events[e] \in Seq(Event) /\ MaxEvents \in Nat
  BY HubAssumption DEF TypeOK
<1>2. /\ Len(events'[e]) = Len(events[e]) + 1
      /\ \A i \in 1..Len(events[e]) : events'[e][i] = events[e][i]
      /\ events'[e][Len(events[e]) + 1] = [kind |-> "complete", outcome |-> outcome]
  BY <1>1
<1>3. Len(events'[e]) \in 1..MaxEvents
  BY <1>1, <1>2 DEF LogOpen
<1>4. ASSUME NEW i \in 1..Len(events'[e])
      PROVE  events'[e][i].kind = "complete" <=> i = Len(events'[e])
  <2>1. CASE i \in 1..Len(events[e])
    BY <1>1, <1>2, <2>1 DEF LogOpen
  <2>2. CASE i = Len(events[e]) + 1
    BY <1>2, <2>2
  <2> QED
    BY <1>1, <1>2, <2>1, <2>2
<1> QED
  BY <1>3, <1>4 DEF LogClosed

\* A completion of an unfinished operation that fits closes its log.
LEMMA CompleteLog ==
    ASSUME TypeOK, LogInv, NEW e \in Entries, ~terminal[e], NEW outcome, NEW size,
           Fits(e, "complete", size), Complete(e, outcome, size)
    PROVE  LogInv'
<1>1. LogOpen(e)
  BY DEF LogInv
<1>2. /\ events' = [events EXCEPT ![e] = Append(@, [kind |-> "complete", outcome |-> outcome])]
      /\ bytes' = [bytes EXCEPT ![e] = @ + size]
      /\ terminal' = [terminal EXCEPT ![e] = TRUE]
  BY DEF Complete
<1>3. LogClosed(e)' /\ terminal'[e]
  BY <1>1, <1>2, AppendCloses DEF TypeOK
<1>4. ASSUME NEW f \in Entries, f # e
      PROVE  events'[f] = events[f] /\ bytes'[f] = bytes[f] /\ terminal'[f] = terminal[f]
  BY <1>2, <1>4 DEF TypeOK
<1> QED
  BY <1>3, <1>4 DEF LogInv, LogOpen, LogClosed

\* A progress or prompt event that fits keeps the log open.
LEMMA PublishLog ==
    ASSUME TypeOK, LogInv, NEW e \in Entries, ~terminal[e],
           NEW kind \in {"progress", "prompt"}, NEW size \in Nat,
           Fits(e, kind, size), Publish(e, kind, size)
    PROVE  LogInv'
<1>1. LogOpen(e) /\ events[e] \in Seq(Event) /\ MaxEvents \in Nat /\ bytes[e] \in Nat
  BY HubAssumption DEF LogInv, TypeOK
<1>2. /\ events' = [events EXCEPT ![e] = Append(@, [kind |-> kind, outcome |-> "none"])]
      /\ bytes' = [bytes EXCEPT ![e] = @ + size]
      /\ terminal' = terminal
  BY DEF Publish
<1>3. /\ events'[e] = Append(events[e], [kind |-> kind, outcome |-> "none"])
      /\ bytes'[e] = bytes[e] + size
  BY <1>2 DEF TypeOK
<1>4. /\ Len(events'[e]) = Len(events[e]) + 1
      /\ \A i \in 1..Len(events[e]) : events'[e][i] = events[e][i]
      /\ events'[e][Len(events[e]) + 1] = [kind |-> kind, outcome |-> "none"]
  BY <1>1, <1>3
<1>5. Len(events'[e]) <= MaxEvents - 1 /\ bytes'[e] <= NonterminalByteLimit
  BY <1>1, <1>3, <1>4 DEF Fits
<1>6. \A i \in 1..Len(events'[e]) : events'[e][i].kind # "complete"
  BY <1>1, <1>4 DEF LogOpen
<1>7. ASSUME NEW f \in Entries, f # e
      PROVE  events'[f] = events[f] /\ bytes'[f] = bytes[f]
  BY <1>2, <1>7 DEF TypeOK
<1>8. LogOpen(e)'
  BY <1>5, <1>6 DEF LogOpen
<1> QED
  BY <1>2, <1>7, <1>8 DEF LogInv, LogOpen, LogClosed

\* Every step keeps LogInv.
LEMMA LogStep == TypeOK /\ LogInv /\ [Next]_vars => LogInv'
<1> SUFFICES ASSUME TypeOK, LogInv, [Next]_vars PROVE LogInv'
  OBVIOUS
<1> USE DEF hubVars, logVars, workVars, timerVars, promptVars, subVars
<1>0. EventSizes \subseteq Nat /\ live \subseteq Entries
  BY HubAssumption DEF TypeOK
<1>1. CASE UNCHANGED <<events, bytes, terminal>>
  BY <1>1 DEF LogInv, LogOpen, LogClosed
<1>2. ASSUME NEW e \in Entries, NEW size \in EventSizes, Emit(e, size) \/ PromptBegin(e, size)
      PROVE  LogInv'
  <2>1. ~terminal[e]
    BY <1>2 DEF Emit, PromptBegin
  <2>2. CASE \E kind \in {"progress", "prompt"} : Fits(e, kind, size) /\ Publish(e, kind, size)
    BY <1>0, <2>1, <2>2, PublishLog
  <2>3. CASE TerminateCapacity(e)
    BY <2>1, <2>3, CompletionFits, CompleteLog DEF TerminateCapacity
  <2> QED
    BY <1>2, <2>2, <2>3 DEF Emit, PromptBegin
<1>3. ASSUME NEW e \in Entries, NEW outcome \in Outcomes, NEW size \in EventSizes,
             Finish(e, outcome, size)
      PROVE  LogInv'
  <2>1. CASE terminal[e] /\ UNCHANGED logVars
    BY <1>1, <2>1
  <2>2. CASE ~terminal[e] /\ Fits(e, "complete", size) /\ Complete(e, outcome, size)
    BY <2>2, CompleteLog
  <2>3. CASE ~terminal[e] /\ TerminateCapacity(e)
    BY <2>3, CompletionFits, CompleteLog DEF TerminateCapacity
  <2> QED
    BY <1>3, <2>1, <2>2, <2>3 DEF Finish
<1>4. CASE CancelActiveForDrain
  <2>1. ASSUME NEW e \in Entries PROVE IF terminal'[e] THEN LogClosed(e)' ELSE LogOpen(e)'
    <3>1. CASE e \in Unfinished
      <4>1. ~terminal[e] /\ LogOpen(e) /\ Fits(e, "complete", CompletionSize)
        BY <3>1, CompletionFits DEF Unfinished, LogInv
      <4>2. events'[e] = Append(events[e], [kind |-> "complete", outcome |-> "unknown"])
        BY <1>4, <3>1, <4>1 DEF CancelActiveForDrain
      <4>3. terminal'[e]
        BY <1>4, <3>1 DEF CancelActiveForDrain
      <4> QED
        BY <4>1, <4>2, <4>3, AppendCloses
    <3>2. CASE e \notin Unfinished
      <4>1. events'[e] = events[e] /\ bytes'[e] = bytes[e] /\ terminal'[e] = terminal[e]
        BY <1>4, <3>2 DEF CancelActiveForDrain, TypeOK
      <4> QED
        BY <4>1 DEF LogInv, LogOpen, LogClosed
    <3> QED
      BY <3>1, <3>2
  <2> QED
    BY <2>1 DEF LogInv
<1>5. CASE \/ \E id \in Ids, e \in Entries : Start(id, e)
           \/ CallWithoutEffect
           \/ \E s \in Subs, e \in Entries : \E after \in 0..MaxEvents : Subscribe(s, e, after)
           \/ \E s \in Subs : Receive(s) \/ CloseSubscription(s)
           \/ \E id \in Ids, p \in 1..MaxEvents : Respond(id, p)
           \/ \E id \in Ids : Cancel(id)
  BY <1>1, <1>5 DEF Start, CallWithoutEffect, Subscribe, Receive, CloseSubscription,
                    Respond, Cancel
<1>6. CASE \E e \in Entries : \/ PromptAnswered(e) \/ PromptExpires(e) \/ PromptCancelled(e)
                             \/ PromptLeave(e) \/ ReleaseReservation(e) \/ RetireWorker(e)
  BY <1>1, <1>6 DEF PromptAnswered, PromptExpires, PromptCancelled, PromptGivesUp,
                    PromptLeave, ReleaseReservation, RetireWorker
<1>7. CASE \/ \E e \in Entries : LossTimerFires(e)
           \/ \E e \in Entries : \E token \in 1..lossToken[e] : LossTimerCallback(e, token)
           \/ Tick \/ GateBeginsDrain \/ BeginDrain \/ UNCHANGED vars
  BY <1>1, <1>7 DEF LossTimerFires, LossTimerCallback, Tick, GateBeginsDrain, BeginDrain, vars
<1> QED
  BY <1>2, <1>3, <1>4, <1>5, <1>6, <1>7 DEF Next

\* Whatever sizes events have, an operation's log ends with exactly one
\* completion, and does so as soon as the operation is terminal.
THEOREM StreamsEndWithCompletion == Spec => []TerminalStreamsEndWithCompletion
<1>1. Init => LogInv
  BY HubAssumption, ByteLimits DEF Init, LogInv, LogOpen
<1>2. TypeOK /\ LogInv => TerminalStreamsEndWithCompletion
  <2> SUFFICES ASSUME TypeOK, LogInv, NEW e \in Entries
               PROVE  /\ Len(events[e]) <= MaxEvents
                      /\ \A i \in 1..Len(events[e]) :
                             events[e][i].kind = "complete" => i = Len(events[e]) /\ terminal[e]
                      /\ terminal[e] => /\ events[e] # <<>>
                                        /\ events[e][Len(events[e])].kind = "complete"
    BY DEF TerminalStreamsEndWithCompletion
  <2>1. events[e] \in Seq(Event) /\ MaxEvents \in Nat
    BY HubAssumption DEF TypeOK
  <2> QED
    BY <2>1 DEF LogInv, LogOpen, LogClosed
<1> QED
  BY <1>1, <1>2, LogStep, TypeCorrect, PTL DEF Spec

-----------------------------------------------------------------------------
(* Subscriber channels. *)

\* The number of times a subscription's channel must have been closed.
DueCloses(s) == IF s \in registered /\ ~terminal[subEntry[s]] THEN 0 ELSE 1

\* An unused subscription has an open channel and is not registered.
ChannelInv ==
    \A s \in Subs : IF subEntry[s] = NoEntry
                    THEN closes[s] = 0 /\ s \notin registered /\ s \notin counted
                    ELSE closes[s] = DueCloses(s)

\* A completion of an unfinished operation closes each of its channels once.
LEMMA CompleteChannels ==
    ASSUME TypeOK, ChannelInv, NEW e \in Entries, ~terminal[e], NEW outcome, NEW size,
           Complete(e, outcome, size)
    PROVE  ChannelInv'
<1>1. /\ closes' = CloseAll(SubscribersOf(e))
      /\ registered' \subseteq registered
      /\ \A s \in registered : subEntry[s] # e => s \in registered'
      /\ terminal' = [terminal EXCEPT ![e] = TRUE]
      /\ UNCHANGED <<subEntry, counted>>
  BY DEF Complete, Overflown, SubscribersOf
<1>2. /\ terminal \in [Entries -> BOOLEAN] /\ closes \in [Subs -> Nat]
      /\ subEntry \in [Subs -> Entries \cup {NoEntry}] /\ NoEntry \notin Entries
      /\ registered \subseteq Subs
  BY HubAssumption DEF TypeOK
<1>3. ASSUME NEW s \in Subs
      PROVE  IF subEntry'[s] = NoEntry
             THEN closes'[s] = 0 /\ s \notin registered' /\ s \notin counted'
             ELSE closes'[s] = DueCloses(s)'
  <2>1. CASE subEntry[s] = e
    BY <1>1, <1>2, <2>1 DEF ChannelInv, DueCloses, CloseAll, SubscribersOf
  <2>2. CASE subEntry[s] # e
    BY <1>1, <1>2, <2>2 DEF ChannelInv, DueCloses, CloseAll, SubscribersOf
  <2> QED
    BY <2>1, <2>2
<1> QED
  BY <1>3 DEF ChannelInv

\* An event closes the channels of the subscribers it overflows, once.
LEMMA PublishChannels ==
    ASSUME TypeOK, ChannelInv, NEW e \in Entries, ~terminal[e], NEW kind, NEW size,
           Publish(e, kind, size)
    PROVE  ChannelInv'
<1>1. /\ closes' = CloseAll(Overflown(e, kind))
      /\ registered' = registered \ Overflown(e, kind)
      /\ UNCHANGED <<subEntry, counted, terminal>>
  BY DEF Publish
<1>2. /\ closes \in [Subs -> Nat] /\ NoEntry \notin Entries
      /\ \A s \in Overflown(e, kind) : s \in registered /\ subEntry[s] = e
  BY HubAssumption DEF TypeOK, Overflown, SubscribersOf
<1> QED
  BY <1>1, <1>2 DEF ChannelInv, DueCloses, CloseAll

\* Every step keeps ChannelInv and sends nothing on a closed channel.
LEMMA ChannelStep ==
    TypeOK /\ ChannelInv /\ [Next]_vars =>
        /\ ChannelInv'
        /\ \A s \in Subs : closes[s] > 0 => Len(queue'[s]) <= Len(queue[s])
<1> DEFINE Quiet == \A s \in Subs : closes[s] > 0 => Len(queue'[s]) <= Len(queue[s])
<1> SUFFICES ASSUME TypeOK, ChannelInv, [Next]_vars PROVE ChannelInv' /\ Quiet
  OBVIOUS
<1> USE DEF hubVars, logVars, workVars, timerVars, promptVars, subVars
<1>0. /\ subEntry \in [Subs -> Entries \cup {NoEntry}] /\ NoEntry \notin Entries
      /\ closes \in [Subs -> Nat] /\ queue \in [Subs -> Seq(Nat)]
      /\ terminal \in [Entries -> BOOLEAN] /\ registered \subseteq Subs
      /\ live \subseteq Entries /\ \A s \in Subs : Len(queue[s]) \in Nat
  BY HubAssumption DEF TypeOK
<1>1. ASSUME UNCHANGED <<subEntry, registered, counted, closes, terminal>> PROVE ChannelInv'
  BY <1>1 DEF ChannelInv, DueCloses
<1>2. ASSUME UNCHANGED queue PROVE Quiet
  BY <1>0, <1>2
<1>3. ASSUME NEW s \in Subs, NEW e \in Entries, NEW after \in 0..MaxEvents,
             Subscribe(s, e, after)
      PROVE  ChannelInv' /\ Quiet
  <2>1. /\ subEntry[s] = NoEntry /\ closes[s] = 0
        /\ subEntry' = [subEntry EXCEPT ![s] = e] /\ registered' = registered \cup {s}
        /\ counted' = counted \cup {s} /\ terminal' = terminal
        /\ closes' = IF terminal[e] THEN CloseAll({s}) ELSE closes
        /\ \A t \in Subs : t # s => queue'[t] = queue[t]
    BY <1>0, <1>3 DEF Subscribe, ChannelInv
  <2>2. ChannelInv'
    BY <1>0, <2>1 DEF ChannelInv, DueCloses, CloseAll
  <2>3. ASSUME NEW t \in Subs, closes[t] > 0 PROVE Len(queue'[t]) <= Len(queue[t])
    <3>1. t # s
      BY <2>1, <2>3
    <3>2. queue'[t] = queue[t] /\ Len(queue[t]) \in Nat
      BY <1>0, <2>1, <3>1
    <3> QED
      BY <3>2
  <2> QED
    BY <2>2, <2>3
<1>4. ASSUME NEW s \in Subs, Receive(s) PROVE ChannelInv' /\ Quiet
  <2>1. queue' = [queue EXCEPT ![s] = Tail(queue[s])] /\ queue[s] # <<>>
    BY <1>4 DEF Receive
  <2>2. Len(Tail(queue[s])) <= Len(queue[s])
    BY <1>0, <2>1
  <2>3. \A t \in Subs : Len(queue'[t]) <= Len(queue[t])
    BY <1>0, <2>1, <2>2
  <2> QED
    BY <1>1, <1>4, <2>3 DEF Receive
<1>5. ASSUME NEW s \in Subs, CloseSubscription(s) PROVE ChannelInv' /\ Quiet
  <2>1. /\ s \in counted /\ registered' = registered \ {s} /\ counted' = counted \ {s}
        /\ closes' = IF ClosedByRemoval(s) THEN CloseAll({s}) ELSE closes
        /\ UNCHANGED <<subEntry, terminal>>
        /\ queue' = [queue EXCEPT ![s] = <<>>]
    BY <1>5 DEF CloseSubscription, Uncount
  <2>2. ChannelInv'
    BY <1>0, <2>1 DEF ChannelInv, DueCloses, CloseAll, ClosedByRemoval
  <2>3. \A t \in Subs : Len(queue'[t]) <= Len(queue[t])
    BY <1>0, <2>1
  <2> QED
    BY <2>2, <2>3
<1>6. ASSUME NEW e \in Entries, NEW size \in EventSizes, Emit(e, size) \/ PromptBegin(e, size)
      PROVE  ChannelInv' /\ Quiet
  <2>1. ~terminal[e]
    BY <1>6 DEF Emit, PromptBegin
  <2>2. ASSUME NEW kind, queue' = Dispatched(e, kind) PROVE Quiet
    BY <1>0, <2>1, <2>2 DEF Dispatched, SubscribersOf, ChannelInv, DueCloses
  <2>3. CASE \E kind \in {"progress", "prompt"} : Publish(e, kind, size)
    BY <2>1, <2>2, <2>3, PublishChannels DEF Publish
  <2>4. CASE TerminateCapacity(e)
    <3>1. ChannelInv'
      BY <2>1, <2>4, CompleteChannels DEF TerminateCapacity
    <3>2. queue' = queue \/ queue' = Dispatched(e, "complete")
      BY <2>4 DEF TerminateCapacity, Complete
    <3> QED
      BY <1>2, <2>2, <3>1, <3>2
  <2> QED
    BY <1>6, <2>3, <2>4 DEF Emit, PromptBegin
<1>7. ASSUME NEW e \in Entries, NEW outcome \in Outcomes, NEW size \in EventSizes,
             Finish(e, outcome, size)
      PROVE  ChannelInv' /\ Quiet
  <2>1. CASE terminal[e] /\ UNCHANGED <<logVars, subVars>>
    BY <1>1, <1>2, <2>1
  <2>2. CASE /\ ~terminal[e]
             /\ Complete(e, outcome, size) \/ Complete(e, "unknown", CompletionSize)
    <3>1. ChannelInv'
      BY <2>2, CompleteChannels
    <3>2. queue' = queue \/ queue' = Dispatched(e, "complete")
      BY <2>2 DEF Complete
    <3>3. ASSUME queue' = Dispatched(e, "complete") PROVE Quiet
      <4>1. \A t \in Subs : closes[t] > 0 => t \notin SubscribersOf(e)
        BY <1>0, <2>2 DEF SubscribersOf, ChannelInv, DueCloses
      <4>2. \A t \in Subs : t \notin SubscribersOf(e) => queue'[t] = queue[t]
        BY <3>3 DEF Dispatched
      <4> QED
        BY <1>0, <4>1, <4>2
    <3> QED
      BY <1>2, <3>1, <3>2, <3>3
  <2> QED
    BY <1>7, <2>1, <2>2 DEF Finish, TerminateCapacity
<1>8. CASE CancelActiveForDrain
  <2> DEFINE audience == {s \in registered : subEntry[s] \in Unfinished}
  <2>1. audience = UNION {SubscribersOf(e) : e \in Unfinished}
    BY DEF SubscribersOf
  <2>2. /\ closes' = CloseAll(audience)
        /\ registered' \subseteq registered
        /\ \A s \in registered \ audience : s \in registered'
        /\ \A s \in Subs \ audience : queue'[s] = queue[s]
        /\ UNCHANGED <<subEntry, counted>>
        /\ \A e \in Entries : terminal'[e] <=> (terminal[e] \/ e \in Unfinished)
    <3>1. closes' = CloseAll(audience) /\ UNCHANGED <<subEntry, counted>>
      BY <1>8, <2>1 DEF CancelActiveForDrain
    <3>2. /\ registered' \subseteq registered
          /\ \A s \in registered \ audience : s \in registered'
      BY <1>8, <2>1 DEF CancelActiveForDrain, Overflown, SubscribersOf
    <3>3. \A s \in Subs \ audience : queue'[s] = queue[s]
      BY <1>8, <2>1 DEF CancelActiveForDrain
    <3>4. \A e \in Entries : terminal'[e] <=> (terminal[e] \/ e \in Unfinished)
      BY <1>0, <1>8 DEF CancelActiveForDrain
    <3> QED
      BY <3>1, <3>2, <3>3, <3>4
  <2>3. \A s \in audience : subEntry[s] \in Entries /\ ~terminal[subEntry[s]] /\ closes[s] = 0
    BY <1>0 DEF Unfinished, ChannelInv, DueCloses
  <2>4. ASSUME NEW s \in Subs
        PROVE  IF subEntry'[s] = NoEntry
               THEN closes'[s] = 0 /\ s \notin registered' /\ s \notin counted'
               ELSE closes'[s] = DueCloses(s)'
    <3>1. CASE s \in audience
      <4>1. closes'[s] = 1 /\ subEntry'[s] # NoEntry /\ terminal'[subEntry'[s]]
        BY <1>0, <2>2, <2>3, <3>1 DEF CloseAll
      <4> QED
        BY <4>1 DEF DueCloses
    <3>2. CASE s \notin audience /\ subEntry[s] = NoEntry
      BY <1>0, <2>2, <3>2 DEF ChannelInv, CloseAll
    <3>3. CASE s \notin audience /\ subEntry[s] # NoEntry
      <4>1. closes'[s] = closes[s] /\ subEntry'[s] = subEntry[s] /\ subEntry[s] \in Entries
        BY <1>0, <2>2, <3>3 DEF CloseAll
      <4>2. s \in registered <=> s \in registered'
        BY <2>2, <3>3
      <4>3. s \in registered => (terminal'[subEntry[s]] <=> terminal[subEntry[s]])
        BY <2>2, <3>3, <4>1
      <4>4. DueCloses(s)' = DueCloses(s)
        BY <4>1, <4>2, <4>3 DEF DueCloses
      <4> QED
        BY <3>3, <4>1, <4>4 DEF ChannelInv
    <3> QED
      BY <3>1, <3>2, <3>3
  <2>5. Quiet
    <3>1. ASSUME NEW t \in Subs, closes[t] > 0 PROVE Len(queue'[t]) <= Len(queue[t])
      <4>1. t \notin audience
        BY <2>3, <3>1
      <4>2. queue'[t] = queue[t] /\ Len(queue[t]) \in Nat
        BY <1>0, <2>2, <4>1
      <4> QED
        BY <4>2
    <3> QED
      BY <3>1
  <2> QED
    BY <2>4, <2>5 DEF ChannelInv
<1>9. CASE \/ \E id \in Ids, e \in Entries : Start(id, e)
           \/ CallWithoutEffect
           \/ \E id \in Ids, p \in 1..MaxEvents : Respond(id, p)
           \/ \E id \in Ids : Cancel(id)
  BY <1>1, <1>2, <1>9 DEF Start, CallWithoutEffect, Respond, Cancel
<1>10. CASE \E e \in Entries : \/ PromptAnswered(e) \/ PromptExpires(e) \/ PromptCancelled(e)
                              \/ PromptLeave(e) \/ ReleaseReservation(e) \/ RetireWorker(e)
  BY <1>1, <1>2, <1>10 DEF PromptAnswered, PromptExpires, PromptCancelled, PromptGivesUp,
                           PromptLeave, ReleaseReservation, RetireWorker
<1>11. CASE \/ \E e \in Entries : LossTimerFires(e)
            \/ \E e \in Entries : \E token \in 1..lossToken[e] : LossTimerCallback(e, token)
            \/ Tick \/ GateBeginsDrain \/ BeginDrain \/ UNCHANGED vars
  BY <1>1, <1>2, <1>11 DEF LossTimerFires, LossTimerCallback, Tick, GateBeginsDrain,
                           BeginDrain, vars
<1> QED
  BY <1>3, <1>4, <1>5, <1>6, <1>7, <1>8, <1>9, <1>10, <1>11 DEF Next

\* No interleaving of slow subscribers, detaching handlers, completions and
\* drains closes a channel twice or sends on a closed one: the hub cannot panic
\* on a subscriber's channel, and no handler is left waiting on an open one.
THEOREM ChannelsAreSafe == Spec => []ChannelsClosedExactlyOnce /\ NoSendOnClosedChannel
<1>1. Init => ChannelInv
  BY DEF Init, ChannelInv
<1>2. ChannelInv => ChannelsClosedExactlyOnce
  BY DEF ChannelInv, DueCloses, ChannelsClosedExactlyOnce
<1>3. TypeOK /\ ChannelInv /\ [Next]_vars =>
         [\A s \in Subs : closes[s] > 0 => Len(queue'[s]) <= Len(queue[s])]_vars
  BY ChannelStep
<1> QED
  BY <1>1, <1>2, <1>3, ChannelStep, TypeCorrect, PTL DEF Spec, NoSendOnClosedChannel

\* Together: neither a panic on a subscriber's channel nor a blocked answer
\* takes the hub down while it holds its mutex.
THEOREM HubSurvives == Spec => []HubNeverWedges
<1>1. ChannelsClosedExactlyOnce /\ RespondNeverBlocks => HubNeverWedges
  BY DEF HubNeverWedges
<1> QED
  BY <1>1, ChannelsAreSafe, RespondIsSafe, PTL

-----------------------------------------------------------------------------
(* Pruning keeps the map bounded. *)

\* An entry that no longer has a worker but is retained has ended.
LEMMA RetiredIsTerminal ==
    ASSUME TypeOK, WorkInv, NEW e \in live, ~WorkerActive(e)
    PROVE  terminal[e]
BY DEF TypeOK, WorkInv, WorkerActive, WorkerStates

\* pruneCompletedLocked leaves at most MaxCompleted entries without a worker,
\* if all of these have ended.
LEMMA PruneCompletedBounds ==
    ASSUME NEW K \in SUBSET Entries, NEW term, NEW at, NEW act,
           \A e \in K \ act : term[e],
           NEW keep \in PruneCompleted(K, term, at, act)
    PROVE  Cardinality(keep \ act) <= MaxCompleted
<1> DEFINE done == {e \in K : term[e]}
           gone == K \ keep
<1>1. /\ keep \subseteq K
      /\ \/ Cardinality(done \ gone) <= MaxCompleted
         \/ gone = done \ act
  BY DEF PruneCompleted, Removable
<1>2. IsFiniteSet(done \ gone)
  BY HubAssumption, FS_Subset
<1>3. CASE Cardinality(done \ gone) <= MaxCompleted
  <2>1. keep \ act \subseteq done \ gone
    BY <1>1
  <2>2. /\ IsFiniteSet(keep \ act)
        /\ Cardinality(keep \ act) <= Cardinality(done \ gone)
    BY <1>2, <2>1, FS_Subset
  <2>3. Cardinality(keep \ act) \in Nat /\ Cardinality(done \ gone) \in Nat
    BY <1>2, <2>2, FS_CardinalityType
  <2> QED
    BY <1>3, <2>2, <2>3, HubAssumption
<1>4. CASE gone = done \ act
  <2>1. keep \ act = {}
    BY <1>1, <1>4
  <2> QED
    BY <2>1, FS_EmptySet, HubAssumption
<1> QED
  BY <1>1, <1>3, <1>4

\* pruneLocked leaves no more either.
LEMMA PruneLockedBounds ==
    ASSUME NEW K \in SUBSET Entries, NEW act, \A e \in K \ act : terminal[e],
           NEW keep \in PruneLocked(K, act)
    PROVE  Cardinality(keep \ act) <= MaxCompleted
<1> DEFINE expired == {e \in K \ act : terminal[e] /\ now >= completedAt[e] + Retention}
<1>1. keep \in PruneCompleted(K \ expired, terminal, completedAt, act)
  BY DEF PruneLocked
<1> QED
  BY <1>1, PruneCompletedBounds

\* A set of entries is no larger than one that contains it.
LEMMA EntriesShrink ==
    ASSUME NEW S \in SUBSET Entries, NEW T \in SUBSET S
    PROVE  /\ Cardinality(T) <= Cardinality(S)
           /\ Cardinality(T) \in Nat /\ Cardinality(S) \in Nat
<1>1. IsFiniteSet(S) /\ IsFiniteSet(T)
  BY HubAssumption, FS_Subset
<1> QED
  BY <1>1, FS_Subset, FS_CardinalityType

\* A step that changes no worker, and the map only by pruning it, keeps the
\* bounds.
LEMMA PruneRetention ==
    ASSUME TypeOK, WorkInv, RetentionIsBounded, UNCHANGED worker,
           \/ live' = live
           \/ live' \in PruneLocked(live, ActiveWorkers)
           \/ PruneAfterTerminal(ActiveWorkers) /\ \A e \in Entries : terminal[e] => terminal'[e]
    PROVE  RetentionIsBounded'
<1>1. ActiveWorkers' = ActiveWorkers
  BY DEF ActiveWorkers, WorkerActive
<1>2. live \in SUBSET Entries /\ ActiveWorkers \subseteq live /\ \A e \in live \ ActiveWorkers : terminal[e]
  BY RetiredIsTerminal DEF TypeOK, RetentionIsBounded, ActiveWorkers
<1>3. CASE live' = live
  BY <1>1, <1>3 DEF RetentionIsBounded
<1>4. CASE live' \in PruneLocked(live, ActiveWorkers)
  BY <1>1, <1>2, <1>4, PruneLockedBounds, PruneLockedKeeps DEF RetentionIsBounded
<1>5. CASE PruneAfterTerminal(ActiveWorkers) /\ \A e \in Entries : terminal[e] => terminal'[e]
  <2>1. live' \in PruneCompleted(live, terminal', completedAt', ActiveWorkers)
    BY <1>5 DEF PruneAfterTerminal
  <2>2. \A e \in live \ ActiveWorkers : terminal'[e]
    BY <1>2, <1>5
  <2> QED
    BY <1>1, <1>2, <2>1, <2>2, PruneCompletedBounds, PruneCompletedKeeps DEF RetentionIsBounded
<1> QED
  BY <1>3, <1>4, <1>5

\* A step of one worker that stays active keeps the bounds.
LEMMA WorkerRetention ==
    ASSUME TypeOK, WorkInv, RetentionIsBounded, NEW e \in Entries, WorkerActive(e),
           worker' = [worker EXCEPT ![e] = "finished"] \/ worker' = [worker EXCEPT ![e] = "released"],
           \/ live' = live
           \/ PruneAfterTerminal(ActiveWorkers) /\ \A f \in Entries : terminal[f] => terminal'[f]
    PROVE  RetentionIsBounded'
<1>1. ActiveWorkers' = ActiveWorkers
  BY DEF ActiveWorkers, WorkerActive, TypeOK
<1>2. live \in SUBSET Entries /\ ActiveWorkers \subseteq live /\ \A f \in live \ ActiveWorkers : terminal[f]
  BY RetiredIsTerminal DEF TypeOK, RetentionIsBounded, ActiveWorkers
<1>3. CASE live' = live
  BY <1>1, <1>3 DEF RetentionIsBounded
<1>4. CASE PruneAfterTerminal(ActiveWorkers) /\ \A f \in Entries : terminal[f] => terminal'[f]
  <2>1. live' \in PruneCompleted(live, terminal', completedAt', ActiveWorkers)
    BY <1>4 DEF PruneAfterTerminal
  <2>2. \A f \in live \ ActiveWorkers : terminal'[f]
    BY <1>2, <1>4
  <2> QED
    BY <1>1, <1>2, <2>1, <2>2, PruneCompletedBounds, PruneCompletedKeeps DEF RetentionIsBounded
<1> QED
  BY <1>3, <1>4

\* Every step keeps the bounds.
LEMMA RetentionStep == TypeOK /\ WorkInv /\ RetentionIsBounded /\ [Next]_vars => RetentionIsBounded'
<1> SUFFICES ASSUME TypeOK, WorkInv, RetentionIsBounded, [Next]_vars PROVE RetentionIsBounded'
  OBVIOUS
<1> USE DEF hubVars, logVars, workVars, timerVars, promptVars, subVars
<1>0. /\ live \in SUBSET Entries /\ worker \in [Entries -> WorkerStates]
      /\ terminal \in [Entries -> BOOLEAN]
      /\ ActiveWorkers \subseteq live /\ \A e \in live \ ActiveWorkers : terminal[e]
  BY RetiredIsTerminal DEF TypeOK, RetentionIsBounded, ActiveWorkers
<1>1. ASSUME NEW id \in Ids, NEW e \in Entries, Start(id, e) PROVE RetentionIsBounded'
  <2>1. PICK kept \in PruneLocked(live, ActiveWorkers) :
            Cardinality(ActiveWorkers) < MaxActive /\ live' = kept \cup {e}
    BY <1>1 DEF Start
  <2>2. kept \subseteq live /\ ActiveWorkers \subseteq kept /\ Cardinality(kept \ ActiveWorkers) <= MaxCompleted
    BY <1>0, PruneLockedBounds, PruneLockedKeeps
  <2>3. worker[e] = "none" /\ worker' = [worker EXCEPT ![e] = "running"]
    BY <1>1 DEF Start
  <2>4. ActiveWorkers' = ActiveWorkers \cup {e}
    BY <1>0, <2>3 DEF ActiveWorkers, WorkerActive
  <2>5. Cardinality(ActiveWorkers') <= MaxActive
    <3>1. IsFiniteSet(ActiveWorkers) /\ Cardinality(ActiveWorkers) \in Nat
      BY HubAssumption, FS_Subset, FS_CardinalityType DEF ActiveWorkers
    <3>2. Cardinality(ActiveWorkers \cup {e}) \in {Cardinality(ActiveWorkers), Cardinality(ActiveWorkers) + 1}
      BY <3>1, FS_AddElement
    <3> QED
      BY <2>1, <2>4, <3>1, <3>2, HubAssumption
  <2>6. live' \ ActiveWorkers' = kept \ ActiveWorkers
    <3>1. e \notin kept
      BY <2>2, <2>3 DEF WorkInv
    <3> QED
      BY <2>1, <2>4, <3>1
  <2> QED
    BY <2>1, <2>2, <2>4, <2>5, <2>6 DEF RetentionIsBounded
<1>2. CASE \/ CallWithoutEffect
           \/ \E s \in Subs, e \in Entries : \E after \in 0..MaxEvents : Subscribe(s, e, after)
           \/ \E s \in Subs : Receive(s) \/ CloseSubscription(s)
           \/ \E id \in Ids, p \in 1..MaxEvents : Respond(id, p)
           \/ \E id \in Ids : Cancel(id)
  BY <1>2, PruneRetention DEF CallWithoutEffect, Subscribe, Receive, CloseSubscription,
                              Respond, Cancel
<1>3. ASSUME NEW e \in Entries, NEW size \in EventSizes, Emit(e, size) \/ PromptBegin(e, size)
      PROVE  RetentionIsBounded'
  <2>1. CASE \E kind \in {"progress", "prompt"} : Publish(e, kind, size)
    BY <1>3, <2>1, PruneRetention DEF Emit, PromptBegin, Publish
  <2>2. CASE TerminateCapacity(e) /\ PruneAfterTerminal(ActiveWorkers)
    <3>1. \A f \in Entries : terminal[f] => terminal'[f]
      BY <1>0, <2>2 DEF TerminateCapacity, Complete
    <3> QED
      BY <1>3, <2>2, <3>1, PruneRetention DEF Emit, PromptBegin
  <2> QED
    BY <1>3, <2>1, <2>2 DEF Emit, PromptBegin
<1>4. ASSUME NEW e \in Entries, NEW outcome \in Outcomes, NEW size \in EventSizes,
             Finish(e, outcome, size)
      PROVE  RetentionIsBounded'
  <2>1. WorkerActive(e) /\ worker' = [worker EXCEPT ![e] = "finished"]
    BY <1>4 DEF Finish, WorkerActive
  <2>2. \/ live' = live
        \/ PruneAfterTerminal(ActiveWorkers) /\ \A f \in Entries : terminal[f] => terminal'[f]
    BY <1>0, <1>4 DEF Finish, TerminateCapacity, Complete
  <2> QED
    BY <2>1, <2>2, WorkerRetention
<1>5. ASSUME NEW e \in Entries, ReleaseReservation(e) PROVE RetentionIsBounded'
  BY <1>5, WorkerRetention DEF ReleaseReservation, WorkerActive
<1>6. ASSUME NEW e \in Entries, RetireWorker(e) PROVE RetentionIsBounded'
  <2>1. /\ worker[e] = "released" /\ worker' = [worker EXCEPT ![e] = "gone"]
        /\ live' \in PruneLocked(live, ActiveWorkers \ {e})
    BY <1>6 DEF RetireWorker
  <2>2. ActiveWorkers' = ActiveWorkers \ {e} /\ e \in ActiveWorkers
    BY <1>0, <2>1 DEF ActiveWorkers, WorkerActive
  <2>3. terminal[e]
    BY <2>1 DEF WorkInv
  <2>4. \A f \in live \ ActiveWorkers' : terminal[f]
    BY <1>0, <2>2, <2>3
  <2>5. ActiveWorkers' \subseteq live' /\ Cardinality(live' \ ActiveWorkers') <= MaxCompleted
    BY <1>0, <2>1, <2>2, <2>4, PruneLockedBounds, PruneLockedKeeps
  <2>6. Cardinality(ActiveWorkers') <= MaxActive
    BY <1>0, <2>2, EntriesShrink, HubAssumption DEF RetentionIsBounded
  <2> QED
    BY <2>5, <2>6 DEF RetentionIsBounded
<1>7. CASE CancelActiveForDrain
  <2>1. \A f \in Entries : terminal[f] => terminal'[f]
    BY <1>7 DEF CancelActiveForDrain
  <2> QED
    BY <1>7, <2>1, PruneRetention DEF CancelActiveForDrain
<1>8. CASE \E e \in Entries : \/ PromptAnswered(e) \/ PromptExpires(e) \/ PromptCancelled(e)
                             \/ PromptLeave(e) \/ LossTimerFires(e)
                             \/ \E token \in 1..lossToken[e] : LossTimerCallback(e, token)
  BY <1>8, PruneRetention DEF PromptAnswered, PromptExpires, PromptCancelled, PromptGivesUp,
                    PromptLeave, LossTimerFires, LossTimerCallback
<1>9. CASE Tick \/ GateBeginsDrain \/ BeginDrain \/ UNCHANGED vars
  BY <1>9, PruneRetention DEF Tick, GateBeginsDrain, BeginDrain, vars
<1> QED
  BY <1>1, <1>2, <1>3, <1>4, <1>5, <1>6, <1>7, <1>8, <1>9 DEF Next

\* However completions, retries, retirement of workers and the clock interleave,
\* the map holds every entry with a worker, of which there are at most MaxActive,
\* and at most MaxCompleted others: memory is bounded and no worker is dropped.
THEOREM RetentionHolds == Spec => []RetentionIsBounded
<1>1. Init => WorkInv
  BY DEF Init, WorkInv, WorkerActive
<1>2. Init => RetentionIsBounded
  <2> SUFFICES ASSUME Init PROVE RetentionIsBounded
    OBVIOUS
  <2>1. ActiveWorkers = {} /\ live \ ActiveWorkers = {}
    BY DEF Init, ActiveWorkers, WorkerActive
  <2> QED
    BY <2>1, FS_EmptySet, HubAssumption DEF RetentionIsBounded
<1> QED
  BY <1>1, <1>2, WorkStep, RetentionStep, TypeCorrect, PTL DEF Spec

-----------------------------------------------------------------------------
(* What a subscriber has received and what it still has queued. *)

\* The numbers in a channel go on from c.
Continues(q, c) == \A i \in 1..Len(q) : q[i] = c + i

\* The part of SubscribersSeeEveryEvent about one subscription.
InStep(s) ==
    subEntry[s] # NoEntry =>
        /\ Continues(queue[s], cursor[s])
        /\ cursor[s] + Len(queue[s]) <= Len(events[subEntry[s]])
        /\ s \in registered => cursor[s] + Len(queue[s]) = Len(events[subEntry[s]])

AllInStep == \A s \in Subs : InStep(s)

\* Sending the next number continues a channel's content.
LEMMA AppendContinues ==
    ASSUME NEW q \in Seq(Nat), NEW c \in Nat, Continues(q, c),
           NEW r, r = Append(q, c + Len(q) + 1)
    PROVE  Continues(r, c) /\ c + Len(r) = c + Len(q) + 1
<1>1. /\ Len(r) = Len(q) + 1 /\ r[Len(q) + 1] = c + Len(q) + 1 /\ Len(q) \in Nat
      /\ \A i \in 1..Len(q) : r[i] = q[i]
  OBVIOUS
<1>2. ASSUME NEW i \in 1..Len(r) PROVE r[i] = c + i
  <2>1. CASE i \in 1..Len(q)
    BY <1>1, <2>1 DEF Continues
  <2>2. CASE i = Len(q) + 1
    BY <1>1, <2>2
  <2> QED
    BY <1>1, <2>1, <2>2
<1> QED
  BY <1>1, <1>2 DEF Continues

\* Receiving the first number continues it too.
LEMMA TailContinues ==
    ASSUME NEW q \in Seq(Nat), NEW c \in Nat, Continues(q, c), q # <<>>
    PROVE  Continues(Tail(q), Head(q)) /\ Head(q) + Len(Tail(q)) = c + Len(q)
<1>1. /\ Len(q) \in Nat /\ Len(q) >= 1 /\ Head(q) = q[1] /\ Len(Tail(q)) = Len(q) - 1
      /\ \A i \in 1..(Len(q) - 1) : Tail(q)[i] = q[i + 1]
  OBVIOUS
<1>2. Head(q) = c + 1
  BY <1>1 DEF Continues
<1>3. ASSUME NEW i \in 1..Len(Tail(q)) PROVE Tail(q)[i] = Head(q) + i
  <2>1. i \in 1..(Len(q) - 1) /\ i + 1 \in 1..Len(q)
    BY <1>1
  <2>2. Tail(q)[i] = c + (i + 1)
    BY <1>1, <2>1 DEF Continues
  <2> QED
    BY <1>2, <2>1, <2>2
<1> QED
  BY <1>1, <1>2, <1>3 DEF Continues

\* A subscription stays in step when its log grows by the event it is sent, or
\* when it is dropped, or when neither its log nor its channel changes.
LEMMA StaysInStep ==
    ASSUME TypeOK, NEW s \in Subs, subEntry[s] # NoEntry, InStep(s),
           subEntry'[s] = subEntry[s], cursor'[s] = cursor[s],
           s \in registered' => s \in registered,
           LET had == Len(events[subEntry[s]])
               has == Len(events'[subEntry[s]])
           IN  \/ queue'[s] = queue[s] /\ has = had
               \/ queue'[s] = queue[s] /\ has = had + 1 /\ s \notin registered'
               \/ queue'[s] = Append(queue[s], had + 1) /\ has = had + 1 /\ s \in registered
    PROVE  InStep(s)'
<1> DEFINE had == Len(events[subEntry[s]])
<1>1. /\ queue[s] \in Seq(Nat) /\ cursor[s] \in Nat /\ subEntry[s] \in Entries
      /\ had \in Nat /\ Len(queue[s]) \in Nat
  BY DEF TypeOK
<1>2. CASE queue'[s] = queue[s] /\ Len(events'[subEntry[s]]) = had
  BY <1>1, <1>2 DEF InStep
<1>3. CASE queue'[s] = queue[s] /\ Len(events'[subEntry[s]]) = had + 1 /\ s \notin registered'
  BY <1>1, <1>3 DEF InStep
<1>4. CASE /\ queue'[s] = Append(queue[s], had + 1) /\ Len(events'[subEntry[s]]) = had + 1
           /\ s \in registered
  <2>1. cursor[s] + Len(queue[s]) = had /\ Continues(queue[s], cursor[s])
    BY <1>4 DEF InStep
  <2>2. queue'[s] = Append(queue[s], cursor[s] + Len(queue[s]) + 1)
    BY <1>4, <2>1
  <2>3. Continues(queue'[s], cursor[s]) /\ cursor[s] + Len(queue'[s]) = had + 1
    BY <1>1, <2>1, <2>2, AppendContinues
  <2>4. /\ subEntry'[s] = subEntry[s] /\ cursor'[s] = cursor[s]
        /\ cursor[s] + Len(queue'[s]) = Len(events'[subEntry[s]])
        /\ Len(events'[subEntry[s]]) \in Nat
    BY <1>1, <1>4, <2>3
  <2> QED
    BY <2>3, <2>4 DEF InStep
<1> QED
  BY <1>2, <1>3, <1>4

\* dispatchLocked: everybody who is not dropped is sent the event just appended.
LEMMA DispatchInStep ==
    ASSUME TypeOK, AllInStep, NEW e \in Entries, NEW kind, NEW event,
           events' = [events EXCEPT ![e] = Append(@, event)],
           queue' = Dispatched(e, kind),
           registered' = registered \ Overflown(e, kind),
           UNCHANGED <<subEntry, cursor>>
    PROVE  AllInStep'
<1> SUFFICES ASSUME NEW s \in Subs, subEntry[s] # NoEntry PROVE InStep(s)'
  BY DEF AllInStep, InStep
<1>1. InStep(s) /\ subEntry[s] \in Entries /\ events \in [Entries -> Seq(Event)]
  BY DEF AllInStep, TypeOK
<1>2. Len(events'[e]) = Len(events[e]) + 1
  <2>1. events'[e] = Append(events[e], event) /\ events[e] \in Seq(Event)
    BY <1>1
  <2> QED
    BY <2>1
<1>3. \A f \in Entries : f # e => events'[f] = events[f]
  BY <1>1
<1>4. CASE s \in SubscribersOf(e) \ Overflown(e, kind)
  BY <1>1, <1>2, <1>4, StaysInStep DEF Dispatched, SubscribersOf
<1>5. CASE s \in Overflown(e, kind)
  BY <1>1, <1>2, <1>5, StaysInStep DEF Dispatched, SubscribersOf, Overflown
<1>6. CASE s \notin SubscribersOf(e)
  <2>1. queue'[s] = queue[s] /\ (s \in registered' => s \in registered)
    BY <1>6 DEF Dispatched
  <2>2. CASE subEntry[s] = e
    BY <1>1, <1>2, <1>6, <2>1, <2>2, StaysInStep DEF SubscribersOf
  <2>3. CASE subEntry[s] # e
    BY <1>1, <1>3, <2>1, <2>3, StaysInStep
  <2> QED
    BY <2>2, <2>3
<1> QED
  BY <1>4, <1>5, <1>6

\* A completion, admitted or not, keeps every subscription in step.
LEMMA CompleteInStep ==
    ASSUME TypeOK, AllInStep, NEW e \in Entries, NEW outcome, NEW size,
           Complete(e, outcome, size)
    PROVE  AllInStep'
<1>1. CASE Fits(e, "complete", size)
  BY <1>1, DispatchInStep DEF Complete
<1>2. CASE ~Fits(e, "complete", size)
  BY <1>2 DEF Complete, AllInStep, InStep
<1> QED
  BY <1>1, <1>2

\* So does an event that does not end the operation.
LEMMA PublishInStep ==
    ASSUME TypeOK, AllInStep, NEW e \in Entries, NEW kind, NEW size,
           Publish(e, kind, size)
    PROVE  AllInStep'
BY DispatchInStep DEF Publish

\* Every step keeps every subscription in step with its operation's log.
LEMMA InStepStep ==
    TypeOK /\ ChannelInv /\ AllInStep /\ [Next]_vars => AllInStep'
<1> SUFFICES ASSUME TypeOK, ChannelInv, AllInStep, [Next]_vars
             PROVE  AllInStep'
  OBVIOUS
<1> USE DEF hubVars, logVars, workVars, timerVars, promptVars, subVars
<1>0. /\ subEntry \in [Subs -> Entries \cup {NoEntry}] /\ NoEntry \notin Entries
      /\ cursor \in [Subs -> Nat] /\ queue \in [Subs -> Seq(Nat)]
      /\ events \in [Entries -> Seq(Event)] /\ live \subseteq Entries
  BY HubAssumption DEF TypeOK
<1>1. ASSUME UNCHANGED <<subEntry, registered, queue, cursor, events>>
      PROVE  AllInStep'
  BY <1>1 DEF AllInStep, InStep
<1>2. ASSUME NEW s \in Subs, NEW e \in Entries, NEW after \in 0..MaxEvents, Subscribe(s, e, after)
      PROVE  AllInStep'
  <2>1. /\ after \in Nat /\ Len(events[e]) \in Nat /\ after <= Len(events[e])
        /\ queue' = [queue EXCEPT ![s] = Replay(e, after)]
        /\ cursor' = [cursor EXCEPT ![s] = after]
        /\ subEntry' = [subEntry EXCEPT ![s] = e]
        /\ registered' = registered \cup {s} /\ events' = events
    BY <1>0, <1>2, HubAssumption DEF Subscribe
  <2>2. Continues(Replay(e, after), after) /\ after + Len(Replay(e, after)) = Len(events[e])
    BY <2>1 DEF Replay, Continues
  <2>3. /\ queue'[s] = Replay(e, after) /\ cursor'[s] = after /\ subEntry'[s] = e
    BY <1>0, <2>1
  <2>4. InStep(s)'
    <3>1. /\ Continues(queue'[s], cursor'[s])
          /\ cursor'[s] + Len(queue'[s]) = Len(events'[subEntry'[s]])
      BY <2>1, <2>2, <2>3
    <3>2. Len(events'[subEntry'[s]]) \in Nat
      BY <2>1, <2>3
    <3> QED
      BY <3>1, <3>2 DEF InStep
  <2>5. ASSUME NEW t \in Subs, t # s PROVE InStep(t)'
    BY <1>0, <2>1, <2>5 DEF InStep, AllInStep
  <2> QED
    BY <2>4, <2>5 DEF AllInStep
<1>3. ASSUME NEW s \in Subs, Receive(s) PROVE AllInStep'
  <2>1. /\ queue[s] # <<>> /\ s \in counted /\ queue[s] \in Seq(Nat) /\ cursor[s] \in Nat
        /\ cursor'[s] = Head(queue[s]) /\ queue'[s] = Tail(queue[s])
        /\ \A t \in Subs : t # s => cursor'[t] = cursor[t] /\ queue'[t] = queue[t]
        /\ UNCHANGED <<subEntry, registered, events>>
    BY <1>0, <1>3 DEF Receive
  <2>2. subEntry[s] # NoEntry /\ InStep(s) /\ subEntry[s] \in Entries
    BY <1>0, <2>1 DEF ChannelInv, AllInStep
  <2>3. /\ Continues(queue'[s], cursor'[s])
        /\ cursor'[s] + Len(queue'[s]) = cursor[s] + Len(queue[s])
    BY <2>1, <2>2, TailContinues DEF InStep
  <2>4. InStep(s)'
    BY <2>1, <2>2, <2>3 DEF InStep
  <2>5. ASSUME NEW t \in Subs, t # s PROVE InStep(t)'
    BY <2>1, <2>5 DEF InStep, AllInStep
  <2> QED
    BY <2>4, <2>5 DEF AllInStep
<1>4. ASSUME NEW s \in Subs, CloseSubscription(s) PROVE AllInStep'
  <2>1. /\ s \in counted /\ registered' = registered \ {s}
        /\ queue' = [queue EXCEPT ![s] = <<>>]
        /\ UNCHANGED <<subEntry, cursor, events>>
    BY <1>4 DEF CloseSubscription
  <2>2. InStep(s)'
    <3>1. queue'[s] = <<>> /\ s \notin registered' /\ Len(queue[s]) \in Nat /\ cursor[s] \in Nat
      BY <1>0, <2>1
    <3>2. subEntry[s] # NoEntry => /\ cursor[s] + Len(queue[s]) <= Len(events[subEntry[s]])
                                   /\ Len(events[subEntry[s]]) \in Nat
      BY <1>0 DEF AllInStep, InStep
    <3>3. Continues(queue'[s], cursor'[s]) /\ Len(queue'[s]) = 0
      BY <3>1 DEF Continues
    <3>4. subEntry[s] # NoEntry => cursor[s] + Len(queue'[s]) <= Len(events[subEntry[s]])
      BY <3>1, <3>2, <3>3
    <3> QED
      BY <2>1, <3>1, <3>3, <3>4 DEF InStep
  <2>3. ASSUME NEW t \in Subs, t # s PROVE InStep(t)'
    BY <1>0, <2>1, <2>3 DEF InStep, AllInStep
  <2> QED
    BY <2>2, <2>3 DEF AllInStep
<1>5. ASSUME NEW e \in Entries, NEW size \in EventSizes, Emit(e, size) \/ PromptBegin(e, size)
      PROVE  AllInStep'
  BY <1>5, PublishInStep, CompleteInStep DEF Emit, PromptBegin, TerminateCapacity
<1>6. ASSUME NEW e \in Entries, NEW outcome \in Outcomes, NEW size \in EventSizes,
             Finish(e, outcome, size)
      PROVE  AllInStep'
  BY <1>1, <1>6, CompleteInStep DEF Finish, TerminateCapacity
<1>7. CASE CancelActiveForDrain
  <2> DEFINE ends(e) == e \in Unfinished /\ Fits(e, "complete", CompletionSize)
             audience == UNION {SubscribersOf(e) : e \in Unfinished}
             lost == UNION {Overflown(e, "complete") : e \in {f \in Entries : ends(f)}}
  <2>1. /\ events' = [e \in Entries |->
                        IF ends(e) THEN Append(events[e],
                                          [kind |-> "complete", outcome |-> "unknown"])
                        ELSE events[e]]
        /\ queue' = [s \in Subs |->
                        IF s \in audience \ lost /\ ends(subEntry[s])
                        THEN Append(queue[s], Len(events[subEntry[s]]) + 1) ELSE queue[s]]
        /\ registered' = registered \ lost
        /\ UNCHANGED <<subEntry, cursor>>
    BY <1>7 DEF CancelActiveForDrain
  <2> SUFFICES ASSUME NEW s \in Subs, subEntry[s] # NoEntry PROVE InStep(s)'
    BY <2>1 DEF AllInStep, InStep
  <2>2. InStep(s) /\ subEntry[s] \in Entries
    BY <1>0 DEF AllInStep, InStep
  <2>3. \A e \in Entries : Len(events'[e]) = IF ends(e) THEN Len(events[e]) + 1 ELSE Len(events[e])
    BY <1>0, <2>1
  <2>4. CASE ~ends(subEntry[s])
    BY <2>1, <2>2, <2>3, <2>4, StaysInStep
  <2>5. CASE ends(subEntry[s]) /\ s \in registered \ lost
    <3>1. s \in audience
      BY <2>5 DEF SubscribersOf
    <3> QED
      BY <2>1, <2>2, <2>3, <2>5, <3>1, StaysInStep
  <2>6. CASE ends(subEntry[s]) /\ s \notin registered \ lost
    <3>1. s \notin audience \ lost
      BY <2>6 DEF SubscribersOf
    <3> QED
      BY <2>1, <2>2, <2>3, <2>6, <3>1, StaysInStep
  <2> QED
    BY <2>4, <2>5, <2>6
<1>8. CASE \/ \E id \in Ids, e \in Entries : Start(id, e)
           \/ CallWithoutEffect
           \/ \E id \in Ids, p \in 1..MaxEvents : Respond(id, p)
           \/ \E id \in Ids : Cancel(id)
  BY <1>1, <1>8 DEF Start, CallWithoutEffect, Respond, Cancel
<1>9. CASE \E e \in Entries : \/ PromptAnswered(e) \/ PromptExpires(e) \/ PromptCancelled(e)
                             \/ PromptLeave(e) \/ ReleaseReservation(e) \/ RetireWorker(e)
  BY <1>1, <1>9 DEF PromptAnswered, PromptExpires, PromptCancelled, PromptGivesUp,
                    PromptLeave, ReleaseReservation, RetireWorker
<1>10. CASE \/ \E e \in Entries : LossTimerFires(e)
            \/ \E e \in Entries : \E token \in 1..lossToken[e] : LossTimerCallback(e, token)
            \/ Tick \/ GateBeginsDrain \/ BeginDrain \/ UNCHANGED vars
  BY <1>1, <1>10 DEF LossTimerFires, LossTimerCallback, Tick, GateBeginsDrain, BeginDrain, vars
<1> QED
  BY <1>2, <1>3, <1>4, <1>5, <1>6, <1>7, <1>8, <1>9, <1>10 DEF Next

\* However slowly subscribers read, and wherever they resume, what a channel
\* holds continues the reader's cursor without a gap or a repetition, and a
\* subscription that was not dropped ends exactly at the end of the log.
THEOREM SubscribersStayInStep == Spec => []SubscribersSeeEveryEvent
<1>1. Init => ChannelInv
  BY DEF Init, ChannelInv
<1>2. Init => AllInStep
  BY DEF Init, AllInStep, InStep
<1>3. TypeOK /\ ChannelInv /\ [Next]_vars => ChannelInv'
  BY ChannelStep
<1>4. AllInStep => SubscribersSeeEveryEvent
  BY DEF AllInStep, InStep, Continues, SubscribersSeeEveryEvent
<1> QED
  BY <1>1, <1>2, <1>3, <1>4, InStepStep, TypeCorrect, PTL DEF Spec

-----------------------------------------------------------------------------
(* The grace period after the last subscriber is lost. *)

\* No token was issued since somebody last attached only while no timer is
\* armed, and then the operation is followed, has ended, or has not begun.
Graced(e) ==
    /\ attachToken[e] <= lossToken[e]
    /\ attachToken[e] = lossToken[e] =>
          /\ lossTimer[e] = 0
          /\ terminal[e] \/ SubscribersOf(e) # {} \/ worker[e] = "none"

GraceInv == \A e \in Entries : Graced(e)

\* An entry stays graced while its token only grows and, unless it grew, its
\* timer stays off and its subscribers, its end and its start stay.
LEMMA StaysGraced ==
    ASSUME TypeOK, NEW e \in Entries, Graced(e), attachToken'[e] = attachToken[e],
           \/ lossToken'[e] = lossToken[e] + 1
           \/ /\ lossToken'[e] = lossToken[e]
              /\ lossTimer'[e] = lossTimer[e] \/ lossTimer'[e] = 0
              /\ \/ terminal'[e]
                 \/ /\ terminal[e] => terminal'[e]
                    /\ SubscribersOf(e) # {} => SubscribersOf(e)' # {}
                    /\ worker[e] = "none" => worker'[e] = "none"
    PROVE  Graced(e)'
<1>1. attachToken[e] \in Nat /\ lossToken[e] \in Nat /\ lossTimer[e] \in Nat
  BY DEF TypeOK
<1> QED
  BY <1>1 DEF Graced

\* scheduleSubscriberLossLocked with what is left of the subscribers.
LEMMA ScheduleGraces ==
    ASSUME TypeOK, NEW e \in Entries, Graced(e), attachToken'[e] = attachToken[e],
           terminal'[e] = terminal[e],
           ScheduleSubscriberLoss(e, SubscribersOf(e)')
    PROVE  Graced(e)'
<1>1. /\ attachToken[e] \in Nat /\ lossToken[e] \in Nat /\ lossTimer[e] \in Nat
      /\ lossToken \in [Entries -> Nat] /\ lossTimer \in [Entries -> Nat]
  BY DEF TypeOK
<1>2. CASE MustArm(e, SubscribersOf(e)')
  <2>1. lossToken'[e] = lossToken[e] + 1
    BY <1>1, <1>2 DEF ScheduleSubscriberLoss
  <2> QED
    BY <2>1, StaysGraced
<1>3. CASE ~MustArm(e, SubscribersOf(e)')
  <2>1. lossToken'[e] = lossToken[e] /\ lossTimer'[e] = lossTimer[e]
    BY <1>3 DEF ScheduleSubscriberLoss
  <2>2. terminal'[e] \/ SubscribersOf(e)' # {} \/ lossTimer[e] # 0
    BY <1>3 DEF MustArm
  <2> QED
    BY <1>1, <2>1, <2>2 DEF Graced
<1> QED
  BY <1>2, <1>3

\* It leaves every other entry's timer alone.
LEMMA ScheduleOthers ==
    ASSUME TypeOK, NEW e, NEW rest, ScheduleSubscriberLoss(e, rest),
           NEW f \in Entries, f # e
    PROVE  lossToken'[f] = lossToken[f] /\ lossTimer'[f] = lossTimer[f]
BY DEF TypeOK, ScheduleSubscriberLoss

\* appendLocked of an event that does not end the operation.
LEMMA PublishGraces ==
    ASSUME TypeOK, GraceInv, NEW e \in Entries, NEW kind, NEW size, Publish(e, kind, size),
           UNCHANGED worker
    PROVE  GraceInv'
<1>1. /\ ScheduleSubscriberLoss(e, SubscribersOf(e) \ Overflown(e, kind))
      /\ registered' = registered \ Overflown(e, kind)
      /\ UNCHANGED <<terminal, attachToken, subEntry>>
  BY DEF Publish
<1>2. SubscribersOf(e)' = SubscribersOf(e) \ Overflown(e, kind)
  BY <1>1 DEF SubscribersOf
<1>3. Graced(e)'
  BY <1>1, <1>2, ScheduleGraces DEF GraceInv
<1>4. ASSUME NEW f \in Entries, f # e PROVE Graced(f)'
  <2>1. SubscribersOf(f)' = SubscribersOf(f)
    BY <1>1, <1>4 DEF SubscribersOf, Overflown
  <2>2. lossToken'[f] = lossToken[f] /\ lossTimer'[f] = lossTimer[f]
    BY <1>1, <1>4, ScheduleOthers
  <2> QED
    BY <1>1, <2>1, <2>2 DEF GraceInv, Graced
<1> QED
  BY <1>3, <1>4 DEF GraceInv

\* A completion: the timer is stopped for good.
LEMMA CompleteGraces ==
    ASSUME TypeOK, GraceInv, NEW e \in Entries, NEW outcome, NEW size,
           Complete(e, outcome, size),
           \A f \in Entries : f # e => worker'[f] = worker[f]
    PROVE  GraceInv'
<1>1. /\ lossToken' = lossToken \/ lossToken' = [lossToken EXCEPT ![e] = @ + 1]
      /\ lossTimer' = [lossTimer EXCEPT ![e] = 0]
      /\ terminal' = [terminal EXCEPT ![e] = TRUE]
      /\ UNCHANGED <<attachToken, subEntry>>
      /\ registered' \subseteq registered
      /\ \A s \in registered : subEntry[s] # e => s \in registered'
  BY DEF Complete, Overflown, SubscribersOf
<1>2. /\ lossToken \in [Entries -> Nat] /\ lossTimer \in [Entries -> Nat]
      /\ terminal \in [Entries -> BOOLEAN]
  BY DEF TypeOK
<1>3. Graced(e)'
  BY <1>1, <1>2, StaysGraced DEF GraceInv
<1>4. ASSUME NEW f \in Entries, f # e PROVE Graced(f)'
  <2>1. SubscribersOf(f)' = SubscribersOf(f)
    BY <1>1, <1>4 DEF SubscribersOf
  <2>2. /\ lossToken'[f] = lossToken[f] /\ lossTimer'[f] = lossTimer[f]
        /\ terminal'[f] = terminal[f] /\ attachToken'[f] = attachToken[f]
    BY <1>1, <1>2, <1>4
  <2> QED
    BY <1>4, <2>1, <2>2, StaysGraced DEF GraceInv
<1> QED
  BY <1>3, <1>4 DEF GraceInv

\* Every step keeps GraceInv.
LEMMA GraceStep == TypeOK /\ ChannelInv /\ GraceInv /\ [Next]_vars => GraceInv'
<1> SUFFICES ASSUME TypeOK, ChannelInv, GraceInv, [Next]_vars PROVE GraceInv'
  OBVIOUS
<1> USE DEF hubVars, logVars, workVars, timerVars, promptVars, subVars
<1>0. /\ lossToken \in [Entries -> Nat] /\ lossTimer \in [Entries -> Nat]
      /\ attachToken \in [Entries -> Nat] /\ worker \in [Entries -> WorkerStates]
      /\ subEntry \in [Subs -> Entries \cup {NoEntry}] /\ registered \subseteq Subs
      /\ counted \subseteq Subs /\ live \subseteq Entries
  BY DEF TypeOK
<1>1. ASSUME UNCHANGED <<lossToken, lossTimer, attachToken, terminal, registered, subEntry>>,
             \A e \in Entries : worker[e] = "none" => worker'[e] = "none"
      PROVE  GraceInv'
  <2>1. ASSUME NEW e \in Entries PROVE Graced(e)'
    <3>1. SubscribersOf(e)' = SubscribersOf(e)
      BY <1>1 DEF SubscribersOf
    <3> QED
      BY <1>1, <3>1, StaysGraced DEF GraceInv
  <2> QED
    BY <2>1 DEF GraceInv
<1>2. ASSUME NEW id \in Ids, NEW e \in Entries, Start(id, e) PROVE GraceInv'
  <2>1. /\ ScheduleSubscriberLoss(e, SubscribersOf(e))
        /\ worker' = [worker EXCEPT ![e] = "running"]
        /\ UNCHANGED <<terminal, attachToken, subEntry, registered>>
    BY <1>2 DEF Start
  <2>2. \A f \in Entries : SubscribersOf(f)' = SubscribersOf(f)
    BY <2>1 DEF SubscribersOf
  <2>3. Graced(e)'
    BY <2>1, <2>2, ScheduleGraces DEF GraceInv
  <2>4. ASSUME NEW f \in Entries, f # e PROVE Graced(f)'
    <3>1. lossToken'[f] = lossToken[f] /\ lossTimer'[f] = lossTimer[f]
      BY <2>1, <2>4, ScheduleOthers
    <3>2. worker'[f] = worker[f]
      BY <1>0, <2>1, <2>4
    <3> QED
      BY <2>1, <2>2, <3>1, <3>2 DEF GraceInv, Graced
  <2> QED
    BY <2>3, <2>4 DEF GraceInv
<1>3. ASSUME NEW s \in Subs, NEW e \in Entries, NEW after \in 0..MaxEvents, Subscribe(s, e, after)
      PROVE  GraceInv'
  <2>1. /\ lossTimer' = [lossTimer EXCEPT ![e] = 0]
        /\ attachToken' = [attachToken EXCEPT ![e] = lossToken[e]]
        /\ subEntry[s] = NoEntry /\ subEntry' = [subEntry EXCEPT ![s] = e]
        /\ registered' = registered \cup {s}
        /\ UNCHANGED <<lossToken, terminal, worker>>
    BY <1>3 DEF Subscribe
  <2>2. Graced(e)'
    <3>1. s \in SubscribersOf(e)'
      BY <1>0, <2>1 DEF SubscribersOf
    <3> QED
      BY <1>0, <2>1, <3>1 DEF Graced
  <2>3. ASSUME NEW f \in Entries, f # e PROVE Graced(f)'
    <3>1. SubscribersOf(f) \subseteq SubscribersOf(f)'
      BY <1>0, <2>1, HubAssumption DEF SubscribersOf
    <3>2. attachToken'[f] = attachToken[f] /\ lossTimer'[f] = lossTimer[f]
      BY <1>0, <2>1, <2>3
    <3> QED
      BY <2>1, <3>1, <3>2, StaysGraced DEF GraceInv
  <2> QED
    BY <2>2, <2>3 DEF GraceInv
<1>4. ASSUME NEW s \in Subs, CloseSubscription(s) PROVE GraceInv'
  <2>1. /\ s \in counted /\ registered' = registered \ {s}
        /\ ScheduleSubscriberLoss(subEntry[s], SubscribersOf(subEntry[s]) \ {s})
        /\ UNCHANGED <<terminal, worker, attachToken, subEntry>>
    BY <1>4 DEF CloseSubscription
  <2>2. PICK e \in Entries : e = subEntry[s]
    BY <1>0, <2>1 DEF ChannelInv
  <2>3. SubscribersOf(e)' = SubscribersOf(e) \ {s}
    BY <2>1 DEF SubscribersOf
  <2>4. Graced(e)'
    BY <2>1, <2>2, <2>3, ScheduleGraces DEF GraceInv
  <2>5. ASSUME NEW f \in Entries, f # e PROVE Graced(f)'
    <3>1. SubscribersOf(f)' = SubscribersOf(f)
      BY <2>1, <2>2, <2>5 DEF SubscribersOf
    <3>2. lossToken'[f] = lossToken[f] /\ lossTimer'[f] = lossTimer[f]
      BY <2>1, <2>2, <2>5, ScheduleOthers
    <3> QED
      BY <2>1, <3>1, <3>2, StaysGraced DEF GraceInv
  <2> QED
    BY <2>4, <2>5 DEF GraceInv
<1>5. ASSUME NEW e \in Entries, NEW size \in EventSizes, Emit(e, size) \/ PromptBegin(e, size)
      PROVE  GraceInv'
  BY <1>5, PublishGraces, CompleteGraces DEF Emit, PromptBegin, TerminateCapacity
<1>6. ASSUME NEW e \in Entries, NEW outcome \in Outcomes, NEW size \in EventSizes,
             Finish(e, outcome, size)
      PROVE  GraceInv'
  <2>1. worker[e] = "running" /\ worker' = [worker EXCEPT ![e] = "finished"]
    BY <1>6 DEF Finish
  <2>2. \A f \in Entries : f # e => worker'[f] = worker[f]
    BY <1>0, <2>1
  <2> QED
    BY <1>0, <1>1, <1>6, <2>1, <2>2, CompleteGraces DEF Finish, TerminateCapacity
<1>7. ASSUME NEW e \in Entries, ReleaseReservation(e) \/ RetireWorker(e) PROVE GraceInv'
  BY <1>0, <1>1, <1>7 DEF ReleaseReservation, RetireWorker
<1>8. ASSUME NEW e \in Entries, NEW token \in 1..lossToken[e], LossTimerCallback(e, token)
      PROVE  GraceInv'
  <2>1. /\ lossTimer' = lossTimer \/ lossTimer' = [lossTimer EXCEPT ![e] = 0]
        /\ UNCHANGED <<lossToken, attachToken, terminal, worker, registered, subEntry>>
    BY <1>8 DEF LossTimerCallback
  <2>2. ASSUME NEW f \in Entries PROVE Graced(f)'
    <3>1. SubscribersOf(f)' = SubscribersOf(f)
      BY <2>1 DEF SubscribersOf
    <3>2. lossTimer'[f] = lossTimer[f] \/ lossTimer'[f] = 0
      BY <1>0, <2>1
    <3> QED
      BY <2>1, <3>1, <3>2, StaysGraced DEF GraceInv
  <2> QED
    BY <2>2 DEF GraceInv
<1>9. CASE CancelActiveForDrain
  <2>1. /\ \A e \in Unfinished : terminal'[e] /\ lossTimer'[e] = 0
        /\ \A e \in Entries : lossToken'[e] \in {lossToken[e], lossToken[e] + 1}
        /\ \A e \in Entries \ Unfinished :
              /\ lossToken'[e] = lossToken[e] /\ lossTimer'[e] = lossTimer[e]
              /\ terminal'[e] = terminal[e]
        /\ UNCHANGED <<attachToken, worker, subEntry>>
    BY <1>0, <1>9 DEF CancelActiveForDrain, Unfinished, TypeOK
  <2>2. \A s \in registered : subEntry[s] \notin Unfinished => s \in registered'
    BY <1>9 DEF CancelActiveForDrain, Overflown, SubscribersOf
  <2>3. ASSUME NEW e \in Entries PROVE Graced(e)'
    <3>1. CASE e \in Unfinished
      BY <2>1, <3>1, StaysGraced DEF GraceInv
    <3>2. CASE e \notin Unfinished
      <4>1. SubscribersOf(e) \subseteq SubscribersOf(e)'
        BY <2>1, <2>2, <3>2 DEF SubscribersOf
      <4> QED
        BY <2>1, <3>2, <4>1, StaysGraced DEF GraceInv
    <3> QED
      BY <3>1, <3>2
  <2> QED
    BY <2>3 DEF GraceInv
<1>10. CASE \/ CallWithoutEffect
            \/ \E s \in Subs : Receive(s)
            \/ \E id \in Ids, p \in 1..MaxEvents : Respond(id, p)
            \/ \E id \in Ids : Cancel(id)
  BY <1>1, <1>10 DEF CallWithoutEffect, Receive, Respond, Cancel
<1>11. CASE \E e \in Entries : \/ PromptAnswered(e) \/ PromptExpires(e) \/ PromptCancelled(e)
                              \/ PromptLeave(e) \/ LossTimerFires(e)
  BY <1>1, <1>11 DEF PromptAnswered, PromptExpires, PromptCancelled, PromptGivesUp,
                     PromptLeave, LossTimerFires
<1>12. CASE Tick \/ GateBeginsDrain \/ BeginDrain \/ UNCHANGED vars
  BY <1>1, <1>12 DEF Tick, GateBeginsDrain, BeginDrain, vars
<1> QED
  BY <1>2, <1>3, <1>4, <1>5, <1>6, <1>7, <1>8, <1>9, <1>10, <1>11, <1>12 DEF Next

\* A loss timer's callback that was overtaken by a client that attached never
\* cancels the operation, however often the timer is armed, stopped and fires.
THEOREM GraceIsWhole == Spec => GracePeriodRestartsOnAttach
<1>1. Init => ChannelInv /\ WorkInv /\ GraceInv
  BY DEF Init, ChannelInv, WorkInv, WorkerActive, GraceInv, Graced
<1>2. TypeOK /\ ChannelInv /\ [Next]_vars => ChannelInv'
  BY ChannelStep
<1>3. TypeOK /\ WorkInv /\ GraceInv =>
        \A e \in Entries : \A t \in 1..lossToken[e] :
          LossTimerCallback(e, t) /\ cancelled'[e] /\ ~cancelled[e] => t > attachToken[e]
  <2> SUFFICES ASSUME TypeOK, WorkInv, GraceInv, NEW e \in Entries, NEW t \in 1..lossToken[e],
                      LossTimerCallback(e, t), cancelled'[e], ~cancelled[e]
               PROVE  t > attachToken[e]
    OBVIOUS
  <2>1. /\ lossToken[e] = t /\ e \in live /\ ~terminal[e] /\ SubscribersOf(e) = {}
    BY DEF LossTimerCallback, Stale
  <2>2. attachToken[e] <= lossToken[e] /\ attachToken[e] # lossToken[e]
    BY <2>1 DEF GraceInv, Graced, WorkInv
  <2> QED
    BY <2>1, <2>2 DEF TypeOK
<1> QED
  BY <1>1, <1>2, <1>3, WorkStep, GraceStep, TypeCorrect, PTL DEF Spec, GracePeriodRestartsOnAttach
=============================================================================
