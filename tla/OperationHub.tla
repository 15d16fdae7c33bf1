---------------------------- MODULE OperationHub ----------------------------
(***************************************************************************)
(* The daemon's operation hub (internal/daemon/operation.go): admitted     *)
(* operations run as workers, publish a bounded event log, ask prompts,    *)
(* and are followed by subscribers over bounded channels.  Every action    *)
(* is one critical section of OperationHub.mu, or one step of a goroutine  *)
(* between two of them.                                                    *)
(*                                                                         *)
(* An entry is one *operationEntry object; it outlives its place in        *)
(* h.operations (live), and an operation ID may be given to a later entry. *)
(* A subscription is one *OperationSubscription object.  Event payloads    *)
(* are abstracted to a kind (progress stands for warning too), an outcome  *)
(* (decided: the worker's result or failure; unknown: the descriptor       *)
(* operation_outcome_unknown) and an encoded size; an event's sequence     *)
(* number is its index in the log, and a prompt's identity is the sequence *)
(* number of its event.                                                    *)
(***************************************************************************)
EXTENDS Naturals, Sequences, FiniteSets

CONSTANTS
    Entries,            \* operationEntry objects, each admitted at most once
    Subs,               \* OperationSubscription objects, each used at most once
    Ids,                \* operation IDs clients choose
    NoEntry, NoId,      \* nil
    MaxEvents,          \* OperationHubOptions.MaxEvents
    MaxBytes,           \* OperationHubOptions.MaxBytes
    CompletionReserve,  \* operationCompletionReserveBytes
    CompletionSize,     \* encoded size of the hub's own failure completions
    EventSizes,         \* encoded sizes a worker's events may have
    MaxActive,          \* MaxActiveOperations
    MaxCompleted,       \* MaxCompletedOperations
    Retention,          \* CompletedRetention, in clock ticks
    SubscriberQueue,
    MaxSubsPerOp,       \* MaxSubscribersPerOperation
    MaxSubs,            \* MaxSubscribers
    MaxTime             \* bound on the clock

Critical == {"prompt", "complete"}
Outcomes == {"decided", "unknown"}
Event == [kind : {"progress", "prompt"}, outcome : {"none"}]
           \cup [kind : {"complete"}, outcome : Outcomes]

SmallerOf(a, b) == IF a < b THEN a ELSE b

\* operationCompletionReserveBytes is larger than any completion the hub
\* builds itself, and NewOperationHub raises MaxEvents to at least two.
ASSUME HubAssumption ==
    /\ MaxEvents \in Nat /\ MaxEvents >= 2
    /\ MaxBytes \in Nat /\ CompletionReserve \in Nat /\ CompletionSize \in Nat
    /\ CompletionSize <= SmallerOf(CompletionReserve, MaxBytes \div 2)
    /\ EventSizes \subseteq Nat
    /\ MaxActive \in Nat \ {0} /\ MaxCompleted \in Nat \ {0} /\ Retention \in Nat
    /\ SubscriberQueue \in Nat /\ SubscriberQueue >= 1
    /\ MaxSubsPerOp \in Nat /\ MaxSubs \in Nat /\ MaxTime \in Nat
    /\ NoEntry \notin Entries /\ NoId \notin Ids
    /\ IsFiniteSet(Entries) /\ IsFiniteSet(Subs)

VARIABLES
    \* the hub
    live,         \* the entries h.operations maps their opId to
    draining,     \* h.draining
    gateDraining, \* the daemon gate refuses reservations (options.Reserve fails)
    now,          \* options.Now()
    \* per entry
    opId,         \* entry.id
    events,       \* entry.events
    bytes,        \* entry.eventBytes
    terminal,     \* entry.terminal
    completedAt,  \* entry.completedAt
    cancelled,    \* entry.context is done
    worker,       \* where h.run's goroutine is
    reserved,     \* entries whose gate reservation is held
    lossTimer,    \* token of entry.lossTimer, 0 for nil
    lossToken,    \* entry.lossTimerToken
    fired,        \* loss timers that went off and whose callback waits for mu
    attachToken,  \* history: lossToken when a subscriber last attached
    \* per entry, the one prompt a worker may have open
    prompt,       \* entry.prompt.id, 0 for nil
    answered,     \* entry.prompt.responded
    responses,    \* number of values in the channel of the prompter's state
    prompter,     \* where Operation.Prompt is
    asked,        \* prompt ID the caller of Operation.Prompt waits on
    \* per subscription
    subEntry,     \* subscription.entry, NoEntry when not yet used
    registered,   \* subscriptions in their entry's subscribers map
    counted,      \* subscriptions with counted set
    capacity,     \* cap(events)
    queue,        \* sequence numbers in the channel
    cursor,       \* sequence number last received from the channel
    closes        \* number of times the channel was closed

hubVars    == <<live, draining, gateDraining, now>>
logVars    == <<opId, events, bytes, terminal, completedAt>>
workVars   == <<cancelled, worker, reserved>>
timerVars  == <<lossTimer, lossToken, fired, attachToken>>
promptVars == <<prompt, answered, responses, prompter, asked>>
subVars    == <<subEntry, registered, counted, capacity, queue, cursor, closes>>
vars == <<hubVars, logVars, workVars, timerVars, promptVars, subVars>>

WorkerStates == {"none", "running", "finished", "released", "gone"}
PrompterStates == {"idle", "waiting", "leaving"}

TypeOK ==
    /\ live \subseteq Entries
    /\ draining \in BOOLEAN /\ gateDraining \in BOOLEAN
    /\ now \in Nat
    /\ opId \in [Entries -> Ids \cup {NoId}]
    /\ events \in [Entries -> Seq(Event)]
    /\ bytes \in [Entries -> 0..MaxBytes]
    /\ terminal \in [Entries -> BOOLEAN]
    /\ completedAt \in [Entries -> Nat]
    /\ cancelled \in [Entries -> BOOLEAN]
    /\ worker \in [Entries -> WorkerStates]
    /\ reserved \subseteq Entries
    /\ lossTimer \in [Entries -> Nat] /\ lossToken \in [Entries -> Nat]
    /\ fired \subseteq Entries \X Nat
    /\ attachToken \in [Entries -> Nat]
    /\ prompt \in [Entries -> Nat] /\ asked \in [Entries -> Nat]
    /\ answered \in [Entries -> BOOLEAN]
    /\ responses \in [Entries -> Nat]
    /\ prompter \in [Entries -> PrompterStates]
    /\ subEntry \in [Subs -> Entries \cup {NoEntry}]
    /\ registered \subseteq Subs /\ counted \subseteq Subs
    /\ capacity \in [Subs -> Nat]
    /\ queue \in [Subs -> Seq(Nat)]
    /\ cursor \in [Subs -> Nat]
    /\ closes \in [Subs -> Nat]

Init ==
    /\ live = {} /\ draining = FALSE /\ gateDraining = FALSE /\ now = 0
    /\ opId = [e \in Entries |-> NoId]
    /\ events = [e \in Entries |-> <<>>]
    /\ bytes = [e \in Entries |-> 0]
    /\ terminal = [e \in Entries |-> FALSE]
    /\ completedAt = [e \in Entries |-> 0]
    /\ cancelled = [e \in Entries |-> FALSE]
    /\ worker = [e \in Entries |-> "none"]
    /\ reserved = {}
    /\ lossTimer = [e \in Entries |-> 0]
    /\ lossToken = [e \in Entries |-> 0]
    /\ fired = {}
    /\ attachToken = [e \in Entries |-> 0]
    /\ prompt = [e \in Entries |-> 0]
    /\ answered = [e \in Entries |-> FALSE]
    /\ responses = [e \in Entries |-> 0]
    /\ prompter = [e \in Entries |-> "idle"]
    /\ asked = [e \in Entries |-> 0]
    /\ subEntry = [s \in Subs |-> NoEntry]
    /\ registered = {} /\ counted = {}
    /\ capacity = [s \in Subs |-> 0]
    /\ queue = [s \in Subs |-> <<>>]
    /\ cursor = [s \in Subs |-> 0]
    /\ closes = [s \in Subs |-> 0]

-----------------------------------------------------------------------------
(* Derived state. *)

WorkerActive(e) == worker[e] \in {"running", "finished", "released"}
ActiveWorkers == {e \in Entries : WorkerActive(e)}           \* h.active
SubscribersOf(e) == {s \in registered : subEntry[s] = e}     \* entry.subscribers
CountedFor(e) == {s \in counted : subEntry[s] = e}           \* entry.subscriberCount

NeverRemovable(done, active) == {}            \* mutant: the oldest is never found
Removable(done, active) == done \ active

(* pruneCompletedLocked: the oldest completed entries without a worker go  *)
(* until at most MaxCompleted entries are completed.  keep is one result   *)
(* of that loop on the map kept; equal completion times are broken         *)
(* arbitrarily by the iteration order of a Go map.                         *)
PruneCompleted(kept, term, at, active) ==
    LET done      == {e \in kept : term[e]}
        removable == Removable(done, active)
    IN  {keep \in SUBSET kept :
            LET gone == kept \ keep
            IN  /\ gone \subseteq removable
                /\ \A e \in gone, f \in removable \ gone : at[e] <= at[f]
                /\ \/ Cardinality(done \ gone) <= MaxCompleted
                   \/ gone = removable
                /\ gone # {} => Cardinality(done \ gone) >= MaxCompleted}

(* pruneLocked: entries past their retention first. *)
PruneLocked(kept, active) ==
    LET expired == {e \in kept \ active :
                        terminal[e] /\ now >= completedAt[e] + Retention}
    IN  PruneCompleted(kept \ expired, terminal, completedAt, active)

(* scheduleSubscriberLossLocked, for an entry left with the subscribers    *)
(* rest: the new values of lossTimer and lossToken.                        *)
MustArmOnce(e, rest) == ~terminal[e] /\ rest = {} /\ lossToken[e] = 0   \* mutant

MustArm(e, rest) == ~terminal[e] /\ rest = {} /\ lossTimer[e] = 0

ScheduleSubscriberLoss(e, rest) ==
    IF MustArm(e, rest)
    THEN /\ lossToken' = [lossToken EXCEPT ![e] = @ + 1]
         /\ lossTimer' = [lossTimer EXCEPT ![e] = lossToken[e] + 1]
    ELSE UNCHANGED <<lossToken, lossTimer>>

-----------------------------------------------------------------------------
(* Publishing: appendLocked, dispatchLocked, markTerminalLocked. *)

NonterminalByteLimit == MaxBytes - SmallerOf(CompletionReserve, MaxBytes \div 2)

FitsWithoutReserve(e, kind, size) ==     \* mutant: no slot is kept for a completion
    Len(events[e]) < MaxEvents /\ bytes[e] + size <= MaxBytes

Fits(e, kind, size) ==
    IF kind = "complete"
    THEN Len(events[e]) < MaxEvents /\ bytes[e] + size <= MaxBytes
    ELSE /\ Len(events[e]) < MaxEvents - 1
         /\ bytes[e] + size <= NonterminalByteLimit

\* A noncritical event leaves operationCriticalQueueReserve slots free.
QueueLimit(s, kind) == IF kind \in Critical THEN capacity[s] ELSE capacity[s] - 1

Overflown(e, kind) == {s \in SubscribersOf(e) : Len(queue[s]) >= QueueLimit(s, kind)}

\* dispatchLocked: the next event of e reaches every subscriber with room.
Dispatched(e, kind) ==
    [s \in Subs |-> IF s \in SubscribersOf(e) \ Overflown(e, kind)
                    THEN Append(queue[s], Len(events[e]) + 1) ELSE queue[s]]

CloseAll(set) == [s \in Subs |-> IF s \in set THEN closes[s] + 1 ELSE closes[s]]

\* appendLocked of an event that is admitted and does not end the operation.
Publish(e, kind, size) ==
    /\ events' = [events EXCEPT ![e] = Append(@, [kind |-> kind, outcome |-> "none"])]
    /\ bytes' = [bytes EXCEPT ![e] = @ + size]
    /\ queue' = Dispatched(e, kind)
    /\ registered' = registered \ Overflown(e, kind)
    /\ closes' = CloseAll(Overflown(e, kind))
    /\ ScheduleSubscriberLoss(e, SubscribersOf(e) \ Overflown(e, kind))
    /\ UNCHANGED <<opId, terminal, completedAt, live, cancelled, fired, attachToken,
                   subEntry, counted, capacity, cursor>>

\* Append a completion if one more event still fits, then markTerminalLocked:
\* the remaining subscribers' channels are closed, the loss timer is stopped,
\* the prompt is dropped, the worker's context is cancelled, and the map is
\* pruned.  The loss timer that dispatchLocked arms when nobody is left is
\* stopped in the same critical section; its token stays used.
Complete(e, outcome, size) ==
    LET ends == Fits(e, "complete", size)
        lost == IF ends THEN Overflown(e, "complete") ELSE {}
    IN  /\ events' = IF ends
                     THEN [events EXCEPT ![e] =
                             Append(@, [kind |-> "complete", outcome |-> outcome])]
                     ELSE events
        /\ bytes' = IF ends THEN [bytes EXCEPT ![e] = @ + size] ELSE bytes
        /\ queue' = IF ends THEN Dispatched(e, "complete") ELSE queue
        /\ registered' = registered \ lost
        /\ closes' = CloseAll(SubscribersOf(e))
        /\ terminal' = [terminal EXCEPT ![e] = TRUE]
        /\ completedAt' = [completedAt EXCEPT ![e] = now]
        /\ cancelled' = [cancelled EXCEPT ![e] = TRUE]
        /\ lossToken' = IF ends /\ MustArm(e, SubscribersOf(e) \ lost)
                        THEN [lossToken EXCEPT ![e] = @ + 1] ELSE lossToken
        /\ lossTimer' = [lossTimer EXCEPT ![e] = 0]
        /\ prompt' = [prompt EXCEPT ![e] = 0]
        /\ UNCHANGED <<opId, fired, attachToken, answered, responses, prompter,
                       asked, subEntry, counted, capacity, cursor>>

\* terminateCapacityLocked: the hub's own completion, with unknown outcome.
TerminateCapacity(e) == Complete(e, "unknown", CompletionSize)

\* pruneCompletedLocked at the end of markTerminalLocked, with the worker of
\* every entry where active says it is.
PruneAfterTerminal(active) ==
    live' \in PruneCompleted(live, terminal', completedAt', active)

-----------------------------------------------------------------------------
(* Clients: Start, Subscribe, Respond, Cancel. *)

\* Start admits a new operation.  Its subscriber-loss timer is armed at once:
\* an operation nobody follows is cancelled after the grace period.
Start(id, e) ==
    /\ worker[e] = "none"
    /\ \E kept \in PruneLocked(live, ActiveWorkers) :
         /\ \A f \in kept : opId[f] # id
         /\ ~draining
         /\ Cardinality(ActiveWorkers) < MaxActive
         /\ ~gateDraining
         /\ live' = kept \cup {e}
    /\ opId' = [opId EXCEPT ![e] = id]
    /\ worker' = [worker EXCEPT ![e] = "running"]
    /\ reserved' = reserved \cup {e}
    /\ ScheduleSubscriberLoss(e, SubscribersOf(e))
    /\ UNCHANGED <<draining, gateDraining, now, events, bytes, terminal, completedAt,
                   cancelled, fired, attachToken, promptVars, subVars>>

\* A Start or Subscribe that is refused, or a Start that finds its operation
\* already admitted, still prunes the map.
CallWithoutEffect ==
    /\ live' \in PruneLocked(live, ActiveWorkers)
    /\ UNCHANGED <<draining, gateDraining, now, logVars, workVars, timerVars,
                   promptVars, subVars>>

\* The retained events after the client's cursor.
ReplayFromCursor(e, after) ==            \* mutant: the cursor's own event is repeated
    LET first == IF after = 0 THEN 1 ELSE after
    IN  [i \in 1..(Len(events[e]) + 1 - first) |-> first + i - 1]

Replay(e, after) == [i \in 1..(Len(events[e]) - after) |-> after + i]

\* Subscribe replays the retained events after the client's cursor.
Subscribe(s, e, after) ==
    /\ subEntry[s] = NoEntry
    /\ \E kept \in PruneLocked(live, ActiveWorkers) : e \in kept /\ live' = kept
    /\ after <= Len(events[e])
    /\ Cardinality(CountedFor(e)) < MaxSubsPerOp
    /\ Cardinality(counted) < MaxSubs
    /\ queue' = [queue EXCEPT ![s] = Replay(e, after)]
    /\ capacity' = [capacity EXCEPT ![s] = Len(Replay(e, after)) + SubscriberQueue + 1]
    /\ cursor' = [cursor EXCEPT ![s] = after]
    /\ closes' = IF terminal[e] THEN CloseAll({s}) ELSE closes
    /\ subEntry' = [subEntry EXCEPT ![s] = e]
    /\ registered' = registered \cup {s}
    /\ counted' = counted \cup {s}
    /\ lossTimer' = [lossTimer EXCEPT ![e] = 0]
    /\ attachToken' = [attachToken EXCEPT ![e] = lossToken[e]]
    /\ UNCHANGED <<draining, gateDraining, now, logVars, workVars, lossToken, fired, promptVars>>

\* serveOperationEvents takes the next event from the channel.
Receive(s) ==
    /\ queue[s] # <<>>
    /\ s \in counted
    /\ cursor' = [cursor EXCEPT ![s] = Head(queue[s])]
    /\ queue' = [queue EXCEPT ![s] = Tail(@)]
    /\ UNCHANGED <<hubVars, logVars, workVars, timerVars, promptVars,
                   subEntry, registered, counted, capacity, closes>>

\* The HTTP handler returns, on a closed channel, a failed write or a client
\* that went away, and its deferred Close runs removeSubscriber.  What the
\* channel still holds is garbage.
ClosedByRemovalAlways(s) == s \in registered              \* mutant
ClosedByRemoval(s) == s \in registered /\ ~terminal[subEntry[s]]

UncountRegistered(s) == IF s \in registered THEN counted \ {s} ELSE counted  \* mutant
Uncount(s) == counted \ {s}

CloseSubscription(s) ==
    LET e == subEntry[s]
    IN  /\ s \in counted
        /\ registered' = registered \ {s}
        /\ closes' = IF ClosedByRemoval(s) THEN CloseAll({s}) ELSE closes
        /\ counted' = Uncount(s)
        /\ ScheduleSubscriberLoss(e, SubscribersOf(e) \ {s})
        /\ queue' = [queue EXCEPT ![s] = <<>>]
        /\ capacity' = [capacity EXCEPT ![s] = 0]
        /\ UNCHANGED <<hubVars, logVars, workVars, fired, attachToken, promptVars,
                       subEntry, cursor>>

\* Respond accepts one answer, to the current prompt only.
AcceptsResponse(e, p) == ~terminal[e] /\ prompt[e] # 0 /\ prompt[e] = p /\ ~answered[e]

Respond(id, p) ==
    \E e \in live :
        /\ opId[e] = id
        /\ AcceptsResponse(e, p)
        /\ answered' = [answered EXCEPT ![e] = TRUE]
        /\ responses' = [responses EXCEPT ![e] = @ + 1]
        /\ UNCHANGED <<hubVars, logVars, workVars, timerVars, subVars,
                       prompt, prompter, asked>>

Cancel(id) ==
    \E e \in live :
        /\ opId[e] = id /\ ~terminal[e]
        /\ cancelled' = [cancelled EXCEPT ![e] = TRUE]
        /\ UNCHANGED <<hubVars, logVars, worker, reserved, timerVars, promptVars, subVars>>

-----------------------------------------------------------------------------
(* The worker: emit, Prompt, and the end of h.run. *)

\* Progress, Warning.  An event past the retained capacity ends the
\* operation with an unknown outcome.
Emit(e, size) ==
    /\ worker[e] = "running" /\ ~terminal[e]
    /\ \/ /\ Fits(e, "progress", size)
          /\ Publish(e, "progress", size)
          /\ UNCHANGED promptVars
       \/ /\ ~Fits(e, "progress", size)
          /\ TerminateCapacity(e)
          /\ PruneAfterTerminal(ActiveWorkers)
    /\ UNCHANGED <<draining, gateDraining, now, worker, reserved>>

PromptBegin(e, size) ==
    /\ worker[e] = "running" /\ ~terminal[e]
    /\ prompter[e] = "idle" /\ prompt[e] = 0
    /\ \/ /\ Fits(e, "prompt", size)
          /\ Publish(e, "prompt", size)
          /\ prompt' = [prompt EXCEPT ![e] = Len(events[e]) + 1]
          /\ asked' = [asked EXCEPT ![e] = Len(events[e]) + 1]
          /\ answered' = [answered EXCEPT ![e] = FALSE]
          /\ responses' = [responses EXCEPT ![e] = 0]
          /\ prompter' = [prompter EXCEPT ![e] = "waiting"]
       \/ /\ ~Fits(e, "prompt", size)
          /\ TerminateCapacity(e)
          /\ PruneAfterTerminal(ActiveWorkers)
    /\ UNCHANGED <<draining, gateDraining, now, worker, reserved>>

\* The select of Operation.Prompt: an answer, the caller's deadline, or the
\* end of the operation's context.
PromptAnswered(e) ==
    /\ prompter[e] = "waiting" /\ responses[e] > 0
    /\ responses' = [responses EXCEPT ![e] = @ - 1]
    /\ prompter' = [prompter EXCEPT ![e] = "leaving"]
    /\ UNCHANGED <<hubVars, logVars, workVars, timerVars, subVars, prompt, answered, asked>>

PromptGivesUp(e) ==
    /\ prompter[e] = "waiting"
    /\ prompter' = [prompter EXCEPT ![e] = "leaving"]
    /\ UNCHANGED <<hubVars, logVars, workVars, timerVars, subVars,
                   prompt, answered, responses, asked>>

PromptExpires(e) == PromptGivesUp(e)
PromptCancelled(e) == cancelled[e] /\ PromptGivesUp(e)

\* The deferred clean-up of Operation.Prompt, a critical section of its own;
\* the prompt's state object is garbage afterwards.
PromptLeave(e) ==
    /\ prompter[e] = "leaving"
    /\ prompter' = [prompter EXCEPT ![e] = "idle"]
    /\ prompt' = [prompt EXCEPT ![e] = IF @ = asked[e] THEN 0 ELSE @]
    /\ asked' = [asked EXCEPT ![e] = 0]
    /\ answered' = [answered EXCEPT ![e] = FALSE]
    /\ responses' = [responses EXCEPT ![e] = 0]
    /\ UNCHANGED <<hubVars, logVars, workVars, timerVars, subVars>>

\* h.finish after the worker's Run returned: a completion too large to retain
\* is replaced by the hub's own, and an operation already ended keeps its end.
\* A result that is not valid JSON is published as a failure.
Finish(e, outcome, size) ==
    /\ worker[e] = "running"
    /\ worker' = [worker EXCEPT ![e] = "finished"]
    /\ \/ /\ terminal[e]
          /\ UNCHANGED <<live, logVars, cancelled, timerVars, promptVars, subVars>>
       \/ /\ ~terminal[e]
          /\ IF Fits(e, "complete", size)
             THEN Complete(e, outcome, size)
             ELSE TerminateCapacity(e)
          /\ PruneAfterTerminal(ActiveWorkers)
    /\ UNCHANGED <<draining, gateDraining, now, reserved>>

ReleaseBeforeFinish(e) ==                \* mutant: run releases, then finishes
    /\ worker[e] \in {"running", "finished"}
    /\ worker' = [worker EXCEPT ![e] = IF @ = "finished" THEN "released" ELSE @]
    /\ reserved' = reserved \ {e}
    /\ UNCHANGED <<hubVars, logVars, cancelled, timerVars, promptVars, subVars>>

\* releaseWorker: the gate reservation is given back outside h.mu ...
ReleaseReservation(e) ==
    /\ worker[e] = "finished"
    /\ worker' = [worker EXCEPT ![e] = "released"]
    /\ reserved' = reserved \ {e}
    /\ UNCHANGED <<hubVars, logVars, cancelled, timerVars, promptVars, subVars>>

\* ... and then the entry stops being active and may be pruned.
RetireWorker(e) ==
    /\ worker[e] = "released"
    /\ worker' = [worker EXCEPT ![e] = "gone"]
    /\ live' \in PruneLocked(live, ActiveWorkers \ {e})
    /\ UNCHANGED <<draining, gateDraining, now, logVars, cancelled, reserved, timerVars,
                   promptVars, subVars>>

-----------------------------------------------------------------------------
(* Timers, the clock and the drain. *)

\* time.AfterFunc starts the callback; Stop no longer prevents it.
LossTimerFires(e) ==
    /\ lossTimer[e] # 0 /\ <<e, lossTimer[e]>> \notin fired
    /\ fired' = fired \cup {<<e, lossTimer[e]>>}
    /\ UNCHANGED <<hubVars, logVars, workVars, lossTimer, lossToken, attachToken,
                   promptVars, subVars>>

NeverStale(e, token) == FALSE            \* mutant
Stale(e, token) == lossToken[e] # token

\* The callback of scheduleSubscriberLossLocked gets h.mu.
LossTimerCallback(e, token) ==
    /\ <<e, token>> \in fired
    /\ fired' = fired \ {<<e, token>>}
    /\ \/ /\ Stale(e, token)
          /\ UNCHANGED <<cancelled, lossTimer>>
       \/ /\ ~Stale(e, token)
          /\ cancelled' = IF e \in live /\ ~terminal[e] /\ SubscribersOf(e) = {}
                          THEN [cancelled EXCEPT ![e] = TRUE] ELSE cancelled
          /\ lossTimer' = [lossTimer EXCEPT ![e] = 0]
    /\ UNCHANGED <<hubVars, logVars, worker, reserved, lossToken, attachToken,
                   promptVars, subVars>>

Tick ==
    /\ now < MaxTime
    /\ now' = now + 1
    /\ UNCHANGED <<live, draining, gateDraining, logVars, workVars, timerVars,
                   promptVars, subVars>>

\* Gate.BeginDrain precedes OperationHub.BeginDrain in the shutdown handler
\* and in runHost.
GateBeginsDrain ==
    /\ ~gateDraining
    /\ gateDraining' = TRUE
    /\ UNCHANGED <<live, draining, now, logVars, workVars, timerVars, promptVars, subVars>>

BeginDrain ==
    /\ gateDraining /\ ~draining
    /\ draining' = TRUE
    /\ UNCHANGED <<live, gateDraining, now, logVars, workVars, timerVars, promptVars, subVars>>

UnfinishedUnfollowed == {e \in live : ~terminal[e] /\ SubscribersOf(e) = {}}   \* mutant
Unfinished == {e \in live : ~terminal[e]}

\* CancelActiveForDrain, at the drain deadline: every unfinished operation
\* ends with an unknown outcome, in one critical section.
CancelActiveForDrain ==
    LET ends(e) == e \in Unfinished /\ Fits(e, "complete", CompletionSize)
        audience == UNION {SubscribersOf(e) : e \in Unfinished}
        lost == UNION {Overflown(e, "complete") : e \in {f \in Entries : ends(f)}}
    IN  /\ draining /\ Unfinished # {}
        /\ events' = [e \in Entries |->
                        IF ends(e) THEN Append(events[e],
                                          [kind |-> "complete", outcome |-> "unknown"])
                        ELSE events[e]]
        /\ bytes' = [e \in Entries |-> IF ends(e) THEN bytes[e] + CompletionSize ELSE bytes[e]]
        /\ queue' = [s \in Subs |->
                        IF s \in audience \ lost /\ ends(subEntry[s])
                        THEN Append(queue[s], Len(events[subEntry[s]]) + 1) ELSE queue[s]]
        /\ registered' = registered \ lost
        /\ closes' = CloseAll(audience)
        /\ terminal' = [e \in Entries |-> terminal[e] \/ e \in Unfinished]
        /\ completedAt' = [e \in Entries |-> IF e \in Unfinished THEN now ELSE completedAt[e]]
        /\ cancelled' = [e \in Entries |-> cancelled[e] \/ e \in Unfinished]
        /\ lossToken' = [e \in Entries |->
                            IF ends(e) /\ MustArm(e, SubscribersOf(e) \ lost)
                            THEN lossToken[e] + 1 ELSE lossToken[e]]
        /\ lossTimer' = [e \in Entries |-> IF e \in Unfinished THEN 0 ELSE lossTimer[e]]
        /\ prompt' = [e \in Entries |-> IF e \in Unfinished THEN 0 ELSE prompt[e]]
        /\ PruneAfterTerminal(ActiveWorkers)
        /\ UNCHANGED <<draining, gateDraining, now, opId, worker, reserved, fired,
                       attachToken, answered, responses, prompter, asked, subEntry, counted,
                       capacity, cursor>>

-----------------------------------------------------------------------------
Next ==
    \/ \E id \in Ids, e \in Entries : Start(id, e)
    \/ CallWithoutEffect
    \/ \E s \in Subs, e \in Entries : \E after \in 0..MaxEvents : Subscribe(s, e, after)
    \/ \E s \in Subs : Receive(s) \/ CloseSubscription(s)
    \/ \E id \in Ids, p \in 1..MaxEvents : Respond(id, p)
    \/ \E id \in Ids : Cancel(id)
    \/ \E e \in Entries, size \in EventSizes : Emit(e, size) \/ PromptBegin(e, size)
    \/ \E e \in Entries : \/ PromptAnswered(e) \/ PromptExpires(e) \/ PromptCancelled(e)
                          \/ PromptLeave(e)
    \/ \E e \in Entries, outcome \in Outcomes, size \in EventSizes :
           Finish(e, outcome, size)
    \/ \E e \in Entries : ReleaseReservation(e) \/ RetireWorker(e)
    \/ \E e \in Entries : LossTimerFires(e)
    \/ \E e \in Entries : \E token \in 1..lossToken[e] : LossTimerCallback(e, token)
    \/ Tick \/ GateBeginsDrain \/ BeginDrain \/ CancelActiveForDrain

Spec == Init /\ [][Next]_vars

-----------------------------------------------------------------------------
(* Safety. *)

\* The log of an operation is bounded, a completion is its last event and
\* appears exactly when the operation is terminal: the byte and event slots
\* that appendLocked withholds from other events leave room for it, so no
\* follower can be left without the authoritative end of the operation.
TerminalStreamsEndWithCompletion ==
    \A e \in Entries :
        /\ Len(events[e]) <= MaxEvents
        /\ \A i \in 1..Len(events[e]) :
               events[e][i].kind = "complete" => i = Len(events[e]) /\ terminal[e]
        /\ terminal[e] => /\ events[e] # <<>>
                          /\ events[e][Len(events[e])].kind = "complete"

\* The channel of a subscription is never closed twice (a Go panic): it is
\* open while the subscription is registered with an unfinished operation,
\* and closed exactly once when it was dropped as too slow, when the operation
\* ended, or when its handler returned; no handler waits on it for ever.
ChannelsClosedExactlyOnce ==
    \A s \in Subs : subEntry[s] # NoEntry =>
        closes[s] = IF s \in registered /\ ~terminal[subEntry[s]] THEN 0 ELSE 1

\* Nothing is ever sent on a closed channel (a Go panic): after the channel of
\* a subscription is closed its queue only shrinks.
NoSendOnClosedChannel ==
    [][\A s \in Subs : closes[s] > 0 => Len(queue'[s]) <= Len(queue[s])]_vars

\* What a subscriber has queued continues its cursor without a gap or a
\* repetition, and one that was not dropped holds everything up to the end of
\* the log: reading a channel to its close either yields the completion or
\* leaves a cursor from which Subscribe replays the rest.
SubscribersSeeEveryEvent ==
    \A s \in Subs : subEntry[s] # NoEntry =>
        /\ \A i \in 1..Len(queue[s]) : queue[s][i] = cursor[s] + i
        /\ cursor[s] + Len(queue[s]) <= Len(events[subEntry[s]])
        /\ s \in registered => cursor[s] + Len(queue[s]) = Len(events[subEntry[s]])

\* Respond sends on a channel of capacity one while it holds h.mu; a second
\* value would block the whole hub.  Stale and duplicate answers are refused.
RespondNeverBlocks == \A e \in Entries : responses[e] <= 1

\* Retrying Start with the ID of an operation whose worker is still running,
\* cleaning up, or giving back its reservation never starts a second worker,
\* whatever was pruned in between.
OneWorkerPerOperationId ==
    \A e, f \in Entries :
        WorkerActive(e) /\ WorkerActive(f) /\ opId[e] = opId[f] => e = f

\* At most MaxCompleted ended operations are retained besides the MaxActive
\* that have a worker, and entries whose worker has not returned stay reachable
\* for Cancel, Respond and the drain.
RetentionIsBounded ==
    /\ ActiveWorkers \subseteq live
    /\ Cardinality(ActiveWorkers) <= MaxActive
    /\ Cardinality(live \ ActiveWorkers) <= MaxCompleted

\* The hub's mutex is never lost to a panic or a full channel: no channel is
\* closed twice, and no answer waits for room.
HubNeverWedges == ChannelsClosedExactlyOnce /\ RespondNeverBlocks

\* Only a loss timer armed after the last subscriber attached may cancel an
\* operation: a callback that was already waiting for h.mu when a client
\* reconnected does not cut the new grace period short.
GracePeriodRestartsOnAttach ==
    [][\A e \in Entries : \A t \in 1..lossToken[e] :
          LossTimerCallback(e, t) /\ cancelled'[e] /\ ~cancelled[e] => t > attachToken[e]]_vars

\* A gate reservation covers a worker from before its first step until its
\* completion is published: with no reservation left every admitted
\* operation is terminal, and none is admitted once the gate drains.
ReservationCoversTheWork ==
    /\ \A e \in Entries : worker[e] = "running" \/ (e \in live /\ ~terminal[e])
                            => e \in reserved
    /\ draining => gateDraining

\* A retried Start joins the work that goes on under its ID, and the gate knows
\* of that work until its completion is published.
WorkIsExclusiveAndCounted == OneWorkerPerOperationId /\ ReservationCoversTheWork

-----------------------------------------------------------------------------
(* Liveness: the Go scheduler runs every goroutine that can run, timers go *)
(* off, HTTP handlers see the end of a closed channel, and a worker whose  *)
(* context is cancelled returns.                                           *)

WorkerReturnsWhenCancelled(e) ==
    cancelled[e] /\ \E size \in EventSizes : Finish(e, "unknown", size)

HandlerSeesClose(s) == closes[s] > 0 /\ queue[s] = <<>> /\ CloseSubscription(s)

Fairness ==
    /\ \A e \in Entries :
          /\ WF_vars(WorkerReturnsWhenCancelled(e))
          /\ WF_vars(ReleaseReservation(e)) /\ WF_vars(RetireWorker(e))
          /\ WF_vars(LossTimerFires(e))
          /\ WF_vars(\E token \in 1..lossToken[e] : LossTimerCallback(e, token))
          /\ WF_vars(PromptAnswered(e)) /\ WF_vars(PromptCancelled(e)) /\ WF_vars(PromptLeave(e))
    /\ \A s \in Subs : WF_vars(Receive(s)) /\ WF_vars(HandlerSeesClose(s))
    /\ WF_vars(BeginDrain) /\ WF_vars(CancelActiveForDrain)

FairSpec == Spec /\ Fairness

\* A drain always ends: once the gate drains, every worker eventually gives
\* back its reservation, because the drain deadline ends what is unfinished.
DrainReleasesEveryWorker == gateDraining ~> (reserved = {} /\ ActiveWorkers = {})

\* An operation that nobody follows is eventually ended or followed again.
AbandonedOperationsEnd ==
    \A e \in Entries :
        (worker[e] = "running" /\ SubscribersOf(e) = {})
            ~> (worker[e] # "running" \/ SubscribersOf(e) # {})

\* Every subscriber's handler that keeps reading a finished operation returns,
\* so subscriber slots are not leaked.
FinishedStreamsAreReleased ==
    \A s \in Subs : (s \in counted /\ closes[s] > 0) ~> s \notin counted

\* Neither the operations clients walk away from nor the streams of those that
\* end stay behind.
NothingIsHeldForever == AbandonedOperationsEnd /\ FinishedStreamsAreReleased
=============================================================================
