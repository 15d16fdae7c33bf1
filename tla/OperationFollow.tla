------------------------- MODULE OperationFollow -------------------------
(***************************************************************************)
(* A client that follows one streamed operation of the daemon across a     *)
(* broken connection (internal/daemon/operation_client.go), together with  *)
(* the routes it uses (operation_http.go) and the stream validator         *)
(* (service/operation.go).  The hub behind the routes is reduced to the    *)
(* operation's log, its open prompt and its end; OperationHub models it in *)
(* full.  A log entry's sequence number is its place in `log`, a prompt's  *)
(* identifier is the number of the event that opened it.                   *)
(***************************************************************************)
EXTENDS Naturals, Sequences

CONSTANTS MaxEvents    \* bound: events the operation publishes

VARIABLES
    log,          \* the retained events: "progress", "prompt", "succeeded", "failed"
    open,         \* the prompt a worker waits on, 0: none (entry.prompt)
    answers,      \* the prompt each delivered answer was meant for, and the one it met
    retained,     \* the daemon still knows the operation
    cancelled,    \* a client has asked for the operation's end
    pc,           \* where FollowOperation stands
    attempt,      \* its attempt, 0 or 1
    acknowledged, \* acknowledgedSequence: what a reconnect asks to be sent after
    current,      \* the event being handled
    accepted,     \* the hub took the answer under way
    shown,        \* the events handed to callbacks.Event, in order
    asked,        \* the prompts handed to callbacks.Prompt, in order
    report        \* what FollowOperation returned

logVars    == <<log, open, answers, retained, cancelled>>
followVars == <<pc, attempt, acknowledged, current, accepted, shown, asked, report>>
vars       == <<logVars, followVars>>

Ends == {"succeeded", "failed"}
Ended == log # <<>> /\ log[Len(log)] \in Ends

TypeOK ==
    /\ log \in Seq({"progress", "prompt"} \cup Ends) /\ Len(log) <= MaxEvents
    /\ open \in 0..Len(log) /\ retained \in BOOLEAN /\ cancelled \in BOOLEAN
    /\ pc \in {"connect", "decode", "prompt", "respond", "answered", "done"}
    /\ attempt \in 0..1 /\ acknowledged \in 0..MaxEvents /\ current \in 0..MaxEvents
    /\ report \in {"none", "succeeded", "failed", "unknown", "failed callback"}

Init ==
    /\ log = <<>> /\ open = 0 /\ answers = <<>> /\ retained = TRUE /\ cancelled = FALSE
    /\ pc = "connect" /\ attempt = 0 /\ acknowledged = 0 /\ current = 0
    /\ accepted = FALSE /\ shown = <<>> /\ asked = <<>> /\ report = "none"

---------------------------------------------------------------------------
(* The daemon's side.                                                      *)

\* Work emits progress, asks, and completes; a prompt waits for its answer,
\* and is withdrawn when its deadline passes or the operation is cancelled.
Publish(kind) ==
    /\ retained /\ ~Ended /\ open = 0
    /\ Len(log) < MaxEvents - 1
    /\ log' = Append(log, kind)
    /\ open' = IF kind = "prompt" THEN Len(log) + 1 ELSE 0
    /\ UNCHANGED <<answers, retained, cancelled, followVars>>

Withdraw ==
    /\ retained /\ open # 0
    /\ open' = 0
    /\ UNCHANGED <<log, answers, retained, cancelled, followVars>>

Complete(outcome) ==
    /\ retained /\ ~Ended /\ open = 0
    /\ log' = Append(log, outcome)
    /\ UNCHANGED <<open, answers, retained, cancelled, followVars>>

\* The daemon ends, or prunes the finished operation: it is known no more.
Forget ==
    /\ retained /\ retained' = FALSE
    /\ UNCHANGED <<log, open, answers, cancelled, followVars>>

\* serveOperationResponse: an answer for another prompt, or for none, is a Conflict.
RespondToAnyPrompt(id) == open # 0                                  \* mutant
AcceptsResponse(id) == open # 0 /\ open = id

---------------------------------------------------------------------------
(* FollowOperation.                                                        *)

Return(result) == pc' = "done" /\ report' = result

\* The stream broke: the second attempt continues after what was acknowledged.
ResumeFromStart == acknowledged' = 0                                \* mutant
Resume == acknowledged' = acknowledged

\* The loop of FollowOperation: one retry, then the outcome is unknown.
Interrupted ==
    /\ Resume
    /\ IF attempt = 1
       THEN Return("unknown") /\ UNCHANGED attempt
       ELSE pc' = "connect" /\ attempt' = 1 /\ UNCHANGED report

\* followOperationAttempt opens the stream: it may be refused for good, when the
\* operation or the daemon is gone, or fail to come about.
Connect ==
    /\ pc = "connect"
    /\ \/ /\ retained
          /\ pc' = "decode" /\ UNCHANGED <<attempt, acknowledged, report>>
       \/ ~retained /\ Return("unknown") /\ UNCHANGED <<attempt, acknowledged>>
       \/ Interrupted
    /\ UNCHANGED <<logVars, current, accepted, shown, asked>>

\* The stream ends early: a broken connection, or a daemon that dropped a slow
\* subscriber.
StreamBreaks ==
    /\ pc = "decode"
    /\ Interrupted
    /\ UNCHANGED <<logVars, current, accepted, shown, asked>>

\* callbacks.Event fails: the operation is cancelled if the daemon can still be
\* asked to, and its outcome is unknown, unless it is known already.
EventFails(n) ==
    /\ IF log[n] \in Ends
       THEN Return("failed callback") /\ UNCHANGED cancelled /\ acknowledged' = n
       ELSE /\ Return("unknown") /\ UNCHANGED acknowledged
            /\ cancelled' \in {cancelled, cancelled \/ retained}
    /\ UNCHANGED <<attempt, asked>>

HandledUnacknowledged(n) == UNCHANGED acknowledged                  \* mutant
Handled(n) == acknowledged' = n

EventSucceeds(n) ==
    /\ UNCHANGED <<cancelled, attempt>>
    /\ CASE log[n] \in Ends     -> Handled(n) /\ Return(log[n]) /\ UNCHANGED asked
         [] log[n] = "prompt"   -> /\ pc' = "prompt" /\ asked' = Append(asked, n)
                                   /\ UNCHANGED <<acknowledged, report>>
         [] log[n] = "progress" -> Handled(n) /\ pc' = "decode" /\ UNCHANGED <<asked, report>>

\* Decode one event, validate its number and hand it on.  What was written to the
\* stream is read even after the daemon has forgotten the operation.
NextInStream == acknowledged + 1
ReadEvent ==
    /\ pc = "decode" /\ NextInStream \in 1..Len(log)
    /\ current' = NextInStream
    /\ shown' = Append(shown, current')
    /\ EventFails(current') \/ EventSucceeds(current')
    /\ UNCHANGED <<log, open, answers, retained, accepted>>

\* callbacks.Prompt: the user answers, lets the deadline pass, or the dialog fails.
PromptAnswered ==
    /\ pc = "prompt" /\ pc' = "respond"
    /\ UNCHANGED <<logVars, attempt, acknowledged, current, accepted, shown, asked, report>>

PromptExpires ==
    /\ pc = "prompt" /\ Handled(current) /\ pc' = "decode"
    /\ UNCHANGED <<logVars, attempt, current, accepted, shown, asked, report>>

PromptFails ==
    /\ pc = "prompt" /\ Return("unknown")
    /\ cancelled' \in {cancelled, cancelled \/ retained}
    /\ UNCHANGED <<log, open, answers, retained, attempt, acknowledged, current, accepted,
                   shown, asked>>

\* The answer meets the hub, or is lost on its way.
SendResponse ==
    /\ pc = "respond" /\ pc' = "answered"
    /\ \/ /\ retained /\ AcceptsResponse(current)
          /\ answers' = Append(answers, [meant |-> current, met |-> open])
          /\ accepted' = TRUE /\ open' = 0
       \/ accepted' = FALSE /\ UNCHANGED <<answers, open>>
    /\ UNCHANGED <<log, retained, cancelled, attempt, acknowledged, current, shown, asked, report>>

\* sendOperationResponse returns: success; a Conflict, or the prompt's deadline,
\* after which the stream decides; or any other failure, also of an answer that
\* was accepted and whose confirmation was lost.
ResponseReturns ==
    /\ pc = "answered"
    /\ \/ Handled(current) /\ pc' = "decode" /\ UNCHANGED report
       \/ Return("unknown") /\ UNCHANGED acknowledged
    /\ UNCHANGED <<logVars, attempt, current, accepted, shown, asked>>

Stopped == pc = "done" /\ UNCHANGED vars

Next ==
    \/ \E k \in {"progress", "prompt"} : Publish(k)
    \/ Withdraw \/ Forget
    \/ \E o \in Ends : Complete(o)
    \/ Connect \/ StreamBreaks \/ ReadEvent
    \/ PromptAnswered \/ PromptExpires \/ PromptFails \/ SendResponse \/ ResponseReturns
    \/ Stopped

Spec == Init /\ [][Next]_vars

---------------------------------------------------------------------------
(* Every event is shown once and in order, across both connections, and so a *)
(* prompt is asked once at most.                                             *)
ShownOnceInOrder ==
    /\ \A i \in 1..Len(shown) : shown[i] = i
    /\ \A i, j \in 1..Len(asked) : asked[i] = asked[j] => i = j

(* An answer is delivered to the prompt it was given for, and to none twice.  *)
AnswersMeetTheirPrompt ==
    /\ \A i \in 1..Len(answers) : answers[i].meant = answers[i].met
    /\ \A i, j \in 1..Len(answers) : answers[i] = answers[j] => i = j

(* What FollowOperation reports as the outcome is the operation's, and all of *)
(* its events have been shown by then.                                        *)
OutcomeIsTheOperations ==
    report \in Ends => Ended /\ report = log[Len(log)] /\ Len(shown) = Len(log)

(* What makes these inductive: a prompt is open only while it is the last    *)
(* event, and only the last event ends the log; the client has shown what is *)
(* acknowledged, and the event it is handling.                               *)
Rising(s, bound) ==
    \A i \in 1..Len(s) : s[i] \in 1..bound /\ \A j \in 1..Len(s) : j < i => s[j] < s[i]

Meant == [i \in 1..Len(answers) |-> answers[i].meant]

LogIsSound ==
    /\ log \in Seq({"progress", "prompt"} \cup Ends)
    /\ open \in {0, Len(log)} /\ (open # 0 => ~Ended)
    /\ \A i \in 1..Len(log) : log[i] \in Ends => i = Len(log)

AnswersAreSound ==
    /\ answers \in Seq([meant : Nat, met : Nat])
    /\ \A i \in 1..Len(answers) : answers[i].meant = answers[i].met
    /\ open = 0 => Rising(Meant, Len(log))
    /\ open # 0 => Rising(Meant, open - 1)

ClientIsSound ==
    /\ shown \in Seq(Nat) /\ asked \in Seq(Nat) /\ acknowledged \in Nat
    /\ \A i \in 1..Len(shown) : shown[i] = i
    /\ Rising(asked, Len(shown))
    /\ pc \in {"connect", "decode"} => Len(shown) = acknowledged
    /\ pc \in {"prompt", "respond", "answered"} =>
          Len(shown) = acknowledged + 1 /\ current = Len(shown)
    /\ Len(shown) <= Len(log)
    /\ pc # "done" => report = "none"
    /\ OutcomeIsTheOperations

FollowInv == LogIsSound /\ AnswersAreSound /\ ClientIsSound

FollowingIsFaithful == ShownOnceInOrder /\ AnswersMeetTheirPrompt /\ OutcomeIsTheOperations
=============================================================================
