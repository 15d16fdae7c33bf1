----------------------------- MODULE SSHPrompt -----------------------------
(***************************************************************************)
(* One run of the system's ssh that may ask its user (internal/ssh:        *)
(* runner.go, askpass.go, browser_authentication.go).  ssh starts a helper *)
(* for every question; the helper dials the run's socket, a handler takes  *)
(* the question to whoever asked for the connection, under a deadline, and *)
(* brings back the answer.  Meanwhile ssh may print a link on stderr which  *)
(* the run presents at once.  The run ends with ssh, and only after its    *)
(* handlers did; the contents of questions and answers do not matter here. *)
(***************************************************************************)
EXTENDS Naturals, FiniteSets

CONSTANTS
    Helpers,          \* helpers that ssh starts, and strangers to the socket
    MaxRounds,        \* questions a run may ask
    MaxConnections,   \* maxAskpassConnections
    None

VARIABLES
    run,      \* where the runner is
    ssh,      \* the process
    cause,    \* why the run was cancelled
    call,     \* per helper, where its connection is
    why,      \* per helper, why it was turned down
    late,     \* helpers whose question has passed its deadline
    rounds,   \* Askpass.rounds
    failure,  \* Askpass.err
    link,     \* the presentation of the link
    timer,    \* its timer
    files,    \* what the run has on disk
    result    \* what the run returned

helpers == <<call, why, late, rounds, failure>>
browser == <<link, timer>>
vars == <<run, ssh, cause, helpers, browser, files, result>>

Handling == {h \in Helpers : call[h] \in {"reading", "asked", "answering", "failing", "denying"}}
Waiting == Handling \cup {h \in Helpers : call[h] = "dialed"}

TypeOK ==
    /\ run \in {"idle", "config", "open", "running", "closing", "closed", "ended"}
    /\ ssh \in {"none", "running", "succeeded", "failed"}
    /\ cause \in {None, "caller", "timeout", "link"}
    /\ call \in [Helpers -> {"none", "dialed", "reading", "asked", "answering", "failing", "denying",
                             "answered", "denied", "refused"}]
    /\ why \in [Helpers -> {None, "limit", "timeout", "prompt"}]
    /\ late \subseteq Helpers /\ rounds \in 0..Cardinality(Helpers)
    /\ failure \in {None, "limit", "timeout", "prompt"}
    /\ link \in {"none", "shown", "done"} /\ timer \in {"off", "armed", "fired"}
    /\ files \subseteq {"config", "directory", "socket"}
    /\ result \in {None, "caller", "timeout", "link", "limit", "prompt", "succeeded", "failed", "refused"}

Init ==
    /\ run = "idle" /\ ssh = "none" /\ cause = None
    /\ call = [h \in Helpers |-> "none"] /\ why = [h \in Helpers |-> None]
    /\ late = {} /\ rounds = 0 /\ failure = None
    /\ link = "none" /\ timer = "off" /\ files = {} /\ result = None

-----------------------------------------------------------------------------
(* The runner. *)

\* materializeProjection: the private configuration goes to a file.
Materialize ==
    /\ run = "idle"
    /\ \/ run' = "config" /\ files' = {"config"} /\ UNCHANGED result
       \/ run' = "ended" /\ result' = "refused" /\ UNCHANGED files
    /\ UNCHANGED <<ssh, cause, helpers, browser>>

\* NewAskpass: an ssh that cannot be made to ask, a directory or a socket that
\* cannot be made end the run with nothing left.
OpenAskpass ==
    /\ run = "config"
    /\ \/ run' = "open" /\ files' = files \cup {"directory", "socket"} /\ UNCHANGED result
       \/ run' = "ended" /\ result' = "refused" /\ files' = {}
    /\ UNCHANGED <<ssh, cause, helpers, browser>>

StartSSH ==
    /\ run = "open"
    /\ run' = "running" /\ ssh' \in {"running", "failed"}
    /\ UNCHANGED <<cause, helpers, browser, files, result>>

\* The end of the process is seen once its stderr is read to the end, which
\* the presentation of a link holds up.  Then the listener closes.
EndRun ==
    /\ run = "running" /\ ssh # "running" /\ link # "shown"
    /\ run' = "closing"
    /\ call' = [h \in Helpers |-> IF call[h] = "dialed" THEN "refused" ELSE call[h]]
    /\ UNCHANGED <<ssh, cause, why, late, rounds, failure, browser, files, result>>

\* Askpass.Close waits for the handlers; the mutant does not.
CloseAtOnce ==
    /\ run = "closing"
    /\ run' = "closed" /\ files' = files \ {"directory", "socket"}
    /\ UNCHANGED <<ssh, cause, helpers, browser, result>>
CloseAskpass ==
    /\ run = "closing" /\ Handling = {}
    /\ run' = "closed" /\ files' = files \ {"directory", "socket"}
    /\ UNCHANGED <<ssh, cause, helpers, browser, result>>

\* A question that failed says more than the cause of a cancellation, and that
\* more than the exit of ssh.
Return ==
    /\ run = "closed"
    /\ run' = "ended" /\ files' = files \ {"config"} /\ timer' = "off"
    /\ result' = IF failure # None THEN failure ELSE IF cause # None THEN cause ELSE ssh
    /\ UNCHANGED <<ssh, cause, helpers, link>>

Cancel(c) == cause' = IF cause = None THEN c ELSE cause
CallerCancels ==
    /\ run \in {"running", "closing"} /\ Cancel("caller")
    /\ UNCHANGED <<run, ssh, helpers, browser, files, result>>

-----------------------------------------------------------------------------
(* ssh (external): it succeeds only when every helper it has asked is done, *)
(* and fails whenever it likes, or because it is killed.                   *)

SSHSucceeds ==
    /\ ssh = "running" /\ Waiting = {} /\ ssh' = "succeeded"
    /\ UNCHANGED <<run, cause, helpers, browser, files, result>>
SSHFails ==
    /\ ssh = "running" /\ ssh' = "failed"
    /\ UNCHANGED <<run, cause, helpers, browser, files, result>>

-----------------------------------------------------------------------------
(* The askpass transport. *)

Enters(h, pc) == call' = [call EXCEPT ![h] = pc]
Steps(h, pc) == Enters(h, pc) /\ UNCHANGED <<run, ssh, cause, browser, files, result>>

\* RunAskpassHelper.
Dial(h) ==
    /\ call[h] = "none" /\ ssh = "running" /\ "socket" \in files
    /\ Steps(h, "dialed") /\ UNCHANGED <<why, late, rounds, failure>>

\* serve: one connection too many is closed.
Accept(h) ==
    /\ call[h] = "dialed" /\ run = "running"
    /\ Steps(h, IF Cardinality(Handling) < MaxConnections THEN "reading" ELSE "refused")
    /\ UNCHANGED <<why, late, rounds, failure>>

\* No request in time, or one without the run's token.
ReadFails(h) ==
    /\ call[h] = "reading"
    /\ Steps(h, "refused") /\ UNCHANGED <<why, late, rounds, failure>>

\* A question that is read counts, though it may not be asked.
ReadRequest(h) ==
    /\ call[h] = "reading" /\ rounds' = rounds + 1
    /\ IF rounds' > MaxRounds
       THEN Steps(h, "failing") /\ why' = [why EXCEPT ![h] = "limit"]
       ELSE Steps(h, "asked") /\ UNCHANGED why
    /\ UNCHANGED <<late, failure>>

DeadlinePasses(h) ==
    /\ call[h] = "asked" /\ h \notin late /\ late' = late \cup {h}
    /\ UNCHANGED <<run, ssh, cause, call, why, rounds, failure, browser, files, result>>

\* The callback returns, with an answer or an error; its deadline is looked at
\* first.
PromptReturns(h) ==
    /\ call[h] = "asked"
    /\ \/ h \notin late /\ Steps(h, "answering") /\ UNCHANGED why
       \/ Steps(h, "failing") /\ why' = [why EXCEPT ![h] = IF h \in late THEN "timeout" ELSE "prompt"]
    /\ UNCHANGED <<late, rounds, failure>>

\* setError keeps the first.
SetError(h) ==
    /\ call[h] = "failing"
    /\ failure' = IF failure = None THEN why[h] ELSE failure
    /\ Steps(h, "denying") /\ UNCHANGED <<why, late, rounds>>

Reply(h) ==
    /\ call[h] \in {"answering", "denying"}
    /\ Steps(h, IF call[h] = "answering" THEN "answered" ELSE "denied")
    /\ UNCHANGED <<why, late, rounds, failure>>

-----------------------------------------------------------------------------
(* The link in stderr. *)

\* browserAuthenticationWriter.Write: only the first one.
LinkSeen ==
    /\ ssh = "running" /\ link = "none"
    /\ link' = "shown" /\ timer' = "armed"
    /\ UNCHANGED <<run, ssh, cause, helpers, files, result>>

\* The attempt has two minutes from the link, acknowledged or not.
TimerFires ==
    /\ timer = "armed" /\ run # "ended" /\ timer' = "fired" /\ Cancel("timeout")
    /\ UNCHANGED <<run, ssh, helpers, link, files, result>>

LinkReturns ==
    /\ link = "shown" /\ link' = "done"
    /\ UNCHANGED cause \/ Cancel(IF timer = "fired" THEN "timeout" ELSE "link")
    /\ UNCHANGED <<run, ssh, helpers, timer, files, result>>

Next ==
    \/ Materialize \/ OpenAskpass \/ StartSSH \/ EndRun \/ CloseAskpass \/ Return \/ CallerCancels
    \/ SSHSucceeds \/ SSHFails
    \/ LinkSeen \/ TimerFires \/ LinkReturns
    \/ \E h \in Helpers :
         \/ Dial(h) \/ Accept(h) \/ ReadFails(h) \/ ReadRequest(h) \/ DeadlinePasses(h)
         \/ PromptReturns(h) \/ SetError(h) \/ Reply(h)

Spec == Init /\ [][Next]_vars

-----------------------------------------------------------------------------
\* A run that has returned has no handler at work, no file, no timer and no
\* process left.
RunsLeaveNothing == run = "ended" => files = {} /\ Handling = {} /\ timer # "armed" /\ ssh # "running"

\* One that reports success turned no question down, and one whose questions
\* were turned down says so, whatever ssh made of it.
ResultsCountPrompts ==
    run = "ended" /\ (\E h \in Helpers : call[h] = "denied") => result \in {"limit", "timeout", "prompt"}

\* ssh is never given an answer that came after its deadline, and the user is
\* never asked more often than allowed, by however many helpers at once.
Asked == {h \in Helpers : call[h] \in {"asked", "answering", "answered"}}
AnswersAreInTime ==
    /\ \A h \in late : call[h] \notin {"answering", "answered"}
    /\ Cardinality(Asked) <= MaxRounds

PromptsAreKept == RunsLeaveNothing /\ ResultsCountPrompts /\ AnswersAreInTime

\* What makes them inductive.  Before its ssh a run has nothing to clean up, and
\* then what it has left to clean up follows from where it is; ssh runs only
\* while its runner waits for it.
Started == run \in {"running", "closing", "closed", "ended"}

RunIsSound ==
    /\ ~Started => /\ ssh = "none" /\ timer = "off" /\ failure = None
                   /\ \A h \in Helpers : call[h] = "none"
    /\ files = CASE run \in {"idle", "ended"} -> {}
                 [] run \in {"config", "closed"} -> {"config"}
                 [] run \in {"open", "running", "closing"} -> {"config", "directory", "socket"}
    /\ ssh = "running" => run = "running"
    /\ run \in {"running", "closing", "closed"} => ssh # "none"
    /\ run \in {"closing", "closed", "ended"} => \A h \in Helpers : call[h] # "dialed"
    /\ run \in {"closed", "ended"} => Handling = {}
    /\ run = "ended" => timer # "armed" /\ (failure # None => result = failure)

\* A question is counted when it is read; one that is turned down has a reason,
\* and the run's error is set before its helper hears of it.
Counted == {h \in Helpers : call[h] \in {"asked", "answering", "failing", "denying", "answered", "denied"}}

HelpersAreSound ==
    /\ rounds = Cardinality(Counted) /\ Cardinality(Asked) <= MaxRounds
    /\ \A h \in Helpers :
          /\ call[h] = "failing" => why[h] \in {"limit", "timeout", "prompt"}
          /\ call[h] \in {"denying", "denied"} => failure # None
          /\ h \in late => call[h] \in {"asked", "failing", "denying", "denied"}

PromptInv == TypeOK /\ RunIsSound /\ HelpersAreSound
=============================================================================
