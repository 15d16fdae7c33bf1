--------------------------- MODULE ClientsProofs ---------------------------
(***************************************************************************)
(* Proofs about the components that MCClients explores side by side, for   *)
(* any number of helpers, commands, routes, hops and callers, and for any  *)
(* dashboard: PromptInv, ClientInv, ManagerInv and DashboardInv are the    *)
(* inductive invariants.  Each component has a lemma per action or group   *)
(* of actions; ServicesSpec takes one step of one component, so each       *)
(* theorem lifts its component's lemmas through the focus.                 *)
(***************************************************************************)
EXTENDS MCClients, FiniteSetTheorems, TLAPS

-----------------------------------------------------------------------------
(* SSHPrompt. *)

LEMMA PromptCardinality == ASSUME NEW S PROVE prompt!Cardinality(S) = Cardinality(S)
  BY DEF prompt!Cardinality, Cardinality

LEMMA InitPrompt == ASSUME ClientsAssumption, prompt!Init PROVE prompt!PromptInv
<1>1. prompt!Counted = {} /\ prompt!Asked = {} /\ prompt!Handling = {}
  BY DEF prompt!Init, prompt!Counted, prompt!Asked, prompt!Handling
<1>2. prompt!Cardinality({}) = 0 BY PromptCardinality, FS_EmptySet
<1>3. prompt!Cardinality(Helpers) \in Nat BY PromptCardinality, FS_CardinalityType DEF ClientsAssumption
<1>4. prompt!TypeOK
  <2>1. 0 \in 0..prompt!Cardinality(Helpers) BY <1>3
  <2>2. QED BY <2>1 DEF prompt!Init, prompt!TypeOK
<1>5. prompt!RunIsSound BY <1>1 DEF prompt!Init, prompt!RunIsSound, prompt!Started
<1>6. prompt!HelpersAreSound
  BY <1>1, <1>2 DEF prompt!Init, prompt!HelpersAreSound, ClientsAssumption
<1>7. QED BY <1>4, <1>5, <1>6 DEF prompt!PromptInv

\* What a step of one helper does to the counts.
LEMMA HelperCounts ==
    ASSUME ClientsAssumption, prompt!PromptInv, NEW h \in Helpers, NEW pc2,
           s4' = [s4 EXCEPT ![h] = pc2]
    PROVE  /\ \/ s7' = s7 /\ (h \in prompt!Counted <=> pc2 \in {"asked", "answering", "failing", "denying", "answered", "denied"})
              \/ s7' = s7 + 1 /\ h \notin prompt!Counted /\ pc2 \in {"asked", "failing"}
              => s7' = prompt!Cardinality(prompt!Counted') /\ s7' \in 0..prompt!Cardinality(Helpers)
           /\ \/ h \in prompt!Asked /\ pc2 # "asked"
              \/ h \notin prompt!Asked /\ pc2 \notin {"asked", "answering", "answered"}
              => prompt!Cardinality(prompt!Asked') <= MaxRounds
           /\ h \notin prompt!Counted /\ s7 + 1 <= MaxRounds
              => prompt!Cardinality(prompt!Asked') <= MaxRounds
<1> USE PromptCardinality DEF prompt!PromptInv
<1>1. /\ prompt!Counted \subseteq Helpers /\ prompt!Asked \subseteq prompt!Counted
      /\ prompt!Counted' \subseteq Helpers /\ prompt!Asked' \subseteq prompt!Asked \cup {h}
  BY DEF prompt!Counted, prompt!Asked, prompt!TypeOK
<1>2. /\ IsFiniteSet(Helpers) /\ IsFiniteSet(prompt!Counted) /\ IsFiniteSet(prompt!Asked)
      /\ IsFiniteSet(prompt!Counted') /\ IsFiniteSet(prompt!Asked \cup {h})
      /\ MaxRounds \in Nat
  BY <1>1, FS_Subset, FS_AddElement DEF ClientsAssumption
<1>3. /\ prompt!Cardinality(prompt!Counted') <= prompt!Cardinality(Helpers)
      /\ prompt!Cardinality(prompt!Counted') \in Nat /\ prompt!Cardinality(Helpers) \in Nat
  BY <1>1, <1>2, FS_Subset, FS_CardinalityType
<1>4. s7 = prompt!Cardinality(prompt!Counted) /\ prompt!Cardinality(prompt!Asked) <= MaxRounds
  BY DEF prompt!HelpersAreSound
<1>5. ASSUME s7' = s7, h \in prompt!Counted <=> pc2 \in {"asked", "answering", "failing", "denying", "answered", "denied"}
      PROVE  s7' = prompt!Cardinality(prompt!Counted')
  <2>1. prompt!Counted' = prompt!Counted BY <1>5 DEF prompt!Counted, prompt!TypeOK
  <2>2. QED BY <1>4, <1>5, <2>1
<1>6. ASSUME s7' = s7 + 1, h \notin prompt!Counted, pc2 \in {"asked", "failing"}
      PROVE  s7' = prompt!Cardinality(prompt!Counted')
  <2>1. prompt!Counted' = prompt!Counted \cup {h} BY <1>6 DEF prompt!Counted, prompt!TypeOK
  <2>2. QED BY <1>2, <1>4, <1>6, <2>1, FS_AddElement
<1>7. ASSUME \/ h \in prompt!Asked /\ pc2 # "asked"
             \/ h \notin prompt!Asked /\ pc2 \notin {"asked", "answering", "answered"}
      PROVE  prompt!Cardinality(prompt!Asked') <= MaxRounds
  <2>1. prompt!Asked' \subseteq prompt!Asked BY <1>7 DEF prompt!Asked, prompt!TypeOK
  <2>2. prompt!Cardinality(prompt!Asked') <= prompt!Cardinality(prompt!Asked)
    BY <1>2, <2>1, FS_Subset
  <2>3. /\ prompt!Cardinality(prompt!Asked') \in Nat /\ prompt!Cardinality(prompt!Asked) \in Nat
    BY <1>2, <2>1, FS_Subset, FS_CardinalityType
  <2>4. QED BY <1>2, <1>4, <2>2, <2>3
<1>8. ASSUME h \notin prompt!Counted, s7 + 1 <= MaxRounds
      PROVE  prompt!Cardinality(prompt!Asked') <= MaxRounds
  <2>1. h \notin prompt!Asked BY <1>1, <1>8
  <2>2. prompt!Cardinality(prompt!Asked \cup {h}) = prompt!Cardinality(prompt!Asked) + 1
    BY <1>2, <2>1, FS_AddElement
  <2>3. prompt!Cardinality(prompt!Asked) <= prompt!Cardinality(prompt!Counted)
    BY <1>1, <1>2, FS_Subset
  <2>4. prompt!Cardinality(prompt!Asked') <= prompt!Cardinality(prompt!Asked \cup {h})
    BY <1>1, <1>2, FS_Subset
  <2>5. /\ prompt!Cardinality(prompt!Asked') \in Nat /\ prompt!Cardinality(prompt!Asked) \in Nat
        /\ prompt!Cardinality(prompt!Counted) \in Nat
    BY <1>1, <1>2, FS_Subset, FS_CardinalityType
  <2>6. QED BY <1>2, <1>4, <1>8, <2>2, <2>3, <2>4, <2>5
<1>9. QED BY <1>3, <1>5, <1>6, <1>7, <1>8

\* A helper's step while it is handled, which is while its run has an ssh to wait for
\* or waits for the handlers themselves.
LEMMA HelperStep ==
    ASSUME ClientsAssumption, prompt!PromptInv, NEW h \in Helpers,
           \/ prompt!Dial(h) \/ prompt!Accept(h) \/ prompt!ReadFails(h) \/ prompt!ReadRequest(h)
           \/ prompt!DeadlinePasses(h) \/ prompt!PromptReturns(h) \/ prompt!SetError(h) \/ prompt!Reply(h)
    PROVE  prompt!PromptInv'
<1> USE DEF prompt!PromptInv
<1>1. UNCHANGED <<s1, s2, s3, s9, s10, s11, s12>>
  BY DEF prompt!Dial, prompt!Accept, prompt!ReadFails, prompt!ReadRequest, prompt!DeadlinePasses,
         prompt!PromptReturns, prompt!SetError, prompt!Reply, prompt!Steps, prompt!browser
<1>2. /\ \A q \in Helpers \ {h} : s4'[q] = s4[q] /\ s5'[q] = s5[q] /\ (q \in s6' <=> q \in s6)
      /\ s4'[h] # "dialed" \/ s1 = "running"
      /\ s4[h] = "none" => s4'[h] = "dialed" \/ s4'[h] = s4[h]
      /\ h \in prompt!Handling \/ s1 = "running"
      /\ s4' \in [Helpers -> {"none", "dialed", "reading", "asked", "answering", "failing", "denying",
                             "answered", "denied", "refused"}]
  <2>1. CASE prompt!Dial(h)
    BY <2>1 DEF prompt!Dial, prompt!Steps, prompt!Enters, prompt!TypeOK, prompt!RunIsSound
  <2>2. CASE prompt!Accept(h)
    BY <2>2 DEF prompt!Accept, prompt!Steps, prompt!Enters, prompt!TypeOK
  <2>3. CASE prompt!ReadFails(h) \/ prompt!ReadRequest(h)
    BY <2>3 DEF prompt!ReadFails, prompt!ReadRequest, prompt!Steps, prompt!Enters, prompt!TypeOK, prompt!Handling
  <2>4. CASE prompt!DeadlinePasses(h) \/ prompt!PromptReturns(h)
    BY <2>4 DEF prompt!DeadlinePasses, prompt!PromptReturns, prompt!Steps, prompt!Enters, prompt!TypeOK, prompt!Handling
  <2>5. CASE prompt!SetError(h) \/ prompt!Reply(h)
    BY <2>5 DEF prompt!SetError, prompt!Reply, prompt!Steps, prompt!Enters, prompt!TypeOK, prompt!Handling
  <2>6. QED BY <2>1, <2>2, <2>3, <2>4, <2>5
<1>3. prompt!Started /\ s1 \notin {"closed", "ended"}
  BY <1>2 DEF prompt!RunIsSound, prompt!Started, prompt!Handling
<1>4. /\ s8' \in {None, "limit", "timeout", "prompt"} /\ (s8 # None => s8' # None)
      /\ s5' \in [Helpers -> {None, "limit", "timeout", "prompt"}] /\ s6' \subseteq Helpers
  BY DEF prompt!Dial, prompt!Accept, prompt!ReadFails, prompt!ReadRequest, prompt!DeadlinePasses,
         prompt!PromptReturns, prompt!SetError, prompt!Reply, prompt!Steps, prompt!TypeOK,
         prompt!HelpersAreSound, ClientsAssumption
<1>5. prompt!RunIsSound'
  <2>1. s2 = "running" => s1 = "running" BY DEF prompt!RunIsSound
  <2>2. s1 = "closing" => \A q \in Helpers : s4'[q] # "dialed" BY <1>2 DEF prompt!RunIsSound
  <2>3. s11 = CASE s1 \in {"idle", "ended"} -> {}
                [] s1 \in {"config", "closed"} -> {"config"}
                [] s1 \in {"open", "running", "closing"} -> {"config", "directory", "socket"}
    BY DEF prompt!RunIsSound
  <2>4. QED BY <1>1, <1>3, <2>1, <2>2, <2>3 DEF prompt!RunIsSound, prompt!Started
<1>6. /\ s7' = prompt!Cardinality(prompt!Counted') /\ s7' \in 0..prompt!Cardinality(Helpers)
      /\ prompt!Cardinality(prompt!Asked') <= MaxRounds
  <2>1. CASE prompt!DeadlinePasses(h)
    <3>1. s4' = s4 /\ s7' = s7 BY <2>1 DEF prompt!DeadlinePasses
    <3>2. prompt!Counted' = prompt!Counted /\ prompt!Asked' = prompt!Asked
      BY <3>1 DEF prompt!Counted, prompt!Asked
    <3>3. QED BY <3>1, <3>2 DEF prompt!HelpersAreSound, prompt!TypeOK
  <2>2. CASE prompt!ReadRequest(h)
    <3>1. h \notin prompt!Counted /\ h \notin prompt!Asked /\ s7' = s7 + 1
      BY <2>2 DEF prompt!ReadRequest, prompt!Counted, prompt!Asked
    <3>2. \/ s4' = [s4 EXCEPT ![h] = "failing"]
          \/ s7 + 1 <= MaxRounds /\ s4' = [s4 EXCEPT ![h] = "asked"]
      <4>1. s7 + 1 \in Nat
        <5>1. prompt!Cardinality(Helpers) \in Nat
          BY PromptCardinality, FS_CardinalityType DEF ClientsAssumption
        <5>2. QED BY <5>1 DEF prompt!TypeOK
      <4>2. QED BY <2>2, <3>1, <4>1 DEF prompt!ReadRequest, prompt!Steps, prompt!Enters, ClientsAssumption
    <3>3. QED BY <3>1, <3>2, HelperCounts
  <2>3. CASE \/ prompt!Dial(h) \/ prompt!Accept(h) \/ prompt!ReadFails(h)
             \/ prompt!PromptReturns(h) \/ prompt!SetError(h) \/ prompt!Reply(h)
    <3>1. /\ s7' = s7
          /\ \/ /\ s4[h] \in {"none", "dialed", "reading"}
                /\ \E pc2 \in {"dialed", "reading", "refused"} : s4' = [s4 EXCEPT ![h] = pc2]
             \/ /\ s4[h] \in {"asked", "answering"}
                /\ \E pc2 \in {"answering", "answered", "failing"} : s4' = [s4 EXCEPT ![h] = pc2]
             \/ /\ s4[h] \in {"failing", "denying"}
                /\ \E pc2 \in {"denying", "denied"} : s4' = [s4 EXCEPT ![h] = pc2]
      <4>1. CASE prompt!Dial(h) BY <4>1 DEF prompt!Dial, prompt!Steps, prompt!Enters
      <4>2. CASE prompt!Accept(h) BY <4>2 DEF prompt!Accept, prompt!Steps, prompt!Enters
      <4>3. CASE prompt!ReadFails(h) BY <4>3 DEF prompt!ReadFails, prompt!Steps, prompt!Enters
      <4>4. CASE prompt!PromptReturns(h) BY <4>4 DEF prompt!PromptReturns, prompt!Steps, prompt!Enters
      <4>5. CASE prompt!SetError(h) BY <4>5 DEF prompt!SetError, prompt!Steps, prompt!Enters
      <4>6. CASE prompt!Reply(h) BY <4>6 DEF prompt!Reply, prompt!Steps, prompt!Enters
      <4>7. QED BY <2>3, <4>1, <4>2, <4>3, <4>4, <4>5, <4>6
    <3>2. CASE s4[h] \in {"none", "dialed", "reading"}
      <4>1. PICK pc2 \in {"dialed", "reading", "refused"} : s4' = [s4 EXCEPT ![h] = pc2] BY <3>1, <3>2
      <4>2. h \notin prompt!Counted /\ h \notin prompt!Asked BY <3>2 DEF prompt!Counted, prompt!Asked
      <4>3. QED BY <3>1, <4>1, <4>2, HelperCounts
    <3>3. CASE s4[h] \in {"asked", "answering"}
      <4>1. PICK pc2 \in {"answering", "answered", "failing"} : s4' = [s4 EXCEPT ![h] = pc2] BY <3>1, <3>3
      <4>2. h \in prompt!Counted /\ h \in prompt!Asked BY <3>3 DEF prompt!Counted, prompt!Asked
      <4>3. QED BY <3>1, <4>1, <4>2, HelperCounts
    <3>4. CASE s4[h] \in {"failing", "denying"}
      <4>1. PICK pc2 \in {"denying", "denied"} : s4' = [s4 EXCEPT ![h] = pc2] BY <3>1, <3>4
      <4>2. h \in prompt!Counted /\ h \notin prompt!Asked BY <3>4 DEF prompt!Counted, prompt!Asked
      <4>3. QED BY <3>1, <4>1, <4>2, HelperCounts
    <3>5. QED BY <3>1, <3>2, <3>3, <3>4
  <2>4. QED BY <2>1, <2>2, <2>3
<1>7. /\ s4'[h] = "failing" => s5'[h] \in {"limit", "timeout", "prompt"}
      /\ s4'[h] \in {"denying", "denied"} => s8' # None
      /\ h \in s6' => s4'[h] \in {"asked", "failing", "denying", "denied"}
  <2>1. /\ s4[h] = "failing" => s5[h] \in {"limit", "timeout", "prompt"}
        /\ s4[h] \in {"denying", "denied"} => s8 # None
        /\ h \in s6 => s4[h] \in {"asked", "failing", "denying", "denied"}
        /\ s4 \in [Helpers -> {"none", "dialed", "reading", "asked", "answering", "failing", "denying",
                               "answered", "denied", "refused"}]
        /\ s5 \in [Helpers -> {None, "limit", "timeout", "prompt"}]
    BY DEF prompt!HelpersAreSound, prompt!TypeOK
  <2>2. CASE prompt!Dial(h) \/ prompt!Accept(h) \/ prompt!ReadFails(h)
    BY <2>1, <2>2 DEF prompt!Dial, prompt!Accept, prompt!ReadFails, prompt!Steps, prompt!Enters
  <2>3. CASE prompt!ReadRequest(h)
    BY <2>1, <2>3 DEF prompt!ReadRequest, prompt!Steps, prompt!Enters
  <2>4. CASE prompt!DeadlinePasses(h)
    BY <2>1, <2>4 DEF prompt!DeadlinePasses
  <2>5. CASE prompt!PromptReturns(h)
    BY <2>1, <2>5 DEF prompt!PromptReturns, prompt!Steps, prompt!Enters
  <2>6. CASE prompt!SetError(h)
    BY <2>1, <2>6 DEF prompt!SetError, prompt!Steps, prompt!Enters, ClientsAssumption
  <2>7. CASE prompt!Reply(h)
    BY <2>1, <2>7 DEF prompt!Reply, prompt!Steps, prompt!Enters
  <2>8. QED BY <2>2, <2>3, <2>4, <2>5, <2>6, <2>7
<1>8. prompt!HelpersAreSound' BY <1>2, <1>4, <1>6, <1>7 DEF prompt!HelpersAreSound
<1>9. prompt!TypeOK' BY <1>1, <1>2, <1>4, <1>6 DEF prompt!TypeOK
<1>10. QED BY <1>5, <1>8, <1>9

\* The steps of the runner, of ssh and of the link leave the helpers as they are, but
\* for those who dialed a listener that closes.
LEMMA RunnerStep ==
    ASSUME ClientsAssumption, prompt!PromptInv,
           \/ prompt!Materialize \/ prompt!OpenAskpass \/ prompt!StartSSH \/ prompt!EndRun
           \/ prompt!CloseAskpass \/ prompt!Return \/ prompt!CallerCancels
           \/ prompt!SSHSucceeds \/ prompt!SSHFails
           \/ prompt!LinkSeen \/ prompt!TimerFires \/ prompt!LinkReturns
           \/ UNCHANGED prompt!vars
    PROVE  prompt!PromptInv'
<1> USE DEF prompt!PromptInv
<1>1. UNCHANGED <<s5, s6, s7, s8>>
      /\ (s4' = s4 \/ (prompt!EndRun /\ s4' = [h \in Helpers |-> IF s4[h] = "dialed" THEN "refused" ELSE s4[h]]))
  BY DEF prompt!Materialize, prompt!OpenAskpass, prompt!StartSSH, prompt!EndRun, prompt!CloseAskpass,
         prompt!Return, prompt!CallerCancels, prompt!SSHSucceeds, prompt!SSHFails, prompt!LinkSeen,
         prompt!TimerFires, prompt!LinkReturns, prompt!vars, prompt!helpers, prompt!browser
<1>2. /\ \A h \in Helpers : s4'[h] = s4[h] \/ (s4[h] = "dialed" /\ s4'[h] = "refused")
      /\ s4' \in [Helpers -> {"none", "dialed", "reading", "asked", "answering", "failing", "denying",
                             "answered", "denied", "refused"}]
  BY <1>1 DEF prompt!TypeOK
<1>3. prompt!Counted' = prompt!Counted /\ prompt!Asked' = prompt!Asked /\ prompt!Handling' = prompt!Handling
  BY <1>2 DEF prompt!Counted, prompt!Asked, prompt!Handling
<1>4. prompt!HelpersAreSound' BY <1>1, <1>2, <1>3 DEF prompt!HelpersAreSound
<1>5. prompt!TypeOK'
  <2>1. /\ s5' \in [Helpers -> {None, "limit", "timeout", "prompt"}]
        /\ s6' \subseteq Helpers /\ s7' \in 0..prompt!Cardinality(Helpers)
        /\ s8' \in {None, "limit", "timeout", "prompt"}
    BY <1>1 DEF prompt!TypeOK
  <2>2. /\ s1' \in {"idle", "config", "open", "running", "closing", "closed", "ended"}
        /\ s2' \in {"none", "running", "succeeded", "failed"}
        /\ s3' \in {None, "caller", "timeout", "link"}
        /\ s9' \in {"none", "shown", "done"} /\ s10' \in {"off", "armed", "fired"}
        /\ s11' \subseteq {"config", "directory", "socket"}
    <3>1. s1' \in {s1, "config", "open", "running", "closing", "closed", "ended"}
      BY DEF prompt!Materialize, prompt!OpenAskpass, prompt!StartSSH, prompt!EndRun, prompt!CloseAskpass,
            prompt!Return, prompt!CallerCancels, prompt!SSHSucceeds, prompt!SSHFails, prompt!LinkSeen,
            prompt!TimerFires, prompt!LinkReturns, prompt!Cancel, prompt!vars, prompt!browser
    <3>2. s2' \in {s2, "running", "succeeded", "failed"}
      BY DEF prompt!Materialize, prompt!OpenAskpass, prompt!StartSSH, prompt!EndRun, prompt!CloseAskpass,
            prompt!Return, prompt!CallerCancels, prompt!SSHSucceeds, prompt!SSHFails, prompt!LinkSeen,
            prompt!TimerFires, prompt!LinkReturns, prompt!Cancel, prompt!vars, prompt!browser
    <3>3. s3' \in {s3, "caller", "timeout", "link"}
      BY DEF prompt!Materialize, prompt!OpenAskpass, prompt!StartSSH, prompt!EndRun, prompt!CloseAskpass,
            prompt!Return, prompt!CallerCancels, prompt!SSHSucceeds, prompt!SSHFails, prompt!LinkSeen,
            prompt!TimerFires, prompt!LinkReturns, prompt!Cancel, prompt!vars, prompt!browser
    <3>4. s9' \in {s9, "shown", "done"}
      BY DEF prompt!Materialize, prompt!OpenAskpass, prompt!StartSSH, prompt!EndRun, prompt!CloseAskpass,
            prompt!Return, prompt!CallerCancels, prompt!SSHSucceeds, prompt!SSHFails, prompt!LinkSeen,
            prompt!TimerFires, prompt!LinkReturns, prompt!Cancel, prompt!vars, prompt!browser
    <3>5. s10' \in {s10, "off", "armed", "fired"}
      BY DEF prompt!Materialize, prompt!OpenAskpass, prompt!StartSSH, prompt!EndRun, prompt!CloseAskpass,
            prompt!Return, prompt!CallerCancels, prompt!SSHSucceeds, prompt!SSHFails, prompt!LinkSeen,
            prompt!TimerFires, prompt!LinkReturns, prompt!Cancel, prompt!vars, prompt!browser
    <3>6. s11' \subseteq s11 \cup {"config", "directory", "socket"}
      BY DEF prompt!Materialize, prompt!OpenAskpass, prompt!StartSSH, prompt!EndRun, prompt!CloseAskpass,
            prompt!Return, prompt!CallerCancels, prompt!SSHSucceeds, prompt!SSHFails, prompt!LinkSeen,
            prompt!TimerFires, prompt!LinkReturns, prompt!Cancel, prompt!vars, prompt!browser
    <3>7. QED BY <3>1, <3>2, <3>3, <3>4, <3>5, <3>6 DEF prompt!TypeOK
  <2>3. s12' \in {None, "caller", "timeout", "link", "limit", "prompt", "succeeded", "failed", "refused"}
    <3>1. CASE prompt!Return
      <4>1. s2 \in {"succeeded", "failed"}
        BY <3>1 DEF prompt!Return, prompt!RunIsSound, prompt!Started, prompt!TypeOK
      <4>2. s8 \in {None, "limit", "timeout", "prompt"} /\ s3 \in {None, "caller", "timeout", "link"}
        BY DEF prompt!TypeOK
      <4>3. s12' \in {s8, s3, s2} BY <3>1 DEF prompt!Return
      <4>4. QED BY <4>1, <4>2, <4>3
    <3>2. CASE ~prompt!Return
      <4>1. s12' \in {s12, "refused"}
        BY <3>2
        DEF prompt!Materialize, prompt!OpenAskpass, prompt!StartSSH, prompt!EndRun, prompt!CloseAskpass,
            prompt!CallerCancels, prompt!SSHSucceeds, prompt!SSHFails, prompt!LinkSeen,
            prompt!TimerFires, prompt!LinkReturns, prompt!vars
      <4>2. QED BY <4>1 DEF prompt!TypeOK
    <3>3. QED BY <3>1, <3>2
  <2>4. QED BY <1>2, <2>1, <2>2, <2>3 DEF prompt!TypeOK
<1>6. prompt!RunIsSound'
  <2> USE DEF prompt!RunIsSound, prompt!Started
  <2>1. CASE prompt!Materialize BY <1>1, <1>3, <2>1 DEF prompt!Materialize, prompt!EndRun, prompt!browser, prompt!Handling
  <2>2. CASE prompt!OpenAskpass BY <1>1, <1>3, <2>2 DEF prompt!OpenAskpass, prompt!EndRun, prompt!browser, prompt!Handling
  <2>3. CASE prompt!StartSSH BY <1>1, <1>3, <2>3 DEF prompt!StartSSH, prompt!EndRun, prompt!browser
  <2>4. CASE prompt!EndRun BY <1>1, <1>3, <2>4 DEF prompt!EndRun, prompt!browser, prompt!TypeOK
  <2>5. CASE prompt!CloseAskpass BY <1>1, <1>3, <2>5 DEF prompt!CloseAskpass, prompt!EndRun, prompt!browser
  <2>6. CASE prompt!Return BY <1>1, <1>3, <2>6 DEF prompt!Return, prompt!EndRun, prompt!browser
  <2>7. CASE prompt!CallerCancels BY <1>1, <1>3, <2>7 DEF prompt!CallerCancels, prompt!EndRun, prompt!browser
  <2>8. CASE prompt!SSHSucceeds \/ prompt!SSHFails
    BY <1>1, <1>3, <2>8 DEF prompt!SSHSucceeds, prompt!SSHFails, prompt!EndRun, prompt!browser
  <2>9. CASE prompt!LinkSeen \/ prompt!TimerFires \/ prompt!LinkReturns
    BY <1>1, <1>3, <2>9 DEF prompt!LinkSeen, prompt!TimerFires, prompt!LinkReturns, prompt!EndRun
  <2>10. CASE UNCHANGED prompt!vars
    BY <1>1, <1>3, <2>10 DEF prompt!vars, prompt!browser, prompt!EndRun
  <2>11. QED BY <2>1, <2>2, <2>3, <2>4, <2>5, <2>6, <2>7, <2>8, <2>9, <2>10
<1>7. QED BY <1>4, <1>5, <1>6

LEMMA NextPrompt ==
    ASSUME ClientsAssumption, prompt!PromptInv, [prompt!Next]_(prompt!vars)
    PROVE  prompt!PromptInv'
BY HelperStep, RunnerStep DEF prompt!Next

\* However many questions an ssh asks at once, and whatever cancels its run: a run
\* that has returned leaves no handler, file, timer or process, reports a question
\* that was turned down, and gave no answer after its deadline nor beyond the limit
\* (Askpass.serve, Close and Err, RunWithPrompts).
THEOREM PromptsStayKept ==
    ASSUME ClientsAssumption PROVE ServicesSpec => []PromptsAreKept
<1> DEFINE Inv == focus = "prompt" => prompt!PromptInv
<1>1. ServicesInit => Inv BY InitPrompt DEF ServicesInit
<1>2. Inv /\ [ServicesNext]_services => Inv'
  BY NextPrompt DEF ServicesNext, services, slots, prompt!vars, prompt!helpers, prompt!browser
<1>3. Inv => PromptsAreKept
  <2>1. SUFFICES ASSUME prompt!PromptInv PROVE prompt!PromptsAreKept BY DEF PromptsAreKept
  <2>2. prompt!RunsLeaveNothing
    BY <2>1 DEF prompt!PromptInv, prompt!RunIsSound, prompt!RunsLeaveNothing
  <2>3. prompt!ResultsCountPrompts
    BY <2>1 DEF prompt!PromptInv, prompt!RunIsSound, prompt!HelpersAreSound, prompt!TypeOK,
                prompt!ResultsCountPrompts
  <2>4. prompt!AnswersAreInTime
    BY <2>1 DEF prompt!PromptInv, prompt!HelpersAreSound, prompt!TypeOK, prompt!AnswersAreInTime
  <2>5. QED BY <2>2, <2>3, <2>4 DEF prompt!PromptsAreKept
<1>4. QED BY <1>1, <1>2, <1>3, PTL DEF ServicesSpec

-----------------------------------------------------------------------------
(* SSHClient. *)

LEMMA InitClient == ASSUME ClientsAssumption, client!Init PROVE client!ClientInv
<1> USE DEF client!Init
<1>1. s1 \in Routes BY DEF ClientsAssumption
<1>2. client!Idle \in client!Jobs BY DEF client!Idle, client!Jobs, ClientsAssumption
<1>3. 0 \in 0..MaxChanges BY DEF ClientsAssumption
<1>4. client!TypeOK BY <1>1, <1>2, <1>3 DEF client!TypeOK
<1>5. \A c \in Commands : s5[c].attempt = 0 /\ s5[c].pc = "idle" BY DEF client!Idle
<1>6. \A c \in Commands : client!AttemptsAreSound(c)
  BY <1>5 DEF client!AttemptsAreSound, client!Attempts
<1>7. \A c \in Commands : client!HoldIsSound(c) BY <1>5 DEF client!HoldIsSound
<1>8. \A k \in Commands \X client!Attempts : client!LeaseIsSound(k)
  BY DEF client!LeaseIsSound, client!Live
<1>9. QED BY <1>4, <1>6, <1>7, <1>8 DEF client!ClientInv

\* What the types say of one command.
LEMMA ClientTypes ==
    ASSUME ClientsAssumption, client!TypeOK, NEW c \in Commands
    PROVE  /\ s5[c] \in client!Jobs /\ s5[c].attempt \in Nat /\ s5[c].attempt <= MaxAttempts
           /\ s5[c].attempt > 0 => client!Mine(c) \in Commands \X client!Attempts
           /\ \A n \in client!Attempts : <<c, n>> \in Commands \X client!Attempts
           /\ \A k \in Commands \X client!Attempts : k = <<k[1], k[2]>> /\ k[1] \in Commands /\ k[2] \in client!Attempts
<1>1. s5[c] \in client!Jobs BY DEF client!TypeOK
<1>2. s5[c].attempt \in 0..MaxAttempts BY <1>1 DEF client!Jobs
<1>3. MaxAttempts \in Nat BY DEF ClientsAssumption
<1>4. s5[c].attempt \in Nat /\ s5[c].attempt <= MaxAttempts BY <1>2, <1>3
<1>5. s5[c].attempt > 0 => s5[c].attempt \in client!Attempts BY <1>3, <1>4 DEF client!Attempts
<1>6. QED BY <1>1, <1>4, <1>5 DEF client!Mine

\* A step of one command, or of an operation of its, disturbs no other command's.
LEMMA CommandMoves ==
    ASSUME ClientsAssumption, client!ClientInv, NEW c \in Commands,
           client!TypeOK', s2' = s2,
           \A d \in Commands \ {c} : s5'[d] = s5[d] /\ s6'[d] = s6[d] /\ s7'[d] = s7[d],
           \A k \in Commands \X client!Attempts : k[1] # c => s3'[k] = s3[k] /\ s4'[k] = s4[k],
           client!AttemptsAreSound(c)', client!HoldIsSound(c)',
           \A n \in client!Attempts : client!LeaseIsSound(<<c, n>>)'
    PROVE  client!ClientInv'
<1> USE ClientTypes DEF client!ClientInv
<1>1. ASSUME NEW d \in Commands, d # c PROVE client!AttemptsAreSound(d)'
  <2>1. \A n \in client!Attempts : s3'[<<d, n>>] = s3[<<d, n>>] BY <1>1
  <2>2. client!AttemptsAreSound(d) /\ s5'[d] = s5[d] BY <1>1
  <2>3. s5[d].attempt > 0 => s3'[client!Mine(d)'] = s3[client!Mine(d)]
    BY <1>1, <2>1, <2>2 DEF client!Mine, client!Attempts
  <2>4. QED BY <2>1, <2>2, <2>3 DEF client!AttemptsAreSound
<1>2. ASSUME NEW d \in Commands, d # c PROVE client!HoldIsSound(d)'
  <2>1. client!HoldIsSound(d) /\ client!AttemptsAreSound(d) /\ s5'[d] = s5[d] /\ s6'[d] = s6[d] /\ s7'[d] = s7[d]
    BY <1>2
  <2>2. client!Mine(d)' = client!Mine(d) BY <2>1 DEF client!Mine
  <2>3. s5[d].pc \in {"run", "wait"} => s4'[client!Mine(d)] = s4[client!Mine(d)]
    <3>1. s5[d].pc \in {"run", "wait"} => client!Mine(d) \in Commands \X client!Attempts /\ client!Mine(d)[1] = d
      BY <1>2, <2>1 DEF client!AttemptsAreSound, client!Mine
    <3>2. QED BY <1>2, <3>1
  <2>4. QED BY <2>1, <2>2, <2>3 DEF client!HoldIsSound, client!Serves, client!Live
<1>3. ASSUME NEW k \in Commands \X client!Attempts PROVE client!LeaseIsSound(k)'
  <2>1. k[1] \in Commands /\ k[2] \in client!Attempts /\ k = <<k[1], k[2]>> BY <1>3
  <2>2. CASE k[1] = c BY <2>1, <2>2
  <2>3. CASE k[1] # c
    <3>1. s3'[k] = s3[k] /\ s4'[k] = s4[k] /\ s5'[k[1]] = s5[k[1]] BY <1>3, <2>1, <2>3
    <3>2. QED BY <1>3, <3>1 DEF client!LeaseIsSound, client!Live
  <2>4. QED BY <2>2, <2>3
<1>4. QED BY <1>1, <1>2, <1>3

\* A lease is replaced by another one.
LEMMA LeaseMoves ==
    ASSUME ClientsAssumption, client!TypeOK, NEW k \in Commands \X client!Attempts, NEW r \in client!Leases,
           s4' = [s4 EXCEPT ![k] = r]
    PROVE  /\ s4' \in [Commands \X client!Attempts -> client!Leases \cup {None}]
           /\ s4'[k] = r /\ r # None /\ \A j \in Commands \X client!Attempts : j # k => s4'[j] = s4[j]
BY DEF client!TypeOK, ClientsAssumption

Pcs == {"idle", "resolve", "start", "follow", "hold", "run", "wait", "keep", "release", "end"}

LEMMA JobMoves ==
    ASSUME ClientsAssumption, client!TypeOK, NEW c \in Commands, NEW l \in Pcs,
           s5' = [s5 EXCEPT ![c].pc = l]
    PROVE  /\ s5' \in [Commands -> client!Jobs] /\ \A d \in Commands \ {c} : s5'[d] = s5[d]
           /\ s5'[c].pc = l /\ s5'[c].attempt = s5[c].attempt /\ client!Mine(c)' = client!Mine(c)
           /\ s5'[c].expected = s5[c].expected /\ s5'[c].snapshot = s5[c].snapshot
<1>1. PICK r : r = [s5[c] EXCEPT !.pc = l] OBVIOUS
<1>2. s5[c] \in client!Jobs BY ClientTypes
<1>3. /\ r \in client!Jobs /\ r.pc = l /\ r.attempt = s5[c].attempt
      /\ r.expected = s5[c].expected /\ r.snapshot = s5[c].snapshot
  BY <1>1, <1>2 DEF client!Jobs, Pcs
<1>4. s5' = [s5 EXCEPT ![c] = r] /\ s5 \in [Commands -> client!Jobs] BY <1>1 DEF client!TypeOK
<1>5. s5'[c] = r /\ s5' \in [Commands -> client!Jobs] /\ \A d \in Commands \ {c} : s5'[d] = s5[d]
  BY <1>3, <1>4
<1>6. QED BY <1>3, <1>5 DEF client!Mine

\* A command goes from one place to another, and its operations and leases stay.
LEMMA PcMoves ==
    ASSUME ClientsAssumption, client!ClientInv, NEW c \in Commands, NEW l \in Pcs \ {"idle", "resolve"},
           s5' = [s5 EXCEPT ![c].pc = l],
           UNCHANGED <<s1, s2, s3, s4, s9>>,
           s6' \in [Commands -> {"none", "open", "broken"}], s7' \in [Commands -> {"none", "running", "killed", "orphan"}],
           \A d \in Commands \ {c} : s6'[d] = s6[d] /\ s7'[d] = s7[d],
           s8' \in [Commands -> {None, "exit", "error"}],
           l # "end" => s5[c].pc \notin {"idle", "resolve", "end"},
           l \notin {"start", "end"} => s5[c].attempt > 0,
           l \in {"hold", "run", "wait", "keep"} => s3[client!Mine(c)] = "done",
           l = "start" => s3[client!Mine(c)] = "draining",
           l \in {"run", "wait"} => s5[c].pc \in {"run", "wait"} /\ s6' = s6,
           l = "end" \/ l \notin {"run", "wait"} => s6'[c] # "open",
           s7'[c] = "running" => l = "wait"
    PROVE  client!ClientInv'
<1> USE ClientTypes DEF client!ClientInv
<1>1. /\ s5' \in [Commands -> client!Jobs] /\ \A d \in Commands \ {c} : s5'[d] = s5[d]
      /\ s5'[c].pc = l /\ s5'[c].attempt = s5[c].attempt /\ client!Mine(c)' = client!Mine(c)
      /\ s5'[c].expected = s5[c].expected /\ s5'[c].snapshot = s5[c].snapshot
  BY JobMoves
<1>2. /\ s6' \in [Commands -> {"none", "open", "broken"}] /\ s7' \in [Commands -> {"none", "running", "killed", "orphan"}]
      /\ \A d \in Commands \ {c} : s6'[d] = s6[d] /\ s7'[d] = s7[d]
  OBVIOUS
<1>3. client!TypeOK' BY <1>1, <1>2 DEF client!TypeOK, client!Leases, client!Jobs, client!Attempts
<1>4. client!AttemptsAreSound(c)'
  <2>1. client!AttemptsAreSound(c) OBVIOUS
  <2>2. l = "start" => \A n \in client!Attempts : s3[<<c, n>>] \in {"none", "draining"}
    <3>1. \A n \in client!Attempts : n < s5[c].attempt \/ n = s5[c].attempt \/ n > s5[c].attempt
      BY DEF client!Attempts
    <3>2. QED BY <2>1, <3>1 DEF client!AttemptsAreSound, client!Mine
  <2>3. QED BY <1>1, <2>1, <2>2 DEF client!AttemptsAreSound
<1>5. client!HoldIsSound(c)'
  <2>1. client!HoldIsSound(c) OBVIOUS
  <2>2. QED BY <1>1, <2>1 DEF client!HoldIsSound, client!Serves, client!Live
<1>6. \A n \in client!Attempts : client!LeaseIsSound(<<c, n>>)'
  BY <1>1 DEF client!LeaseIsSound, client!Live
<1>7. QED BY <1>1, <1>2, <1>3, <1>4, <1>5, <1>6, CommandMoves

\* From the command line to a lease.
LEMMA CommandStarts ==
    ASSUME ClientsAssumption, client!ClientInv, NEW c \in Commands,
           \/ client!Begin(c) \/ client!ResolveRoute(c) \/ client!StartLease(c) \/ client!RefuseStart(c)
           \/ client!SeeEvent(c)
    PROVE  client!ClientInv'
<1> USE ClientTypes DEF client!ClientInv
<1>0. /\ client!AttemptsAreSound(c) /\ client!HoldIsSound(c) /\ s5[c] \in client!Jobs
      /\ \A n \in client!Attempts : client!LeaseIsSound(<<c, n>>)
      /\ UNCHANGED <<s1, s2, s4, s6, s7, s9>>
      /\ s5[c].pc \in {"idle", "resolve", "start", "follow"}
      /\ s5 \in [Commands -> client!Jobs] /\ s8' \in [Commands -> {None, "exit", "error"}]
  BY DEF client!Begin, client!ResolveRoute, client!StartLease, client!RefuseStart, client!SeeEvent,
         client!world, client!run, client!At, client!Ends, client!TypeOK
<1>1. /\ s6'[c] # "open" /\ s7'[c] # "running"
      /\ s6' \in [Commands -> {"none", "open", "broken"}] /\ s7' \in [Commands -> {"none", "running", "killed", "orphan"}]
  BY <1>0 DEF client!HoldIsSound, client!TypeOK
<1>2. ASSUME NEW r \in client!Jobs, s5' = [s5 EXCEPT ![c] = r],
             s3' \in [Commands \X client!Attempts ->
                         {"none", "acquiring", "connecting", "adding", "done", "failed", "draining", "lost"}],
             \A k \in Commands \X client!Attempts : k[1] # c => s3'[k] = s3[k],
             \A n \in client!Attempts :
                s3'[<<c, n>>] \in {"adding", "done"} => s3[<<c, n>>] = s3'[<<c, n>>] /\ r.snapshot = s5[c].snapshot,
             \A n \in client!Attempts : s3[<<c, n>>] # "done" \/ s3'[<<c, n>>] = "done",
             r.pc \notin {"run", "wait"}, client!AttemptsAreSound(c)'
      PROVE  client!ClientInv'
  <2>1. s5'[c] = r /\ s5' \in [Commands -> client!Jobs] /\ \A d \in Commands \ {c} : s5'[d] = s5[d]
    BY <1>0, <1>2
  <2>2. client!TypeOK' BY <1>0, <1>2, <2>1 DEF client!TypeOK, client!Leases, client!Jobs, client!Attempts
  <2>3. client!HoldIsSound(c)' BY <1>0, <1>1, <1>2, <2>1 DEF client!HoldIsSound
  <2>4. \A n \in client!Attempts : client!LeaseIsSound(<<c, n>>)'
    BY <1>0, <1>2, <2>1 DEF client!LeaseIsSound, client!Live
  <2>5. QED BY <1>0, <1>2, <2>1, <2>2, <2>3, <2>4, CommandMoves
<1>3. CASE client!Begin(c)
  <2>1. PICK kind \in {"exec", "lease"}, expected \in Routes \cup {None} :
           s5' = [s5 EXCEPT ![c] =
                    [client!Idle EXCEPT
                       !.pc = IF kind = "lease" /\ expected # None THEN "start" ELSE "resolve",
                       !.kind = kind, !.expected = expected,
                       !.snapshot = IF kind = "lease" /\ expected # None THEN expected ELSE None]]
    BY <1>3 DEF client!Begin
  <2>1a. PICK r : r = [client!Idle EXCEPT
                        !.pc = IF kind = "lease" /\ expected # None THEN "start" ELSE "resolve",
                        !.kind = kind, !.expected = expected,
                        !.snapshot = IF kind = "lease" /\ expected # None THEN expected ELSE None]
    OBVIOUS
  <2>1b. s5' = [s5 EXCEPT ![c] = r] BY <2>1, <2>1a
  <2>2. /\ r \in client!Jobs /\ r.attempt = 0 /\ r.pc \in {"start", "resolve"}
        /\ r.pc = "start" => r.expected = r.snapshot
    <3>1. 0 \in 0..MaxAttempts BY DEF ClientsAssumption
    <3>2. QED BY <2>1a, <3>1 DEF client!Idle, client!Jobs
  <2>3. s5'[c] = r /\ s3' = s3 /\ s5[c].pc = "idle" /\ s5[c].attempt = 0
    BY <1>0, <1>3, <2>1b DEF client!Begin, client!AttemptsAreSound, client!At
  <2>4. \A n \in client!Attempts : s3[<<c, n>>] = "none"
    BY <1>0, <2>3 DEF client!AttemptsAreSound, client!Attempts
  <2>5. client!AttemptsAreSound(c)' BY <2>2, <2>3, <2>4 DEF client!AttemptsAreSound
  <2>6. QED BY <1>2, <2>1b, <2>2, <2>3, <2>4, <2>5 DEF client!TypeOK
<1>4. CASE client!ResolveRoute(c)
  <2>1. s5[c].pc = "resolve" /\ s3' = s3 /\ s5[c].attempt = 0
    BY <1>0, <1>4 DEF client!ResolveRoute, client!RouteIsExpected, client!At, client!AttemptsAreSound
  <2>2. CASE client!Ends(c, "error")
    <3>1. s5' = [s5 EXCEPT ![c].pc = "end"] BY <2>2 DEF client!Ends
    <3>2. "end" \in Pcs \ {"idle", "resolve"} BY DEF Pcs
    <3>3. UNCHANGED <<s1, s2, s3, s4, s9>> BY <1>0, <2>1
    <3>4. \A d \in Commands \ {c} : s6'[d] = s6[d] /\ s7'[d] = s7[d] BY <1>0
    <3>5. QED BY <1>0, <1>1, <3>1, <3>2, <3>3, <3>4, PcMoves
  <2>3. CASE s5[c].expected \in {None, s1} /\ s5' = [s5 EXCEPT ![c].pc = "start", ![c].snapshot = s1]
    <3>1. PICK r : r = [s5[c] EXCEPT !.pc = "start", !.snapshot = s1] OBVIOUS
    <3>2. s5' = [s5 EXCEPT ![c] = r] BY <1>0, <2>3, <3>1
    <3>3. r \in client!Jobs /\ r.pc = "start" /\ r.snapshot = s1 /\ r.expected = s5[c].expected /\ r.attempt = 0
      BY <1>0, <2>1, <3>1 DEF client!Jobs, client!TypeOK
    <3>4. \A n \in client!Attempts : s3[<<c, n>>] = "none"
      BY <1>0, <2>1 DEF client!AttemptsAreSound, client!Attempts
    <3>5. s5'[c] = r BY <1>0, <3>2
    <3>6. client!AttemptsAreSound(c)' BY <2>1, <2>3, <3>3, <3>4, <3>5 DEF client!AttemptsAreSound
    <3>7. QED BY <1>2, <2>1, <3>2, <3>3, <3>4, <3>6 DEF client!TypeOK
  <2>4. QED BY <1>4, <2>2, <2>3 DEF client!ResolveRoute, client!RouteIsExpected
<1>5. CASE client!StartLease(c)
  <2>1. /\ s5[c].pc = "start" /\ s5[c].attempt + 1 \in client!Attempts
        /\ s3' \in {s3, [s3 EXCEPT ![<<c, s5[c].attempt + 1>>] = "acquiring"]}
    BY <1>5 DEF client!StartLease, client!At
  <2>2. PICK r : r = [s5[c] EXCEPT !.pc = "follow", !.attempt = s5[c].attempt + 1, !.seen = FALSE] OBVIOUS
  <2>3. s5' = [s5 EXCEPT ![c] = r] BY <1>0, <1>5, <2>2 DEF client!StartLease
  <2>4. /\ r \in client!Jobs /\ r.pc = "follow" /\ r.snapshot = s5[c].snapshot /\ r.expected = s5[c].expected
        /\ r.attempt = s5[c].attempt + 1
    <3>1. s5[c].attempt + 1 \in 0..MaxAttempts BY <2>1 DEF client!Attempts, ClientsAssumption
    <3>2. QED BY <1>0, <2>2, <3>1 DEF client!Jobs
  <2>5. /\ s3 \in [Commands \X client!Attempts ->
                       {"none", "acquiring", "connecting", "adding", "done", "failed", "draining", "lost"}]
        /\ <<c, s5[c].attempt + 1>> \in Commands \X client!Attempts
        /\ s3[<<c, s5[c].attempt + 1>>] = "none"
    BY <1>0, <2>1 DEF client!TypeOK, client!AttemptsAreSound
  <2>6. /\ s3' \in [Commands \X client!Attempts ->
                        {"none", "acquiring", "connecting", "adding", "done", "failed", "draining", "lost"}]
        /\ \A k \in Commands \X client!Attempts : k # <<c, s5[c].attempt + 1>> => s3'[k] = s3[k]
        /\ s3'[<<c, s5[c].attempt + 1>>] \in {"none", "acquiring"}
    BY <2>1, <2>5
  <2>7. s5'[c] = r BY <1>0, <2>3
  <2>8. client!AttemptsAreSound(c)'
    <3>1. \A n \in client!Attempts : n # s5[c].attempt + 1 => s3'[<<c, n>>] = s3[<<c, n>>]
      BY <2>6
    <3>2. \A n \in client!Attempts : s3[<<c, n>>] \in {"none", "draining"}
      BY <1>0, <2>1 DEF client!AttemptsAreSound
    <3>3. \A n \in client!Attempts : n > s5[c].attempt => s3[<<c, n>>] = "none"
      BY <1>0 DEF client!AttemptsAreSound
    <3>4. \A n \in client!Attempts : n > s5[c].attempt + 1 => n > s5[c].attempt /\ n # s5[c].attempt + 1
      BY DEF client!Attempts
    <3>5. \A n \in client!Attempts : n < s5[c].attempt + 1 => n # s5[c].attempt + 1
      BY DEF client!Attempts
    <3>6. s5[c].attempt + 1 > 0 /\ s5[c].expected \in {None, s5[c].snapshot}
      BY <1>0, <2>1 DEF client!AttemptsAreSound
    <3>7. QED BY <2>4, <2>7, <3>1, <3>2, <3>3, <3>4, <3>5, <3>6 DEF client!AttemptsAreSound
  <2>9. /\ \A k \in Commands \X client!Attempts : k[1] # c => s3'[k] = s3[k]
        /\ \A n \in client!Attempts :
              /\ s3'[<<c, n>>] \in {"adding", "done"} => s3[<<c, n>>] = s3'[<<c, n>>]
              /\ s3[<<c, n>>] # "done" \/ s3'[<<c, n>>] = "done"
    BY <2>5, <2>6
  <2>10. QED BY <1>2, <2>3, <2>4, <2>6, <2>8, <2>9
<1>6. CASE client!RefuseStart(c)
  <2>1. s5' = [s5 EXCEPT ![c].pc = "end"] /\ s3' = s3
    BY <1>6 DEF client!RefuseStart, client!Ends
  <2>2. "end" \in Pcs \ {"idle", "resolve"} BY DEF Pcs
  <2>3. UNCHANGED <<s1, s2, s3, s4, s9>> BY <1>0, <2>1
  <2>4. \A d \in Commands \ {c} : s6'[d] = s6[d] /\ s7'[d] = s7[d] BY <1>0
  <2>5. QED BY <1>0, <1>1, <2>1, <2>2, <2>3, <2>4, PcMoves
<1>7. CASE client!SeeEvent(c)
  <2>1. PICK r : r = [s5[c] EXCEPT !.seen = TRUE] OBVIOUS
  <2>2. s5' = [s5 EXCEPT ![c] = r] /\ s3' = s3 BY <1>0, <1>7, <2>1 DEF client!SeeEvent
  <2>3. /\ r \in client!Jobs /\ r.pc = s5[c].pc /\ r.snapshot = s5[c].snapshot /\ r.expected = s5[c].expected
        /\ r.attempt = s5[c].attempt
    BY <1>0, <2>1 DEF client!Jobs
  <2>4. s5'[c] = r BY <1>0, <2>2
  <2>5. client!AttemptsAreSound(c)'
    BY <1>0, <2>2, <2>3, <2>4 DEF client!AttemptsAreSound, client!Mine
  <2>6. QED BY <1>0, <1>2, <2>2, <2>3, <2>5 DEF client!TypeOK
<1>8. QED BY <1>3, <1>4, <1>5, <1>6, <1>7

\* Following the operation, to its end or to the end of the command's patience.
LEMMA CommandFollows ==
    ASSUME ClientsAssumption, client!ClientInv, NEW c \in Commands, client!Follow(c) \/ client!EventFails(c)
    PROVE  client!ClientInv'
<1> USE ClientTypes DEF client!ClientInv
<1>0. /\ client!AttemptsAreSound(c) /\ client!HoldIsSound(c) /\ s5[c] \in client!Jobs
      /\ \A n \in client!Attempts : client!LeaseIsSound(<<c, n>>)
      /\ UNCHANGED <<s1, s2, s4, s6, s7, s9>> /\ s5[c].pc = "follow"
      /\ s8' \in [Commands -> {None, "exit", "error"}]
  BY DEF client!Follow, client!EventFails, client!world, client!run, client!At, client!Goes, client!Ends, client!TypeOK
<1>1. /\ s6'[c] # "open" /\ s7'[c] # "running"
      /\ s6' \in [Commands -> {"none", "open", "broken"}] /\ s7' \in [Commands -> {"none", "running", "killed", "orphan"}] /\ s5[c].attempt > 0
  BY <1>0 DEF client!HoldIsSound, client!TypeOK, client!AttemptsAreSound
<1>2. CASE client!Follow(c)
  <2>1. PICK l \in {"hold", "keep", "start", "end"} :
           /\ s5' = [s5 EXCEPT ![c].pc = l]
           /\ l \in {"hold", "keep"} => s3[client!Mine(c)] = "done"
           /\ l = "start" => s3[client!Mine(c)] = "draining"
    BY <1>2 DEF client!Follow, client!Goes, client!Ends, client!Retries
  <2>2. s3' = s3 BY <1>2 DEF client!Follow
  <2>3. QED BY <1>0, <1>1, <2>1, <2>2, PcMoves DEF Pcs
<1>3. CASE client!EventFails(c)
  <2>1. PICK l \in {"release", "end"} : s5' = [s5 EXCEPT ![c].pc = l]
    BY <1>3 DEF client!EventFails, client!Goes, client!Ends
  <2>2. CASE s3' = s3 BY <1>0, <1>1, <2>1, <2>2, PcMoves DEF Pcs
  <2>3. CASE s3[client!Mine(c)] \in {"acquiring", "connecting"} /\ s3' = [s3 EXCEPT ![client!Mine(c)] = "failed"]
    <3>1. /\ s5' \in [Commands -> client!Jobs] /\ \A d \in Commands \ {c} : s5'[d] = s5[d]
          /\ s5'[c].pc = l /\ s5'[c].attempt = s5[c].attempt /\ client!Mine(c)' = client!Mine(c)
          /\ s5'[c].expected = s5[c].expected /\ s5'[c].snapshot = s5[c].snapshot
      BY <2>1, JobMoves DEF Pcs
    <3>2. /\ s3 \in [Commands \X client!Attempts ->
                       {"none", "acquiring", "connecting", "adding", "done", "failed", "draining", "lost"}]
          /\ client!Mine(c) \in Commands \X client!Attempts
      BY <1>1 DEF client!TypeOK
    <3>3. /\ s3' \in [Commands \X client!Attempts ->
                       {"none", "acquiring", "connecting", "adding", "done", "failed", "draining", "lost"}]
          /\ \A k \in Commands \X client!Attempts : k # client!Mine(c) => s3'[k] = s3[k]
          /\ s3'[client!Mine(c)] = "failed"
      BY <2>3, <3>2
    <3>4. client!TypeOK' BY <1>0, <3>1, <3>3 DEF client!TypeOK, client!Leases, client!Jobs, client!Attempts
    <3>5. client!AttemptsAreSound(c)'
      <4>1. \A n \in client!Attempts : n # s5[c].attempt => s3'[<<c, n>>] = s3[<<c, n>>]
        BY <3>3 DEF client!Mine
      <4>2. \A n \in client!Attempts :
               /\ n > s5[c].attempt => n # s5[c].attempt /\ s3[<<c, n>>] = "none"
               /\ n < s5[c].attempt => n # s5[c].attempt /\ s3[<<c, n>>] \in {"none", "draining"}
        BY <1>0 DEF client!AttemptsAreSound, client!Attempts
      <4>3. QED BY <1>0, <1>1, <3>1, <4>1, <4>2 DEF client!AttemptsAreSound
    <3>6. client!HoldIsSound(c)' BY <1>0, <1>1, <3>1 DEF client!HoldIsSound
    <3>7. \A n \in client!Attempts : client!LeaseIsSound(<<c, n>>)'
      <4>1. ASSUME NEW n \in client!Attempts PROVE client!LeaseIsSound(<<c, n>>)'
        <5>1. client!LeaseIsSound(<<c, n>>) /\ s4' = s4 /\ s5'[c].snapshot = s5[c].snapshot
          BY <1>0, <3>1
        <5>2. s3'[<<c, n>>] = s3[<<c, n>>] \/ (s3[<<c, n>>] \in {"acquiring", "connecting"} /\ s3'[<<c, n>>] = "failed")
          BY <2>3, <3>3
        <5>3. QED BY <5>1, <5>2 DEF client!LeaseIsSound, client!Live
      <4>2. QED BY <4>1
    <3>8. \A k \in Commands \X client!Attempts : k[1] # c => s3'[k] = s3[k] BY <3>3 DEF client!Mine
    <3>9. QED BY <1>0, <3>1, <3>4, <3>5, <3>6, <3>7, <3>8, CommandMoves
  <2>4. s3' = s3 \/ s3' = [s3 EXCEPT ![client!Mine(c)] =
                              IF s3[client!Mine(c)] \in {"acquiring", "connecting"} THEN "failed" ELSE s3[client!Mine(c)]]
    BY <1>3 DEF client!EventFails
  <2>5. s3 \in [Commands \X client!Attempts ->
                   {"none", "acquiring", "connecting", "adding", "done", "failed", "draining", "lost"}]
    BY DEF client!TypeOK
  <2>6. s3[client!Mine(c)] \notin {"acquiring", "connecting"} => s3' = s3 BY <2>4, <2>5
  <2>7. QED BY <2>2, <2>3, <2>4, <2>6
<1>4. QED BY <1>2, <1>3

\* The operation in the daemon.
LEMMA OperationStep ==
    ASSUME ClientsAssumption, client!ClientInv, NEW k \in Commands \X client!Attempts,
           \/ client!Acquire(k)
           \/ client!Connect(k)
           \/ client!ConnectFails(k)
           \/ client!AddLease(k)
           \/ client!Expire(k)
    PROVE  client!ClientInv'
<1> USE ClientTypes DEF client!ClientInv
<1> DEFINE c == k[1]
<1>0. c \in Commands /\ k[2] \in client!Attempts /\ k = <<c, k[2]>> OBVIOUS
<1>1. CASE client!Acquire(k)
  <2>1. client!TypeOK'
    BY <1>0, <1>1
    DEF client!Acquire, client!world, client!run, client!At, client!Goes, client!Ends, client!Mine, client!TypeOK, client!Jobs, client!Leases, client!AttemptsAreSound, client!LeaseIsSound
  <2>2. /\ s2' = s2 /\ \A d \in Commands \ {c} : s5'[d] = s5[d] /\ s6'[d] = s6[d] /\ s7'[d] = s7[d]
        /\ \A j \in Commands \X client!Attempts : j[1] # c => s3'[j] = s3[j] /\ s4'[j] = s4[j]
    BY <1>0, <1>1 DEF client!Acquire, client!world, client!run, client!At, client!Goes, client!Ends, client!Mine, client!TypeOK
  <2>3. client!AttemptsAreSound(c)'
    BY <1>0, <1>1 DEF client!Acquire, client!world, client!run, client!At, client!Goes, client!Ends, client!Mine, client!TypeOK, client!AttemptsAreSound, client!Jobs, client!Idle
  <2>4. client!HoldIsSound(c)'
    BY <1>0, <1>1 DEF client!Acquire, client!world, client!run, client!At, client!Goes, client!Ends, client!Mine, client!TypeOK, client!HoldIsSound, client!AttemptsAreSound, client!Serves, client!Live, client!Leases, ClientsAssumption
  <2>5. \A n \in client!Attempts : client!LeaseIsSound(<<c, n>>)'
    BY <1>0, <1>1 DEF client!Acquire, client!world, client!run, client!At, client!Goes, client!Ends, client!Mine, client!TypeOK, client!LeaseIsSound, client!Live, client!Leases, client!AttemptsAreSound, ClientsAssumption
  <2>6. QED BY <1>0, <2>1, <2>2, <2>3, <2>4, <2>5, CommandMoves
<1>2. CASE client!Connect(k)
  <2>1. client!TypeOK'
    BY <1>0, <1>2
    DEF client!Connect, client!world, client!run, client!At, client!Goes, client!Ends, client!Mine, client!TypeOK, client!Jobs, client!Leases, client!AttemptsAreSound, client!LeaseIsSound
  <2>2. /\ s2' = s2 /\ \A d \in Commands \ {c} : s5'[d] = s5[d] /\ s6'[d] = s6[d] /\ s7'[d] = s7[d]
        /\ \A j \in Commands \X client!Attempts : j[1] # c => s3'[j] = s3[j] /\ s4'[j] = s4[j]
    BY <1>0, <1>2 DEF client!Connect, client!world, client!run, client!At, client!Goes, client!Ends, client!Mine, client!TypeOK
  <2>3. client!AttemptsAreSound(c)'
    BY <1>0, <1>2 DEF client!Connect, client!world, client!run, client!At, client!Goes, client!Ends, client!Mine, client!TypeOK, client!AttemptsAreSound, client!Jobs, client!Idle
  <2>4. client!HoldIsSound(c)'
    BY <1>0, <1>2 DEF client!Connect, client!world, client!run, client!At, client!Goes, client!Ends, client!Mine, client!TypeOK, client!HoldIsSound, client!AttemptsAreSound, client!Serves, client!Live, client!Leases, ClientsAssumption
  <2>7. PICK r : r = [live |-> FALSE, held |-> FALSE, timer |-> FALSE, route |-> s1] OBVIOUS
  <2>8. r \in client!Leases /\ ~r.live /\ r.route = s1
    BY <2>7 DEF client!Leases, client!TypeOK
  <2>9. s4'[k] = r /\ r # None /\ \A j \in Commands \X client!Attempts : j # k => s4'[j] = s4[j]
    BY <1>2, <2>7, <2>8, LeaseMoves DEF client!Connect
  <2>10. /\ s3'[k] \in {"adding", "failed"} /\ (s3'[k] = "adding" => s5[c].snapshot = s1) /\ s5' = s5
         /\ \A j \in Commands \X client!Attempts : j # k => s3'[j] = s3[j]
    BY <1>2 DEF client!Connect, client!TypeOK
  <2>5. \A n \in client!Attempts : client!LeaseIsSound(<<c, n>>)'
    <3>1. ASSUME NEW n \in client!Attempts PROVE client!LeaseIsSound(<<c, n>>)'
      <4>1. CASE <<c, n>> = k BY <4>1, <2>8, <2>9, <2>10 DEF client!LeaseIsSound, client!Live
      <4>2. CASE <<c, n>> # k
        <5>1. client!LeaseIsSound(<<c, n>>) BY <1>0, <3>1
        <5>2. s3'[<<c, n>>] = s3[<<c, n>>] /\ s4'[<<c, n>>] = s4[<<c, n>>] BY <1>0, <2>9, <2>10, <3>1, <4>2
        <5>3. QED BY <5>1, <5>2, <2>10 DEF client!LeaseIsSound, client!Live
      <4>3. QED BY <4>1, <4>2
    <3>2. QED BY <3>1
  <2>6. QED BY <1>0, <2>1, <2>2, <2>3, <2>4, <2>5, CommandMoves
<1>3. CASE client!ConnectFails(k)
  <2>1. client!TypeOK'
    BY <1>0, <1>3
    DEF client!ConnectFails, client!world, client!run, client!At, client!Goes, client!Ends, client!Mine, client!TypeOK, client!Jobs, client!Leases, client!AttemptsAreSound, client!LeaseIsSound
  <2>2. /\ s2' = s2 /\ \A d \in Commands \ {c} : s5'[d] = s5[d] /\ s6'[d] = s6[d] /\ s7'[d] = s7[d]
        /\ \A j \in Commands \X client!Attempts : j[1] # c => s3'[j] = s3[j] /\ s4'[j] = s4[j]
    BY <1>0, <1>3 DEF client!ConnectFails, client!world, client!run, client!At, client!Goes, client!Ends, client!Mine, client!TypeOK
  <2>3. client!AttemptsAreSound(c)'
    BY <1>0, <1>3 DEF client!ConnectFails, client!world, client!run, client!At, client!Goes, client!Ends, client!Mine, client!TypeOK, client!AttemptsAreSound, client!Jobs, client!Idle
  <2>4. client!HoldIsSound(c)'
    BY <1>0, <1>3 DEF client!ConnectFails, client!world, client!run, client!At, client!Goes, client!Ends, client!Mine, client!TypeOK, client!HoldIsSound, client!AttemptsAreSound, client!Serves, client!Live, client!Leases, ClientsAssumption
  <2>5. \A n \in client!Attempts : client!LeaseIsSound(<<c, n>>)'
    BY <1>0, <1>3 DEF client!ConnectFails, client!world, client!run, client!At, client!Goes, client!Ends, client!Mine, client!TypeOK, client!LeaseIsSound, client!Live, client!Leases, client!AttemptsAreSound, ClientsAssumption
  <2>6. QED BY <1>0, <2>1, <2>2, <2>3, <2>4, <2>5, CommandMoves
<1>4. CASE client!AddLease(k)
  <2>1. /\ s3[k] = "adding" /\ UNCHANGED <<s1, s2, s5, s6, s7, s8, s9>> /\ s3'[k] \in {"done", "draining"}
        /\ \A j \in Commands \X client!Attempts : j # k => s3'[j] = s3[j]
        /\ s3' \in [Commands \X client!Attempts ->
                       {"none", "acquiring", "connecting", "adding", "done", "failed", "draining", "lost"}]
        /\ client!LeaseIsSound(k) /\ client!HoldIsSound(c)
    BY <1>0, <1>4 DEF client!AddLease, client!world, client!run, client!TypeOK
  <2>2. s4[k] # None /\ s4[k].route = s5[c].snapshot /\ s4[k] \in client!Leases
    BY <2>1 DEF client!LeaseIsSound, client!TypeOK
  <2>3. PICK r : r = [s4[k] EXCEPT !.live = TRUE, !.timer = TRUE] OBVIOUS
  <2>4. r \in client!Leases /\ r.route = s5[c].snapshot /\ r.timer /\ r.held = s4[k].held
    BY <2>2, <2>3 DEF client!Leases
  <2>5. s4' = s4 \/ s4' = [s4 EXCEPT ![k] = r]
    BY <1>4, <2>3 DEF client!AddLease, client!TypeOK
  <2>6. /\ s4' \in [Commands \X client!Attempts -> client!Leases \cup {None}]
        /\ \A j \in Commands \X client!Attempts : j # k => s4'[j] = s4[j]
    BY <2>4, <2>5, LeaseMoves DEF client!TypeOK
  <2>7. s3'[k] = "done" => s4' = [s4 EXCEPT ![k] = r]
    BY <1>4, <2>1, <2>3 DEF client!AddLease, client!TypeOK
  <2>8. /\ s3'[k] = "done" => s4'[k] = r /\ r # None
        /\ s3'[k] = "draining" => s4' = s4
    BY <1>4, <2>1, <2>4, <2>7, LeaseMoves DEF client!AddLease, client!TypeOK
  <2>9. client!LeaseIsSound(k)' BY <2>1, <2>2, <2>4, <2>8 DEF client!LeaseIsSound, client!Live
  <2>10. client!TypeOK' BY <2>1, <2>6 DEF client!TypeOK, client!Leases, client!Jobs, client!Attempts
  <2>11. client!AttemptsAreSound(c)'
    BY <1>0, <1>4 DEF client!AddLease, client!world, client!run, client!At, client!Goes, client!Ends, client!Mine, client!TypeOK, client!AttemptsAreSound, client!Jobs, client!Idle
  <2>12. client!HoldIsSound(c)'
    BY <1>0, <1>4 DEF client!AddLease, client!world, client!run, client!At, client!Goes, client!Ends, client!Mine, client!TypeOK, client!HoldIsSound, client!AttemptsAreSound, client!Serves, client!Live, client!Leases, ClientsAssumption
  <2>13. ASSUME NEW n \in client!Attempts PROVE client!LeaseIsSound(<<c, n>>)'
    <3>1. CASE <<c, n>> = k BY <3>1, <2>9
    <3>2. CASE <<c, n>> # k
      <4>1. client!LeaseIsSound(<<c, n>>) BY <1>0, <2>13
      <4>2. s3'[<<c, n>>] = s3[<<c, n>>] /\ s4'[<<c, n>>] = s4[<<c, n>>] BY <1>0, <2>1, <2>6, <2>13, <3>2
      <4>3. QED BY <4>1, <4>2, <2>1 DEF client!LeaseIsSound, client!Live
    <3>3. QED BY <3>1, <3>2
  <2>14. QED BY <1>0, <2>1, <2>6, <2>10, <2>11, <2>12, <2>13, CommandMoves
<1>5. CASE client!Expire(k)
  <2>1. client!TypeOK'
    BY <1>0, <1>5
    DEF client!Expire, client!world, client!run, client!At, client!Goes, client!Ends, client!Mine, client!Live, client!Gone, client!TypeOK, client!Jobs, client!Leases, client!AttemptsAreSound, client!LeaseIsSound
  <2>2. /\ s2' = s2 /\ \A d \in Commands \ {c} : s5'[d] = s5[d] /\ s6'[d] = s6[d] /\ s7'[d] = s7[d]
        /\ \A j \in Commands \X client!Attempts : j[1] # c => s3'[j] = s3[j] /\ s4'[j] = s4[j]
    BY <1>0, <1>5 DEF client!Expire, client!world, client!run, client!At, client!Goes, client!Ends, client!Mine, client!Live, client!Gone, client!TypeOK
  <2>3. client!AttemptsAreSound(c)'
    BY <1>0, <1>5 DEF client!Expire, client!world, client!run, client!At, client!Goes, client!Ends, client!Mine, client!Live, client!Gone, client!TypeOK, client!AttemptsAreSound, client!Jobs, client!Idle
  <2>4. client!HoldIsSound(c)'
    BY <1>0, <1>5 DEF client!Expire, client!world, client!run, client!At, client!Goes, client!Ends, client!Mine, client!Live, client!Gone, client!TypeOK, client!HoldIsSound, client!AttemptsAreSound, client!Serves, client!Live, client!Leases, ClientsAssumption
  <2>5. \A n \in client!Attempts : client!LeaseIsSound(<<c, n>>)'
    BY <1>0, <1>5 DEF client!Expire, client!world, client!run, client!At, client!Goes, client!Ends, client!Mine, client!Live, client!Gone, client!TypeOK, client!LeaseIsSound, client!Live, client!Leases, client!AttemptsAreSound, ClientsAssumption
  <2>6. QED BY <1>0, <2>1, <2>2, <2>3, <2>4, <2>5, CommandMoves
<1>6. QED BY <1>1, <1>2, <1>3, <1>4, <1>5

\* Nothing happens.
LEMMA ClientRests == ASSUME client!ClientInv, UNCHANGED <<s1, s2, s3, s4, s5, s6, s7, s8, s9>> PROVE client!ClientInv'
BY DEF client!ClientInv, client!TypeOK, client!Leases, client!Jobs, client!Attempts, client!AttemptsAreSound,
       client!HoldIsSound, client!LeaseIsSound, client!Live, client!Mine, client!Serves

\* A command takes, gives back or loses its hold of a lease; no operation is touched.
LEMMA HoldMoves ==
    ASSUME ClientsAssumption, client!ClientInv, NEW c \in Commands,
           NEW k \in Commands \X client!Attempts, k[1] = c, s4[k] # None,
           NEW r \in client!Leases, s4' = [s4 EXCEPT ![k] = r], r.route = s4[k].route,
           r.live => s4[k].live /\ (r.timer \/ r.held),
           UNCHANGED <<s1, s2, s3, s9>>, s5' \in [Commands -> client!Jobs], s5'[c].snapshot = s5[c].snapshot,
           s6' \in [Commands -> {"none", "open", "broken"}], s7' \in [Commands -> {"none", "running", "killed", "orphan"}],
           s8' \in [Commands -> {None, "exit", "error"}],
           \A d \in Commands \ {c} : s5'[d] = s5[d] /\ s6'[d] = s6[d] /\ s7'[d] = s7[d],
           client!AttemptsAreSound(c)', client!HoldIsSound(c)'
    PROVE  client!ClientInv'
<1> USE DEF client!ClientInv
<1>1. /\ s4' \in [Commands \X client!Attempts -> client!Leases \cup {None}]
      /\ s4'[k] = r /\ r # None /\ \A j \in Commands \X client!Attempts : j # k => s4'[j] = s4[j]
  BY LeaseMoves
<1>2. client!TypeOK' BY <1>1 DEF client!TypeOK, client!Leases, client!Jobs, client!Attempts
<1>3. ASSUME NEW n \in client!Attempts PROVE client!LeaseIsSound(<<c, n>>)'
  <2>1. <<c, n>> \in Commands \X client!Attempts BY <1>3
  <2>2. client!LeaseIsSound(<<c, n>>) BY <2>1
  <2>3. CASE <<c, n>> = k BY <1>1, <2>2, <2>3 DEF client!LeaseIsSound, client!Live
  <2>4. CASE <<c, n>> # k
    <3>1. s4'[<<c, n>>] = s4[<<c, n>>] BY <1>1, <2>1, <2>4
    <3>2. QED BY <2>2, <3>1 DEF client!LeaseIsSound, client!Live
  <2>5. QED BY <2>3, <2>4
<1>4. \A j \in Commands \X client!Attempts : j[1] # c => s3'[j] = s3[j] /\ s4'[j] = s4[j] BY <1>1
<1>5. QED BY <1>2, <1>3, <1>4, CommandMoves

\* The holder of a lease, its process and its release.
LEMMA CommandGoesOn ==
    ASSUME ClientsAssumption, client!ClientInv, NEW c \in Commands,
           \/ client!Hold(c) \/ client!Run(c) \/ client!Cancel(c) \/ client!Exit(c) \/ client!EndHold(c)
           \/ client!Release(c) \/ client!Touch(c) \/ client!Leave(c) \/ client!Die(c)
    PROVE  client!ClientInv'
<1>a. UNCHANGED <<s1, s2, s3, s4, s5, s6, s7, s8, s9>> => client!ClientInv' BY ClientRests
<1> USE ClientTypes DEF client!ClientInv
<1>0. /\ client!AttemptsAreSound(c) /\ client!HoldIsSound(c) /\ s5[c] \in client!Jobs
      /\ \A n \in client!Attempts : client!LeaseIsSound(<<c, n>>)
      /\ UNCHANGED <<s1, s2, s3, s9>>
      /\ s5 \in [Commands -> client!Jobs] /\ s6 \in [Commands -> {"none", "open", "broken"}]
      /\ s7 \in [Commands -> {"none", "running", "killed", "orphan"}]
      /\ s8 \in [Commands -> {None, "exit", "error"}]
  BY DEF client!Hold, client!Run, client!Cancel, client!Exit, client!EndHold, client!Release, client!Touch,
         client!Leave, client!Die, client!world, client!TypeOK
<1>1. s8' \in [Commands -> {None, "exit", "error"}]
  BY <1>0 DEF client!Hold, client!Run, client!Cancel, client!Exit, client!EndHold, client!Release, client!Touch,
         client!Leave, client!Die, client!run, client!Goes, client!Ends
<1>2. \A l \in {"release", "end", "wait"} : l \in Pcs \ {"idle", "resolve"} BY DEF Pcs
<1>3. CASE client!Hold(c)
  <2>1. /\ s5[c].pc = "hold" /\ s5[c].attempt > 0 /\ s3[client!Mine(c)] = "done" /\ s7' = s7
        /\ s6[c] # "open" /\ s7[c] # "running"
    BY <1>0, <1>3 DEF client!Hold, client!At, client!AttemptsAreSound, client!HoldIsSound
  <2>2. CASE client!Goes(c, "release") /\ s4' = s4 /\ s6' = s6
    <3>1. s5' = [s5 EXCEPT ![c].pc = "release"] BY <2>2 DEF client!Goes
    <3>2. QED BY <1>0, <1>1, <1>2, <2>1, <2>2, <3>1, PcMoves
  <2>3. CASE /\ client!Serves /\ client!Live(client!Mine(c)) /\ client!Goes(c, "run")
             /\ s4' = [s4 EXCEPT ![client!Mine(c)].held = TRUE, ![client!Mine(c)].timer = FALSE]
             /\ s6' = [s6 EXCEPT ![c] = "open"]
    <3>1. PICK k \in Commands \X client!Attempts : k = client!Mine(c) BY <2>1
    <3>2. PICK r : r = [s4[k] EXCEPT !.held = TRUE, !.timer = FALSE] OBVIOUS
    <3>3. s4[k] # None /\ s4[k].live /\ s4[k] \in client!Leases BY <2>3, <3>1 DEF client!Live, client!TypeOK
    <3>4. r \in client!Leases /\ r.live /\ r.held /\ r.route = s4[k].route BY <3>2, <3>3 DEF client!Leases
    <3>5. s4' = [s4 EXCEPT ![k] = r] BY <2>3, <3>1, <3>2 DEF client!TypeOK
    <3>6. s4'[k] = r /\ r # None BY <3>4, <3>5, LeaseMoves
    <3>7. /\ s5' \in [Commands -> client!Jobs] /\ \A d \in Commands \ {c} : s5'[d] = s5[d]
          /\ s5'[c].pc = "run" /\ s5'[c].attempt = s5[c].attempt /\ client!Mine(c)' = client!Mine(c)
          /\ s5'[c].expected = s5[c].expected /\ s5'[c].snapshot = s5[c].snapshot
      BY <2>3, JobMoves DEF client!Goes, Pcs
    <3>8. client!AttemptsAreSound(c)' BY <1>0, <2>1, <3>7 DEF client!AttemptsAreSound
    <3>9. /\ s6' \in [Commands -> {"none", "open", "broken"}] /\ s6'[c] = "open"
          /\ \A d \in Commands \ {c} : s6'[d] = s6[d] /\ s7'[d] = s7[d]
      BY <1>0, <2>1, <2>3
    <3>10. client!HoldIsSound(c)'
      BY <1>0, <2>1, <2>3, <3>1, <3>4, <3>6, <3>7, <3>9 DEF client!HoldIsSound, client!Live, client!Serves
    <3>11. k[1] = c BY <3>1 DEF client!Mine
    <3>12. QED BY <1>0, <1>1, <2>1, <3>3, <3>4, <3>5, <3>7, <3>8, <3>9, <3>10, <3>11, HoldMoves
  <2>4. QED BY <1>3, <2>2, <2>3 DEF client!Hold
<1>4. CASE client!Run(c)
  <2>1. /\ s5[c].pc = "run" /\ s5[c].attempt > 0 /\ s3[client!Mine(c)] = "done" /\ s4' = s4
        /\ s6[c] # "none" /\ s7[c] # "running"
    BY <1>0, <1>4 DEF client!Run, client!At, client!AttemptsAreSound, client!HoldIsSound
  <2>2. CASE s7' = [s7 EXCEPT ![c] = "running"] /\ client!Goes(c, "wait") /\ s6' = s6
    <3>1. s5' = [s5 EXCEPT ![c].pc = "wait"] BY <2>2 DEF client!Goes
    <3>2. QED BY <1>0, <1>1, <1>2, <2>1, <2>2, <3>1, PcMoves
  <2>3. CASE client!Goes(c, "release") /\ s6' = [s6 EXCEPT ![c] = "none"] /\ s7' = s7
    <3>1. s5' = [s5 EXCEPT ![c].pc = "release"] BY <2>3 DEF client!Goes
    <3>2. QED BY <1>0, <1>1, <1>2, <2>1, <2>3, <3>1, PcMoves
  <2>4. QED BY <1>4, <2>2, <2>3 DEF client!Run
<1>5. CASE client!Cancel(c)
  <2>1. s7' = [s7 EXCEPT ![c] = "killed"] /\ UNCHANGED <<s4, s5, s6, s8>> BY <1>5 DEF client!Cancel
  <2>2. /\ s7'[c] = "killed" /\ s7' \in [Commands -> {"none", "running", "killed", "orphan"}]
        /\ \A d \in Commands \ {c} : s7'[d] = s7[d]
    BY <1>0, <2>1
  <2>3. client!TypeOK' BY <1>0, <2>1, <2>2 DEF client!TypeOK, client!Leases, client!Jobs, client!Attempts
  <2>4. client!AttemptsAreSound(c)' BY <1>0, <2>1 DEF client!AttemptsAreSound, client!Mine
  <2>5. client!HoldIsSound(c)'
    BY <1>0, <2>1, <2>2 DEF client!HoldIsSound, client!Live, client!Serves, client!Mine
  <2>6. \A n \in client!Attempts : client!LeaseIsSound(<<c, n>>)'
    BY <1>0, <2>1 DEF client!LeaseIsSound, client!Live
  <2>7. QED BY <1>0, <2>1, <2>2, <2>3, <2>4, <2>5, <2>6, CommandMoves
<1>6. CASE client!Exit(c)
  <2>1. /\ s5[c].pc = "wait" /\ s5[c].attempt > 0 /\ s4' = s4
        /\ s5' = [s5 EXCEPT ![c].pc = "release"]
        /\ s6' = [s6 EXCEPT ![c] = "none"] /\ s7' = [s7 EXCEPT ![c] = "none"]
    BY <1>0, <1>6 DEF client!Exit, client!At, client!AttemptsAreSound
  <2>2. /\ s6' \in [Commands -> {"none", "open", "broken"}] /\ s7' \in [Commands -> {"none", "running", "killed", "orphan"}]
        /\ s6'[c] = "none" /\ s7'[c] = "none" /\ \A d \in Commands \ {c} : s6'[d] = s6[d] /\ s7'[d] = s7[d]
    BY <1>0, <2>1
  <2>3. QED BY <1>0, <1>1, <1>2, <2>1, <2>2, PcMoves
<1>7. CASE client!EndHold(c)
  <2>1. /\ s5[c].attempt > 0 /\ s4[client!Mine(c)] # None /\ s6[c] # "open" /\ UNCHANGED <<s5, s6, s7, s8>>
        /\ s4' = [s4 EXCEPT ![client!Mine(c)].held = FALSE, ![client!Mine(c)].timer = s4[client!Mine(c)].live]
    BY <1>7 DEF client!EndHold, client!run
  <2>2. PICK k \in Commands \X client!Attempts : k = client!Mine(c) BY <2>1
  <2>3. PICK r : r = [s4[k] EXCEPT !.held = FALSE, !.timer = s4[k].live] OBVIOUS
  <2>4. s4[k] # None /\ s4[k] \in client!Leases BY <2>1, <2>2 DEF client!TypeOK
  <2>5. r \in client!Leases /\ r.live = s4[k].live /\ r.timer = s4[k].live /\ r.route = s4[k].route
    BY <2>3, <2>4 DEF client!Leases
  <2>6. s4' = [s4 EXCEPT ![k] = r] BY <2>1, <2>2, <2>3 DEF client!TypeOK
  <2>7. client!AttemptsAreSound(c)' BY <1>0, <2>1 DEF client!AttemptsAreSound, client!Mine
  <2>8. client!HoldIsSound(c)' BY <1>0, <2>1 DEF client!HoldIsSound
  <2>9. k[1] = c BY <2>2 DEF client!Mine
  <2>10. r.live => s4[k].live /\ (r.timer \/ r.held) BY <2>5
  <2>11. /\ s5' \in [Commands -> client!Jobs] /\ s5'[c].snapshot = s5[c].snapshot
         /\ s6' \in [Commands -> {"none", "open", "broken"}]
         /\ s7' \in [Commands -> {"none", "running", "killed", "orphan"}]
         /\ \A d \in Commands \ {c} : s5'[d] = s5[d] /\ s6'[d] = s6[d] /\ s7'[d] = s7[d]
    BY <1>0, <2>1
  <2>12. QED BY <1>0, <1>1, <2>4, <2>5, <2>6, <2>7, <2>8, <2>9, <2>10, <2>11, HoldMoves
<1>8. CASE client!Release(c)
  <2>1. /\ s5[c].pc = "release" /\ s5[c].attempt > 0 /\ UNCHANGED <<s6, s7>>
        /\ s5' = [s5 EXCEPT ![c].pc = "end"] /\ s6[c] # "open" /\ s7[c] # "running"
    BY <1>0, <1>8 DEF client!Release, client!At, client!Ends, client!run, client!AttemptsAreSound, client!HoldIsSound
  <2>2. CASE s4' = s4 BY <1>0, <1>1, <1>2, <2>1, <2>2, PcMoves
  <2>3. CASE client!Live(client!Mine(c)) /\ client!Gone(client!Mine(c))
    <3>1. PICK k \in Commands \X client!Attempts : k = client!Mine(c) BY <2>1
    <3>2. PICK r : r = [s4[k] EXCEPT !.live = FALSE, !.timer = FALSE] OBVIOUS
    <3>3. s4[k] # None /\ s4[k] \in client!Leases BY <2>3, <3>1 DEF client!Live, client!TypeOK
    <3>4. r \in client!Leases /\ ~r.live /\ r.route = s4[k].route BY <3>2, <3>3 DEF client!Leases
    <3>5. s4' = [s4 EXCEPT ![k] = r] BY <2>3, <3>1, <3>2 DEF client!Gone, client!TypeOK
    <3>6. /\ s5' \in [Commands -> client!Jobs] /\ \A d \in Commands \ {c} : s5'[d] = s5[d]
          /\ s5'[c].pc = "end" /\ s5'[c].attempt = s5[c].attempt /\ client!Mine(c)' = client!Mine(c)
          /\ s5'[c].snapshot = s5[c].snapshot
      BY <2>1, JobMoves DEF Pcs
    <3>7. client!AttemptsAreSound(c)' BY <1>0, <2>1, <3>6 DEF client!AttemptsAreSound
    <3>8. client!HoldIsSound(c)' BY <2>1, <3>6 DEF client!HoldIsSound
    <3>9. k[1] = c BY <3>1 DEF client!Mine
    <3>10. QED BY <1>0, <1>1, <2>1, <3>3, <3>4, <3>5, <3>6, <3>7, <3>8, <3>9, HoldMoves
  <2>4. QED BY <1>8, <2>2, <2>3 DEF client!Release
<1>9. CASE client!Touch(c) \/ client!Leave(c)
  <2>1. /\ s5[c].pc = "keep" /\ s5[c].attempt > 0 /\ UNCHANGED <<s4, s6, s7>> /\ s6[c] # "open" /\ s7[c] # "running"
        /\ s5' = [s5 EXCEPT ![c].pc = "release"] \/ UNCHANGED <<s5, s8>>
    BY <1>0, <1>9 DEF client!Touch, client!Leave, client!At, client!Goes, client!run, client!AttemptsAreSound, client!HoldIsSound
  <2>2. CASE UNCHANGED <<s5, s8>>
    <3>1. UNCHANGED <<s1, s2, s3, s4, s5, s6, s7, s8, s9>> BY <1>0, <2>1, <2>2
    <3>2. QED BY <1>a, <3>1
  <2>3. CASE s5' = [s5 EXCEPT ![c].pc = "release"] BY <1>0, <1>1, <1>2, <2>1, <2>3, PcMoves
  <2>4. QED BY <2>1, <2>2, <2>3
<1>10. CASE client!Die(c)
  <2>1. /\ s4' = s4 /\ s5' = [s5 EXCEPT ![c].pc = "end"] /\ s6' = [s6 EXCEPT ![c] = "none"]
        /\ s7' = [s7 EXCEPT ![c] = IF s7[c] = "none" THEN s7[c] ELSE "orphan"]
    BY <1>10 DEF client!Die, client!Ends
  <2>2. /\ s6' \in [Commands -> {"none", "open", "broken"}] /\ s7' \in [Commands -> {"none", "running", "killed", "orphan"}]
        /\ s6'[c] = "none" /\ s7'[c] # "running" /\ \A d \in Commands \ {c} : s6'[d] = s6[d] /\ s7'[d] = s7[d]
    BY <1>0, <2>1
  <2>3. QED BY <1>0, <1>1, <1>2, <2>1, <2>2, PcMoves
<1>11. QED BY <1>3, <1>4, <1>5, <1>6, <1>7, <1>8, <1>9, <1>10

\* The daemon drains, ends or starts again, and the configuration changes.
LEMMA WorldStep ==
    ASSUME ClientsAssumption, client!ClientInv,
           \/ client!Reconfigure \/ client!Drain \/ client!CloseServer \/ client!CloseLeases
           \/ client!Crash \/ client!StartDaemon
    PROVE  client!ClientInv'
<1> USE ClientTypes DEF client!ClientInv
<1>1. /\ UNCHANGED <<s5, s7, s8>> /\ s1' \in Routes /\ s2' \in {"up", "draining", "closing", "down"}
      /\ s9' \in 0..MaxChanges
  BY DEF client!Reconfigure, client!Drain, client!CloseServer, client!CloseLeases, client!Crash, client!StartDaemon,
         client!Change, client!run, client!TypeOK, ClientsAssumption
<1>2. s6' = s6 \/ client!Broken
  BY DEF client!Reconfigure, client!Drain, client!CloseServer, client!CloseLeases, client!Crash, client!StartDaemon,
         client!run
<1>3. (s3' = s3 /\ s4' = s4) \/ (client!AllGone /\ client!AllLost)
  BY DEF client!Reconfigure, client!Drain, client!CloseServer, client!CloseLeases, client!Crash, client!StartDaemon
<1>4. /\ s6' \in [Commands -> {"none", "open", "broken"}]
      /\ \A c \in Commands : (s6'[c] = "none" <=> s6[c] = "none") /\ (s6'[c] = "open" => s6[c] = "open")
  BY <1>2 DEF client!Broken, client!TypeOK
<1>5. /\ s3' \in [Commands \X client!Attempts ->
                     {"none", "acquiring", "connecting", "adding", "done", "failed", "draining", "lost"}]
      /\ \A k \in Commands \X client!Attempts :
            s3'[k] = s3[k] \/ (s3[k] \in {"acquiring", "connecting", "adding"} /\ s3'[k] = "lost")
  BY <1>3 DEF client!AllLost, client!TypeOK
<1>6. ASSUME NEW k \in Commands \X client!Attempts
      PROVE  /\ s4'[k] \in client!Leases \cup {None}
             /\ s4'[k] = s4[k] \/ (s4[k] # None /\ s4'[k] # None /\ ~s4'[k].live /\ s4'[k].route = s4[k].route)
  <2>1. s4 \in [Commands \X client!Attempts -> client!Leases \cup {None}] BY DEF client!TypeOK
  <2>2. CASE s4' = s4 BY <1>6, <2>1, <2>2
  <2>3. CASE client!AllGone
    <3>1. PICK r : r = [s4[k] EXCEPT !.live = FALSE, !.timer = FALSE] OBVIOUS
    <3>2. s4'[k] = IF client!Live(k) THEN r ELSE s4[k] BY <1>6, <2>1, <2>3, <3>1 DEF client!AllGone
    <3>3. client!Live(k) => s4[k] # None /\ s4[k] \in client!Leases BY <1>6, <2>1 DEF client!Live
    <3>4. client!Live(k) => r \in client!Leases /\ ~r.live /\ r.route = s4[k].route
      BY <3>1, <3>3 DEF client!Leases
    <3>5. client!Live(k) => r # None BY <3>4 DEF ClientsAssumption
    <3>6. QED BY <1>6, <2>1, <3>2, <3>3, <3>4, <3>5
  <2>4. QED BY <1>3, <2>2, <2>3
<1>7. s4' \in [Commands \X client!Attempts -> client!Leases \cup {None}]
  <2>1. s4 \in [Commands \X client!Attempts -> client!Leases \cup {None}] BY DEF client!TypeOK
  <2>2. DOMAIN s4' = Commands \X client!Attempts /\ s4' = [k \in DOMAIN s4' |-> s4'[k]]
    BY <1>3, <2>1 DEF client!AllGone
  <2>3. QED BY <1>6, <2>2
<1>8. client!TypeOK' BY <1>1, <1>4, <1>5, <1>7 DEF client!TypeOK, client!Leases, client!Jobs, client!Attempts
<1>9. ASSUME NEW c \in Commands PROVE client!AttemptsAreSound(c)'
  <2>1. client!AttemptsAreSound(c) /\ s5' = s5 /\ client!Mine(c)' = client!Mine(c) BY <1>1, <1>9 DEF client!Mine
  <2>2. \A n \in client!Attempts :
           s3'[<<c, n>>] = s3[<<c, n>>] \/ s3[<<c, n>>] \in {"acquiring", "connecting", "adding"}
    BY <1>5, <1>9
  <2>3. \A n \in client!Attempts :
           /\ n > s5[c].attempt => s3'[<<c, n>>] = "none"
           /\ n < s5[c].attempt \/ s5[c].pc = "start" => s3'[<<c, n>>] \in {"none", "draining"}
    BY <2>1, <2>2 DEF client!AttemptsAreSound
  <2>4. s5[c].pc \in {"hold", "run", "wait", "keep"} => s3'[client!Mine(c)] = "done"
    <3>1. s5[c].pc \in {"hold", "run", "wait", "keep"} =>
             s3[client!Mine(c)] = "done" /\ client!Mine(c) \in Commands \X client!Attempts
      BY <1>9, <2>1 DEF client!AttemptsAreSound
    <3>2. QED BY <1>5, <3>1
  <2>5. QED BY <2>1, <2>3, <2>4 DEF client!AttemptsAreSound
<1>10. ASSUME NEW c \in Commands PROVE client!HoldIsSound(c)'
  <2>1. client!HoldIsSound(c) /\ UNCHANGED <<s5, s7>> /\ client!Mine(c)' = client!Mine(c)
    BY <1>1, <1>10 DEF client!Mine
  <2>2. CASE client!CloseServer \/ client!CloseLeases \/ client!Crash
    <3>1. s6'[c] # "open"
      BY <1>10, <2>1, <2>2 DEF client!CloseServer, client!CloseLeases, client!Crash, client!Broken,
                               client!HoldIsSound, client!Serves, client!run, client!TypeOK
    <3>2. QED BY <1>4, <1>10, <2>1, <3>1 DEF client!HoldIsSound
  <2>3. CASE client!Reconfigure \/ client!Drain \/ client!StartDaemon
    <3>1. UNCHANGED <<s4, s6>> /\ (client!Serves => client!Serves')
      BY <2>3 DEF client!Reconfigure, client!Drain, client!StartDaemon, client!run, client!Serves
    <3>2. QED BY <2>1, <3>1 DEF client!HoldIsSound, client!Live
  <2>4. QED BY <2>2, <2>3
<1>11. ASSUME NEW k \in Commands \X client!Attempts PROVE client!LeaseIsSound(k)'
  <2>1. client!LeaseIsSound(k) /\ s5' = s5 BY <1>1, <1>11
  <2>2. s3'[k] = s3[k] \/ (s3[k] \in {"acquiring", "connecting", "adding"} /\ s3'[k] = "lost") BY <1>5, <1>11
  <2>3. s4'[k] = s4[k] \/ (s4[k] # None /\ s4'[k] # None /\ ~s4'[k].live /\ s4'[k].route = s4[k].route)
    BY <1>6, <1>11
  <2>4. QED BY <2>1, <2>2, <2>3 DEF client!LeaseIsSound, client!Live
<1>12. QED BY <1>8, <1>9, <1>10, <1>11

LEMMA NextClient ==
    ASSUME ClientsAssumption, client!ClientInv, [client!Next]_(client!vars)
    PROVE  client!ClientInv'
<1>1. CASE UNCHANGED client!vars
  <2>1. UNCHANGED <<s1, s2, s3, s4, s5, s6, s7, s8, s9>> BY <1>1 DEF client!vars
  <2>2. QED BY <2>1, ClientRests
<1>2. CASE client!Next
  BY <1>2, CommandStarts, CommandFollows, CommandGoesOn, OperationStep, WorldStep DEF client!Next
<1>3. QED BY <1>1, <1>2

\* Of all its attempts a command has at most one lease that is live.
LEMMA OneLease ==
    ASSUME ClientsAssumption, client!ClientInv, NEW c \in Commands
    PROVE  client!Cardinality({n \in client!Attempts : client!Live(<<c, n>>)}) <= 1
<1> DEFINE L == {n \in client!Attempts : client!Live(<<c, n>>)}
<1>1. client!AttemptsAreSound(c) /\ \A n \in client!Attempts : client!LeaseIsSound(<<c, n>>)
  BY ClientTypes DEF client!ClientInv
<1>2. \A n \in client!Attempts : n < s5[c].attempt \/ n = s5[c].attempt \/ n > s5[c].attempt
  BY ClientTypes DEF client!ClientInv, client!Attempts
<1>3. L \subseteq {s5[c].attempt}
  BY <1>1, <1>2 DEF client!AttemptsAreSound, client!LeaseIsSound
<1>4. IsFiniteSet({s5[c].attempt}) /\ Cardinality({s5[c].attempt}) = 1 BY FS_Singleton
<1>5. Cardinality(L) <= 1 /\ IsFiniteSet(L)
  <2>1. IsFiniteSet(L) /\ Cardinality(L) <= Cardinality({s5[c].attempt}) BY <1>3, <1>4, FS_Subset
  <2>2. QED BY <1>4, <2>1
<1>6. client!Cardinality(L) = Cardinality(L) BY DEF client!Cardinality, Cardinality, client!IsFiniteSet, IsFiniteSet
<1>7. QED BY <1>5, <1>6

\* However the daemon, the configuration and the commands go: a process runs over a
\* lease of the route that was reviewed, live and held while its stream is open; a
\* command has one lease however often it asked, and none outlives its timer
\* (daemon_client.go, ssh.go; ssh manager's leases and holds).
THEOREM LeasesStayServed ==
    ASSUME ClientsAssumption PROVE ServicesSpec => []LeasesServeTheirCommands
<1> DEFINE Inv == focus = "client" => client!ClientInv
<1>1. ServicesInit => Inv BY InitClient DEF ServicesInit
<1>2. Inv /\ [ServicesNext]_services => Inv'
  BY NextClient DEF ServicesNext, services, slots, client!vars
<1>3. Inv => LeasesServeTheirCommands
  <2>1. SUFFICES ASSUME client!ClientInv PROVE client!LeasesServeTheirCommands BY DEF LeasesServeTheirCommands
  <2>2. client!CommandsRunOverTheirLease
    <3>1. SUFFICES ASSUME NEW c \in Commands, s7[c] = "running"
                   PROVE  /\ (client!Live(client!Mine(c)) /\ s4[client!Mine(c)].held) \/ s6[c] = "broken"
                          /\ s4[client!Mine(c)].route = s5[c].snapshot
                          /\ s5[c].expected \in {None, s5[c].snapshot}
      BY DEF client!CommandsRunOverTheirLease
    <3>2. client!AttemptsAreSound(c) /\ client!HoldIsSound(c) BY <2>1 DEF client!ClientInv
    <3>3. s5[c].pc = "wait" /\ s5[c].attempt > 0 /\ s3[client!Mine(c)] = "done" /\ s6[c] \in {"open", "broken"}
      BY <2>1, <3>1, <3>2 DEF client!AttemptsAreSound, client!HoldIsSound, client!ClientInv, client!TypeOK
    <3>4. client!Mine(c) \in Commands \X client!Attempts BY <2>1, <3>3, ClientTypes DEF client!ClientInv
    <3>5. client!LeaseIsSound(client!Mine(c)) /\ client!Mine(c)[1] = c
      BY <2>1, <3>4 DEF client!ClientInv, client!Mine
    <3>6. QED BY <3>2, <3>3, <3>5 DEF client!AttemptsAreSound, client!HoldIsSound, client!LeaseIsSound
  <2>3. \A c \in Commands : client!Cardinality({n \in client!Attempts : client!Live(<<c, n>>)}) <= 1
    BY <2>1, OneLease
  <2>4. \A k \in Commands \X client!Attempts : client!Live(k) => s4[k].timer \/ s4[k].held
    BY <2>1 DEF client!ClientInv, client!LeaseIsSound
  <2>5. QED BY <2>2, <2>3, <2>4 DEF client!LeasesServeTheirCommands, client!LeasesAreAccounted
<1>4. QED BY <1>1, <1>2, <1>3, PTL DEF ServicesSpec

-----------------------------------------------------------------------------
(* SSHManager: the hops of a path. *)

LEMMA Chains ==
    ASSUME NEW t \in Terminals
    PROVE  /\ Len(Chain[t]) \in Nat \ {0} /\ DOMAIN Chain[t] = 1..Len(Chain[t])
           /\ \A k \in DOMAIN Chain[t] : Chain[t][k] \in Ids
           /\ Chain[t][Len(Chain[t])] = t
<1>1. Chain[t] \in Seq(Ids) /\ Chain[t] # <<>> BY ManagerAssumption DEF ManagerAssumption
<1>2. Len(Chain[t]) \in Nat /\ Len(Chain[t]) # 0 /\ DOMAIN Chain[t] = 1..Len(Chain[t]) BY <1>1
<1>3. \A k \in DOMAIN Chain[t] : Chain[t][k] \in Ids BY <1>1, <1>2
<1>4. QED BY <1>2, <1>3, ManagerAssumption DEF ManagerAssumption

LEMMA SamePrefix ==
    ASSUME NEW t \in Terminals, NEW u \in Terminals, NEW k \in DOMAIN Chain[t], NEW l \in DOMAIN Chain[u],
           Chain[t][k] = Chain[u][l]
    PROVE  k = l /\ \A m \in 1..k : Chain[t][m] = Chain[u][m]
BY ManagerAssumption DEF ManagerAssumption

LEMMA DepthIs ==
    ASSUME NEW t \in Terminals, NEW k \in DOMAIN Chain[t]
    PROVE  Depth(Chain[t][k]) = k
<1> DEFINE S == UNION {DOMAIN Chain[u] : u \in Terminals}
<1> DEFINE P(m) == \E u \in Terminals : m \in DOMAIN Chain[u] /\ Chain[u][m] = Chain[t][k]
<1>1. k \in S /\ P(k) OBVIOUS
<1>2. \A m \in S : P(m) => m = k BY SamePrefix
<1>3. (CHOOSE m \in S : P(m)) = k BY <1>1, <1>2
<1>4. QED BY <1>3 DEF Depth

LEMMA BelowOnPath ==
    ASSUME NEW t \in Terminals, NEW k \in DOMAIN Chain[t], NEW i \in Ids, Chain[t][k] \in Below(i)
    PROVE  \E l \in DOMAIN Chain[t] : l < k /\ Chain[t][l] = i
<1>0. PICK u \in Terminals : \E a, b \in DOMAIN Chain[u] : a < b /\ Chain[u][a] = i /\ Chain[u][b] = Chain[t][k]
  BY DEF Below
<1>1. PICK a \in DOMAIN Chain[u], b \in DOMAIN Chain[u] : a < b /\ Chain[u][a] = i /\ Chain[u][b] = Chain[t][k]
  BY <1>0
<1>2. b = k /\ \A m \in 1..b : Chain[u][m] = Chain[t][m] BY <1>1, SamePrefix
<1>3. a \in 1..b /\ a \in DOMAIN Chain[t] BY <1>1, <1>2, Chains
<1>4. QED BY <1>1, <1>2, <1>3

LEMMA OnPathBelow ==
    ASSUME NEW t \in Terminals, NEW k \in DOMAIN Chain[t], NEW l \in DOMAIN Chain[t], l < k
    PROVE  Chain[t][k] \in Below(Chain[t][l])
BY Chains DEF Below

LEMMA BelowTransitive ==
    ASSUME NEW i \in Ids, NEW u \in Below(i), NEW j \in Below(u)
    PROVE  j \in Below(i)
<1>1. u \in Ids /\ j \in Ids BY DEF Below
<1>0. PICK t \in Terminals : \E a, b \in DOMAIN Chain[t] : a < b /\ Chain[t][a] = u /\ Chain[t][b] = j
  BY DEF Below
<1>2. PICK a \in DOMAIN Chain[t], b \in DOMAIN Chain[t] : a < b /\ Chain[t][a] = u /\ Chain[t][b] = j
  BY <1>0
<1>3. PICK l \in DOMAIN Chain[t] : l < a /\ Chain[t][l] = i BY <1>1, <1>2, BelowOnPath
<1>4. l < b BY <1>2, <1>3, Chains
<1>5. QED BY <1>2, <1>3, <1>4, OnPathBelow

LEMMA BelowTypes ==
    ASSUME NEW i \in Ids
    PROVE  /\ Below(i) \subseteq Ids /\ i \notin Below(i) /\ Upstream(i) \subseteq Ids
           /\ \A u \in Upstream(i) : i \in Below(u)
<1>1. i \notin Below(i)
  <2>1. SUFFICES ASSUME i \in Below(i) PROVE FALSE OBVIOUS
  <2>0. PICK t \in Terminals : \E a, b \in DOMAIN Chain[t] : a < b /\ Chain[t][a] = i /\ Chain[t][b] = i
    BY <2>1 DEF Below
  <2>2. PICK a \in DOMAIN Chain[t], b \in DOMAIN Chain[t] : a < b /\ Chain[t][a] = i /\ Chain[t][b] = i
    BY <2>0
  <2>3. a = b BY <2>2, SamePrefix
  <2>4. QED BY <2>2, <2>3, Chains
<1>2. QED BY <1>1 DEF Below, Upstream

\* The hop before one, and the first that has none.
LEMMA UpstreamIs ==
    ASSUME NEW t \in Terminals, NEW k \in DOMAIN Chain[t]
    PROVE  /\ k > 1 => k - 1 \in DOMAIN Chain[t] /\ Chain[t][k - 1] \in Upstream(Chain[t][k])
           /\ \A u \in Upstream(Chain[t][k]) : k > 1 /\ u = Chain[t][k - 1]
<1>1. k \in Nat /\ k >= 1 /\ k <= Len(Chain[t]) /\ Depth(Chain[t][k]) = k BY Chains, DepthIs
<1>2. ASSUME k > 1 PROVE k - 1 \in DOMAIN Chain[t] /\ Chain[t][k - 1] \in Upstream(Chain[t][k])
  <2>1. k - 1 \in DOMAIN Chain[t] /\ k - 1 < k BY <1>1, <1>2, Chains
  <2>2. Depth(Chain[t][k - 1]) = k - 1 BY <2>1, DepthIs
  <2>3. Chain[t][k] \in Below(Chain[t][k - 1]) BY <2>1, OnPathBelow
  <2>4. Chain[t][k - 1] \in Ids BY <2>1, Chains
  <2>5. QED BY <1>1, <2>1, <2>2, <2>3, <2>4 DEF Upstream
<1>3. ASSUME NEW u \in Upstream(Chain[t][k]) PROVE k > 1 /\ u = Chain[t][k - 1]
  <2>1. u \in Ids /\ Chain[t][k] \in Below(u) /\ Depth(Chain[t][k]) = Depth(u) + 1 BY DEF Upstream
  <2>2. PICK l \in DOMAIN Chain[t] : l < k /\ Chain[t][l] = u BY <2>1, BelowOnPath
  <2>3. Depth(u) = l /\ l \in Nat /\ l >= 1 BY <2>2, DepthIs, Chains
  <2>4. l = k - 1 BY <1>1, <2>1, <2>3
  <2>5. QED BY <1>1, <2>2, <2>3, <2>4
<1>4. QED BY <1>2, <1>3

\* A hop that is under another, and the hop in between that the other carries.
LEMMA Between ==
    ASSUME NEW i \in Ids, NEW j \in Below(i)
    PROVE  \E d \in Ids : i \in Upstream(d) /\ (d = j \/ j \in Below(d))
<1>0. PICK t \in Terminals : \E a, b \in DOMAIN Chain[t] : a < b /\ Chain[t][a] = i /\ Chain[t][b] = j
  BY DEF Below
<1>1. PICK a \in DOMAIN Chain[t], b \in DOMAIN Chain[t] : a < b /\ Chain[t][a] = i /\ Chain[t][b] = j
  BY <1>0
<1>2. a \in Nat /\ b \in Nat /\ a + 1 \in DOMAIN Chain[t] /\ a + 1 > 1 /\ (a + 1) - 1 = a BY <1>1, Chains
<1>3. Chain[t][a + 1] \in Ids /\ i \in Upstream(Chain[t][a + 1]) BY <1>1, <1>2, UpstreamIs, Chains
<1>4. a + 1 = b \/ a + 1 < b BY <1>1, <1>2
<1>5. Chain[t][a + 1] = j \/ j \in Below(Chain[t][a + 1]) BY <1>1, <1>2, <1>4, OnPathBelow
<1>6. QED BY <1>3, <1>5

\* Routes.
LEMMA Records ==
    ASSUME NEW r \in Route \cup {NoRoute}
    PROVE  /\ r.gen \in 0..MaxGen /\ r.leases \in Nat /\ r.leases <= Cardinality(Callers)
           /\ (r # NoRoute) <=> (r.gen # 0)
           /\ r = NoRoute => r.leases = 0 /\ r.idle = "none"
           /\ StopBeat(r) \in Route \cup {NoRoute} /\ StopBeat(r).gen = r.gen /\ StopBeat(r).leases = r.leases
           /\ StopTimer(r) \in Route \cup {NoRoute} /\ StopTimer(r).gen = r.gen /\ StopTimer(r).leases = r.leases
           /\ NotIdle(r) \in Route \cup {NoRoute} /\ NotIdle(r).gen = r.gen /\ NotIdle(r).leases = r.leases
<1>1. MaxGen \in Nat /\ MaxGen # 0 /\ Cardinality(Callers) \in Nat
  BY ManagerAssumption, FS_CardinalityType DEF ManagerAssumption
<1>2. CASE r \in Route
  <2>1. r.gen \in 1..MaxGen /\ r.leases \in 0..Cardinality(Callers) BY <1>2 DEF Route
  <2>2. /\ StopBeat(r) \in Route /\ StopBeat(r).gen = r.gen /\ StopBeat(r).leases = r.leases
        /\ StopTimer(r) \in Route /\ StopTimer(r).gen = r.gen /\ StopTimer(r).leases = r.leases
        /\ NotIdle(r) \in Route /\ NotIdle(r).gen = r.gen /\ NotIdle(r).leases = r.leases
    <3>1. StopBeat(r) \in Route /\ StopBeat(r).gen = r.gen /\ StopBeat(r).leases = r.leases
      BY <1>2 DEF Route, StopBeat
    <3>2. StopTimer(r) \in Route /\ StopTimer(r).gen = r.gen /\ StopTimer(r).leases = r.leases
      BY <1>2 DEF Route, StopTimer
    <3>3. NotIdle(r) \in Route /\ NotIdle(r).gen = r.gen /\ NotIdle(r).leases = r.leases
      BY <1>2 DEF Route, NotIdle
    <3>4. QED BY <3>1, <3>2, <3>3
  <2>3. r.gen \in 0..MaxGen /\ r.gen # 0 /\ r.leases \in Nat /\ r.leases <= Cardinality(Callers) BY <1>1, <2>1
  <2>4. r # NoRoute BY <2>3 DEF NoRoute
  <2>5. QED BY <2>2, <2>3, <2>4
<1>3. CASE r = NoRoute
  <2>1. r.gen = 0 /\ r.leases = 0 /\ r.idle = "none" BY <1>3 DEF NoRoute
  <2>2. StopBeat(r) = NoRoute /\ StopTimer(r) = NoRoute /\ NotIdle(r) = NoRoute
    <3> DEFINE Only == [gen : {0}, leases : {0}, idle : {"none"}, beat : {FALSE}]
    <3>1. r \in Only BY <1>3 DEF NoRoute
    <3>2. ASSUME NEW x \in Only PROVE x = NoRoute BY DEF NoRoute
    <3>3. StopBeat(r) \in Only BY <3>1 DEF StopBeat
    <3>4. StopTimer(r) \in Only BY <3>1 DEF StopTimer
    <3>5. NotIdle(r) \in Only BY <3>1 DEF NotIdle
    <3>6. QED BY <3>2, <3>3, <3>4, <3>5
  <2>3. QED BY <1>1, <1>3, <2>1, <2>2
<1>4. QED BY <1>2, <1>3

LEMMA Rested ==
    ASSUME NEW r \in Route \cup {NoRoute}
    PROVE  /\ StopBeat(NotIdle(r)) \in Route \cup {NoRoute}
           /\ StopBeat(NotIdle(r)).gen = r.gen /\ StopBeat(NotIdle(r)).leases = r.leases
           /\ StopBeat(StopTimer(r)) \in Route \cup {NoRoute}
           /\ StopBeat(StopTimer(r)).gen = r.gen /\ StopBeat(StopTimer(r)).leases = r.leases
<1>1. PICK n \in Route \cup {NoRoute} : n = NotIdle(r) /\ n.gen = r.gen /\ n.leases = r.leases BY Records
<1>2. PICK t \in Route \cup {NoRoute} : t = StopTimer(r) /\ t.gen = r.gen /\ t.leases = r.leases BY Records
<1>3. StopBeat(n) \in Route \cup {NoRoute} /\ StopBeat(n).gen = n.gen /\ StopBeat(n).leases = n.leases BY Records
<1>4. StopBeat(t) \in Route \cup {NoRoute} /\ StopBeat(t).gen = t.gen /\ StopBeat(t).leases = t.leases BY Records
<1>5. QED BY <1>1, <1>2, <1>3, <1>4

-----------------------------------------------------------------------------
(* What one actor's step leaves alone. *)

LEMMA KnownIs ==
    ASSUME TypeOK, TypeOK', NEW u \in Ids
    PROVE  (Known(u) <=> route[u].gen # 0) /\ (Known(u)' <=> route'[u].gen # 0)
<1>1. route[u] \in Route \cup {NoRoute} /\ route'[u] \in Route \cup {NoRoute} BY DEF TypeOK
<1>2. (route[u] # NoRoute) <=> (route[u].gen # 0) BY <1>1, Records
<1>3. (route'[u] # NoRoute) <=> (route'[u].gen # 0) BY <1>1, Records
<1>4. QED BY <1>2, <1>3 DEF Known

LEMMA CallerStays ==
    ASSUME ManagerInv, TypeOK', NEW d \in Callers, last' >= last,
           want'[d] = want[d], held'[d] = held[d], counted'[d] = counted[d], pc'[d] = pc[d], at'[d] = at[d]
    PROVE  CallerIsSound(d)'
<1>1. CallerIsSound(d) BY DEF ManagerInv
<1>2. HeldBy(d)' = HeldBy(d) /\ Path(d)' = Path(d) BY DEF HeldBy, Path
<1>3. last \in Nat /\ last' \in Nat BY ManagerAssumption DEF ManagerInv, TypeOK, ManagerAssumption
<1>4. \A i \in Ids : held[d][i] \in Nat
  BY ManagerAssumption DEF ManagerInv, TypeOK, ManagerAssumption
<1>5. \A i \in Ids : held'[d][i] <= last' BY <1>1, <1>3, <1>4 DEF CallerIsSound
<1>6. QED BY <1>1, <1>2, <1>5 DEF CallerIsSound

LEMMA HolderStays ==
    ASSUME ManagerInv, NEW a \in Actors, pc'[a] = pc[a], at'[a] = at[a],
           pc[a] \in {"connected", "refused", "cut"} =>
              gate'[at[a]] = gate[at[a]] /\ (a # Closer => route'[at[a]].leases = route[at[a]].leases)
    PROVE  HolderIsSound(a)'
BY DEF ManagerInv, HolderIsSound

LEMMA ConnectionStays ==
    ASSUME ManagerInv, TypeOK', NEW d \in Callers, last' >= last, pc'[d] = pc[d], at'[d] = at[d],
           got'[d] = got[d],
           pc[d] = "connected" =>
              /\ held'[d] = held[d] /\ route'[at[d]].gen = route[at[d]].gen
              /\ \A e \in Callers : held'[e][at[d]] \in {held[e][at[d]], 0}
              /\ master'[at[d]] \in {master[at[d]], 0}
              /\ master'[at[d]] # 0 => \A u \in Upstream(at[d]) : master'[u] = master[u]
    PROVE  ConnectionIsSound(d)'
<1>1. SUFFICES ASSUME pc[d] = "connected" PROVE ConnectionIsSound(d)' BY DEF ConnectionIsSound
<1>2. ConnectionIsSound(d) /\ HolderIsSound(d) BY DEF ManagerInv, Actors
<1>3. at[d] \in Ids BY <1>1, <1>2 DEF HolderIsSound
<1>4. route[at[d]] \in Route \cup {NoRoute} /\ route'[at[d]] \in Route \cup {NoRoute}
  BY <1>3 DEF ManagerInv, TypeOK
<1>5. Known(at[d])' <=> Known(at[d])
  <2>1. (route[at[d]] # NoRoute) <=> (route[at[d]].gen # 0) BY <1>4, Records
  <2>2. (route'[at[d]] # NoRoute) <=> (route'[at[d]].gen # 0) BY <1>4, Records
  <2>3. QED BY <1>1, <2>1, <2>2 DEF Known
<1>6. got'[d] # 0 /\ got'[d] <= last'
  BY <1>1, <1>2, ManagerAssumption DEF ConnectionIsSound, ManagerInv, TypeOK, ManagerAssumption
<1>7. \A e \in Callers : held'[e][at[d]] = got'[d] => route'[at[d]].gen = got'[d]
  BY <1>1, <1>2, <1>6 DEF ConnectionIsSound
<1>8. QED BY <1>1, <1>2, <1>5, <1>6, <1>7 DEF ConnectionIsSound

\* A master lives on, or ends.
LEMMA MasterStays ==
    ASSUME ManagerInv, TypeOK', NEW j \in Ids, last' >= last, master'[j] \in {master[j], 0},
           master'[j] # 0 =>
              /\ \/ route'[j].gen = master[j]
                 \/ route'[j].gen = route[j].gen /\ \A c \in Callers : held'[c][j] \in {held[c][j], 0}
              /\ \A c \in Callers : pc[c] = "connected" /\ at[c] = j =>
                    route'[j].gen # 0 \/ (pc'[c] = "connected" /\ at'[c] = j)
              /\ \A u \in Ids : j \in Below(u) => master'[u] = master[u] /\ (route[u].gen # 0 => route'[u].gen # 0)
    PROVE  MasterIsSound(j)'
<1>1. MasterIsSound(j) BY DEF ManagerInv
<1>2. \A u \in Ids : (Known(u) <=> route[u].gen # 0) /\ (Known(u)' <=> route'[u].gen # 0)
  BY KnownIs DEF ManagerInv
<1>3. master'[j] <= last'
  BY <1>1, ManagerAssumption DEF MasterIsSound, ManagerInv, TypeOK, ManagerAssumption
<1>4. CASE master'[j] = 0 BY <1>3, <1>4 DEF MasterIsSound
<1>5. CASE master'[j] # 0
  <2>1. \A c \in Callers : held'[c][j] # 0 /\ held'[c][j] = master'[j] => route'[j].gen = master'[j]
    BY <1>1, <1>5 DEF MasterIsSound
  <2>2. Known(j)' \/ \E c \in Callers : pc'[c] = "connected" /\ at'[c] = j
    BY <1>1, <1>2, <1>5 DEF MasterIsSound
  <2>3. \A u \in Ids : j \in Below(u) => master'[u] # 0 /\ Known(u)'
    BY <1>1, <1>2, <1>5 DEF MasterIsSound
  <2>4. QED BY <1>3, <2>1, <2>2, <2>3 DEF MasterIsSound
<1>6. QED BY <1>4, <1>5

\* A lease that is counted, and a route that has none.
LEMMA CountStays ==
    ASSUME NEW i \in Ids, LeaseCountIsExact, TypeOK, TypeOK',
           route'[i].gen = route[i].gen, route'[i].leases = route[i].leases,
           \A c \in Callers : (Counts(c, i) /\ held[c][i] = route[i].gen) <=> (Counts(c, i) /\ held[c][i] = route[i].gen)'
    PROVE  Known(i)' => route'[i].leases = Cardinality({c \in Callers : Counts(c, i)' /\ held'[c][i] = route'[i].gen})
<1>1. Known(i)' <=> Known(i) BY KnownIs
<1>2. {c \in Callers : Counts(c, i)' /\ held'[c][i] = route'[i].gen}
        = {c \in Callers : Counts(c, i) /\ held[c][i] = route[i].gen}
  BY DEF Counts
<1>3. QED BY <1>1, <1>2 DEF LeaseCountIsExact

LEMMA NoLease ==
    ASSUME ManagerInv, NEW i \in Ids, route[i].leases = 0, NEW c \in Callers, held[c][i] = master[i], held[c][i] # 0
    PROVE  i \in counted[c]
<1>1. route[i].gen = master[i] /\ route[i] \in Route \cup {NoRoute} BY DEF ManagerInv, MasterIsSound, TypeOK
<1>2. Known(i) BY <1>1, Records DEF Known
<1>3. SUFFICES ASSUME i \notin counted[c] PROVE FALSE OBVIOUS
<1> DEFINE L == {d \in Callers : Counts(d, i) /\ held[d][i] = route[i].gen}
<1>4. c \in L /\ IsFiniteSet(L)
  BY <1>1, <1>3, ManagerAssumption, FS_Subset DEF Counts, ManagerAssumption
<1>5. Cardinality(L) # 0 BY <1>4, FS_EmptySet
<1>6. QED BY <1>2, <1>5 DEF ManagerInv, LeaseCountIsExact

\* Close goes on meanwhile.
LEMMA CloseStays ==
    ASSUME ManagerInv, TypeOK', closed' = closed, targets'[Closer] = targets[Closer], awaited' = awaited,
           pc'[Closer] = pc[Closer], at'[Closer] = at[Closer],
           closed => \A c \in Callers : pc'[c] \in {"connected", "refused"} =>
                        pc[c] \in {"connected", "refused"} /\ at'[c] = at[c],
           closed => \A i \in Ids : master'[i] # 0 => master[i] # 0 /\ (i \in failed => i \in failed'),
           closed => \A i \in Ids, c \in Callers :
              at[c] = i /\ (pc[c] = "refused" \/ (pc[c] = "connected" /\ route[i].gen = 0))
                /\ master'[i] # 0 /\ i \notin failed'
              => at'[c] = i /\ (pc'[c] = "refused" \/ (pc'[c] = "connected" /\ route'[i].gen = 0))
    PROVE  CloseIsSound'
<1>1. CloseIsSound BY DEF ManagerInv
<1>2. \A u \in Ids : (Known(u) <=> route[u].gen # 0) /\ (Known(u)' <=> route'[u].gen # 0)
  BY KnownIs DEF ManagerInv
<1>3. ToVisit' = ToVisit BY DEF ToVisit
<1>4. pc'[Closer] # "idle" => closed' BY <1>1 DEF CloseIsSound
<1>5. CASE pc[Closer] \in {"list", "cut"}
  <2>1. closed BY <1>1, <1>5 DEF CloseIsSound
  <2>2. \A c \in Callers : pc'[c] \in {"connected", "refused"} => at'[c] \in ToVisit' \cup awaited'
    BY <1>1, <1>3, <1>5, <2>1 DEF CloseIsSound
  <2>3. \A i \in Ids : master'[i] # 0 =>
           i \in failed' \cup ToVisit' \cup awaited' \/ (pc'[Closer] = "cut" /\ at'[Closer] = i)
    BY <1>1, <1>3, <1>5, <2>1 DEF CloseIsSound
  <2>4. ASSUME NEW i \in awaited' \ failed', master'[i] # 0
        PROVE  \E c \in Callers : at'[c] = i /\ (pc'[c] = "refused" \/ (pc'[c] = "connected" /\ ~Known(i)'))
    <3>1. i \in Ids /\ i \in awaited \ failed /\ master[i] # 0 BY <2>1, <2>4 DEF TypeOK
    <3>2. PICK c \in Callers : at[c] = i /\ (pc[c] = "refused" \/ (pc[c] = "connected" /\ ~Known(i)))
      BY <1>1, <1>5, <3>1 DEF CloseIsSound
    <3>3. at'[c] = i /\ (pc'[c] = "refused" \/ (pc'[c] = "connected" /\ route'[i].gen = 0))
      BY <1>2, <2>1, <2>4, <3>1, <3>2
    <3>4. QED BY <1>2, <3>1, <3>3
  <2>5. CloseLeavesNothing' BY <1>5 DEF CloseLeavesNothing
  <2>6. QED BY <1>1, <1>4, <2>2, <2>3, <2>4, <2>5 DEF CloseIsSound
<1>6. CASE pc[Closer] = "done"
  <2>1. closed BY <1>1, <1>6 DEF CloseIsSound
  <2>2. CloseLeavesNothing' BY <1>1, <1>6, <2>1 DEF CloseIsSound, CloseLeavesNothing
  <2>3. QED BY <1>1, <1>4, <1>6, <2>2 DEF CloseIsSound
<1>7. CASE pc[Closer] = "idle"
  BY <1>1, <1>7 DEF CloseIsSound, CloseLeavesNothing
<1>8. QED BY <1>1, <1>5, <1>6, <1>7 DEF CloseIsSound

LEMMA WhoIsWho ==
    /\ Callers \subseteq Actors /\ Sweeper \in Actors /\ Closer \in Actors /\ Sweeper # Closer
    /\ \A c \in Callers : c # Sweeper /\ c # Closer /\ c # Nobody
    /\ Nobody \notin Actors /\ MaxGen \in Nat
    /\ \A a \in Actors : a \in Callers \/ a = Sweeper \/ a = Closer
BY ManagerAssumption DEF ManagerAssumption, Actors

\* Who holds a gate is not disturbed by what others do without it.
LEMMA OthersStay ==
    ASSUME ManagerInv, TypeOK', NEW c \in Actors, last' >= last,
           \A a \in Actors \ {c} : pc'[a] = pc[a] /\ at'[a] = at[a],
           \A d \in Callers \ {c} :
              want'[d] = want[d] /\ held'[d] = held[d] /\ counted'[d] = counted[d] /\ got'[d] = got[d],
           \A i \in Ids : gate[i] \notin {c, Nobody} =>
              /\ gate'[i] = gate[i] /\ route'[i].gen = route[i].gen /\ route'[i].leases = route[i].leases
              /\ c \in Callers => held'[c][i] \in {held[c][i], 0}
              /\ master'[i] \in {master[i], 0}
              /\ master'[i] # 0 => \A u \in Upstream(i) : master'[u] = master[u]
    PROVE  /\ \A d \in Callers \ {c} : CallerIsSound(d)' /\ ConnectionIsSound(d)'
           /\ \A a \in Actors \ {c} : HolderIsSound(a)'
<1>1. ASSUME NEW a \in Actors \ {c}, pc[a] \in {"connected", "refused", "cut"}
      PROVE  at[a] \in Ids /\ gate[at[a]] = a /\ gate[at[a]] \notin {c, Nobody}
  BY <1>1, WhoIsWho DEF ManagerInv, HolderIsSound
<1>2. ASSUME NEW a \in Actors \ {c} PROVE HolderIsSound(a)' BY <1>1, <1>2, HolderStays
<1>3. ASSUME NEW d \in Callers \ {c} PROVE CallerIsSound(d)' BY <1>3, WhoIsWho, CallerStays
<1>4. ASSUME NEW d \in Callers \ {c} PROVE ConnectionIsSound(d)'
  <2>1. d \in Actors \ {c} /\ pc'[d] = pc[d] /\ at'[d] = at[d] /\ got'[d] = got[d] /\ held'[d] = held[d]
    BY <1>4, WhoIsWho
  <2>2. ASSUME pc[d] = "connected"
        PROVE  /\ route'[at[d]].gen = route[at[d]].gen
               /\ \A e \in Callers : held'[e][at[d]] \in {held[e][at[d]], 0}
               /\ master'[at[d]] \in {master[at[d]], 0}
               /\ master'[at[d]] # 0 => \A u \in Upstream(at[d]) : master'[u] = master[u]
    <3>1. at[d] \in Ids /\ gate[at[d]] \notin {c, Nobody} BY <1>1, <2>1, <2>2
    <3>2. \A e \in Callers : e = c \/ held'[e] = held[e] OBVIOUS
    <3>3. QED BY <3>1, <3>2
  <2>3. QED BY <2>1, <2>2, ConnectionStays
<1>5. QED BY <1>2, <1>3, <1>4

LEMMA EndsWhat ==
    ASSUME ManagerInv, NEW i \in Ids, master' = Ends(i)
    PROVE  /\ master' \in [Ids -> 0..MaxGen] /\ master'[i] = 0
           /\ \A j \in Below(i) : master'[j] = 0
           /\ \A j \in Ids : /\ master'[j] \in {master[j], 0}
                             /\ j \notin {i} \cup Below(i) => master'[j] = master[j]
                             /\ master'[j] # 0 => /\ j \notin {i} \cup Below(i)
                                                  /\ \A u \in Ids : j \in Below(u) => u # i /\ master'[u] = master[u]
<1>1. master \in [Ids -> 0..MaxGen] /\ MaxGen \in Nat BY WhoIsWho DEF ManagerInv, TypeOK
<1>2. \A j \in Ids : master'[j] = IF j \in {i} \cup Below(i) THEN 0 ELSE master[j] BY DEF Ends
<1>3. master' \in [Ids -> 0..MaxGen] BY <1>1 DEF Ends
<1>4. ASSUME NEW j \in Ids, j \notin {i} \cup Below(i), NEW u \in Ids, j \in Below(u)
      PROVE  u \notin {i} \cup Below(i)
  BY <1>4, BelowTransitive
<1>5. QED BY <1>2, <1>3, <1>4, BelowTypes

\* The next lease to release, or the end of the release.
ReleasesWhat(c, left, leases, rolls) ==
    /\ ManagerInv /\ c \in Callers /\ left \in SUBSET Ids /\ leases \in [Ids -> 0..MaxGen]
    /\ rolls \in SUBSET Callers /\ ReleaseNext(c, left, leases, rolls)
    /\ \A i \in left : leases[i] # 0
    /\ \A i \in Ids : leases[i] \in {held[c][i], 0}
    /\ want' = want /\ last' = last
    /\ \A i \in counted'[c] : i \in Ids /\ leases[i] # 0

LEMMA ReleasesNext ==
    ASSUME NEW c, NEW left, NEW leases, NEW rolls, ReleasesWhat(c, left, leases, rolls)
    PROVE  /\ pc' \in [Actors -> Referencing \cup {"idle", "next", "held", "again", "abandoned", "list", "done"}]
           /\ at' \in [Actors -> Ids \cup {Nobody}] /\ rolling' \subseteq Callers
           /\ held' \in [Callers -> [Ids -> 0..MaxGen]]
           /\ held'[c] = leases /\ \A d \in Callers \ {c} : held'[d] = held[d]
           /\ \A a \in Actors \ {c} : pc'[a] = pc[a] /\ at'[a] = at[a]
           /\ pc'[c] \in {"drop", "idle", "abandoned", "again"}
           /\ CallerIsSound(c)' /\ ConnectionIsSound(c)' /\ HolderIsSound(c)'
<1>0. /\ ManagerInv /\ c \in Callers /\ left \in SUBSET Ids /\ leases \in [Ids -> 0..MaxGen]
      /\ rolls \in SUBSET Callers /\ ReleaseNext(c, left, leases, rolls)
      /\ \A i \in left : leases[i] # 0
      /\ \A i \in Ids : leases[i] \in {held[c][i], 0}
      /\ want' = want /\ last' = last
      /\ \A i \in counted'[c] : i \in Ids /\ leases[i] # 0
  BY DEF ReleasesWhat
<1> USE <1>0
<1>1. /\ pc \in [Actors -> Referencing \cup {"idle", "next", "held", "again", "abandoned", "list", "done"}]
      /\ at \in [Actors -> Ids \cup {Nobody}] /\ held \in [Callers -> [Ids -> 0..MaxGen]] /\ c \in Actors
      /\ rolling \subseteq Callers /\ held[c] \in [Ids -> 0..MaxGen]
  BY WhoIsWho DEF ManagerInv, TypeOK
<1>2. held' = [held EXCEPT ![c] = leases] BY DEF ReleaseNext
<1>3. PICK l \in {"drop", "idle", "abandoned", "again"} :
         /\ pc' = [pc EXCEPT ![c] = l]
         /\ l = "drop" => \E i \in left : at' = [at EXCEPT ![c] = i]
         /\ l # "drop" => at' = [at EXCEPT ![c] = Nobody]
         /\ l = "idle" => \A i \in Ids : leases[i] = 0
  BY DEF ReleaseNext, Goes, Deepest
<1>4. /\ pc' \in [Actors -> Referencing \cup {"idle", "next", "held", "again", "abandoned", "list", "done"}]
      /\ pc'[c] = l /\ \A a \in Actors \ {c} : pc'[a] = pc[a]
  BY <1>1, <1>3 DEF Referencing
<1>5. /\ at' \in [Actors -> Ids \cup {Nobody}] /\ (l = "drop" => at'[c] \in left)
      /\ \A a \in Actors \ {c} : at'[a] = at[a]
  BY <1>1, <1>3
<1>6. held' \in [Callers -> [Ids -> 0..MaxGen]] /\ held'[c] = leases /\ \A d \in Callers \ {c} : held'[d] = held[d]
  BY <1>1, <1>2
<1>7. CallerIsSound(c)'
  <2>1. CallerIsSound(c) BY DEF ManagerInv
  <2>2. HeldBy(c)' = {i \in Ids : leases[i] # 0} /\ HeldBy(c)' \subseteq HeldBy(c) /\ Path(c)' = Path(c)
    BY <1>6 DEF HeldBy, Path
  <2>3. \A i \in Ids : held'[c][i] <= last'
    <3>1. last \in Nat /\ 0 <= last BY WhoIsWho DEF ManagerInv, TypeOK
    <3>2. \A i \in Ids : held[c][i] <= last BY <2>1 DEF CallerIsSound
    <3>3. QED BY <1>6, <3>1, <3>2
  <2>4. \A i \in HeldBy(c)' : \E k \in DOMAIN Path(c)' : Path(c)'[k] = i BY <2>1, <2>2 DEF CallerIsSound
  <2>5. counted'[c] \subseteq HeldBy(c)' BY <2>2
  <2>6. pc'[c] = "idle" => HeldBy(c)' = {} BY <1>3, <1>4, <2>2
  <2>7. pc'[c] \in {"idle", "next", "connected", "held"} => counted'[c] = {} BY <1>4, <2>5, <2>6
  <2>8. pc'[c] \in {"drop", "cut"} => at'[c] \in HeldBy(c)' BY <1>4, <1>5, <2>2
  <2>9. QED BY <1>4, <2>3, <2>4, <2>5, <2>6, <2>7, <2>8 DEF CallerIsSound
<1>8. ConnectionIsSound(c)' /\ HolderIsSound(c)' BY <1>4 DEF ConnectionIsSound, HolderIsSound
<1>9. rolling' \subseteq Callers BY <1>1 DEF ReleaseNext
<1>10. QED BY <1>4, <1>5, <1>6, <1>7, <1>8, <1>9

-----------------------------------------------------------------------------
(* Steps that no caller takes and that disconnect nothing. *)

LEMMA RouteUpdates ==
    ASSUME TypeOK, NEW i \in Ids, NEW r \in Route \cup {NoRoute}, route' = [route EXCEPT ![i] = r]
    PROVE  /\ route' \in [Ids -> Route \cup {NoRoute}] /\ route'[i] = r
           /\ \A j \in Ids \ {i} : route'[j] = route[j]
BY DEF TypeOK

LEMMA QuietStep ==
    ASSUME ManagerInv, TypeOK', UNCHANGED <<master, last, want, held, counted, got>>,
           \A c \in Callers : pc'[c] = pc[c] /\ at'[c] = at[c],
           \A i \in Ids : /\ route'[i].gen = route[i].gen /\ route'[i].leases = route[i].leases
                          /\ gate'[i] = gate[i] \/ gate[i] \notin Callers,
           HolderIsSound(Sweeper)', HolderIsSound(Closer)', SweepIsSound', CloseIsSound'
    PROVE  ManagerInv'
<1>1. last' >= last /\ last \in Nat BY WhoIsWho DEF ManagerInv, TypeOK
<1>2. ASSUME NEW c \in Callers PROVE CallerIsSound(c)' BY <1>1, <1>2, CallerStays
<1>3. ASSUME NEW c \in Callers PROVE ConnectionIsSound(c)'
  <2>1. pc[c] = "connected" => at[c] \in Ids BY <1>3, WhoIsWho DEF ManagerInv, HolderIsSound
  <2>2. QED BY <1>1, <1>3, <2>1, ConnectionStays
<1>4. ASSUME NEW c \in Callers PROVE HolderIsSound(c)'
  <2>1. pc[c] \in {"connected", "refused", "cut"} => at[c] \in Ids /\ gate[at[c]] = c
    BY <1>4, WhoIsWho DEF ManagerInv, HolderIsSound
  <2>2. c \in Actors BY <1>4, WhoIsWho
  <2>3. QED BY <1>4, <2>1, <2>2, HolderStays
<1>5. ASSUME NEW i \in Ids PROVE MasterIsSound(i)' BY <1>1, <1>5, MasterStays
<1>6. LeaseCountIsExact'
  <2>1. \A i \in Ids : Known(i)' => route'[i].leases = Cardinality({c \in Callers : Counts(c, i)' /\ held'[c][i] = route'[i].gen})
    <3>1. ASSUME NEW i \in Ids
          PROVE  Known(i)' => route'[i].leases = Cardinality({c \in Callers : Counts(c, i)' /\ held'[c][i] = route'[i].gen})
      <4>1. \A c \in Callers : (Counts(c, i) /\ held[c][i] = route[i].gen) <=> (Counts(c, i) /\ held[c][i] = route[i].gen)'
        BY <3>1 DEF Counts
      <4>2. QED BY <3>1, <4>1, CountStays DEF ManagerInv
    <3>2. QED BY <3>1
  <2>2. QED BY <2>1 DEF LeaseCountIsExact
<1>7. \A a \in Actors : HolderIsSound(a)' BY <1>4, WhoIsWho
<1>8. QED BY <1>2, <1>3, <1>5, <1>6, <1>7 DEF ManagerInv

LEMMA DeadlineStep ==
    ASSUME ManagerInv, NEW i \in Ids, DeadlinePasses(i)
    PROVE  ManagerInv'
<1>1. PICK r : r = [route[i] EXCEPT !.idle = "passed"] OBVIOUS
<1>2. route[i] \in Route \cup {NoRoute} /\ route[i].idle # "none" BY DEF ManagerInv, TypeOK, DeadlinePasses
<1>3. route[i] \in Route BY <1>2, Records
<1>4. r \in Route /\ r.gen = route[i].gen /\ r.leases = route[i].leases BY <1>1, <1>3 DEF Route
<1>5. route' = [route EXCEPT ![i] = r] BY <1>1 DEF DeadlinePasses
<1>6. /\ route' \in [Ids -> Route \cup {NoRoute}] /\ route'[i] = r
      /\ \A j \in Ids \ {i} : route'[j] = route[j]
  BY <1>4, <1>5, RouteUpdates DEF ManagerInv
<1>7. UNCHANGED <<master, last, gate, closed, pc, at, want, rolling, got, held, counted, targets, awaited, closeErr, failed>>
  BY DEF DeadlinePasses, callerVars, sweepVars
<1>8. fired' \subseteq Ids BY DEF DeadlinePasses, ManagerInv, TypeOK
<1>9. TypeOK' BY <1>6, <1>7, <1>8 DEF ManagerInv, TypeOK, Route, NoRoute
<1>10. \A j \in Ids : route'[j].gen = route[j].gen /\ route'[j].leases = route[j].leases BY <1>4, <1>6
<1>11. HolderIsSound(Sweeper)' /\ HolderIsSound(Closer)'
  <2>1. \A a \in {Sweeper, Closer} : pc[a] \in {"connected", "refused", "cut"} => at[a] \in Ids
    BY WhoIsWho DEF ManagerInv, HolderIsSound
  <2>2. QED BY <1>7, <1>10, <2>1, WhoIsWho, HolderStays
<1>12. SweepIsSound' BY <1>7 DEF SweepIsSound, ManagerInv
<1>13. CloseIsSound' BY <1>7, <1>9, <1>10, CloseStays
<1>14. QED BY <1>7, <1>9, <1>10, <1>11, <1>12, <1>13, QuietStep

LEMMA MasterDiesStep ==
    ASSUME ManagerInv, NEW i \in Ids, MasterDies(i)
    PROVE  ManagerInv'
<1>1. master' = Ends(i) /\ failed' = failed \ ({i} \cup Below(i)) BY DEF MasterDies
<1>2. UNCHANGED <<route, last, gate, fired, closed, pc, at, want, rolling, got, held, counted, targets, awaited, closeErr>>
  BY DEF MasterDies, callerVars, sweepVars
<1>3. TypeOK' BY <1>1, <1>2, EndsWhat DEF ManagerInv, TypeOK, Route, NoRoute
<1>4. last' >= last /\ last \in Nat BY <1>2, WhoIsWho DEF ManagerInv, TypeOK
<1>5. ASSUME NEW c \in Callers PROVE CallerIsSound(c)' BY <1>2, <1>3, <1>4, <1>5, CallerStays
<1>6. ASSUME NEW a \in Actors PROVE HolderIsSound(a)' BY <1>2, <1>6, HolderStays
<1>7. ASSUME NEW c \in Callers PROVE ConnectionIsSound(c)'
  <2>1. pc[c] = "connected" => at[c] \in Ids BY <1>7, WhoIsWho DEF ManagerInv, HolderIsSound
  <2>2. pc[c] = "connected" => /\ master'[at[c]] \in {master[at[c]], 0}
                               /\ master'[at[c]] # 0 => \A u \in Upstream(at[c]) : master'[u] = master[u]
    BY <1>1, <2>1, EndsWhat, BelowTypes
  <2>3. QED BY <1>2, <1>3, <1>4, <1>7, <2>2, ConnectionStays
<1>8. ASSUME NEW j \in Ids PROVE MasterIsSound(j)'
  <2>1. /\ master'[j] \in {master[j], 0}
        /\ master'[j] # 0 => \A u \in Ids : j \in Below(u) => master'[u] = master[u]
    BY <1>1, <1>8, EndsWhat
  <2>2. QED BY <1>2, <1>3, <1>4, <1>8, <2>1, MasterStays
<1>9. LeaseCountIsExact' BY <1>2 DEF LeaseCountIsExact, ManagerInv, Counts, Known
<1>10. SweepIsSound'
  <2>1. pc[Sweeper] = "cut" => at[Sweeper] \in Ids BY WhoIsWho DEF ManagerInv, HolderIsSound
  <2>2. QED BY <1>1, <1>2, <2>1, EndsWhat, BelowTypes DEF SweepIsSound, ManagerInv
<1>11. CloseIsSound'
  <2>1. \A j \in Ids : master'[j] # 0 => master[j] # 0 /\ (j \in failed => j \in failed')
    BY <1>1, EndsWhat
  <2>2. QED BY <1>2, <1>3, <2>1, CloseStays
<1>12. QED BY <1>3, <1>5, <1>6, <1>7, <1>8, <1>9, <1>10, <1>11 DEF ManagerInv

-----------------------------------------------------------------------------
(* The sweep. *)

LEMMA SweepStarts ==
    ASSUME ManagerInv, NEW i \in Ids, Sweep(i)
    PROVE  ManagerInv'
<1> DEFINE idle == {<<j, route[j].gen>> : j \in {k \in Ids : Known(k) /\ Idle(k, route[k].gen)}}
<1>1. /\ pc[Sweeper] = "idle" /\ fired' = fired \ {i} /\ targets' = [targets EXCEPT ![Sweeper] = idle]
      /\ Goes(Sweeper, IF idle = {} THEN "idle" ELSE "list")
      /\ UNCHANGED <<route, master, last, gate, closed, at, want, rolling, got, held, counted, awaited, closeErr, failed>>
  BY DEF Sweep, callerVars
<1>2. idle \subseteq Ids \X (1..MaxGen)
  <2>1. ASSUME NEW j \in Ids, Known(j) PROVE route[j].gen \in 1..MaxGen
    <3>1. route[j] \in Route \cup {NoRoute} BY DEF ManagerInv, TypeOK
    <3>2. route[j] \in Route BY <2>1, <3>1 DEF Known
    <3>3. QED BY <3>2 DEF Route
  <2>2. QED BY <2>1
<1>3. /\ pc' \in [Actors -> Referencing \cup {"idle", "next", "held", "again", "abandoned", "list", "done"}]
      /\ pc'[Sweeper] \in {"idle", "list"} /\ \A a \in Actors \ {Sweeper} : pc'[a] = pc[a]
  <2>1. \E l \in {"idle", "list"} : pc' = [pc EXCEPT ![Sweeper] = l] BY <1>1 DEF Goes
  <2>2. QED BY <2>1, WhoIsWho DEF ManagerInv, TypeOK, Referencing
<1>4. targets' \in [{Sweeper, Closer} -> SUBSET (Ids \X (1..MaxGen))] /\ targets'[Closer] = targets[Closer]
  BY <1>1, <1>2, WhoIsWho DEF ManagerInv, TypeOK
<1>5. TypeOK' BY <1>1, <1>3, <1>4 DEF ManagerInv, TypeOK, Route, NoRoute
<1>6. HolderIsSound(Sweeper)' BY <1>3 DEF HolderIsSound
<1>7. HolderIsSound(Closer)' BY <1>1, <1>3, WhoIsWho, HolderStays
<1>8. SweepIsSound' BY <1>3 DEF SweepIsSound
<1>9. \A c \in Callers : pc'[c] = pc[c] BY <1>3, WhoIsWho
<1>10. CloseIsSound' BY <1>1, <1>3, <1>4, <1>5, <1>9, WhoIsWho, CloseStays
<1>11. QED BY <1>1, <1>5, <1>6, <1>7, <1>8, <1>9, <1>10, QuietStep

\* The sweep turns to a hop that is idle still and that no route goes through.
LEMMA NothingBelow ==
    ASSUME ManagerInv, NEW i \in Ids, route[i].leases = 0, ~Transported(i), NEW j \in Below(i)
    PROVE  master[j] = 0
<1>1. SUFFICES ASSUME master[j] # 0 PROVE FALSE OBVIOUS
<1>2. j \in Ids BY BelowTypes
<1>3. MasterIsSound(j) BY <1>2 DEF ManagerInv
<1>4. PICK d \in Ids : i \in Upstream(d) /\ (d = j \/ j \in Below(d)) BY Between
<1>5. ~Known(d) BY <1>4 DEF Transported
<1>6. d = j BY <1>1, <1>3, <1>4, <1>5 DEF MasterIsSound
<1>7. PICK c \in Callers : pc[c] = "connected" /\ at[c] = j BY <1>1, <1>3, <1>5, <1>6 DEF MasterIsSound
<1>8. held[c][i] = master[i] BY <1>1, <1>4, <1>5, <1>6, <1>7 DEF ManagerInv, ConnectionIsSound
<1>9. master[i] # 0 BY <1>1, <1>3 DEF MasterIsSound
<1>10. i \in counted[c] BY <1>8, <1>9, NoLease
<1>11. QED BY <1>7, <1>10 DEF ManagerInv, CallerIsSound

LEMMA SweepGoesOn ==
    ASSUME ManagerInv, NEW i \in Ids, DisconnectIdle(i)
    PROVE  ManagerInv'
<1>1. /\ pc[Sweeper] = "list" /\ gate[i] = Nobody /\ Untarget(Sweeper, i)
      /\ UNCHANGED <<master, last, fired, closed, want, rolling, got, held, counted, awaited, closeErr, failed>>
  BY DEF DisconnectIdle, callerVars
<1>2. targets' \in [{Sweeper, Closer} -> SUBSET (Ids \X (1..MaxGen))] /\ targets'[Closer] = targets[Closer]
  <2>1. targets \in [{Sweeper, Closer} -> SUBSET (Ids \X (1..MaxGen))] BY DEF ManagerInv, TypeOK
  <2>2. targets' = [targets EXCEPT ![Sweeper] = {t \in targets[Sweeper] : t[1] # i}] BY <1>1 DEF Untarget
  <2>3. {t \in targets[Sweeper] : t[1] # i} \subseteq Ids \X (1..MaxGen) BY <2>1
  <2>4. QED BY <2>1, <2>2, <2>3, WhoIsWho
<1>3. CASE UNCHANGED <<route, gate, at>> /\ \E l \in {"idle", "list"} : Goes(Sweeper, l)
  <2>1. /\ pc' \in [Actors -> Referencing \cup {"idle", "next", "held", "again", "abandoned", "list", "done"}]
        /\ pc'[Sweeper] \in {"idle", "list"} /\ \A a \in Actors \ {Sweeper} : pc'[a] = pc[a]
    BY <1>3, WhoIsWho DEF ManagerInv, TypeOK, Referencing, Goes
  <2>0. /\ route' \in [Ids -> Route \cup {NoRoute}] /\ gate' \in [Ids -> Actors \cup {Nobody}]
        /\ at' \in [Actors -> Ids \cup {Nobody}]
    BY <1>3 DEF ManagerInv, TypeOK
  <2>2. TypeOK' BY <1>1, <1>2, <2>0, <2>1 DEF ManagerInv, TypeOK, Route, NoRoute
  <2>3. HolderIsSound(Sweeper)' BY <2>1 DEF HolderIsSound
  <2>4. HolderIsSound(Closer)' BY <1>3, <2>1, WhoIsWho, HolderStays
  <2>5. SweepIsSound' BY <2>1 DEF SweepIsSound
  <2>6. \A c \in Callers : pc'[c] = pc[c] BY <2>1, WhoIsWho
  <2>7. CloseIsSound' BY <1>1, <1>2, <1>3, <2>1, <2>2, <2>6, WhoIsWho, CloseStays
  <2>8. QED BY <1>1, <1>3, <2>2, <2>3, <2>4, <2>5, <2>6, <2>7, QuietStep
<1>4. CASE /\ StillIdle(i) /\ ~Transported(i)
           /\ route' = [route EXCEPT ![i] = StopBeat(NotIdle(route[i]))]
           /\ gate' = [gate EXCEPT ![i] = Sweeper] /\ TurnsTo(Sweeper, i)
  <2>1. PICK r \in Route \cup {NoRoute} :
           r = StopBeat(NotIdle(route[i])) /\ r.gen = route[i].gen /\ r.leases = route[i].leases
    <3>1. route[i] \in Route \cup {NoRoute} BY DEF ManagerInv, TypeOK
    <3>2. QED BY <3>1, Rested
  <2>2. /\ route' \in [Ids -> Route \cup {NoRoute}]
        /\ \A j \in Ids : route'[j].gen = route[j].gen /\ route'[j].leases = route[j].leases
    BY <1>4, <2>1, RouteUpdates DEF ManagerInv
  <2>3. /\ pc' \in [Actors -> Referencing \cup {"idle", "next", "held", "again", "abandoned", "list", "done"}]
        /\ at' \in [Actors -> Ids \cup {Nobody}] /\ gate' \in [Ids -> Actors \cup {Nobody}]
        /\ pc'[Sweeper] = "cut" /\ at'[Sweeper] = i /\ gate'[i] = Sweeper
        /\ \A a \in Actors \ {Sweeper} : pc'[a] = pc[a] /\ at'[a] = at[a]
        /\ \A j \in Ids \ {i} : gate'[j] = gate[j]
    BY <1>4, WhoIsWho DEF ManagerInv, TypeOK, Referencing, TurnsTo, Goes
  <2>4. TypeOK' BY <1>1, <1>2, <2>2, <2>3 DEF ManagerInv, TypeOK, Route, NoRoute
  <2>5. route[i].leases = 0 BY <1>4 DEF StillIdle, Idle
  <2>6. HolderIsSound(Sweeper)' BY <2>2, <2>3, <2>5, WhoIsWho DEF HolderIsSound
  <2>7. HolderIsSound(Closer)'
    <3>1. pc[Closer] \in {"connected", "refused", "cut"} => at[Closer] \in Ids /\ at[Closer] # i
      BY <1>1, WhoIsWho DEF ManagerInv, HolderIsSound
    <3>2. QED BY <2>2, <2>3, <3>1, WhoIsWho, HolderStays
  <2>8. SweepIsSound' BY <1>1, <1>4, <2>3, <2>5, NothingBelow DEF SweepIsSound
  <2>9. \A c \in Callers : pc'[c] = pc[c] /\ at'[c] = at[c] BY <2>3, WhoIsWho
  <2>10. CloseIsSound' BY <1>1, <1>2, <2>2, <2>3, <2>4, <2>9, WhoIsWho, CloseStays
  <2>11. \A j \in Ids : gate'[j] = gate[j] \/ gate[j] \notin Callers BY <1>1, <2>3, WhoIsWho
  <2>12. QED BY <1>1, <2>2, <2>4, <2>6, <2>7, <2>8, <2>9, <2>10, <2>11, QuietStep
<1>5. QED BY <1>3, <1>4 DEF DisconnectIdle

-----------------------------------------------------------------------------
(* Close. *)

LEMMA CloseStarts == ASSUME ManagerInv, Close PROVE ManagerInv'
<1>1. /\ pc[Closer] = "idle" /\ closed' = TRUE /\ closeErr' = FALSE
      /\ UNCHANGED <<master, last, gate, fired, at, want, rolling, got, held, counted, failed>>
  BY DEF Close, callerVars
<1>2. \A i \in Ids : route[i] \in Route \cup {NoRoute} BY DEF ManagerInv, TypeOK
<1>3. /\ route' \in [Ids -> Route \cup {NoRoute}]
      /\ \A i \in Ids : route'[i].gen = route[i].gen /\ route'[i].leases = route[i].leases
  <2>1. CASE route' = route BY <2>1 DEF ManagerInv, TypeOK
  <2>2. CASE route' = [i \in Ids |-> IF Known(i) THEN StopBeat(NotIdle(route[i])) ELSE NoRoute]
    <3>1. ASSUME NEW i \in Ids
          PROVE  /\ route'[i] \in Route \cup {NoRoute}
                 /\ route'[i].gen = route[i].gen /\ route'[i].leases = route[i].leases
      <4>1. CASE Known(i) BY <1>2, <2>2, <3>1, <4>1, Rested
      <4>2. CASE ~Known(i)
        <5>1. route'[i] = NoRoute /\ route[i] = NoRoute BY <2>2, <3>1, <4>2 DEF Known
        <5>2. QED BY <5>1
      <4>3. QED BY <4>1, <4>2
    <3>2. QED BY <2>2, <3>1
  <2>3. QED BY <2>1, <2>2 DEF Close
<1>4. PICK l \in {"list", "done"} : Goes(Closer, l) BY DEF Close
<1>5. /\ pc' \in [Actors -> Referencing \cup {"idle", "next", "held", "again", "abandoned", "list", "done"}]
      /\ pc'[Closer] = l /\ \A a \in Actors \ {Closer} : pc'[a] = pc[a]
  BY <1>4, WhoIsWho DEF ManagerInv, TypeOK, Referencing, Goes
<1>6. /\ targets' \in [{Sweeper, Closer} -> SUBSET (Ids \X (1..MaxGen))] /\ awaited' \subseteq Ids
  <2>1. CASE UNCHANGED <<targets, awaited>> BY <2>1 DEF ManagerInv, TypeOK
  <2>2. CASE /\ targets' = [targets EXCEPT ![Closer] = {<<i, route[i].gen>> : i \in {j \in Ids : Known(j)}}]
             /\ awaited' = Operating
    <3>1. ASSUME NEW i \in Ids, Known(i) PROVE route[i].gen \in 1..MaxGen
      <4>1. route[i] \in Route BY <1>2, <3>1 DEF Known
      <4>2. QED BY <4>1 DEF Route
    <3>2. {<<i, route[i].gen>> : i \in {j \in Ids : Known(j)}} \subseteq Ids \X (1..MaxGen) BY <3>1
    <3>3. Operating \subseteq Ids
      <4>1. ASSUME NEW a \in Actors, pc[a] \in Referencing PROVE at[a] \in Ids
        <5>1. CASE pc[a] = "drop"
          <6>1. a \in Callers BY <4>1, <5>1, WhoIsWho DEF ManagerInv, SweepIsSound, CloseIsSound
          <6>2. QED BY <5>1, <6>1 DEF ManagerInv, CallerIsSound, HeldBy
        <5>2. CASE pc[a] # "drop" BY <4>1, <5>2 DEF Referencing, ManagerInv, HolderIsSound
        <5>3. QED BY <5>1, <5>2
      <4>2. QED BY <4>1 DEF Operating, Referenced
    <3>4. QED BY <2>2, <3>2, <3>3 DEF ManagerInv, TypeOK
  <2>3. QED BY <2>1, <2>2 DEF Close
<1>7. TypeOK' BY <1>1, <1>3, <1>5, <1>6 DEF ManagerInv, TypeOK, Route, NoRoute
<1>8. HolderIsSound(Closer)' BY <1>5 DEF HolderIsSound
<1>9. HolderIsSound(Sweeper)'
  <2>1. pc[Sweeper] \in {"connected", "refused", "cut"} => at[Sweeper] \in Ids BY WhoIsWho DEF ManagerInv, HolderIsSound
  <2>2. QED BY <1>1, <1>3, <1>5, <2>1, WhoIsWho, HolderStays
<1>10. SweepIsSound' BY <1>1, <1>5, WhoIsWho DEF SweepIsSound, ManagerInv
<1>11. \A c \in Callers : pc'[c] = pc[c] /\ at'[c] = at[c] BY <1>1, <1>5, WhoIsWho
<1>12. ASSUME NEW i \in Ids, master[i] # 0
       PROVE  Known(i) \/ \E c \in Callers : pc[c] = "connected" /\ at[c] = i /\ i \in Referenced
  BY <1>12, WhoIsWho DEF ManagerInv, MasterIsSound, Referenced, Referencing
<1>13. CASE /\ \A i \in Ids : ~Known(i)
            /\ Referenced = {} /\ l = "done"
  <2>1. \A c \in Callers : pc[c] \notin {"connected", "refused"} BY <1>13, WhoIsWho DEF Referenced, Referencing
  <2>2. \A i \in Ids : master[i] = 0 BY <1>12, <1>13
  <2>3. CloseIsSound' BY <1>1, <1>5, <1>11, <1>13, <2>1, <2>2 DEF CloseIsSound, CloseLeavesNothing
  <2>4. QED BY <1>1, <1>3, <1>7, <1>8, <1>9, <1>10, <1>11, <2>3, QuietStep
<1>14. CASE /\ targets' = [targets EXCEPT ![Closer] = {<<i, route[i].gen>> : i \in {j \in Ids : Known(j)}}]
            /\ awaited' = Operating /\ l = "list"
  <2>1. ToVisit' = {i \in Ids : Known(i)}
    <3>1. targets'[Closer] = {<<i, route[i].gen>> : i \in {j \in Ids : Known(j)}}
      BY <1>14 DEF ManagerInv, TypeOK
    <3>2. ASSUME NEW i \in Ids, Known(i) PROVE i \in ToVisit'
      <4>1. <<i, route[i].gen>> \in targets'[Closer] /\ <<i, route[i].gen>>[1] = i BY <3>1, <3>2
      <4>2. QED BY <4>1 DEF ToVisit
    <3>3. \A t \in targets'[Closer] : t[1] \in {i \in Ids : Known(i)} BY <3>1
    <3>4. QED BY <3>2, <3>3 DEF ToVisit
  <2>2. \A c \in Callers : pc'[c] \in {"connected", "refused"} => at'[c] \in ToVisit' \cup awaited'
    <3>1. \A c \in Callers : pc[c] \in {"connected", "refused"} => at[c] \in Ids /\ at[c] \in Referenced
      BY WhoIsWho DEF ManagerInv, HolderIsSound, Referenced, Referencing
    <3>2. QED BY <1>11, <1>14, <2>1, <3>1 DEF Operating
  <2>3. \A i \in Ids : master'[i] # 0 => i \in ToVisit' \cup awaited'
    BY <1>1, <1>12, <1>14, <2>1 DEF Operating
  <2>4. ASSUME NEW i \in awaited' \ failed', master'[i] # 0
        PROVE  \E c \in Callers : at'[c] = i /\ (pc'[c] = "refused" \/ (pc'[c] = "connected" /\ ~Known(i)'))
    <3>1. i \in Ids /\ ~Known(i) /\ master[i] # 0 BY <1>1, <1>6, <1>14, <2>4 DEF Operating
    <3>2. PICK c \in Callers : pc[c] = "connected" /\ at[c] = i BY <1>12, <3>1
    <3>3. ~Known(i)' BY <1>3, <1>7, <3>1, KnownIs DEF ManagerInv
    <3>4. QED BY <1>11, <3>2, <3>3
  <2>5. CloseLeavesNothing' BY <1>5, <1>14 DEF CloseLeavesNothing
  <2>6. CloseIsSound' BY <1>1, <1>5, <1>14, <2>2, <2>3, <2>4, <2>5 DEF CloseIsSound
  <2>7. QED BY <1>1, <1>3, <1>7, <1>8, <1>9, <1>10, <1>11, <2>6, QuietStep
<1>15. l = "done" \/ l = "list" OBVIOUS
<1>16. QED
  <2>1. \A m, n : Goes(Closer, m) /\ Goes(Closer, n) => m = n
    <3>1. \A m : Goes(Closer, m) => pc'[Closer] = m BY WhoIsWho DEF Goes, ManagerInv, TypeOK
    <3>2. QED BY <3>1
  <2>2. QED BY <1>4, <1>13, <1>14, <2>1 DEF Close

LEMMA Untargets ==
    ASSUME ManagerInv, NEW i \in Ids, Untarget(Closer, i)
    PROVE  /\ targets' \in [{Sweeper, Closer} -> SUBSET (Ids \X (1..MaxGen))]
           /\ ToVisit' = ToVisit \ {i}
<1>1. targets \in [{Sweeper, Closer} -> SUBSET (Ids \X (1..MaxGen))] BY DEF ManagerInv, TypeOK
<1>2. targets' = [targets EXCEPT ![Closer] = {t \in targets[Closer] : t[1] # i}] BY DEF Untarget
<1>3. {t \in targets[Closer] : t[1] # i} \subseteq Ids \X (1..MaxGen) BY <1>1
<1>4. targets' \in [{Sweeper, Closer} -> SUBSET (Ids \X (1..MaxGen))] BY <1>1, <1>2, <1>3, WhoIsWho
<1>5. targets'[Closer] = {t \in targets[Closer] : t[1] # i} BY <1>1, <1>2
<1>6. QED BY <1>4, <1>5 DEF ToVisit

\* Whoever connects, or refuses a connection, holds the gate.
LEMMA GateIsFree ==
    ASSUME ManagerInv, NEW i \in Ids, gate[i] = Nobody, NEW c \in Callers, pc[c] \in {"connected", "refused"}
    PROVE  at[c] # i
BY WhoIsWho DEF ManagerInv, HolderIsSound

LEMMA CloseGoesOn ==
    ASSUME ManagerInv, NEW i \in Ids, CloseRoute(i)
    PROVE  ManagerInv'
<1>1. /\ pc[Closer] = "list" /\ gate[i] = Nobody /\ Untarget(Closer, i)
      /\ UNCHANGED <<master, last, fired, closed, want, rolling, got, held, counted, awaited, closeErr, failed>>
  BY DEF CloseRoute, callerVars
<1>2. CloseIsSound /\ closed BY <1>1 DEF ManagerInv, CloseIsSound
<1>3. CASE ~Known(i) /\ UNCHANGED <<route, gate, pc, at>>
  <2>1. TypeOK' BY <1>1, <1>3, Untargets DEF ManagerInv, TypeOK, Route, NoRoute
  <2>2. HolderIsSound(Sweeper)' /\ HolderIsSound(Closer)' BY <1>3, WhoIsWho DEF HolderIsSound, ManagerInv
  <2>3. SweepIsSound' BY <1>1, <1>3 DEF SweepIsSound, ManagerInv
  <2>4. master[i] = 0 BY <1>1, <1>3, GateIsFree DEF ManagerInv, MasterIsSound
  <2>5. CloseIsSound'
    <3>1. \A c \in Callers : pc'[c] \in {"connected", "refused"} => at'[c] \in ToVisit' \cup awaited'
      BY <1>1, <1>2, <1>3, GateIsFree, Untargets DEF CloseIsSound
    <3>2. \A j \in Ids : master'[j] # 0 =>
             j \in failed' \cup ToVisit' \cup awaited' \/ (pc'[Closer] = "cut" /\ at'[Closer] = j)
      BY <1>1, <1>2, <1>3, <2>4, Untargets DEF CloseIsSound
    <3>3. \A j \in awaited' \ failed' : master'[j] # 0 =>
             \E c \in Callers : at'[c] = j /\ (pc'[c] = "refused" \/ (pc'[c] = "connected" /\ ~Known(j)'))
      BY <1>1, <1>2, <1>3 DEF CloseIsSound, Known
    <3>4. QED BY <1>1, <1>2, <1>3, <3>1, <3>2, <3>3 DEF CloseIsSound, CloseLeavesNothing
  <2>6. QED BY <1>1, <1>3, <2>1, <2>2, <2>3, <2>5, QuietStep
<1>4. CASE /\ Known(i)
           /\ route' = [route EXCEPT ![i] = StopBeat(StopTimer(route[i]))]
           /\ gate' = [gate EXCEPT ![i] = Closer] /\ TurnsTo(Closer, i)
  <2>1. PICK r \in Route \cup {NoRoute} :
           r = StopBeat(StopTimer(route[i])) /\ r.gen = route[i].gen /\ r.leases = route[i].leases
    <3>1. route[i] \in Route \cup {NoRoute} BY DEF ManagerInv, TypeOK
    <3>2. QED BY <3>1, Rested
  <2>2. /\ route' \in [Ids -> Route \cup {NoRoute}]
        /\ \A j \in Ids : route'[j].gen = route[j].gen /\ route'[j].leases = route[j].leases
    BY <1>4, <2>1, RouteUpdates DEF ManagerInv
  <2>3. /\ pc' \in [Actors -> Referencing \cup {"idle", "next", "held", "again", "abandoned", "list", "done"}]
        /\ at' \in [Actors -> Ids \cup {Nobody}] /\ gate' \in [Ids -> Actors \cup {Nobody}]
        /\ pc'[Closer] = "cut" /\ at'[Closer] = i /\ gate'[i] = Closer
        /\ \A a \in Actors \ {Closer} : pc'[a] = pc[a] /\ at'[a] = at[a]
        /\ \A j \in Ids \ {i} : gate'[j] = gate[j]
    BY <1>4, WhoIsWho DEF ManagerInv, TypeOK, Referencing, TurnsTo, Goes
  <2>4. TypeOK' BY <1>1, <2>2, <2>3, Untargets DEF ManagerInv, TypeOK, Route, NoRoute
  <2>5. HolderIsSound(Closer)' BY <2>3 DEF HolderIsSound
  <2>6. HolderIsSound(Sweeper)'
    <3>1. pc[Sweeper] \in {"connected", "refused", "cut"} => at[Sweeper] \in Ids /\ at[Sweeper] # i
      BY <1>1, WhoIsWho DEF ManagerInv, HolderIsSound
    <3>2. QED BY <2>2, <2>3, <3>1, WhoIsWho, HolderStays
  <2>7. SweepIsSound' BY <1>1, <2>3, WhoIsWho DEF SweepIsSound, ManagerInv
  <2>8. \A c \in Callers : pc'[c] = pc[c] /\ at'[c] = at[c] BY <2>3, WhoIsWho
  <2>9. CloseIsSound'
    <3>1. \A c \in Callers : pc'[c] \in {"connected", "refused"} => at'[c] \in ToVisit' \cup awaited'
      BY <1>1, <1>2, <2>8, GateIsFree, Untargets DEF CloseIsSound
    <3>2. \A j \in Ids : master'[j] # 0 =>
             j \in failed' \cup ToVisit' \cup awaited' \/ (pc'[Closer] = "cut" /\ at'[Closer] = j)
      BY <1>1, <1>2, <2>3, Untargets DEF CloseIsSound
    <3>3. ASSUME NEW j \in awaited' \ failed', master'[j] # 0
          PROVE  \E c \in Callers : at'[c] = j /\ (pc'[c] = "refused" \/ (pc'[c] = "connected" /\ ~Known(j)'))
      <4>1. j \in Ids /\ j \in awaited \ failed /\ master[j] # 0 BY <1>1, <3>3 DEF ManagerInv, TypeOK
      <4>2. PICK c \in Callers : at[c] = j /\ (pc[c] = "refused" \/ (pc[c] = "connected" /\ ~Known(j)))
        BY <1>1, <1>2, <4>1 DEF CloseIsSound
      <4>3. Known(j)' <=> Known(j) BY <2>2, <2>4, <4>1, KnownIs DEF ManagerInv
      <4>4. QED BY <2>8, <4>2, <4>3
    <3>4. QED BY <1>1, <1>2, <2>3, <3>1, <3>2, <3>3 DEF CloseIsSound, CloseLeavesNothing
  <2>10. \A j \in Ids : gate'[j] = gate[j] \/ gate[j] \notin Callers BY <1>1, <2>3, WhoIsWho
  <2>11. QED BY <1>1, <2>2, <2>4, <2>5, <2>6, <2>7, <2>8, <2>9, <2>10, QuietStep
<1>5. QED BY <1>3, <1>4 DEF CloseRoute

LEMMA CloseEnds ==
    ASSUME ManagerInv, CloseExpires \/ (\E i \in Ids : AwaitOperation(i)) \/ CloseReturns
    PROVE  ManagerInv'
<1>1. UNCHANGED <<route, master, last, fired, closed, want, rolling, got, held, counted, failed>>
  BY DEF CloseExpires, AwaitOperation, CloseReturns, callerVars, managerVars
<1>2. CloseIsSound /\ pc[Closer] \in {"list", "cut"} /\ closed
  BY DEF ManagerInv, CloseIsSound, CloseExpires, AwaitOperation, CloseReturns
<1>3. /\ pc' \in [Actors -> Referencing \cup {"idle", "next", "held", "again", "abandoned", "list", "done"}]
      /\ at' \in [Actors -> Ids \cup {Nobody}]
      /\ pc'[Closer] \in {"idle", "list", "done"}
      /\ \A a \in Actors \ {Closer} : pc'[a] = pc[a] /\ at'[a] = at[a]
  BY <1>2, WhoIsWho DEF ManagerInv, TypeOK, Referencing, Goes, Rests, CloseExpires, AwaitOperation, CloseReturns
<1>4. /\ gate' \in [Ids -> Actors \cup {Nobody}] /\ \A j \in Ids : gate'[j] = gate[j] \/ gate[j] = Closer
  <2>1. pc[Closer] = "cut" => at[Closer] \in Ids /\ gate[at[Closer]] = Closer BY WhoIsWho DEF ManagerInv, HolderIsSound
  <2>2. gate' = gate \/ (pc[Closer] = "cut" /\ gate' = [gate EXCEPT ![at[Closer]] = Nobody])
    BY DEF CloseExpires, AwaitOperation, CloseReturns, managerVars
  <2>3. QED BY <2>1, <2>2 DEF ManagerInv, TypeOK
<1>5. /\ targets' \in [{Sweeper, Closer} -> SUBSET (Ids \X (1..MaxGen))] /\ awaited' \subseteq Ids /\ closeErr' \in BOOLEAN
  BY WhoIsWho DEF ManagerInv, TypeOK, CloseExpires, AwaitOperation, CloseReturns
<1>6. TypeOK' BY <1>1, <1>3, <1>4, <1>5 DEF ManagerInv, TypeOK, Route, NoRoute
<1>7. HolderIsSound(Closer)' BY <1>3 DEF HolderIsSound
<1>8. HolderIsSound(Sweeper)'
  <2>1. pc[Sweeper] \in {"connected", "refused", "cut"} => gate'[at[Sweeper]] = gate[at[Sweeper]]
    BY <1>4, WhoIsWho DEF ManagerInv, HolderIsSound
  <2>2. QED BY <1>1, <1>3, <2>1, WhoIsWho, HolderStays
<1>9. SweepIsSound' BY <1>1, <1>3, WhoIsWho DEF SweepIsSound, ManagerInv
<1>10. \A c \in Callers : pc'[c] = pc[c] /\ at'[c] = at[c] BY <1>3, WhoIsWho
<1>11. CloseIsSound'
  <2>1. CASE CloseExpires
    <3>1. pc'[Closer] = "idle" BY <2>1, WhoIsWho DEF CloseExpires, Goes, ManagerInv, TypeOK
    <3>2. QED BY <3>1 DEF CloseIsSound, CloseLeavesNothing
  <2>2. ASSUME NEW i \in Ids, AwaitOperation(i) PROVE CloseIsSound'
    <3>1. /\ pc[Closer] = "list" /\ i \in awaited /\ gate[i] = Nobody /\ awaited' = awaited \ {i}
          /\ UNCHANGED <<pc, at, targets>>
      BY <2>2 DEF AwaitOperation
    <3>2. ToVisit' = ToVisit BY <3>1 DEF ToVisit
    <3>3. i \in failed \/ master[i] = 0 BY <1>2, <3>1, GateIsFree DEF CloseIsSound
    <3>4. \A c \in Callers : pc'[c] \in {"connected", "refused"} => at'[c] \in ToVisit' \cup awaited'
      BY <1>2, <3>1, <3>2, GateIsFree DEF CloseIsSound
    <3>5. \A j \in Ids : master'[j] # 0 =>
             j \in failed' \cup ToVisit' \cup awaited' \/ (pc'[Closer] = "cut" /\ at'[Closer] = j)
      BY <1>1, <1>2, <3>1, <3>2, <3>3 DEF CloseIsSound
    <3>6. \A j \in awaited' \ failed' : master'[j] # 0 =>
             \E c \in Callers : at'[c] = j /\ (pc'[c] = "refused" \/ (pc'[c] = "connected" /\ ~Known(j)'))
      BY <1>1, <1>2, <3>1 DEF CloseIsSound, Known
    <3>7. QED BY <1>1, <1>2, <3>1, <3>4, <3>5, <3>6 DEF CloseIsSound, CloseLeavesNothing
  <2>3. CASE CloseReturns
    <3>1. pc[Closer] = "list" /\ ToVisit = {} /\ awaited = {} BY <2>3 DEF CloseReturns, ToVisit
    <3>2. \A c \in Callers : pc[c] \notin {"connected", "refused"} BY <1>2, <3>1 DEF CloseIsSound
    <3>3. \A j \in Ids : master[j] # 0 => j \in failed BY <1>2, <3>1 DEF CloseIsSound
    <3>4. pc'[Closer] \in {"idle", "done"} BY <2>3, WhoIsWho DEF CloseReturns, Goes, ManagerInv, TypeOK
    <3>5. QED BY <1>1, <1>2, <1>10, <3>2, <3>3, <3>4 DEF CloseIsSound, CloseLeavesNothing
  <2>4. QED BY <2>1, <2>2, <2>3
<1>12. QED BY <1>1, <1>4, <1>6, <1>7, <1>8, <1>9, <1>10, <1>11, WhoIsWho, QuietStep

-----------------------------------------------------------------------------
(* A caller's steps. *)

LEMMA CallerGoesOn ==
    ASSUME ManagerInv, TypeOK', NEW c \in Callers, last' >= last,
           \A a \in Actors \ {c} : pc'[a] = pc[a] /\ at'[a] = at[a],
           \A d \in Callers \ {c} :
              want'[d] = want[d] /\ held'[d] = held[d] /\ counted'[d] = counted[d] /\ got'[d] = got[d],
           \A i \in Ids : gate[i] \notin {c, Nobody} =>
              /\ gate'[i] = gate[i] /\ route'[i].gen = route[i].gen /\ route'[i].leases = route[i].leases
              /\ held'[c][i] \in {held[c][i], 0}
              /\ master'[i] \in {master[i], 0}
              /\ master'[i] # 0 => \A u \in Upstream(i) : master'[u] = master[u],
           CallerIsSound(c)', ConnectionIsSound(c)', HolderIsSound(c)',
           LeaseCountIsExact', \A i \in Ids : MasterIsSound(i)', SweepIsSound', CloseIsSound'
    PROVE  ManagerInv'
<1>1. c \in Actors BY WhoIsWho
<1>2. /\ \A d \in Callers \ {c} : CallerIsSound(d)' /\ ConnectionIsSound(d)'
      /\ \A a \in Actors \ {c} : HolderIsSound(a)'
  BY <1>1, OthersStay
<1>3. QED BY <1>2 DEF ManagerInv

\* Nothing of a route changes.
LEMMA SameCount ==
    ASSUME ManagerInv, UNCHANGED <<route, held, counted>>
    PROVE  LeaseCountIsExact'
BY DEF ManagerInv, LeaseCountIsExact, Counts, Known

LEMMA SameSweep ==
    ASSUME ManagerInv, pc'[Sweeper] = pc[Sweeper], at'[Sweeper] = at[Sweeper],
           pc[Sweeper] = "cut" => \A j \in Below(at[Sweeper]) : master'[j] \in {master[j], 0}
    PROVE  SweepIsSound'
BY DEF ManagerInv, SweepIsSound

\* The caller turns to what it has to release; no lease goes.
LEMMA KeepsNext ==
    ASSUME ManagerInv, NEW c \in Callers, NEW left \in SUBSET HeldBy(c), NEW rolls \in SUBSET Callers,
           ReleaseNext(c, left, held[c], rolls), UNCHANGED <<want, last, counted>>
    PROVE  /\ pc' \in [Actors -> Referencing \cup {"idle", "next", "held", "again", "abandoned", "list", "done"}]
           /\ at' \in [Actors -> Ids \cup {Nobody}] /\ rolling' \subseteq Callers
           /\ held \in [Callers -> [Ids -> 0..MaxGen]] /\ held' = held
           /\ \A a \in Actors \ {c} : pc'[a] = pc[a] /\ at'[a] = at[a]
           /\ pc'[c] \in {"drop", "idle", "abandoned", "again"}
           /\ CallerIsSound(c)' /\ ConnectionIsSound(c)' /\ HolderIsSound(c)'
<1>1. held \in [Callers -> [Ids -> 0..MaxGen]] /\ held[c] \in [Ids -> 0..MaxGen] /\ held' = held
  BY DEF ManagerInv, TypeOK, ReleaseNext
<1>2. left \in SUBSET Ids /\ \A i \in left : held[c][i] # 0 BY DEF HeldBy
<1>3. \A i \in counted'[c] : i \in Ids /\ held[c][i] # 0 BY DEF ManagerInv, CallerIsSound, HeldBy
<1>4. ReleasesWhat(c, left, held[c], rolls) BY <1>1, <1>2, <1>3 DEF ReleasesWhat
<1>5. QED BY <1>1, <1>4, ReleasesNext

LEMMA TurnsToRelease ==
    ASSUME ManagerInv, NEW c \in Callers, NEW left \in SUBSET HeldBy(c), NEW rolls \in SUBSET Callers,
           ReleaseNext(c, left, held[c], rolls),
           UNCHANGED <<route, master, last, fired, closed, want, counted, targets, awaited, closeErr, failed>>,
           got' \in [Callers -> 0..MaxGen], \A d \in Callers \ {c} : got'[d] = got[d],
           gate' \in [Ids -> Actors \cup {Nobody}], \A i \in Ids : gate[i] # c => gate'[i] = gate[i],
           pc[c] # "refused", pc[c] = "connected" => route[at[c]].gen # 0
    PROVE  ManagerInv'
<1>1. held \in [Callers -> [Ids -> 0..MaxGen]] /\ held' = held BY KeepsNext
<1>5. /\ pc' \in [Actors -> Referencing \cup {"idle", "next", "held", "again", "abandoned", "list", "done"}]
      /\ at' \in [Actors -> Ids \cup {Nobody}] /\ rolling' \subseteq Callers
      /\ \A a \in Actors \ {c} : pc'[a] = pc[a] /\ at'[a] = at[a]
      /\ pc'[c] \in {"drop", "idle", "abandoned", "again"}
      /\ CallerIsSound(c)' /\ ConnectionIsSound(c)' /\ HolderIsSound(c)'
  BY KeepsNext
<1>6. TypeOK' BY <1>1, <1>5 DEF ManagerInv, TypeOK, Route, NoRoute
<1>7. last' >= last /\ last \in Nat BY WhoIsWho DEF ManagerInv, TypeOK
<1>8. ASSUME NEW j \in Ids PROVE MasterIsSound(j)'
  <2>1. \A d \in Callers : pc[d] = "connected" /\ at[d] = j =>
           route'[j].gen # 0 \/ (pc'[d] = "connected" /\ at'[d] = j)
    BY <1>5, WhoIsWho
  <2>2. QED BY <1>1, <1>6, <1>7, <1>8, <2>1, MasterStays
<1>9. SweepIsSound' BY <1>5, WhoIsWho, SameSweep
<1>10. CloseIsSound'
  <2>1. \A d \in Callers : d = c \/ (pc'[d] = pc[d] /\ at'[d] = at[d]) BY <1>5, WhoIsWho
  <2>2. \A i \in Ids, d \in Callers :
           at[d] = i /\ (pc[d] = "refused" \/ (pc[d] = "connected" /\ route[i].gen = 0))
           => at'[d] = i /\ (pc'[d] = "refused" \/ (pc'[d] = "connected" /\ route'[i].gen = 0))
    BY <2>1
  <2>3. \A d \in Callers : pc'[d] \in {"connected", "refused"} =>
           pc[d] \in {"connected", "refused"} /\ at'[d] = at[d]
    BY <1>5, <2>1
  <2>4. QED BY <1>5, <1>6, <2>2, <2>3, WhoIsWho, CloseStays
<1>11. LeaseCountIsExact' BY <1>1, SameCount
<1>12. QED BY <1>1, <1>5, <1>6, <1>7, <1>8, <1>9, <1>10, <1>11, CallerGoesOn

LEMMA GivesUp ==
    ASSUME ManagerInv, NEW c \in Callers, GiveUp(c) \/ StartRelease(c) \/ ReleaseFails(c)
    PROVE  ManagerInv'
<1>1. CASE GiveUp(c)
  <2>1. /\ pc[c] = "next" /\ ReleaseNext(c, HeldBy(c), held[c], rolling \cup {c}) /\ rolling \cup {c} \in SUBSET Callers
        /\ UNCHANGED <<route, master, last, gate, fired, closed, want, counted, targets, awaited, closeErr, failed>>
        /\ gate' \in [Ids -> Actors \cup {Nobody}]
    BY <1>1 DEF GiveUp, RollBack, managerVars, sweepVars, ManagerInv, TypeOK
  <2>2. got' \in [Callers -> 0..MaxGen] /\ \A d \in Callers \ {c} : got'[d] = got[d]
    BY <1>1, WhoIsWho DEF GiveUp, RollBack, ManagerInv, TypeOK
  <2>3. QED BY <2>1, <2>2, TurnsToRelease
<1>2. CASE StartRelease(c)
  <2>1. /\ pc[c] \in {"held", "again"} /\ ReleaseNext(c, HeldBy(c), held[c], rolling)
        /\ UNCHANGED <<route, master, last, gate, fired, closed, want, got, counted, targets, awaited, closeErr, failed>>
        /\ gate' \in [Ids -> Actors \cup {Nobody}] /\ got' \in [Callers -> 0..MaxGen] /\ rolling \in SUBSET Callers
    BY <1>2 DEF StartRelease, managerVars, sweepVars, ManagerInv, TypeOK
  <2>2. QED BY <2>1, TurnsToRelease
<1>3. CASE ReleaseFails(c)
  <2>1. /\ pc[c] = "drop" /\ ReleaseNext(c, Shallower(c), held[c], rolling) /\ Shallower(c) \in SUBSET HeldBy(c)
        /\ UNCHANGED <<route, master, last, gate, fired, closed, want, got, counted, targets, awaited, closeErr, failed>>
        /\ gate' \in [Ids -> Actors \cup {Nobody}] /\ got' \in [Callers -> 0..MaxGen] /\ rolling \in SUBSET Callers
    BY <1>3 DEF ReleaseFails, managerVars, sweepVars, ManagerInv, TypeOK, Shallower
  <2>2. QED BY <2>1, TurnsToRelease
<1>4. QED BY <1>1, <1>2, <1>3

LEMMA ConnectsAt ==
    ASSUME ManagerInv, NEW c \in Callers, pc[c] \in {"connected", "refused", "cut"}
    PROVE  at[c] \in Ids /\ gate[at[c]] = c
BY WhoIsWho DEF ManagerInv, HolderIsSound

LEMMA RefusesAndKeeps ==
    ASSUME ManagerInv, NEW c \in Callers, pc[c] = "connected", Known(at[c]),
           gate' = [gate EXCEPT ![at[c]] = Nobody], RollBack(c), UNCHANGED route,
           UNCHANGED <<master, last, fired, closed, sweepVars, failed>>
    PROVE  ManagerInv'
<1>1. /\ ReleaseNext(c, HeldBy(c), held[c], rolling \cup {c}) /\ rolling \cup {c} \in SUBSET Callers
      /\ UNCHANGED <<want, counted, targets, awaited, closeErr>>
  BY DEF RollBack, sweepVars, ManagerInv, TypeOK
<1>2. got' \in [Callers -> 0..MaxGen] /\ \A d \in Callers \ {c} : got'[d] = got[d]
  BY WhoIsWho DEF RollBack, ManagerInv, TypeOK
<1>3. gate' \in [Ids -> Actors \cup {Nobody}] /\ \A i \in Ids : gate[i] # c => gate'[i] = gate[i]
  BY ConnectsAt DEF ManagerInv, TypeOK
<1>4. route[at[c]].gen # 0
  <2>1. at[c] \in Ids /\ route[at[c]] \in Route \cup {NoRoute} BY ConnectsAt DEF ManagerInv, TypeOK
  <2>2. QED BY <2>1, Records DEF Known
<1>5. QED BY <1>1, <1>2, <1>3, <1>4, TurnsToRelease

LEMMA RefusesAndCuts ==
    ASSUME ManagerInv, NEW c \in Callers, pc[c] = "connected",
           ~(Known(at[c]) /\ (route[at[c]].gen # got[c] \/ route[at[c]].leases > 0)),
           route' = [route EXCEPT ![at[c]] = IF Known(at[c]) THEN StopBeat(StopTimer(route[at[c]]))
                                             ELSE FreshRoute(got[c])],
           Goes(c, "refused"), got' = [got EXCEPT ![c] = 0],
           UNCHANGED <<gate, at, want, rolling, held, counted>>,
           UNCHANGED <<master, last, fired, closed, sweepVars, failed>>
    PROVE  ManagerInv'
<1> DEFINE i == at[c]
<1>1. i \in Ids /\ gate[i] = c /\ route[i] \in Route \cup {NoRoute} BY ConnectsAt DEF ManagerInv, TypeOK
<1>2. /\ got[c] \in 0..MaxGen /\ got[c] # 0 /\ master[i] \in {0, got[c]}
      /\ \A d \in Callers : held[d][i] = got[c] => route[i].gen = got[c]
  BY DEF ManagerInv, TypeOK, ConnectionIsSound
<1>3. PICK r \in Route \cup {NoRoute} :
         /\ route' = [route EXCEPT ![i] = r] /\ r.leases = 0 /\ r.gen = got[c] /\ r.gen # 0
         /\ Known(i) => r.gen = route[i].gen
  <2>1. CASE Known(i)
    <3>1. route[i].leases = 0 /\ route[i].gen = got[c]
      <4>1. route[i].leases \in Nat /\ ~(route[i].leases > 0) BY <1>1, <2>1, Records
      <4>2. QED BY <2>1, <4>1
    <3>2. StopBeat(StopTimer(route[i])) \in Route \cup {NoRoute}
      BY <1>1, Rested
    <3>3. StopBeat(StopTimer(route[i])).gen = route[i].gen /\ StopBeat(StopTimer(route[i])).leases = route[i].leases
      BY <1>1, Rested
    <3>4. route' = [route EXCEPT ![i] = StopBeat(StopTimer(route[i]))] BY <2>1
    <3>5. QED BY <1>2, <3>1, <3>2, <3>3, <3>4
  <2>2. CASE ~Known(i)
    <3>1. FreshRoute(got[c]) \in Route /\ FreshRoute(got[c]).leases = 0 /\ FreshRoute(got[c]).gen = got[c]
      <4>1. got[c] \in 1..MaxGen /\ 0 \in 0..Cardinality(Callers)
        BY <1>2, WhoIsWho, ManagerAssumption, FS_CardinalityType DEF ManagerAssumption
      <4>2. QED BY <4>1 DEF FreshRoute, NoRoute, Route
    <3>2. QED BY <1>2, <2>2, <3>1
  <2>3. QED BY <2>1, <2>2
<1>4. /\ route' \in [Ids -> Route \cup {NoRoute}] /\ route'[i] = r
      /\ \A j \in Ids \ {i} : route'[j] = route[j]
  BY <1>1, <1>3, RouteUpdates DEF ManagerInv
<1>5. /\ pc' \in [Actors -> Referencing \cup {"idle", "next", "held", "again", "abandoned", "list", "done"}]
      /\ pc'[c] = "refused" /\ \A a \in Actors \ {c} : pc'[a] = pc[a]
  BY WhoIsWho DEF ManagerInv, TypeOK, Referencing, Goes
<1>6. got' \in [Callers -> 0..MaxGen] /\ \A d \in Callers \ {c} : got'[d] = got[d]
  BY WhoIsWho DEF ManagerInv, TypeOK
<1>7. TypeOK' BY <1>4, <1>5, <1>6 DEF ManagerInv, TypeOK, Route, NoRoute, sweepVars
<1>8. last' >= last /\ last \in Nat BY WhoIsWho DEF ManagerInv, TypeOK
<1>9. CallerIsSound(c)'
  <2>1. CallerIsSound(c) /\ last' = last BY DEF ManagerInv
  <2>2. HeldBy(c)' = HeldBy(c) /\ Path(c)' = Path(c) BY DEF HeldBy, Path
  <2>3. QED BY <1>5, <2>1, <2>2 DEF CallerIsSound
<1>10. ConnectionIsSound(c)' BY <1>5 DEF ConnectionIsSound
<1>11. HolderIsSound(c)' BY <1>1, <1>3, <1>4, <1>5 DEF HolderIsSound
<1>12. ASSUME NEW j \in Ids PROVE MasterIsSound(j)'
  <2>1. j = i => route'[j].gen = master[j] \/ master'[j] = 0 BY <1>2, <1>3, <1>4
  <2>2. j # i => route'[j].gen = route[j].gen /\ \A d \in Callers : held'[d][j] \in {held[d][j], 0}
    BY <1>4, <1>12
  <2>3. \A d \in Callers : pc[d] = "connected" /\ at[d] = j =>
           route'[j].gen # 0 \/ (pc'[d] = "connected" /\ at'[d] = j)
    BY <1>3, <1>4, <1>5, <1>12, WhoIsWho
  <2>4. \A u \in Ids : route[u].gen # 0 => route'[u].gen # 0 BY <1>3, <1>4
  <2>5. QED BY <1>7, <1>8, <1>12, <2>1, <2>2, <2>3, <2>4, MasterStays
<1>13. LeaseCountIsExact'
  <2>1. ASSUME NEW j \in Ids
        PROVE  Known(j)' => route'[j].leases = Cardinality({d \in Callers : Counts(d, j)' /\ held'[d][j] = route'[j].gen})
    <3>1. CASE j = i /\ ~Known(i)
      <4>1. \A d \in Callers : held'[d][j] # got[c]
        BY <1>1, <1>2, <3>1, Records DEF Known
      <4>2. {d \in Callers : Counts(d, j)' /\ held'[d][j] = route'[j].gen} = {} BY <1>3, <1>4, <3>1, <4>1
      <4>3. QED BY <1>3, <1>4, <3>1, <4>2, FS_EmptySet
    <3>2. CASE j # i \/ Known(i)
      <4>1. route'[j].gen = route[j].gen /\ route'[j].leases = route[j].leases
        <5>1. CASE j # i BY <1>4, <2>1, <5>1
        <5>2. CASE j = i
          <6>1. Known(i) BY <3>2, <5>2
          <6>2. route[i].leases \in Nat /\ ~(route[i].leases > 0) BY <1>1, <6>1, Records
          <6>3. QED BY <1>3, <1>4, <5>2, <6>1, <6>2
        <5>3. QED BY <5>1, <5>2
      <4>2. \A d \in Callers : (Counts(d, j) /\ held[d][j] = route[j].gen) <=> (Counts(d, j) /\ held[d][j] = route[j].gen)'
        BY <2>1, <4>1 DEF Counts
      <4>3. QED BY <1>7, <2>1, <4>1, <4>2, CountStays DEF ManagerInv
    <3>3. QED BY <3>1, <3>2
  <2>2. QED BY <2>1 DEF LeaseCountIsExact
<1>14. SweepIsSound' BY <1>5, WhoIsWho, SameSweep
<1>15. CloseIsSound'
  <2>1. \A d \in Callers : d = c \/ pc'[d] = pc[d] BY <1>5, WhoIsWho
  <2>2. \A j \in Ids, d \in Callers :
           at[d] = j /\ (pc[d] = "refused" \/ (pc[d] = "connected" /\ route[j].gen = 0))
           => at'[d] = j /\ (pc'[d] = "refused" \/ (pc'[d] = "connected" /\ route'[j].gen = 0))
    <3>1. ASSUME NEW d \in Callers, d # c, pc[d] = "connected" PROVE at[d] # i
      BY <1>1, <3>1, ConnectsAt
    <3>2. QED BY <1>4, <1>5, <2>1, <3>1
  <2>3. \A d \in Callers : pc'[d] \in {"connected", "refused"} =>
           pc[d] \in {"connected", "refused"} /\ at'[d] = at[d]
    BY <2>1
  <2>4. QED BY <1>5, <1>7, <2>2, <2>3, WhoIsWho, CloseStays DEF sweepVars
<1>16. \A j \in Ids : gate[j] \notin {c, Nobody} => j # i BY <1>1
<1>17. QED BY <1>1, <1>4, <1>5, <1>6, <1>7, <1>8, <1>9, <1>10, <1>11, <1>12, <1>13, <1>14, <1>15, <1>16, CallerGoesOn

LEMMA RefuseStep ==
    ASSUME ManagerInv, NEW c \in Callers, Refuse(c)
    PROVE  ManagerInv'
BY RefusesAndKeeps, RefusesAndCuts DEF Refuse

-----------------------------------------------------------------------------
(* A release that gets the gate. *)

LEMMA ReleaseCounts ==
    ASSUME ManagerInv, NEW c \in Callers, pc[c] = "drop", route[at[c]].gen = held[c][at[c]]
    PROVE  /\ at[c] \in Ids /\ route[at[c]] \in Route
           /\ Remaining(c, at[c]) \in 0..Cardinality(Callers)
           /\ Remaining(c, at[c])
                = Cardinality({d \in Callers \ {c} : Counts(d, at[c]) /\ held[d][at[c]] = route[at[c]].gen})
<1> DEFINE i == at[c]
<1> DEFINE L == {d \in Callers : Counts(d, i) /\ held[d][i] = route[i].gen}
<1> DEFINE M == {d \in Callers \ {c} : Counts(d, i) /\ held[d][i] = route[i].gen}
<1>1. i \in Ids /\ held[c][i] # 0 BY DEF ManagerInv, CallerIsSound, HeldBy
<1>2. route[i] \in Route \cup {NoRoute} BY <1>1 DEF ManagerInv, TypeOK
<1>3. Known(i) /\ route[i] \in Route /\ route[i].leases \in Nat /\ route[i].leases <= Cardinality(Callers)
  BY <1>1, <1>2, Records DEF Known
<1>4. route[i].leases = Cardinality(L) BY <1>1, <1>3 DEF ManagerInv, LeaseCountIsExact
<1>5. IsFiniteSet(L) /\ Cardinality(Callers) \in Nat
  BY ManagerAssumption, FS_Subset, FS_CardinalityType DEF ManagerAssumption
<1>6. CASE i \in counted[c]
  <2>1. M = L BY <1>6 DEF Counts
  <2>2. Remaining(c, i) = route[i].leases BY <1>6 DEF Remaining
  <2>3. Cardinality(M) = Cardinality(L) BY <2>1
  <2> HIDE DEF L, M
  <2>4. Remaining(c, i) = Cardinality(M) BY <1>4, <2>2, <2>3
  <2>5. Remaining(c, i) \in 0..Cardinality(Callers) BY <1>3, <1>5, <2>2
  <2>6. QED BY <1>1, <1>3, <2>4, <2>5 DEF M
<1>7. CASE i \notin counted[c]
  <2>1. c \in L /\ M = L \ {c} BY <1>1, <1>7 DEF Counts
  <2>2. Cardinality(M) = Cardinality(L) - 1 /\ IsFiniteSet(M) BY <1>5, <2>1, FS_RemoveElement
  <2>3. Cardinality(M) \in Nat BY <2>2, FS_CardinalityType
  <2>4. Remaining(c, i) = route[i].leases - 1 BY <1>7 DEF Remaining
  <2>5. QED BY <1>1, <1>3, <1>4, <1>5, <2>2, <2>3, <2>4
<1>8. QED BY <1>6, <1>7

\* The count of a hop the caller does not work on.
LEMMA OtherCounts ==
    ASSUME ManagerInv, TypeOK', NEW c \in Callers, NEW i \in Ids,
           \A d \in Callers \ {c} : held'[d] = held[d] /\ counted'[d] = counted[d],
           \A j \in Ids \ {i} : /\ held'[c][j] = held[c][j] /\ (j \in counted'[c] <=> j \in counted[c])
                                /\ route'[j].gen = route[j].gen /\ route'[j].leases = route[j].leases,
           route'[i].gen # 0 => route'[i].leases
              = Cardinality({d \in Callers : i \notin counted'[d] /\ held'[d][i] = route'[i].gen})
    PROVE  LeaseCountIsExact'
<1>1. ASSUME NEW j \in Ids
      PROVE  Known(j)' => route'[j].leases = Cardinality({d \in Callers : Counts(d, j)' /\ held'[d][j] = route'[j].gen})
  <2>1. CASE j = i
    <3>1. SUFFICES ASSUME Known(i)'
                   PROVE  route'[i].leases = Cardinality({d \in Callers : Counts(d, i)' /\ held'[d][i] = route'[i].gen})
      BY <2>1
    <3>2. route'[i].gen # 0 BY <3>1, KnownIs DEF ManagerInv
    <3>3. {d \in Callers : Counts(d, i)' /\ held'[d][i] = route'[i].gen}
            = {d \in Callers : i \notin counted'[d] /\ held'[d][i] = route'[i].gen}
      BY <3>2 DEF Counts
    <3>4. QED BY <3>2, <3>3
  <2>2. CASE j # i
    <3>1. \A d \in Callers : (Counts(d, j) /\ held[d][j] = route[j].gen) <=> (Counts(d, j) /\ held[d][j] = route[j].gen)'
      <4>1. ASSUME NEW d \in Callers
            PROVE  (Counts(d, j) /\ held[d][j] = route[j].gen) <=> (Counts(d, j) /\ held[d][j] = route[j].gen)'
        <5>1. held'[d][j] = held[d][j] /\ (j \in counted'[d] <=> j \in counted[d]) /\ route'[j].gen = route[j].gen
          BY <1>1, <2>2
        <5>2. QED BY <5>1 DEF Counts
      <4>2. QED BY <4>1
    <3>2. QED BY <1>1, <2>2, <3>1, CountStays DEF ManagerInv
  <2>3. QED BY <2>1, <2>2
<1>2. QED BY <1>1 DEF LeaseCountIsExact

LEMMA ReleasesAt ==
    ASSUME ManagerInv, TypeOK', NEW c \in Callers, pc[c] = "drop", at[c] \in Ids, gate[at[c]] = Nobody,
           UNCHANGED <<master, last, closed, targets, awaited, failed>>,
           want'[c] = want[c], \A i \in Ids : held'[c][i] \in {held[c][i], 0},
           \A j \in Ids \ {at[c]} : /\ held'[c][j] = held[c][j] /\ (j \in counted'[c] <=> j \in counted[c])
                                    /\ route'[j].gen = route[j].gen /\ route'[j].leases = route[j].leases
                                    /\ gate'[j] = gate[j],
           route'[at[c]].gen = route[at[c]].gen,
           route'[at[c]].gen # 0 => route'[at[c]].leases
              = Cardinality({d \in Callers : at[c] \notin counted'[d] /\ held'[d][at[c]] = route'[at[c]].gen}),
           \A a \in Actors \ {c} : pc'[a] = pc[a] /\ at'[a] = at[a],
           \A d \in Callers \ {c} :
              want'[d] = want[d] /\ held'[d] = held[d] /\ counted'[d] = counted[d] /\ got'[d] = got[d],
           pc'[c] \notin {"connected", "refused"},
           CallerIsSound(c)', ConnectionIsSound(c)', HolderIsSound(c)'
    PROVE  ManagerInv'
<1>1. last' >= last /\ last \in Nat BY WhoIsWho DEF ManagerInv, TypeOK
<1>2. \A j \in Ids : route'[j].gen = route[j].gen OBVIOUS
<1>3. \A d \in Callers, j \in Ids : held'[d][j] \in {held[d][j], 0}
  <2>1. \A d \in Callers : d = c \/ held'[d] = held[d] OBVIOUS
  <2>2. QED BY <2>1
<1>4. ASSUME NEW j \in Ids PROVE MasterIsSound(j)'
  <2>1. \A d \in Callers : pc[d] = "connected" /\ at[d] = j =>
           route'[j].gen # 0 \/ (pc'[d] = "connected" /\ at'[d] = j)
    BY WhoIsWho
  <2>2. QED BY <1>1, <1>2, <1>3, <1>4, <2>1, MasterStays
<1>5. LeaseCountIsExact'
  <2>1. \A j \in Ids \ {at[c]} : /\ held'[c][j] = held[c][j] /\ (j \in counted'[c] <=> j \in counted[c])
                                 /\ route'[j].gen = route[j].gen /\ route'[j].leases = route[j].leases
    OBVIOUS
  <2>2. \A d \in Callers \ {c} : held'[d] = held[d] /\ counted'[d] = counted[d] OBVIOUS
  <2>3. QED BY <2>1, <2>2, OtherCounts
<1>6. SweepIsSound' BY WhoIsWho, SameSweep
<1>7. CloseIsSound'
  <2>1. \A d \in Callers : d = c \/ (pc'[d] = pc[d] /\ at'[d] = at[d]) BY WhoIsWho
  <2>2. \A i \in Ids, d \in Callers :
           at[d] = i /\ (pc[d] = "refused" \/ (pc[d] = "connected" /\ route[i].gen = 0))
           => at'[d] = i /\ (pc'[d] = "refused" \/ (pc'[d] = "connected" /\ route'[i].gen = 0))
    BY <1>2, <2>1
  <2>3. \A d \in Callers : pc'[d] \in {"connected", "refused"} =>
           pc[d] \in {"connected", "refused"} /\ at'[d] = at[d]
    BY <2>1
  <2>4. pc'[Closer] = pc[Closer] /\ at'[Closer] = at[Closer] BY WhoIsWho
  <2>5. QED BY <2>2, <2>3, <2>4, CloseStays
<1>8. \A i \in Ids : gate[i] \notin {c, Nobody} =>
         /\ gate'[i] = gate[i] /\ route'[i].gen = route[i].gen /\ route'[i].leases = route[i].leases
         /\ held'[c][i] \in {held[c][i], 0}
         /\ master'[i] \in {master[i], 0}
         /\ master'[i] # 0 => \A u \in Upstream(i) : master'[u] = master[u]
  OBVIOUS
<1>9. \A j \in Ids : MasterIsSound(j)' BY <1>4
<1>10. QED BY <1>1, <1>5, <1>6, <1>7, <1>8, <1>9, CallerGoesOn

LEMMA DropsNext ==
    ASSUME ManagerInv, NEW c \in Callers, at[c] \in HeldBy(c),
           ReleaseNext(c, Shallower(c), Dropped(c), rolling),
           counted' = [counted EXCEPT ![c] = counted[c] \ {at[c]}], UNCHANGED <<want, last>>
    PROVE  /\ pc' \in [Actors -> Referencing \cup {"idle", "next", "held", "again", "abandoned", "list", "done"}]
           /\ at' \in [Actors -> Ids \cup {Nobody}] /\ rolling' \subseteq Callers
           /\ held' \in [Callers -> [Ids -> 0..MaxGen]] /\ held'[c][at[c]] = 0
           /\ \A j \in Ids \ {at[c]} : held'[c][j] = held[c][j]
           /\ \A d \in Callers \ {c} : held'[d] = held[d]
           /\ counted' \in [Callers -> SUBSET Ids] /\ counted'[c] = counted[c] \ {at[c]}
           /\ \A d \in Callers \ {c} : counted'[d] = counted[d]
           /\ \A a \in Actors \ {c} : pc'[a] = pc[a] /\ at'[a] = at[a]
           /\ pc'[c] \in {"drop", "idle", "abandoned", "again"}
           /\ CallerIsSound(c)' /\ ConnectionIsSound(c)' /\ HolderIsSound(c)'
<1> DEFINE i == at[c]
<1>1. i \in Ids /\ held[c][i] # 0 /\ counted[c] \subseteq HeldBy(c) BY DEF ManagerInv, CallerIsSound, HeldBy
<1>2. held[c] \in [Ids -> 0..MaxGen] BY <1>1 DEF ManagerInv, TypeOK
<1>5. /\ Dropped(c) \in [Ids -> 0..MaxGen] /\ Dropped(c)[i] = 0 /\ \A j \in Ids \ {i} : Dropped(c)[j] = held[c][j]
  BY <1>1, <1>2, WhoIsWho DEF Dropped
<1>6. Shallower(c) \in SUBSET Ids /\ \A j \in Shallower(c) : Dropped(c)[j] # 0
  <2>1. \A j \in Shallower(c) : j \in Ids /\ held[c][j] # 0 /\ Depth(j) < Depth(i) BY DEF Shallower, HeldBy
  <2>2. \A j \in Shallower(c) : j # i
    <3>1. PICK k \in DOMAIN Path(c) : Path(c)[k] = i BY <1>1 DEF ManagerInv, CallerIsSound, HeldBy
    <3>2. want[c] \in Terminals BY DEF ManagerInv, TypeOK
    <3>3. Depth(i) = k /\ k \in Nat BY <3>1, <3>2, DepthIs, Chains DEF Path
    <3>4. QED BY <2>1, <3>3
  <2>3. QED BY <1>5, <2>1, <2>2
<1>7. /\ counted' \in [Callers -> SUBSET Ids] /\ counted'[c] = counted[c] \ {i}
      /\ \A d \in Callers \ {c} : counted'[d] = counted[d]
  BY DEF ManagerInv, TypeOK
<1>8. \A j \in counted'[c] : j \in Ids /\ Dropped(c)[j] # 0 BY <1>1, <1>5, <1>7 DEF HeldBy
<1>9. \A j \in Ids : Dropped(c)[j] \in {held[c][j], 0}
  <2>1. \A j \in Ids : j = i \/ Dropped(c)[j] = held[c][j] BY <1>5
  <2>2. QED BY <1>5, <2>1
<1>10. rolling \in SUBSET Callers BY DEF ManagerInv, TypeOK
<1>11. ReleasesWhat(c, Shallower(c), Dropped(c), rolling) BY <1>5, <1>6, <1>8, <1>9, <1>10 DEF ReleasesWhat
<1>12. QED BY <1>1, <1>5, <1>7, <1>11, ReleasesNext

LEMMA LeaseGoes ==
    ASSUME ManagerInv, NEW c \in Callers, pc[c] = "drop", gate[at[c]] = Nobody,
           route' = [route EXCEPT ![at[c]] =
                     IF route[at[c]].gen # held[c][at[c]] THEN @
                     ELSE IF Remaining(c, at[c]) > 0 THEN [route[at[c]] EXCEPT !.leases = Remaining(c, at[c])]
                     ELSE [route[at[c]] EXCEPT !.leases = Remaining(c, at[c]), !.idle = "timed"]],
           ReleaseNext(c, Shallower(c), Dropped(c), rolling),
           counted' = [counted EXCEPT ![c] = counted[c] \ {at[c]}],
           UNCHANGED <<gate, master, last, fired, closed, want, got, targets, awaited, closeErr, failed>>
    PROVE  ManagerInv'
<1> DEFINE i == at[c]
<1>1. i \in Ids /\ held[c][i] # 0 /\ i \in HeldBy(c) BY DEF ManagerInv, CallerIsSound, HeldBy
<1>2. route[i] \in Route \cup {NoRoute} BY <1>1 DEF ManagerInv, TypeOK
<1>3. PICK r \in Route \cup {NoRoute} :
         /\ route' = [route EXCEPT ![i] = r] /\ r.gen = route[i].gen
         /\ r.gen = held[c][i] => r.leases =
               Cardinality({d \in Callers \ {c} : Counts(d, i) /\ held[d][i] = route[i].gen})
         /\ r.gen # held[c][i] => r.leases = route[i].leases
  <2>1. CASE route[i].gen # held[c][i]
    <3>1. route' = [route EXCEPT ![i] = route[i]] BY <2>1
    <3>2. QED BY <1>2, <2>1, <3>1
  <2>2. CASE route[i].gen = held[c][i]
    <3>1. PICK n \in 0..Cardinality(Callers) :
             n = Remaining(c, i) /\ n = Cardinality({d \in Callers \ {c} : Counts(d, i) /\ held[d][i] = route[i].gen})
      BY <2>2, ReleaseCounts
    <3>2. route[i] \in Route BY <2>2, ReleaseCounts
    <3>3. PICK a : a = [route[i] EXCEPT !.leases = n] OBVIOUS
    <3>4. PICK b : b = [route[i] EXCEPT !.leases = n, !.idle = "timed"] OBVIOUS
    <3>5. a \in Route /\ a.gen = route[i].gen /\ a.leases = n BY <3>2, <3>3 DEF Route
    <3>6. b \in Route /\ b.gen = route[i].gen /\ b.leases = n BY <3>2, <3>4 DEF Route
    <3>7. route' = [route EXCEPT ![i] = a] \/ route' = [route EXCEPT ![i] = b] BY <2>2, <3>1, <3>3, <3>4
    <3>8. QED BY <2>2, <3>1, <3>5, <3>6, <3>7
  <2>3. QED BY <2>1, <2>2
<1>4. /\ route' \in [Ids -> Route \cup {NoRoute}] /\ route'[i] = r
      /\ \A j \in Ids \ {i} : route'[j] = route[j]
  BY <1>1, <1>3, RouteUpdates DEF ManagerInv
<1>11. /\ pc' \in [Actors -> Referencing \cup {"idle", "next", "held", "again", "abandoned", "list", "done"}]
       /\ at' \in [Actors -> Ids \cup {Nobody}] /\ rolling' \subseteq Callers
       /\ held' \in [Callers -> [Ids -> 0..MaxGen]] /\ held'[c][i] = 0
       /\ \A j \in Ids \ {i} : held'[c][j] = held[c][j]
       /\ \A d \in Callers \ {c} : held'[d] = held[d]
       /\ counted' \in [Callers -> SUBSET Ids] /\ counted'[c] = counted[c] \ {i}
       /\ \A d \in Callers \ {c} : counted'[d] = counted[d]
       /\ \A a \in Actors \ {c} : pc'[a] = pc[a] /\ at'[a] = at[a]
       /\ pc'[c] \in {"drop", "idle", "abandoned", "again"}
       /\ CallerIsSound(c)' /\ ConnectionIsSound(c)' /\ HolderIsSound(c)'
  BY <1>1, DropsNext
<1>12. TypeOK' BY <1>4, <1>11 DEF ManagerInv, TypeOK, Route, NoRoute
<1>13. route'[i].gen # 0 => route'[i].leases
          = Cardinality({d \in Callers : i \notin counted'[d] /\ held'[d][i] = route'[i].gen})
  <2>1. SUFFICES ASSUME r.gen # 0
                 PROVE  r.leases = Cardinality({d \in Callers : i \notin counted'[d] /\ held'[d][i] = r.gen})
    BY <1>4
  <2>2. held'[c][i] = 0 BY <1>11
  <2>3. {d \in Callers : i \notin counted'[d] /\ held'[d][i] = r.gen}
          = {d \in Callers \ {c} : i \notin counted[d] /\ held[d][i] = r.gen}
    <3>1. \A d \in Callers \ {c} : held'[d] = held[d] /\ counted'[d] = counted[d] BY <1>11
    <3>2. c \notin {d \in Callers : i \notin counted'[d] /\ held'[d][i] = r.gen} BY <2>1, <2>2
    <3>3. QED BY <3>1, <3>2
  <2>4. {d \in Callers \ {c} : i \notin counted[d] /\ held[d][i] = r.gen}
          = {d \in Callers \ {c} : Counts(d, i) /\ held[d][i] = route[i].gen}
    BY <1>3, <2>1 DEF Counts
  <2>5. CASE r.gen = held[c][i] BY <1>3, <2>3, <2>4, <2>5
  <2>6. CASE r.gen # held[c][i]
    <3>1. Known(i) BY <1>1, <1>2, <1>3, <2>1, Records DEF Known
    <3>2. route[i].leases = Cardinality({d \in Callers : Counts(d, i) /\ held[d][i] = route[i].gen})
      BY <1>1, <3>1 DEF ManagerInv, LeaseCountIsExact
    <3>3. {d \in Callers : Counts(d, i) /\ held[d][i] = route[i].gen}
            = {d \in Callers \ {c} : Counts(d, i) /\ held[d][i] = route[i].gen}
      BY <1>3, <2>6
    <3>4. QED BY <1>3, <2>3, <2>4, <2>6, <3>2, <3>3
  <2>7. QED BY <2>5, <2>6
<1>14. \A j \in Ids \ {i} : /\ held'[c][j] = held[c][j] /\ (j \in counted'[c] <=> j \in counted[c])
                            /\ route'[j].gen = route[j].gen /\ route'[j].leases = route[j].leases
                            /\ gate'[j] = gate[j]
  BY <1>4, <1>11
<1>15. /\ \A j \in Ids : held'[c][j] \in {held[c][j], 0}
       /\ \A d \in Callers \ {c} :
             want'[d] = want[d] /\ held'[d] = held[d] /\ counted'[d] = counted[d] /\ got'[d] = got[d]
       /\ pc'[c] \notin {"connected", "refused"} /\ route'[i].gen = route[i].gen /\ want'[c] = want[c]
  BY <1>3, <1>4, <1>11
<1>16. QED BY <1>1, <1>11, <1>12, <1>13, <1>14, <1>15, ReleasesAt

LEMMA LeaseIsCut ==
    ASSUME ManagerInv, NEW c \in Callers, pc[c] = "drop", gate[at[c]] = Nobody,
           route[at[c]].gen = held[c][at[c]], Remaining(c, at[c]) <= 0,
           route' = [route EXCEPT ![at[c]] = StopBeat([route[at[c]] EXCEPT !.leases = Remaining(c, at[c])])],
           gate' = [gate EXCEPT ![at[c]] = c],
           counted' = [counted EXCEPT ![c] = counted[c] \cup {at[c]}],
           Goes(c, "cut"),
           UNCHANGED <<at, held, rolling, master, last, fired, closed, want, got, targets, awaited, closeErr, failed>>
    PROVE  ManagerInv'
<1> DEFINE i == at[c]
<1>1. i \in Ids /\ held[c][i] # 0 /\ counted[c] \subseteq HeldBy(c) BY DEF ManagerInv, CallerIsSound, HeldBy
<1>2. PICK n \in 0..Cardinality(Callers) :
         n = Remaining(c, i) /\ n = Cardinality({d \in Callers \ {c} : Counts(d, i) /\ held[d][i] = route[i].gen})
  BY ReleaseCounts
<1>3. n = 0 BY <1>2, ManagerAssumption, FS_CardinalityType DEF ManagerAssumption
<1>4. PICK r \in Route \cup {NoRoute} :
         /\ route' = [route EXCEPT ![i] = r] /\ r.gen = route[i].gen /\ r.leases = 0
  <2>1. route[i] \in Route BY ReleaseCounts
  <2>2. PICK a : a = [route[i] EXCEPT !.leases = n] OBVIOUS
  <2>3. a \in Route /\ a.gen = route[i].gen /\ a.leases = n BY <2>1, <2>2 DEF Route
  <2>4. StopBeat(a) \in Route \cup {NoRoute} /\ StopBeat(a).gen = a.gen /\ StopBeat(a).leases = a.leases
    BY <2>3, Records
  <2>5. route' = [route EXCEPT ![i] = StopBeat(a)] BY <1>2, <2>2
  <2>6. QED BY <1>3, <2>3, <2>4, <2>5
<1>5. /\ route' \in [Ids -> Route \cup {NoRoute}] /\ route'[i] = r
      /\ \A j \in Ids \ {i} : route'[j] = route[j]
  BY <1>1, <1>4, RouteUpdates DEF ManagerInv
<1>6. /\ counted' \in [Callers -> SUBSET Ids] /\ counted'[c] = counted[c] \cup {i}
      /\ \A d \in Callers \ {c} : counted'[d] = counted[d]
  BY <1>1 DEF ManagerInv, TypeOK
<1>7. /\ pc' \in [Actors -> Referencing \cup {"idle", "next", "held", "again", "abandoned", "list", "done"}]
      /\ pc'[c] = "cut" /\ \A a \in Actors \ {c} : pc'[a] = pc[a] /\ at'[a] = at[a]
  BY WhoIsWho DEF ManagerInv, TypeOK, Referencing, Goes
<1>8. /\ gate' \in [Ids -> Actors \cup {Nobody}] /\ gate'[i] = c /\ \A j \in Ids \ {i} : gate'[j] = gate[j]
  BY <1>1, WhoIsWho DEF ManagerInv, TypeOK
<1>9. TypeOK' BY <1>5, <1>6, <1>7, <1>8 DEF ManagerInv, TypeOK, Route, NoRoute
<1>10. CallerIsSound(c)'
  <2>1. CallerIsSound(c) /\ last' = last BY DEF ManagerInv
  <2>2. HeldBy(c)' = HeldBy(c) /\ Path(c)' = Path(c) BY DEF HeldBy, Path
  <2>3. i \in HeldBy(c) /\ counted'[c] \subseteq HeldBy(c) BY <1>1, <1>6 DEF HeldBy
  <2>4. QED BY <1>7, <2>1, <2>2, <2>3 DEF CallerIsSound
<1>11. ConnectionIsSound(c)' /\ HolderIsSound(c)' BY <1>1, <1>4, <1>5, <1>7, <1>8 DEF ConnectionIsSound, HolderIsSound
<1>12. route'[i].gen # 0 => route'[i].leases
          = Cardinality({d \in Callers : i \notin counted'[d] /\ held'[d][i] = route'[i].gen})
  <2>1. SUFFICES ASSUME r.gen # 0
                 PROVE  r.leases = Cardinality({d \in Callers : i \notin counted'[d] /\ held'[d][i] = r.gen})
    BY <1>5
  <2>2. {d \in Callers : i \notin counted'[d] /\ held'[d][i] = r.gen}
          = {d \in Callers \ {c} : Counts(d, i) /\ held[d][i] = route[i].gen}
    BY <1>4, <1>6, <2>1 DEF Counts
  <2>3. QED BY <1>2, <1>3, <1>4, <2>2
<1>13. \A j \in Ids \ {i} : /\ held'[c][j] = held[c][j] /\ (j \in counted'[c] <=> j \in counted[c])
                            /\ route'[j].gen = route[j].gen /\ route'[j].leases = route[j].leases
                            /\ gate'[j] = gate[j]
  BY <1>5, <1>6, <1>8
<1>14. /\ \A j \in Ids : held'[c][j] \in {held[c][j], 0}
       /\ \A d \in Callers \ {c} :
             want'[d] = want[d] /\ held'[d] = held[d] /\ counted'[d] = counted[d] /\ got'[d] = got[d]
       /\ pc'[c] \notin {"connected", "refused"} /\ route'[i].gen = route[i].gen /\ want'[c] = want[c]
  BY <1>4, <1>5, <1>6, <1>7
<1>15. QED BY <1>1, <1>7, <1>9, <1>10, <1>11, <1>12, <1>13, <1>14, ReleasesAt

LEMMA ReleaseLeaseStep ==
    ASSUME ManagerInv, NEW c \in Callers, ReleaseLease(c)
    PROVE  ManagerInv'
<1>1. pc[c] = "drop" /\ gate[at[c]] = Nobody
      /\ UNCHANGED <<master, last, fired, closed, want, got, targets, awaited, closeErr, failed>>
  BY DEF ReleaseLease, sweepVars
<1>2. CASE /\ route' = [route EXCEPT ![at[c]] =
                 IF route[at[c]].gen # held[c][at[c]] THEN @
                 ELSE IF Remaining(c, at[c]) > 0 THEN [route[at[c]] EXCEPT !.leases = Remaining(c, at[c])]
                 ELSE [[route[at[c]] EXCEPT !.leases = Remaining(c, at[c])] EXCEPT !.idle = "timed"]]
           /\ ReleaseNext(c, Shallower(c), Dropped(c), rolling)
           /\ counted' = [counted EXCEPT ![c] = @ \ {at[c]}] /\ UNCHANGED gate
  BY <1>1, <1>2, LeaseGoes
<1>3. CASE /\ route[at[c]].gen = held[c][at[c]] /\ Remaining(c, at[c]) <= 0
           /\ route' = [route EXCEPT ![at[c]] = StopBeat([route[at[c]] EXCEPT !.leases = Remaining(c, at[c])])]
           /\ gate' = [gate EXCEPT ![at[c]] = c]
           /\ counted' = [counted EXCEPT ![c] = @ \cup {at[c]}]
           /\ Goes(c, "cut") /\ UNCHANGED <<at, held, rolling>>
  BY <1>1, <1>3, LeaseIsCut
<1>4. QED BY <1>2, <1>3 DEF ReleaseLease

-----------------------------------------------------------------------------
(* Disconnect, by whoever holds the gate. *)

LEMMA CutsWhat ==
    ASSUME ManagerInv, NEW i \in Ids, Disconnected(i) \/ NotDisconnected(i)
    PROVE  /\ master' \in [Ids -> 0..MaxGen] /\ route' \in [Ids -> Route \cup {NoRoute}] /\ failed' \subseteq Ids
           /\ \A j \in Ids \ {i} : route'[j] = route[j]
           /\ route'[i] = NoRoute \/ (route'[i] = route[i] /\ (closed => i \in failed'))
           /\ route'[i] = NoRoute => master'[i] = 0 \/ route[i] = NoRoute
           /\ \A j \in Ids : master'[j] \in {master[j], 0}
           /\ master'[i] # 0 => route'[i] = route[i] /\ (closed => i \in failed')
           /\ \A j \in Ids : master'[j] # 0 =>
                 /\ \A u \in Ids : j \in Below(u) => master'[u] = master[u] /\ route'[u] = route[u]
                 /\ j \in failed => j \in failed'
<1>1. route \in [Ids -> Route \cup {NoRoute}] /\ failed \subseteq Ids /\ master \in [Ids -> 0..MaxGen]
  BY DEF ManagerInv, TypeOK
<1>2. CASE NotDisconnected(i)
  BY <1>1, <1>2 DEF NotDisconnected
<1>3. CASE Disconnected(i)
  <2>1. master' = Ends(i) /\ failed' = failed \ ({i} \cup Below(i)) /\ route' = [route EXCEPT ![i] = NoRoute]
    BY <1>3 DEF Disconnected
  <2>2. /\ route' \in [Ids -> Route \cup {NoRoute}] /\ route'[i] = NoRoute
        /\ \A j \in Ids \ {i} : route'[j] = route[j]
    BY <1>1, <2>1
  <2>3. /\ master' \in [Ids -> 0..MaxGen] /\ master'[i] = 0
        /\ \A j \in Ids : /\ master'[j] \in {master[j], 0}
                          /\ master'[j] # 0 => /\ j \notin {i} \cup Below(i)
                                               /\ \A u \in Ids : j \in Below(u) => u # i /\ master'[u] = master[u]
    BY <2>1, EndsWhat
  <2>4. failed' \subseteq Ids BY <1>1, <2>1
  <2>5. \A j \in Ids : master'[j] # 0 =>
           /\ \A u \in Ids : j \in Below(u) => master'[u] = master[u] /\ route'[u] = route[u]
           /\ j \in failed => j \in failed'
    BY <2>1, <2>2, <2>3
  <2>6. QED BY <2>2, <2>3, <2>4, <2>5
<1>4. QED BY <1>2, <1>3

LEMMA CutCounts ==
    ASSUME ManagerInv, TypeOK', NEW i \in Ids,
           \A j \in Ids \ {i} : /\ route'[j] = route[j]
                                /\ \A d \in Callers : held'[d][j] = held[d][j] /\ (j \in counted'[d] <=> j \in counted[d]),
           \/ route'[i] = NoRoute
           \/ /\ route'[i] = route[i]
              /\ \A d \in Callers : held'[d][i] = held[d][i] /\ (i \in counted'[d] <=> i \in counted[d])
    PROVE  LeaseCountIsExact'
<1>1. ASSUME NEW j \in Ids
      PROVE  Known(j)' => route'[j].leases = Cardinality({d \in Callers : Counts(d, j)' /\ held'[d][j] = route'[j].gen})
  <2>1. CASE route'[j] = NoRoute BY <2>1 DEF Known
  <2>2. CASE route'[j] # NoRoute
    <3>1. /\ route'[j] = route[j]
          /\ \A d \in Callers : held'[d][j] = held[d][j] /\ (j \in counted'[d] <=> j \in counted[d])
      BY <1>1, <2>2
    <3>2. \A d \in Callers : (Counts(d, j) /\ held[d][j] = route[j].gen) <=> (Counts(d, j) /\ held[d][j] = route[j].gen)'
      BY <3>1 DEF Counts
    <3>3. QED BY <1>1, <3>1, <3>2, CountStays DEF ManagerInv
  <2>3. QED BY <2>1, <2>2
<1>2. QED BY <1>1 DEF LeaseCountIsExact

LEMMA CutMasters ==
    ASSUME ManagerInv, TypeOK', NEW i \in Ids, last' = last, Disconnected(i) \/ NotDisconnected(i),
           \A d \in Callers, j \in Ids : held'[d][j] \in {held[d][j], 0},
           \A d \in Callers : pc[d] = "connected" => pc'[d] = pc[d] /\ at'[d] = at[d]
    PROVE  \A j \in Ids : MasterIsSound(j)'
<1>1. last' >= last /\ last \in Nat BY WhoIsWho DEF ManagerInv, TypeOK
<1>2. ASSUME NEW j \in Ids PROVE MasterIsSound(j)'
  <2>1. master'[j] \in {master[j], 0} BY <1>2, CutsWhat
  <2>2. master'[j] # 0 => route'[j] = route[j] BY <1>2, CutsWhat
  <2>3. master'[j] # 0 => \A u \in Ids : j \in Below(u) => master'[u] = master[u] /\ (route[u].gen # 0 => route'[u].gen # 0)
    BY <1>2, CutsWhat
  <2>4. \A d \in Callers : pc[d] = "connected" /\ at[d] = j =>
           route'[j].gen # 0 \/ (pc'[d] = "connected" /\ at'[d] = j)
    OBVIOUS
  <2>5. QED BY <1>1, <1>2, <2>1, <2>2, <2>3, <2>4, MasterStays
<1>3. QED BY <1>2

\* A caller that cuts.
LEMMA CallerCuts ==
    ASSUME ManagerInv, TypeOK', NEW c \in Callers, pc[c] \in {"refused", "cut"},
           Disconnected(at[c]) \/ NotDisconnected(at[c]),
           gate' = [gate EXCEPT ![at[c]] = Nobody],
           UNCHANGED <<last, closed, targets, awaited, want>>,
           \A j \in Ids : held'[c][j] \in {held[c][j], 0},
           \A j \in Ids \ {at[c]} : held'[c][j] = held[c][j] /\ (j \in counted'[c] <=> j \in counted[c]),
           \/ route'[at[c]] = NoRoute
           \/ held'[c][at[c]] = held[c][at[c]] /\ (at[c] \in counted'[c] <=> at[c] \in counted[c]),
           \A a \in Actors \ {c} : pc'[a] = pc[a] /\ at'[a] = at[a],
           \A d \in Callers \ {c} : held'[d] = held[d] /\ counted'[d] = counted[d] /\ got'[d] = got[d],
           pc'[c] \notin {"connected", "refused"},
           CallerIsSound(c)', ConnectionIsSound(c)', HolderIsSound(c)'
    PROVE  ManagerInv'
<1> DEFINE i == at[c]
<1>1. i \in Ids /\ gate[i] = c BY ConnectsAt
<1>2. last' >= last /\ last \in Nat BY WhoIsWho DEF ManagerInv, TypeOK
<1>3. \A d \in Callers : d = c \/ (pc'[d] = pc[d] /\ at'[d] = at[d] /\ held'[d] = held[d] /\ counted'[d] = counted[d])
  BY WhoIsWho
<1>4. \A j \in Ids : MasterIsSound(j)'
  <2>1. \A d \in Callers, j \in Ids : held'[d][j] \in {held[d][j], 0} BY <1>3
  <2>2. \A d \in Callers : pc[d] = "connected" => pc'[d] = pc[d] /\ at'[d] = at[d] BY <1>3
  <2>3. QED BY <1>1, <2>1, <2>2, CutMasters
<1>5. LeaseCountIsExact'
  <2>1. \A j \in Ids \ {i} :
           /\ route'[j] = route[j]
           /\ \A d \in Callers : held'[d][j] = held[d][j] /\ (j \in counted'[d] <=> j \in counted[d])
    <3>1. \A j \in Ids \ {i} : route'[j] = route[j] BY <1>1, CutsWhat
    <3>2. QED BY <1>3, <3>1
  <2>2. route'[i] # NoRoute =>
           /\ route'[i] = route[i]
           /\ \A d \in Callers : held'[d][i] = held[d][i] /\ (i \in counted'[d] <=> i \in counted[d])
    <3>1. route'[i] # NoRoute => route'[i] = route[i] BY <1>1, CutsWhat
    <3>2. QED BY <1>3, <3>1
  <2>3. QED BY <1>1, <2>1, <2>2, CutCounts
<1>6. SweepIsSound'
  <2>1. pc[Sweeper] = "cut" => at[Sweeper] \in Ids BY WhoIsWho DEF ManagerInv, HolderIsSound
  <2>2. pc[Sweeper] = "cut" => \A j \in Below(at[Sweeper]) : master'[j] \in {master[j], 0}
    BY <1>1, <2>1, CutsWhat, BelowTypes
  <2>3. QED BY <2>2, WhoIsWho, SameSweep
<1>7. CloseIsSound'
  <2>1. \A j \in Ids : master'[j] # 0 => master[j] # 0 /\ (j \in failed => j \in failed') BY <1>1, CutsWhat
  <2>2. closed => \A j \in Ids, d \in Callers :
           at[d] = j /\ (pc[d] = "refused" \/ (pc[d] = "connected" /\ route[j].gen = 0))
             /\ master'[j] # 0 /\ j \notin failed'
           => at'[d] = j /\ (pc'[d] = "refused" \/ (pc'[d] = "connected" /\ route'[j].gen = 0))
    <3>1. closed /\ master'[i] # 0 => i \in failed' BY <1>1, CutsWhat
    <3>2. \A j \in Ids \ {i} : route'[j] = route[j] BY <1>1, CutsWhat
    <3>3. master'[i] # 0 => route'[i] = route[i] BY <1>1, CutsWhat
    <3>4. QED BY <1>3, <3>1, <3>2, <3>3
  <2>3. \A d \in Callers : pc'[d] \in {"connected", "refused"} =>
           pc[d] \in {"connected", "refused"} /\ at'[d] = at[d]
    BY <1>3
  <2>4. pc'[Closer] = pc[Closer] /\ at'[Closer] = at[Closer] BY WhoIsWho
  <2>5. QED BY <2>1, <2>2, <2>3, <2>4, CloseStays
<1>8. \A j \in Ids : gate[j] \notin {c, Nobody} =>
         /\ gate'[j] = gate[j] /\ route'[j].gen = route[j].gen /\ route'[j].leases = route[j].leases
         /\ held'[c][j] \in {held[c][j], 0}
         /\ master'[j] \in {master[j], 0}
         /\ master'[j] # 0 => \A u \in Upstream(j) : master'[u] = master[u]
  <2>1. ASSUME NEW j \in Ids, gate[j] \notin {c, Nobody}
        PROVE  /\ gate'[j] = gate[j] /\ route'[j] = route[j] /\ master'[j] \in {master[j], 0}
               /\ master'[j] # 0 => \A u \in Upstream(j) : master'[u] = master[u]
    <3>1. j # i BY <1>1, <2>1
    <3>2. gate'[j] = gate[j] BY <3>1 DEF ManagerInv, TypeOK
    <3>3. \A u \in Upstream(j) : u \in Ids /\ j \in Below(u) BY <2>1, BelowTypes
    <3>4. QED BY <1>1, <2>1, <3>1, <3>2, <3>3, CutsWhat
  <2>2. QED BY <2>1
<1>9. \A d \in Callers \ {c} :
         want'[d] = want[d] /\ held'[d] = held[d] /\ counted'[d] = counted[d] /\ got'[d] = got[d]
  OBVIOUS
<1>10. QED BY <1>2, <1>4, <1>5, <1>6, <1>7, <1>8, <1>9, CallerGoesOn

LEMMA RefusalStep ==
    ASSUME ManagerInv, NEW c \in Callers, RefusalCuts(c)
    PROVE  ManagerInv'
<1>1. /\ pc[c] = "refused" /\ (Disconnected(at[c]) \/ NotDisconnected(at[c]))
      /\ gate' = [gate EXCEPT ![at[c]] = Nobody]
      /\ ReleaseNext(c, HeldBy(c), held[c], rolling \cup {c}) /\ rolling \cup {c} \in SUBSET Callers
      /\ UNCHANGED <<last, fired, closed, targets, awaited, closeErr, want, counted>>
      /\ got' = [got EXCEPT ![c] = 0]
  BY DEF RefusalCuts, RollBack, sweepVars, ManagerInv, TypeOK
<1>2. at[c] \in Ids BY <1>1, ConnectsAt
<1>3. /\ pc' \in [Actors -> Referencing \cup {"idle", "next", "held", "again", "abandoned", "list", "done"}]
      /\ at' \in [Actors -> Ids \cup {Nobody}] /\ rolling' \subseteq Callers
      /\ held' = held
      /\ \A a \in Actors \ {c} : pc'[a] = pc[a] /\ at'[a] = at[a]
      /\ pc'[c] \in {"drop", "idle", "abandoned", "again"}
      /\ CallerIsSound(c)' /\ ConnectionIsSound(c)' /\ HolderIsSound(c)'
  BY <1>1, KeepsNext
<1>4. master' \in [Ids -> 0..MaxGen] /\ route' \in [Ids -> Route \cup {NoRoute}] /\ failed' \subseteq Ids
  BY <1>1, <1>2, CutsWhat
<1>5. gate' \in [Ids -> Actors \cup {Nobody}] BY <1>1 DEF ManagerInv, TypeOK
<1>6. got' \in [Callers -> 0..MaxGen] /\ \A d \in Callers \ {c} : got'[d] = got[d]
  BY <1>1, WhoIsWho DEF ManagerInv, TypeOK
<1>7. TypeOK' BY <1>1, <1>3, <1>4, <1>5, <1>6 DEF ManagerInv, TypeOK, Route, NoRoute
<1>8. pc[c] \in {"refused", "cut"} /\ pc'[c] \notin {"connected", "refused"} BY <1>1, <1>3
<1>9. QED BY <1>1, <1>3, <1>6, <1>7, <1>8, CallerCuts

LEMMA ReleaseCutsStep ==
    ASSUME ManagerInv, NEW c \in Callers, ReleaseCuts(c)
    PROVE  ManagerInv'
<1>1. /\ pc[c] = "cut" /\ (Disconnected(at[c]) \/ NotDisconnected(at[c]))
      /\ gate' = [gate EXCEPT ![at[c]] = Nobody]
      /\ UNCHANGED <<last, fired, closed, targets, awaited, closeErr, want, got>>
  BY DEF ReleaseCuts, sweepVars
<1>2. at[c] \in Ids /\ at[c] \in HeldBy(c) BY <1>1, ConnectsAt DEF ManagerInv, CallerIsSound
<1>3. master' \in [Ids -> 0..MaxGen] /\ route' \in [Ids -> Route \cup {NoRoute}] /\ failed' \subseteq Ids
  BY <1>1, <1>2, CutsWhat
<1>4. gate' \in [Ids -> Actors \cup {Nobody}] BY <1>1 DEF ManagerInv, TypeOK
<1>5. pc[c] \in {"refused", "cut"} BY <1>1
<1>6. CASE /\ Disconnected(at[c])
           /\ ReleaseNext(c, Shallower(c), Dropped(c), rolling)
           /\ counted' = [counted EXCEPT ![c] = counted[c] \ {at[c]}]
  <2>1. /\ pc' \in [Actors -> Referencing \cup {"idle", "next", "held", "again", "abandoned", "list", "done"}]
        /\ at' \in [Actors -> Ids \cup {Nobody}] /\ rolling' \subseteq Callers
        /\ held' \in [Callers -> [Ids -> 0..MaxGen]] /\ held'[c][at[c]] = 0
        /\ \A j \in Ids \ {at[c]} : held'[c][j] = held[c][j]
        /\ \A d \in Callers \ {c} : held'[d] = held[d]
        /\ counted' \in [Callers -> SUBSET Ids] /\ counted'[c] = counted[c] \ {at[c]}
        /\ \A d \in Callers \ {c} : counted'[d] = counted[d]
        /\ \A a \in Actors \ {c} : pc'[a] = pc[a] /\ at'[a] = at[a]
        /\ pc'[c] \in {"drop", "idle", "abandoned", "again"}
        /\ CallerIsSound(c)' /\ ConnectionIsSound(c)' /\ HolderIsSound(c)'
    BY <1>1, <1>2, <1>6, DropsNext
  <2>2. TypeOK' BY <1>1, <1>3, <1>4, <2>1 DEF ManagerInv, TypeOK, Route, NoRoute
  <2>3. route'[at[c]] = NoRoute BY <1>2, <1>6 DEF Disconnected, ManagerInv, TypeOK
  <2>4. \A j \in Ids : held'[c][j] \in {held[c][j], 0}
    <3>1. \A j \in Ids : j = at[c] \/ held'[c][j] = held[c][j] BY <2>1
    <3>2. QED BY <2>1, <3>1
  <2>5. \A j \in Ids \ {at[c]} : held'[c][j] = held[c][j] /\ (j \in counted'[c] <=> j \in counted[c]) BY <2>1
  <2>6. QED BY <1>1, <1>5, <2>1, <2>2, <2>3, <2>4, <2>5, CallerCuts
<1>7. CASE /\ NotDisconnected(at[c])
           /\ ReleaseNext(c, Shallower(c), held[c], rolling) /\ UNCHANGED counted
  <2>1. Shallower(c) \in SUBSET HeldBy(c) /\ rolling \in SUBSET Callers BY DEF Shallower, ManagerInv, TypeOK
  <2>2. /\ pc' \in [Actors -> Referencing \cup {"idle", "next", "held", "again", "abandoned", "list", "done"}]
        /\ at' \in [Actors -> Ids \cup {Nobody}] /\ rolling' \subseteq Callers
        /\ held' = held
        /\ \A a \in Actors \ {c} : pc'[a] = pc[a] /\ at'[a] = at[a]
        /\ pc'[c] \in {"drop", "idle", "abandoned", "again"}
        /\ CallerIsSound(c)' /\ ConnectionIsSound(c)' /\ HolderIsSound(c)'
    BY <1>1, <1>7, <2>1, KeepsNext
  <2>3. TypeOK' BY <1>1, <1>3, <1>4, <1>7, <2>2 DEF ManagerInv, TypeOK, Route, NoRoute
  <2>4. QED BY <1>1, <1>5, <1>7, <2>2, <2>3, CallerCuts
<1>8. QED BY <1>6, <1>7 DEF ReleaseCuts

-----------------------------------------------------------------------------
(* Disconnect, by the sweep and by Close. *)

LEMMA WorkerStep ==
    ASSUME ManagerInv, NEW a \in {Sweeper, Closer}, WorkerCuts(a)
    PROVE  ManagerInv'
<1> DEFINE i == at[a]
<1>1. /\ pc[a] = "cut" /\ (Disconnected(i) \/ NotDisconnected(i))
      /\ gate' = [gate EXCEPT ![i] = Nobody] /\ at' = [at EXCEPT ![a] = Nobody]
      /\ UNCHANGED <<last, fired, closed, want, rolling, got, held, counted, targets, awaited>>
  BY DEF WorkerCuts, callerVars, Rests
<1>2. a \in Actors /\ a \notin Callers /\ i \in Ids /\ gate[i] = a BY <1>1, WhoIsWho DEF ManagerInv, HolderIsSound
<1>3. /\ pc' \in [Actors -> Referencing \cup {"idle", "next", "held", "again", "abandoned", "list", "done"}]
      /\ at' \in [Actors -> Ids \cup {Nobody}]
      /\ pc'[a] \in {"idle", "list"} /\ (a = Closer => pc'[a] = "list")
      /\ \A b \in Actors \ {a} : pc'[b] = pc[b] /\ at'[b] = at[b]
  <2>1. PICK l \in {"idle", "list"} : pc' = [pc EXCEPT ![a] = l] /\ (a = Closer => l = "list")
    BY WhoIsWho DEF WorkerCuts, Goes
  <2>2. QED BY <1>1, <1>2, <2>1 DEF ManagerInv, TypeOK, Referencing
<1>4. /\ master' \in [Ids -> 0..MaxGen] /\ route' \in [Ids -> Route \cup {NoRoute}] /\ failed' \subseteq Ids
      /\ \A j \in Ids \ {i} : route'[j] = route[j]
      /\ route'[i] = NoRoute \/ route'[i] = route[i]
      /\ \A j \in Ids : master'[j] \in {master[j], 0}
      /\ \A j \in Ids : master'[j] # 0 => /\ \A u \in Ids : j \in Below(u) => master'[u] = master[u]
                                          /\ j \in failed => j \in failed'
      /\ master'[i] # 0 => route'[i] = route[i] /\ (closed => i \in failed')
  BY <1>1, <1>2, CutsWhat
<1>5. gate' \in [Ids -> Actors \cup {Nobody}] /\ \A j \in Ids \ {i} : gate'[j] = gate[j]
  BY <1>1 DEF ManagerInv, TypeOK
<1>6. closeErr' \in BOOLEAN BY DEF WorkerCuts, ManagerInv, TypeOK
<1>7. TypeOK' BY <1>1, <1>3, <1>4, <1>5, <1>6 DEF ManagerInv, TypeOK, Route, NoRoute
<1>8. last' >= last /\ last \in Nat BY <1>1, WhoIsWho DEF ManagerInv, TypeOK
<1>9. /\ \A d \in Callers \ {a} : CallerIsSound(d)' /\ ConnectionIsSound(d)'
      /\ \A b \in Actors \ {a} : HolderIsSound(b)'
  <2>1. ASSUME NEW j \in Ids, gate[j] \notin {a, Nobody}
        PROVE  /\ gate'[j] = gate[j] /\ route'[j].gen = route[j].gen /\ route'[j].leases = route[j].leases
               /\ a \in Callers => held'[a][j] \in {held[a][j], 0}
               /\ master'[j] \in {master[j], 0}
               /\ master'[j] # 0 => \A u \in Upstream(j) : master'[u] = master[u]
    <3>1. j # i BY <1>2, <2>1
    <3>2. \A u \in Upstream(j) : u \in Ids /\ j \in Below(u) BY <2>1, BelowTypes
    <3>3. QED BY <1>2, <1>4, <1>5, <2>1, <3>1, <3>2
  <2>2. \A d \in Callers \ {a} :
           want'[d] = want[d] /\ held'[d] = held[d] /\ counted'[d] = counted[d] /\ got'[d] = got[d]
    BY <1>1
  <2>3. QED BY <1>2, <1>3, <1>7, <1>8, <2>1, <2>2, OthersStay
<1>10. HolderIsSound(a)' BY <1>3 DEF HolderIsSound
<1>11. \A d \in Callers : d \in Callers \ {a} /\ pc'[d] = pc[d] /\ at'[d] = at[d] BY <1>2, <1>3, WhoIsWho
<1>12. \A j \in Ids : MasterIsSound(j)'
  <2>1. \A d \in Callers, j \in Ids : held'[d][j] \in {held[d][j], 0} BY <1>1
  <2>2. last' = last /\ \A d \in Callers : pc[d] = "connected" => pc'[d] = pc[d] /\ at'[d] = at[d] BY <1>1, <1>11
  <2>3. QED BY <1>1, <1>2, <1>7, <2>1, <2>2, CutMasters
<1>13. LeaseCountIsExact'
  <2>1. \A j \in Ids : \A d \in Callers : held'[d][j] = held[d][j] /\ (j \in counted'[d] <=> j \in counted[d]) BY <1>1
  <2>2. QED BY <1>2, <1>4, <1>7, <2>1, CutCounts
<1>14. SweepIsSound'
  <2>1. CASE a = Sweeper BY <1>3, <2>1 DEF SweepIsSound
  <2>2. CASE a # Sweeper
    <3>1. pc'[Sweeper] = pc[Sweeper] /\ at'[Sweeper] = at[Sweeper] BY <1>3, <2>2, WhoIsWho
    <3>2. pc[Sweeper] = "cut" => at[Sweeper] \in Ids BY WhoIsWho DEF ManagerInv, HolderIsSound
    <3>3. pc[Sweeper] = "cut" => \A j \in Below(at[Sweeper]) : master'[j] \in {master[j], 0}
      BY <1>4, <3>2, BelowTypes
    <3>4. QED BY <3>1, <3>3, SameSweep
  <2>3. QED BY <2>1, <2>2
<1>15. CloseIsSound'
  <2>1. \A j \in Ids : master'[j] # 0 => master[j] # 0 /\ (j \in failed => j \in failed') BY <1>4
  <2>2. \A j \in Ids, d \in Callers :
           at[d] = j /\ (pc[d] = "refused" \/ (pc[d] = "connected" /\ route[j].gen = 0))
             /\ master'[j] # 0 /\ j \notin failed'
           => at'[d] = j /\ (pc'[d] = "refused" \/ (pc'[d] = "connected" /\ route'[j].gen = 0))
    <3>1. \A j \in Ids : master'[j] # 0 => route'[j] = route[j] BY <1>4
    <3>2. QED BY <1>11, <3>1
  <2>3. \A d \in Callers : pc'[d] \in {"connected", "refused"} =>
           pc[d] \in {"connected", "refused"} /\ at'[d] = at[d]
    BY <1>11
  <2>4. CASE a = Sweeper
    <3>1. pc'[Closer] = pc[Closer] /\ at'[Closer] = at[Closer] BY <1>3, <2>4, WhoIsWho
    <3>2. QED BY <1>1, <1>7, <2>1, <2>2, <2>3, <3>1, CloseStays
  <2>5. CASE a = Closer
    <3>1. CloseIsSound /\ closed /\ pc[Closer] = "cut" /\ at[Closer] = i /\ pc'[Closer] = "list"
      BY <1>1, <1>3, <2>5 DEF ManagerInv, CloseIsSound
    <3>2. closed' /\ ToVisit' = ToVisit /\ awaited' = awaited BY <1>1, <3>1 DEF ToVisit
    <3>3. \A d \in Callers : pc'[d] \in {"connected", "refused"} => at'[d] \in ToVisit' \cup awaited'
      BY <1>11, <3>1, <3>2 DEF CloseIsSound
    <3>4. \A j \in Ids : master'[j] # 0 =>
             j \in failed' \cup ToVisit' \cup awaited' \/ (pc'[Closer] = "cut" /\ at'[Closer] = j)
      <4>1. master'[i] # 0 => i \in failed' BY <1>2, <1>4, <3>1
      <4>2. \A j \in Ids : master[j] # 0 => j \in failed \cup ToVisit \cup awaited \/ i = j
        BY <3>1 DEF CloseIsSound
      <4>3. QED BY <2>1, <3>2, <4>1, <4>2
    <3>5. ASSUME NEW j \in awaited' \ failed', master'[j] # 0
          PROVE  \E d \in Callers : at'[d] = j /\ (pc'[d] = "refused" \/ (pc'[d] = "connected" /\ ~Known(j)'))
      <4>1. j \in Ids /\ j \in awaited \ failed /\ master[j] # 0 BY <1>7, <2>1, <3>2, <3>5 DEF TypeOK
      <4>2. PICK d \in Callers : at[d] = j /\ (pc[d] = "refused" \/ (pc[d] = "connected" /\ ~Known(j)))
        BY <3>1, <4>1 DEF CloseIsSound
      <4>3. (Known(j) <=> route[j].gen # 0) /\ (Known(j)' <=> route'[j].gen # 0)
        BY <1>7, <4>1, KnownIs DEF ManagerInv
      <4>4. at'[d] = j /\ (pc'[d] = "refused" \/ (pc'[d] = "connected" /\ route'[j].gen = 0))
        BY <2>2, <3>5, <4>1, <4>2, <4>3
      <4>5. QED BY <4>3, <4>4
    <3>6. CloseLeavesNothing' BY <3>1 DEF CloseLeavesNothing
    <3>7. QED BY <3>1, <3>2, <3>3, <3>4, <3>5, <3>6 DEF CloseIsSound
  <2>6. QED BY <2>4, <2>5
<1>16. QED BY <1>2, <1>7, <1>9, <1>10, <1>11, <1>12, <1>13, <1>14, <1>15 DEF ManagerInv

-----------------------------------------------------------------------------
(* Steps of Acquire. *)

LEMMA OpenClose ==
    ASSUME ManagerInv, TypeOK', ~closed, UNCHANGED <<closed, awaited>>, targets'[Closer] = targets[Closer],
           pc'[Closer] = pc[Closer], at'[Closer] = at[Closer]
    PROVE  CloseIsSound'
BY CloseStays

LEMMA BeginStep ==
    ASSUME ManagerInv, NEW c \in Callers, NEW t \in Terminals, Begin(c, t)
    PROVE  ManagerInv'
<1>1. /\ pc[c] = "idle" /\ ~closed /\ want' = [want EXCEPT ![c] = t]
      /\ at' = [at EXCEPT ![c] = Chain[t][1]] /\ Goes(c, "next")
      /\ UNCHANGED <<route, master, last, gate, fired, closed, rolling, got, held, counted, targets, awaited, closeErr, failed>>
  BY DEF Begin, managerVars, sweepVars
<1>2. 1 \in DOMAIN Chain[t] /\ Chain[t][1] \in Ids BY Chains
<1>3. /\ pc' \in [Actors -> Referencing \cup {"idle", "next", "held", "again", "abandoned", "list", "done"}]
      /\ at' \in [Actors -> Ids \cup {Nobody}] /\ want' \in [Callers -> Terminals]
      /\ pc'[c] = "next" /\ at'[c] = Chain[t][1] /\ want'[c] = t
      /\ \A a \in Actors \ {c} : pc'[a] = pc[a] /\ at'[a] = at[a]
      /\ \A d \in Callers \ {c} : want'[d] = want[d]
  BY <1>1, <1>2, WhoIsWho DEF ManagerInv, TypeOK, Referencing, Goes
<1>4. TypeOK' BY <1>1, <1>3 DEF ManagerInv, TypeOK, Route, NoRoute
<1>5. last' >= last /\ last \in Nat BY <1>1, WhoIsWho DEF ManagerInv, TypeOK
<1>6. CallerIsSound(c)'
  <2>1. CallerIsSound(c) /\ HeldBy(c) = {} /\ counted[c] = {} BY <1>1 DEF ManagerInv, CallerIsSound
  <2>2. \A i \in Ids : held[c][i] = 0 BY <2>1 DEF HeldBy
  <2>3. Path(c)' = Chain[t] /\ HeldBy(c)' = {} BY <1>1, <1>3, <2>1 DEF Path, HeldBy
  <2>4. \A l \in DOMAIN Chain[t] : Chain[t][l] \in Ids /\ l >= 1 BY Chains
  <2>5. \A l \in DOMAIN Chain[t] : held'[c][Chain[t][l]] # 0 <=> l < 1 BY <1>1, <2>2, <2>4, Chains
  <2>6. QED BY <1>1, <1>2, <1>3, <2>1, <2>3, <2>5 DEF CallerIsSound
<1>7. ConnectionIsSound(c)' /\ HolderIsSound(c)' BY <1>3 DEF ConnectionIsSound, HolderIsSound
<1>8. ASSUME NEW j \in Ids PROVE MasterIsSound(j)'
  <2>1. \A d \in Callers : pc[d] = "connected" => pc'[d] = "connected" /\ at'[d] = at[d] BY <1>1, <1>3, WhoIsWho
  <2>2. QED BY <1>1, <1>4, <1>5, <1>8, <2>1, MasterStays
<1>9. LeaseCountIsExact' BY <1>1, SameCount
<1>10. SweepIsSound' BY <1>1, <1>3, WhoIsWho, SameSweep
<1>11. CloseIsSound' BY <1>1, <1>3, <1>4, WhoIsWho, OpenClose
<1>12. QED BY <1>1, <1>3, <1>4, <1>5, <1>6, <1>7, <1>8, <1>9, <1>10, <1>11, CallerGoesOn

\* The hop before the one a caller turns to, which it has leased.
LEMMA LeasedBefore ==
    ASSUME ManagerInv, NEW c \in Callers, pc[c] \in {"next", "connected"}, at[c] \in Ids,
           NEW x \in Ids, at[c] \in Below(x)
    PROVE  \E w \in Upstream(at[c]) : held[c][w] # 0 /\ (w = x \/ w \in Below(x))
<1>1. want[c] \in Terminals /\ Path(c) = Chain[want[c]] BY DEF ManagerInv, TypeOK, Path
<1>2. PICK k \in DOMAIN Path(c) :
         at[c] = Path(c)[k] /\ \A l \in DOMAIN Path(c) : held[c][Path(c)[l]] # 0 <=> l < k
  BY DEF ManagerInv, CallerIsSound
<1>3. PICK l \in DOMAIN Path(c) : l < k /\ Path(c)[l] = x BY <1>1, <1>2, BelowOnPath
<1>4. k \in Nat /\ l \in Nat /\ l >= 1 /\ k > 1 BY <1>1, <1>2, <1>3, Chains
<1>5. k - 1 \in DOMAIN Path(c) /\ Path(c)[k - 1] \in Upstream(at[c]) BY <1>1, <1>2, <1>4, UpstreamIs
<1>6. held[c][Path(c)[k - 1]] # 0 BY <1>2, <1>4, <1>5
<1>7. l = k - 1 \/ l < k - 1 BY <1>3, <1>4
<1>8. Path(c)[k - 1] = x \/ Path(c)[k - 1] \in Below(x) BY <1>1, <1>3, <1>5, <1>7, OnPathBelow
<1>9. QED BY <1>5, <1>6, <1>8

LEMMA ConnectStep ==
    ASSUME ManagerInv, NEW c \in Callers, Connect(c)
    PROVE  ManagerInv'
<1> DEFINE i == at[c]
<1>1. PICK gen \in Nat : gen = IF master[i] # 0 THEN master[i] ELSE last + 1
  <2>1. CallerIsSound(c) /\ pc[c] = "next" BY DEF Connect, ManagerInv
  <2>2. PICK k \in DOMAIN Path(c) : i = Path(c)[k] BY <2>1 DEF CallerIsSound
  <2>3. want[c] \in Terminals BY DEF ManagerInv, TypeOK
  <2>4. i \in Ids BY <2>2, <2>3, Chains DEF Path
  <2>5. master[i] \in Nat /\ last \in Nat BY <2>4, WhoIsWho DEF ManagerInv, TypeOK
  <2>6. QED BY <2>5
<1>2. /\ pc[c] = "next" /\ gate[i] = Nobody /\ ~closed /\ gen <= MaxGen
      /\ \A u \in Upstream(i) : master[i] # 0 \/ master[u] = held[c][u]
      /\ master' = [master EXCEPT ![i] = gen] /\ last' = (IF gen > last THEN gen ELSE last)
      /\ gate' = [gate EXCEPT ![i] = c] /\ got' = [got EXCEPT ![c] = gen] /\ Goes(c, "connected")
      /\ UNCHANGED <<route, fired, closed, at, want, rolling, held, counted, targets, awaited, closeErr, failed>>
  BY <1>1 DEF Connect, sweepVars
<1>3. CallerIsSound(c) /\ want[c] \in Terminals /\ Path(c) = Chain[want[c]]
  BY DEF ManagerInv, TypeOK, Path
<1>4. i \in Ids
  <2>1. PICK k \in DOMAIN Path(c) : i = Path(c)[k] BY <1>2, <1>3 DEF CallerIsSound
  <2>2. QED BY <1>3, <2>1, Chains
<1>5. master[i] \in 0..MaxGen /\ last \in 0..MaxGen /\ MaxGen \in Nat /\ master[i] <= last
  BY <1>4, WhoIsWho DEF ManagerInv, TypeOK, MasterIsSound
<1>6. /\ gen # 0 /\ gen \in 0..MaxGen /\ last' \in 0..MaxGen /\ last' >= last /\ gen <= last'
      /\ master[i] = 0 => gen > last
      /\ master[i] # 0 => gen = master[i]
  BY <1>1, <1>2, <1>5
<1>7. /\ pc' \in [Actors -> Referencing \cup {"idle", "next", "held", "again", "abandoned", "list", "done"}]
      /\ pc'[c] = "connected" /\ \A a \in Actors \ {c} : pc'[a] = pc[a]
  BY <1>2, WhoIsWho DEF ManagerInv, TypeOK, Referencing, Goes
<1>8. /\ master' \in [Ids -> 0..MaxGen] /\ master'[i] = gen /\ \A j \in Ids \ {i} : master'[j] = master[j]
  BY <1>2, <1>4, <1>6 DEF ManagerInv, TypeOK
<1>9. /\ gate' \in [Ids -> Actors \cup {Nobody}] /\ gate'[i] = c /\ \A j \in Ids \ {i} : gate'[j] = gate[j]
  BY <1>2, <1>4, WhoIsWho DEF ManagerInv, TypeOK
<1>10. /\ got' \in [Callers -> 0..MaxGen] /\ got'[c] = gen /\ \A d \in Callers \ {c} : got'[d] = got[d]
  BY <1>2, <1>6 DEF ManagerInv, TypeOK
<1>11. TypeOK' BY <1>2, <1>6, <1>7, <1>8, <1>9, <1>10 DEF ManagerInv, TypeOK, Route, NoRoute
<1>12. \A d \in Callers, j \in Ids : held[d][j] \in Nat /\ held[d][j] <= last
  BY WhoIsWho DEF ManagerInv, CallerIsSound, TypeOK
<1>13. CallerIsSound(c)'
  <2>1. HeldBy(c)' = HeldBy(c) /\ Path(c)' = Path(c) BY <1>2 DEF HeldBy, Path
  <2>2. \A j \in Ids : held'[c][j] <= last' BY <1>2, <1>5, <1>6, <1>12
  <2>3. QED BY <1>2, <1>3, <1>7, <2>1, <2>2 DEF CallerIsSound
<1>14. \A d \in Callers : held[d][i] = gen => master[i] = gen /\ route[i].gen = gen
  <2>1. ASSUME NEW d \in Callers, held[d][i] = gen PROVE master[i] = gen /\ route[i].gen = gen
    <3>1. held[d][i] <= last /\ held[d][i] \in Nat BY <1>4, <1>12
    <3>2. ~(gen > last) BY <1>5, <2>1, <3>1
    <3>3. master[i] = gen BY <1>6, <3>2
    <3>4. QED BY <1>4, <1>6, <2>1, <3>3 DEF ManagerInv, MasterIsSound
  <2>2. QED BY <2>1
<1>15. master[i] # 0 => Known(i) BY <1>2, <1>4, GateIsFree DEF ManagerInv, MasterIsSound
<1>16. \A u \in Upstream(i) : u \in Ids /\ u # i /\ i \in Below(u) BY <1>4, BelowTypes
<1>17. ConnectionIsSound(c)'
  <2>1. \A d \in Callers : held'[d][i] = gen => route'[i].gen = gen BY <1>2, <1>14
  <2>2. ~Known(i)' => \A u \in Upstream(i) : held'[c][u] = master'[u]
    <3>1. Known(i)' <=> Known(i) BY <1>2 DEF Known
    <3>2. QED BY <1>2, <1>8, <1>15, <1>16, <3>1
  <2>3. at'[c] = i BY <1>2
  <2>4. QED BY <1>6, <1>8, <1>10, <2>1, <2>2, <2>3 DEF ConnectionIsSound
<1>18. HolderIsSound(c)' BY <1>2, <1>4, <1>7, <1>9 DEF HolderIsSound
\* What lives above and below.
<1>19. ASSUME NEW j \in Ids, master[j] # 0, NEW u \in Ids, j \in Below(u)
       PROVE  master'[u] = master[u] /\ master[u] # 0
  <2>1. master[u] # 0 BY <1>19 DEF ManagerInv, MasterIsSound
  <2>2. QED BY <1>6, <1>8, <1>19, <2>1
<1>20. ASSUME NEW u \in Ids, i \in Below(u), master[i] = 0
       PROVE  master[u] # 0 /\ Known(u)
  <2>1. PICK w \in Upstream(i) : held[c][w] # 0 /\ (w = u \/ w \in Below(u)) BY <1>2, <1>4, <1>20, LeasedBefore
  <2>2. w \in Ids /\ master[w] # 0 /\ route[w].gen = master[w]
    BY <1>2, <1>16, <1>20, <2>1 DEF ManagerInv, MasterIsSound
  <2>3. Known(w) BY <1>11, <2>2, KnownIs DEF ManagerInv
  <2>4. QED BY <1>20, <2>1, <2>2, <2>3 DEF ManagerInv, MasterIsSound
<1>21. ASSUME NEW j \in Ids PROVE MasterIsSound(j)'
  <2>1. \A d \in Callers : pc[d] = "connected" => pc'[d] = "connected" /\ at'[d] = at[d] BY <1>2, <1>7, WhoIsWho
  <2>2. CASE master'[j] = master[j]
    <3>1. master'[j] # 0 => \A u \in Ids : j \in Below(u) => master'[u] = master[u] BY <1>19, <1>21, <2>2
    <3>2. QED BY <1>2, <1>6, <1>11, <1>21, <2>1, <2>2, <3>1, MasterStays
  <2>3. CASE master'[j] # master[j]
    <3>1. j = i /\ master[i] = 0 BY <1>6, <1>8, <1>21, <2>3
    <3>2. \A d \in Callers : held'[d][i] # gen BY <1>2, <1>6, <1>14, <3>1
    <3>3. pc'[c] = "connected" /\ at'[c] = i BY <1>2, <1>7
    <3>4. \A u \in Ids : i \in Below(u) => master'[u] # 0 /\ Known(u)'
      <4>1. ASSUME NEW u \in Ids, i \in Below(u) PROVE master'[u] # 0 /\ Known(u)'
        <5>1. u # i BY <4>1, BelowTypes
        <5>2. master[u] # 0 /\ Known(u) BY <1>20, <3>1, <4>1
        <5>3. QED BY <1>2, <1>8, <5>1, <5>2 DEF Known
      <4>2. QED BY <4>1
    <3>5. QED BY <1>6, <1>8, <3>1, <3>2, <3>3, <3>4 DEF MasterIsSound
  <2>4. QED BY <2>2, <2>3
<1>22. LeaseCountIsExact' BY <1>2, SameCount
<1>23. SweepIsSound'
  <2>1. SUFFICES ASSUME pc[Sweeper] = "cut", NEW j \in Below(at[Sweeper]) PROVE master'[j] = 0
    BY <1>2, <1>7, WhoIsWho DEF SweepIsSound, ManagerInv
  <2>2. at[Sweeper] \in Ids /\ route[at[Sweeper]].leases = 0 BY <2>1, WhoIsWho DEF ManagerInv, HolderIsSound
  <2>3. master[j] = 0 /\ j \in Ids BY <2>1, <2>2, BelowTypes DEF ManagerInv, SweepIsSound
  <2>4. CASE j # i BY <1>8, <2>3, <2>4
  <2>5. CASE j = i
    <3>1. PICK w \in Upstream(i) : held[c][w] # 0 /\ (w = at[Sweeper] \/ w \in Below(at[Sweeper]))
      BY <1>2, <1>4, <2>1, <2>2, <2>5, LeasedBefore
    <3>2. master[w] = held[c][w] BY <1>2, <2>3, <2>5, <3>1
    <3>3. w = at[Sweeper] BY <2>1, <3>1, <3>2 DEF ManagerInv, SweepIsSound
    <3>4. w \in counted[c] BY <2>2, <3>1, <3>2, <3>3, NoLease
    <3>5. QED BY <1>2, <1>3, <3>4 DEF CallerIsSound
  <2>6. QED BY <2>4, <2>5
<1>24. CloseIsSound' BY <1>2, <1>7, <1>11, WhoIsWho, OpenClose
<1>25. \A j \in Ids : gate[j] \notin {c, Nobody} =>
          /\ gate'[j] = gate[j] /\ route'[j].gen = route[j].gen /\ route'[j].leases = route[j].leases
          /\ held'[c][j] \in {held[c][j], 0}
          /\ master'[j] \in {master[j], 0}
          /\ master'[j] # 0 => \A u \in Upstream(j) : master'[u] = master[u]
  <2>1. ASSUME NEW j \in Ids, gate[j] \notin {c, Nobody}
        PROVE  /\ gate'[j] = gate[j] /\ master'[j] = master[j]
               /\ master'[j] # 0 => \A u \in Upstream(j) : master'[u] = master[u]
    <3>1. j # i BY <1>2, <2>1
    <3>2. \A u \in Upstream(j) : u \in Ids /\ j \in Below(u) BY <2>1, BelowTypes
    <3>3. QED BY <1>8, <1>9, <1>19, <2>1, <3>1, <3>2
  <2>2. QED BY <1>2, <2>1
<1>26. \A d \in Callers \ {c} :
          want'[d] = want[d] /\ held'[d] = held[d] /\ counted'[d] = counted[d] /\ got'[d] = got[d]
  BY <1>2, <1>10
<1>27. \A a \in Actors \ {c} : pc'[a] = pc[a] /\ at'[a] = at[a] BY <1>2, <1>7
<1>28. last' >= last /\ \A j \in Ids : MasterIsSound(j)' BY <1>6, <1>21
<1>29. QED BY <1>11, <1>13, <1>17, <1>18, <1>22, <1>23, <1>24, <1>25, <1>26, <1>27, <1>28, CallerGoesOn

LEMMA LeaseCounts ==
    ASSUME ManagerInv, NEW c \in Callers, pc[c] = "connected"
    PROVE  /\ Leased(route[at[c]], got[c]) \in Route
           /\ Leased(route[at[c]], got[c]).gen = got[c]
           /\ Leased(route[at[c]], got[c]).leases
                = Cardinality({d \in Callers : at[c] \notin counted[d] /\ held[d][at[c]] = got[c]} \cup {c})
<1> DEFINE i == at[c]
<1> DEFINE L == {d \in Callers : i \notin counted[d] /\ held[d][i] = got[c]}
<1>1. /\ i \in Ids /\ route[i] \in Route \cup {NoRoute} /\ got[c] \in 1..MaxGen
      /\ \A d \in Callers : held[d][i] = got[c] => route[i].gen = got[c]
  BY ConnectsAt, WhoIsWho DEF ManagerInv, TypeOK, ConnectionIsSound
<1>2. held[c][i] = 0 /\ c \notin L
  <2>1. PICK k \in DOMAIN Path(c) : i = Path(c)[k] /\ \A l \in DOMAIN Path(c) : held[c][Path(c)[l]] # 0 <=> l < k
    BY DEF ManagerInv, CallerIsSound
  <2>2. ~(k < k) BY Chains DEF ManagerInv, TypeOK, Path
  <2>3. held[c][i] = 0 BY <2>1, <2>2
  <2>4. QED BY <1>1, <2>3
<1>3. IsFiniteSet(Callers) BY ManagerAssumption DEF ManagerAssumption
<1>4. IsFiniteSet(L) /\ IsFiniteSet(L \cup {c}) /\ Cardinality(L \cup {c}) = Cardinality(L) + 1
  <2>1. IsFiniteSet(L) BY <1>3, FS_Subset
  <2>2. QED BY <1>2, <2>1, FS_AddElement
<1>5. Cardinality(L \cup {c}) \in Nat /\ Cardinality(L \cup {c}) <= Cardinality(Callers) /\ Cardinality(Callers) \in Nat
  <2>1. L \cup {c} \subseteq Callers OBVIOUS
  <2>2. QED BY <1>3, <1>4, <2>1, FS_Subset, FS_CardinalityType
<1>6. PICK s \in Route \cup {NoRoute} \cup {FreshRoute(got[c])} :
         s = (IF route[i].gen = got[c] THEN route[i] ELSE FreshRoute(got[c]))
  BY <1>1
<1>7. s \in Route /\ s.gen = got[c] /\ s.leases = Cardinality(L)
  <2>1. CASE route[i].gen = got[c]
    <3>1. s = route[i] /\ s.gen = got[c] /\ got[c] # 0 BY <1>1, <1>6, <2>1
    <3>2. s \in Route /\ Known(i) BY <1>1, <3>1, Records DEF Known
    <3>3. {d \in Callers : Counts(d, i) /\ held[d][i] = route[i].gen} = L BY <2>1, <3>1 DEF Counts
    <3>4. route[i].leases = Cardinality(L) BY <1>1, <3>2, <3>3 DEF ManagerInv, LeaseCountIsExact
    <3>5. QED BY <3>1, <3>2, <3>4
  <2>2. CASE route[i].gen # got[c]
    <3>1. s = FreshRoute(got[c]) BY <1>6, <2>2
    <3>2. FreshRoute(got[c]) \in Route /\ FreshRoute(got[c]).leases = 0 /\ FreshRoute(got[c]).gen = got[c]
      <4>1. 0 \in 0..Cardinality(Callers) BY <1>5
      <4>2. QED BY <1>1, <4>1 DEF FreshRoute, NoRoute, Route
    <3>3. L = {} BY <1>1, <2>2
    <3>4. Cardinality(L) = 0 BY <3>3, FS_EmptySet
    <3>5. QED BY <3>1, <3>2, <3>4
  <2>3. QED BY <2>1, <2>2
<1>8. PICK n : n = [s EXCEPT !.idle = "none", !.leases = s.leases + 1, !.beat = TRUE] OBVIOUS
<1>9. Leased(route[i], got[c]) = n BY <1>6, <1>8 DEF Leased
<1> HIDE DEF L
<1>10. s.leases + 1 = Cardinality(L \cup {c}) BY <1>4, <1>7
<1>11. s.leases + 1 \in 0..Cardinality(Callers) BY <1>5, <1>10
<1>12. n \in Route /\ n.gen = got[c] /\ n.leases = s.leases + 1 BY <1>7, <1>8, <1>11 DEF Route
<1>13. QED BY <1>9, <1>10, <1>12 DEF L

LEMMA LeaseStep ==
    ASSUME ManagerInv, NEW c \in Callers, Lease(c)
    PROVE  ManagerInv'
<1> DEFINE i == at[c]
<1> DEFINE g == got[c]
<1>1. /\ pc[c] = "connected" /\ ~closed
      /\ route' = [route EXCEPT ![i] = Leased(route[i], g)]
      /\ fired' \in {fired, fired \cup {i}} /\ failed' = failed \ {i}
      /\ held' = [held EXCEPT ![c][i] = g] /\ got' = [got EXCEPT ![c] = 0]
      /\ gate' = [gate EXCEPT ![i] = Nobody]
      /\ UNCHANGED <<master, last, closed, want, rolling, counted, targets, awaited, closeErr>>
  BY DEF Lease, sweepVars
<1>2. i \in Ids /\ gate[i] = c /\ g \in 0..MaxGen /\ g # 0 /\ g <= last /\ master[i] \in {0, g}
  BY <1>1, ConnectsAt DEF ManagerInv, TypeOK, ConnectionIsSound
<1>3. CallerIsSound(c) /\ want[c] \in Terminals /\ Path(c) = Chain[want[c]] /\ counted[c] = {}
  BY <1>1 DEF ManagerInv, TypeOK, Path, CallerIsSound
<1>4. PICK k \in DOMAIN Path(c) : i = Path(c)[k] /\ \A l \in DOMAIN Path(c) : held[c][Path(c)[l]] # 0 <=> l < k
  BY <1>1, <1>3 DEF CallerIsSound
<1>5. k \in Nat /\ Depth(i) = k /\ \A l \in DOMAIN Path(c) : l \in Nat /\ Path(c)[l] \in Ids /\ (Path(c)[l] = i => l = k)
  BY <1>3, <1>4, Chains, DepthIs
<1>6. /\ held' \in [Callers -> [Ids -> 0..MaxGen]] /\ held'[c][i] = g
      /\ \A j \in Ids \ {i} : held'[c][j] = held[c][j]
      /\ \A d \in Callers \ {c} : held'[d] = held[d]
  BY <1>1, <1>2 DEF ManagerInv, TypeOK
<1>7. PICK r \in Route : /\ route' = [route EXCEPT ![i] = r] /\ r.gen = g
                         /\ r.leases = Cardinality({d \in Callers : i \notin counted[d] /\ held[d][i] = g} \cup {c})
  BY <1>1, LeaseCounts
<1>8. /\ route' \in [Ids -> Route \cup {NoRoute}] /\ route'[i] = r
      /\ \A j \in Ids \ {i} : route'[j] = route[j]
  BY <1>2, <1>7, RouteUpdates DEF ManagerInv
<1>9. /\ gate' \in [Ids -> Actors \cup {Nobody}] /\ \A j \in Ids \ {i} : gate'[j] = gate[j]
  BY <1>1 DEF ManagerInv, TypeOK
<1>10. got' \in [Callers -> 0..MaxGen] /\ \A d \in Callers \ {c} : got'[d] = got[d]
  BY <1>1, WhoIsWho DEF ManagerInv, TypeOK
<1>11. i # want[c] => k + 1 \in DOMAIN Path(c) /\ Path(c)[k + 1] \in Ids
  <2>1. /\ Len(Path(c)) \in Nat /\ DOMAIN Path(c) = 1..Len(Path(c)) /\ Path(c)[Len(Path(c))] = want[c]
        /\ \A l \in DOMAIN Path(c) : Path(c)[l] \in Ids
    BY <1>3, Chains
  <2>2. i # want[c] => k # Len(Path(c)) BY <1>4, <2>1
  <2>3. QED BY <1>4, <2>1, <2>2
<1>12. /\ pc' \in [Actors -> Referencing \cup {"idle", "next", "held", "again", "abandoned", "list", "done"}]
       /\ at' \in [Actors -> Ids \cup {Nobody}]
       /\ \A a \in Actors \ {c} : pc'[a] = pc[a] /\ at'[a] = at[a]
       /\ pc'[c] \in {"held", "next"}
       /\ pc'[c] = "next" => k + 1 \in DOMAIN Path(c) /\ at'[c] = Path(c)[k + 1]
  <2>1. CASE i = want[c] /\ Goes(c, "held") /\ at' = [at EXCEPT ![c] = Nobody]
    BY <2>1, WhoIsWho DEF ManagerInv, TypeOK, Referencing, Goes
  <2>2. CASE i # want[c] /\ at' = [at EXCEPT ![c] = Path(c)[k + 1]] /\ Goes(c, "next")
    BY <1>11, <2>2, WhoIsWho DEF ManagerInv, TypeOK, Referencing, Goes
  <2>3. QED BY <1>5, <2>1, <2>2 DEF Lease
<1>13. fired' \subseteq Ids /\ failed' \subseteq Ids BY <1>1, <1>2 DEF ManagerInv, TypeOK
<1>14. TypeOK' BY <1>1, <1>6, <1>8, <1>9, <1>10, <1>12, <1>13 DEF ManagerInv, TypeOK, Route, NoRoute
<1>15. last' >= last /\ last' = last /\ last \in Nat BY <1>1, WhoIsWho DEF ManagerInv, TypeOK
<1>16. CallerIsSound(c)'
  <2>1. Path(c)' = Path(c) /\ counted'[c] = {} BY <1>1, <1>3 DEF Path
  <2>2. \A j \in Ids : held'[c][j] <= last'
    <3>1. \A j \in Ids : held[c][j] <= last BY <1>3 DEF CallerIsSound
    <3>2. \A j \in Ids : j = i \/ held'[c][j] = held[c][j] BY <1>6
    <3>3. QED BY <1>2, <1>6, <1>15, <3>1, <3>2
  <2>3. \A j \in HeldBy(c)' : j \in HeldBy(c) \/ j = i BY <1>6 DEF HeldBy
  <2>4. \A j \in HeldBy(c)' : \E l \in DOMAIN Path(c) : Path(c)[l] = j BY <1>3, <1>4, <2>3 DEF CallerIsSound
  <2>5. \A l \in DOMAIN Path(c) : held'[c][Path(c)[l]] # 0 <=> l < k + 1
    <3>1. ASSUME NEW l \in DOMAIN Path(c) PROVE held'[c][Path(c)[l]] # 0 <=> l < k + 1
      <4>1. CASE l = k BY <1>2, <1>4, <1>5, <1>6, <4>1
      <4>2. CASE l # k
        <5>1. Path(c)[l] \in Ids \ {i} /\ l \in Nat BY <1>5, <4>2
        <5>2. held'[c][Path(c)[l]] = held[c][Path(c)[l]] BY <1>6, <5>1
        <5>3. QED BY <1>4, <1>5, <4>2, <5>1, <5>2
      <4>3. QED BY <4>1, <4>2
    <3>2. QED BY <3>1
  <2>6. QED BY <1>12, <2>1, <2>2, <2>4, <2>5 DEF CallerIsSound
<1>17. ConnectionIsSound(c)' /\ HolderIsSound(c)' BY <1>12 DEF ConnectionIsSound, HolderIsSound
<1>18. ASSUME NEW j \in Ids PROVE MasterIsSound(j)'
  <2>1. \A d \in Callers : pc[d] = "connected" /\ at[d] = j =>
           route'[j].gen # 0 \/ (pc'[d] = "connected" /\ at'[d] = j)
    <3>1. j = i => route'[j].gen # 0 BY <1>2, <1>7, <1>8
    <3>2. \A d \in Callers : d = c \/ (pc'[d] = pc[d] /\ at'[d] = at[d]) BY <1>12, WhoIsWho
    <3>3. QED BY <3>1, <3>2
  <2>2. \A u \in Ids : route[u].gen # 0 => route'[u].gen # 0 BY <1>2, <1>7, <1>8
  <2>3. master'[j] # 0 => \/ route'[j].gen = master[j]
                          \/ route'[j].gen = route[j].gen /\ \A d \in Callers : held'[d][j] \in {held[d][j], 0}
    <3>1. CASE j = i BY <1>1, <1>2, <1>7, <1>8, <3>1
    <3>2. CASE j # i
      <4>1. \A d \in Callers : held'[d][j] = held[d][j]
        <5>1. \A d \in Callers : d = c \/ held'[d] = held[d] BY <1>6
        <5>2. held'[c][j] = held[c][j] BY <1>6, <1>18, <3>2
        <5>3. QED BY <5>1, <5>2
      <4>2. route'[j] = route[j] BY <1>8, <1>18, <3>2
      <4>3. QED BY <4>1, <4>2
    <3>3. QED BY <3>1, <3>2
  <2>4. master'[j] = master[j] /\ \A u \in Ids : master'[u] = master[u] BY <1>1
  <2>5. QED BY <1>14, <1>15, <1>18, <2>1, <2>2, <2>3, <2>4, MasterStays
<1>19. LeaseCountIsExact'
  <2>1. \A j \in Ids \ {i} : /\ held'[c][j] = held[c][j] /\ (j \in counted'[c] <=> j \in counted[c])
                             /\ route'[j].gen = route[j].gen /\ route'[j].leases = route[j].leases
    BY <1>1, <1>6, <1>8
  <2>2. \A d \in Callers \ {c} : held'[d] = held[d] /\ counted'[d] = counted[d] BY <1>1, <1>6
  <2>3. {d \in Callers : i \notin counted'[d] /\ held'[d][i] = g}
          = {d \in Callers : i \notin counted[d] /\ held[d][i] = g} \cup {c}
    <3>1. i \notin counted'[c] /\ held'[c][i] = g BY <1>1, <1>3, <1>6
    <3>2. QED BY <2>2, <3>1
  <2>4. route'[i].leases = Cardinality({d \in Callers : i \notin counted'[d] /\ held'[d][i] = route'[i].gen})
    <3>1. route'[i].gen = g BY <1>7, <1>8
    <3>2. {d \in Callers : i \notin counted'[d] /\ held'[d][i] = route'[i].gen}
            = {d \in Callers : i \notin counted'[d] /\ held'[d][i] = g}
      BY <3>1
    <3>3. route'[i].leases = Cardinality({d \in Callers : i \notin counted[d] /\ held[d][i] = g} \cup {c})
      BY <1>7, <1>8
    <3>4. QED BY <2>3, <3>2, <3>3
  <2>5. QED BY <1>2, <1>14, <2>1, <2>2, <2>4, OtherCounts
<1>20. SweepIsSound' BY <1>1, <1>12, WhoIsWho, SameSweep
<1>21. CloseIsSound' BY <1>1, <1>12, <1>14, WhoIsWho, OpenClose
<1>22. \A j \in Ids : gate[j] \notin {c, Nobody} =>
          /\ gate'[j] = gate[j] /\ route'[j].gen = route[j].gen /\ route'[j].leases = route[j].leases
          /\ held'[c][j] \in {held[c][j], 0}
          /\ master'[j] \in {master[j], 0}
          /\ master'[j] # 0 => \A u \in Upstream(j) : master'[u] = master[u]
  <2>1. \A j \in Ids : gate[j] \notin {c, Nobody} => j # i BY <1>2
  <2>2. QED BY <1>1, <1>6, <1>8, <1>9, <2>1
<1>23. \A d \in Callers \ {c} :
          want'[d] = want[d] /\ held'[d] = held[d] /\ counted'[d] = counted[d] /\ got'[d] = got[d]
  BY <1>1, <1>6, <1>10
<1>24. \A a \in Actors \ {c} : pc'[a] = pc[a] /\ at'[a] = at[a] BY <1>12
<1>25. \A j \in Ids : MasterIsSound(j)' BY <1>18
<1>26. QED BY <1>14, <1>15, <1>16, <1>17, <1>19, <1>20, <1>21, <1>22, <1>23, <1>24, <1>25, CallerGoesOn

-----------------------------------------------------------------------------
(* The manager as a whole. *)

LEMMA InitManager == ASSUME Init PROVE ManagerInv
<1>1. MaxGen \in Nat /\ Terminals # {} /\ Cardinality(Callers) \in Nat
  BY ManagerAssumption, FS_CardinalityType DEF ManagerAssumption
<1>2. (CHOOSE t \in Terminals : TRUE) \in Terminals BY <1>1
<1>3. TypeOK
  <2>1. route \in [Ids -> Route \cup {NoRoute}] BY DEF Init
  <2>2. master \in [Ids -> 0..MaxGen] /\ last \in 0..MaxGen BY <1>1 DEF Init
  <2>7. gate \in [Ids -> Actors \cup {Nobody}] /\ at \in [Actors -> Ids \cup {Nobody}] BY DEF Init
  <2>8. fired \subseteq Ids /\ closed \in BOOLEAN BY DEF Init
  <2>6. pc \in [Actors -> Referencing \cup {"idle", "next", "held", "again", "abandoned", "list", "done"}]
    BY DEF Init
  <2>3. /\ want \in [Callers -> Terminals] /\ rolling \subseteq Callers /\ got \in [Callers -> 0..MaxGen]
        /\ held \in [Callers -> [Ids -> 0..MaxGen]] /\ counted \in [Callers -> SUBSET Ids]
    BY <1>1, <1>2 DEF Init
  <2>4. /\ targets \in [{Sweeper, Closer} -> SUBSET (Ids \X (1..MaxGen))]
        /\ awaited \subseteq Ids /\ closeErr \in BOOLEAN /\ failed \subseteq Ids
    BY DEF Init
  <2>5. QED BY <2>1, <2>2, <2>3, <2>4, <2>6, <2>7, <2>8 DEF TypeOK
<1>4. /\ \A a \in Actors : pc[a] = "idle"
      /\ \A i \in Ids : route[i] = NoRoute /\ master[i] = 0
      /\ \A c \in Callers : counted[c] = {} /\ \A i \in Ids : held[c][i] = 0
      /\ last = 0
  BY DEF Init
<1>5. LeaseCountIsExact BY <1>4 DEF LeaseCountIsExact, Known
<1>6. ASSUME NEW c \in Callers PROVE CallerIsSound(c) /\ ConnectionIsSound(c)
  <2>1. pc[c] = "idle" /\ HeldBy(c) = {} BY <1>4, <1>6, WhoIsWho DEF HeldBy
  <2>2. QED BY <1>4, <1>6, <2>1 DEF CallerIsSound, ConnectionIsSound
<1>7. \A a \in Actors : HolderIsSound(a) BY <1>4 DEF HolderIsSound
<1>8. \A i \in Ids : MasterIsSound(i) BY <1>4 DEF MasterIsSound
<1>9. SweepIsSound BY <1>4, WhoIsWho DEF SweepIsSound
<1>10. CloseIsSound BY <1>4, WhoIsWho DEF CloseIsSound, CloseLeavesNothing
<1>11. QED BY <1>3, <1>5, <1>6, <1>7, <1>8, <1>9, <1>10 DEF ManagerInv

LEMMA NextManager == ASSUME ManagerInv, [Next]_vars PROVE ManagerInv'
<1>1. CASE UNCHANGED vars
  BY <1>1 DEF vars, managerVars, callerVars, sweepVars, ManagerInv, TypeOK, Route, NoRoute,
     LeaseCountIsExact, Known, Counts, CallerIsSound, HeldBy, Path, HolderIsSound, ConnectionIsSound,
     MasterIsSound, SweepIsSound, CloseIsSound, ToVisit, CloseLeavesNothing
<1>2. ASSUME NEW c \in Callers, Acquiring(c) PROVE ManagerInv'
  BY <1>2, BeginStep, GivesUp, ConnectStep, LeaseStep, RefuseStep, RefusalStep DEF Acquiring
<1>3. ASSUME NEW c \in Callers, Ending(c) PROVE ManagerInv'
  BY <1>3, GivesUp, ReleaseLeaseStep, ReleaseCutsStep DEF Ending
<1>4. ASSUME NEW i \in Ids, DeadlinePasses(i) \/ MasterDies(i) PROVE ManagerInv'
  BY <1>4, DeadlineStep, MasterDiesStep
<1>5. CASE Sweeping
  BY <1>5, SweepStarts, SweepGoesOn, WorkerStep DEF Sweeping
<1>6. CASE Closing
  BY <1>6, CloseStarts, CloseGoesOn, CloseEnds, WorkerStep DEF Closing
<1>7. QED BY <1>1, <1>2, <1>3, <1>4, <1>5, <1>6 DEF Next

LEMMA ManagerKeeps == ASSUME ManagerInv PROVE MastersAreKept /\ CloseLeavesNothing
<1>1. LeasedMasterIsKept
  <2>1. SUFFICES ASSUME NEW a \in Actors, NEW i \in Ids, Cuts(a, i), NEW c \in Callers,
                        Counts(c, i), held[c][i] = master[i]
                 PROVE  FALSE
    BY DEF LeasedMasterIsKept
  <2>2. route[i].leases = 0 BY <2>1 DEF Cuts, ManagerInv, HolderIsSound
  <2>3. i \in counted[c] BY <2>1, <2>2, NoLease DEF Counts
  <2>4. QED BY <2>1, <2>3 DEF Counts
<1>2. SweepSparesTransports
  BY BelowTypes DEF SweepSparesTransports, Cuts, ManagerInv, SweepIsSound
<1>3. QED BY <1>1, <1>2 DEF MastersAreKept, ManagerInv, CloseIsSound

\* The count of a route is that of its unreleased leases; neither the sweep nor a
\* refused acquisition nor another release disconnects under a lease, and the
\* sweep cuts no hop under a connection through it; and when a Close succeeds it
\* has come by every master and acquisition, and none lives but what could not be
\* disconnected.
THEOREM ConnectionsStayKept == ServicesSpec => []ConnectionsAreKept
<1>1. ServicesInit => ManagerInv BY InitManager DEF ServicesInit
<1>2. ManagerInv /\ [ServicesNext]_services => ManagerInv'
  <2>1. SUFFICES ASSUME ManagerInv, [ServicesNext]_services PROVE ManagerInv' OBVIOUS
  <2>2. [Next]_vars BY <2>1 DEF ServicesNext, services
  <2>3. QED BY <2>1, <2>2, NextManager
<1>3. ManagerInv => ConnectionsAreKept BY ManagerKeeps DEF ConnectionsAreKept
<1>4. QED BY <1>1, <1>2, <1>3, PTL DEF ServicesSpec

-----------------------------------------------------------------------------
(* Dashboard: rows and their types. *)

LEMMA RowsAre ==
    ASSUME NEW rows \in dash!Rows
    PROVE  DOMAIN rows \in SUBSET Paths /\ rows \in [DOMAIN rows -> dash!Row]
  BY DEF dash!Rows

LEMMA RowsFrom ==
    ASSUME NEW paths \in SUBSET Paths, NEW rows \in [paths -> dash!Row]
    PROVE  rows \in dash!Rows
  BY DEF dash!Rows

LEMMA EmptyIsRows == dash!Empty \in dash!Rows
<1>1. dash!Empty \in [{} -> dash!Row] BY DEF dash!Empty
<1>2. QED BY <1>1, RowsFrom

LEMMA OnlyIsRows ==
    ASSUME NEW rows \in dash!Rows, NEW paths PROVE dash!Only(rows, paths) \in dash!Rows
<1>1. dash!Only(rows, paths) \in [DOMAIN rows \cap paths -> dash!Row]
  BY RowsAre DEF dash!Only
<1>2. DOMAIN rows \cap paths \in SUBSET Paths BY RowsAre
<1>3. QED BY <1>1, <1>2, RowsFrom

LEMMA ListedIsRows ==
    ASSUME NEW d \in [Paths -> [gen : 0..2, head : 0..1]], NEW statuses \in BOOLEAN
    PROVE  dash!Listed(d, statuses) \in dash!Rows
<1> DEFINE there == {q \in Paths : d[q].gen # 0}
<1>1. \A p \in there : [gen |-> d[p].gen, head |-> d[p].head, status |-> statuses,
                        creating |-> FALSE, removing |-> FALSE] \in dash!Row
  BY DEF dash!Row
<1>2. dash!Listed(d, statuses) \in [there -> dash!Row] BY <1>1 DEF dash!Listed
<1>3. there \in SUBSET Paths OBVIOUS
<1>4. QED BY <1>2, <1>3, RowsFrom

LEMMA RemovalStateIsRows ==
    ASSUME NEW u, NEW rows \in dash!Rows PROVE dash!applyRemovalState(u, rows) \in dash!Rows
<1>1. \A p \in DOMAIN rows :
        [rows[p] EXCEPT !.removing = dash!Key(p, rows[p]) \in dash!QueuedKeys(u)] \in dash!Row
  <2>1. \A p \in DOMAIN rows, b \in BOOLEAN : [rows[p] EXCEPT !.removing = b] \in dash!Row
    BY RowsAre DEF dash!Row
  <2>2. TAKE p \in DOMAIN rows
  <2> DEFINE b == dash!Key(p, rows[p]) \in dash!QueuedKeys(u)
  <2>3. b \in BOOLEAN OBVIOUS
  <2> HIDE DEF b
  <2>4. [rows[p] EXCEPT !.removing = b] \in dash!Row BY <2>1, <2>3
  <2>5. QED BY <2>4 DEF b
<1>2. dash!applyRemovalState(u, rows) \in [DOMAIN rows -> dash!Row]
  BY <1>1 DEF dash!applyRemovalState
<1>3. QED BY <1>2, RowsAre, RowsFrom

LEMMA MergeIsRows ==
    ASSUME NEW listed \in dash!Rows, NEW shown \in dash!Rows, NEW creating
    PROVE  dash!mergeCreatingRows(listed, shown, creating) \in dash!Rows
<1> DEFINE kept == {p \in DOMAIN shown \ DOMAIN listed : shown[p].creating}
           merged(p) == IF p \in kept THEN shown[p]
                        ELSE [listed[p] EXCEPT !.creating = @ \/ p \in creating]
<1>1. \A p \in DOMAIN listed : [listed[p] EXCEPT !.creating = @ \/ p \in creating] \in dash!Row
  BY RowsAre DEF dash!Row
<1>2. \A p \in kept : shown[p] \in dash!Row BY RowsAre
<1>3. \A p \in DOMAIN listed \cup kept : merged(p) \in dash!Row BY <1>1, <1>2
<1>4. dash!mergeCreatingRows(listed, shown, creating) \in [DOMAIN listed \cup kept -> dash!Row]
  BY <1>3 DEF dash!mergeCreatingRows
<1>5. DOMAIN listed \cup kept \in SUBSET Paths BY RowsAre
<1>6. QED BY <1>4, <1>5, RowsFrom

\* A row chosen from one of two listings.
LEMMA ChosenIsRows ==
    ASSUME NEW first \in dash!Rows, NEW second \in dash!Rows,
           NEW paths \in SUBSET DOMAIN first, NEW more \in SUBSET DOMAIN second
    PROVE  [p \in paths \cup more |-> IF p \in paths THEN first[p] ELSE second[p]] \in dash!Rows
<1> DEFINE rows == [p \in paths \cup more |-> IF p \in paths THEN first[p] ELSE second[p]]
<1>1. \A p \in paths \cup more : (IF p \in paths THEN first[p] ELSE second[p]) \in dash!Row
  BY RowsAre
<1>2. rows \in [paths \cup more -> dash!Row] BY <1>1
<1>3. paths \cup more \in SUBSET Paths BY RowsAre
<1>4. QED BY <1>2, <1>3, RowsFrom

LEMMA RequestTypes ==
    /\ dash!Cached \in dash!Request /\ dash!Structural \in dash!Request
    /\ dash!Everything \in dash!Request
    /\ \A project \in dash!Projects, from \in SUBSET Paths :
         dash!Repository(project, from) \in dash!Request
<1>1. dash!Cached \in dash!Request BY DEF dash!Request, dash!Cached
<1>2. dash!Structural \in dash!Request BY DEF dash!Request, dash!Structural
<1>3. dash!Everything \in dash!Request BY <1>2 DEF dash!Request, dash!Everything
<1>4. \A project \in dash!Projects, from \in SUBSET Paths :
         dash!Repository(project, from) \in dash!Request
  BY DEF dash!Request, dash!Repository
<1>5. QED BY <1>1, <1>2, <1>3, <1>4

LEMMA ProjectTypes == \A p \in Paths : ProjectOf[p] \in dash!Projects
  BY DEF dash!Projects

-----------------------------------------------------------------------------
(* Dashboard: what its handlers do to the loads. *)

\* Everything but the loads may change, or a new load starts.
SameLoads(u, v) ==
  /\ v \in dash!Model
  /\ v.fetching = u.fetching /\ v.inventorySeq = u.inventorySeq
  /\ v.pendingRefresh = u.pendingRefresh /\ v.refreshQueue = u.refreshQueue
  /\ v.removalQueue = u.removalQueue /\ v.removalActive = u.removalActive
  /\ v.creating = u.creating

StartsLoad(u, v) ==
  /\ v \in dash!Model
  /\ v.fetching /\ v.inventorySeq > u.inventorySeq
  /\ v.removalQueue = u.removalQueue /\ v.removalActive = u.removalActive
  /\ v.creating = u.creating

LEMMA SameThenStarts ==
    ASSUME NEW u, NEW v, NEW w, SameLoads(u, v), StartsLoad(v, w) PROVE StartsLoad(u, w)
  BY DEF SameLoads, StartsLoad

LEMMA SameThenSame ==
    ASSUME NEW u, NEW v, NEW w, SameLoads(u, v), SameLoads(v, w) PROVE SameLoads(u, w)
  BY DEF SameLoads

\* The one field at a time that most handlers write.
LEMMA FieldWritten ==
    ASSUME NEW u \in dash!Model
    PROVE  /\ \A x \in dash!Rows : SameLoads(u, [u EXCEPT !.rows = x])
           /\ \A x \in SUBSET Hub : SameLoads(u, [u EXCEPT !.remote = x])
           /\ \A x \in dash!Projects \cup {All} : SameLoads(u, [u EXCEPT !.perspective = x])
           /\ \A x \in Paths \cup {None} : SameLoads(u, [u EXCEPT !.anchor = x])
           /\ \A x \in BOOLEAN : /\ SameLoads(u, [u EXCEPT !.inventoryCurrent = x])
                                 /\ SameLoads(u, [u EXCEPT !.backgroundStarted = x])
                                 /\ SameLoads(u, [u EXCEPT !.fleetPending = x])
           /\ \A x \in [dash!Projects -> [current : BOOLEAN, diagnostic : BOOLEAN]] :
                SameLoads(u, [u EXCEPT !.fresh = x])
           /\ \A x \in [seen : BOOLEAN, current : BOOLEAN, diagnostic : BOOLEAN] :
                SameLoads(u, [u EXCEPT !.global = x])
<1>1. \A x \in dash!Rows : SameLoads(u, [u EXCEPT !.rows = x]) BY DEF SameLoads, dash!Model
<1>2. \A x \in SUBSET Hub : SameLoads(u, [u EXCEPT !.remote = x]) BY DEF SameLoads, dash!Model
<1>3. \A x \in dash!Projects \cup {All} : SameLoads(u, [u EXCEPT !.perspective = x])
  BY DEF SameLoads, dash!Model
<1>4. \A x \in Paths \cup {None} : SameLoads(u, [u EXCEPT !.anchor = x])
  BY DEF SameLoads, dash!Model
<1>5. \A x \in BOOLEAN : SameLoads(u, [u EXCEPT !.inventoryCurrent = x])
  BY DEF SameLoads, dash!Model
<1>6. \A x \in BOOLEAN : SameLoads(u, [u EXCEPT !.backgroundStarted = x])
  BY DEF SameLoads, dash!Model
<1>7. \A x \in BOOLEAN : SameLoads(u, [u EXCEPT !.fleetPending = x])
  BY DEF SameLoads, dash!Model
<1>8. \A x \in [dash!Projects -> [current : BOOLEAN, diagnostic : BOOLEAN]] :
        SameLoads(u, [u EXCEPT !.fresh = x])
  BY DEF SameLoads, dash!Model
<1>9. \A x \in [seen : BOOLEAN, current : BOOLEAN, diagnostic : BOOLEAN] :
        SameLoads(u, [u EXCEPT !.global = x])
  BY DEF SameLoads, dash!Model
<1>10. QED BY <1>1, <1>2, <1>3, <1>4, <1>5, <1>6, <1>7, <1>8, <1>9

\* Fields that are written together.
LEMMA RowsReplaced ==
    ASSUME NEW u \in dash!Model, NEW rows \in dash!Rows, NEW remote \in SUBSET Hub,
           NEW current \in BOOLEAN, NEW pending \in BOOLEAN,
           NEW x \in dash!Projects \cup {All}, NEW y \in Paths \cup {None}
    PROVE  SameLoads(u, [u EXCEPT !.rows = rows, !.remote = remote, !.inventoryCurrent = current,
                         !.fleetPending = pending, !.perspective = x, !.anchor = y])
<1> DEFINE v == [u EXCEPT !.rows = rows, !.remote = remote, !.inventoryCurrent = current,
                         !.fleetPending = pending, !.perspective = x, !.anchor = y]
<1>1. v \in dash!Model BY DEF dash!Model
<1>2. /\ v.fetching = u.fetching /\ v.inventorySeq = u.inventorySeq
      /\ v.pendingRefresh = u.pendingRefresh /\ v.refreshQueue = u.refreshQueue
      /\ v.removalQueue = u.removalQueue /\ v.removalActive = u.removalActive
      /\ v.creating = u.creating
  BY DEF dash!Model
<1>3. QED BY <1>1, <1>2 DEF SameLoads

LEMMA ScopeAnswered ==
    ASSUME NEW u \in dash!Model, NEW fresh \in [dash!Projects -> [current : BOOLEAN, diagnostic : BOOLEAN]],
           NEW current \in BOOLEAN
    PROVE  SameLoads(u, [u EXCEPT !.fresh = fresh, !.inventoryCurrent = current])
<1> DEFINE v == [u EXCEPT !.fresh = fresh, !.inventoryCurrent = current]
<1>1. v \in dash!Model BY DEF dash!Model
<1>2. /\ v.fetching = u.fetching /\ v.inventorySeq = u.inventorySeq
      /\ v.pendingRefresh = u.pendingRefresh /\ v.refreshQueue = u.refreshQueue
      /\ v.removalQueue = u.removalQueue /\ v.removalActive = u.removalActive
      /\ v.creating = u.creating
  BY DEF dash!Model
<1>3. QED BY <1>1, <1>2 DEF SameLoads

LEMMA GlobalAnswered ==
    ASSUME NEW u \in dash!Model, NEW current \in BOOLEAN,
           NEW global \in [seen : BOOLEAN, current : BOOLEAN, diagnostic : BOOLEAN]
    PROVE  SameLoads(u, [u EXCEPT !.inventoryCurrent = current, !.global = global])
<1> DEFINE v == [u EXCEPT !.inventoryCurrent = current, !.global = global]
<1>1. v \in dash!Model BY DEF dash!Model
<1>2. /\ v.fetching = u.fetching /\ v.inventorySeq = u.inventorySeq
      /\ v.pendingRefresh = u.pendingRefresh /\ v.refreshQueue = u.refreshQueue
      /\ v.removalQueue = u.removalQueue /\ v.removalActive = u.removalActive
      /\ v.creating = u.creating
  BY DEF dash!Model
<1>3. QED BY <1>1, <1>2 DEF SameLoads

LEMMA Anchored ==
    ASSUME NEW u \in dash!Model, NEW y \in Paths \cup {None}, NEW current \in BOOLEAN,
           NEW global \in [seen : BOOLEAN, current : BOOLEAN, diagnostic : BOOLEAN]
    PROVE  SameLoads(u, [u EXCEPT !.anchor = y, !.inventoryCurrent = current, !.global = global])
<1> DEFINE v == [u EXCEPT !.anchor = y, !.inventoryCurrent = current, !.global = global]
<1>1. v \in dash!Model BY DEF dash!Model
<1>2. /\ v.fetching = u.fetching /\ v.inventorySeq = u.inventorySeq
      /\ v.pendingRefresh = u.pendingRefresh /\ v.refreshQueue = u.refreshQueue
      /\ v.removalQueue = u.removalQueue /\ v.removalActive = u.removalActive
      /\ v.creating = u.creating
  BY DEF dash!Model
<1>3. QED BY <1>1, <1>2 DEF SameLoads

LEMMA RowsDropped ==
    ASSUME NEW u \in dash!Model, NEW rows \in dash!Rows, NEW pending \in BOOLEAN,
           NEW n \in Nat
    PROVE  SameLoads(u, [u EXCEPT !.rows = rows, !.fleetPending = pending, !.loadSeq = n])
<1> DEFINE v == [u EXCEPT !.rows = rows, !.fleetPending = pending, !.loadSeq = n]
<1>1. v \in dash!Model BY DEF dash!Model
<1>2. /\ v.fetching = u.fetching /\ v.inventorySeq = u.inventorySeq
      /\ v.pendingRefresh = u.pendingRefresh /\ v.refreshQueue = u.refreshQueue
      /\ v.removalQueue = u.removalQueue /\ v.removalActive = u.removalActive
      /\ v.creating = u.creating
  BY DEF dash!Model
<1>3. QED BY <1>1, <1>2 DEF SameLoads

LEMMA OverlayLaid ==
    ASSUME NEW u \in dash!Model, NEW pending \in BOOLEAN, NEW rows \in dash!Rows,
           NEW remote \in SUBSET Hub
    PROVE  SameLoads(u, [u EXCEPT !.fleetPending = pending, !.rows = rows, !.remote = remote])
<1> DEFINE v == [u EXCEPT !.fleetPending = pending, !.rows = rows, !.remote = remote]
<1>1. v \in dash!Model BY DEF dash!Model
<1>2. /\ v.fetching = u.fetching /\ v.inventorySeq = u.inventorySeq
      /\ v.pendingRefresh = u.pendingRefresh /\ v.refreshQueue = u.refreshQueue
      /\ v.removalQueue = u.removalQueue /\ v.removalActive = u.removalActive
      /\ v.creating = u.creating
  BY DEF dash!Model
<1>3. QED BY <1>1, <1>2 DEF SameLoads

LEMMA RowsMerged ==
    ASSUME NEW u \in dash!Model, NEW rows \in dash!Rows, NEW remote \in SUBSET Hub
    PROVE  SameLoads(u, [u EXCEPT !.rows = rows, !.remote = remote])
<1> DEFINE v == [u EXCEPT !.rows = rows, !.remote = remote]
<1>1. v \in dash!Model BY DEF dash!Model
<1>2. /\ v.fetching = u.fetching /\ v.inventorySeq = u.inventorySeq
      /\ v.pendingRefresh = u.pendingRefresh /\ v.refreshQueue = u.refreshQueue
      /\ v.removalQueue = u.removalQueue /\ v.removalActive = u.removalActive
      /\ v.creating = u.creating
  BY DEF dash!Model
<1>3. QED BY <1>1, <1>2 DEF SameLoads

\* What the end of a removal writes first.
RemovalEnds(u, v, fetch, on) ==
  /\ v \in dash!Model /\ v.removalActive = None
  /\ v.removalQueue = u.removalQueue /\ v.refreshQueue = u.refreshQueue
  /\ v.creating = u.creating /\ v.pendingRefresh = u.pendingRefresh
  /\ v.fetching = on /\ v.inventorySeq = fetch

LEMMA RemovalWritten ==
    ASSUME NEW u \in dash!Model, NEW fetch \in Nat, NEW load \in Nat, NEW on \in BOOLEAN,
           NEW pending \in BOOLEAN, NEW rows \in dash!Rows
    PROVE  RemovalEnds(u, [u EXCEPT !.removalActive = None, !.inventorySeq = fetch,
                                    !.loadSeq = load, !.fetching = on, !.fleetPending = pending,
                                    !.rows = rows], fetch, on)
<1> DEFINE v == [u EXCEPT !.removalActive = None, !.inventorySeq = fetch, !.loadSeq = load,
                          !.fetching = on, !.fleetPending = pending, !.rows = rows]
<1>1. v \in dash!Model BY DEF dash!Model
<1>2. /\ v.removalActive = None
      /\ v.removalQueue = u.removalQueue /\ v.refreshQueue = u.refreshQueue
      /\ v.creating = u.creating /\ v.pendingRefresh = u.pendingRefresh
      /\ v.fetching = on /\ v.inventorySeq = fetch
  BY DEF dash!Model
<1>3. QED BY <1>1, <1>2 DEF RemovalEnds

LEMMA RefreshAsked ==
    ASSUME NEW u \in dash!Model, NEW queue \in Seq(dash!Request)
    PROVE  [u EXCEPT !.refreshQueue = queue] \in dash!Model
  BY DEF dash!Model

LEMMA StartInventory ==
    ASSUME NEW u \in dash!Model, NEW request \in dash!Request
    PROVE  StartsLoad(u, dash!startInventory(u, request))
<1> DEFINE load == u.loadSeq + 1
           fetch == u.inventorySeq + 1
           next == [u EXCEPT !.loadSeq = load, !.inventorySeq = fetch, !.fleetPending = FALSE,
                             !.fetching = TRUE, !.request = request]
<1>1. load \in Nat /\ fetch \in Nat /\ fetch > u.inventorySeq BY DEF dash!Model
<1>2. dash!startInventory(u, request) = next BY DEF dash!startInventory
<1>3. /\ next \in dash!Model /\ next.fetching = TRUE /\ next.inventorySeq = fetch
      /\ next.removalQueue = u.removalQueue /\ next.removalActive = u.removalActive
      /\ next.creating = u.creating
  <2> HIDE DEF load, fetch
  <2>1. next \in dash!Model BY <1>1 DEF dash!Model
  <2>2. /\ next.fetching = TRUE /\ next.inventorySeq = fetch
        /\ next.removalQueue = u.removalQueue /\ next.removalActive = u.removalActive
        /\ next.creating = u.creating
    BY DEF dash!Model
  <2>3. QED BY <2>1, <2>2
<1> HIDE DEF next
<1>4. QED BY <1>1, <1>2, <1>3 DEF StartsLoad

LEMMA GoesStale ==
    ASSUME NEW u \in dash!Model, NEW projects PROVE SameLoads(u, dash!Stale(u, projects))
<1> DEFINE fresh == [p \in dash!Projects |->
                       IF p \in projects THEN [u.fresh[p] EXCEPT !.current = FALSE] ELSE u.fresh[p]]
<1>1. u.fresh \in [dash!Projects -> [current : BOOLEAN, diagnostic : BOOLEAN]] BY DEF dash!Model
<1>2. \A p \in dash!Projects :
        [u.fresh[p] EXCEPT !.current = FALSE] \in [current : BOOLEAN, diagnostic : BOOLEAN]
  BY <1>1
<1>3. fresh \in [dash!Projects -> [current : BOOLEAN, diagnostic : BOOLEAN]] BY <1>1, <1>2
<1>4. SameLoads(u, [u EXCEPT !.fresh = fresh]) BY <1>3, FieldWritten
<1>5. QED BY <1>4 DEF dash!Stale

LEMMA PerspectiveRequest ==
    ASSUME NEW u \in dash!Model, NEW project \in dash!Projects
    PROVE  dash!perspectiveRequest(u, project) \in dash!Request
<1>1. u.rows \in dash!Rows BY DEF dash!Model
<1>2. dash!repositoryDirs(u, project) \in SUBSET Paths
  BY <1>1, RowsAre DEF dash!repositoryDirs, dash!OfProject
<1>3. QED BY <1>2, RequestTypes DEF dash!perspectiveRequest

LEMMA GlobalStale ==
    ASSUME NEW u \in dash!Model PROVE SameLoads(u, [u EXCEPT !.global.current = FALSE])
<1> DEFINE global == [u.global EXCEPT !.current = FALSE]
<1>1. global \in [seen : BOOLEAN, current : BOOLEAN, diagnostic : BOOLEAN] BY DEF dash!Model
<1>2. [u EXCEPT !.global.current = FALSE] = [u EXCEPT !.global = global] OBVIOUS
<1>3. QED BY <1>1, <1>2, FieldWritten

LEMMA StartFetch == ASSUME NEW u \in dash!Model PROVE StartsLoad(u, dash!startFetch(u))
<1> DEFINE idle == [u EXCEPT !.inventoryCurrent = FALSE]
           request == dash!perspectiveRequest(u, u.perspective)
           all == [dash!Stale(idle, dash!Projects) EXCEPT !.global.current = FALSE]
           one == dash!Stale(idle, {u.perspective})
           none == [idle EXCEPT !.global.current = FALSE]
<1>1. SameLoads(u, idle) BY FieldWritten
<1>2. \A v \in dash!Model : SameLoads(v, [v EXCEPT !.global.current = FALSE])
  BY GlobalStale
<1>3. idle \in dash!Model BY <1>1 DEF SameLoads
<1>4. SameLoads(idle, dash!Stale(idle, dash!Projects)) /\ SameLoads(idle, one) BY <1>3, GoesStale
<1>5. SameLoads(u, one) BY <1>1, <1>4, SameThenSame
<1>6. SameLoads(u, none) BY <1>1, <1>2, <1>3, SameThenSame
<1>7. SameLoads(u, all)
  <2>1. dash!Stale(idle, dash!Projects) \in dash!Model BY <1>4 DEF SameLoads
  <2>2. SameLoads(dash!Stale(idle, dash!Projects), all) BY <1>2, <2>1
  <2>3. QED BY <1>1, <1>4, <2>2, SameThenSame
<1>8. CASE u.perspective = All
  <2>1. all \in dash!Model BY <1>7 DEF SameLoads
  <2>2. StartsLoad(all, dash!startInventory(all, dash!Everything))
    BY <2>1, StartInventory, RequestTypes
  <2>3. StartsLoad(u, dash!startInventory(all, dash!Everything)) BY <1>7, <2>2, SameThenStarts
  <2>4. QED BY <1>8, <2>3 DEF dash!startFetch
<1>9. CASE u.perspective # All
  <2>1. u.perspective \in dash!Projects BY <1>9 DEF dash!Model
  <2>2. request \in dash!Request BY <2>1, PerspectiveRequest
  <2>3. one \in dash!Model /\ none \in dash!Model BY <1>5, <1>6 DEF SameLoads
  <2>4. StartsLoad(one, dash!startInventory(one, request))
        /\ StartsLoad(none, dash!startInventory(none, request))
    BY <2>2, <2>3, StartInventory
  <2>5. StartsLoad(u, dash!startInventory(one, request))
        /\ StartsLoad(u, dash!startInventory(none, request))
    BY <1>5, <1>6, <2>4, SameThenStarts
  <2>6. QED BY <1>9, <2>5 DEF dash!startFetch
<1>10. QED BY <1>8, <1>9

\* The pending refresh is dropped only where a load starts or no refresh pends.
LEMMA StartPendingRefresh ==
    ASSUME NEW u \in dash!Model
    PROVE  \/ StartsLoad(u, dash!startPendingRefresh(u))
           \/ dash!startPendingRefresh(u) = u /\ ~u.pendingRefresh
<1>1. CASE u.pendingRefresh
  <2> DEFINE served == [u EXCEPT !.pendingRefresh = FALSE]
  <2>1. /\ served \in dash!Model /\ served.inventorySeq = u.inventorySeq
        /\ served.removalQueue = u.removalQueue /\ served.removalActive = u.removalActive
        /\ served.creating = u.creating
    BY DEF dash!Model
  <2>2. StartsLoad(served, dash!startFetch(served)) BY <2>1, StartFetch
  <2>3. StartsLoad(u, dash!startFetch(served)) BY <2>1, <2>2 DEF StartsLoad
  <2>4. QED BY <1>1, <2>3 DEF dash!startPendingRefresh
<1>2. CASE ~u.pendingRefresh
  BY <1>2 DEF dash!startPendingRefresh
<1>3. QED BY <1>1, <1>2

LEMMA StartNextRemovalRefresh ==
    ASSUME NEW u \in dash!Model
    PROVE  \/ StartsLoad(u, dash!startNextRemovalRefresh(u)) /\ u.refreshQueue # <<>>
           \/ dash!startNextRemovalRefresh(u) = u /\ u.refreshQueue = <<>>
<1>1. CASE u.refreshQueue # <<>>
  <2> DEFINE rest == [u EXCEPT !.refreshQueue = Tail(@)]
             request == Head(u.refreshQueue)
             stale == dash!Stale(rest, {request.project})
  <2>1. u.refreshQueue \in Seq(dash!Request) BY DEF dash!Model
  <2>2. request \in dash!Request /\ Tail(u.refreshQueue) \in Seq(dash!Request) BY <1>1, <2>1
  <2>3. /\ rest \in dash!Model /\ rest.inventorySeq = u.inventorySeq
        /\ rest.removalQueue = u.removalQueue /\ rest.removalActive = u.removalActive
        /\ rest.creating = u.creating
    BY <2>2 DEF dash!Model
  <2>4. SameLoads(rest, stale) BY <2>3, GoesStale
  <2>5. stale \in dash!Model BY <2>4 DEF SameLoads
  <2>6. StartsLoad(stale, dash!startInventory(stale, request)) BY <2>2, <2>5, StartInventory
  <2>7. StartsLoad(rest, dash!startInventory(stale, request)) BY <2>4, <2>6, SameThenStarts
  <2>8. StartsLoad(u, dash!startInventory(stale, request)) BY <2>3, <2>7 DEF StartsLoad
  <2>9. QED BY <1>1, <2>8 DEF dash!startNextRemovalRefresh
<1>2. CASE u.refreshQueue = <<>>
  BY <1>2 DEF dash!startNextRemovalRefresh
<1>3. QED BY <1>1, <1>2

LEMMA StartBackground ==
    ASSUME NEW u \in dash!Model PROVE StartsLoad(u, dash!startBackground(u))
<1> DEFINE started == [u EXCEPT !.backgroundStarted = TRUE]
<1>1. SameLoads(u, started) BY FieldWritten
<1>2. started \in dash!Model BY <1>1 DEF SameLoads
<1>3. StartsLoad(started, dash!startInventory(started, dash!Structural))
  BY <1>2, StartInventory, RequestTypes
<1>4. QED BY <1>1, <1>3, SameThenStarts DEF dash!startBackground

LEMMA StartFleetMerge ==
    ASSUME NEW u \in dash!Model PROVE SameLoads(u, dash!startFleetMerge(u))
<1>1. SameLoads(u, u) BY DEF SameLoads
<1>2. SameLoads(u, [u EXCEPT !.fleetPending = TRUE]) BY FieldWritten
<1>3. QED BY <1>1, <1>2 DEF dash!startFleetMerge

-----------------------------------------------------------------------------
(* Dashboard: answers. *)

LEMMA LaunchPerspective ==
    ASSUME NEW rows \in dash!Rows, NEW anchor
    PROVE  dash!launchPerspective(rows, anchor) \in dash!Projects \cup {All}
  BY RowsAre, ProjectTypes DEF dash!launchPerspective

LEMMA ReplaceInventoryRows ==
    ASSUME NEW u \in dash!Model, NEW listed \in dash!Rows, NEW current \in BOOLEAN
    PROVE  SameLoads(u, dash!replaceInventoryRows(u, listed, current))
<1> DEFINE rows == dash!applyRemovalState(u, dash!mergeCreatingRows(listed, u.rows, u.creating))
<1>1. u.rows \in dash!Rows BY DEF dash!Model
<1>2. dash!mergeCreatingRows(listed, u.rows, u.creating) \in dash!Rows BY <1>1, MergeIsRows
<1>3. rows \in dash!Rows BY <1>2, RemovalStateIsRows
<1>4. dash!launchPerspective(rows, u.anchor) \in dash!Projects \cup {All}
  BY <1>3, LaunchPerspective
<1>6. u.perspective \in dash!Projects \cup {All} /\ u.anchor \in Paths \cup {None}
  BY DEF dash!Model
<1> DEFINE hadRows == DOMAIN u.rows # {} \/ u.remote # {}
           x == IF ~hadRows /\ u.anchor # None
                THEN dash!launchPerspective(rows, u.anchor) ELSE u.perspective
           y == IF hadRows \/ DOMAIN rows # {} THEN None ELSE u.anchor
<1>7. x \in dash!Projects \cup {All} /\ y \in Paths \cup {None} BY <1>4, <1>6
<1>8. dash!replaceInventoryRows(u, listed, current) =
        [u EXCEPT !.rows = rows, !.remote = {}, !.inventoryCurrent = current,
                  !.fleetPending = FALSE, !.perspective = x, !.anchor = y]
  BY DEF dash!replaceInventoryRows
<1> HIDE DEF rows, x, y
<1>9. SameLoads(u, [u EXCEPT !.rows = rows, !.remote = {}, !.inventoryCurrent = current,
                             !.fleetPending = FALSE, !.perspective = x, !.anchor = y])
  BY <1>3, <1>7, RowsReplaced
<1>10. QED BY <1>8, <1>9

LEMMA MergeRepositoryRows ==
    ASSUME NEW u \in dash!Model, NEW listed \in dash!Rows, NEW project
    PROVE  SameLoads(u, dash!mergeRepositoryRows(u, listed, project))
<1> DEFINE others == DOMAIN u.rows \ dash!OfProject(u.rows, project)
           merged == [p \in others \cup dash!OfProject(listed, project) |->
                        IF p \in others THEN u.rows[p] ELSE listed[p]]
           rows == dash!applyRemovalState(u, dash!mergeCreatingRows(merged, u.rows, u.creating))
           remote == {p \in u.remote : ProjectOf[p] # project}
<1>1. u.rows \in dash!Rows /\ u.remote \in SUBSET Hub BY DEF dash!Model
<1>2. others \in SUBSET DOMAIN u.rows /\ dash!OfProject(listed, project) \in SUBSET DOMAIN listed
  BY DEF dash!OfProject
<1>3. merged \in dash!Rows BY <1>1, <1>2, ChosenIsRows
<1>4. rows \in dash!Rows BY <1>1, <1>3, MergeIsRows, RemovalStateIsRows
<1>5. remote \in SUBSET Hub BY <1>1
<1>6. SameLoads(u, [u EXCEPT !.rows = rows, !.remote = remote])
  BY <1>4, <1>5, RowsMerged
<1>7. QED BY <1>6 DEF dash!mergeRepositoryRows

LEMMA MergeStructuralDashboard ==
    ASSUME NEW u \in dash!Model, NEW listed \in dash!Rows
    PROVE  SameLoads(u, dash!mergeStructuralDashboard(u, listed))
<1> DEFINE known == {p \in DOMAIN listed \cap DOMAIN u.rows : u.fresh[ProjectOf[p]].current}
           same == {p \in known : dash!sameCheckout(u.rows[p], listed[p])}
           rows == [p \in DOMAIN listed |->
                      IF p \in same THEN [listed[p] EXCEPT !.status = u.rows[p].status]
                      ELSE listed[p]]
           stale == {ProjectOf[p] : p \in DOMAIN listed \ same}
<1>1. u.rows \in dash!Rows BY DEF dash!Model
<1>2. \A p \in same : [listed[p] EXCEPT !.status = u.rows[p].status] \in dash!Row
  BY <1>1, RowsAre DEF dash!Row
<1>3. \A p \in DOMAIN listed : listed[p] \in dash!Row BY RowsAre
<1>4. \A p \in DOMAIN listed : (IF p \in same THEN [listed[p] EXCEPT !.status = u.rows[p].status]
                                ELSE listed[p]) \in dash!Row
  BY <1>2, <1>3
<1>5. rows \in [DOMAIN listed -> dash!Row] BY <1>4
<1>6. rows \in dash!Rows BY <1>5, RowsAre, RowsFrom
<1>7. SameLoads(u, dash!Stale(u, stale)) BY GoesStale
<1>8. dash!Stale(u, stale) \in dash!Model BY <1>7 DEF SameLoads
<1>9. SameLoads(dash!Stale(u, stale), dash!replaceInventoryRows(dash!Stale(u, stale), rows, FALSE))
  BY <1>6, <1>8, ReplaceInventoryRows
<1>10. SameLoads(u, dash!replaceInventoryRows(dash!Stale(u, stale), rows, FALSE))
  BY <1>7, <1>9, SameThenSame
<1>11. QED BY <1>10 DEF dash!mergeStructuralDashboard

LEMMA MarkProjectsFresh ==
    ASSUME NEW u \in dash!Model, NEW listed
    PROVE  SameLoads(u, dash!markProjectsFresh(u, listed))
<1> DEFINE fresh == [p \in dash!Projects |->
                       IF dash!OfProject(listed, p) # {}
                       THEN [current |-> TRUE, diagnostic |-> FALSE] ELSE u.fresh[p]]
<1>1. u.fresh \in [dash!Projects -> [current : BOOLEAN, diagnostic : BOOLEAN]] BY DEF dash!Model
<1>2. fresh \in [dash!Projects -> [current : BOOLEAN, diagnostic : BOOLEAN]] BY <1>1
<1>3. SameLoads(u, [u EXCEPT !.fresh = fresh]) BY <1>2, FieldWritten
<1>4. QED BY <1>3 DEF dash!markProjectsFresh

LEMMA CachedAnswer ==
    ASSUME NEW u \in dash!Model, NEW listed \in dash!Rows
    PROVE  StartsLoad(u, dash!cachedAnswer(u, listed))
<1> DEFINE seen == [u EXCEPT !.global = [seen |-> TRUE, current |-> FALSE, diagnostic |-> FALSE]]
           painted == dash!replaceInventoryRows(seen, listed, FALSE)
           moved == [painted EXCEPT
                       !.perspective = dash!launchPerspective(painted.rows, painted.anchor)]
           scoped == IF painted.perspective = All /\ painted.anchor # None THEN moved ELSE painted
           request == dash!perspectiveRequest(scoped, scoped.perspective)
           all == [scoped EXCEPT !.backgroundStarted = TRUE]
           one == [scoped EXCEPT !.backgroundStarted = @ \/ request.scope = "dashboard"]
<1>1. SameLoads(u, seen) BY FieldWritten
<1>2. SameLoads(seen, painted) BY <1>1, ReplaceInventoryRows DEF SameLoads
<1>3. painted \in dash!Model BY <1>2 DEF SameLoads
<1>4. SameLoads(painted, moved)
  <2>1. painted.rows \in dash!Rows BY <1>3 DEF dash!Model
  <2>2. dash!launchPerspective(painted.rows, painted.anchor) \in dash!Projects \cup {All}
    BY <2>1, LaunchPerspective
  <2>3. QED BY <1>3, <2>2, FieldWritten
<1>5. SameLoads(u, painted) BY <1>1, <1>2, SameThenSame
<1>6. SameLoads(u, scoped)
  <2>1. SameLoads(u, moved) BY <1>4, <1>5, SameThenSame
  <2>2. QED BY <1>5, <2>1
<1>7. scoped \in dash!Model BY <1>6 DEF SameLoads
<1> HIDE DEF scoped
<1>8. CASE scoped.perspective = All
  <2>1. SameLoads(scoped, all) BY <1>7, FieldWritten
  <2>2. StartsLoad(all, dash!startInventory(all, dash!Everything))
    BY <2>1, StartInventory, RequestTypes DEF SameLoads
  <2>3. StartsLoad(u, dash!startInventory(all, dash!Everything))
    BY <1>6, <2>1, <2>2, SameThenSame, SameThenStarts
  <2>4. QED BY <1>8, <2>3 DEF dash!cachedAnswer, scoped
<1>9. CASE scoped.perspective # All
  <2>1. scoped.perspective \in dash!Projects /\ scoped.backgroundStarted \in BOOLEAN
    BY <1>7, <1>9 DEF dash!Model
  <2>2. request \in dash!Request BY <1>7, <2>1, PerspectiveRequest
  <2>3. SameLoads(scoped, one)
    <3> HIDE DEF request
    <3>1. (scoped.backgroundStarted \/ request.scope = "dashboard") \in BOOLEAN OBVIOUS
    <3>2. QED BY <1>7, <3>1, FieldWritten
  <2>4. StartsLoad(one, dash!startInventory(one, request))
    BY <2>2, <2>3, StartInventory DEF SameLoads
  <2>5. StartsLoad(u, dash!startInventory(one, request))
    BY <1>6, <2>3, <2>4, SameThenSame, SameThenStarts
  <2>6. QED BY <1>9, <2>5 DEF dash!cachedAnswer, scoped
<1>10. QED BY <1>8, <1>9

\* An answer that starts no other load finds no refresh pending.
Answered(u, v) ==
  \/ StartsLoad(u, v)
  \/ SameLoads(u, v) /\ ~v.pendingRefresh

LEMMA RepositoryAnswer ==
    ASSUME NEW u \in dash!Model, NEW listed \in dash!Rows, NEW project
    PROVE  Answered(u, dash!repositoryAnswer(u, listed, project))
<1> DEFINE first == IF DOMAIN u.rows = {} /\ u.remote = {}
                    THEN dash!replaceInventoryRows(u, listed, TRUE) ELSE u
           merged == dash!mergeRepositoryRows(first, listed, project)
           next == [merged EXCEPT
                      !.fresh[project] = [current |-> TRUE, diagnostic |-> FALSE],
                      !.inventoryCurrent = TRUE]
<1>1. SameLoads(u, first)
  <2>1. SameLoads(u, u) BY DEF SameLoads
  <2>2. SameLoads(u, dash!replaceInventoryRows(u, listed, TRUE)) BY ReplaceInventoryRows
  <2>3. QED BY <2>1, <2>2
<1>2. SameLoads(first, merged)
  <2>1. first \in dash!Model BY <1>1 DEF SameLoads
  <2>2. QED BY <2>1, MergeRepositoryRows
<1>3. merged \in dash!Model BY <1>2 DEF SameLoads
<1>4. SameLoads(merged, next)
  <2> HIDE DEF merged
  <2> DEFINE fresh == [merged.fresh EXCEPT ![project] = [current |-> TRUE, diagnostic |-> FALSE]]
  <2>1. fresh \in [dash!Projects -> [current : BOOLEAN, diagnostic : BOOLEAN]]
    BY <1>3 DEF dash!Model
  <2>2. next = [merged EXCEPT !.fresh = fresh, !.inventoryCurrent = TRUE] OBVIOUS
  <2> HIDE DEF fresh
  <2>3. QED BY <1>3, <2>1, <2>2, ScopeAnswered
<1>5. SameLoads(u, next) BY <1>1, <1>2, <1>4, SameThenSame
<1>6. next \in dash!Model BY <1>5 DEF SameLoads
<1> HIDE DEF next
<1>7. CASE next.refreshQueue # <<>>
  <2>1. StartsLoad(next, dash!startNextRemovalRefresh(next))
    BY <1>6, <1>7, StartNextRemovalRefresh
  <2>2. StartsLoad(u, dash!startNextRemovalRefresh(next)) BY <1>5, <2>1, SameThenStarts
  <2>3. QED BY <1>7, <2>2 DEF dash!repositoryAnswer, next, Answered
<1>8. CASE next.refreshQueue = <<>> /\ next.pendingRefresh
  <2>1. StartsLoad(next, dash!startPendingRefresh(next)) BY <1>6, <1>8, StartPendingRefresh
  <2>2. StartsLoad(u, dash!startPendingRefresh(next)) BY <1>5, <2>1, SameThenStarts
  <2>3. QED BY <1>8, <2>2 DEF dash!repositoryAnswer, next, Answered
<1>9. CASE next.refreshQueue = <<>> /\ ~next.pendingRefresh /\ ~next.backgroundStarted
  <2>1. StartsLoad(u, dash!startBackground(next)) BY <1>5, <1>6, StartBackground, SameThenStarts
  <2>2. QED BY <1>9, <2>1 DEF dash!repositoryAnswer, next, Answered
<1>10. CASE next.refreshQueue = <<>> /\ ~next.pendingRefresh /\ next.backgroundStarted
  <2>1. SameLoads(next, dash!startFleetMerge(next)) BY <1>6, StartFleetMerge
  <2>2. SameLoads(u, dash!startFleetMerge(next)) BY <1>5, <2>1, SameThenSame
  <2>3. ~dash!startFleetMerge(next).pendingRefresh BY <1>10, <2>1 DEF SameLoads
  <2>4. QED BY <1>10, <2>2, <2>3 DEF dash!repositoryAnswer, next, Answered
<1>11. QED BY <1>7, <1>8, <1>9, <1>10

LEMMA DashboardAnswer ==
    ASSUME NEW u \in dash!Model, NEW listed \in dash!Rows, NEW statuses
    PROVE  Answered(u, dash!dashboardAnswer(u, listed, statuses))
<1> DEFINE full == dash!replaceInventoryRows(u, listed, TRUE)
           rows == IF statuses THEN dash!markProjectsFresh(full, listed)
                   ELSE dash!mergeStructuralDashboard(u, listed)
           next == [rows EXCEPT !.inventoryCurrent = TRUE,
                                !.global = [seen |-> TRUE, current |-> TRUE, diagnostic |-> FALSE]]
<1>1. SameLoads(u, full) BY ReplaceInventoryRows
<1>2. SameLoads(full, dash!markProjectsFresh(full, listed)) BY <1>1, MarkProjectsFresh DEF SameLoads
<1>3. SameLoads(u, rows)
  <2>1. SameLoads(u, dash!markProjectsFresh(full, listed)) BY <1>1, <1>2, SameThenSame
  <2>2. SameLoads(u, dash!mergeStructuralDashboard(u, listed)) BY MergeStructuralDashboard
  <2>3. QED BY <2>1, <2>2
<1>4. SameLoads(rows, next)
  <2>1. rows \in dash!Model BY <1>3 DEF SameLoads
  <2> HIDE DEF rows
  <2>2. QED BY <2>1, GlobalAnswered
<1>5. SameLoads(u, next) BY <1>3, <1>4, SameThenSame
<1>6. next \in dash!Model BY <1>5 DEF SameLoads
<1> HIDE DEF next
<1>7. CASE next.pendingRefresh
  <2>1. StartsLoad(next, dash!startPendingRefresh(next)) BY <1>6, <1>7, StartPendingRefresh
  <2>2. StartsLoad(u, dash!startPendingRefresh(next)) BY <1>5, <2>1, SameThenStarts
  <2>3. QED BY <1>7, <2>2 DEF dash!dashboardAnswer, next, Answered
<1>8. CASE ~next.pendingRefresh
  <2>1. SameLoads(next, dash!startFleetMerge(next)) BY <1>6, StartFleetMerge
  <2>2. SameLoads(u, dash!startFleetMerge(next)) BY <1>5, <2>1, SameThenSame
  <2>3. ~dash!startFleetMerge(next).pendingRefresh BY <1>8, <2>1 DEF SameLoads
  <2>4. QED BY <1>8, <2>2, <2>3 DEF dash!dashboardAnswer, next, Answered
<1>9. QED BY <1>7, <1>8

LEMMA FailedAnswer ==
    ASSUME NEW u \in dash!Model, NEW request \in dash!Request
    PROVE  Answered(u, dash!failedAnswer(u, request))
<1> DEFINE next == IF request.scope = "repository"
                   THEN [u EXCEPT !.fresh[request.project] = [current |-> FALSE, diagnostic |-> TRUE]]
                   ELSE [u EXCEPT !.global.current = FALSE, !.global.diagnostic = TRUE]
<1>1. SameLoads(u, next)
  <2>1. SameLoads(u, [u EXCEPT !.fresh[request.project] = [current |-> FALSE, diagnostic |-> TRUE]])
    BY DEF SameLoads, dash!Model
  <2>2. SameLoads(u, [u EXCEPT !.global.current = FALSE, !.global.diagnostic = TRUE])
    BY DEF SameLoads, dash!Model
  <2>3. QED BY <2>1, <2>2
<1>2. next \in dash!Model BY <1>1 DEF SameLoads
<1> HIDE DEF next
<1>3. CASE next.refreshQueue # <<>>
  <2>1. StartsLoad(next, dash!startNextRemovalRefresh(next))
    BY <1>2, <1>3, StartNextRemovalRefresh
  <2>2. StartsLoad(u, dash!startNextRemovalRefresh(next)) BY <1>1, <2>1, SameThenStarts
  <2>3. QED BY <1>3, <2>2 DEF dash!failedAnswer, next, Answered
<1>4. CASE next.refreshQueue = <<>> /\ request.scope = "repository" /\ ~next.backgroundStarted
  <2>1. StartsLoad(u, dash!startBackground(next)) BY <1>1, <1>2, StartBackground, SameThenStarts
  <2>2. QED BY <1>4, <2>1 DEF dash!failedAnswer, next, Answered
<1>5. CASE next.refreshQueue = <<>> /\ ~(request.scope = "repository" /\ ~next.backgroundStarted)
  <2>1. dash!failedAnswer(u, request) = dash!startPendingRefresh(next)
    BY <1>5 DEF dash!failedAnswer, next
  <2>2. CASE StartsLoad(next, dash!startPendingRefresh(next))
    BY <1>1, <2>1, <2>2, SameThenStarts DEF Answered
  <2>3. CASE dash!startPendingRefresh(next) = next /\ ~next.pendingRefresh
    BY <1>1, <2>1, <2>3 DEF Answered
  <2>4. QED BY <1>2, <2>2, <2>3, StartPendingRefresh
<1>6. QED BY <1>3, <1>4, <1>5

-----------------------------------------------------------------------------
(* Dashboard: the ends of actions. *)

\* What every handler leaves: nothing dropped, and a fetch that is either a new
\* one or the one that was on.
Handled(u, v) ==
  /\ v \in dash!Model /\ dash!LoadsAreServed(v)
  /\ v.fetching => v.inventorySeq # u.inventorySeq \/ (u.fetching /\ v.inventorySeq = u.inventorySeq)

LEMMA StartedIsHandled ==
    ASSUME NEW u \in dash!Model, NEW v, dash!LoadsAreServed(u), StartsLoad(u, v)
    PROVE  Handled(u, v)
<1>1. u.inventorySeq \in Nat /\ v.inventorySeq \in Nat BY DEF StartsLoad, dash!Model
<1>2. v.inventorySeq # u.inventorySeq BY <1>1 DEF StartsLoad
<1>3. QED BY <1>2 DEF StartsLoad, Handled, dash!LoadsAreServed

LEMMA SameIsHandled ==
    ASSUME NEW u \in dash!Model, NEW v, dash!LoadsAreServed(u), SameLoads(u, v)
    PROVE  Handled(u, v)
  BY DEF SameLoads, Handled, dash!LoadsAreServed

LEMMA ApplyInventory ==
    ASSUME NEW u \in dash!Model, dash!LoadsAreServed(u), NEW answer \in dash!Queries
    PROVE  LET v == dash!applyInventory(u, answer)
           IN /\ Handled(u, v)
              /\ v.creating = u.creating /\ v.removalActive = u.removalActive
              /\ v.fetching => v.inventorySeq # answer.seq \/ v.inventorySeq # u.inventorySeq
<1> DEFINE v == dash!applyInventory(u, answer)
           next == [u EXCEPT !.fetching = FALSE]
           request == answer.request
<1>1. CASE answer.seq # u.inventorySeq
  <2>1. v = u BY <1>1 DEF dash!applyInventory
  <2>2. SameLoads(u, u) BY DEF SameLoads
  <2>3. Handled(u, u) BY <2>2, SameIsHandled
  <2>4. QED BY <1>1, <2>1, <2>3
<1>2. CASE answer.seq = u.inventorySeq
  <2>1. /\ next \in dash!Model /\ next.fetching = FALSE /\ next.inventorySeq = u.inventorySeq
        /\ next.removalQueue = u.removalQueue /\ next.removalActive = u.removalActive
        /\ next.creating = u.creating
    BY DEF dash!Model
  <2>2. answer.rows \in dash!Rows /\ request \in dash!Request BY DEF dash!Queries
  <2>3. Answered(next, v)
    <3>1. Answered(next, dash!failedAnswer(next, request)) BY <2>1, <2>2, FailedAnswer
    <3>2. Answered(next, dash!cachedAnswer(next, answer.rows))
      BY <2>1, <2>2, CachedAnswer DEF Answered
    <3>3. Answered(next, dash!repositoryAnswer(next, answer.rows, request.project))
      BY <2>1, <2>2, RepositoryAnswer
    <3>4. Answered(next, dash!dashboardAnswer(next, answer.rows, request.statuses))
      BY <2>1, <2>2, DashboardAnswer
    <3> DEFINE first == dash!failedAnswer(next, request)
               second == dash!cachedAnswer(next, answer.rows)
               third == dash!repositoryAnswer(next, answer.rows, request.project)
               fourth == dash!dashboardAnswer(next, answer.rows, request.statuses)
    <3>5. v \in {first, second, third, fourth}
      <4>1. v = IF answer.stage = "failed" THEN first
                ELSE IF request.scope = "cached" THEN second
                ELSE IF request.scope = "repository" THEN third ELSE fourth
        BY <1>2 DEF dash!applyInventory
      <4> HIDE DEF v, first, second, third, fourth
      <4>2. QED BY <4>1
    <3> HIDE DEF v, first, second, third, fourth, next
    <3>6. Answered(next, first) /\ Answered(next, second) /\ Answered(next, third)
          /\ Answered(next, fourth)
      BY <3>1, <3>2, <3>3, <3>4 DEF first, second, third, fourth
    <3>7. QED BY <3>5, <3>6
  <2> HIDE DEF v, next
  <2>4. u.inventorySeq \in Nat BY DEF dash!Model
  <2>5. CASE StartsLoad(next, v)
    <3>1. v.inventorySeq \in Nat BY <2>5 DEF StartsLoad, dash!Model
    <3>2. v.inventorySeq # u.inventorySeq BY <2>1, <2>4, <2>5, <3>1 DEF StartsLoad
    <3>3. dash!LoadsAreServed(v) BY <2>1, <2>5 DEF StartsLoad, dash!LoadsAreServed
    <3>4. QED BY <2>1, <2>5, <3>2, <3>3 DEF StartsLoad, Handled, v
  <2>6. CASE SameLoads(next, v) /\ ~v.pendingRefresh
    <3>1. dash!LoadsAreServed(v) BY <2>1, <2>6 DEF SameLoads, dash!LoadsAreServed
    <3>2. QED BY <2>1, <2>6, <3>1 DEF SameLoads, Handled, v
  <2>7. QED BY <2>3, <2>5, <2>6 DEF Answered
<1>3. QED BY <1>1, <1>2

LEMMA ApplyFleetRows ==
    ASSUME NEW u \in dash!Model, NEW overlay \in [seq : Nat, rows : dash!Rows], NEW remote \in SUBSET Hub
    PROVE  LET v == dash!applyFleetRows(u, overlay, remote)
           IN /\ SameLoads(u, v)
              /\ v.fleetPending => v.fleetPending = u.fleetPending /\ overlay.seq # v.loadSeq
<1> DEFINE rows == dash!applyRemovalState(u, dash!mergeCreatingRows(overlay.rows, u.rows, u.creating))
<1>1. u.rows \in dash!Rows /\ overlay.rows \in dash!Rows BY DEF dash!Model
<1>2. rows \in dash!Rows BY <1>1, MergeIsRows, RemovalStateIsRows
<1> HIDE DEF rows
<1>3. SameLoads(u, [u EXCEPT !.fleetPending = FALSE, !.rows = rows, !.remote = remote])
  BY <1>2 DEF SameLoads, dash!Model
<1>4. ~[u EXCEPT !.fleetPending = FALSE, !.rows = rows, !.remote = remote].fleetPending
  BY DEF dash!Model
<1>5. SameLoads(u, u) BY DEF SameLoads
<1>6. QED BY <1>3, <1>4, <1>5 DEF dash!applyFleetRows, rows

LEMMA DropPendingRow ==
    ASSUME NEW u \in dash!Model, NEW p PROVE SameLoads(u, dash!dropPendingRow(u, p))
<1> DEFINE rows == dash!Only(u.rows, Paths \ {p})
           load == u.loadSeq + 1
<1>1. u.rows \in dash!Rows /\ load \in Nat BY DEF dash!Model
<1>2. rows \in dash!Rows BY <1>1, OnlyIsRows
<1>3. dash!dropPendingRow(u, p) = [u EXCEPT !.rows = rows, !.fleetPending = FALSE, !.loadSeq = load]
  BY DEF dash!dropPendingRow
<1> HIDE DEF rows, load
<1>4. SameLoads(u, [u EXCEPT !.rows = rows, !.fleetPending = FALSE, !.loadSeq = load])
  BY <1>1, <1>2, RowsDropped
<1>5. QED BY <1>3, <1>4

LEMMA RefreshAfter ==
    ASSUME NEW u \in dash!Model, dash!LoadsAreServed(u)
    PROVE  LET v == dash!refreshAfter(u)
           IN Handled(u, v) /\ v.creating = u.creating /\ v.removalActive = u.removalActive
<1>1. CASE u.fetching
  BY <1>1 DEF dash!refreshAfter, dash!Model, Handled, dash!LoadsAreServed
<1>2. CASE ~u.fetching
  <2>1. StartsLoad(u, dash!startFetch(u)) BY StartFetch
  <2>2. Handled(u, dash!startFetch(u)) BY <2>1, StartedIsHandled
  <2>3. QED BY <1>2, <2>1, <2>2 DEF dash!refreshAfter, StartsLoad
<1>3. QED BY <1>1, <1>2

LEMMA CreationDone ==
    ASSUME NEW u \in dash!Model, dash!LoadsAreServed(u), NEW c \in dash!Creations
    PROVE  LET v == dash!creationDone(u, c)
           IN Handled(u, v) /\ v.creating = u.creating \ {c.path} /\ v.removalActive = u.removalActive
<1> DEFINE ended == [u EXCEPT !.creating = @ \ {c.path}]
           dropped == dash!dropPendingRow(ended, c.path)
           placed == IF c.dest # c.path THEN dropped ELSE ended
           moved == [placed EXCEPT !.anchor = c.dest]
<1>1. /\ ended \in dash!Model /\ dash!LoadsAreServed(ended)
      /\ ended.fetching = u.fetching /\ ended.inventorySeq = u.inventorySeq
      /\ ended.creating = u.creating \ {c.path} /\ ended.removalActive = u.removalActive
  BY DEF dash!Model, dash!LoadsAreServed
<1>2. SameLoads(ended, dropped) BY <1>1, DropPendingRow
<1>3. SameLoads(ended, ended) BY <1>1 DEF SameLoads
<1>4. SameLoads(ended, placed) BY <1>2, <1>3
<1>5. SameLoads(placed, moved) 
  <2>1. placed \in dash!Model /\ c.dest \in Paths \cup {None} BY <1>4 DEF SameLoads, dash!Creations
  <2> HIDE DEF placed
  <2>2. QED BY <2>1, FieldWritten
<1>6. SameLoads(ended, moved) BY <1>4, <1>5, SameThenSame
<1>7. Handled(ended, dropped) BY <1>1, <1>2, SameIsHandled
<1>8. Handled(moved, dash!refreshAfter(moved))
      /\ dash!refreshAfter(moved).creating = moved.creating
      /\ dash!refreshAfter(moved).removalActive = moved.removalActive
  <2>1. Handled(ended, moved) BY <1>1, <1>6, SameIsHandled
  <2>2. moved \in dash!Model /\ dash!LoadsAreServed(moved) BY <2>1 DEF Handled
  <2> HIDE DEF moved
  <2>3. QED BY <2>2, RefreshAfter
<1>9. CASE c.stage = "failed"
  <2>1. dash!creationDone(u, c) = dropped BY <1>9 DEF dash!creationDone
  <2> HIDE DEF ended, dropped
  <2>2. QED BY <1>1, <1>2, <1>7, <2>1 DEF SameLoads, Handled
<1>10. CASE c.stage # "failed"
  <2>1. dash!creationDone(u, c) = dash!refreshAfter(moved) BY <1>10 DEF dash!creationDone
  <2> HIDE DEF ended, dropped, placed, moved
  <2>2. QED BY <1>1, <1>6, <1>8, <2>1 DEF SameLoads, Handled
<1>11. QED BY <1>9, <1>10

LEMMA MaterializeDone ==
    ASSUME NEW u \in dash!Model, dash!LoadsAreServed(u), NEW c \in dash!Creations
    PROVE  LET v == dash!materializeDone(u, c)
           IN Handled(u, v) /\ v.creating = u.creating /\ v.removalActive = u.removalActive
<1>1. CASE c.stage = "failed"
  <2>1. SameLoads(u, u) BY DEF SameLoads
  <2>2. Handled(u, u) BY <2>1, SameIsHandled
  <2>3. QED BY <1>1, <2>2 DEF dash!materializeDone
<1>2. CASE c.stage # "failed"
  <2> DEFINE stale == dash!Stale(u, dash!Projects)
             next == [stale EXCEPT !.anchor = c.dest, !.inventoryCurrent = FALSE,
                                   !.global.current = FALSE]
  <2>1. SameLoads(u, stale) BY GoesStale
  <2>2. SameLoads(stale, next)
    <3>1. stale \in dash!Model BY <2>1 DEF SameLoads
    <3> HIDE DEF stale
    <3> DEFINE global == [stale.global EXCEPT !.current = FALSE]
    <3>2. global \in [seen : BOOLEAN, current : BOOLEAN, diagnostic : BOOLEAN]
      BY <3>1 DEF dash!Model
    <3>3. c.dest \in Paths \cup {None} BY DEF dash!Creations
    <3>4. next = [stale EXCEPT !.anchor = c.dest, !.inventoryCurrent = FALSE, !.global = global]
      OBVIOUS
    <3> HIDE DEF global, next
    <3>5. QED BY <3>1, <3>2, <3>3, <3>4, Anchored
  <2>3. StartsLoad(next, dash!startInventory(next, dash!Everything))
    BY <2>2, StartInventory, RequestTypes DEF SameLoads
  <2>4. StartsLoad(u, dash!startInventory(next, dash!Everything))
    BY <2>1, <2>2, <2>3, SameThenSame, SameThenStarts
  <2>5. dash!materializeDone(u, c) = dash!startInventory(next, dash!Everything)
    BY <1>2 DEF dash!materializeDone
  <2> HIDE DEF next
  <2>6. QED BY <2>4, <2>5, StartedIsHandled DEF StartsLoad
<1>3. QED BY <1>1, <1>2

-----------------------------------------------------------------------------
(* Dashboard: the removal queue. *)

LEMMA StartNextRemoval ==
    ASSUME ClientsAssumption, NEW u \in dash!Model
    PROVE  LET v == dash!startNextRemoval(u)
           IN /\ v \in dash!Model
              /\ v.fetching = u.fetching /\ v.inventorySeq = u.inventorySeq
              /\ v.fleetPending = u.fleetPending /\ v.loadSeq = u.loadSeq
              /\ v.pendingRefresh = u.pendingRefresh /\ v.refreshQueue = u.refreshQueue
              /\ v.creating = u.creating
              /\ u.removalActive # None => v.removalActive # None
              /\ u.removalQueue # <<>> => v.removalActive # None
              /\ v.removalQueue # <<>> => v.removalActive # None
<1>1. CASE u.removalActive # None \/ u.removalQueue = <<>>
  <2>1. dash!startNextRemoval(u) = u BY <1>1 DEF dash!startNextRemoval
  <2>2. QED BY <1>1, <2>1
<1>2. CASE ~(u.removalActive # None \/ u.removalQueue = <<>>)
  <2> DEFINE job == Head(u.removalQueue)
             rest == Tail(u.removalQueue)
             next == [u EXCEPT !.removalActive = job, !.removalQueue = rest]
  <2>1. u.removalQueue \in Seq(dash!Job) BY DEF dash!Model
  <2>2. job \in dash!Job /\ rest \in Seq(dash!Job) BY <1>2, <2>1
  <2>3. job # None BY <2>2 DEF ClientsAssumption
  <2>4. dash!startNextRemoval(u) = next
    <3>1. [u EXCEPT !.removalActive = Head(u.removalQueue), !.removalQueue = Tail(@)] = next
      OBVIOUS
    <3>2. QED BY <1>2, <3>1 DEF dash!startNextRemoval
  <2>5. /\ next \in dash!Model /\ next.removalActive = job
        /\ next.fetching = u.fetching /\ next.inventorySeq = u.inventorySeq
        /\ next.fleetPending = u.fleetPending /\ next.loadSeq = u.loadSeq
        /\ next.pendingRefresh = u.pendingRefresh /\ next.refreshQueue = u.refreshQueue
        /\ next.creating = u.creating
    <3> HIDE DEF job, rest
    <3> QED BY <2>2 DEF dash!Model
  <2> HIDE DEF next, job, rest
  <2>6. QED BY <2>3, <2>4, <2>5
<1>3. QED BY <1>1, <1>2

LEMMA EnqueueRemoval ==
    ASSUME ClientsAssumption, NEW u \in dash!Model, dash!LoadsAreServed(u),
           NEW p \in Paths, NEW row \in dash!Row
    PROVE  LET v == dash!enqueueRemoval(u, p, row)
           IN /\ v \in dash!Model /\ dash!LoadsAreServed(v)
              /\ v.fetching = u.fetching /\ v.inventorySeq = u.inventorySeq
              /\ v.fleetPending = u.fleetPending /\ v.loadSeq = u.loadSeq
              /\ v.creating = u.creating
              /\ u.removalActive # None => v.removalActive # None
<1> DEFINE mains == dash!OfProject(u.rows, ProjectOf[p]) \cap Mains
           job == [path |-> p, gen |-> row.gen, from |-> IF mains = {} THEN {p} ELSE mains]
           queued == [u EXCEPT !.removalQueue = Append(@, job)]
           rows == dash!applyRemovalState(queued, u.rows)
           shown == [queued EXCEPT !.rows = rows]
           next == dash!startNextRemoval(shown)
<1>1. CASE dash!Key(p, row) \in dash!QueuedKeys(u)
  <2>1. dash!enqueueRemoval(u, p, row) = u BY <1>1 DEF dash!enqueueRemoval
  <2>2. QED BY <2>1
<1>2. CASE dash!Key(p, row) \notin dash!QueuedKeys(u)
  <2>1. u.rows \in dash!Rows /\ u.removalQueue \in Seq(dash!Job) BY DEF dash!Model
  <2>2. mains \in SUBSET Paths BY <2>1, RowsAre DEF dash!OfProject
  <2>3. row.gen \in 0..2 BY DEF dash!Row
  <2>4. job \in dash!Job
    <3> HIDE DEF mains
    <3> QED BY <2>2, <2>3 DEF dash!Job
  <2>5. rows \in dash!Rows BY <2>1, RemovalStateIsRows
  <2>6. Append(u.removalQueue, job) \in Seq(dash!Job) BY <2>1, <2>4
  <2>7. shown = [u EXCEPT !.removalQueue = Append(u.removalQueue, job), !.rows = rows] OBVIOUS
  <2> DEFINE longer == Append(u.removalQueue, job)
  <2>8. /\ shown \in dash!Model
        /\ shown.fetching = u.fetching /\ shown.inventorySeq = u.inventorySeq
        /\ shown.fleetPending = u.fleetPending /\ shown.loadSeq = u.loadSeq
        /\ shown.pendingRefresh = u.pendingRefresh /\ shown.refreshQueue = u.refreshQueue
        /\ shown.creating = u.creating /\ shown.removalActive = u.removalActive
    <3> DEFINE w == [u EXCEPT !.removalQueue = longer, !.rows = rows]
    <3>1. /\ w \in dash!Model
          /\ w.fetching = u.fetching /\ w.inventorySeq = u.inventorySeq
          /\ w.fleetPending = u.fleetPending /\ w.loadSeq = u.loadSeq
          /\ w.pendingRefresh = u.pendingRefresh /\ w.refreshQueue = u.refreshQueue
          /\ w.creating = u.creating /\ w.removalActive = u.removalActive
      <4> HIDE DEF longer, rows
      <4> QED BY <2>5, <2>6 DEF dash!Model, longer
    <3>2. QED BY <2>7, <3>1
  <2>9. dash!enqueueRemoval(u, p, row) = next BY <1>2 DEF dash!enqueueRemoval
  <2> HIDE DEF shown
  <2>10. /\ next \in dash!Model
         /\ next.fetching = u.fetching /\ next.inventorySeq = u.inventorySeq
         /\ next.fleetPending = u.fleetPending /\ next.loadSeq = u.loadSeq
         /\ next.pendingRefresh = u.pendingRefresh /\ next.refreshQueue = u.refreshQueue
         /\ next.creating = u.creating
         /\ u.removalActive # None => next.removalActive # None
         /\ next.removalQueue # <<>> => next.removalActive # None
    BY <2>8, StartNextRemoval
  <2> HIDE DEF next
  <2>11. dash!LoadsAreServed(next) BY <2>10 DEF dash!LoadsAreServed
  <2>12. QED BY <2>9, <2>10, <2>11
<1>3. QED BY <1>1, <1>2

LEMMA ApplyRemovalDone ==
    ASSUME ClientsAssumption, NEW u \in dash!Model, dash!LoadsAreServed(u),
           NEW job \in dash!Job, NEW removed \in BOOLEAN, NEW refresh \in BOOLEAN,
           removed => refresh
    PROVE  LET v == dash!applyRemovalDone(u, job, removed, refresh)
           IN Handled(u, v) /\ v.creating = u.creating
<1> DEFINE idle == [u EXCEPT !.removalActive = None]
           without == dash!Only(u.rows, Paths \ {job.path})
           unmarked == [p \in DOMAIN u.rows |->
                          [u.rows[p] EXCEPT !.removing = @ /\ dash!Key(p, u.rows[p]) # <<job.path, job.gen>>]]
           gone == [idle EXCEPT !.inventorySeq = @ + 1, !.loadSeq = @ + 1, !.fetching = FALSE,
                                !.fleetPending = FALSE, !.rows = without]
           kept == [idle EXCEPT !.rows = unmarked]
           next == IF removed THEN gone ELSE kept
           request == dash!Repository(ProjectOf[job.path], job.from)
           asked == IF refresh THEN [next EXCEPT !.refreshQueue = Append(@, request)] ELSE next
           v == dash!applyRemovalDone(u, job, removed, refresh)
<1>1. u.rows \in dash!Rows /\ u.refreshQueue \in Seq(dash!Request) /\ u.inventorySeq \in Nat
  BY DEF dash!Model
<1>2. without \in dash!Rows BY <1>1, OnlyIsRows
<1>3. unmarked \in dash!Rows
  <2>1. \A p \in DOMAIN u.rows :
          [u.rows[p] EXCEPT !.removing = @ /\ dash!Key(p, u.rows[p]) # <<job.path, job.gen>>] \in dash!Row
    BY <1>1, RowsAre DEF dash!Row
  <2>2. unmarked \in [DOMAIN u.rows -> dash!Row] BY <2>1
  <2>3. QED BY <1>1, <2>2, RowsAre, RowsFrom
<1>4. request \in dash!Request BY ProjectTypes, RequestTypes DEF dash!Job
<1>5. /\ next \in dash!Model /\ next.removalActive = None
      /\ next.removalQueue = u.removalQueue /\ next.refreshQueue = u.refreshQueue
      /\ next.creating = u.creating /\ next.pendingRefresh = u.pendingRefresh
      /\ next.fetching => ~removed /\ u.fetching /\ next.inventorySeq = u.inventorySeq
      /\ ~removed => next.fetching = u.fetching
      /\ next.inventorySeq >= u.inventorySeq
  <2>1. /\ gone \in dash!Model /\ gone.removalActive = None
        /\ gone.removalQueue = u.removalQueue /\ gone.refreshQueue = u.refreshQueue
        /\ gone.creating = u.creating /\ gone.pendingRefresh = u.pendingRefresh
        /\ ~gone.fetching /\ gone.inventorySeq >= u.inventorySeq
    <3> DEFINE fetch == u.inventorySeq + 1
               load == u.loadSeq + 1
    <3>1. fetch \in Nat /\ load \in Nat /\ fetch >= u.inventorySeq BY DEF dash!Model
    <3>2. gone = [u EXCEPT !.removalActive = None, !.inventorySeq = fetch, !.loadSeq = load,
                           !.fetching = FALSE, !.fleetPending = FALSE, !.rows = without]
      OBVIOUS
    <3> HIDE DEF without, fetch, load, gone
    <3>3. RemovalEnds(u, gone, fetch, FALSE) BY <1>2, <3>1, <3>2, RemovalWritten
    <3>4. QED BY <3>1, <3>3 DEF RemovalEnds
  <2>2. /\ kept \in dash!Model /\ kept.removalActive = None
        /\ kept.removalQueue = u.removalQueue /\ kept.refreshQueue = u.refreshQueue
        /\ kept.creating = u.creating /\ kept.pendingRefresh = u.pendingRefresh
        /\ kept.fetching = u.fetching /\ kept.inventorySeq = u.inventorySeq
    <3> HIDE DEF unmarked
    <3> QED BY <1>3 DEF dash!Model
  <2> HIDE DEF gone, kept
  <2>3. QED BY <1>1, <2>1, <2>2
<1>6. v = IF asked.removalQueue # <<>> THEN dash!startNextRemoval(asked)
          ELSE dash!startNextRemovalRefresh(asked)
  BY DEF dash!applyRemovalDone
<1> HIDE DEF next, request, v
<1>7. /\ asked \in dash!Model /\ asked.removalActive = None
      /\ asked.removalQueue = u.removalQueue /\ asked.creating = u.creating
      /\ asked.pendingRefresh = u.pendingRefresh
      /\ asked.fetching => u.fetching /\ asked.inventorySeq = u.inventorySeq
      /\ asked.pendingRefresh => asked.fetching \/ asked.refreshQueue # <<>>
      /\ asked.inventorySeq >= u.inventorySeq
  <2> DEFINE longer == Append(u.refreshQueue, request)
             more == [next EXCEPT !.refreshQueue = longer]
  <2>1. longer \in Seq(dash!Request) /\ longer # <<>> BY <1>1, <1>4
  <2>2. /\ more \in dash!Model /\ more.removalActive = None
        /\ more.removalQueue = u.removalQueue /\ more.creating = u.creating
        /\ more.pendingRefresh = u.pendingRefresh /\ more.refreshQueue # <<>>
        /\ more.fetching = next.fetching /\ more.inventorySeq = next.inventorySeq
    <3> HIDE DEF longer
    <3>1. more \in dash!Model BY <1>5, <2>1, RefreshAsked
    <3>2. /\ more.removalActive = None
          /\ more.removalQueue = u.removalQueue /\ more.creating = u.creating
          /\ more.pendingRefresh = u.pendingRefresh /\ more.refreshQueue = longer
          /\ more.fetching = next.fetching /\ more.inventorySeq = next.inventorySeq
      BY <1>5 DEF dash!Model
    <3>3. QED BY <2>1, <3>1, <3>2
  <2>3. CASE refresh
    <3>1. asked = more BY <1>5, <2>3
    <3> HIDE DEF more, asked
    <3>2. QED BY <1>5, <2>2, <3>1
  <2>4. CASE ~refresh
    <3>1. asked = next /\ ~removed BY <2>4
    <3> HIDE DEF asked
    <3>2. u.pendingRefresh => u.fetching \/ u.refreshQueue # <<>> BY DEF dash!LoadsAreServed
    <3>3. QED BY <1>5, <3>1, <3>2
  <2>5. QED BY <2>3, <2>4
<1> HIDE DEF asked
<1>8. CASE asked.removalQueue # <<>>
  <2>1. v = dash!startNextRemoval(asked) BY <1>6, <1>8
  <2>2. /\ v \in dash!Model
        /\ v.fetching = asked.fetching /\ v.inventorySeq = asked.inventorySeq
        /\ v.pendingRefresh = asked.pendingRefresh /\ v.refreshQueue = asked.refreshQueue
        /\ v.creating = asked.creating /\ v.removalActive # None
    BY <1>7, <1>8, <2>1, StartNextRemoval
  <2>3. dash!LoadsAreServed(v) BY <1>7, <2>2 DEF dash!LoadsAreServed
  <2>4. QED BY <1>7, <2>2, <2>3 DEF Handled, v
<1>9. CASE asked.removalQueue = <<>>
  <2>1. v = dash!startNextRemovalRefresh(asked) BY <1>6, <1>9
  <2>2. CASE v = asked /\ asked.refreshQueue = <<>>
    <3>1. dash!LoadsAreServed(v) BY <1>7, <1>9, <2>2 DEF dash!LoadsAreServed
    <3>2. QED BY <1>7, <2>2, <3>1 DEF Handled, v
  <2>3. CASE StartsLoad(asked, v)
    <3>1. dash!LoadsAreServed(v) BY <1>9, <2>3 DEF StartsLoad, dash!LoadsAreServed
    <3>2. asked.inventorySeq \in Nat /\ v.inventorySeq \in Nat
      BY <1>7, <2>3 DEF StartsLoad, dash!Model
    <3>3. QED BY <1>1, <1>7, <2>3, <3>1, <3>2 DEF StartsLoad, Handled, v
  <2>4. QED BY <1>7, <2>1, <2>2, <2>3, StartNextRemovalRefresh
<1>10. QED BY <1>8, <1>9

-----------------------------------------------------------------------------
(* Dashboard: its steps. *)

\* The invariant, one part per store.
LoadsInv ==
  /\ s1 \in dash!Model /\ dash!LoadsAreServed(s1)
  /\ s5 \subseteq dash!Queries /\ s6 \subseteq [seq : Nat, rows : dash!Rows]
  /\ s1.fetching => \E q \in s5 : q.seq = s1.inventorySeq
  /\ s1.fleetPending => \E o \in s6 : o.seq = s1.loadSeq

DiskInv ==
  /\ s2 \in [Paths -> [gen : 0..2, head : 0..1]] /\ s3 \in [Paths -> 0..2] /\ s4 \in dash!Rows

Creating == {c.path : c \in {d \in s7 : d.kind = "create"}}

WorkInv ==
  /\ s7 \subseteq dash!Creations /\ s9 \in Nat
  /\ s1.creating \subseteq Creating

RemovalInv == s8 # None => s1.removalActive # None

LEMMA InvParts == dash!DashboardInv <=> LoadsInv /\ DiskInv /\ WorkInv /\ RemovalInv
  BY DEF dash!DashboardInv, dash!ModelIsTyped, dash!NothingIsDropped, LoadsInv, DiskInv, WorkInv,
         RemovalInv, Creating

LEMMA PartsInv ==
    ASSUME LoadsInv', DiskInv', WorkInv', RemovalInv' PROVE dash!DashboardInv'
  BY DEF dash!DashboardInv, dash!ModelIsTyped, dash!NothingIsDropped, LoadsInv, DiskInv, WorkInv,
         RemovalInv, Creating

LEMMA Updated ==
    ASSUME LoadsInv, NEW v, NEW asked \in SUBSET dash!Queries,
           NEW merging \in SUBSET [seq : Nat, rows : dash!Rows],
           dash!Update(v, asked, merging), v \in dash!Model, dash!LoadsAreServed(v),
           v.fetching => v.inventorySeq # s1.inventorySeq \/ \E q \in asked : q.seq = v.inventorySeq,
           v.fleetPending /\ s1.fleetPending /\ v.loadSeq = s1.loadSeq
             => \E o \in merging : o.seq = v.loadSeq
    PROVE  LoadsInv' /\ s1' = v
<1>1. s1' = v BY DEF dash!Update
<1>2. v.inventorySeq \in Nat /\ v.request \in dash!Request /\ v.loadSeq \in Nat /\ v.rows \in dash!Rows
  BY DEF dash!Model
<1> DEFINE query == dash!Query(v.inventorySeq, v.request)
           overlay == [seq |-> v.loadSeq, rows |-> v.rows]
<1>3. query \in dash!Queries /\ query.seq = v.inventorySeq
  BY <1>2, EmptyIsRows DEF dash!Query, dash!Queries
<1>4. overlay \in [seq : Nat, rows : dash!Rows] /\ overlay.seq = v.loadSeq BY <1>2
<1>5. s5' = IF v.inventorySeq # s1.inventorySeq /\ v.fetching THEN asked \cup {query} ELSE asked
  BY DEF dash!Update
<1>6. s6' = IF v.fleetPending /\ (~s1.fleetPending \/ v.loadSeq # s1.loadSeq)
            THEN merging \cup {overlay} ELSE merging
  BY DEF dash!Update
<1> HIDE DEF query, overlay
<1>7. s5' \subseteq dash!Queries /\ (v.fetching => \E q \in s5' : q.seq = v.inventorySeq)
  BY <1>3, <1>5
<1>8. s6' \subseteq [seq : Nat, rows : dash!Rows] /\ (v.fleetPending => \E o \in s6' : o.seq = v.loadSeq)
  <2>1. s6' \subseteq [seq : Nat, rows : dash!Rows] BY <1>4, <1>6
  <2>2. ASSUME v.fleetPending PROVE \E o \in s6' : o.seq = v.loadSeq
    <3>1. CASE ~s1.fleetPending \/ v.loadSeq # s1.loadSeq
      <4>1. overlay \in s6' BY <1>6, <2>2, <3>1
      <4>2. QED BY <1>4, <4>1
    <3>2. CASE s1.fleetPending /\ v.loadSeq = s1.loadSeq
      <4>1. s6' = merging BY <1>6, <3>2
      <4>2. QED BY <2>2, <3>2, <4>1
    <3>3. QED BY <3>1, <3>2
  <2>3. QED BY <2>1, <2>2
<1>9. QED BY <1>1, <1>7, <1>8 DEF LoadsInv

\* Most handlers answer nothing that was under way.
LEMMA HandledUpdate ==
    ASSUME LoadsInv, NEW v, Handled(s1, v), dash!Update(v, s5, s6)
    PROVE  LoadsInv' /\ s1' = v
<1>1. v.fetching => v.inventorySeq # s1.inventorySeq \/ \E q \in s5 : q.seq = v.inventorySeq
  BY DEF Handled, LoadsInv
<1>2. v.fleetPending /\ s1.fleetPending /\ v.loadSeq = s1.loadSeq => \E o \in s6 : o.seq = v.loadSeq
  BY DEF LoadsInv
<1>3. QED BY <1>1, <1>2, Updated DEF Handled, LoadsInv

\* A step that starts no load.
LEMMA LoadsRest ==
    ASSUME LoadsInv, s1' \in dash!Model, dash!LoadsAreServed(s1'),
           s1'.fetching = s1.fetching, s1'.inventorySeq = s1.inventorySeq,
           s1'.fleetPending = s1.fleetPending, s1'.loadSeq = s1.loadSeq,
           s5' = s5, s6' = s6
    PROVE  LoadsInv'
  BY DEF LoadsInv

LEMMA InitDashboard == ASSUME ClientsAssumption, dash!Init PROVE dash!DashboardInv
<1>1. PICK launch \in Launches, inRepository \in BOOLEAN :
        (inRepository => launch # None) /\ s1 = dash!NewModel(launch, inRepository)
  BY DEF dash!Init
<1>2. launch \in Paths \cup {None} BY DEF Launches, Paths
<1>3. inRepository => launch \in Paths /\ ProjectOf[launch] \in dash!Projects
  BY <1>1, <1>2, ProjectTypes
<1> DEFINE perspective == IF inRepository THEN ProjectOf[launch] ELSE All
           request == IF inRepository THEN dash!Repository(ProjectOf[launch], {launch}) ELSE dash!Cached
           fresh == [p \in dash!Projects |-> [current |-> FALSE, diagnostic |-> FALSE]]
<1>4. perspective \in dash!Projects \cup {All} BY <1>3
<1>5. request \in dash!Request BY <1>3, RequestTypes
<1>6. fresh \in [dash!Projects -> [current : BOOLEAN, diagnostic : BOOLEAN]] OBVIOUS
<1>7. s1 \in dash!Model /\ dash!LoadsAreServed(s1) /\ s1.inventorySeq = 0 /\ ~s1.fleetPending
      /\ s1.creating = {} /\ s1.request = request
  <2>1. s1 = [rows |-> dash!Empty, remote |-> {}, perspective |-> perspective,
              anchor |-> launch, fetching |-> TRUE, inventorySeq |-> 0, loadSeq |-> 0,
              request |-> request, inventoryCurrent |-> FALSE, fresh |-> fresh,
              global |-> [seen |-> FALSE, current |-> FALSE, diagnostic |-> FALSE],
              backgroundStarted |-> FALSE, fleetPending |-> FALSE, pendingRefresh |-> FALSE,
              creating |-> {}, removalQueue |-> <<>>, removalActive |-> None,
              refreshQueue |-> <<>>, prompt |-> None, confirm |-> None]
    BY <1>1 DEF dash!NewModel
  <2>2. <<>> \in Seq(dash!Job) /\ <<>> \in Seq(dash!Request) OBVIOUS
  <2> HIDE DEF perspective, request, fresh
  <2>3. s1 \in dash!Model BY <1>2, <1>4, <1>5, <1>6, <2>1, <2>2, EmptyIsRows DEF dash!Model
  <2>4. QED BY <2>1, <2>3 DEF dash!LoadsAreServed
<1>8. s5 = {dash!Query(0, request)} BY <1>7 DEF dash!Init
<1> HIDE DEF request
<1>9. dash!Query(0, request) \in dash!Queries /\ dash!Query(0, request).seq = 0
  BY <1>5, EmptyIsRows DEF dash!Query, dash!Queries
<1>10. LoadsInv BY <1>7, <1>8, <1>9 DEF LoadsInv, dash!Init
<1>11. DiskInv
  <2>1. s2 \in [Paths -> [gen : 0..2, head : 0..1]] BY DEF dash!Init
  <2>2. s3 \in [Paths -> 0..2] BY <2>1 DEF dash!Init
  <2>3. s4 \in dash!Rows BY <2>1, ListedIsRows DEF dash!Init
  <2>4. QED BY <2>1, <2>2, <2>3 DEF DiskInv
<1>12. WorkInv /\ RemovalInv BY <1>7 DEF dash!Init, WorkInv, RemovalInv
<1>13. QED BY <1>10, <1>11, <1>12, InvParts

LEMMA LoadInventoryStep ==
    ASSUME dash!DashboardInv, NEW q \in s5, dash!LoadInventory(q) PROVE dash!DashboardInv'
<1> USE InvParts
<1>1. q \in dash!Queries BY DEF LoadsInv
<1>2. q.request \in dash!Request BY <1>1 DEF dash!Queries
<1> DEFINE rows == CASE q.request.scope = "cached" -> s4
                     [] q.request.scope = "dashboard" -> dash!Listed(s2, q.request.statuses)
                     [] OTHER -> dash!Only(dash!Listed(s2, TRUE), dash!OfProject(s2, q.request.project))
<1>3. rows \in dash!Rows
  <2>1. q.request.statuses \in BOOLEAN BY <1>2 DEF dash!Request
  <2>2. dash!Listed(s2, q.request.statuses) \in dash!Rows /\ dash!Listed(s2, TRUE) \in dash!Rows
    BY <2>1, ListedIsRows DEF DiskInv
  <2>3. dash!Only(dash!Listed(s2, TRUE), dash!OfProject(s2, q.request.project)) \in dash!Rows
    BY <2>2, OnlyIsRows
  <2>4. s4 \in dash!Rows BY DEF DiskInv
  <2> DEFINE second == dash!Listed(s2, q.request.statuses)
             third == dash!Only(dash!Listed(s2, TRUE), dash!OfProject(s2, q.request.project))
  <2>5. second \in dash!Rows /\ third \in dash!Rows BY <2>2, <2>3
  <2> HIDE DEF second, third
  <2>6. (CASE q.request.scope = "cached" -> s4 [] q.request.scope = "dashboard" -> second
           [] OTHER -> third) \in dash!Rows
    BY <2>4, <2>5
  <2>7. QED BY <2>6 DEF second, third
<1> DEFINE observed == [q EXCEPT !.stage = "observed", !.rows = rows]
           refused == [q EXCEPT !.stage = "failed"]
<1>4. s5' \in {(s5 \ {q}) \cup {observed}, (s5 \ {q}) \cup {refused}}
      /\ s4' \in {dash!Listed(s2, FALSE), s4}
  BY DEF dash!LoadInventory, dash!RepositoryRows, dash!DashboardRows
<1>5. /\ observed \in dash!Queries /\ observed.seq = q.seq
      /\ refused \in dash!Queries /\ refused.seq = q.seq
  <2> HIDE DEF rows
  <2> QED BY <1>1, <1>3 DEF dash!Queries
<1> HIDE DEF observed, refused
<1>6. UNCHANGED <<s1, s2, s3, s6, s7, s8, s9>> BY DEF dash!LoadInventory
<1>7. s5' \subseteq dash!Queries /\ \A r \in s5 : \E t \in s5' : t.seq = r.seq
  <2>1. s5 \subseteq dash!Queries BY DEF LoadsInv
  <2>2. PICK t \in {observed, refused} : s5' = (s5 \ {q}) \cup {t} BY <1>4
  <2>3. QED BY <1>5, <2>1, <2>2
<1>8. LoadsInv' BY <1>6, <1>7 DEF LoadsInv
<1>9. DiskInv'
  <2>1. dash!Listed(s2, FALSE) \in dash!Rows BY ListedIsRows DEF DiskInv
  <2>2. QED BY <1>4, <1>6, <2>1 DEF DiskInv
<1>10. WorkInv' /\ RemovalInv' BY <1>6 DEF WorkInv, RemovalInv, Creating
<1>11. QED BY <1>8, <1>9, <1>10, PartsInv

LEMMA JoinInventoryStep ==
    ASSUME dash!DashboardInv, NEW q \in s5, NEW r \in s5, dash!JoinInventory(q, r)
    PROVE  dash!DashboardInv'
<1> USE InvParts
<1>1. q \in dash!Queries /\ r \in dash!Queries BY DEF LoadsInv
<1>2. r.rows \in dash!Rows /\ q.request.statuses \in BOOLEAN
  BY <1>1 DEF dash!Queries, dash!Request
<1> DEFINE rows == [p \in DOMAIN r.rows |-> [r.rows[p] EXCEPT !.status = q.request.statuses]]
           observed == [q EXCEPT !.stage = "observed", !.rows = rows]
<1>3. rows \in dash!Rows
  <2>1. \A p \in DOMAIN r.rows : [r.rows[p] EXCEPT !.status = q.request.statuses] \in dash!Row
    BY <1>2, RowsAre DEF dash!Row
  <2>2. rows \in [DOMAIN r.rows -> dash!Row] BY <2>1
  <2>3. QED BY <1>2, <2>2, RowsAre, RowsFrom
<1>4. s5' = (s5 \ {q}) \cup {observed} BY DEF dash!JoinInventory
<1>5. observed \in dash!Queries /\ observed.seq = q.seq
  <2> HIDE DEF rows
  <2> QED BY <1>1, <1>3 DEF dash!Queries
<1> HIDE DEF observed
<1>6. UNCHANGED <<s1, s2, s3, s4, s6, s7, s8, s9>> BY DEF dash!JoinInventory
<1>7. s5' \subseteq dash!Queries /\ \A t \in s5 : \E w \in s5' : w.seq = t.seq
  <2>1. s5 \subseteq dash!Queries BY DEF LoadsInv
  <2>2. QED BY <1>4, <1>5, <2>1
<1>8. LoadsInv' BY <1>6, <1>7 DEF LoadsInv
<1>9. DiskInv' /\ WorkInv' /\ RemovalInv' BY <1>6 DEF DiskInv, WorkInv, RemovalInv, Creating
<1>10. QED BY <1>8, <1>9, PartsInv

LEMMA DeliverInventoryStep ==
    ASSUME dash!DashboardInv, NEW q \in s5, dash!DeliverInventory(q) PROVE dash!DashboardInv'
<1> USE InvParts
<1> DEFINE v == dash!applyInventory(s1, q)
<1>1. q \in dash!Queries /\ s1 \in dash!Model /\ dash!LoadsAreServed(s1) BY DEF LoadsInv
<1>2. /\ Handled(s1, v) /\ v.creating = s1.creating /\ v.removalActive = s1.removalActive
      /\ v.fetching => v.inventorySeq # q.seq \/ v.inventorySeq # s1.inventorySeq
  BY <1>1, ApplyInventory
<1>3. dash!Update(v, s5 \ {q}, s6) /\ UNCHANGED <<s2, s3, s4, s7, s8, s9>>
  BY DEF dash!DeliverInventory
<1> HIDE DEF v
<1>4. v.fetching => v.inventorySeq # s1.inventorySeq \/ \E r \in s5 \ {q} : r.seq = v.inventorySeq
  <2>1. SUFFICES ASSUME v.fetching, v.inventorySeq = s1.inventorySeq
                 PROVE  \E r \in s5 \ {q} : r.seq = v.inventorySeq
    OBVIOUS
  <2>2. s1.fetching /\ q.seq # s1.inventorySeq BY <1>2, <2>1 DEF Handled
  <2>3. PICK r \in s5 : r.seq = s1.inventorySeq BY <2>2 DEF LoadsInv
  <2>4. QED BY <2>1, <2>2, <2>3
<1>5. v.fleetPending /\ s1.fleetPending /\ v.loadSeq = s1.loadSeq => \E o \in s6 : o.seq = v.loadSeq
  BY DEF LoadsInv
<1>6. LoadsInv' /\ s1' = v
  <2>1. s5 \ {q} \in SUBSET dash!Queries /\ s6 \in SUBSET [seq : Nat, rows : dash!Rows]
    BY DEF LoadsInv
  <2>2. v \in dash!Model /\ dash!LoadsAreServed(v) BY <1>2 DEF Handled
  <2>3. LoadsInv BY InvParts
  <2>4. QED BY <1>3, <1>4, <1>5, <2>1, <2>2, <2>3, Updated
<1>7. DiskInv' /\ WorkInv' /\ RemovalInv'
  BY <1>2, <1>3, <1>6 DEF DiskInv, WorkInv, RemovalInv, Creating
<1>8. QED BY <1>6, <1>7, PartsInv

LEMMA DeliverFleetStep ==
    ASSUME dash!DashboardInv, NEW o \in s6, dash!DeliverFleet(o) PROVE dash!DashboardInv'
<1> USE InvParts
<1>1. o \in [seq : Nat, rows : dash!Rows] /\ s1 \in dash!Model /\ dash!LoadsAreServed(s1)
  BY DEF LoadsInv
<1>2. PICK remote \in {{}, Hub \ DOMAIN o.rows} :
        dash!Update(dash!applyFleetRows(s1, o, remote), s5, s6 \ {o})
  BY DEF dash!DeliverFleet
<1>3. remote \in SUBSET Hub OBVIOUS
<1> DEFINE v == dash!applyFleetRows(s1, o, remote)
<1>4. SameLoads(s1, v) /\ (v.fleetPending => v.fleetPending = s1.fleetPending /\ o.seq # v.loadSeq)
  BY <1>1, <1>3, ApplyFleetRows
<1>5. dash!Update(v, s5, s6 \ {o}) BY <1>2
<1> HIDE DEF v
<1>6. Handled(s1, v) BY <1>1, <1>4, SameIsHandled
<1>7. v.fetching => v.inventorySeq # s1.inventorySeq \/ \E q \in s5 : q.seq = v.inventorySeq
  BY <1>6 DEF Handled, LoadsInv
<1>8. v.fleetPending /\ s1.fleetPending /\ v.loadSeq = s1.loadSeq
        => \E p \in s6 \ {o} : p.seq = v.loadSeq
  <2>1. SUFFICES ASSUME v.fleetPending, s1.fleetPending, v.loadSeq = s1.loadSeq
                 PROVE  \E p \in s6 \ {o} : p.seq = v.loadSeq
    OBVIOUS
  <2>2. PICK p \in s6 : p.seq = s1.loadSeq BY <2>1 DEF LoadsInv
  <2>3. p # o BY <1>4, <2>1, <2>2
  <2>4. QED BY <2>1, <2>2, <2>3
<1>9. LoadsInv' /\ s1' = v
  <2>1. s6 \ {o} \in SUBSET [seq : Nat, rows : dash!Rows] /\ s5 \in SUBSET dash!Queries
    BY DEF LoadsInv
  <2>2. v \in dash!Model /\ dash!LoadsAreServed(v) BY <1>6 DEF Handled
  <2>3. LoadsInv BY InvParts
  <2>4. QED BY <1>5, <1>7, <1>8, <2>1, <2>2, <2>3, Updated
<1>10. UNCHANGED <<s2, s3, s4, s7, s8, s9>> BY DEF dash!DeliverFleet
<1>11. DiskInv' /\ WorkInv' /\ RemovalInv'
  BY <1>4, <1>9, <1>10 DEF DiskInv, WorkInv, RemovalInv, Creating, SameLoads
<1>12. QED BY <1>9, <1>11, PartsInv

\* Publishing a worktree and the return of a creation keep its path.
LEMMA CreationMoves ==
    ASSUME dash!DashboardInv, NEW c \in s7, NEW d \in dash!Creations,
           d.kind = c.kind, d.path = c.path, s7' = (s7 \ {c}) \cup {d}, s9' = s9, s1' = s1
    PROVE  WorkInv'
<1> USE InvParts
<1>1. s7 \subseteq dash!Creations /\ s1.creating \subseteq Creating /\ s9 \in Nat BY DEF WorkInv
<1>2. s7' \subseteq dash!Creations BY <1>1
<1>3. Creating \subseteq Creating' BY DEF Creating
<1>4. QED BY <1>1, <1>2, <1>3 DEF WorkInv

LEMMA PublishStep ==
    ASSUME dash!DashboardInv, NEW c \in s7, dash!PublishWorktree(c) PROVE dash!DashboardInv'
<1> USE InvParts
<1>1. c \in dash!Creations BY DEF WorkInv
<1>2. PICK dest \in {c.path} \cup {p \in Elsewhere : ProjectOf[p] = ProjectOf[c.path]} :
        /\ s2[dest].gen = 0 /\ s3[dest] < 2
        /\ s2' = [s2 EXCEPT ![dest] = [gen |-> s3[dest] + 1, head |-> 0]]
        /\ s3' = [s3 EXCEPT ![dest] = @ + 1]
        /\ s7' = (s7 \ {c}) \cup {[c EXCEPT !.stage = "published", !.dest = dest]}
  BY DEF dash!PublishWorktree
<1>3. dest \in Paths BY <1>1 DEF dash!Creations, Elsewhere, Paths
<1>4. UNCHANGED <<s1, s4, s5, s6, s8, s9>> BY DEF dash!PublishWorktree
<1>5. DiskInv'
  <2>1. s3[dest] + 1 \in 0..2 BY <1>2, <1>3 DEF DiskInv
  <2>2. QED BY <1>2, <1>3, <1>4, <2>1 DEF DiskInv
<1>6. WorkInv'
  <2> DEFINE d == [c EXCEPT !.stage = "published", !.dest = dest]
  <2>1. d \in dash!Creations /\ d.kind = c.kind /\ d.path = c.path
    BY <1>1, <1>3 DEF dash!Creations
  <2>2. QED BY <1>2, <1>4, <2>1, CreationMoves
<1>7. LoadsInv' /\ RemovalInv' BY <1>4 DEF LoadsInv, RemovalInv
<1>8. QED BY <1>5, <1>6, <1>7, PartsInv

LEMMA CreateStep ==
    ASSUME dash!DashboardInv, NEW c \in s7, dash!CreateWorktree(c) PROVE dash!DashboardInv'
<1> USE InvParts
<1>1. c \in dash!Creations BY DEF WorkInv
<1>2. PICK stage \in {"returned", "failed"} : s7' = (s7 \ {c}) \cup {[c EXCEPT !.stage = stage]}
  <2>1. \/ s7' = (s7 \ {c}) \cup {[c EXCEPT !.stage = "returned"]}
        \/ s7' = (s7 \ {c}) \cup {[c EXCEPT !.stage = "failed"]}
    BY DEF dash!CreateWorktree, dash!Rejected
  <2>2. QED BY <2>1, Zenon
<1>3. UNCHANGED <<s1, s3, s4, s5, s6, s8, s9>> BY DEF dash!CreateWorktree
<1>4. s2' \in {s2, [s2 EXCEPT ![c.dest] = [gen |-> 0, head |-> 0]]} BY DEF dash!CreateWorktree, dash!Rejected
<1>5. DiskInv'
  <2> DEFINE missing == [gen |-> 0, head |-> 0]
             x == c.dest
  <2>1. [s2 EXCEPT ![x] = missing] \in [Paths -> [gen : 0..2, head : 0..1]]
    <3>1. s2 \in [Paths -> [gen : 0..2, head : 0..1]] BY DEF DiskInv
    <3>2. missing \in [gen : 0..2, head : 0..1] OBVIOUS
    <3> HIDE DEF missing, x
    <3>3. QED BY <3>1, <3>2
  <2>2. QED BY <1>3, <1>4, <2>1 DEF DiskInv
<1>6. WorkInv'
  <2> DEFINE d == [c EXCEPT !.stage = stage]
  <2>1. d \in dash!Creations /\ d.kind = c.kind /\ d.path = c.path BY <1>1 DEF dash!Creations
  <2>2. QED BY <1>2, <1>3, <2>1, CreationMoves
<1>7. LoadsInv' /\ RemovalInv' BY <1>3 DEF LoadsInv, RemovalInv
<1>8. QED BY <1>5, <1>6, <1>7, PartsInv

LEMMA DeliverCreationStep ==
    ASSUME dash!DashboardInv, NEW c \in s7, dash!DeliverCreation(c) PROVE dash!DashboardInv'
<1> USE InvParts
<1> DEFINE v == dash!actionDone(s1, c)
<1>1. c \in dash!Creations /\ s1 \in dash!Model /\ dash!LoadsAreServed(s1) BY DEF LoadsInv, WorkInv
<1>2. /\ Handled(s1, v) /\ v.removalActive = s1.removalActive
      /\ v.creating \subseteq s1.creating /\ (c.kind = "create" => c.path \notin v.creating)
  BY <1>1, CreationDone, MaterializeDone DEF dash!actionDone
<1>3. /\ dash!Update(v, s5, s6) /\ s7' = s7 \ {c} /\ UNCHANGED <<s2, s3, s4, s8, s9>>
  BY DEF dash!DeliverCreation
<1> HIDE DEF v
<1>4. LoadsInv' /\ s1' = v BY <1>2, <1>3, HandledUpdate
<1>5. v.creating \subseteq Creating'
  <2>1. s1.creating \subseteq Creating BY DEF WorkInv
  <2>2. SUFFICES ASSUME NEW p \in v.creating PROVE p \in Creating' OBVIOUS
  <2>3. PICK d \in s7 : d.kind = "create" /\ d.path = p BY <1>2, <2>1, <2>2 DEF Creating
  <2>4. d # c BY <1>2, <2>2, <2>3
  <2>5. QED BY <1>3, <2>3, <2>4 DEF Creating
<1>6. WorkInv' BY <1>3, <1>4, <1>5 DEF WorkInv
<1>7. DiskInv' /\ RemovalInv' BY <1>2, <1>3, <1>4 DEF DiskInv, RemovalInv
<1>8. QED BY <1>4, <1>6, <1>7, PartsInv

LEMMA RemoveStep ==
    ASSUME dash!DashboardInv, dash!RemoveWorktree PROVE dash!DashboardInv'
<1> USE InvParts
<1>1. UNCHANGED <<s1, s3, s4, s5, s6, s7, s9>> /\ s1.removalActive # None
  BY DEF dash!RemoveWorktree
<1>2. s2' \in {s2, [s2 EXCEPT ![s1.removalActive.path] = [gen |-> 0, head |-> 0]]}
  BY DEF dash!RemoveWorktree
<1>3. DiskInv'
  <2> DEFINE missing == [gen |-> 0, head |-> 0]
             x == s1.removalActive.path
  <2>1. [s2 EXCEPT ![x] = missing] \in [Paths -> [gen : 0..2, head : 0..1]]
    <3>1. s2 \in [Paths -> [gen : 0..2, head : 0..1]] BY DEF DiskInv
    <3>2. missing \in [gen : 0..2, head : 0..1] OBVIOUS
    <3> HIDE DEF missing, x
    <3>3. QED BY <3>1, <3>2
  <2>2. QED BY <1>1, <1>2, <2>1 DEF DiskInv
<1>4. LoadsInv' /\ WorkInv' /\ RemovalInv'
  BY <1>1 DEF LoadsInv, WorkInv, RemovalInv, Creating
<1>5. QED BY <1>3, <1>4, PartsInv

LEMMA DeliverRemovalStep ==
    ASSUME ClientsAssumption, dash!DashboardInv, dash!DeliverRemoval PROVE dash!DashboardInv'
<1> USE InvParts
<1> DEFINE v == dash!applyRemovalDone(s1, s1.removalActive, s8 = "removed", s8 # "refused")
<1>1. s1 \in dash!Model /\ dash!LoadsAreServed(s1) BY DEF LoadsInv
<1>2. s1.removalActive \in dash!Job BY <1>1 DEF dash!DeliverRemoval, RemovalInv, dash!Model
<1>3. Handled(s1, v) /\ v.creating = s1.creating
  <2>1. (s8 = "removed") \in BOOLEAN /\ (s8 # "refused") \in BOOLEAN
    OBVIOUS
  <2>2. s8 = "removed" => s8 # "refused" OBVIOUS
  <2> DEFINE removed == s8 = "removed"
             refresh == s8 # "refused"
  <2>3. removed \in BOOLEAN /\ refresh \in BOOLEAN /\ (removed => refresh) BY <2>1, <2>2
  <2> HIDE DEF removed, refresh
  <2>4. LET w == dash!applyRemovalDone(s1, s1.removalActive, removed, refresh)
        IN Handled(s1, w) /\ w.creating = s1.creating
    BY <1>1, <1>2, <2>3, ApplyRemovalDone
  <2>5. QED BY <2>4 DEF removed, refresh
<1>4. dash!Update(v, s5, s6) /\ s8' = None /\ UNCHANGED <<s2, s3, s4, s7, s9>>
  BY DEF dash!DeliverRemoval
<1> HIDE DEF v
<1>5. LoadsInv' /\ s1' = v BY <1>3, <1>4, HandledUpdate
<1>6. DiskInv' /\ WorkInv' /\ RemovalInv'
  BY <1>3, <1>4, <1>5 DEF DiskInv, WorkInv, RemovalInv, Creating
<1>7. QED BY <1>5, <1>6, PartsInv

LEMMA ActionDoneStep == ASSUME dash!DashboardInv, dash!ActionDone PROVE dash!DashboardInv'
<1> USE InvParts
<1>1. s9' = s9 - 1 /\ s9 > 0 /\ UNCHANGED <<s2, s3, s4, s7, s8>> BY DEF dash!ActionDone
<1>2. s9' \in Nat BY <1>1 DEF WorkInv
<1>3. LoadsInv' /\ s1'.creating = s1.creating /\ s1'.removalActive = s1.removalActive
  <2>1. CASE dash!Update(dash!refreshAfter(s1), s5, s6)
    <3> DEFINE v == dash!refreshAfter(s1)
    <3>1. Handled(s1, v) /\ v.creating = s1.creating /\ v.removalActive = s1.removalActive
      BY RefreshAfter DEF LoadsInv
    <3> HIDE DEF v
    <3>2. LoadsInv' /\ s1' = v BY <2>1, <3>1, HandledUpdate DEF v
    <3>3. QED BY <3>1, <3>2
  <2>2. CASE UNCHANGED <<s1, s5, s6>>
    BY <2>2 DEF LoadsInv
  <2>3. QED BY <2>1, <2>2 DEF dash!ActionDone
<1>4. DiskInv' /\ WorkInv' /\ RemovalInv'
  BY <1>1, <1>2, <1>3 DEF DiskInv, WorkInv, RemovalInv, Creating
<1>5. QED BY <1>3, <1>4, PartsInv

-----------------------------------------------------------------------------
(* Dashboard: what the user does. *)

\* The stores a key leaves alone, and what it may do to the model.
LEMMA KeyStep ==
    ASSUME dash!DashboardInv, LoadsInv', dash!UserOnly,
           s1'.creating = s1.creating, s1.removalActive # None => s1'.removalActive # None,
           s7 \subseteq s7', s7' \subseteq dash!Creations, s9' \in Nat
    PROVE  dash!DashboardInv'
<1> USE InvParts
<1>1. UNCHANGED <<s2, s3, s4, s8>> BY DEF dash!UserOnly
<1>2. DiskInv' /\ RemovalInv' BY <1>1 DEF DiskInv, RemovalInv
<1>3. Creating \subseteq Creating' BY DEF Creating
<1>4. WorkInv' BY <1>3 DEF WorkInv
<1>5. QED BY <1>2, <1>4, PartsInv

LEMMA FetchStep ==
    ASSUME dash!DashboardInv, NEW u, SameLoads(s1, u), dash!Update(dash!startFetch(u), s5, s6),
           dash!UserOnly, UNCHANGED <<s7, s9>>
    PROVE  dash!DashboardInv'
<1> USE InvParts
<1> DEFINE v == dash!startFetch(u)
<1>1. StartsLoad(u, v) BY StartFetch DEF SameLoads
<1>2. StartsLoad(s1, v) BY <1>1, SameThenStarts
<1>3. dash!Update(v, s5, s6) OBVIOUS
<1> HIDE DEF v
<1>4. Handled(s1, v) BY <1>2, StartedIsHandled DEF LoadsInv
<1>5. LoadsInv' /\ s1' = v BY <1>3, <1>4, HandledUpdate
<1>6. s7 \subseteq s7' /\ s7' \subseteq dash!Creations /\ s9' \in Nat BY DEF WorkInv
<1>7. QED BY <1>2, <1>5, <1>6, KeyStep DEF StartsLoad

\* A key that only opens or closes a prompt.
LEMMA PromptStep ==
    ASSUME dash!DashboardInv, NEW u \in dash!Model, s1' = u,
           u.fetching = s1.fetching, u.inventorySeq = s1.inventorySeq,
           u.fleetPending = s1.fleetPending, u.loadSeq = s1.loadSeq,
           dash!LoadsAreServed(u), u.creating = s1.creating,
           s1.removalActive # None => u.removalActive # None,
           dash!UserOnly, UNCHANGED <<s5, s6>>,
           s7 \subseteq s7', s7' \subseteq dash!Creations, s9' \in Nat
    PROVE  dash!DashboardInv'
<1>1. LoadsInv BY InvParts
<1>2. LoadsInv' BY <1>1, LoadsRest
<1>3. QED BY <1>2, KeyStep

LEMMA CreateKeyStep ==
    ASSUME dash!DashboardInv, NEW d \in Paths, dash!startCreateWorktree(d)
    PROVE  dash!DashboardInv'
<1> USE InvParts
<1> DEFINE shown == [r \in DOMAIN s1.rows \cup {d} |-> IF r = d THEN dash!Placeholder ELSE s1.rows[r]]
           next == [s1 EXCEPT !.prompt = None]
           more == [next EXCEPT !.creating = @ \cup {d}, !.rows = shown]
           c == [kind |-> "create", path |-> d, dest |-> d, stage |-> "running"]
<1>1. s1 \in dash!Model /\ dash!LoadsAreServed(s1) /\ s7 \subseteq dash!Creations /\ s9 \in Nat
  BY DEF LoadsInv, WorkInv
<1>2. \/ s1' = more /\ s7' = s7 \cup {c}
      \/ s1' = next /\ s7' = s7
  BY DEF dash!startCreateWorktree
<1>3. dash!UserOnly /\ UNCHANGED <<s5, s6, s9>> BY DEF dash!startCreateWorktree
<1>4. s1.rows \in dash!Rows /\ s1.creating \in SUBSET Paths BY <1>1 DEF dash!Model
<1>5. shown \in dash!Rows
  <2>1. \A r \in DOMAIN s1.rows \cup {d} :
          (IF r = d THEN dash!Placeholder ELSE s1.rows[r]) \in dash!Row
    BY <1>4, RowsAre DEF dash!Placeholder, dash!Row
  <2>2. shown \in [DOMAIN s1.rows \cup {d} -> dash!Row] BY <2>1
  <2>3. DOMAIN s1.rows \cup {d} \in SUBSET Paths BY <1>4, RowsAre
  <2>4. QED BY <2>2, <2>3, RowsFrom
<1> HIDE DEF shown
<1>6. CASE s1' = next /\ s7' = s7
  <2>1. /\ next \in dash!Model /\ dash!LoadsAreServed(next)
        /\ next.fetching = s1.fetching /\ next.inventorySeq = s1.inventorySeq
        /\ next.fleetPending = s1.fleetPending /\ next.loadSeq = s1.loadSeq
        /\ next.creating = s1.creating /\ next.removalActive = s1.removalActive
    BY <1>1 DEF dash!Model, dash!LoadsAreServed
  <2> HIDE DEF next
  <2>2. QED BY <1>1, <1>3, <1>6, <2>1, PromptStep
<1>7. CASE s1' = more /\ s7' = s7 \cup {c}
  <2>1. /\ more \in dash!Model /\ dash!LoadsAreServed(more)
        /\ more.fetching = s1.fetching /\ more.inventorySeq = s1.inventorySeq
        /\ more.fleetPending = s1.fleetPending /\ more.loadSeq = s1.loadSeq
        /\ more.creating = s1.creating \cup {d} /\ more.removalActive = s1.removalActive
    BY <1>1, <1>4, <1>5 DEF dash!Model, dash!LoadsAreServed
  <2> HIDE DEF more
  <2>2. LoadsInv' BY <1>3, <1>7, <2>1, LoadsRest
  <2>3. c \in dash!Creations /\ c.kind = "create" /\ c.path = d BY DEF dash!Creations
  <2> HIDE DEF c
  <2>4. s7' \subseteq dash!Creations BY <1>1, <1>7, <2>3
  <2>5. Creating \cup {d} \subseteq Creating' BY <1>7, <2>3 DEF Creating
  <2>6. WorkInv' BY <1>3, <1>7, <2>1, <2>4, <2>5 DEF WorkInv
  <2>7. DiskInv' /\ RemovalInv' BY <1>3, <1>7, <2>1 DEF DiskInv, RemovalInv, dash!UserOnly
  <2>8. QED BY <2>2, <2>6, <2>7, PartsInv
<1>8. QED BY <1>2, <1>6, <1>7

LEMMA ConfirmKeyStep ==
    ASSUME ClientsAssumption, dash!DashboardInv, NEW yes \in BOOLEAN, dash!handleConfirmKey(yes)
    PROVE  dash!DashboardInv'
<1> USE InvParts
<1> DEFINE next == [s1 EXCEPT !.confirm = None]
           path == s1.confirm.path
           queued == dash!enqueueRemoval(next, path, s1.rows[path])
<1>1. s1 \in dash!Model /\ dash!LoadsAreServed(s1) /\ s7 \subseteq dash!Creations /\ s9 \in Nat
  BY DEF LoadsInv, WorkInv
<1>2. /\ \/ s1' = next
         \/ s1' = queued /\ path \in DOMAIN s1.rows
      /\ s9' \in {s9, s9 + 1}
      /\ dash!UserOnly /\ UNCHANGED <<s5, s6, s7>>
  BY DEF dash!handleConfirmKey
<1>3. /\ next \in dash!Model /\ dash!LoadsAreServed(next)
      /\ next.fetching = s1.fetching /\ next.inventorySeq = s1.inventorySeq
      /\ next.fleetPending = s1.fleetPending /\ next.loadSeq = s1.loadSeq
      /\ next.creating = s1.creating /\ next.removalActive = s1.removalActive
  BY <1>1 DEF dash!Model, dash!LoadsAreServed
<1> HIDE DEF next
<1>4. s9' \in Nat BY <1>1, <1>2
<1>5. CASE s1' = next
  BY <1>1, <1>2, <1>3, <1>4, <1>5, PromptStep
<1>6. CASE s1' = queued /\ path \in DOMAIN s1.rows
  <2>1. s1.rows \in dash!Rows BY <1>1 DEF dash!Model
  <2>2. path \in Paths /\ s1.rows[path] \in dash!Row BY <1>6, <2>1, RowsAre
  <2>3. /\ queued \in dash!Model /\ dash!LoadsAreServed(queued)
        /\ queued.fetching = next.fetching /\ queued.inventorySeq = next.inventorySeq
        /\ queued.fleetPending = next.fleetPending /\ queued.loadSeq = next.loadSeq
        /\ queued.creating = next.creating
        /\ next.removalActive # None => queued.removalActive # None
    BY <1>3, <2>2, EnqueueRemoval
  <2> HIDE DEF queued
  <2>4. QED BY <1>1, <1>2, <1>3, <1>4, <1>6, <2>3, PromptStep
<1>7. QED BY <1>2, <1>5, <1>6

LEMMA UserStep ==
    ASSUME ClientsAssumption, dash!DashboardInv, dash!User PROVE dash!DashboardInv'
<1> USE InvParts
<1>1. s1 \in dash!Model /\ dash!LoadsAreServed(s1) /\ s7 \subseteq dash!Creations /\ s9 \in Nat
  BY DEF LoadsInv, WorkInv
<1>2. s1.rows \in dash!Rows BY <1>1 DEF dash!Model
<1>3. CASE dash!Refresh
  <2>1. SameLoads(s1, s1) BY <1>1 DEF SameLoads
  <2>2. dash!Update(dash!startFetch(s1), s5, s6) /\ dash!UserOnly /\ UNCHANGED <<s7, s9>>
    BY <1>3 DEF dash!Refresh
  <2>3. QED BY <2>1, <2>2, FetchStep
<1>4. ASSUME NEW project \in dash!Projects \cup {All}, dash!chooseProjectPerspective(project)
      PROVE  dash!DashboardInv'
  <2>1. SameLoads(s1, [s1 EXCEPT !.perspective = project]) BY <1>1, FieldWritten
  <2>2. dash!Update(dash!startFetch([s1 EXCEPT !.perspective = project]), s5, s6)
        /\ dash!UserOnly /\ UNCHANGED <<s7, s9>>
    BY <1>4 DEF dash!chooseProjectPerspective
  <2>3. QED BY <2>1, <2>2, FetchStep
<1>5. ASSUME NEW p \in Paths, dash!startNewBranch(p) PROVE dash!DashboardInv'
  <2> DEFINE target == [path |-> p, row |-> s1.rows[p]]
             next == [s1 EXCEPT !.prompt = target]
  <2>1. p \in DOMAIN s1.rows /\ s1' = next /\ dash!UserOnly /\ UNCHANGED <<s5, s6, s7, s9>>
    BY <1>5 DEF dash!startNewBranch, dash!Selectable, dash!Visible
  <2>2. target \in dash!Target BY <1>2, <2>1, RowsAre DEF dash!Target
  <2>3. /\ next \in dash!Model /\ dash!LoadsAreServed(next)
        /\ next.fetching = s1.fetching /\ next.inventorySeq = s1.inventorySeq
        /\ next.fleetPending = s1.fleetPending /\ next.loadSeq = s1.loadSeq
        /\ next.creating = s1.creating /\ next.removalActive = s1.removalActive
    <3> HIDE DEF target
    <3> QED BY <1>1, <2>2 DEF dash!Model, dash!LoadsAreServed
  <2> HIDE DEF next
  <2>4. QED BY <1>1, <2>1, <2>3, PromptStep
<1>6. ASSUME NEW p \in Paths, dash!startDelete(p) \/ dash!startKill(p) PROVE dash!DashboardInv'
  <2> DEFINE Opened(kind) == [s1 EXCEPT !.confirm = [kind |-> kind, path |-> p, row |-> s1.rows[p]]]
  <2>1. /\ p \in DOMAIN s1.rows /\ dash!UserOnly /\ UNCHANGED <<s5, s6, s7, s9>>
        /\ (s1' = Opened("delete") \/ s1' = Opened("kill"))
    BY <1>6 DEF dash!startDelete, dash!startKill, dash!Selectable, dash!Visible
  <2>2. PICK kind \in {"delete", "kill"} : s1' = Opened(kind) BY <2>1
  <2> DEFINE target == [kind |-> kind, path |-> p, row |-> s1.rows[p]]
             next == [s1 EXCEPT !.confirm = target]
  <2>3. target \in [kind : {"delete", "kill"}, path : Paths, row : dash!Row]
    BY <1>2, <2>1, RowsAre
  <2>4. s1' = next BY <2>2
  <2>5. /\ next \in dash!Model /\ dash!LoadsAreServed(next)
        /\ next.fetching = s1.fetching /\ next.inventorySeq = s1.inventorySeq
        /\ next.fleetPending = s1.fleetPending /\ next.loadSeq = s1.loadSeq
        /\ next.creating = s1.creating /\ next.removalActive = s1.removalActive
    <3> HIDE DEF target
    <3> QED BY <1>1, <2>3 DEF dash!Model, dash!LoadsAreServed
  <2> HIDE DEF next
  <2>6. QED BY <1>1, <2>1, <2>4, <2>5, PromptStep
<1>7. ASSUME NEW p \in Paths, dash!syncSelected(p) PROVE dash!DashboardInv'
  <2> DEFINE c == [kind |-> "sync", path |-> p, dest |-> p, stage |-> "running"]
  <2>1. s7' = s7 \cup {c} /\ dash!UserOnly /\ UNCHANGED <<s1, s5, s6, s9>>
    BY <1>7 DEF dash!syncSelected
  <2>2. c \in dash!Creations BY DEF dash!Creations
  <2> HIDE DEF c
  <2>3. s7 \subseteq s7' /\ s7' \subseteq dash!Creations /\ s9' \in Nat BY <1>1, <2>1, <2>2
  <2>4. QED BY <1>1, <2>1, <2>3, PromptStep
<1>8. ASSUME NEW p \in Paths, dash!openSelected(p) PROVE dash!DashboardInv'
  <2>1. s9' = s9 + 1 /\ dash!UserOnly /\ UNCHANGED <<s1, s5, s6, s7>>
    BY <1>8 DEF dash!openSelected
  <2>2. s9' \in Nat BY <1>1, <2>1
  <2>3. QED BY <1>1, <2>1, <2>2, PromptStep
<1>9. QED BY <1>3, <1>4, <1>5, <1>6, <1>7, <1>8, CreateKeyStep, ConfirmKeyStep DEF dash!User

LEMMA OutsideStep ==
    ASSUME dash!DashboardInv, NEW p \in Paths, dash!OutsideChange(p) PROVE dash!DashboardInv'
<1> USE InvParts
<1>1. UNCHANGED <<s1, s4, s5, s6, s7, s8, s9>> BY DEF dash!OutsideChange
<1>2. s2 \in [Paths -> [gen : 0..2, head : 0..1]] /\ s3 \in [Paths -> 0..2] BY DEF DiskInv
<1>3. s2' \in [Paths -> [gen : 0..2, head : 0..1]] /\ s3' \in [Paths -> 0..2]
  <2>1. CASE /\ s3[p] < 2
             /\ s2' = [s2 EXCEPT ![p] = [gen |-> s3[p] + 1, head |-> 0]]
             /\ s3' = [s3 EXCEPT ![p] = @ + 1]
    <3>1. s3[p] + 1 \in 0..2 BY <1>2, <2>1
    <3>2. QED BY <1>2, <2>1, <3>1
  <2>2. CASE s2' = [s2 EXCEPT ![p] = [gen |-> 0, head |-> 0]] /\ s3' = s3
    BY <1>2, <2>2
  <2>3. CASE s2' = [s2 EXCEPT ![p].head = 1] /\ s3' = s3
    BY <1>2, <2>3
  <2>4. QED BY <2>1, <2>2, <2>3 DEF dash!OutsideChange
<1>4. DiskInv' BY <1>1, <1>2, <1>3 DEF DiskInv
<1>5. LoadsInv' /\ WorkInv' /\ RemovalInv'
  BY <1>1 DEF LoadsInv, WorkInv, RemovalInv, Creating
<1>6. QED BY <1>4, <1>5, PartsInv

LEMMA NextDashboard ==
    ASSUME ClientsAssumption, dash!DashboardInv, dash!Next PROVE dash!DashboardInv'
<1>1. CASE dash!Backend
  BY <1>1, LoadInventoryStep, JoinInventoryStep, DeliverInventoryStep, DeliverFleetStep,
     PublishStep, CreateStep, DeliverCreationStep, RemoveStep, DeliverRemovalStep, ActionDoneStep
  DEF dash!Backend
<1>2. CASE dash!User
  BY <1>2, UserStep
<1>3. CASE \E p \in Paths : dash!OutsideChange(p)
  BY <1>3, OutsideStep
<1>4. QED BY <1>1, <1>2, <1>3 DEF dash!Next

LEMMA NothingIsLeft == ASSUME dash!DashboardInv PROVE dash!NothingIsForgotten
  BY DEF dash!DashboardInv, dash!NothingIsDropped, dash!LoadsAreServed, dash!NothingIsForgotten,
         dash!Quiet

\* Nothing the user asked for is forgotten: once every command has returned no
\* refresh is owed, no removal is queued, and no spinner or placeholder is left
\* without something that will end it (applyInventory, applyRemovalDone and
\* refreshAfter of model.go).
THEOREM NothingStaysForgotten ==
    ASSUME ClientsAssumption PROVE ServicesSpec => []NothingIsForgotten
<1> DEFINE I == focus = "dash" => dash!DashboardInv
<1>1. ServicesInit => I BY InitDashboard DEF ServicesInit
<1>2. I /\ [ServicesNext]_services => I'
  <2> SUFFICES ASSUME I, [ServicesNext]_services, focus' = "dash" PROVE dash!DashboardInv'
    OBVIOUS
  <2>1. focus = "dash" BY DEF ServicesNext, services
  <2>2. CASE dash!Next
    BY <2>1, <2>2, NextDashboard
  <2>3. CASE UNCHANGED <<s1, s2, s3, s4, s5, s6, s7, s8, s9>>
    BY <2>1, <2>3 DEF dash!DashboardInv, dash!ModelIsTyped, dash!NothingIsDropped
  <2>4. QED BY <2>1, <2>2, <2>3 DEF ServicesNext, services, slots
<1>3. I => NothingIsForgotten BY NothingIsLeft DEF NothingIsForgotten
<1>4. QED BY <1>1, <1>2, <1>3, PTL DEF ServicesSpec
=============================================================================
