--------------------------- MODULE MCClients --------------------------------
(***************************************************************************)
(* An instance for TLC of the SSH manager, of what asks for its            *)
(* connections, and of the dashboard: every behaviour explores one of      *)
(* them.                                                                   *)
(***************************************************************************)
EXTENDS SSHManager, TLC

CONSTANTS
    jump, agentHost, Helpers, MaxRounds, MaxConnections, None, Commands, Routes,
    MaxAttempts, MaxChanges, pm, p1, p2, qm, q1, All, MaxCommands, MaxOutside,
    MaxFailures, MaxEvents

VARIABLES
    focus,   \* the component that is explored
    s1, s2, s3, s4, s5, s6, s7, s8, s9, s10, s11, s12, s13, s14   \* its variables; those it has no use for stay 0

slots == <<s1, s2, s3, s4, s5, s6, s7, s8, s9, s10, s11, s12, s13, s14>>

\* A host that forwards an agent, behind a jump host.
AgentChain == [t \in {agentHost} |-> <<jump, t>>]
Symmetry == Permutations(Callers)

\* Two projects: p with its main checkout and two topics, q with a topic that
\* only another host's hub row may know at first.
Paths == {pm, p1, p2, qm, q1}
Mains == {pm, qm}
ProjectOf == [x \in Paths |-> IF x \in {pm, p1, p2} THEN "p" ELSE "q"]
Hub == {q1}
Elsewhere == {p2}
Missing == {p2}
Launches == {None, pm}

prompt == INSTANCE SSHPrompt WITH
    run <- s1, ssh <- s2, cause <- s3, call <- s4, why <- s5, late <- s6, rounds <- s7,
    failure <- s8, link <- s9, timer <- s10, files <- s11, result <- s12
client == INSTANCE SSHClient WITH
    route <- s1, daemon <- s2, op <- s3, lease <- s4, job <- s5, stream <- s6,
    process <- s7, outcome <- s8, changes <- s9
dash == INSTANCE Dashboard WITH
    ui <- s1, disk <- s2, created <- s3, cache <- s4, queries <- s5, overlays <- s6,
    creations <- s7, removal <- s8, acts <- s9, gone <- s10, shared <- s11,
    commands <- s12, outside <- s13, failures <- s14, MaxGen <- 2

ASSUME ClientsAssumption ==
    /\ IsFiniteSet(Helpers) /\ MaxRounds \in Nat
    /\ None \notin {"limit", "timeout", "prompt"}
    /\ MaxAttempts \in Nat /\ MaxChanges \in Nat
    /\ Routes # {} /\ None \notin client!Leases
    /\ None \notin dash!Job

ServicesInit ==
    /\ Init
    /\ \/ /\ focus = "manager"
          /\ s1 = 0 /\ s2 = 0 /\ s3 = 0 /\ s4 = 0 /\ s5 = 0 /\ s6 = 0 /\ s7 = 0 /\ s8 = 0 /\ s9 = 0 /\ s10 = 0 /\ s11 = 0 /\ s12 = 0 /\ s13 = 0 /\ s14 = 0
       \/ /\ focus = "prompt" /\ prompt!Init
          /\ s13 = 0 /\ s14 = 0
       \/ /\ focus = "client" /\ client!Init
          /\ s10 = 0 /\ s11 = 0 /\ s12 = 0 /\ s13 = 0 /\ s14 = 0
       \/ /\ focus = "dash" /\ dash!Init

ServicesNext ==
    /\ UNCHANGED focus
    /\ \/ focus = "manager" /\ Next /\ UNCHANGED slots
       \/ focus = "prompt" /\ prompt!Next /\ UNCHANGED <<s13, s14, vars>>
       \/ focus = "client" /\ client!Next /\ UNCHANGED <<s10, s11, s12, s13, s14, vars>>
       \/ focus = "dash" /\ dash!Next /\ UNCHANGED <<vars>>

services == <<focus, slots, vars>>
ServicesSpec == ServicesInit /\ [][ServicesNext]_services

-----------------------------------------------------------------------------
\* What the run checks of each component.
ConnectionsAreKept ==
    focus = "manager" => MastersAreKept /\ CloseLeavesNothing
PromptsAreKept == focus = "prompt" => prompt!PromptsAreKept
LeasesServeTheirCommands == focus = "client" => client!LeasesServeTheirCommands
RowsAreTrue ==
    /\ [](focus = "dash" => dash!RowsAreTrue /\ dash!OldAnswersRestoreNothing)
    /\ [][focus = "dash" => dash!OverlayChangesNoRow]_services
NothingIsForgotten == focus = "dash" => dash!NothingIsForgotten
=============================================================================
