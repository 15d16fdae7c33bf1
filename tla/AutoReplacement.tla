-------------------------- MODULE AutoReplacement --------------------------
(***************************************************************************)
(* Automatic replacement of the daemon over a sequence of client starts:   *)
(* each compares the client's build with the running daemon's and reuses   *)
(* or replaces the daemon (controller.go, startLocked on a ready daemon).  *)
(***************************************************************************)
EXTENDS BuildOrder

CONSTANTS
    Clients,        \* builds of the clients that start
    InitialDaemons  \* builds of the daemon that runs at first

\* What is assumed of the builds; the theorems name it.
BuildAssumption ==
    /\ Clients \subseteq {b \in Build : b.advertises}
    /\ InitialDaemons \subseteq {b \in Build : b.advertises \/ b.time = NoTime}

VARIABLES running,  \* the build of the running daemon
          replaced  \* history: builds of the daemons replaced so far

vars == <<running, replaced>>

-----------------------------------------------------------------------------
Init == running \in InitialDaemons /\ replaced = {}

\* Start by a client of build c: the daemon is reused or replaced.
ClientStarts(c) ==
    /\ decideReplacement(c, running)
    /\ running' = c
    /\ replaced' = replaced \cup {running}

ClientReuses(c) == ~decideReplacement(c, running) /\ UNCHANGED vars

Next == \E c \in Clients : ClientStarts(c) \/ ClientReuses(c)

Spec == Init /\ [][Next]_vars

-----------------------------------------------------------------------------
\* Clients settle on the newest daemon: a build that one client replaced is
\* never installed again by another, so a set of clients cannot keep draining
\* each other's daemons.
NewestDaemonIsKept == running \notin replaced
=============================================================================
