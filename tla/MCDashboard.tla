----------------------------- MODULE MCDashboard -----------------------------
(***************************************************************************)
(* A dashboard over two projects: p with its main checkout and two topics,  *)
(* q with a topic that only another host's hub row may know at first.       *)
(***************************************************************************)
EXTENDS Dashboard

CONSTANTS pm, p1, p2, qm, q1

MCPaths == {pm, p1, p2, qm, q1}
MCMains == {pm, qm}
MCProjectOf == [x \in MCPaths |-> IF x \in {pm, p1, p2} THEN "p" ELSE "q"]
MCHub == {q1}
MCElsewhere == {p2}
MCMissing == {p2}
MCLaunches == {None, pm}
=============================================================================
