---------------------------- MODULE MergedPrune ----------------------------
(***************************************************************************)
(* `kwt prune --merged`: it inspects worktrees, asks the provider which of  *)
(* them one merged pull request accounts for, asks the user about local     *)
(* files, and removes (internal/prunepolicy/merged.go,                      *)
(* internal/cmd/prune_merged.go), while the user commits, edits, retargets  *)
(* or replaces the worktree, pull requests are opened and merged, and other *)
(* kwt commands import and open sessions.  One worktree path is followed;   *)
(* a head is the commit it is at, a source the upstream repository and      *)
(* branch its pull requests come from.                                      *)
(***************************************************************************)
EXTENDS Naturals, FiniteSets

CONSTANTS
    Heads, Sources,
    Numbers,      \* pull request numbers
    None,         \* no worktree, no record
    MaxMoves      \* bound: moves of everybody else

VARIABLES
    wt,          \* the worktree at the path, or None
    record,      \* the provenance of an import to the path, or None
    requests,    \* pull request number -> what the provider knows of it
    session,     \* the import's protected session is live
    inventory,   \* what else the inspection finds: see Findings
    moves, generations,
    pc, cand, outcome, confirmed,
    lost         \* history: the worktree the command last saw at the path it removed

world   == <<wt, record, requests, session>>
command == <<pc, cand, outcome, confirmed, lost>>
vars    == <<world, inventory, moves, generations, command>>

Findings == {"sound", "conflicting claims", "claimed backlink", "inexact root",
             "incomplete inventory", "entry mismatch"}
Worktree == [gen : 1..(MaxMoves + 1), head : Heads, source : Sources, dirty : BOOLEAN,
             locked : BOOLEAN]
Record == [gen : 1..(MaxMoves + 1), head : Heads, source : Sources, number : Numbers]
Request == [head : Heads, source : Sources, merged : BOOLEAN]
Ready == [gen |-> 1, head |-> CHOOSE h \in Heads : TRUE,
          source |-> CHOOSE s \in Sources : TRUE, dirty |-> FALSE, locked |-> FALSE]

TypeOK ==
    /\ wt \in Worktree \cup {None} /\ record \in Record \cup {None}
    /\ \A n \in DOMAIN requests : requests[n] \in Request
    /\ session \in BOOLEAN /\ inventory \in Findings /\ confirmed \in BOOLEAN
    /\ pc \in {"inspect", "evaluate", "dirty", "confirm", "guard", "removing", "deleting",
              "cleanup", "done"}

Init ==
    /\ wt = Ready /\ inventory \in Findings
    /\ requests = [n \in {} |-> 0] /\ session = FALSE
    /\ record = None \/ \E n \in Numbers :
         record = [gen |-> 1, head |-> wt.head, source |-> wt.source, number |-> n]
    /\ moves = 0 /\ generations = 1
    /\ pc = "inspect" /\ cand = None /\ outcome = "none" /\ confirmed = FALSE /\ lost = None

---------------------------------------------------------------------------
(* The others.  Imports and sessions of kwt wait for the locks of a removal. *)

Move == moves < MaxMoves /\ moves' = moves + 1 /\ UNCHANGED <<inventory, command>>
Fenced == pc \in {"removing", "deleting"}

UserChanges ==
    /\ Move /\ wt # None
    /\ \/ \E h \in Heads : wt' = [wt EXCEPT !.head = h]
       \/ \E s \in Sources : wt' = [wt EXCEPT !.source = s]
       \/ wt' \in {[wt EXCEPT !.dirty = ~@], [wt EXCEPT !.locked = ~@]}
    /\ UNCHANGED <<record, requests, session, generations>>

UserReplaces ==
    /\ Move /\ wt # None
    /\ generations' = generations + 1
    /\ \E h \in Heads : wt' = [Ready EXCEPT !.gen = generations', !.head = h]
    /\ UNCHANGED <<record, requests, session>>

OpenOrMergeRequest ==
    /\ Move
    /\ \/ \E n \in Numbers \ DOMAIN requests, h \in Heads, s \in Sources :
            requests' = [k \in DOMAIN requests \cup {n} |->
                           IF k = n THEN [head |-> h, source |-> s, merged |-> FALSE]
                           ELSE requests[k]]
       \/ \E n \in DOMAIN requests : requests' = [requests EXCEPT ![n].merged = TRUE]
    /\ UNCHANGED <<wt, record, session, generations>>

\* An import replaces the path's worktree and its record, under the path's lock.
Import ==
    /\ Move /\ wt = None /\ ~Fenced
    /\ generations' = generations + 1
    /\ \E n \in DOMAIN requests :
         /\ wt' = [Ready EXCEPT !.gen = generations', !.head = requests[n].head,
                                !.source = requests[n].source]
         /\ record' = [gen |-> generations', head |-> requests[n].head,
                       source |-> requests[n].source, number |-> n]
    /\ UNCHANGED <<requests, session>>

OpenOrEndSession ==
    /\ Move /\ record # None /\ ~Fenced
    /\ session' = ~session
    /\ UNCHANGED <<wt, record, requests, generations>>

---------------------------------------------------------------------------
(* Inspection: defaultInspectPruneMergedCandidates.                        *)

Report(reason) == pc' = "done" /\ outcome' = reason

\* What the roots of the inventory say about the candidate's repository: each
\* of these leaves it to the doctor.
InitialOutcome == IF inventory # "sound" THEN "doctor_required"
                  ELSE IF wt.locked THEN "locked" ELSE "none"

\* attachMergedProvenance: a record counts when path and generation are this
\* worktree's; one for another generation is not looked at.
Attached == IF record # None /\ record.gen = wt.gen THEN record ELSE None

Inspect ==
    /\ pc = "inspect" /\ wt # None
    /\ cand' = [w |-> wt, record |-> Attached]
    /\ IF InitialOutcome # "none" THEN Report(InitialOutcome)
       ELSE pc' = "evaluate" /\ UNCHANGED outcome
    /\ UNCHANGED <<world, inventory, moves, generations, confirmed, lost>>

---------------------------------------------------------------------------
(* Evaluation: EvaluateMerged.                                             *)

Matching(head, source) ==
    {n \in DOMAIN requests : requests[n].head = head /\ requests[n].source = source}

MergedOrNot(n) == IF requests[n].merged THEN "eligible" ELSE "not_merged"

\* evaluateImportedMerged: the record must name the commit the worktree is at,
\* and so must the request it names.
ImportedAnyHead(c) ==                                               \* mutant
    LET n == c.record.number IN
    IF n \notin DOMAIN requests THEN "provider_failure" ELSE MergedOrNot(n)
Imported(c) ==
    LET n == c.record.number IN
    IF c.record.source # c.w.source THEN "source_mismatch"
    ELSE IF c.record.head # c.w.head THEN "head_advanced"
    ELSE IF n \notin DOMAIN requests THEN "provider_failure"
    ELSE IF requests[n].source # c.w.source THEN "source_mismatch"
    ELSE IF requests[n].head # c.record.head THEN "head_advanced"
    ELSE MergedOrNot(n)

\* What ListByHead says of a worktree whose commit no request has: never that
\* it is eligible.
diagnoseSourceHead(c) ==
    LET bySource == {n \in DOMAIN requests : requests[n].source = c.w.source} IN
    IF Cardinality(bySource) > 1 THEN "ambiguous"
    ELSE IF \E n \in bySource : requests[n].merged THEN "head_advanced"
    ELSE IF bySource # {} THEN "not_merged" ELSE "no_request"

\* ListForCommit: one request of the worktree's source has its commit.
Ordinary(c) ==
    LET exact == Matching(c.w.head, c.w.source) IN
    IF Cardinality(exact) > 1 THEN "ambiguous"
    ELSE IF exact # {} THEN MergedOrNot(CHOOSE n \in exact : TRUE)
    ELSE IF \E n \in DOMAIN requests : requests[n].head = c.w.head THEN "source_mismatch"
    ELSE diagnoseSourceHead(c)

Classified(c) == IF c.record # None THEN Imported(c) ELSE Ordinary(c)

\* The provider may fail at any call.
providerFailure == Report("provider_failure")

Evaluate ==
    /\ pc = "evaluate"
    /\ \/ IF Classified(cand) = "eligible" THEN pc' = "dirty" /\ UNCHANGED outcome
          ELSE Report(Classified(cand))
       \/ providerFailure
    /\ UNCHANGED <<world, inventory, moves, generations, cand, confirmed, lost>>

---------------------------------------------------------------------------
(* Removal: the loop of runPruneMerged.                                    *)

InspectDirty ==
    /\ pc = "dirty"
    /\ IF wt = None THEN Report("path_unavailable")
       ELSE IF wt.dirty
            THEN \/ pc' = "confirm" /\ UNCHANGED outcome
                 \/ Report("confirmation_required")
            ELSE pc' = "guard" /\ UNCHANGED outcome
    /\ UNCHANGED <<world, inventory, moves, generations, cand, confirmed, lost>>

\* The state is read again before the question: clean now, it is not asked.
Confirm ==
    /\ pc = "confirm"
    /\ \/ wt = None /\ Report("path_unavailable") /\ UNCHANGED confirmed
       \/ wt # None /\ ~wt.dirty /\ pc' = "guard" /\ UNCHANGED <<outcome, confirmed>>
       \/ wt # None /\ wt.dirty /\ confirmed' = TRUE /\ pc' = "guard" /\ UNCHANGED outcome
       \/ wt # None /\ wt.dirty /\ Report("declined") /\ UNCHANGED confirmed
    /\ UNCHANGED <<world, inventory, moves, generations, cand, lost>>

\* runPruneMergedProtectedOperation and withPruneMergedOwnershipGuard: the
\* project's fence and the path's creation lock are taken, then no session may
\* live and registry entry and provenance must be those inspected.
UnprotectedEntry == TRUE                                            \* mutant
MayEnter == /\ cand.record # None => ~session
            /\ cand.record = (IF record # None /\ record.gen = cand.w.gen THEN record ELSE None)

Guard ==
    /\ pc = "guard"
    /\ IF MayEnter THEN pc' = "removing" /\ UNCHANGED outcome
       ELSE Report(IF session THEN "session_live" ELSE "changed")
    /\ UNCHANGED <<world, inventory, moves, generations, cand, confirmed, lost>>

\* pruneMergedRemovalConditions, checked inside the repository's removal:
\* generation, HEAD and upstream are those inspected, and without --force there
\* is nothing uncommitted.
ConditionsWithoutHead == wt # None /\ wt.gen = cand.w.gen            \* mutant
SameCheckout == wt.gen = cand.w.gen /\ wt.head = cand.w.head /\ wt.source = cand.w.source
CleanOrForced == wt.dirty => confirmed
ConditionsHold == wt # None /\ ~wt.locked /\ SameCheckout /\ CleanOrForced

CheckConditions ==
    /\ pc = "removing"
    /\ IF ConditionsHold
       THEN cand' = [w |-> wt, record |-> cand.record] /\ pc' = "deleting" /\ UNCHANGED outcome
       ELSE Report("changed") /\ UNCHANGED cand
    /\ UNCHANGED <<world, inventory, moves, generations, confirmed, lost>>

\* `git worktree remove`, with --force when the user consented: git refuses a
\* locked worktree, and without consent the changes it sees, ignored files not
\* among them.  Nothing holds the user's own changes back in between.
GitRemoves ==
    /\ pc = "deleting"
    /\ \/ /\ wt # None /\ ~wt.locked
          /\ lost' = [seen |-> cand.w, session |-> session, confirmed |-> confirmed]
          /\ wt' = None /\ pc' = "cleanup" /\ UNCHANGED outcome
       \/ /\ wt = None \/ wt.locked \/ (wt.dirty /\ ~confirmed)
          /\ Report("failed") /\ UNCHANGED <<wt, lost>>
    /\ UNCHANGED <<record, requests, session, inventory, moves, generations, cand, confirmed>>

\* store.RemoveIfMatch, after the path's lock is given back.
AnyRecord == record # None                                          \* mutant
SameRecord == record # None /\ record = cand.record
CleanUp ==
    /\ pc = "cleanup"
    /\ IF SameRecord THEN record' = None /\ Report("removed")
       ELSE UNCHANGED record /\ Report(IF cand.record = None THEN "removed" ELSE "incomplete")
    /\ UNCHANGED <<wt, requests, session, inventory, moves, generations, cand, confirmed, lost>>

Next == UserChanges \/ UserReplaces \/ OpenOrMergeRequest \/ Import \/ OpenOrEndSession
        \/ Inspect \/ Evaluate \/ InspectDirty \/ Confirm \/ Guard \/ CheckConditions
        \/ GitRemoves \/ CleanUp

Spec == Init /\ [][Next]_vars

---------------------------------------------------------------------------
(* What was removed had, when the command last looked, the head of a merged    *)
(* pull request from its own upstream, whatever had happened since the           *)
(* inspection; local files it saw there went only with the user's consent, and   *)
(* no session of the import was running in it.                                   *)
OnlyMergedWorkIsLost ==
    lost # None =>
      /\ \E n \in Matching(lost.seen.head, lost.seen.source) : requests[n].merged
      /\ lost.seen.dirty => lost.confirmed
      /\ ~lost.seen.locked
      /\ cand.record # None => ~lost.session

(* The record of a later import to the path outlives the removal: a worktree    *)
(* that has a record keeps it.                                                *)
LaterImportsKeepTheirRecord ==
    \/ record' = record
    \/ record = None \/ record.gen # (IF wt = None THEN 0 ELSE wt.gen)

PruneIsSafe == []OnlyMergedWorkIsLost /\ [][LaterImportsKeepTheirRecord]_vars

---------------------------------------------------------------------------
(* What makes PruneIsSafe inductive: what the provider called merged stays     *)
(* merged, and nobody gets past the guard with a session that may still start. *)
Candidate == [w : Worktree, record : Record \cup {None}]
Loss == [seen : Worktree, session : BOOLEAN, confirmed : BOOLEAN]

IsMerged(w) == \E n \in Matching(w.head, w.source) : requests[n].merged

CandidateIsKnown ==
    /\ cand.w.gen <= generations
    /\ cand.record # None => cand.record.gen = cand.w.gen
    /\ pc \in {"dirty", "confirm", "guard", "removing", "deleting", "cleanup"} => IsMerged(cand.w)
    /\ Fenced /\ cand.record # None => ~session
    /\ pc = "deleting" => ~cand.w.locked /\ (cand.w.dirty => confirmed)
    /\ pc = "cleanup" /\ wt # None => wt.gen > cand.w.gen

PruneInv ==
    /\ TypeOK /\ OnlyMergedWorkIsLost
    /\ moves \in 0..MaxMoves /\ generations \in 1..(moves + 1)
    /\ cand \in Candidate \cup {None} /\ lost \in Loss \cup {None}
    /\ wt # None => wt.gen <= generations
    /\ record # None => record.gen <= generations
    /\ cand = None => pc = "inspect"
    /\ cand # None => pc # "inspect" /\ CandidateIsKnown
    /\ lost # None => pc \in {"cleanup", "done"}
    /\ DOMAIN requests \subseteq Numbers
=============================================================================
