----------------------------- MODULE BuildOrder -----------------------------
(***************************************************************************)
(* The order of kwt builds (internal/daemon/build.go, CompareBuilds) and   *)
(* the decision it drives when a client meets a ready daemon               *)
(* (controller.go, decideReplacement under daemon.auto_restart = "newer"). *)
(*                                                                         *)
(* A version is a number when it is a comparable semantic version and      *)
(* NoVersion otherwise; its label tells apart spellings that semver.Compare*)
(* ranks equal.  A revision is a full hash or one of two kinds that are    *)
(* not, and a source time is a number when it is a canonical RFC3339 time. *)
(* parseRuntimeMetadata refuses a daemon that records any other; that an   *)
(* invoking build was stamped with another, which compares as no time does *)
(* but is not older than any, is left out.                                 *)
(***************************************************************************)
EXTENDS Integers

CONSTANT Hashes     \* full source revisions

NoVersion   == 0    \* "dev", a dirty build, a bare hash
NoTime      == 0    \* an empty revision time
Unavailable == "none"
Partial     == "partial"

ASSUME HashAssumption == Hashes \cap {Unavailable, Partial} = {}

\* A build, and whether its daemon advertises a revision time at all.
Build == [version : Nat, label : Nat, revision : Hashes \cup {Unavailable, Partial},
          time : Nat, advertises : BOOLEAN]

fullRevision(revision) == revision \in Hashes
revisionUnavailable(revision) == revision = Unavailable
Versioned(a, b) == a.version # NoVersion /\ b.version # NoVersion
Timed(b) == b.time # NoTime

\* Both lack any source identity, as after go install ...@version.
SameModule(a, b) ==
    /\ Versioned(a, b) /\ a.version = b.version /\ a.label = b.label
    /\ revisionUnavailable(a.revision) /\ revisionUnavailable(b.revision)
    /\ ~Timed(a) /\ ~Timed(b)

\* CompareBuilds of an invoking build a and a running one b.
CompareBuilds(a, b) ==
    IF fullRevision(a.revision) /\ a.revision = b.revision THEN "same"
    ELSE IF Versioned(a, b) /\ a.version # b.version
         THEN IF a.version > b.version THEN "newer" ELSE "older"
    ELSE IF Timed(a) /\ Timed(b) /\ a.time # b.time
         THEN IF a.time > b.time THEN "newer" ELSE "older"
    ELSE IF Timed(a) /\ ~b.advertises THEN "newer"
    ELSE IF ~Timed(a) /\ Timed(b) THEN "older"
    ELSE IF SameModule(a, b) THEN "same"
    ELSE "unknown"

GuessesOrder(client, daemon) == CompareBuilds(client, daemon) # "older"   \* mutant
\* decideReplacement under the policy "newer".
decideReplacement(client, daemon) == CompareBuilds(client, daemon) = "newer"
=============================================================================
