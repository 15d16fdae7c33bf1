------------------------ MODULE AutoReplacementProofs -----------------------
(* Theorems about AutoReplacement, for any set of builds. *)
EXTENDS AutoReplacement, TLAPS

Newer(a, b) == CompareBuilds(a, b) = "newer"

\* No two builds each consider themselves newer than the other, whatever
\* versions, hashes and source times they carry: two clients never take turns
\* at replacing the daemon.
THEOREM NeverMutuallyNewer ==
    ASSUME BuildAssumption
    PROVE  \A a, b \in Clients \cup InitialDaemons :
               a.advertises /\ b.advertises /\ Newer(a, b) => ~Newer(b, a)
<1> SUFFICES ASSUME NEW a \in Clients \cup InitialDaemons, NEW b \in Clients \cup InitialDaemons,
                    a.advertises, b.advertises, Newer(a, b)
             PROVE  ~Newer(b, a)
  OBVIOUS
<1>1. /\ a.version \in Nat /\ b.version \in Nat
      /\ a.time \in Nat /\ b.time \in Nat
  BY DEF BuildAssumption, Build
<1> QED
  BY <1>1 DEF Newer, CompareBuilds, Versioned, Timed, NoVersion, NoTime, SameModule,
              fullRevision, revisionUnavailable

-----------------------------------------------------------------------------
(* Between builds with comparable versions "newer" is a lexicographic order. *)

\* The rank of a build: its version, then its source time.
Outranks(a, b) ==
    a.version > b.version \/ (a.version = b.version /\ a.time > b.time)

Releases == \A b \in Clients \cup InitialDaemons : b.version # NoVersion

\* A replacement raises the rank.
LEMMA ReplacementOutranks ==
    ASSUME BuildAssumption, Releases,
           NEW a \in Clients, NEW b \in Clients \cup InitialDaemons, decideReplacement(a, b)
    PROVE  Outranks(a, b)
<1>1. /\ a.version \in Nat /\ b.version \in Nat
      /\ a.time \in Nat /\ b.time \in Nat
      /\ ~b.advertises => b.time = NoTime
  BY DEF BuildAssumption, Build
<1>2. Versioned(a, b)
  BY DEF Releases, Versioned
<1> QED
  BY <1>1, <1>2 DEF decideReplacement, CompareBuilds, Timed, NoTime, SameModule, Outranks,
                    fullRevision, revisionUnavailable

RankInv ==
    /\ running \in Clients \cup InitialDaemons
    /\ replaced \subseteq Clients \cup InitialDaemons
    /\ \A b \in replaced : Outranks(running, b)

\* Among builds with comparable versions every replacement outranks all the
\* daemons replaced before, so no build is ever installed twice.
THEOREM ReleasesSettle ==
    ASSUME BuildAssumption, Releases
    PROVE  Spec => []NewestDaemonIsKept
<1>1. Init => RankInv
  BY DEF Init, RankInv
<1>2. RankInv /\ [Next]_vars => RankInv'
  <2> SUFFICES ASSUME RankInv, [Next]_vars PROVE RankInv'
    OBVIOUS
  <2>1. ASSUME NEW c \in Clients, ClientStarts(c) PROVE RankInv'
    <3>1. Outranks(c, running)
      BY <2>1, ReplacementOutranks DEF ClientStarts, RankInv
    <3>2. ASSUME NEW b \in replaced PROVE Outranks(c, b)
      <4>1. Outranks(running, b)
        BY DEF RankInv
      <4>2. /\ c.version \in Nat /\ running.version \in Nat /\ b.version \in Nat
            /\ c.time \in Nat /\ running.time \in Nat /\ b.time \in Nat
        BY DEF BuildAssumption, RankInv, Build
      <4> QED
        BY <3>1, <4>1, <4>2 DEF Outranks
    <3> QED
      BY <2>1, <3>1, <3>2 DEF ClientStarts, RankInv
  <2>2. ASSUME NEW c \in Clients, ClientReuses(c) PROVE RankInv'
    BY <2>2 DEF ClientReuses, vars, RankInv
  <2>3. CASE UNCHANGED vars
    BY <2>3 DEF vars, RankInv
  <2> QED
    BY <2>1, <2>2, <2>3 DEF Next
<1>3. RankInv => NewestDaemonIsKept
  <2> SUFFICES ASSUME RankInv, running \in replaced PROVE FALSE
    BY DEF NewestDaemonIsKept
  <2>1. Outranks(running, running)
    BY DEF RankInv
  <2>2. running.version \in Nat /\ running.time \in Nat
    BY DEF BuildAssumption, RankInv, Build
  <2> QED
    BY <2>1, <2>2 DEF Outranks
<1> QED
  BY <1>1, <1>2, <1>3, PTL DEF Spec
=============================================================================
