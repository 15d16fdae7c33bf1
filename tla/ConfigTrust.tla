----------------------------- MODULE ConfigTrust -----------------------------
(***************************************************************************)
(* The trust a person gives to a repository's .kwt.toml: resolving the     *)
(* configuration of a request (internal/config/request.go), the store of   *)
(* trusted content (internal/config/trust.go), and the loop in which the   *)
(* command line asks, tells the daemon and asks again                      *)
(* (queryInventoryForCLIWithRequirement, internal/cmd/daemon_client.go).   *)
(*                                                                         *)
(* Between what a person reads and what is loaded lie a prompt, a request  *)
(* to the daemon, which reads the file again, and a store several          *)
(* processes rewrite; the file may change at any of these moments.         *)
(***************************************************************************)
EXTENDS Naturals

CONSTANTS
    Clients,
    Files,          \* paths of repository configurations
    Contents,       \* their possible contents, told apart by digest
    NoDigest,
    Unlocked,           \* the store's lock when nobody holds it
    MaxEdits,       \* changes of the files, and damages of the store
    MaxQueries      \* requests of each client

VARIABLES
    file,       \* what each file holds now, or NoDigest when there is none
    store,      \* the digest the store trusts for each file, or NoDigest
    storeLock,
    pc,
    at,         \* the file each client's request is about
    digest,     \* the digest of what was read for it, and then prompted with
    loaded,     \* the store as the approval reloads it under the lock
    policy,     \* "require" interaction or "ignore" untrusted content
    reviewed,   \* <<file, digest>> a person said yes to
    applied,    \* <<file, digest>> merged into a request's configuration
    answered,   \* how each request ended: "local", "global" or "error"
    edits, queries

vars == <<file, store, storeLock, pc, at, digest, loaded, policy,
          reviewed, applied, answered, edits, queries>>

Digests == Contents \cup {NoDigest}

TypeOK ==
    /\ file \in [Files -> Digests] /\ store \in [Files -> Digests]
    /\ storeLock \in Clients \cup {Unlocked}
    /\ pc \in [Clients -> {"idle", "resolve", "check", "prompt", "approve", "verified", "saving"}]
    /\ at \in [Clients -> Files]
    /\ digest \in [Clients -> Digests]
    /\ loaded \in [Clients -> [Files -> Digests]]
    /\ policy \in [Clients -> {"require", "ignore"}]
    /\ reviewed \in SUBSET (Files \X Contents)
    /\ applied \in SUBSET (Files \X Contents)
    /\ answered \in [Clients -> {"none", "local", "global", "error"}]
    /\ edits \in Nat /\ queries \in [Clients -> Nat]

Init ==
    /\ file \in [Files -> Digests]
    /\ store = [f \in Files |-> NoDigest]
    /\ storeLock = Unlocked
    /\ pc = [c \in Clients |-> "idle"]
    /\ at \in [Clients -> Files]
    /\ digest = [c \in Clients |-> NoDigest]
    /\ loaded = [c \in Clients |-> store]
    /\ policy = [c \in Clients |-> "require"]
    /\ reviewed = {} /\ applied = {}
    /\ answered = [c \in Clients |-> "none"]
    /\ edits = 0
    /\ queries = [c \in Clients |-> 0]

Goto(c, l) == pc' = [pc EXCEPT ![c] = l]
Answer(c, how) == Goto(c, "idle") /\ answered' = [answered EXCEPT ![c] = how]

\* A request, from a terminal or not: only the first asks about new content.
Query(c) ==
    /\ pc[c] = "idle" /\ queries[c] < MaxQueries
    /\ queries' = [queries EXCEPT ![c] = @ + 1]
    /\ \E mode \in {"require", "ignore"} : policy' = [policy EXCEPT ![c] = mode]
    /\ Goto(c, "resolve")
    /\ UNCHANGED <<file, store, storeLock, at, digest, loaded, reviewed, applied, answered, edits>>

\* ResolveWorkingDirectory reads the file once: what it hashes is what it parses.
ReadConfig(c) ==
    /\ pc[c] = "resolve"
    /\ digest' = [digest EXCEPT ![c] = file[at[c]]]
    /\ IF file[at[c]] = NoDigest
       THEN Answer(c, "global")
       ELSE Goto(c, "check") /\ UNCHANGED answered
    /\ UNCHANGED <<file, store, storeLock, at, loaded, policy, reviewed, applied, edits, queries>>

IsTrusted(f, d) == store[f] = d

\* Trusted content is merged; other content is skipped, or needs a person.
CheckTrust(c) ==
    /\ pc[c] = "check"
    /\ IF IsTrusted(at[c], digest[c])
       THEN /\ applied' = applied \cup {<<at[c], digest[c]>>}
            /\ Answer(c, "local")
       ELSE /\ IF policy[c] = "ignore" THEN Answer(c, "global")
               ELSE Goto(c, "prompt") /\ UNCHANGED answered
            /\ UNCHANGED applied
    /\ UNCHANGED <<file, store, storeLock, at, digest, loaded, policy, reviewed, edits, queries>>

\* PromptTrustRequirement shows what was read.  A refusal is good for this
\* request only, which goes on without the file.
Prompt(c) ==
    /\ pc[c] = "prompt"
    /\ \/ /\ reviewed' = reviewed \cup {<<at[c], digest[c]>>}
          /\ Goto(c, "approve")
          /\ UNCHANGED policy
       \/ /\ policy' = [policy EXCEPT ![c] = "ignore"]
          /\ Goto(c, "resolve")
          /\ UNCHANGED reviewed
    /\ UNCHANGED <<file, store, storeLock, at, digest, loaded, applied, answered, edits, queries>>

\* A faulty form of ApproveConfig: it trusts what it finds, read or not.
ApproveWhateverIsThere(c) ==
    /\ pc[c] = "approve" /\ file[at[c]] # NoDigest
    /\ digest' = [digest EXCEPT ![c] = file[at[c]]]
    /\ Goto(c, "verified")
    /\ loaded' = [loaded EXCEPT ![c] = store]
    /\ UNCHANGED <<file, store, storeLock, at, policy, reviewed, applied, answered, edits, queries>>

\* ApproveWorkingDirectory reopens the file: its digest must be the prompted one.
ApproveConfig(c) ==
    /\ pc[c] = "approve"
    /\ digest' = [digest EXCEPT ![c] = file[at[c]]]
    /\ IF file[at[c]] = digest[c]
       THEN Goto(c, "verified") /\ UNCHANGED answered
       ELSE Answer(c, "error")
    /\ loaded' = [loaded EXCEPT ![c] = store]
    /\ UNCHANGED <<file, store, storeLock, at, policy, reviewed, applied, edits, queries>>

\* Add takes the store's lock and loads it again ...
ReloadStore(c) ==
    /\ pc[c] = "verified" /\ storeLock = Unlocked
    /\ storeLock' = c
    /\ loaded' = [loaded EXCEPT ![c] = store]
    /\ Goto(c, "saving")
    /\ UNCHANGED <<file, store, at, digest, policy, reviewed, applied, answered, edits, queries>>

\* ... and renames the new store into place; the request is then made again.
SaveStore(c) ==
    /\ pc[c] = "saving"
    /\ \/ /\ store' = [loaded[c] EXCEPT ![at[c]] = digest[c]]
          /\ policy' = [policy EXCEPT ![c] = "require"]
          /\ Goto(c, "resolve")
          /\ UNCHANGED answered
       \/ Answer(c, "error") /\ UNCHANGED <<store, policy>>
    /\ storeLock' = Unlocked
    /\ UNCHANGED <<file, at, digest, loaded, reviewed, applied, edits, queries>>

\* A client or the daemon behind it dies; a lock dies with its process.
Crash(c) ==
    /\ pc[c] # "idle"
    /\ Answer(c, "error")
    /\ storeLock' = IF storeLock = c THEN Unlocked ELSE storeLock
    /\ UNCHANGED <<file, store, at, digest, loaded, policy, reviewed, applied, edits, queries>>

\* A checkout or an editor changes a file.
EditConfig ==
    /\ edits < MaxEdits /\ edits' = edits + 1
    /\ \E f \in Files, d \in Digests : file' = [file EXCEPT ![f] = d]
    /\ UNCHANGED <<store, storeLock, pc, at, digest, loaded, policy, reviewed, applied, answered, queries>>

\* A store that does not parse, or of another version, is an empty one.
LoseStore ==
    /\ edits < MaxEdits /\ edits' = edits + 1
    /\ store' = [f \in Files |-> NoDigest]
    /\ UNCHANGED <<file, storeLock, pc, at, digest, loaded, policy, reviewed, applied, answered, queries>>

Next ==
    \/ \E c \in Clients :
          \/ Query(c) \/ ReadConfig(c) \/ CheckTrust(c) \/ Prompt(c) \/ ApproveConfig(c)
          \/ ReloadStore(c) \/ SaveStore(c) \/ Crash(c)
    \/ EditConfig \/ LoseStore

Spec == Init /\ [][Next]_vars

-----------------------------------------------------------------------------
\* Only content a person has read and agreed to configures anything, however
\* the file changed between the prompt, the approval and the load.
OnlyReviewedConfigApplies == applied \subseteq reviewed

\* An approval replaces what was trusted for the same file and nothing else:
\* two approvals at once do not lose each other.
ApprovalsKeepEachOther ==
    \A f \in Files :
        store[f] # NoDigest /\ store'[f] # store[f] =>
            \/ \E c \in Clients : pc[c] = "saving" /\ at[c] = f
            \/ edits' # edits

\* What makes both inductive: what a client was told to approve, and what the
\* store says or said, was reviewed; and only the holder of the store's lock
\* changes it, but for a loss of all of it.
WasReviewed(f, d) == d # NoDigest => <<f, d>> \in reviewed

Honest(c) ==
    /\ pc[c] \in {"check", "prompt", "approve", "verified", "saving"} => digest[c] # NoDigest
    /\ pc[c] \in {"approve", "verified", "saving"} => WasReviewed(at[c], digest[c])
    /\ \A f \in Files : WasReviewed(f, loaded[c][f])
    /\ pc[c] = "saving" =>
          storeLock = c /\ \A f \in Files : store[f] \in {NoDigest, loaded[c][f]}

TrustInv ==
    /\ TypeOK
    /\ OnlyReviewedConfigApplies
    /\ \A c \in Clients : Honest(c)
    /\ \A f \in Files : WasReviewed(f, store[f])

TrustIsReviewed == []OnlyReviewedConfigApplies /\ [][ApprovalsKeepEachOther]_vars
=============================================================================
