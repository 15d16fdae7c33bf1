------------------------- MODULE PullRequestImport -------------------------
(***************************************************************************)
(* Importing one pull request into one clone (internal/pullrequest,        *)
(* internal/cmd/pr.go), attaching to what was imported, and kwt open, which *)
(* must not.  Imports, attachments and opens of a project exclude each      *)
(* other by its claim, but each of them decides on something it read       *)
(* before: a client opens what it has listed and checked, an attachment    *)
(* verifies what it claims later, and the user's Git takes no lock at all.  *)
(*                                                                         *)
(* Worktrees are known by their generation.  A branch is named for the     *)
(* number and the source branch of the pull request, and a second import   *)
(* also for the workspace the first one has recorded; the path is named    *)
(* for the repository and the branch.                                      *)
(***************************************************************************)
EXTENDS Naturals, FiniteSets

CONSTANTS
    Importers,
    Visitors,       \* run kwt open or kwt pr attach
    MaxMade,        \* bound: worktrees ever made
    Sources,        \* source branches the pull request has had
    None,
    MaxChanges,     \* bound: acts of the user and of the provider
    MaxFaults       \* bound: failing writes and commands, processes that die

VARIABLES
    provider,   \* what the provider says of the pull request and its repository
    registered, \* the identity under which the project is registered
    trees,      \* generation -> worktree, or None
    made,       \* how many worktrees were made
    refs,       \* the branches of the repository
    records,    \* repository identity -> provenance of the pull request, or None
    writer,     \* who has the provenance file locked for writing
    claim,      \* who has claimed the project
    job,        \* what each process is doing
    opened,     \* worktrees that have an ordinary session
    lost,       \* worktrees whose provenance another import has replaced
    acts, faults

vars == <<provider, registered, trees, made, refs, records, writer, claim, job, opened, lost, acts, faults>>
git == <<trees, refs>>
world == <<provider, registered, acts>>

Processes == Importers \cup Visitors
Generations == 1..MaxMade                      \* generations, in the order they are made
Repos == {"old", "new"}                 \* the repository may be renamed once
Idle == [pc |-> "idle"]
Live == {g \in Generations : trees[g] # None}
At(path) == {g \in Live : trees[g].path = path}

ImportBranchName(source) == <<source>>
ReassociationBranchName(source, g) == <<source, g>>
Own == <<None>>                         \* a branch of the user's
LocalBranches == {<<s>> : s \in Sources} \cup (Sources \X Generations) \cup {Own}
PathFor(repo, branch) == <<repo, branch>>

Workspace == [gen : Generations, path : Repos \X LocalBranches, branch : LocalBranches]
TypeOK ==
    /\ provider \in [source : Sources, moved : BOOLEAN, repo : Repos]
    /\ registered \in Repos
    /\ \A g \in Generations : trees[g] = None \/
         trees[g] \in [path : Repos \X LocalBranches, branch : LocalBranches, clean : BOOLEAN,
                       import : BOOLEAN, recorded : BOOLEAN, moved : BOOLEAN,
                       push : SUBSET (STRING \X (LocalBranches \cup {None}))]
    /\ refs \subseteq LocalBranches /\ made \in 0..MaxMade
    /\ \A r \in Repos : records[r] = None \/
         records[r] \in [workspace : Workspace, source : Sources, repo : Repos,
                         aliases : SUBSET Repos]
    /\ writer \in Importers \cup {None} /\ claim \in Processes \cup {None}
    /\ DOMAIN job = Processes
    /\ opened \subseteq Generations /\ lost \subseteq Generations
    /\ acts \in 0..MaxChanges /\ faults \in 0..MaxFaults

Init ==
    /\ \E repo \in Repos :
         provider = [source |-> CHOOSE s \in Sources : TRUE, moved |-> FALSE, repo |-> repo]
    /\ registered = "old"
    /\ trees = [g \in Generations |-> None] /\ made = 0 /\ refs = {Own} /\ records = [r \in Repos |-> None]
    /\ writer = None /\ claim = None
    /\ job = [p \in Processes |-> Idle]
    /\ opened = {} /\ lost = {} /\ acts = 0 /\ faults = 0

Do(p, j) == job' = [job EXCEPT ![p] = j]
Unlock(p) == writer' = IF writer = p THEN None ELSE writer
End(p) == Do(p, Idle) /\ claim' = IF claim = p THEN None ELSE claim

-----------------------------------------------------------------------------
(* Provenance.  "mine" are the identities the service was made with: that  *)
(* of the registration and the one the provider resolves it to.            *)

Identities(rec) ==
    IF rec.aliases = {} THEN {rec.repo}
    ELSE IF rec.repo \in rec.aliases THEN rec.aliases ELSE {}
Connected(rec, mine) == Identities(rec) \cap mine # {}
MergedAliases(ids, mine) == IF Cardinality(ids \cup mine) < 2 THEN {} ELSE ids \cup mine

FindProvenance(recs, repo, mine) ==
    IF recs[repo] # None THEN {repo}
    ELSE {r \in Repos : recs[r] # None /\ Connected(recs[r], mine)}

Matching(rec) ==
    \E g \in At(rec.workspace.path) :
        g = rec.workspace.gen /\ trees[g].branch = rec.workspace.branch

ImportBranchFromState(recs, j) ==
    LET found == FindProvenance(recs, j.repo, j.mine) IN
    IF found = {} THEN ImportBranchName(j.source)
    ELSE LET rec == recs[CHOOSE r \in found : TRUE] IN
         IF Matching(rec) THEN rec.workspace.branch
         ELSE ReassociationBranchName(j.source, rec.workspace.gen)

-----------------------------------------------------------------------------
(* Pushing.  What git push does with the routing in force in the worktree  *)
(* (external), and the check that accepts it.                              *)

Routings ==
    [pushRemote : {"import", None}, remote : {"import", "origin"}, merge : {"source", "own"},
     default : {"upstream", "simple"}, urls : SUBSET {"head", "elsewhere"} \ {{}},
     refspec : BOOLEAN, mirror : BOOLEAN, tags : BOOLEAN]

\* The <<repository, branch>> pairs a plain git push updates; None stands for
\* every other ref.
Pushes(c, source) ==
    LET urls == IF c.pushRemote = "import" \/ c.remote = "import" THEN c.urls ELSE {"origin"}
        refspecs == IF c.mirror \/ c.refspec THEN {None}
                    ELSE IF c.default = "upstream" /\ c.merge = "source" THEN {<<source>>}
                    ELSE {Own}
    IN urls \X (refspecs \cup IF c.tags THEN {None} ELSE {})

PushIsSafe(c) ==
    /\ c.pushRemote # None /\ c.remote = c.pushRemote
    /\ c.merge = "source" /\ c.default = "upstream"
    /\ c.urls = {"head"}
    /\ ~c.refspec /\ ~c.mirror /\ ~c.tags

-----------------------------------------------------------------------------
(* Importing.                                                              *)

\* The repository is resolved before the claim is taken.
Prepare(p) ==
    /\ job[p] = Idle
    /\ Do(p, [pc |-> "prepared", repo |-> provider.repo, registered |-> registered])
    /\ UNCHANGED <<world, git, made, records, writer, claim, opened, lost, faults>>

\* projectClaimHasExpectedIdentity: the claim is only taken of a registration
\* under the name that was read or the one it resolved to.
NamesProject(j) == registered \in {j.registered, j.repo}

\* With --expected-registration nothing but the registration that was read will do.
ExpectedProject(j) == registered = j.registered

\* The provider must still answer for the repository that was resolved.
BeginImport(p) ==
    LET j == job[p] IN
    /\ j.pc = "prepared" /\ claim = None
    /\ \E guarded \in BOOLEAN :
         IF (IF guarded THEN ExpectedProject(j) ELSE NamesProject(j)) /\ provider.repo = j.repo
         THEN /\ claim' = p
              /\ Do(p, [pc |-> "records", repo |-> j.repo, mine |-> {j.registered, j.repo},
                        source |-> provider.source, moved |-> provider.moved])
         ELSE End(p)
    /\ UNCHANGED <<world, git, made, records, writer, opened, lost, faults>>

\* importBranch: the provenance is read first and the worktrees after it.
ReadRecords(p) ==
    /\ job[p].pc = "records"
    /\ Do(p, [pc |-> "branch", repo |-> job[p].repo, mine |-> job[p].mine,
              source |-> job[p].source, moved |-> job[p].moved, seen |-> records])
    /\ UNCHANGED <<world, git, made, records, writer, claim, opened, lost, faults>>

\* AcquireWorkspaceCreation may find the path being created by another command.
ChooseBranch(p) ==
    LET j == job[p] IN
    /\ j.pc = "branch"
    /\ \/ /\ Do(p, [pc |-> "update", repo |-> j.repo, mine |-> j.mine, source |-> j.source,
                    moved |-> j.moved, branch |-> ImportBranchFromState(j.seen, j)])
          /\ UNCHANGED <<claim, faults>>
       \/ faults < MaxFaults /\ faults' = faults + 1 /\ End(p)
    /\ UNCHANGED <<world, git, made, records, writer, opened, lost>>

Recorded(rec, j) ==
    [workspace |-> rec.workspace, source |-> rec.source, repo |-> j.repo,
     aliases |-> MergedAliases(Identities(rec), j.mine)]
Replaced(found, j, rec) ==
    [r \in Repos |-> IF r = j.repo THEN rec ELSE IF r \in found THEN None ELSE records[r]]
Fail(p) == End(p) /\ Unlock(p)

\* Inside Update: decided again on what is there now, under the write lock.
Decide(p) ==
    LET j == job[p]
        found == FindProvenance(records, j.repo, j.mine)
        rec == records[CHOOSE r \in found : TRUE]
    IN
    /\ j.pc = "update" /\ writer = None
    /\ IF ImportBranchFromState(records, j) # j.branch THEN Fail(p)
       ELSE IF found # {} /\ Matching(rec)
       THEN IF rec.source # j.source THEN Fail(p)
            ELSE /\ writer' = p
                 /\ Do(p, [pc |-> "save", gen |-> rec.workspace.gen, made |-> FALSE,
                           branch |-> j.branch, next |-> Replaced(found, j, Recorded(rec, j))])
                 /\ UNCHANGED claim
       ELSE /\ writer' = p
            /\ Do(p, [j EXCEPT !.pc = "git"])
            /\ UNCHANGED claim
    /\ UNCHANGED <<world, git, made, records, opened, lost, faults>>

ImportedTree(j, c) ==
    [path |-> PathFor(j.repo, j.branch), branch |-> j.branch, clean |-> TRUE, import |-> TRUE,
     recorded |-> FALSE, moved |-> j.moved, push |-> Pushes(c, j.source)]
NewRecord(j, g) ==
    [workspace |-> [gen |-> g, path |-> PathFor(j.repo, j.branch), branch |-> j.branch],
     source |-> j.source, repo |-> j.repo, aliases |-> MergedAliases({j.repo}, j.mine)]

\* Under the repository's lock: the checkout, the check of its routing, and the
\* roll-back where that fails.  A branch or a path that is taken, and a head
\* that has moved since, end the import.
ImportPullRequest(p) ==
    LET j == job[p] IN
    /\ j.pc = "git"
    /\ IF j.branch \in refs \/ At(PathFor(j.repo, j.branch)) # {} \/ provider.moved # j.moved
       THEN Fail(p) /\ UNCHANGED <<git, made>>
       ELSE \E g \in Generations \cap {made + 1}, c \in Routings :
              IF PushIsSafe(c)
              THEN /\ trees' = [trees EXCEPT ![g] = ImportedTree(j, c)]
                   /\ refs' = refs \cup {j.branch} /\ made' = g
                   /\ Do(p, [pc |-> "save", gen |-> g, made |-> TRUE, branch |-> j.branch,
                             next |-> Replaced(FindProvenance(records, j.repo, j.mine), j,
                                               NewRecord(j, g))])
                   /\ UNCHANGED <<claim, writer>>
              ELSE Fail(p) /\ UNCHANGED <<git, made>>
    /\ UNCHANGED <<world, records, opened, lost, faults>>

\* No identity could be written, or the roll-back of an unsafe checkout failed:
\* it is left for the user, and reported.
PreserveImport(p) ==
    LET j == job[p] IN
    /\ j.pc = "git" /\ faults < MaxFaults /\ faults' = faults + 1
    /\ j.branch \notin refs /\ At(PathFor(j.repo, j.branch)) = {} /\ provider.moved = j.moved
    /\ \E g \in Generations \cap {made + 1}, c \in Routings :
         /\ trees' = [trees EXCEPT ![g] = ImportedTree(j, c)]
         /\ refs' = refs \cup {j.branch} /\ made' = g
    /\ Fail(p)
    /\ UNCHANGED <<world, records, opened, lost>>

Save(p) ==
    LET j == job[p] IN
    /\ j.pc = "save"
    /\ records' = j.next
    /\ trees' = IF j.gen \in Live THEN [trees EXCEPT ![j.gen].recorded = TRUE] ELSE trees
    /\ lost' = lost \cup {g \in Live : /\ \E r \in Repos : records[r] # None /\ records[r].workspace.gen = g
                                       /\ \A r \in Repos : j.next[r] # None => j.next[r].workspace.gen # g}
    /\ Fail(p)
    /\ UNCHANGED <<world, refs, made, opened, faults>>

SaveFails(p) ==
    /\ job[p].pc = "save" /\ faults < MaxFaults /\ faults' = faults + 1
    /\ Unlock(p)
    /\ IF job[p].made
       THEN Do(p, [pc |-> "rollback", gen |-> job[p].gen, branch |-> job[p].branch]) /\ UNCHANGED claim
       ELSE End(p)
    /\ UNCHANGED <<world, git, made, records, opened, lost>>

\* RollbackUnchanged takes only what was made, as it was made: the identity,
\* the branch and its commit (external) are those of the import.
Rollback(p) ==
    LET g == job[p].gen IN
    /\ job[p].pc = "rollback"
    /\ IF g \in Live /\ trees[g].clean /\ trees[g].branch = job[p].branch
       THEN trees' = [trees EXCEPT ![g] = None] /\ refs' = refs \ {job[p].branch}
       ELSE UNCHANGED git
    /\ End(p)
    /\ UNCHANGED <<world, made, records, writer, opened, lost, faults>>

Die(p) ==
    /\ job[p] # Idle /\ faults < MaxFaults /\ faults' = faults + 1
    /\ Fail(p)
    /\ UNCHANGED <<world, git, made, records, opened, lost>>

-----------------------------------------------------------------------------
(* kwt open.  The worktree was listed, with its generation, before its     *)
(* provenance is looked up; the claim is taken after that.                 *)

BeginOpen(p) ==
    /\ job[p] = Idle
    /\ \E g \in Live : Do(p, [pc |-> "check", gen |-> g, path |-> trees[g].path])
    /\ UNCHANGED <<world, git, made, records, writer, claim, opened, lost, faults>>

\* A record of the path asks for the generation that is there now.
Protects(j) ==
    LET workspaces == {records[r].workspace : r \in {r \in Repos : records[r] # None}}
        live == IF \E w \in workspaces : w.path = j.path THEN At(j.path) ELSE {j.gen}
    IN live = {} \/ \E w \in workspaces : w.gen \in live

\* mutant: the lookup does not wait for an import that has the file locked
RejectProtectedUnlocked(p) ==
    /\ job[p].pc = "check"
    /\ IF Protects(job[p]) THEN End(p) ELSE Do(p, [job[p] EXCEPT !.pc = "open"]) /\ UNCHANGED claim
    /\ UNCHANGED <<world, git, made, records, writer, opened, lost, faults>>
RejectProtected(p) ==
    /\ job[p].pc = "check" /\ writer = None
    /\ IF Protects(job[p]) THEN End(p) ELSE Do(p, [job[p] EXCEPT !.pc = "open"]) /\ UNCHANGED claim
    /\ UNCHANGED <<world, git, made, records, writer, opened, lost, faults>>

\* Under the claim and the repository's lock, if the generation is still there.
Establish(p) ==
    LET j == job[p] IN
    /\ j.pc = "open" /\ claim = None
    /\ opened' = IF j.gen \in At(j.path) THEN opened \cup {j.gen} ELSE opened
    /\ End(p)
    /\ UNCHANGED <<world, git, made, records, writer, lost, faults>>

-----------------------------------------------------------------------------
(* kwt pr attach, which may bear what its client has seen.                 *)

BeginAttach(p) ==
    /\ job[p] = Idle
    /\ \E g \in Live, guarded \in BOOLEAN :
         /\ trees[g].import
         /\ Do(p, [pc |-> "verify", path |-> trees[g].path, expected |-> IF guarded THEN g ELSE None])
    /\ UNCHANGED <<world, git, made, records, writer, claim, opened, lost, faults>>

\* importedWorkspaceProvenance: the only record of the path's live generation,
\* whose branch is still the one that was imported.
Provenance(path) ==
    {r \in Repos : records[r] # None /\ records[r].workspace.path = path
                   /\ records[r].workspace.gen \in At(path)}

\* inspectPRProjectClone: the registered project is the one the record names.
SameClone(rec) == registered \in Identities(rec)

Verified(path) ==
    /\ writer = None /\ Cardinality(Provenance(path)) = 1
    /\ \A r \in Provenance(path) : Matching(records[r]) /\ SameClone(records[r])

VerifyAttach(p) ==
    /\ job[p].pc = "verify" /\ writer = None
    /\ IF Verified(job[p].path) THEN Do(p, [job[p] EXCEPT !.pc = "claim"]) /\ UNCHANGED claim
       ELSE End(p)
    /\ UNCHANGED <<world, git, made, records, writer, opened, lost, faults>>

\* All of it again under the claim.
ClaimAttach(p) ==
    LET j == job[p] IN
    /\ j.pc = "claim" /\ claim = None
    /\ IF Verified(j.path) /\ \A g \in At(j.path) : j.expected \in {None, g}
       THEN claim' = p /\ Do(p, [j EXCEPT !.pc = "establish"])
       ELSE End(p)
    /\ UNCHANGED <<world, git, made, records, writer, opened, lost, faults>>

\* One that names a generation ensures its session only if it is there now; it
\* leaves no trace in what is modelled but its end.
Ensures(j) == j.expected \in At(j.path)
EstablishAttach(p) ==
    /\ job[p].pc = "establish"
    /\ End(p)
    /\ UNCHANGED <<world, git, made, records, writer, opened, lost, faults>>

-----------------------------------------------------------------------------
(* The user, who needs no lock of kwt's, and the provider.                 *)

Act == acts < MaxChanges /\ acts' = acts + 1 /\ UNCHANGED <<records, writer, claim, job, opened, lost, faults>>

RemoveTree(g, andBranch) ==
    /\ g \in Live /\ Act
    /\ trees' = [trees EXCEPT ![g] = None]
    /\ refs' = IF andBranch THEN refs \ {trees[g].branch} ELSE refs
    /\ UNCHANGED <<provider, registered, made>>

Switch(g) ==
    /\ g \in Live /\ trees[g].branch # Own /\ \A h \in Live : trees[h].branch # Own /\ Act
    /\ trees' = [trees EXCEPT ![g].branch = Own]
    /\ UNCHANGED <<provider, registered, refs, made>>

Commit(g) ==
    /\ g \in Live /\ trees[g].clean /\ trees[g].import /\ ~trees[g].recorded /\ Act
    /\ trees' = [trees EXCEPT ![g].clean = FALSE]
    /\ UNCHANGED <<provider, registered, refs, made>>

\* git worktree add of an existing branch at a path an import has had.
AddTree(g, branch) ==
    /\ g = made + 1 /\ branch \in refs \ {Own} /\ \A h \in Live : trees[h].branch # branch
    /\ At(PathFor("old", branch)) = {} /\ Act
    /\ trees' = [trees EXCEPT ![g] = [path |-> PathFor("old", branch), branch |-> branch, clean |-> TRUE,
                                      import |-> FALSE, recorded |-> FALSE, moved |-> FALSE, push |-> {}]]
    /\ made' = g
    /\ UNCHANGED <<provider, registered, refs>>

ProviderChanges ==
    /\ Act
    /\ \/ \E s \in Sources : s # provider.source /\ provider' = [provider EXCEPT !.source = s]
       \/ ~provider.moved /\ provider' = [provider EXCEPT !.moved = TRUE]
       \/ provider.repo = "old" /\ provider' = [provider EXCEPT !.repo = "new"]
    /\ UNCHANGED <<registered, git, made>>

\* Registering the project anew waits for whoever has claimed it.
Register ==
    /\ registered # provider.repo /\ claim = None /\ Act
    /\ registered' = provider.repo
    /\ UNCHANGED <<provider, git, made>>

Next ==
    \/ \E p \in Importers :
         \/ Prepare(p) \/ BeginImport(p) \/ ReadRecords(p) \/ ChooseBranch(p) \/ Decide(p)
         \/ ImportPullRequest(p) \/ PreserveImport(p) \/ Save(p) \/ SaveFails(p) \/ Rollback(p)
    \/ \E p \in Visitors :
         \/ BeginOpen(p) \/ RejectProtected(p) \/ Establish(p)
         \/ BeginAttach(p) \/ VerifyAttach(p) \/ ClaimAttach(p) \/ EstablishAttach(p)
    \/ \E p \in Processes : Die(p)
    \/ \E g \in Generations : Switch(g) \/ Commit(g) \/ \E b \in BOOLEAN : RemoveTree(g, b)
    \/ \E g \in Generations, b \in LocalBranches : AddTree(g, b)
    \/ ProviderChanges \/ Register

Spec == Init /\ [][Next]_vars

-----------------------------------------------------------------------------
RecordedNow(g) == \E r \in Repos : records[r] # None /\ records[r].workspace.gen = g

\* kwt open enters the worktree of an import only if no import ever recorded it,
\* because it failed or was killed, or if a later import took its record: no
\* order of listing, looking up and importing lets one through.
OpensAvoidImports == \A g \in opened \cap Live : trees[g].import => ~trees[g].recorded \/ g \in lost

\* What docs/reference/pull-requests.md promises of them.
OpensRefuseImports == \A g \in opened \cap Live : ~(trees[g].import /\ trees[g].recorded)

\* Imports of one pull request converge: as long as the project is registered under
\* the name it had, one live worktree at most has provenance, whatever the provider
\* has come to call the repository and whichever import was first.  (Registered
\* under its new name, the project no longer looks for what was recorded before.)
OneImportIsRecorded ==
    registered = "old" =>
        \A r, q \in Repos :
            r # q /\ records[r] # None /\ records[q] # None => ~(Matching(records[r]) /\ Matching(records[q]))

\* What is pushed from an import that was recorded goes to the branch it came
\* from, and nowhere else.
PushesReturnToTheirSource ==
    \A r \in Repos : records[r] # None /\ records[r].workspace.gen \in Live =>
        trees[records[r].workspace.gen].push \subseteq {<<"head", <<s>>>> : s \in Sources}

\* A roll-back takes nothing of the user's, and only what has no record.
RollbacksTakeTheirOwn ==
    \A g \in Live : acts' = acts /\ trees'[g] = None =>
        trees[g].import /\ trees[g].clean /\ ~RecordedNow(g) /\ ~trees[g].recorded

\* An attachment that bears what its client has seen ensures its session in that
\* very worktree while its provenance still names it.
GuardedAttachmentsAreExact ==
    \A p \in Visitors :
        EstablishAttach(p) /\ Ensures(job[p]) => RecordedNow(job[p].expected) /\ trees[job[p].expected].import

ImportsAreKept == OpensAvoidImports /\ OneImportIsRecorded /\ PushesReturnToTheirSource
ImportSteps == RollbacksTakeTheirOwn /\ GuardedAttachmentsAreExact
ImportsAreProtected == []ImportsAreKept /\ [][ImportSteps]_vars
-----------------------------------------------------------------------------
(* What makes ImportsAreProtected inductive.                               *)

Tree == [path : Repos \X LocalBranches, branch : LocalBranches, clean : BOOLEAN,
         import : BOOLEAN, recorded : BOOLEAN, moved : BOOLEAN,
         push : SUBSET ({"origin", "head", "elsewhere"} \X (LocalBranches \cup {None}))]
Record == [workspace : Workspace, source : Sources, repo : Repos, aliases : {{}, Repos}]
Records == [Repos -> Record \cup {None}]

\* The jobs, by where they are.
Preparing == {j \in [pc : {"prepared"}, repo : Repos, registered : Repos] :
                j.registered = "new" => j.repo = "new"}
Reading == [pc : {"records"}, repo : Repos, mine : SUBSET Repos, source : Sources, moved : BOOLEAN]
Branching == [pc : {"branch"}, repo : Repos, mine : SUBSET Repos, source : Sources, moved : BOOLEAN,
              seen : Records]
Updating == [pc : {"update", "git"}, repo : Repos, mine : SUBSET Repos, source : Sources,
             moved : BOOLEAN, branch : LocalBranches]
Storing == [pc : {"save"}, gen : Generations, made : BOOLEAN, branch : LocalBranches, next : Records]
Undoing == [pc : {"rollback"}, gen : Generations, branch : LocalBranches]
Opening == [pc : {"check", "open"}, gen : Generations, path : Repos \X LocalBranches]
Attaching == [pc : {"verify", "claim", "establish"}, path : Repos \X LocalBranches,
              expected : Generations \cup {None}]
Job == {Idle} \cup Preparing \cup Reading \cup Branching \cup Updating \cup Storing
         \cup Undoing \cup Opening \cup Attaching

Resolving == {"records", "branch", "update", "git"}     \* with a repository and its identities
Claiming == Resolving \cup {"save", "rollback", "establish"}
Writing == {"git", "save"}

Stores(g) == \E p \in Processes : job[p].pc = "save" /\ job[p].gen = g
IsUnrecorded(g) == ~RecordedNow(g) /\ ~Stores(g)
ReturnsToSource(g) == trees[g].push \subseteq {<<"head", <<s>>>> : s \in Sources}

\* What is recorded was imported; a record stands under the repository's present
\* name; once the clone is registered under the new one the records no longer meet.
RecordsAgree(recs) ==
    /\ \A r \in Repos : recs[r] # None =>
         /\ recs[r].repo = r /\ recs[r].workspace.gen <= made
         /\ recs[r].workspace.gen \in Live =>
              trees[recs[r].workspace.gen].import /\ ReturnsToSource(recs[r].workspace.gen)
    /\ recs["old"] # None => recs["old"].aliases = {}
    /\ recs["new"] # None => provider.repo = "new"
    /\ recs["old"] # None /\ recs["new"] # None => registered = "new"

\* What an import knows under its claim,
KnowsProject(j) ==
    j.pc \in Resolving =>
        /\ j.mine = {registered, j.repo} \/ (j.mine = Repos /\ j.repo = "new")
        /\ j.repo = "new" => provider.repo = "new"
        /\ j.repo = "old" => registered = "old" /\ records["new"] = None
\* of the file it is about to write,
KnowsFile(j) ==
    j.pc = "save" =>
        /\ RecordsAgree(j.next) /\ j.gen <= made
        /\ \A r \in Repos : j.next[r] # None =>
             j.next[r].workspace.gen = j.gen \/ RecordedNow(j.next[r].workspace.gen)
        /\ \E r \in Repos : j.next[r] # None /\ j.next[r].workspace.gen = j.gen
        /\ ~j.made => RecordedNow(j.gen)
\* and of the worktree it made;
KnowsItsOwn(j) ==
    (j.pc = "save" /\ j.made) \/ j.pc = "rollback" =>
        /\ ~RecordedNow(j.gen) /\ j.gen <= made
        /\ j.gen \in Live => trees[j.gen].import /\ ~trees[j.gen].recorded
\* and an open or an attachment of the worktree it names.
KnowsWorktree(j) ==
    /\ j.pc \in {"check", "open"} => j.gen <= made /\ (j.gen \in Live => trees[j.gen].path = j.path)
    /\ j.pc = "open" => (j.gen \in Live => IsUnrecorded(j.gen))
    /\ j.pc = "establish" => j.expected = None \/ RecordedNow(j.expected)
Knows(p, j) ==
    /\ j \in Job
    /\ j.pc \in Claiming => claim = p
    /\ j.pc \in Writing => writer = p
    /\ KnowsProject(j) /\ KnowsFile(j) /\ KnowsItsOwn(j) /\ KnowsWorktree(j)

ImportInv ==
    /\ provider \in [source : Sources, moved : BOOLEAN, repo : Repos] /\ registered \in Repos
    /\ registered = "new" => provider.repo = "new"
    /\ DOMAIN trees = Generations /\ made \in 0..MaxMade /\ acts \in Nat
    /\ \A g \in Live : trees[g] \in Tree /\ g <= made
    /\ records \in Records /\ RecordsAgree(records)
    /\ DOMAIN job = Processes /\ \A p \in Processes : Knows(p, job[p])
    /\ \A g \in Live : trees[g].recorded => RecordedNow(g) \/ g \in lost
    /\ \A g \in opened : g \in 1..made /\ (g \in Live => IsUnrecorded(g))
=============================================================================
