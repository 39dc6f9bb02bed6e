------------------------------ MODULE GitContext ------------------------------
(****************************************************************************)
(* A repository as the wrappers of git_utils build it, and fill_git_info    *)
(* and check_repo_is_on_source of a run on it.                              *)
(*                                                                          *)
(* The wrappers stage files in an index in memory and commit the tree it    *)
(* makes; only index::write brings the index to disk, where the next opening*)
(* of the repository finds it.                                              *)
(****************************************************************************)
EXTENDS GitObjects

CONSTANTS
  Entries,      \* from paths to the entries a path may have in a tree
  CommitIds,    \* the ids commits may get: the bound on their number
  BranchNames, TagNames,
  Unknown,      \* a revision that names nothing
  Targets,      \* the revisions a run may be given to compare with
  MaxMoves      \* how often branches, tags and HEAD are moved by hand: a bound

VARIABLES
  git,      \* the objects, the references and HEAD
  index,    \* the index in memory
  disk,     \* the index on disk
  staged,   \* whether the caller holds the tree of the index as it is
  touched,  \* history: the paths staged or lost since HEAD's commit
  moves,    \* how often MaxMoves was used
  stage,    \* of the run
  target, source,             \* the revisions of the run
  deltas, patches, changed    \* what it learns about them

indexVars == <<index, disk, staged, touched>>
runVars == <<stage, target, source, deltas, patches, changed>>
vars == <<git, indexVars, moves, runVars>>

Paths == DOMAIN Entries
AllEntries == UNION {Entries[path] : path \in Paths}
Partial(names, values) == UNION {[given -> values] : given \in SUBSET names}
Trees == Partial(Paths, AllEntries)
Revisions == CommitIds \cup BranchNames \cup TagNames \cup {"HEAD", Unknown}

ASSUME GitContextAssumption ==
  /\ CommitIds \cap (BranchNames \cup TagNames) = {}
  /\ (CommitIds \cup BranchNames \cup TagNames) \cap {"HEAD", Unknown, NoCommit, Detached} = {}
  /\ "main" \in BranchNames
  /\ Targets \subseteq Revisions
  /\ MaxMoves \in Nat

Statuses == {"added", "modified", "deleted"}

Repositories ==
  [commits : Partial(CommitIds, [tree : Trees, parents : SUBSET CommitIds]),
   branches : Partial(BranchNames, CommitIds), tags : Partial(TagNames, CommitIds),
   head : [branch : BranchNames \cup {Detached}, id : CommitIds \cup {NoCommit}],
   big : SUBSET CommitIds]

TypeOK ==
  /\ git \in Repositories /\ IsRepository(git)
  /\ index \in Trees /\ disk \in Trees
  /\ staged \in BOOLEAN
  /\ touched \subseteq Paths
  /\ moves \in 0 .. MaxMoves
  /\ stage \in {"build", "start", "filled", "on_source", "aborted"}
  /\ target \in Revisions /\ source \in Revisions
  /\ changed \subseteq Paths
  /\ deltas \in [changed -> Statuses] /\ patches \in [changed -> Statuses]

Tree(id) == git.commits[id].tree
HeadTree == IF HeadCommit(git) = NoCommit THEN NoEntries ELSE Tree(HeadCommit(git))

-------------------------------------------------------------------------------
(* Building a repository.  As in GitObjects, a definition whose name ends in *)
(* Slip is the one after it with a plausible mistake.                        *)

\* repo::init.
Init ==
  /\ git = EmptyRepository
  /\ index = NoEntries /\ disk = NoEntries
  /\ staged = FALSE
  /\ touched = {}
  /\ moves = 0
  /\ stage = "build"
  /\ target = Unknown /\ source = Unknown
  /\ deltas = NoDeltas /\ patches = NoDeltas
  /\ changed = {}

\* A call on the index; there is none when no commit can follow.
Builds ==
  /\ stage = "build"
  /\ DOMAIN git.commits # CommitIds
  /\ UNCHANGED <<moves, runVars>>

\* A call on the references.
MovesReference ==
  /\ stage = "build"
  /\ moves < MaxMoves
  /\ moves' = moves + 1
  /\ UNCHANGED runVars

\* What the working tree may hold at some paths.
Contents(files) == {tree \in [files -> AllEntries] : \A path \in files : tree[path] \in Entries[path]}

\* The files staged into an empty index.
AddByPathSlip(old, content) == content

AddByPath(old, content) ==
  [path \in DOMAIN old \cup DOMAIN content |->
     IF path \in DOMAIN content THEN content[path] ELSE old[path]]

\* add_files: stages the files and makes the tree of the index.
AddFiles(files) ==
  /\ Builds
  /\ \E content \in Contents(files) : index' = AddByPath(index, content)
  /\ staged' = TRUE
  /\ touched' = touched \cup files
  /\ UNCHANGED <<git, disk>>

\* add_files comes to a file that is not there: those before it stay staged.
AddFilesThrows(files) ==
  /\ Builds
  /\ files # Paths
  /\ \E content \in Contents(files) : index' = AddByPath(index, content)
  /\ staged' = FALSE
  /\ touched' = touched \cup files
  /\ UNCHANGED <<git, disk>>

RemoveByPath(old, files) == [path \in DOMAIN old \ files |-> old[path]]

\* remove_files: a path that is not in the index is no error.
RemoveFiles(files) ==
  /\ Builds
  /\ index' = RemoveByPath(index, files)
  /\ staged' = TRUE
  /\ touched' = touched \cup files
  /\ UNCHANGED <<git, disk>>

\* remove_files comes to a file that the file system does not let go: it is out of
\* the index by then, and so are those before it.
RemoveFilesThrows(files) ==
  /\ Builds
  /\ files # {}
  /\ index' = RemoveByPath(index, files)
  /\ staged' = FALSE
  /\ touched' = touched \cup files
  /\ UNCHANGED <<git, disk>>

\* index::write.
WriteIndex ==
  /\ Builds
  /\ disk' = index
  /\ UNCHANGED <<git, index, staged, touched>>

\* repo::open: the index is read from disk, and what was only staged is lost.
Reopen ==
  /\ Builds
  /\ index' = disk
  /\ staged' = FALSE
  /\ touched' = touched \cup Differing(index, disk)
  /\ UNCHANGED <<git, disk>>

\* A detached HEAD taken for a branch.
MovesSlip(repo, id) == [repo EXCEPT !.branches = With(@, repo.head.branch, id)]

\* commit::create on "HEAD": the branch of HEAD, or HEAD itself, moves.
Moves(repo, id) ==
  IF repo.head.branch = Detached
    THEN [repo EXCEPT !.head.id = id]
    ELSE [repo EXCEPT !.branches = With(@, repo.head.branch, id)]

\* create_head: a commit of the tree the caller holds, on top of HEAD's.  A long
\* message or many headers make a commit that libgit2 does not cache.
CreateHead ==
  /\ Builds
  /\ staged
  /\ LET id == CHOOSE id \in CommitIds \ DOMAIN git.commits : TRUE
         commit == [tree |-> index, parents |-> {HeadCommit(git)} \ {NoCommit}]
     IN \E big \in {{}, {id}} :
          git' = Moves([git EXCEPT !.commits = With(@, id, commit), !.big = @ \cup big], id)
  /\ touched' = {}
  /\ UNCHANGED <<index, disk, staged>>

\* branch::create: with force an existing branch moves, but never that of HEAD.  The
\* branch of a HEAD that is on no commit does not exist, and may be created.
BranchCreate(name, force) ==
  /\ MovesReference
  /\ name \in DOMAIN git.branches => force /\ git.head.branch # name
  /\ \E id \in DOMAIN git.commits : git' = [git EXCEPT !.branches = With(@, name, id)]
  /\ UNCHANGED indexVars

\* branch::lookup and branch::del, which refuses the branch of HEAD.
BranchDel(name) ==
  /\ MovesReference
  /\ name \in DOMAIN git.branches
  /\ git.head.branch # name
  /\ git' = [git EXCEPT !.branches = [b \in DOMAIN @ \ {name} |-> @[b]]]
  /\ UNCHANGED indexVars

\* git tag -a.
TagCreate(name) ==
  /\ MovesReference
  /\ name \notin DOMAIN git.tags
  /\ \E id \in DOMAIN git.commits : git' = [git EXCEPT !.tags = With(@, name, id)]
  /\ UNCHANGED indexVars

\* git checkout -f, of a branch or of a commit.
Checkout ==
  /\ MovesReference
  /\ \E head \in [branch : DOMAIN git.branches, id : {NoCommit}]
                   \cup [branch : {Detached}, id : DOMAIN git.commits] :
       git' = [git EXCEPT !.head = head]
  /\ index' = git.commits[HeadCommit(git')].tree
  /\ disk' = index'
  /\ staged' = FALSE
  /\ touched' = {}

\* git checkout --orphan.
CheckoutOrphan(name) ==
  /\ MovesReference
  /\ name \notin DOMAIN git.branches
  /\ git' = [git EXCEPT !.head = [branch |-> name, id |-> NoCommit]]
  /\ touched' = Paths
  /\ UNCHANGED <<index, disk, staged>>

-------------------------------------------------------------------------------
(* A run.  It reads no index; what its variables hold is forgotten.         *)

StartRun ==
  /\ stage = "build"
  /\ stage' = "start"
  /\ target' \in Targets
  /\ source' \in CommitIds \cup {Unknown}
  /\ index' = NoEntries /\ disk' = NoEntries
  /\ staged' = FALSE
  /\ touched' = {}
  /\ UNCHANGED <<git, moves, deltas, patches, changed>>

FillGitInfo ==
  /\ stage = "start"
  /\ IsCommit(git, target) /\ IsCommit(git, source)
  /\ LET diff == CommitToCommit(git, Commit(git, target), Commit(git, source)) IN
       /\ patches' = Patches(diff)
       /\ deltas' = Deltas(diff)
  /\ changed' = ChangedFiles(patches')
  /\ stage' = "filled"
  /\ UNCHANGED <<git, indexVars, moves, target, source>>

\* A revision that names no object, or an object that is no commit.
NoSuchCommit ==
  /\ stage = "start"
  /\ ~(IsCommit(git, target) /\ IsCommit(git, source))
  /\ stage' = "aborted"
  /\ UNCHANGED <<git, indexVars, moves, target, source, deltas, patches, changed>>

\* HEAD compared with the target.
IsOnSourceSlip == SameObject(git, HeadCommit(git), Commit(git, target))

IsOnSource == SameObject(git, HeadCommit(git), Commit(git, source))

HeadOnSource ==
  /\ stage = "filled"
  /\ IsOnSource
  /\ stage' = "on_source"
  /\ UNCHANGED <<git, indexVars, moves, target, source, deltas, patches, changed>>

\* The message of the exception is made before the comparison, from a HEAD that
\* may be null: in either case the process ends.
HeadElsewhere ==
  /\ stage = "filled"
  /\ ~IsOnSource
  /\ stage' = "aborted"
  /\ UNCHANGED <<git, indexVars, moves, target, source, deltas, patches, changed>>

Stages ==
  \/ \E files \in SUBSET Paths :
       AddFiles(files) \/ AddFilesThrows(files) \/ RemoveFiles(files) \/ RemoveFilesThrows(files)
  \/ WriteIndex \/ Reopen \/ CreateHead
References ==
  \/ \E name \in BranchNames :
       BranchDel(name) \/ CheckoutOrphan(name) \/ \E force \in BOOLEAN : BranchCreate(name, force)
  \/ \E name \in TagNames : TagCreate(name)
  \/ Checkout
Runs == StartRun \/ FillGitInfo \/ NoSuchCommit \/ HeadOnSource \/ HeadElsewhere

Next == Stages \/ References \/ Runs

Spec == Init /\ [][Next]_vars

-------------------------------------------------------------------------------
(* What makes it correct.                                                   *)

Filled == stage \in {"filled", "on_source"}
OldTree == Tree(Commit(git, target))
NewTree == Tree(Commit(git, source))

\* The files of a run are those that differ between the target and the source,
\* and a file counts as deleted exactly when the source has it no more: the
\* loops of the tools skip deleted files and open all others.  diff::changed_files
\* of the two revisions gives the same files.
DeltasTellTheTrees ==
  Filled =>
    /\ changed = Differing(OldTree, NewTree)
    /\ changed = DOMAIN deltas
    /\ changed = ChangedBetween(git, target, source)
    /\ \A path \in changed : deltas[path] = "deleted" <=> path \notin DOMAIN NewTree

Retyped(path) ==
  /\ path \in DOMAIN OldTree \cap DOMAIN NewTree
  /\ OldTree[path].mode # NewTree[path].mode

\* The patch and the delta of a path are of one kind, but for a path whose type
\* has changed: its delta says added and its patch deletes, so that the tools run
\* on a file for which a review has no new line to comment on.
PatchAgreesWithDelta ==
  Filled => \A path \in changed :
    IF Retyped(path)
      THEN deltas[path] = "added" /\ patches[path] = "deleted"
      ELSE patches[path] = deltas[path]

\* Once the check has passed, the checked-out tree has every changed file that is
\* not deleted, and has it differently from the target: the tools, which read the
\* working tree, look at what the source has changed.
ReadsTheSource ==
  stage = "on_source" => \A path \in changed :
    deltas[path] # "deleted" =>
      /\ path \in DOMAIN HeadTree
      /\ path \in DOMAIN OldTree => OldTree[path] # HeadTree[path]

\* A commit differs from the one before it only in files that were staged since,
\* or lost when the repository was opened before its index was written.
CommitsOnlyStaged ==
  [][\A id \in DOMAIN git'.commits \ DOMAIN git.commits :
       Differing(HeadTree, git'.commits[id].tree) \subseteq touched]_vars
===============================================================================
