--------------------------- MODULE GitContextProofs ---------------------------
(****************************************************************************)
(* What a repository and a run on it keep, for every set of files, of       *)
(* revisions and of moves.                                                  *)
(****************************************************************************)
EXTENDS GitContext, GitObjectsProofs

(* The inductive invariant.  That a commit holds only what was staged is a   *)
(* statement about a step, so the index is followed from one commit to the  *)
(* next; what a run has learnt is followed back to the two revisions.       *)

\* While the repository is built, the index differs from HEAD only where it was
\* touched.
IndexTouched == stage = "build" => Differing(HeadTree, index) \subseteq touched

\* A HEAD on no commit counts everything as touched once there are commits: the
\* branch it names may be created at any of them.
Unborn ==
  stage = "build" /\ HeadCommit(git) = NoCommit /\ DOMAIN git.commits # {} => touched = Paths

\* What a run holds was taken from the diff of its two revisions.
RunDiff == CommitToCommit(git, Commit(git, target), Commit(git, source))

TakenFromDiff ==
  Filled =>
    /\ IsCommit(git, target) /\ IsCommit(git, source)
    /\ deltas = Deltas(RunDiff)
    /\ patches = Patches(RunDiff)
    /\ changed = ChangedFiles(patches)

HeadChecked == stage = "on_source" => IsOnSource

IInv == TypeOK /\ IndexTouched /\ Unborn /\ TakenFromDiff /\ HeadChecked

-------------------------------------------------------------------------------
(* Lemmas about the operators.                                              *)

LEMMA PartialIs ==
  ASSUME NEW names, NEW values, NEW f
  PROVE  f \in Partial(names, values) <=>
           /\ DOMAIN f \subseteq names
           /\ f \in [DOMAIN f -> values]
BY DEF Partial

\* A tree staged over another has the entries of the two.
LEMMA AddByPathPartial ==
  ASSUME NEW names, NEW values, NEW old \in Partial(names, values),
         NEW content \in Partial(names, values)
  PROVE  AddByPath(old, content) \in Partial(names, values)
<1> DEFINE new == AddByPath(old, content)
<1>1. /\ DOMAIN old \subseteq names /\ DOMAIN content \subseteq names
      /\ \A path \in DOMAIN old : old[path] \in values
      /\ \A path \in DOMAIN content : content[path] \in values
  BY PartialIs
<1>2. /\ DOMAIN new = DOMAIN old \cup DOMAIN content
      /\ new \in [DOMAIN old \cup DOMAIN content -> values]
  BY <1>1 DEF AddByPath
<1> HIDE DEF new
<1>3. DOMAIN new \subseteq names /\ new \in [DOMAIN new -> values]
  BY <1>1, <1>2
<1>4. new \in Partial(names, values)
  BY <1>3, PartialIs
<1> QED BY <1>4 DEF new

\* A function with one more entry.
LEMMA WithDomain ==
  ASSUME NEW f, NEW x, NEW v
  PROVE  DOMAIN With(f, x, v) = DOMAIN f \cup {x}
BY DEF With

LEMMA WithIs ==
  ASSUME NEW f, NEW x, NEW v
  PROVE  /\ With(f, x, v)[x] = v
         /\ \A y \in DOMAIN f : y # x => With(f, x, v)[y] = f[y]
BY DEF With

LEMMA WithPartial ==
  ASSUME NEW names, NEW values, NEW f \in Partial(names, values),
         NEW x \in names, NEW v \in values
  PROVE  With(f, x, v) \in Partial(names, values)
<1> DEFINE g == With(f, x, v)
<1>1. DOMAIN f \subseteq names /\ \A y \in DOMAIN f : f[y] \in values
  BY PartialIs
<1>2. DOMAIN g = DOMAIN f \cup {x} /\ g \in [DOMAIN f \cup {x} -> values]
  BY <1>1 DEF With
<1> HIDE DEF g
<1>3. DOMAIN g \subseteq names /\ g \in [DOMAIN g -> values]
  BY <1>1, <1>2
<1>4. g \in Partial(names, values)
  BY <1>3, PartialIs
<1> QED BY <1>4 DEF g

\* A tree that differs from another differs from any third one or that does.
LEMMA DifferingTriangle ==
  ASSUME NEW a, NEW b, NEW c
  PROVE  Differing(a, c) \subseteq Differing(a, b) \cup Differing(b, c)
BY DEF Differing

\* Files staged into a tree change it at those files only.
LEMMA AddByPathDiffers ==
  ASSUME NEW old, NEW files, NEW content, DOMAIN content = files
  PROVE  Differing(old, AddByPath(old, content)) \subseteq files
<1>1. /\ DOMAIN AddByPath(old, content) = DOMAIN old \cup files
      /\ \A path \in DOMAIN old \ files : AddByPath(old, content)[path] = old[path]
  BY DEF AddByPath
<1> QED BY <1>1 DEF Differing

\* What the working tree holds at some paths is a tree.
LEMMA ContentsAreTrees ==
  ASSUME NEW files \in SUBSET Paths, NEW content \in Contents(files)
  PROVE  content \in Trees /\ DOMAIN content = files
<1>1. content \in [files -> AllEntries]
  BY DEF Contents
<1> QED BY <1>1, PartialIs DEF Trees

-------------------------------------------------------------------------------
(* Type correctness.                                                        *)

LEMMA EmptyIsTyped ==
  /\ NoEntries \in Trees
  /\ EmptyRepository \in Repositories /\ IsRepository(EmptyRepository)
  /\ HeadCommit(EmptyRepository) = NoCommit
<1>1. \A names, values, f : DOMAIN f = {} => (f \in Partial(names, values) <=> f \in [{} -> values])
  BY PartialIs
<1>2. NoEntries \in Trees
  BY <1>1 DEF NoEntries, Trees
<1>3. /\ [id \in {} |-> [tree |-> NoEntries, parents |-> {}]]
           \in Partial(CommitIds, [tree : Trees, parents : SUBSET CommitIds])
      /\ [name \in {} |-> NoCommit] \in Partial(BranchNames, CommitIds)
      /\ [name \in {} |-> NoCommit] \in Partial(TagNames, CommitIds)
  BY <1>1
<1>4. "main" \in BranchNames
  BY GitContextAssumption
<1>5. EmptyRepository \in Repositories
  BY <1>3, <1>4 DEF EmptyRepository, Repositories
<1>6. "main" # Detached
  BY DEF Detached
<1>7. /\ EmptyRepository.head.branch = "main" /\ DOMAIN EmptyRepository.branches = {}
      /\ DOMAIN EmptyRepository.commits = {} /\ DOMAIN EmptyRepository.tags = {}
      /\ EmptyRepository.big = {}
  BY DEF EmptyRepository
<1>8. HeadCommit(EmptyRepository) = NoCommit
  BY <1>6, <1>7 DEF HeadCommit
<1>9. IsRepository(EmptyRepository)
  BY <1>6, <1>7 DEF IsRepository
<1> QED BY <1>2, <1>5, <1>8, <1>9

\* The parts of a well-typed repository.
LEMMA RepositoryParts ==
  ASSUME NEW repo \in Repositories
  PROVE  /\ repo.commits \in Partial(CommitIds, [tree : Trees, parents : SUBSET CommitIds])
         /\ repo.branches \in Partial(BranchNames, CommitIds)
         /\ repo.tags \in Partial(TagNames, CommitIds)
         /\ repo.head \in [branch : BranchNames \cup {Detached}, id : CommitIds \cup {NoCommit}]
         /\ repo.big \in SUBSET CommitIds
         /\ DOMAIN repo.commits \subseteq CommitIds
         /\ DOMAIN repo.branches \subseteq BranchNames
         /\ \A id \in DOMAIN repo.commits :
              repo.commits[id] \in [tree : Trees, parents : SUBSET CommitIds]
<1>1. /\ repo.commits \in Partial(CommitIds, [tree : Trees, parents : SUBSET CommitIds])
      /\ repo.branches \in Partial(BranchNames, CommitIds)
  BY DEF Repositories
<1>2. /\ DOMAIN repo.commits \subseteq CommitIds
      /\ repo.commits \in [DOMAIN repo.commits -> [tree : Trees, parents : SUBSET CommitIds]]
  BY <1>1, PartialIs
<1>3. DOMAIN repo.branches \subseteq BranchNames
  BY <1>1, PartialIs
<1>4. \A id \in DOMAIN repo.commits :
        repo.commits[id] \in [tree : Trees, parents : SUBSET CommitIds]
  BY <1>2
<1>5. /\ repo.tags \in Partial(TagNames, CommitIds)
      /\ repo.head \in [branch : BranchNames \cup {Detached}, id : CommitIds \cup {NoCommit}]
      /\ repo.big \in SUBSET CommitIds
  BY DEF Repositories
<1> QED BY <1>1, <1>2, <1>3, <1>4, <1>5

LEMMA TypeInit == Init => TypeOK
<1> SUFFICES ASSUME Init PROVE TypeOK
  OBVIOUS
<1>1. NoDeltas \in [{} -> Statuses]
  BY DEF NoDeltas
<1>2. 0 \in 0 .. MaxMoves
  BY GitContextAssumption
<1> QED BY <1>1, <1>2, EmptyIsTyped DEF Init, TypeOK, Revisions

\* HEAD's commit is one of the repository, or there is none.
LEMMA HeadTreeType ==
  ASSUME TypeOK
  PROVE  HeadTree \in Trees
<1>1. HeadCommit(git) # NoCommit => HeadCommit(git) \in DOMAIN git.commits
  BY HeadCommitType DEF TypeOK
<1>2. \A id \in DOMAIN git.commits : git.commits[id].tree \in Trees
  BY RepositoryParts DEF TypeOK
<1> QED BY <1>1, <1>2, EmptyIsTyped DEF HeadTree, Tree

\* A reference that moves to a commit leaves a repository that is well typed.
LEMMA BranchMoves ==
  ASSUME NEW repo \in Repositories, IsRepository(repo),
         NEW name \in BranchNames, NEW id \in DOMAIN repo.commits
  PROVE  LET moved == [repo EXCEPT !.branches = With(@, name, id)] IN
           moved \in Repositories /\ IsRepository(moved)
<1> DEFINE moved == [repo EXCEPT !.branches = With(@, name, id)]
<1>1. id \in CommitIds
  BY RepositoryParts
<1>2. /\ moved.branches = With(repo.branches, name, id)
      /\ moved.commits = repo.commits /\ moved.tags = repo.tags
      /\ moved.head = repo.head /\ moved.big = repo.big
      /\ moved = [commits |-> moved.commits, branches |-> moved.branches, tags |-> moved.tags,
                  head |-> moved.head, big |-> moved.big]
  BY DEF Repositories
<1> HIDE DEF moved
<1>3. moved.branches \in Partial(BranchNames, CommitIds)
  BY <1>1, <1>2, RepositoryParts, WithPartial
<1>4. moved \in Repositories
  BY <1>2, <1>3, RepositoryParts DEF Repositories
<1>5. \A n \in DOMAIN moved.branches : moved.branches[n] \in DOMAIN moved.commits
  <2>1. /\ With(repo.branches, name, id)[name] = id
        /\ \A n \in DOMAIN repo.branches :
             n # name => With(repo.branches, name, id)[n] = repo.branches[n]
    BY WithIs
  <2>2. DOMAIN With(repo.branches, name, id) = DOMAIN repo.branches \cup {name}
    BY WithDomain
  <2> QED BY <1>2, <2>1, <2>2 DEF IsRepository
<1>6. IsRepository(moved)
  BY <1>2, <1>5 DEF IsRepository
<1> QED BY <1>4, <1>6 DEF moved

\* A new commit has the tree of the index, and HEAD is on it.
LEMMA CreateHeadMakes ==
  ASSUME TypeOK, CreateHead
  PROVE  \E id \in CommitIds \ DOMAIN git.commits :
           /\ git' \in Repositories /\ IsRepository(git')
           /\ HeadCommit(git') = id
           /\ DOMAIN git'.commits = DOMAIN git.commits \cup {id}
           /\ git'.commits[id].tree = index
<1> DEFINE id == CHOOSE id \in CommitIds \ DOMAIN git.commits : TRUE
           commit == [tree |-> index, parents |-> {HeadCommit(git)} \ {NoCommit}]
<1>1. id \in CommitIds /\ id \notin DOMAIN git.commits
  BY RepositoryParts DEF CreateHead, Builds, TypeOK
<1>2. PICK big \in {{}, {id}} :
        git' = Moves([git EXCEPT !.commits = With(@, id, commit), !.big = @ \cup big], id)
  BY DEF CreateHead
<1>3. commit \in [tree : Trees, parents : SUBSET CommitIds] /\ commit.tree = index
      /\ commit.parents \subseteq DOMAIN git.commits
  BY HeadCommitType, RepositoryParts DEF TypeOK
<1> HIDE DEF id, commit
<1> DEFINE grown == [git EXCEPT !.commits = With(@, id, commit), !.big = @ \cup big]
<1>4. /\ grown.commits = With(git.commits, id, commit) /\ grown.big = git.big \cup big
      /\ grown.branches = git.branches /\ grown.tags = git.tags /\ grown.head = git.head
      /\ grown \in Repositories
  <2>1. git \in Repositories
    BY DEF TypeOK
  <2>2. /\ grown.commits = With(git.commits, id, commit) /\ grown.big = git.big \cup big
        /\ grown.branches = git.branches /\ grown.tags = git.tags /\ grown.head = git.head
    BY <2>1 DEF Repositories
  <2>3. With(git.commits, id, commit) \in Partial(CommitIds, [tree : Trees, parents : SUBSET CommitIds])
    <3>1. git.commits \in Partial(CommitIds, [tree : Trees, parents : SUBSET CommitIds])
      BY <2>1, RepositoryParts
    <3> QED BY <1>1, <1>3, <3>1, WithPartial
  <2>4. git.big \cup big \in SUBSET CommitIds
    BY <2>1, <1>1, RepositoryParts
  <2>5. grown \in Repositories
    BY <2>1, <2>3, <2>4 DEF Repositories
  <2> QED BY <2>2, <2>5
<1> HIDE DEF grown
<1>5. /\ DOMAIN grown.commits = DOMAIN git.commits \cup {id}
      /\ grown.commits[id] = commit
      /\ \A i \in DOMAIN git.commits : grown.commits[i] = git.commits[i]
  <2>1. /\ With(git.commits, id, commit)[id] = commit
        /\ \A i \in DOMAIN git.commits : i # id => With(git.commits, id, commit)[i] = git.commits[i]
    BY WithIs
  <2>2. DOMAIN With(git.commits, id, commit) = DOMAIN git.commits \cup {id}
    BY WithDomain
  <2> QED BY <1>1, <1>4, <2>1, <2>2
<1>6. grown \in Repositories
  BY <1>4
<1>7. IsRepository(grown)
  <2>1. \A i \in DOMAIN grown.commits : grown.commits[i].parents \subseteq DOMAIN grown.commits
    BY <1>3, <1>5 DEF TypeOK, IsRepository
  <2>2. grown.big \subseteq DOMAIN grown.commits
    BY <1>4, <1>5 DEF TypeOK, IsRepository
  <2> QED BY <2>1, <2>2, <1>4, <1>5 DEF TypeOK, IsRepository
<1>8. git' = Moves(grown, id) /\ id \in DOMAIN grown.commits
  BY <1>2, <1>5 DEF grown
<1>9. CASE grown.head.branch = Detached
  <2>1. git' = [grown EXCEPT !.head.id = id]
    BY <1>8, <1>9 DEF Moves
  <2>2. /\ git'.commits = grown.commits /\ git'.branches = grown.branches
        /\ git'.tags = grown.tags /\ git'.big = grown.big
        /\ git'.head = [branch |-> Detached, id |-> id]
        /\ git' = [commits |-> git'.commits, branches |-> git'.branches, tags |-> git'.tags,
                   head |-> git'.head, big |-> git'.big]
    BY <2>1, <1>4, <1>6, <1>9 DEF Repositories
  <2>3. git'.head \in [branch : BranchNames \cup {Detached}, id : CommitIds \cup {NoCommit}]
    BY <2>2, <1>1
  <2>4. git' \in Repositories
    BY <2>2, <2>3, <1>6, RepositoryParts DEF Repositories
  <2>5. IsRepository(git')
    BY <2>2, <1>7, <1>8 DEF IsRepository
  <2>6. HeadCommit(git') = id
    BY <2>2 DEF HeadCommit
  <2> QED BY <2>2, <2>4, <2>5, <2>6, <1>1, <1>3, <1>5
<1>10. CASE grown.head.branch # Detached
  <2>1. git' = [grown EXCEPT !.branches = With(@, grown.head.branch, id)]
    BY <1>8, <1>10 DEF Moves
  <2>2. grown.head.branch \in BranchNames
    BY <1>6, <1>10, RepositoryParts
  <2>3. git' \in Repositories /\ IsRepository(git')
    BY <2>1, <2>2, <1>6, <1>7, <1>8, BranchMoves
  <2>4. /\ git'.commits = grown.commits /\ git'.head = grown.head
        /\ git'.branches = With(grown.branches, grown.head.branch, id)
    BY <2>1, <1>6 DEF Repositories
  <2>5. HeadCommit(git') = id
    <3>1. With(grown.branches, grown.head.branch, id)[grown.head.branch] = id
      BY WithIs
    <3>2. DOMAIN With(grown.branches, grown.head.branch, id) = DOMAIN grown.branches \cup {grown.head.branch}
      BY WithDomain
    <3>3. git'.branches[git'.head.branch] = id
      BY <2>4, <3>1
    <3>4. git'.head.branch \in DOMAIN git'.branches
      BY <2>4, <3>2
    <3>5. git'.head.branch # Detached
      BY <2>4, <1>10
    <3> QED BY <3>3, <3>4, <3>5 DEF HeadCommit
  <2> QED BY <2>3, <2>4, <2>5, <1>1, <1>3, <1>5
<1> QED BY <1>9, <1>10

-------------------------------------------------------------------------------
(* The inductive invariant holds initially, and each action preserves it.   *)

LEMMA InvInit == Init => IInv
<1> SUFFICES ASSUME Init PROVE IInv
  OBVIOUS
<1>1. TypeOK
  BY TypeInit
<1>2. HeadTree = NoEntries /\ index = NoEntries
  BY EmptyIsTyped DEF Init, HeadTree
<1>3. IndexTouched
  BY <1>2 DEF IndexTouched, Differing
<1>4. stage = "build" /\ DOMAIN git.commits = {}
  BY DEF Init, EmptyRepository
<1> QED BY <1>1, <1>3, <1>4 DEF IInv, Unborn, TakenFromDiff, Filled, HeadChecked

\* A call on the index: what it stages it touches.
LEMMA IndexStep ==
  ASSUME IInv, Builds, git' = git, index' \in Trees, disk' \in Trees, staged' \in BOOLEAN,
         touched' \subseteq Paths, touched \cup Differing(index, index') \subseteq touched'
  PROVE  IInv'
<1>1. TypeOK'
  BY DEF IInv, TypeOK, Builds, runVars
<1>2. stage = "build" /\ stage' = "build"
  BY DEF Builds, runVars
<1>3. HeadTree' = HeadTree
  BY DEF HeadTree, Tree
<1>4. Differing(HeadTree, index') \subseteq Differing(HeadTree, index) \cup Differing(index, index')
  BY DifferingTriangle
<1>5. IndexTouched'
  BY <1>2, <1>3, <1>4 DEF IInv, IndexTouched
<1>6. Unborn'
  BY <1>2 DEF IInv, Unborn
<1> QED BY <1>1, <1>2, <1>5, <1>6 DEF IInv, TakenFromDiff, Filled, HeadChecked

LEMMA StageSteps ==
  ASSUME IInv, Stages
  PROVE  IInv'
<1> USE DEF IInv
<1>0. index \in Trees /\ disk \in Trees /\ touched \subseteq Paths
  BY DEF TypeOK
<1>1. ASSUME NEW files \in SUBSET Paths, AddFiles(files) \/ AddFilesThrows(files) PROVE IInv'
  <2>1. PICK content \in Contents(files) : index' = AddByPath(index, content)
    BY <1>1 DEF AddFiles, AddFilesThrows
  <2>2. content \in Trees /\ DOMAIN content = files
    BY ContentsAreTrees
  <2>3. index' \in Trees
    BY <1>0, <2>1, <2>2, AddByPathPartial DEF Trees
  <2>4. Differing(index, index') \subseteq files
    BY <2>1, <2>2, AddByPathDiffers
  <2>5. Builds /\ git' = git /\ disk' = disk /\ staged' \in BOOLEAN /\ touched' = touched \cup files
    BY <1>1 DEF AddFiles, AddFilesThrows
  <2> QED BY <1>0, <2>3, <2>4, <2>5, IndexStep
<1>2. ASSUME NEW files \in SUBSET Paths, RemoveFiles(files) \/ RemoveFilesThrows(files)
      PROVE  IInv'
  <2>1. index' = [path \in DOMAIN index \ files |-> index[path]]
    BY <1>2 DEF RemoveFiles, RemoveFilesThrows, RemoveByPath
  <2>2. DOMAIN index \subseteq Paths /\ index \in [DOMAIN index -> AllEntries]
    BY <1>0, PartialIs DEF Trees
  <2>3. DOMAIN index' = DOMAIN index \ files /\ index' \in [DOMAIN index \ files -> AllEntries]
    BY <2>1, <2>2
  <2>4. DOMAIN index' \subseteq Paths /\ index' \in [DOMAIN index' -> AllEntries]
    BY <2>2, <2>3
  <2>5. index' \in Trees
    BY <2>4, PartialIs DEF Trees
  <2>6. Differing(index, index') \subseteq files
    BY <2>1 DEF Differing
  <2>7. Builds /\ git' = git /\ disk' = disk /\ staged' \in BOOLEAN /\ touched' = touched \cup files
    BY <1>2 DEF RemoveFiles, RemoveFilesThrows
  <2> QED BY <1>0, <2>5, <2>6, <2>7, IndexStep
<1>3. CASE WriteIndex
  <2>1. Builds /\ disk' = index /\ UNCHANGED <<git, index, staged, touched>>
    BY <1>3 DEF WriteIndex
  <2>2. Differing(index, index') = {}
    BY <2>1 DEF Differing
  <2> QED BY <1>0, <2>1, <2>2, IndexStep DEF TypeOK
<1>4. CASE Reopen
  <2>1. /\ Builds /\ index' = disk /\ staged' = FALSE /\ UNCHANGED <<git, disk>>
        /\ touched' = touched \cup Differing(index, disk)
    BY <1>4 DEF Reopen
  <2>2. DOMAIN index \subseteq Paths /\ DOMAIN disk \subseteq Paths
    BY <1>0, PartialIs DEF Trees
  <2>3. Differing(index, disk) \subseteq Paths
    BY <2>2 DEF Differing
  <2> QED BY <1>0, <2>1, <2>3, IndexStep
<1>5. CASE CreateHead
  <2>1. PICK id \in CommitIds \ DOMAIN git.commits :
          /\ git' \in Repositories /\ IsRepository(git')
          /\ HeadCommit(git') = id
          /\ DOMAIN git'.commits = DOMAIN git.commits \cup {id}
          /\ git'.commits[id].tree = index
    BY <1>5, CreateHeadMakes
  <2>2. /\ stage = "build" /\ touched' = {} /\ UNCHANGED <<index, disk, staged, moves, runVars>>
    BY <1>5 DEF CreateHead, Builds
  <2>3. TypeOK'
    BY <2>1, <2>2 DEF TypeOK, runVars
  <2>4. HeadTree' = index'
    BY <2>1, <2>2, GitContextAssumption DEF HeadTree, Tree
  <2>5. IndexTouched'
    BY <2>4 DEF IndexTouched, Differing
  <2>6. Unborn'
    BY <2>1, GitContextAssumption DEF Unborn
  <2> QED BY <2>2, <2>3, <2>5, <2>6 DEF TakenFromDiff, Filled, HeadChecked, runVars
<1> QED BY <1>1, <1>2, <1>3, <1>4, <1>5 DEF Stages

\* A call on the references that leaves HEAD's commit, the commits and the index alone.
LEMMA ReferenceStep ==
  ASSUME IInv, MovesReference, UNCHANGED indexVars,
         git' \in Repositories, IsRepository(git'),
         HeadCommit(git') = HeadCommit(git), git'.commits = git.commits
  PROVE  IInv'
<1>1. TypeOK'
  BY GitContextAssumption DEF IInv, TypeOK, MovesReference, runVars, indexVars
<1>2. stage = "build" /\ stage' = "build" /\ UNCHANGED <<index, touched>>
  BY DEF MovesReference, runVars, indexVars
<1>3. HeadTree' = HeadTree
  BY DEF HeadTree, Tree
<1>4. IndexTouched' /\ Unborn'
  BY <1>2, <1>3 DEF IInv, IndexTouched, Unborn
<1> QED BY <1>1, <1>2, <1>4 DEF IInv, TakenFromDiff, Filled, HeadChecked

\* A branch made where HEAD is on none: HEAD is on the commit then, and everything
\* was touched before.
LEMMA BornStep ==
  ASSUME IInv, MovesReference, UNCHANGED indexVars, HeadCommit(git) = NoCommit,
         git' \in Repositories, IsRepository(git'), git'.commits = git.commits,
         HeadCommit(git') \in DOMAIN git.commits
  PROVE  IInv'
<1>1. TypeOK'
  BY GitContextAssumption DEF IInv, TypeOK, MovesReference, runVars, indexVars
<1>2. stage = "build" /\ stage' = "build" /\ UNCHANGED <<index, touched>>
  BY DEF MovesReference, runVars, indexVars
<1>3. touched' = Paths
  BY <1>2 DEF IInv, Unborn
<1>4. HeadCommit(git') # NoCommit
  BY RepositoryParts, GitContextAssumption DEF IInv, TypeOK
<1>5. DOMAIN index' \subseteq Paths /\ DOMAIN HeadTree' \subseteq Paths
  <2>1. index' \in Trees
    BY <1>1 DEF TypeOK
  <2>2. HeadTree' \in Trees
    <3>1. HeadTree' = git.commits[HeadCommit(git')].tree
      BY <1>4 DEF HeadTree, Tree
    <3> QED BY <3>1, RepositoryParts DEF IInv, TypeOK
  <2> QED BY <2>1, <2>2, PartialIs DEF Trees
<1>6. IndexTouched'
  BY <1>3, <1>5 DEF IndexTouched, Differing
<1>7. Unborn'
  BY <1>4 DEF Unborn
<1> QED BY <1>1, <1>2, <1>6, <1>7 DEF IInv, TakenFromDiff, Filled, HeadChecked

\* Where HEAD is: on a branch that is born, on a commit, or on none.
LEMMA HeadStays ==
  ASSUME NEW old, NEW new, new.head = old.head, new.commits = old.commits,
         old.head.branch # Detached =>
           /\ old.head.branch \in DOMAIN new.branches <=> old.head.branch \in DOMAIN old.branches
           /\ old.head.branch \in DOMAIN old.branches =>
                new.branches[old.head.branch] = old.branches[old.head.branch]
  PROVE  HeadCommit(new) = HeadCommit(old)
BY DEF HeadCommit

LEMMA BranchCreateStep ==
  ASSUME IInv, NEW name \in BranchNames, NEW force \in BOOLEAN, BranchCreate(name, force)
  PROVE  IInv'
<1>1. PICK id \in DOMAIN git.commits : git' = [git EXCEPT !.branches = With(@, name, id)]
  BY DEF BranchCreate
<1>2. git \in Repositories /\ IsRepository(git)
  BY DEF IInv, TypeOK
<1>3. git' \in Repositories /\ IsRepository(git')
  BY <1>1, <1>2, BranchMoves
<1>4. /\ git'.commits = git.commits /\ git'.head = git.head
      /\ git'.branches = With(git.branches, name, id)
  BY <1>1, <1>2 DEF Repositories
<1>5. DOMAIN With(git.branches, name, id) = DOMAIN git.branches \cup {name}
  BY WithDomain
<1>6. /\ DOMAIN git'.branches = DOMAIN git.branches \cup {name}
      /\ git'.branches[name] = id
      /\ \A b \in DOMAIN git.branches : b # name => git'.branches[b] = git.branches[b]
  BY <1>4, <1>5, WithIs
<1>7. CASE git.head.branch # Detached => name # git.head.branch
  <2>1. git.head.branch # Detached =>
          /\ git.head.branch \in DOMAIN git'.branches <=> git.head.branch \in DOMAIN git.branches
          /\ git.head.branch \in DOMAIN git.branches =>
               git'.branches[git.head.branch] = git.branches[git.head.branch]
    BY <1>6, <1>7
  <2>2. HeadCommit(git') = HeadCommit(git)
    BY <1>4, <2>1, HeadStays
  <2> QED BY <1>3, <1>4, <2>2, ReferenceStep DEF BranchCreate
<1>8. CASE git.head.branch # Detached /\ name = git.head.branch
  <2>1. name \notin DOMAIN git.branches
    BY <1>8 DEF BranchCreate
  <2>2. HeadCommit(git) = NoCommit /\ HeadCommit(git') = id
    BY <1>4, <1>6, <1>8, <2>1 DEF HeadCommit
  <2> QED BY <1>3, <1>4, <2>2, BornStep DEF BranchCreate
<1> QED BY <1>7, <1>8

LEMMA BranchDelStep ==
  ASSUME IInv, NEW name \in BranchNames, BranchDel(name)
  PROVE  IInv'
<1> DEFINE left == [b \in DOMAIN git.branches \ {name} |-> git.branches[b]]
<1>1. git' = [git EXCEPT !.branches = left] /\ git.head.branch # name
  BY DEF BranchDel
<1>2. git \in Repositories /\ IsRepository(git)
  BY DEF IInv, TypeOK
<1>3. DOMAIN git.branches \subseteq BranchNames /\ git.branches \in [DOMAIN git.branches -> CommitIds]
  BY <1>2, RepositoryParts, PartialIs
<1>4. DOMAIN left = DOMAIN git.branches \ {name} /\ left \in [DOMAIN git.branches \ {name} -> CommitIds]
  BY <1>3
<1>5. \A b \in DOMAIN left : left[b] = git.branches[b]
  OBVIOUS
<1> HIDE DEF left
<1>6. left \in Partial(BranchNames, CommitIds)
  <2>1. DOMAIN left \subseteq BranchNames /\ left \in [DOMAIN left -> CommitIds]
    BY <1>3, <1>4
  <2> QED BY <2>1, PartialIs
<1>7. git' \in Repositories
  BY <1>1, <1>2, <1>6 DEF Repositories
<1>8. /\ git'.commits = git.commits /\ git'.head = git.head /\ git'.branches = left
      /\ git'.tags = git.tags /\ git'.big = git.big
  BY <1>1, <1>2 DEF Repositories
<1>9. IsRepository(git')
  BY <1>2, <1>4, <1>5, <1>8 DEF IsRepository
<1>10. git.head.branch # Detached =>
         /\ git.head.branch \in DOMAIN git'.branches <=> git.head.branch \in DOMAIN git.branches
         /\ git.head.branch \in DOMAIN git.branches =>
              git'.branches[git.head.branch] = git.branches[git.head.branch]
  BY <1>1, <1>4, <1>5, <1>8
<1>11. HeadCommit(git') = HeadCommit(git)
  BY <1>8, <1>10, HeadStays
<1> QED BY <1>7, <1>8, <1>9, <1>11, ReferenceStep DEF BranchDel

LEMMA TagCreateStep ==
  ASSUME IInv, NEW name \in TagNames, TagCreate(name)
  PROVE  IInv'
<1>1. PICK id \in DOMAIN git.commits : git' = [git EXCEPT !.tags = With(@, name, id)]
  BY DEF TagCreate
<1>2. git \in Repositories /\ IsRepository(git) /\ id \in CommitIds
  BY RepositoryParts DEF IInv, TypeOK
<1>3. With(git.tags, name, id) \in Partial(TagNames, CommitIds)
  BY <1>2, RepositoryParts, WithPartial
<1>4. git' \in Repositories
  BY <1>1, <1>2, <1>3 DEF Repositories
<1>5. /\ git'.commits = git.commits /\ git'.head = git.head /\ git'.branches = git.branches
      /\ git'.tags = With(git.tags, name, id) /\ git'.big = git.big
  BY <1>1, <1>2 DEF Repositories
<1>6. IsRepository(git')
  <2>0. DOMAIN With(git.tags, name, id) = DOMAIN git.tags \cup {name}
    BY WithDomain
  <2>1. DOMAIN git'.tags = DOMAIN git.tags \cup {name}
    BY <1>5, <2>0
  <2>2. git'.tags[name] = id /\ \A n \in DOMAIN git.tags : n # name => git'.tags[n] = git.tags[n]
    BY <1>5, WithIs
  <2> QED BY <1>2, <1>5, <2>1, <2>2 DEF IsRepository
<1>7. HeadCommit(git') = HeadCommit(git)
  BY <1>5, HeadStays
<1> QED BY <1>4, <1>5, <1>6, <1>7, ReferenceStep DEF TagCreate

LEMMA CheckoutStep ==
  ASSUME IInv, Checkout
  PROVE  IInv'
<1>1. PICK head \in [branch : DOMAIN git.branches, id : {NoCommit}]
                      \cup [branch : {Detached}, id : DOMAIN git.commits] :
        git' = [git EXCEPT !.head = head]
  BY DEF Checkout
<1>2. git \in Repositories /\ IsRepository(git)
  BY DEF IInv, TypeOK
<1>3. DOMAIN git.branches \subseteq BranchNames /\ DOMAIN git.commits \subseteq CommitIds
  BY <1>2, RepositoryParts
<1>4. /\ head \in [branch : BranchNames \cup {Detached}, id : CommitIds \cup {NoCommit}]
      /\ head.branch = Detached => head.id \in DOMAIN git.commits
      /\ head.branch # Detached => head.branch \in DOMAIN git.branches
  BY <1>1, <1>3, GitContextAssumption
<1>5. git' \in Repositories
  BY <1>1, <1>2, <1>4 DEF Repositories
<1>6. /\ git'.commits = git.commits /\ git'.head = head /\ git'.branches = git.branches
      /\ git'.tags = git.tags /\ git'.big = git.big
  BY <1>1, <1>2 DEF Repositories
<1>7. IsRepository(git')
  BY <1>2, <1>4, <1>6 DEF IsRepository
<1>8. HeadCommit(git') \in DOMAIN git.commits
  BY <1>2, <1>4, <1>6 DEF HeadCommit, IsRepository
<1>9. /\ stage = "build" /\ UNCHANGED runVars /\ moves' \in 0 .. MaxMoves
      /\ index' = git.commits[HeadCommit(git')].tree /\ disk' = index'
      /\ staged' = FALSE /\ touched' = {}
  BY GitContextAssumption DEF Checkout, MovesReference, IInv, TypeOK
<1>10. index' \in Trees
  BY <1>2, <1>8, <1>9, RepositoryParts
<1>11. TypeOK'
  BY <1>5, <1>7, <1>9, <1>10 DEF IInv, TypeOK, runVars
<1>12. HeadCommit(git') # NoCommit
  BY <1>3, <1>8, GitContextAssumption
<1>13. HeadTree' = index'
  BY <1>6, <1>9, <1>12 DEF HeadTree, Tree
<1>14. IndexTouched'
  BY <1>13 DEF IndexTouched, Differing
<1>15. Unborn'
  BY <1>12 DEF Unborn
<1> QED BY <1>9, <1>11, <1>14, <1>15 DEF IInv, TakenFromDiff, Filled, HeadChecked, runVars

LEMMA CheckoutOrphanStep ==
  ASSUME IInv, NEW name \in BranchNames, CheckoutOrphan(name)
  PROVE  IInv'
<1>1. /\ git' = [git EXCEPT !.head = [branch |-> name, id |-> NoCommit]]
      /\ name \notin DOMAIN git.branches
      /\ stage = "build" /\ UNCHANGED <<runVars, index, disk, staged>> /\ touched' = Paths
      /\ moves' \in 0 .. MaxMoves
  BY GitContextAssumption DEF CheckoutOrphan, MovesReference, IInv, TypeOK
<1>2. git \in Repositories /\ IsRepository(git)
  BY DEF IInv, TypeOK
<1>3. git' \in Repositories
  BY <1>1, <1>2 DEF Repositories
<1>4. /\ git'.commits = git.commits /\ git'.branches = git.branches
      /\ git'.head = [branch |-> name, id |-> NoCommit]
      /\ git'.tags = git.tags /\ git'.big = git.big
  BY <1>1, <1>2 DEF Repositories
<1>5. name # Detached
  BY GitContextAssumption
<1>6. IsRepository(git')
  BY <1>2, <1>4, <1>5 DEF IsRepository
<1>7. TypeOK'
  BY <1>1, <1>3, <1>6 DEF IInv, TypeOK, runVars
<1>8. DOMAIN index' \subseteq Paths /\ DOMAIN HeadTree' \subseteq Paths
  <2>1. HeadTree' = NoEntries
    BY <1>1, <1>4, <1>5 DEF HeadTree, HeadCommit
  <2>2. index' \in Trees
    BY <1>7 DEF TypeOK
  <2> QED BY <2>1, <2>2, EmptyIsTyped, PartialIs DEF Trees
<1>9. IndexTouched'
  BY <1>1, <1>8 DEF IndexTouched, Differing
<1>10. Unborn'
  BY <1>1 DEF Unborn
<1> QED BY <1>1, <1>7, <1>9, <1>10 DEF IInv, TakenFromDiff, Filled, HeadChecked, runVars

\* The steps of a run keep the repository, and what it learns comes from the diff.
LEMMA RunSteps ==
  ASSUME IInv, Runs
  PROVE  IInv'
<1> USE DEF IInv
<1>1. CASE StartRun
  <2>1. /\ stage' = "start" /\ target' \in Targets /\ source' \in CommitIds \cup {Unknown}
        /\ index' = NoEntries /\ disk' = NoEntries /\ staged' = FALSE /\ touched' = {}
        /\ UNCHANGED <<git, moves, deltas, patches, changed>>
    BY <1>1 DEF StartRun
  <2>2. TypeOK'
    BY <2>1, EmptyIsTyped, GitContextAssumption DEF TypeOK, Revisions
  <2> QED BY <2>1, <2>2 DEF IndexTouched, Unborn, TakenFromDiff, Filled, HeadChecked
<1>2. CASE FillGitInfo
  <2>1. /\ IsCommit(git, target) /\ IsCommit(git, source)
        /\ patches' = Patches(RunDiff) /\ deltas' = Deltas(RunDiff)
        /\ changed' = ChangedFiles(patches') /\ stage' = "filled"
        /\ UNCHANGED <<git, index, disk, staged, touched, moves, target, source>>
    BY <1>2 DEF FillGitInfo, RunDiff, indexVars
  <2>2. RunDiff' = RunDiff
    BY <2>1 DEF RunDiff
  <2>3. TakenFromDiff'
    BY <2>1, <2>2 DEF TakenFromDiff
  <2>4. OldTree \in Trees /\ NewTree \in Trees
    BY <2>1, CommitType, RepositoryParts DEF TypeOK, OldTree, NewTree, Tree
  <2>5. Differing(OldTree, NewTree) \subseteq Paths
    <3>1. DOMAIN OldTree \subseteq Paths /\ DOMAIN NewTree \subseteq Paths
      BY <2>4, PartialIs DEF Trees
    <3> QED BY <3>1 DEF Differing
  <2>6. /\ DOMAIN deltas' = Differing(OldTree, NewTree)
        /\ DOMAIN patches' = Differing(OldTree, NewTree)
        /\ \A path \in Differing(OldTree, NewTree) :
             deltas'[path] \in Statuses /\ patches'[path] \in Statuses
    <3>1. RunDiff = TreeToTree(OldTree, NewTree)
      BY DEF RunDiff, CommitToCommit, OldTree, NewTree, Tree
    <3> QED BY <2>1, <3>1, DiffTellsTheTrees DEF Statuses
  <2>7. deltas' \in [changed' -> Statuses] /\ patches' \in [changed' -> Statuses]
    <3>1. /\ deltas' = [path \in DOMAIN deltas' |-> deltas'[path]]
          /\ patches' = [path \in DOMAIN patches' |-> patches'[path]]
      BY <2>1 DEF Deltas, Patches
    <3>2. changed' = Differing(OldTree, NewTree)
      BY <2>1, <2>6 DEF ChangedFiles
    <3> QED BY <2>6, <3>1, <3>2
  <2>8. changed' \subseteq Paths
    BY <2>1, <2>5, <2>6 DEF ChangedFiles
  <2>9. TypeOK'
    BY <2>1, <2>7, <2>8 DEF TypeOK
  <2> QED BY <2>1, <2>3, <2>9 DEF IndexTouched, Unborn, HeadChecked
<1>3. CASE NoSuchCommit \/ HeadElsewhere
  <2>1. /\ stage' = "aborted"
        /\ UNCHANGED <<git, index, disk, staged, touched, moves, target, source,
                       deltas, patches, changed>>
    BY <1>3 DEF NoSuchCommit, HeadElsewhere, indexVars
  <2>2. TypeOK'
    BY <2>1 DEF TypeOK
  <2> QED BY <2>1, <2>2 DEF IndexTouched, Unborn, TakenFromDiff, Filled, HeadChecked
<1>4. CASE HeadOnSource
  <2>1. /\ stage = "filled" /\ stage' = "on_source" /\ IsOnSource
        /\ UNCHANGED <<git, index, disk, staged, touched, moves, target, source,
                       deltas, patches, changed>>
    BY <1>4 DEF HeadOnSource, indexVars
  <2>2. TypeOK'
    BY <2>1 DEF TypeOK
  <2>3. TakenFromDiff'
    BY <2>1 DEF TakenFromDiff, Filled, RunDiff
  <2> QED BY <2>1, <2>2, <2>3 DEF IndexTouched, Unborn, HeadChecked, IsOnSource
<1> QED BY <1>1, <1>2, <1>3, <1>4 DEF Runs

LEMMA InvStep == IInv /\ [Next]_vars => IInv'
<1> SUFFICES ASSUME IInv, [Next]_vars PROVE IInv'
  OBVIOUS
<1>1. CASE Stages
  BY <1>1, StageSteps
<1>2. CASE References
  BY <1>2, BranchCreateStep, BranchDelStep, TagCreateStep, CheckoutStep, CheckoutOrphanStep
  DEF References
<1>3. CASE Runs
  BY <1>3, RunSteps
<1>4. CASE UNCHANGED vars
  BY <1>4 DEF vars, indexVars, runVars, IInv, TypeOK, IndexTouched, Unborn, HeadTree, Tree,
              TakenFromDiff, Filled, RunDiff, HeadChecked, IsOnSource
<1> QED BY <1>1, <1>2, <1>3, <1>4 DEF Next

\* The invariant holds in every reachable state.
THEOREM Invariance == Spec => []IInv
BY InvInit, InvStep, PTL DEF Spec

-------------------------------------------------------------------------------
(* What follows from it.                                                    *)

\* The repository, the index and what a run learns of them are well typed.
THEOREM TypeCorrect == Spec => []TypeOK
<1>1. IInv => TypeOK
  BY DEF IInv
<1> QED BY <1>1, Invariance, PTL

LEMMA RunDiffIs == RunDiff = TreeToTree(OldTree, NewTree)
BY DEF RunDiff, CommitToCommit, OldTree, NewTree, Tree

LEMMA DeltasTell == IInv => DeltasTellTheTrees
<1> SUFFICES ASSUME IInv, Filled PROVE DeltasTellTheTrees
  BY DEF DeltasTellTheTrees
<1>1. /\ deltas = Deltas(TreeToTree(OldTree, NewTree))
      /\ patches = Patches(TreeToTree(OldTree, NewTree))
      /\ changed = DOMAIN patches
  BY RunDiffIs DEF IInv, TakenFromDiff, ChangedFiles
<1>2. ChangedBetween(git, target, source) = DOMAIN deltas
  BY <1>1, RunDiffIs DEF ChangedBetween, RunDiff
<1> QED BY <1>1, <1>2, DiffTellsTheTrees DEF DeltasTellTheTrees

LEMMA PatchAgrees == IInv => PatchAgreesWithDelta
<1> SUFFICES ASSUME IInv, Filled PROVE PatchAgreesWithDelta
  BY DEF PatchAgreesWithDelta
<1>1. /\ deltas = Deltas(TreeToTree(OldTree, NewTree))
      /\ patches = Patches(TreeToTree(OldTree, NewTree))
      /\ changed = DOMAIN patches
  BY RunDiffIs DEF IInv, TakenFromDiff, ChangedFiles
<1> QED BY <1>1, DiffTellsTheTrees DEF PatchAgreesWithDelta, Retyped

LEMMA SourceIsRead == IInv => ReadsTheSource
<1> SUFFICES ASSUME IInv, stage = "on_source" PROVE ReadsTheSource
  BY DEF ReadsTheSource
<1>1. DeltasTellTheTrees /\ Filled
  BY DeltasTell DEF Filled
<1>2. HeadCommit(git) = Commit(git, source)
  BY DEF IInv, HeadChecked, IsOnSource, SameObject
<1>3. HeadCommit(git) # NoCommit
  <2>1. Commit(git, source) \in DOMAIN git.commits
    BY <1>1, CommitType DEF IInv, TypeOK, TakenFromDiff
  <2>2. DOMAIN git.commits \subseteq CommitIds
    BY RepositoryParts DEF IInv, TypeOK
  <2> QED BY <1>2, <2>1, <2>2, GitContextAssumption
<1>4. HeadTree = NewTree
  BY <1>2, <1>3 DEF HeadTree, NewTree, Tree
<1> QED BY <1>1, <1>4 DEF ReadsTheSource, DeltasTellTheTrees, Differing

\* The files of a run are those that differ between its two revisions, and it
\* takes for deleted exactly those that the source has no more.
THEOREM DeltasTellTheTreesAlways == Spec => []DeltasTellTheTrees
BY DeltasTell, Invariance, PTL

\* The patch and the delta of a file are of one kind, but for a file whose type has
\* changed.
THEOREM PatchAgreesAlways == Spec => []PatchAgreesWithDelta
BY PatchAgrees, Invariance, PTL

\* Past the check of HEAD, the working tree holds the changes of the source.
THEOREM SourceIsReadAlways == Spec => []ReadsTheSource
BY SourceIsRead, Invariance, PTL

LEMMA StagedStep ==
  ASSUME IInv, [Next]_vars
  PROVE  \A id \in DOMAIN git'.commits \ DOMAIN git.commits :
           Differing(HeadTree, git'.commits[id].tree) \subseteq touched
<1>1. CASE CreateHead
  <2>1. PICK new \in CommitIds \ DOMAIN git.commits :
          /\ DOMAIN git'.commits = DOMAIN git.commits \cup {new}
          /\ git'.commits[new].tree = index
    BY <1>1, CreateHeadMakes DEF IInv
  <2>2. stage = "build"
    BY <1>1 DEF CreateHead, Builds
  <2> QED BY <2>1, <2>2 DEF IInv, IndexTouched
<1>2. CASE ~CreateHead
  <2>1. git'.commits = git.commits
    BY <1>2 DEF IInv, TypeOK, Repositories, Next, Stages, References, Runs, vars,
      AddFiles, AddFilesThrows, RemoveFiles, RemoveFilesThrows, WriteIndex, Reopen,
      BranchCreate, BranchDel, TagCreate, Checkout, CheckoutOrphan,
      StartRun, FillGitInfo, NoSuchCommit, HeadOnSource, HeadElsewhere
  <2> QED BY <2>1
<1> QED BY <1>1, <1>2

\* A commit differs from the one before it only in what was staged since, or lost.
THEOREM CommitsOnlyStagedAlways == Spec => CommitsOnlyStaged
<1>1. IInv /\ [Next]_vars =>
        [\A id \in DOMAIN git'.commits \ DOMAIN git.commits :
           Differing(HeadTree, git'.commits[id].tree) \subseteq touched]_vars
  BY StagedStep
<1> QED BY <1>1, Invariance, PTL DEF Spec, CommitsOnlyStaged
===============================================================================
