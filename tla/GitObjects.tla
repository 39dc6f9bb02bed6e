------------------------------ MODULE GitObjects ------------------------------
(****************************************************************************)
(* What the program takes from a git repository: revisions, the check-out,  *)
(* and the difference of two commits with its deltas and patches.  These    *)
(* are operators on a repository, used by GitContext and by LintRun.        *)
(*                                                                          *)
(* A repository is a record: commits, from ids to a tree and the parents;   *)
(* branches and annotated tags, from names to ids of commits; head, which   *)
(* names a branch, or a commit when it is detached; and big, the commits    *)
(* that libgit2 does not keep in its cache of objects.  A tree is a         *)
(* function from paths to entries, of a mode and a text.                    *)
(****************************************************************************)
EXTENDS Naturals, SequencesExt, FiniteSets

NoCommit == "no commit"
Detached == "detached"

\* A function with one more entry, or another one at an old place.
With(entries, name, value) ==
  [n \in DOMAIN entries \cup {name} |-> IF n = name THEN value ELSE entries[n]]

NoEntries == [path \in {} |-> [mode |-> "blob", text |-> ""]]

EmptyRepository ==
  [commits |-> [id \in {} |-> [tree |-> NoEntries, parents |-> {}]],
   branches |-> [name \in {} |-> NoCommit], tags |-> [name \in {} |-> NoCommit],
   head |-> [branch |-> "main", id |-> NoCommit], big |-> {}]

IsRepository(git) ==
  /\ \A id \in DOMAIN git.commits : git.commits[id].parents \subseteq DOMAIN git.commits
  /\ \A name \in DOMAIN git.branches : git.branches[name] \in DOMAIN git.commits
  /\ \A name \in DOMAIN git.tags : git.tags[name] \in DOMAIN git.commits
  /\ git.head.branch = Detached => git.head.id \in DOMAIN git.commits
  /\ git.big \subseteq DOMAIN git.commits

\* repo::head and repo::head_commit: null when HEAD is on a branch not yet born.
HeadCommit(git) ==
  IF git.head.branch = Detached THEN git.head.id
  ELSE IF git.head.branch \in DOMAIN git.branches THEN git.branches[git.head.branch]
  ELSE NoCommit

\* revparse::single: an id, HEAD, a tag, a branch, in this order; it throws when
\* there is none.  An annotated tag is an object of its own, not its commit.
Single(git, spec) ==
  IF spec \in DOMAIN git.commits THEN [type |-> "commit", id |-> spec]
  ELSE IF spec = "HEAD" /\ HeadCommit(git) # NoCommit
         THEN [type |-> "commit", id |-> HeadCommit(git)]
  ELSE IF spec \in DOMAIN git.tags THEN [type |-> "tag", id |-> git.tags[spec]]
  ELSE IF spec \in DOMAIN git.branches THEN [type |-> "commit", id |-> git.branches[spec]]
  ELSE [type |-> "none", id |-> NoCommit]

\* revparse::commit converts the object: what is no commit throws.
IsCommit(git, spec) == Single(git, spec).type = "commit"
Commit(git, spec) == Single(git, spec).id

\* Two look-ups of a commit give the same pointer only if the first was cached.
SameObject(git, id1, id2) == id1 = id2 /\ id1 \notin git.big

-------------------------------------------------------------------------------
(* Differences.  A definition whose name ends in Slip is the one after it    *)
(* with a plausible mistake; no specification uses it.                       *)

\* What the diff says of a path, in its order.  A path whose entry changes its
\* mode is deleted and added: the options ask for no type changes.
DeltasOfPath(old, new, path) ==
  LET both == path \in DOMAIN old \cap DOMAIN new IN
  CASE path \in DOMAIN new \ DOMAIN old -> <<"added">>
    [] path \in DOMAIN old \ DOMAIN new -> <<"deleted">>
    [] both /\ old[path].mode # new[path].mode -> <<"deleted", "added">>
    [] both /\ old[path].mode = new[path].mode /\ old[path] # new[path] -> <<"modified">>
    [] OTHER -> <<>>

\* A diff: from the paths it names to the statuses of their deltas.
TreeToTree(old, new) ==
  LET named == {path \in DOMAIN old \cup DOMAIN new : DeltasOfPath(old, new, path) # <<>>} IN
  [path \in named |-> DeltasOfPath(old, new, path)]

\* The two commits swapped.
CommitToCommitSlip(git, commit1, commit2) ==
  TreeToTree(git.commits[commit2].tree, git.commits[commit1].tree)

CommitToCommit(git, commit1, commit2) ==
  TreeToTree(git.commits[commit1].tree, git.commits[commit2].tree)

\* The paths at which two trees differ.
Differing(old, new) ==
  {path \in DOMAIN old \cup DOMAIN new :
     path \in DOMAIN old \cap DOMAIN new => old[path] # new[path]}

NoDeltas == [path \in {} |-> "modified"]

\* The first delta of a path.
DeltasSlip(diff) == [path \in DOMAIN diff |-> Head(diff[path])]

\* res[path] = delta: the last delta of a path stays.
Deltas(diff) == [path \in DOMAIN diff |-> Last(diff[path])]

\* The last patch of a path.
PatchesSlip(diff) == [path \in DOMAIN diff |-> Last(diff[path])]

\* res.insert: the first patch of a path stays.  A patch is that of its delta.
Patches(diff) == [path \in DOMAIN diff |-> Head(diff[path])]

\* patch::changed_files.
ChangedFiles(patches) == DOMAIN patches

\* diff::changed_files of two revisions, which takes the deltas instead.
ChangedBetween(git, spec1, spec2) ==
  DOMAIN Deltas(CommitToCommit(git, Commit(git, spec1), Commit(git, spec2)))
===============================================================================
