--------------------------- MODULE GitObjectsProofs ---------------------------
(****************************************************************************)
(* What the operators on a repository and on a diff give, for every         *)
(* repository and every two trees.                                          *)
(****************************************************************************)
EXTENDS GitObjects, TLAPS

\* Every delta of a path: one for an added, deleted or modified path, two for one
\* that changed its type, none for one that is the same on both sides.
LEMMA DeltasOfPathCases ==
  ASSUME NEW old, NEW new, NEW path
  PROVE  LET statuses == DeltasOfPath(old, new, path) IN
           /\ statuses # <<>> <=> path \in Differing(old, new)
           /\ statuses # <<>> =>
                /\ Head(statuses) \in {"added", "modified", "deleted"}
                /\ Last(statuses) \in {"added", "modified", "deleted"}
                /\ Last(statuses) = "deleted" <=> path \notin DOMAIN new
                /\ IF /\ path \in DOMAIN old \cap DOMAIN new
                      /\ old[path].mode # new[path].mode
                     THEN Head(statuses) = "deleted" /\ Last(statuses) = "added"
                     ELSE Head(statuses) = Last(statuses)
<1> DEFINE statuses == DeltasOfPath(old, new, path)
<1>1. \A status : Head(<<status>>) = status /\ Last(<<status>>) = status /\ <<status>> # <<>>
  BY DEF Last
<1>2. Head(<<"deleted", "added">>) = "deleted" /\ Last(<<"deleted", "added">>) = "added"
      /\ <<"deleted", "added">> # <<>>
  BY DEF Last
<1>3. CASE path \notin DOMAIN old \cup DOMAIN new
  BY <1>3 DEF DeltasOfPath, Differing
<1>4. CASE path \in DOMAIN new /\ path \notin DOMAIN old
  <2>1. statuses = <<"added">>
    BY <1>4 DEF DeltasOfPath
  <2> QED BY <1>1, <1>4, <2>1 DEF Differing
<1>5. CASE path \in DOMAIN old /\ path \notin DOMAIN new
  <2>1. statuses = <<"deleted">>
    BY <1>5 DEF DeltasOfPath
  <2> QED BY <1>1, <1>5, <2>1 DEF Differing
<1>6. CASE path \in DOMAIN old \cap DOMAIN new /\ old[path].mode # new[path].mode
  <2>1. statuses = <<"deleted", "added">>
    BY <1>6 DEF DeltasOfPath
  <2> QED BY <1>2, <1>6, <2>1 DEF Differing
<1>7. CASE path \in DOMAIN old \cap DOMAIN new /\ old[path].mode = new[path].mode /\ old[path] # new[path]
  <2>1. statuses = <<"modified">>
    BY <1>7 DEF DeltasOfPath
  <2> QED BY <1>1, <1>7, <2>1 DEF Differing
<1>8. CASE path \in DOMAIN old \cap DOMAIN new /\ old[path] = new[path]
  <2>1. statuses = <<>>
    BY <1>8 DEF DeltasOfPath
  <2> QED BY <1>8, <2>1 DEF Differing
<1> QED BY <1>3, <1>4, <1>5, <1>6, <1>7, <1>8

\* The maps of the deltas and of the patches have the paths at which the trees
\* differ, and a delta deletes what the new tree lacks.  The two maps agree but for
\* the paths whose type changed.
LEMMA DiffTellsTheTrees ==
  ASSUME NEW old, NEW new
  PROVE  LET diff == TreeToTree(old, new) IN
           /\ DOMAIN Deltas(diff) = Differing(old, new)
           /\ DOMAIN Patches(diff) = Differing(old, new)
           /\ \A path \in Differing(old, new) :
                /\ Deltas(diff)[path] \in {"added", "modified", "deleted"}
                /\ Patches(diff)[path] \in {"added", "modified", "deleted"}
                /\ Deltas(diff)[path] = "deleted" <=> path \notin DOMAIN new
                /\ IF /\ path \in DOMAIN old \cap DOMAIN new
                      /\ old[path].mode # new[path].mode
                     THEN Deltas(diff)[path] = "added" /\ Patches(diff)[path] = "deleted"
                     ELSE Patches(diff)[path] = Deltas(diff)[path]
<1> DEFINE diff == TreeToTree(old, new)
<1>1. DOMAIN diff = Differing(old, new)
  <2>1. DOMAIN diff = {path \in DOMAIN old \cup DOMAIN new : DeltasOfPath(old, new, path) # <<>>}
    BY DEF TreeToTree
  <2>2. \A path : DeltasOfPath(old, new, path) # <<>> <=> path \in Differing(old, new)
    BY DeltasOfPathCases
  <2>3. Differing(old, new) \subseteq DOMAIN old \cup DOMAIN new
    BY DEF Differing
  <2> QED BY <2>1, <2>2, <2>3
<1>2. \A path \in Differing(old, new) : diff[path] = DeltasOfPath(old, new, path)
  BY <1>1 DEF TreeToTree
<1>3. \A path \in Differing(old, new) :
        /\ Deltas(diff)[path] = Last(DeltasOfPath(old, new, path))
        /\ Patches(diff)[path] = Head(DeltasOfPath(old, new, path))
  BY <1>1, <1>2 DEF Deltas, Patches
<1>4. DOMAIN Deltas(diff) = DOMAIN diff /\ DOMAIN Patches(diff) = DOMAIN diff
  BY DEF Deltas, Patches
<1> HIDE DEF diff
<1>5. ASSUME NEW path \in Differing(old, new)
      PROVE  /\ Deltas(diff)[path] \in {"added", "modified", "deleted"}
             /\ Patches(diff)[path] \in {"added", "modified", "deleted"}
             /\ Deltas(diff)[path] = "deleted" <=> path \notin DOMAIN new
             /\ IF /\ path \in DOMAIN old \cap DOMAIN new
                   /\ old[path].mode # new[path].mode
                  THEN Deltas(diff)[path] = "added" /\ Patches(diff)[path] = "deleted"
                  ELSE Patches(diff)[path] = Deltas(diff)[path]
  BY <1>3, DeltasOfPathCases
<1> QED BY <1>1, <1>4, <1>5 DEF diff

-------------------------------------------------------------------------------
(* Revisions.                                                               *)

\* HEAD is on a commit of the repository, or on a branch not yet born.
LEMMA HeadCommitType ==
  ASSUME NEW git, IsRepository(git)
  PROVE  HeadCommit(git) \in DOMAIN git.commits \cup {NoCommit}
BY DEF HeadCommit, IsRepository

\* What converts to a commit is a commit of the repository.
LEMMA CommitType ==
  ASSUME NEW git, NEW spec, IsRepository(git), IsCommit(git, spec)
  PROVE  Commit(git, spec) \in DOMAIN git.commits
<1>1. HeadCommit(git) # NoCommit => HeadCommit(git) \in DOMAIN git.commits
  BY HeadCommitType
<1> QED BY <1>1 DEF IsCommit, Commit, Single, IsRepository
===============================================================================
