----------------------------- MODULE MCGitContext -----------------------------
(* A path that may be one of two texts or a link, and one with a single text; *)
(* two commits, two branches and a tag.                                       *)
EXTENDS GitContext, TLC

MCEntries ==
  "a.cpp" :> {[mode |-> "blob", text |-> "one"], [mode |-> "blob", text |-> "two"],
              [mode |-> "link", text |-> "one"]}
    @@ "b.cpp" :> {[mode |-> "blob", text |-> "one"]}
MCCommitIds == {"c1", "c2"}
MCBranchNames == {"main", "dev"}
MCTagNames == {"v1"}
MCTargets == {"main", "dev", "v1", "c1", "HEAD", "unknown"}
===============================================================================
