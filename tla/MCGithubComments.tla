--------------------------- MODULE MCGithubComments ---------------------------
(* Two runs, each tried again once, four comments of which an answer lists  *)
(* two, and ids of eight values that start two below the value for "none": the *)
(* third comment gets it, the fourth wraps.                                  *)
EXTENDS GithubComments

MCRuns == {"r1", "r2"}
===============================================================================
