----------------------------- MODULE MCMinCommitTS -----------------------------
(* Two transactions on one key. *)
EXTENDS MinCommitTS

OneKey == {1}
TwoStarts == {2, 4}
TwoCommits == {3, 5}
Sends == Mutation

================================================================================
