------------------------------ MODULE MCMVCCStore ------------------------------
(***************************************************************************)
(* Two transactions on two keys, with a commit timestamp between their     *)
(* starts and two above both: they follow each other, overlap or nest.     *)
(* The word has three bits.  Two timestamps share a physical tick, and a   *)
(* lock lives one tick, so that of the two times callers ask at one finds  *)
(* a lock alive and the other finds it expired.                            *)
(***************************************************************************)
EXTENDS Scans

TwoKeys == {1, 2}
TwoStarts == {2, 4}
ThreeCommits == {3, 5, 6}

\* What clients send: a delete and a lock have no value.
Sends == [op : {"Put", "Insert"}, value : Value \ {EmptyValue}]
         \cup [op : {"Put", "Del", "Lock"}, value : {EmptyValue}]

================================================================================
