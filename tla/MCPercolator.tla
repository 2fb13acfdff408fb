----------------------------- MODULE MCPercolator ------------------------------
(* Instances of Percolator. *)
EXTENDS Percolator, TLC

CONSTANTS t1, t2, r1, v0, v1

M(op) == [op |-> op, value |-> IF op = "Put" THEN v1 ELSE v0]

TwoKeys == {1, 2}

\* A region that covers both keys, and the two regions a split makes of it.
SplitRegions == {[startKey |-> 0, endKey |-> 0],
                 [startKey |-> 0, endKey |-> 2], [startKey |-> 2, endKey |-> 0]}

\* Two writers that meet on both keys and have different primaries, and a
\* reader.
Writers == t1 :> [k \in {1, 2} |-> M("Put")]
           @@ t2 :> (1 :> M("Put") @@ 2 :> M("Del"))
           @@ r1 :> [k \in {} |-> M("Put")]
WritersPrimary == t1 :> 1 @@ t2 :> 2 @@ r1 :> 1

\* The writers alone.  t2 only locks its secondary, and the two keys are in
\* regions of their own.
TwoRegions == {[startKey |-> 0, endKey |-> 2], [startKey |-> 2, endKey |-> 0]}
OnlyWriters == t1 :> [k \in {1, 2} |-> M("Put")] @@ t2 :> (1 :> M("Lock") @@ 2 :> M("Del"))
OnlyWritersPrimary == t1 :> 1 @@ t2 :> 2

\* One writer that only locks its primary.
Locker == t1 :> (1 :> M("Lock") @@ 2 :> M("Put"))
LockerPrimary == t1 :> 1

================================================================================
