------------------------------- MODULE MCCluster -------------------------------
(* Instances of Cluster: keys 1 to 4 and the empty key. *)
EXTENDS Cluster

FourKeys == 0 .. 4

\* Every list of up to three regions that validateRegion accepts.
Valid == {l \in UNION {[1 .. n -> [startKey : 0 .. 4, endKey : 0 .. 4]] : n \in 1 .. 3} :
            validateRegion(l)}

\* Those in which only the last region is unbounded.
Proper == {l \in Valid : \A i \in 1 .. Len(l) - 1 : l[i].endKey # EmptyKey}

================================================================================
