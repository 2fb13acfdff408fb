------------------------------ MODULE MCRegionScan -----------------------------
(***************************************************************************)
(* Instances of RegionScan: keys whose encodings differ only in padding,   *)
(* in a marker, or behind a full group of eight bytes.                     *)
(***************************************************************************)
EXTENDS RegionScan

Group == <<1, 255, 255, 255, 255, 255, 255, 255>>

Strings == << <<1>>, <<1, 0>>, <<1, 0, 0>>, Group, Group \o <<0>>, Group \o <<255>> >>

Keys == 0 .. Len(Strings)

KeyBytes == [k \in Keys |-> IF k = 0 THEN <<>> ELSE Strings[k]]

Stored == {1, 2, 4}

Whole == {<<[startKey |-> 0, endKey |-> 0]>>}

Bounded == {2, 4, 6}

Unbounded == {0}

================================================================================
