----------------------------- MODULE MCKVStore -----------------------------
(* Small instances of KVStore. *)
EXTENDS KVInv, TLC

CONSTANTS k1, k2, v1, v2, v3, v4, Layout

Sizes == (v1 :> 2) @@ (v2 :> 2) @@ (v3 :> 3) @@ (v4 :> 4)
MCValSize == [v \in Vals |-> Sizes[v]]

RoNode(blk, off, size, k, v) ==
    [blk |-> blk, off |-> off, size |-> size, st |-> "live", key |-> k, val |-> v, ver |-> 0, rw |-> FALSE]

(* No factory image; one that fills block 0; one that leaves room in it.   *)
MCRoNodes ==
    CASE Layout = "none" -> {}
      [] Layout = "full" -> {RoNode(0, 0, BlockSize - 1, k1, v1)}
      [] Layout = "room" -> {RoNode(0, 0, 1, k1, v1)}

(* The text of the factory node of k1 is, taken as bytes, the value v3.    *)
MCRoText == [k \in Keys |-> IF k = k1 /\ Layout = "full" THEN v3 ELSE NoVal]

=============================================================================
