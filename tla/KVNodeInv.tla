------------------------------ MODULE KVNodeInv ------------------------------
(***************************************************************************)
(* What the block of KVNode holds, told from the history of its programs:  *)
(* the inductive invariant behind OldOrNew and WritesBlank.                *)
(***************************************************************************)
EXTENDS KVNode

(* The keys and values for which no torn write can be taken for a node.    *)
(* The torn header meets the first bytes of the next node where its own    *)
(* '=' or trailer would be: a value no longer than the key keeps the       *)
(* trailer among the key's bytes, none of which is '=' or the trailer.     *)
(* A zero inside a longer value could itself begin a header; integers are  *)
(* too short for one.                                                      *)
Plain ==
    /\ Len(Key) >= 3
    /\ \A i \in 1 .. Len(Key) : Key[i] \notin {NL, EQ, 4 * Len(Key)}
    /\ \A i \in 1 .. Len(Other) : Other[i] # NL
    /\ \A v \in Values : \/ Len(v) <= 4
                         \/ Len(v) <= Len(Key) /\ \A i \in 1 .. Len(v) : v[i] # 0

-----------------------------------------------------------------------------
(* The place of a program: its zero behind the key, its trailer, its end.  *)
Nul(e)     == e.at + Len(e.key)
Trailer(e) == Nul(e) + RW_FLAG_SIZE + Len(e.val)
Whole(e)   == Trailer(e) < e.at + e.len
End(e)     == IF Whole(e) THEN e.at + MallocSize(e.key, e.val) + 4
                          ELSE e.at + align4(e.len)

(* The byte it leaves at offset i of the block. *)
ByteOf(e, i) ==
    IF i < e.at + e.len THEN Bytes(e.key, e.val, e.ver)[i - e.at]
    ELSE IF e.rm /\ i >= End(e) - 4 THEN 0
    ELSE Blank

(* The node kvblock_search should return for it. *)
NodeOf(e) ==
    [head |-> e.at, key |-> e.key, val |-> e.val, ver |-> e.ver, next |-> End(e),
     rw |-> TRUE, live |-> ~e.rm]

Copies == {e \in log : Whole(e) /\ ~e.rm /\ e.key = Key}

-----------------------------------------------------------------------------
(* The programs lie in the block, one behind the other.                    *)
Sound(e) ==
    /\ e = [at |-> e.at, len |-> e.len, key |-> e.key, val |-> e.val, ver |-> e.ver, rm |-> e.rm]
    /\ e.at \in Nat /\ e.at % 4 = 0 /\ e.ver \in 1 .. 255 /\ e.rm \in BOOLEAN
    /\ e.len \in 1 .. MallocSize(e.key, e.val)
    /\ \/ e.key = Key /\ e.val \in Values
       \/ e.key = Other /\ e.val = Other /\ e.at = 0 /\ Whole(e)
    /\ ~Whole(e) => ~e.rm /\ Bytes(e.key, e.val, e.ver)[e.len - 1] # Blank
    /\ End(e) <= Size - 4

LogSound ==
    /\ \A e \in log : Sound(e)
    /\ \A e, f \in log : e = f \/ End(e) <= f.at \/ End(f) <= e.at

(* The block holds their bytes and is blank elsewhere. *)
Image ==
    /\ mem \in [0 .. Size - 1 -> 0 .. 255]
    /\ \A e \in log : \A i \in e.at .. End(e) - 1 : mem[i] = ByteOf(e, i)
    /\ \A i \in 0 .. Size - 1 :
          (\A e \in log : i < e.at \/ End(e) <= i) => mem[i] = Blank

(* Once kvblock_calc is through, write_offset is behind all of them. *)
OffsetSound ==
    /\ wo \in 0 .. Size - 4 /\ wo % 4 = 0
    /\ pc # "init" => \A e \in log : End(e) <= wo

(* The copies of the key, and what a call knows of them. *)
Follows(r, s) == r = (IF s = 255 THEN 1 ELSE s + 1)

CopiesSound ==
    /\ Copies = {} => <<>> \in expect
    /\ \A e \in Copies : e.val \in expect
    /\ \A e, f \in Copies : e = f \/ Follows(e.ver, f.ver) \/ Follows(f.ver, e.ver)
    /\ \A e, f, g \in Copies : e = f \/ f = g \/ e = g
    /\ pc \in {"idle", "program"} => \A e, f \in Copies : e = f
    /\ pc = "program" =>
          /\ new \in Values /\ new \in expect /\ Fits(Key, new)
          /\ \/ Copies = {} /\ old = None
             \/ \E e \in Copies : old = NodeOf(e)
    /\ pc = "rm" =>
          \E e, f \in Copies : e # f /\ old = NodeOf(e) /\ f.val = new /\ Follows(f.ver, e.ver)

(* The torn writes are where kvblock_calc searches for them.  Power that    *)
(* fails in a program further back leaves remains it does not see, and the *)
(* next program goes over them.                                            *)
Searched == \A e \in log : Whole(e) \/ End(e) <= Scan - 4

(* The inductive invariant: the history describes the block, byte by byte, *)
(* and the copies of the key are those kv_set and kv_verify expect.        *)
NodeInv ==
    /\ pc \in {"init", "idle", "program", "rm"} /\ torn \in 0 .. MaxTorn
    /\ LogSound /\ Image /\ OffsetSound /\ CopiesSound

(* kvblock_iter returns the writable nodes that were programmed whole, with *)
(* their keys, values and versions, and nothing else: remains of torn      *)
(* writes are neither taken for nodes nor hide one.                        *)
FindsWhole == {n \in Nodes : n.rw} = {NodeOf(e) : e \in {f \in log : Whole(f)}}

=============================================================================
