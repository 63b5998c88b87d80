------------------------------ MODULE KVStore ------------------------------
(***************************************************************************)
(* The log-structured key-value store of components/kv (block.c, kvset.c)  *)
(* on NOR flash, at the granularity of one flash operation: a program of a *)
(* node, the clearing of a node's erase word, the erase of a block.  Power *)
(* may fail before, during and after each of them.  Calls are serialised   *)
(* by kv_lock (kv_aos.c), so the other actor is the power supply.          *)
(*                                                                         *)
(* Sizes and offsets are in units of one flash word; the last word of a    *)
(* block is never programmed (kvblock_alloc_node keeps size - 4).          *)
(* A node is abstracted to the fields the code reads back.  Nodes whose    *)
(* erase word is cleared ("dead") and partly programmed ones ("torn") only *)
(* keep the space they occupy.                                             *)
(* Premise: what a program interrupted on blank flash leaves is read back  *)
(* as the node that was meant or as none (KVNode examines this byte by     *)
(* byte).  Over the remains of an earlier one it may be any node, which    *)
(* LossOverRemains lets in.                                                *)
(***************************************************************************)
EXTENDS Integers, FiniteSets, FiniteSetsExt

CONSTANTS
    N,              \* number of blocks (sectors of the partition)
    BlockSize,      \* words per block
    ScanLimit,      \* words kvblock_calc searches for torn writes (512 - 4 bytes)
    Keys, Vals,     \* what clients store
    NoKey, NoVal,   \* fields of a dead or torn node; "no value"
    ValSize,        \* [Vals -> Nat]: words of a node holding that value
    NodeMax,        \* largest node kv_set accepts
    MaxVer,         \* 255 in the code
    RoNodes,        \* read-only nodes of the factory image
    RoText,         \* [Keys -> Vals \cup {NoVal}]: the value whose bytes are the text of the key's factory node
    WriteFaults,    \* TRUE: programming may fail verification (bad block)
    LossOverRemains \* TRUE: power may fail while a program runs over torn remains the scan did not reach

Blocks == 0 .. N - 1

(* A node on flash. *)
Node(b, o, s, k, v, r) ==
    [blk |-> b, off |-> o, size |-> s, st |-> "live", key |-> k, val |-> v, ver |-> r, rw |-> TRUE]

Space(b, o, s, t) ==
    [blk |-> b, off |-> o, size |-> s, st |-> t, key |-> NoKey, val |-> NoVal, ver |-> 0, rw |-> TRUE]

Entry ==
    [blk : Blocks, off : 0 .. BlockSize, size : 1 .. BlockSize, st : {"live", "dead", "torn"},
     key : Keys \cup {NoKey}, val : Vals \cup {NoVal}, ver : 0 .. MaxVer, rw : BOOLEAN]

ASSUME ConstantsAssumption ==
    /\ N \in Nat /\ N >= 2
    /\ BlockSize \in Nat /\ BlockSize >= 2
    /\ ScanLimit \in Nat
    /\ MaxVer \in Nat /\ MaxVer >= 3
    /\ NoKey \notin Keys /\ NoVal \notin Vals
    /\ ValSize \in [Vals -> 2 .. BlockSize - 1]
    /\ NodeMax \in Nat
    /\ WriteFaults \in BOOLEAN
    /\ LossOverRemains \in BOOLEAN

(* The factory image: one read-only node per key, version 0. *)
ASSUME RoAssumption ==
    /\ RoNodes \subseteq Entry
    /\ IsFiniteSet(RoNodes)
    /\ \A e \in RoNodes :
          /\ e.st = "live" /\ ~e.rw /\ e.ver = 0
          /\ e.key \in Keys /\ e.val \in Vals
          /\ e.off + e.size < BlockSize
    /\ \A e, f \in RoNodes : e.key = f.key => e = f
    /\ RoText \in [Keys -> Vals \cup {NoVal}]

VARIABLES
    flash,          \* the nodes on flash
    wo, kvsz, cnt, roc,     \* per block: write_offset, kv_size, count, ro_count
    bid, gcb,       \* kv->bid, kv->gc_bid (-1: none)
    pc,             \* where the running call is, between two flash operations
    idx,            \* kv_init: next block to scan
    op,             \* the call in progress
    old,            \* kv_set/kv_rm: the node kv_find returned ({} or a singleton)
    ver,            \* kv_set: version to write
    start,          \* kv_set: start_bid
    gcd,            \* kv_set: gc_count # 0
    src, newgc,     \* kv_gc: block being emptied, new_gc_id
    todo,           \* nodes an iteration still has to visit (kv_verify, kv_gc, kv_reset)
    res             \* result of the last call

vars == <<flash, wo, kvsz, cnt, roc, bid, gcb, pc, idx, op, old, ver, start, gcd, src, newgc, todo, res>>

NoOp == [kind |-> "none"]

-----------------------------------------------------------------------------
(* Reading the flash.                                                      *)

In(b)   == {e \in flash : e.blk = b}
Live(b) == {e \in In(b) : e.st = "live"}

(* kvblock_iter visits blocks and, in a block, offsets in this order. *)
Before(e, f) == e.blk < f.blk \/ (e.blk = f.blk /\ e.off < f.off)
IsFirst(e, S) == e \in S /\ \A f \in S : f = e \/ Before(e, f)
IsLast(e, S)  == e \in S /\ \A f \in S : f = e \/ Before(f, e)

(* Mutant: the search stops one node early. *)
Seen_Early(e) ==
    LET before == Cardinality({f \in Live(e.blk) : f.off < e.off})
    IN  before < cnt[e.blk] - 1

(* kvblock_find stops after count valid nodes, but looks at one at least. *)
Seen(e) ==
    LET before == Cardinality({f \in Live(e.blk) : f.off < e.off})
    IN  before = 0 \/ before < cnt[e.blk]

Hits(k, w) == {e \in flash : e.st = "live" /\ e.key = k /\ e.rw = w /\ Seen(e)}

(* kv_find: the first writable node, or else the last read-only one. *)
Found(e, k) ==
    IF Hits(k, TRUE) # {} THEN IsFirst(e, Hits(k, TRUE)) ELSE IsLast(e, Hits(k, FALSE))

Missing(k) == Hits(k, TRUE) \cup Hits(k, FALSE) = {}

(* Mutants: the version is not wrapped; the wrap is not compared. *)
NextVer_NoWrap(r) == r + 1
Newer_NoWrap(r, s) == r > s

(* kvblock_check_version: version 1 follows version 255. *)
NextVer(r) == IF r = MaxVer THEN 1 ELSE r + 1
Newer(r, s) ==
    \/ r = 1 /\ s = MaxVer
    \/ r > s /\ ~(r = MaxVer /\ s = 1)

FreeSize(b) == BlockSize - wo[b]

(* What _iter_calc adds up in kv_size. *)
TotalSize(S) == MapThenSumSet(LAMBDA e : e.size, S)

-----------------------------------------------------------------------------
(* The flash operations.                                                   *)

(* block_erase and the counters __kvblock_gc resets (ro_count it does not). *)
Erased(b) == flash \ In(b)

EraseBlock(b) ==
    /\ flash' = Erased(b)
    /\ wo'   = [wo EXCEPT ![b] = 0]
    /\ kvsz' = [kvsz EXCEPT ![b] = 0]
    /\ cnt'  = [cnt EXCEPT ![b] = 0]
    /\ roc'  = roc

(* Mutants: the count is not kept; read-only nodes are not spared. *)
kvnode_rm_NoCount(e) ==
    /\ flash' = (flash \ {e}) \cup {Space(e.blk, e.off, e.size, "dead")}
    /\ kvsz'  = [kvsz EXCEPT ![e.blk] = @ - e.size]
    /\ UNCHANGED <<wo, cnt, roc>>

kvnode_rm_ReadOnly(e) ==
    /\ flash' = (flash \ {e}) \cup {Space(e.blk, e.off, e.size, "dead")}
    /\ kvsz'  = [kvsz EXCEPT ![e.blk] = @ - e.size]
    /\ cnt'   = [cnt EXCEPT ![e.blk] = @ - 1]
    /\ UNCHANGED <<wo, roc>>

(* kvnode_rm: clear the erase word, or erase the block with its last node. *)
LastNode(e) == cnt[e.blk] - roc[e.blk] <= 1

kvnode_rm(e) ==
    \/ /\ ~e.rw
       /\ UNCHANGED <<flash, wo, kvsz, cnt, roc>>
    \/ /\ e.rw /\ ~LastNode(e)
       /\ flash' = (flash \ {e}) \cup {Space(e.blk, e.off, e.size, "dead")}
       /\ kvsz'  = [kvsz EXCEPT ![e.blk] = @ - e.size]
       /\ cnt'   = [cnt EXCEPT ![e.blk] = @ - 1]
       /\ UNCHANGED <<wo, roc>>
    \/ /\ e.rw /\ LastNode(e)
       /\ EraseBlock(e.blk)

(* kvblock_set: allocate at write_offset, program, read back; a mismatch    *)
(* clears the erase word of what was written, which may or may not be      *)
(* recognised as a node later.  Programming over the remains of a torn      *)
(* write, which kvblock_calc did not skip, verifies only if the bits agree. *)
CanAlloc(b, s) == wo[b] + s <= BlockSize - 1

Remains(b, s) ==
    {e \in In(b) : e.off < wo[b] + s /\ wo[b] < e.off + e.size}

Cover(b, s, e) ==
    (flash \ Remains(b, s)) \cup {e} \cup
        {Space(b, wo[b] + s, f.off + f.size - wo[b] - s, "torn") :
            f \in {g \in Remains(b, s) : g.off + g.size > wo[b] + s}}

Programmed(b, s, k, v, r) ==
    /\ flash' = Cover(b, s, Node(b, wo[b], s, k, v, r))
    /\ wo'    = [wo EXCEPT ![b] = @ + s]
    /\ kvsz'  = [kvsz EXCEPT ![b] = @ + s]
    /\ cnt'   = [cnt EXCEPT ![b] = @ + 1]
    /\ roc'   = roc

VerifyFailed(b, s) ==
    /\ WriteFaults \/ Remains(b, s) # {}
    /\ \E t \in {"dead", "torn"} : flash' = Cover(b, s, Space(b, wo[b], s, t))
    /\ wo'    = [wo EXCEPT ![b] = @ + s]
    /\ UNCHANGED <<kvsz, cnt, roc>>

(* What a power loss leaves of a program and of a block erase that was     *)
(* under way: nothing of it, part of it, all of it.  Over remains the bits *)
(* of both programs mix (NOR flash only clears bits), and before kvblock_set *)
(* has read them back they may be a node of any key, value and version.    *)
CutShort(b, s, k, v, r) ==
    {Cover(b, s, Node(b, wo[b], s, k, v, r))}
        \cup {Cover(b, w, Space(b, wo[b], w, "torn")) : w \in 1 .. s - 1}

Mixed(b, s) ==
    {Cover(b, s, Space(b, wo[b], s, "torn"))}
        \cup {Cover(b, w, Node(b, wo[b], w, k, v, r)) :
                 w \in 1 .. s, k \in Keys, v \in Vals, r \in 0 .. MaxVer}

TornProgram(b, s, k, v, r) ==
    {flash} \cup (IF Remains(b, s) = {} \/ LossOverRemains THEN CutShort(b, s, k, v, r) ELSE {})
            \cup (IF Remains(b, s) # {} /\ LossOverRemains THEN Mixed(b, s) ELSE {})

TornRm(e) ==
    IF e.rw /\ LastNode(e)
      THEN {flash, (flash \ In(e.blk)) \cup {Space(e.blk, 0, BlockSize, "torn")}}
      ELSE {flash}

-----------------------------------------------------------------------------
(* kv_init.                                                                *)

(* Mutant: nodes marked erased do not count as written space. *)
EndOfNodes_Live(b) == Max({0} \cup {e.off + e.size : e \in Live(b)})

(* kvblock_calc: write_offset is the end of the last node, and then of the *)
(* last word below the scan limit that is not blank.                       *)
EndOfNodes(b) ==
    Max({0} \cup {e.off + e.size : e \in {f \in In(b) : f.st # "torn"}})

TornWords(b) ==
    {u \in EndOfNodes(b) .. ScanLimit - 1 :
        \E e \in In(b) : e.st = "torn" /\ e.off <= u /\ u < e.off + e.size}

WriteOffset(b) == Max({EndOfNodes(b)} \cup {u + 1 : u \in TornWords(b)})

Blank(b) == Live(b) = {}

(* kvblock_init of block idx, then the choice of gc_bid and bid. *)
InitBlock ==
    LET b    == idx
        w    == IF Blank(b) /\ In(b) # {} THEN 0 ELSE WriteOffset(b)
        free == BlockSize - w
        best == IF gcb = -1 THEN 0 ELSE BlockSize - wo[gcb]
        isgc == free >= best /\ free > 1
    IN
    /\ pc = "init" /\ idx < N
    /\ flash' = IF Blank(b) THEN Erased(b) ELSE flash
    /\ wo'    = [wo EXCEPT ![b] = w]
    /\ kvsz'  = [kvsz EXCEPT ![b] = TotalSize(Live(b))]
    /\ cnt'   = [cnt EXCEPT ![b] = Cardinality(Live(b))]
    /\ roc'   = [roc EXCEPT ![b] = Cardinality({e \in Live(b) : ~e.rw})]
    /\ gcb'   = IF isgc THEN b ELSE gcb
    /\ bid'   = IF ~isgc /\ bid = 0 THEN b ELSE bid
    /\ idx'   = idx + 1
    /\ UNCHANGED <<pc, op, old, ver, start, gcd, src, newgc, todo, res>>

(* Mutant: the start-up does not look for two copies of a key. *)
Conflicts_None == {}

(* The conflict list _iter_calc built: writable nodes whose key was already *)
(* seen in an earlier node.                                                *)
Conflicts ==
    {e \in flash : /\ e.st = "live" /\ e.rw
                   /\ \E f \in flash : /\ f.st = "live" /\ f.rw
                                       /\ f.key = e.key /\ Before(f, e)}

InitVerify ==
    /\ pc = "init" /\ idx = N
    /\ pc' = "verify"
    /\ todo' = Conflicts
    /\ UNCHANGED <<flash, wo, kvsz, cnt, roc, bid, gcb, idx, op, old, ver, start, gcd, src, newgc, res>>

(* kv_verify: the node in the map and the conflicting one, older removed. *)
Mapped(e) == {f \in flash : f.st = "live" /\ f.rw /\ f.key = e.key /\ f \notin todo}

Loser(e, f) == IF Newer(e.ver, f.ver) THEN f ELSE e

Verify(e, f) ==
    /\ pc = "verify"
    /\ IsFirst(e, todo) /\ IsFirst(f, Mapped(e))
    /\ todo' = todo \ {e}
    /\ IF e.ver = f.ver
         THEN UNCHANGED <<flash, wo, kvsz, cnt, roc>>
         ELSE kvnode_rm(Loser(e, f))
    /\ UNCHANGED <<bid, gcb, pc, idx, op, old, ver, start, gcd, src, newgc, res>>

VerifyEnd ==
    /\ pc = "verify" /\ todo = {}
    /\ pc' = "idle"
    /\ UNCHANGED <<flash, wo, kvsz, cnt, roc, bid, gcb, idx, op, old, ver, start, gcd, src, newgc, todo, res>>

-----------------------------------------------------------------------------
(* kv_set.                                                                 *)

(* How a call ends; the locals are gone. *)
Return(r) ==
    /\ pc' = "idle" /\ op' = NoOp /\ res' = r
    /\ old' = {} /\ ver' = 0 /\ start' = 0 /\ gcd' = FALSE
    /\ src' = 0 /\ newgc' = -1 /\ todo' = {}

(* The comparison of kv_set is one of bytes.  Those of a read-only node are *)
(* the text of the image, quoted or decimal, not the value kv_get makes of  *)
(* it.                                                                      *)
Stored(e) == IF e.rw THEN e.val ELSE RoText[e.key]

(* Label start1 of kv_set: look the key up, leave if these bytes are there, *)
(* choose the version; then start2.                                        *)
StartOne(k, v, g) ==
    \/ \E e \in flash :
          /\ Found(e, k)
          /\ IF Stored(e) = v
               THEN Return("ok")
               ELSE /\ old' = {e} /\ ver' = NextVer(e.ver)
                    /\ pc' = "set" /\ start' = bid
                    /\ op' = [kind |-> "set", key |-> k, val |-> v]
                    /\ gcd' = g
                    /\ UNCHANGED <<src, newgc, todo, res>>
    \/ /\ Missing(k)
       /\ old' = {} /\ ver' = 1 /\ gcd' = g
       /\ pc' = "set" /\ start' = bid
       /\ op' = [kind |-> "set", key |-> k, val |-> v]
       /\ UNCHANGED <<src, newgc, todo, res>>

Set(k, v) ==
    /\ pc = "idle"
    /\ IF ValSize[v] > NodeMax
         THEN Return("fail")
         ELSE StartOne(k, v, FALSE)
    /\ UNCHANGED <<flash, wo, kvsz, cnt, roc, bid, gcb, idx>>

Usable(b) == roc[b] = 0 /\ b # gcb

(* The end of the loop body: next block, or garbage collection, or failure. *)
NextBlock ==
    /\ bid' = (bid + 1) % N
    /\ IF bid' # start THEN UNCHANGED <<pc, op, old, ver, start, gcd, src, newgc, todo, res>>
       ELSE IF gcd THEN Return("fail")
       ELSE pc' = "gc" /\ newgc' = -1 /\ UNCHANGED <<op, old, ver, start, gcd, src, todo, res>>

SetSkip ==
    /\ pc = "set"
    /\ ~(Usable(bid) /\ CanAlloc(bid, ValSize[op.val]))
    /\ NextBlock
    /\ UNCHANGED <<flash, wo, kvsz, cnt, roc, gcb, idx>>

SetProgram ==
    /\ pc = "set"
    /\ Usable(bid) /\ CanAlloc(bid, ValSize[op.val])
    /\ \/ /\ Programmed(bid, ValSize[op.val], op.key, op.val, ver)
          /\ bid' = bid
          /\ IF old = {}
               THEN Return("ok")
               ELSE pc' = "setrm" /\ UNCHANGED <<op, old, ver, start, gcd, src, newgc, todo, res>>
       \/ /\ VerifyFailed(bid, ValSize[op.val])
          /\ NextBlock
    /\ UNCHANGED <<gcb, idx>>

SetRm ==
    /\ pc = "setrm"
    /\ \E e \in old : kvnode_rm(e)
    /\ Return("ok")
    /\ UNCHANGED <<bid, gcb, idx>>

-----------------------------------------------------------------------------
(* kv_gc.                                                                  *)

(* Mutant: a block that just does not fit is picked again and again. *)
Movable_Full(b) == roc[b] = 0 /\ b # gcb /\ kvsz[b] > 0 /\ kvsz[b] <= FreeSize(gcb)

Movable(b) == roc[b] = 0 /\ b # gcb /\ kvsz[b] > 0 /\ kvsz[b] < FreeSize(gcb)

(* The smallest movable block, the first of them. *)
MinUsed(b) ==
    /\ Movable(b)
    /\ \A c \in Blocks : Movable(c) => kvsz[b] < kvsz[c] \/ (kvsz[b] = kvsz[c] /\ b <= c)

GcPick(b) ==
    /\ pc = "gc" /\ gcb # -1
    /\ MinUsed(b)
    /\ src' = b /\ todo' = {e \in Live(b) : e.rw}
    /\ pc' = "gccopy"
    /\ UNCHANGED <<flash, wo, kvsz, cnt, roc, bid, gcb, idx, op, old, ver, start, gcd, newgc, res>>

(* Mutant: the node is removed although its copy did not verify. *)
GcCopy_Unchecked(e) ==
    /\ pc = "gccopy"
    /\ IsFirst(e, todo)
    /\ CanAlloc(gcb, e.size)
    /\ \/ Programmed(gcb, e.size, e.key, e.val, NextVer(e.ver))
       \/ VerifyFailed(gcb, e.size)
    /\ pc' = "gcrm" /\ todo' = todo
    /\ UNCHANGED <<bid, gcb, idx, op, old, ver, start, gcd, src, newgc, res>>

(* _kvblock_deep_gc: copy the node with the next version, then remove it.   *)
(* A node that cannot be copied stays where it is.                         *)
GcCopy(e) ==
    /\ pc = "gccopy"
    /\ IsFirst(e, todo)
    /\ \/ /\ CanAlloc(gcb, e.size)
          /\ Programmed(gcb, e.size, e.key, e.val, NextVer(e.ver))
          /\ pc' = "gcrm" /\ todo' = todo
       \/ /\ CanAlloc(gcb, e.size)
          /\ VerifyFailed(gcb, e.size)
          /\ pc' = pc /\ todo' = todo \ {e}
       \/ /\ ~CanAlloc(gcb, e.size)
          /\ pc' = pc /\ todo' = todo \ {e}
          /\ UNCHANGED <<flash, wo, kvsz, cnt, roc>>
    /\ UNCHANGED <<bid, gcb, idx, op, old, ver, start, gcd, src, newgc, res>>

GcRm(e) ==
    /\ pc = "gcrm"
    /\ IsFirst(e, todo)
    /\ kvnode_rm(e)
    /\ pc' = "gccopy" /\ todo' = todo \ {e}
    /\ UNCHANGED <<bid, gcb, idx, op, old, ver, start, gcd, src, newgc, res>>

GcBlockDone ==
    /\ pc = "gccopy" /\ todo = {}
    /\ pc' = "gc"
    /\ newgc' = IF cnt[src] = 0 THEN src ELSE newgc
    /\ UNCHANGED <<flash, wo, kvsz, cnt, roc, bid, gcb, idx, op, old, ver, start, gcd, src, todo, res>>

(* kv_gc returns to kv_set. *)
GcEnd ==
    /\ pc = "gc" /\ gcb # -1
    /\ \A b \in Blocks : ~Movable(b)
    /\ IF newgc = -1
         THEN Return("fail") /\ gcb' = gcb
         ELSE /\ gcb' = newgc
              /\ IF old # {}
                   THEN StartOne(op.key, op.val, TRUE)
                   ELSE /\ pc' = "set" /\ start' = bid /\ gcd' = TRUE
                        /\ UNCHANGED <<op, old, ver, src, newgc, todo, res>>
    /\ UNCHANGED <<flash, wo, kvsz, cnt, roc, bid, idx>>

(* kv_gc with gc_bid = -1 reads blocks[-1]: by chance it finds no block to *)
(* move, or it works on a block that does not exist.                       *)
GcWild ==
    /\ pc = "gc" /\ gcb = -1
    /\ \/ Return("fail")
       \/ pc' = "wild" /\ UNCHANGED <<op, old, ver, start, gcd, src, newgc, todo, res>>
    /\ UNCHANGED <<flash, wo, kvsz, cnt, roc, bid, gcb, idx>>

-----------------------------------------------------------------------------
(* kv_rm and kv_reset.                                                     *)

Del(k) ==
    /\ pc = "idle"
    /\ \/ \E e \in flash :
             /\ Found(e, k)
             /\ old' = {e} /\ pc' = "delrm"
             /\ op' = [kind |-> "del", key |-> k]
             /\ UNCHANGED <<ver, start, gcd, src, newgc, todo, res>>
       \/ Missing(k) /\ Return("fail")
    /\ UNCHANGED <<flash, wo, kvsz, cnt, roc, bid, gcb, idx>>

DelRm ==
    /\ pc = "delrm"
    /\ \E e \in old : kvnode_rm(e)
    /\ Return("ok")
    /\ UNCHANGED <<bid, gcb, idx>>

Reset ==
    /\ pc = "idle"
    /\ op' = [kind |-> "reset"] /\ pc' = "reset"
    /\ todo' = {e \in flash : e.st = "live"}
    /\ UNCHANGED <<flash, wo, kvsz, cnt, roc, bid, gcb, idx, old, ver, start, gcd, src, newgc, res>>

ResetRm(e) ==
    /\ pc = "reset"
    /\ IsFirst(e, todo)
    /\ kvnode_rm(e)
    /\ todo' = todo \ {e}
    /\ UNCHANGED <<bid, gcb, pc, idx, op, old, ver, start, gcd, src, newgc, res>>

ResetEnd ==
    /\ pc = "reset" /\ todo = {}
    /\ Return("ok")
    /\ UNCHANGED <<flash, wo, kvsz, cnt, roc, bid, gcb, idx>>

-----------------------------------------------------------------------------
(* Power.                                                                  *)

(* What the flash may hold when power fails now. *)
Survives ==
    CASE pc = "set" /\ Usable(bid) /\ CanAlloc(bid, ValSize[op.val]) ->
           TornProgram(bid, ValSize[op.val], op.key, op.val, ver)
      [] pc \in {"setrm", "delrm"} -> UNION {TornRm(e) : e \in old}
      [] pc = "gccopy" /\ todo # {} ->
           {flash} \cup UNION {TornProgram(gcb, e.size, e.key, e.val, NextVer(e.ver)) :
                                 e \in {f \in todo : IsFirst(f, todo) /\ CanAlloc(gcb, f.size)}}
      [] pc \in {"gcrm", "reset"} ->
           {flash} \cup UNION {TornRm(e) : e \in {f \in todo : IsFirst(f, todo)}}
      [] pc = "verify" ->
           {flash} \cup UNION {UNION {TornRm(Loser(e, f)) : f \in Mapped(e)} : e \in todo}
      [] OTHER -> {flash}

(* kv2x_init clears the RAM state; kv_init starts from it. *)
Zero == [b \in Blocks |-> 0]

PowerLoss ==
    /\ flash' \in Survives
    /\ wo' = Zero /\ kvsz' = Zero /\ cnt' = Zero /\ roc' = Zero
    /\ bid' = 0 /\ gcb' = -1 /\ pc' = "init" /\ idx' = 0
    /\ op' = NoOp /\ old' = {} /\ ver' = 0 /\ start' = 0 /\ gcd' = FALSE
    /\ src' = 0 /\ newgc' = -1 /\ todo' = {} /\ res' = "none"

Init ==
    /\ flash = RoNodes
    /\ wo = Zero /\ kvsz = Zero /\ cnt = Zero /\ roc = Zero
    /\ bid = 0 /\ gcb = -1 /\ pc = "init" /\ idx = 0
    /\ op = NoOp /\ old = {} /\ ver = 0 /\ start = 0 /\ gcd = FALSE
    /\ src = 0 /\ newgc = -1 /\ todo = {} /\ res = "none"

Step ==
    \/ InitBlock \/ InitVerify
    \/ \E e, f \in flash : Verify(e, f)
    \/ VerifyEnd
    \/ SetSkip \/ SetProgram \/ SetRm
    \/ \E b \in Blocks : GcPick(b)
    \/ \E e \in todo : GcCopy(e) \/ GcRm(e)
    \/ GcBlockDone \/ GcEnd \/ GcWild
    \/ DelRm
    \/ \E e \in todo : ResetRm(e)
    \/ ResetEnd

Request ==
    \/ \E k \in Keys, v \in Vals : Set(k, v)
    \/ \E k \in Keys : Del(k)
    \/ Reset

Next == Step \/ Request \/ PowerLoss

(* Fairness: a call that has started runs on, the lock is held and nothing *)
(* it waits for can keep it; requests and power losses are not due.        *)
Spec == Init /\ [][Next]_vars /\ WF_vars(Step)

-----------------------------------------------------------------------------
(* Properties.                                                             *)

(* Every variable holds what the code's declarations allow. *)
TypeOK ==
    /\ flash \subseteq Entry
    /\ wo \in [Blocks -> 0 .. BlockSize] /\ kvsz \in [Blocks -> Int]
    /\ cnt \in [Blocks -> Int] /\ roc \in [Blocks -> Nat]
    /\ bid \in Blocks /\ gcb \in Blocks \cup {-1}
    /\ pc \in {"init", "verify", "idle", "set", "setrm", "delrm", "gc", "gccopy", "gcrm", "reset", "wild"}
    /\ idx \in 0 .. N
    /\ old \subseteq Entry /\ todo \subseteq Entry
    /\ ver \in 0 .. MaxVer /\ start \in Blocks /\ gcd \in BOOLEAN
    /\ src \in Blocks /\ newgc \in Blocks \cup {-1}
    /\ res \in {"none", "ok", "fail"}

Copies(k) == {e \in flash : e.st = "live" /\ e.rw /\ e.key = k}

(* An update leaves the old and the new copy of one key on flash for a     *)
(* while, and a power loss may freeze that state; there are never more,    *)
(* and the versions always tell which one is newer, also across the wrap.  *)
CopiesOrdered ==
    \A k \in Keys : \A e, f \in Copies(k) :
        /\ e = f \/ e.ver = NextVer(f.ver) \/ f.ver = NextVer(e.ver)
        /\ \A g \in Copies(k) : Cardinality({e, f, g}) <= 2

(* Between calls kv_verify, kv_set and kv_gc have left one copy of a key,   *)
(* and kv_find reaches it: the early stop of kvblock_find at count nodes   *)
(* hides nothing.                                                          *)
LookupComplete ==
    pc \in {"idle", "set", "gc"} =>
        \A k \in Keys : /\ \A e, f \in Copies(k) : e = f
                        /\ \A e \in Copies(k) : Found(e, k)

(* The RAM counters kvnode_rm and kv_gc decide by are those kvblock_calc   *)
(* would compute from flash, and no node lies beyond write_offset.         *)
CountersAgree ==
    pc \notin {"init", "wild"} =>
        \A b \in Blocks :
            /\ cnt[b] = Cardinality(Live(b))
            /\ kvsz[b] = TotalSize(Live(b))
            /\ EndOfNodes(b) <= wo[b]

(* Nothing that is or was a node is ever programmed over, also when the    *)
(* write offset had to be found again after a power loss: a node goes from *)
(* flash only by its erase word or with its whole block.                   *)
NeverOverwritten ==
    [][\A e \in flash : (e.st # "torn" /\ e \notin flash') =>
          \/ Space(e.blk, e.off, e.size, "dead") \in flash'
          \/ \A f \in flash' : f.blk = e.blk => f.st = "torn"]_vars

(* The factory nodes are never lost. *)
FactoryKept == RoNodes \subseteq flash

(* kv_gc always has a block to collect into. *)
GcHasBlock == pc = "gc" => gcb # -1

(* The value of a key: its newest copy, or else its factory value. *)
ValueOf(S) == IF S = {} THEN NoVal ELSE (CHOOSE e \in S : \A f \in S : f = e \/ Newer(e.ver, f.ver)).val
FactoryNodes(k) == {e \in flash : e.st = "live" /\ ~e.rw /\ e.key = k}
Value(k) == IF Copies(k) # {} THEN ValueOf(Copies(k)) ELSE ValueOf(FactoryNodes(k))

Abs == INSTANCE KVAbstract WITH
    Text    <- RoText,
    Factory <- [k \in Keys |-> ValueOf({e \in RoNodes : e.key = k})],
    store   <- [k \in Keys |-> Value(k)],
    op      <- IF pc = "setrm" THEN [op EXCEPT !.kind = "stored"] ELSE op

(* The store implements its promise: every set, delete and reset is atomic *)
(* per key, a key has its old or its new value after a power loss, and     *)
(* collection, verification and booting change no value.  A call succeeds  *)
(* exactly if it took effect, but for one case: kv_set of the text of the  *)
(* factory node a key still has returns success and the value stays.  The   *)
(* promise is for power losses anywhere but in a program that runs over the *)
(* remains of a torn one behind the words kvblock_calc searches            *)
(* (LossOverRemains = FALSE).                                              *)
PowerSafe == Abs!Spec

(* Every call ends: kv_gc does not go round for ever, kv_set retries once. *)
CallsEnd == (op # NoOp) ~> (op = NoOp \/ pc = "wild")

=============================================================================
