------------------------------- MODULE KVInv -------------------------------
(***************************************************************************)
(* The inductive invariant of KVStore, for every factory image (StoreInv), *)
(* and what holds besides when the image fills its blocks (ValuesInv).     *)
(***************************************************************************)
EXTENDS KVStore

(* kvblock_calc has seen the block since the last power-up. *)
Scanned(b) == pc # "init" \/ b < idx

IsNode(e) == e.st = "live" /\ e.key \in Keys /\ e.val \in Vals

(* Writable nodes do not lie on top of each other. *)
Apart(S) ==
    \A e, f \in S : /\ e.st = "live" /\ f.st = "live" /\ e.rw /\ f.rw
                    /\ e.blk = f.blk /\ e.off = f.off
                    => e = f

(* Nodes keep inside their block; what is live has a key and a value. *)
FlashSound ==
    /\ IsFiniteSet(flash)
    /\ \A e \in flash : e.off + e.size <= BlockSize
    /\ \A e \in flash : e.st = "live" => IsNode(e)
    /\ Apart(flash)

(* No node, live or marked erased, lies beyond write_offset. *)
OffsetsSound ==
    \A e \in flash : e.st # "torn" /\ Scanned(e.blk) => e.off + e.size <= wo[e.blk]

CountsSound ==
    \A b \in Blocks : Scanned(b) => /\ cnt[b] = Cardinality(Live(b))
                                    /\ kvsz[b] = TotalSize(Live(b))

(* What the call in progress knows. *)
SetCall == pc \in {"set", "setrm", "gc", "gccopy", "gcrm"}
GcCall  == pc \in {"gccopy", "gcrm"}

CallSound ==
    /\ SetCall => op.key \in Keys /\ op.val \in Vals
    /\ \A e, f \in old : e = f
    /\ pc \in {"set", "setrm", "delrm"} => \A e \in old : e \in flash /\ IsNode(e)
    /\ GcCall => gcb # -1 /\ src # gcb /\ roc[src] = 0
    /\ GcCall => \A e \in todo : e \in flash /\ IsNode(e) /\ e.rw /\ e.blk = src
    /\ pc = "gcrm" => todo # {}
    /\ pc = "verify" => \A e \in todo : IsNode(e) /\ e.rw
    /\ pc = "reset" => \A e \in todo : IsNode(e) /\ (e \in flash \/ Live(e.blk) = {})

(* The nodes the call is about to remove, or kv_verify to look at. *)
Doomed ==
    CASE pc = "verify" -> todo
      [] pc = "setrm"  -> old
      [] pc = "gcrm"   -> {e \in todo : IsFirst(e, todo)}
      [] OTHER         -> {}

(* Once the blocks are scanned, two copies of a key exist only while one of *)
(* them is about to be removed.                                            *)
OneLeft ==
    pc # "init" => \A k \in Keys : \A e, f \in Copies(k) : e = f \/ e \in Doomed \/ f \in Doomed

(* The version kv_set will write follows that of the copy on flash. *)
VersionsSound ==
    /\ pc = "set" => \A e \in Copies(op.key) : e \in old /\ ver = NextVer(e.ver)
    /\ SetCall /\ old = {} => Copies(op.key) = {}

(* What kv_init, kv_set, kv_rm, kv_reset and kv_gc rely on between any two   *)
(* flash operations and after every power loss: nodes and counters in RAM    *)
(* fit together, and two copies of a key are an update in progress.          *)
StoreInv ==
    /\ TypeOK
    /\ FlashSound
    /\ OffsetsSound
    /\ CountsSound
    /\ CallSound
    /\ CopiesOrdered
    /\ OneLeft
    /\ VersionsSound

-----------------------------------------------------------------------------
(* The image leaves no room behind it in the blocks it uses. *)
Filled == \A e \in RoNodes : \E f \in RoNodes : f.blk = e.blk /\ f.off + f.size = BlockSize - 1

RoBlocks == {e.blk : e \in RoNodes}

(* The blocks of the image hold the image and nothing else; no counter, no   *)
(* gc_bid and no call treats them as writable.                               *)
FactoryInv ==
    /\ RoNodes \subseteq flash
    /\ \A e \in flash : e.blk \in RoBlocks => e \in RoNodes
    /\ \A e \in flash : e.st = "live" /\ ~e.rw => e \in RoNodes
    /\ \A b \in Blocks : Scanned(b) => (roc[b] = 0 <=> b \notin RoBlocks)
    /\ gcb \notin RoBlocks /\ newgc \notin RoBlocks
    /\ \A e \in old \cup todo : e.rw => e.blk \notin RoBlocks

-----------------------------------------------------------------------------
(* What a call has done and has still to do, when the factory nodes are     *)
(* safe: which copy kv_set has replaced, which one kv_gc has moved, what    *)
(* kv_reset has not come to.                                               *)
CallInv ==
    /\ pc \in {"init", "verify", "idle"} => op = NoOp
    /\ SetCall => op = [kind |-> "set", key |-> op.key, val |-> op.val]
    /\ pc = "delrm" => op.key \in Keys /\ op = [kind |-> "del", key |-> op.key]
    /\ pc = "reset" => op = [kind |-> "reset"]
    /\ pc \in {"set", "setrm", "delrm"} => \A e \in old : e.key = op.key
    /\ pc = "setrm" =>
          \E n \in Copies(op.key) :
              /\ n.val = op.val /\ n \notin old /\ Copies(op.key) \subseteq old \cup {n}
              /\ \A e \in old : e.rw => n.ver = NextVer(e.ver)
    /\ pc = "delrm" => Copies(op.key) \subseteq old
    /\ pc = "gcrm" => \A e \in todo : IsFirst(e, todo) => \E n \in Copies(e.key) : n # e /\ n.val = e.val
    /\ pc = "verify" => todo \subseteq flash
    /\ pc = "reset" => \A e \in flash : e.st = "live" /\ e.rw => e \in todo

(* The image is untouched, and flash shows how far the call in progress has  *)
(* come: a node kv_set or kv_gc is about to remove has its successor, one    *)
(* kv_verify or kv_reset has still to visit is there.                        *)
ValuesInv == FactoryInv /\ CallInv

=============================================================================
